------------------------- MODULE NotificationCenter -------------------------
(***************************************************************************)
(* The publish/subscribe hub of the application                            *)
(* (messenger/NotificationCenter.java): per event an ordered list of        *)
(* observers, walked by index and called back synchronously on the main     *)
(* thread.  A callback may call every method of the hub again: it may post  *)
(* (a nested broadcast), register and unregister observers (deferred until  *)
(* the outermost broadcast ends) and start or end an animation (which       *)
(* delays posts, and broadcasts the delayed ones).                          *)
(*                                                                         *)
(* The main thread is the only actor, so what makes the code hard is        *)
(* re-entrancy.  It is modelled with an explicit call stack: the top frame  *)
(* is the method that runs, and application code runs when the stack is     *)
(* empty (a message of the main looper) or when the top frame is a          *)
(* broadcast that is calling its a-th observer.                             *)
(***************************************************************************)
EXTENDS Naturals, Sequences, FiniteSets, SequencesExt

CONSTANTS
    Observers,     \* objects that register with the hub
    Events,        \* the notification ids
    MaxPosts,      \* bound: posts made by application code
    MaxDepth,      \* bound: frames under which application code nests further
    MaxDeferred    \* bound: entries of one deferred list

ASSUME NCAssumption ==
    /\ MaxPosts \in Nat
    /\ MaxDepth \in Nat
    /\ MaxDeferred \in Nat

VARIABLES
    observers,             \* event -> list of observers, in registration order
    removeAfterBroadcast,  \* event -> removeObserver calls made while broadcasting
    addAfterBroadcast,     \* event -> addObserver calls made while broadcasting
    delayedPosts,          \* posts held back while an animation runs
    broadcasting,          \* the nesting counter
    animationInProgress,
    allowedNotifications,  \* events that are broadcast during animations too
    stack,                 \* the frames of the main thread
    crashed                \* ConcurrentModificationException ended the process

(* History variables: they record what was asked of the hub and influence  *)
(* nothing.                                                                *)
VARIABLES
    posted,     \* number of posts made so far; post n is the n-th
    runs,       \* post -> how often it was broadcast (2 stands for "again")
    intent,     \* event -> observers whose last call was addObserver
    crossed,    \* event -> observers removed after being added in one broadcast
    reentered   \* setAnimationInProgress was called while it was flushing

hub     == <<observers, removeAfterBroadcast, addAfterBroadcast>>
anim    == <<delayedPosts, animationInProgress, allowedNotifications>>
calls   == <<intent, crossed>>
history == <<posted, runs, reentered>>
vars    == <<hub, anim, broadcasting, stack, crashed, calls, history>>

-----------------------------------------------------------------------------
(* Frames of the main thread.                                              *)

PostFrame  == [kind : {"post"}, id : Events, a : Nat]
FlushFrame == [kind : {"flush"}, at : Nat, limit : Nat, stale : BOOLEAN]
DrainFrame == [kind : {"drain"}]
Frames     == PostFrame \cup FlushFrame \cup DrainFrame

Posts == [id : Events, no : Nat]

IsPost(f)  == f.kind = "post"
IsFlush(f) == f.kind = "flush"
IsDrain(f) == f.kind = "drain"

OnTop(Is(_)) == stack # <<>> /\ Is(Last(stack))

\* Application code runs: a message of the main looper, or an observer's
\* didReceivedNotification, called from the loop of a broadcast.
AppRuns ==
    /\ ~crashed
    /\ stack # <<>> => IsPost(Last(stack)) /\ Last(stack).a > 0

PostDepths(s)  == {i \in DOMAIN s : IsPost(s[i])}
FlushDepths(s) == {i \in DOMAIN s : IsFlush(s[i])}

-----------------------------------------------------------------------------
Init ==
    /\ observers = [e \in Events |-> <<>>]
    /\ removeAfterBroadcast = [e \in Events |-> <<>>]
    /\ addAfterBroadcast = [e \in Events |-> <<>>]
    /\ delayedPosts = <<>>
    /\ broadcasting = 0
    /\ animationInProgress = FALSE
    /\ allowedNotifications = {}
    /\ stack = <<>>
    /\ crashed = FALSE
    /\ posted = 0
    /\ runs = [n \in 1..MaxPosts |-> 0]
    /\ intent = [e \in Events |-> {}]
    /\ crossed = [e \in Events |-> {}]
    /\ reentered = FALSE

-----------------------------------------------------------------------------
(* Registration.                                                           *)

\* Mutant: calls are deferred in nested broadcasts only.
DeferringWhenNested == broadcasting > 1

Deferring == broadcasting # 0

AddObserver(o, e) ==
    /\ AppRuns
    /\ \/ /\ Deferring
          /\ Len(addAfterBroadcast[e]) < MaxDeferred
          /\ addAfterBroadcast' = [addAfterBroadcast EXCEPT ![e] = Append(@, o)]
          /\ UNCHANGED observers
       \/ /\ ~Deferring
          /\ observers' = [observers EXCEPT
                 ![e] = IF Contains(@, o) THEN @ ELSE Append(@, o)]
          /\ UNCHANGED addAfterBroadcast
    /\ intent' = [intent EXCEPT ![e] = @ \cup {o}]
    /\ crossed' = [crossed EXCEPT ![e] = @ \ {o}]
    /\ UNCHANGED <<removeAfterBroadcast, anim, broadcasting, stack, crashed, history>>

RemoveObserver(o, e) ==
    /\ AppRuns
    /\ \/ /\ Deferring
          /\ Len(removeAfterBroadcast[e]) < MaxDeferred
          /\ removeAfterBroadcast' = [removeAfterBroadcast EXCEPT ![e] = Append(@, o)]
          /\ UNCHANGED observers
       \/ /\ ~Deferring
          /\ observers' = [observers EXCEPT ![e] = RemoveFirst(@, o)]
          /\ UNCHANGED removeAfterBroadcast
    /\ intent' = [intent EXCEPT ![e] = @ \ {o}]
    /\ crossed' = [crossed EXCEPT
           ![e] = IF Contains(addAfterBroadcast[e], o) THEN @ \cup {o} ELSE @ \ {o}]
    /\ UNCHANGED <<addAfterBroadcast, anim, broadcasting, stack, crashed, history>>

-----------------------------------------------------------------------------
(* Posting.                                                                *)

Again(n) == IF n = 0 THEN 1 ELSE 2

\* Mutant: a broadcast leaves the nesting counter alone.
BroadcastUncounted(p, s) ==
    /\ broadcasting' = broadcasting
    /\ stack' = Append(s, [kind |-> "post", id |-> p.id, a |-> 0])
    /\ runs' = [runs EXCEPT ![p.no] = Again(@)]

\* The head of postNotificationNameInternal: post p is broadcast on top of s.
Broadcast(p, s) ==
    /\ broadcasting' = broadcasting + 1
    /\ stack' = Append(s, [kind |-> "post", id |-> p.id, a |-> 0])
    /\ runs' = [runs EXCEPT ![p.no] = Again(@)]

\* An iterator over delayedPosts fails once the list was changed under it.
Invalidate(s) ==
    [i \in DOMAIN s |-> IF IsFlush(s[i]) THEN [s[i] EXCEPT !.stale = TRUE] ELSE s[i]]

Held(e) == animationInProgress /\ e \notin allowedNotifications

PostNotificationName(e) ==
    /\ AppRuns
    /\ posted < MaxPosts
    /\ posted' = posted + 1
    /\ LET p == [id |-> e, no |-> posted + 1] IN
       \/ /\ Held(e)
          /\ delayedPosts' = Append(delayedPosts, p)
          /\ stack' = Invalidate(stack)
          /\ UNCHANGED <<broadcasting, runs>>
       \/ /\ ~Held(e)
          /\ Len(stack) < MaxDepth
          /\ Broadcast(p, stack)
          /\ UNCHANGED delayedPosts
    /\ UNCHANGED <<hub, animationInProgress, allowedNotifications, crashed, calls, reentered>>

\* The loop of a broadcast: the callback that ran (if any) returns, and the
\* next observer is called.
CallNextObserver ==
    /\ ~crashed
    /\ OnTop(IsPost)
    /\ LET f == Last(stack) IN
       /\ f.a < Len(observers[f.id])
       /\ stack' = [stack EXCEPT ![Len(stack)].a = @ + 1]
    /\ UNCHANGED <<hub, anim, broadcasting, crashed, calls, history>>

\* Mutant: every broadcast, nested or not, replays the deferred calls.
EndBroadcastDraining ==
    /\ ~crashed
    /\ OnTop(IsPost)
    /\ LET f == Last(stack) IN f.a >= Len(observers[f.id])
    /\ broadcasting' = broadcasting - 1
    /\ stack' = Append(Front(stack), [kind |-> "drain"])
    /\ UNCHANGED <<hub, anim, crashed, calls, history>>

\* The loop ends; the outermost broadcast goes on to the deferred calls.
EndBroadcast ==
    /\ ~crashed
    /\ OnTop(IsPost)
    /\ LET f == Last(stack) IN f.a >= Len(observers[f.id])
    /\ broadcasting' = broadcasting - 1
    /\ stack' = IF broadcasting = 1
                THEN Append(Front(stack), [kind |-> "drain"])
                ELSE Front(stack)
    /\ UNCHANGED <<hub, anim, crashed, calls, history>>

NoneToRemove == \A e \in Events : removeAfterBroadcast[e] = <<>>
NoneToAdd    == \A e \in Events : addAfterBroadcast[e] = <<>>

\* First every deferred removeObserver, in order ...
DrainRemove(e) ==
    /\ ~crashed
    /\ OnTop(IsDrain)
    /\ removeAfterBroadcast[e] # <<>>
    /\ observers' = [observers EXCEPT ![e] = RemoveFirst(@, Head(removeAfterBroadcast[e]))]
    /\ removeAfterBroadcast' = [removeAfterBroadcast EXCEPT ![e] = Tail(@)]
    /\ UNCHANGED <<addAfterBroadcast, anim, broadcasting, stack, crashed, calls, history>>

\* Mutant: a deferred addition does not look whether the observer is there.
DrainAddUnchecked(e) ==
    /\ ~crashed
    /\ OnTop(IsDrain)
    /\ NoneToRemove
    /\ addAfterBroadcast[e] # <<>>
    /\ observers' = [observers EXCEPT ![e] = Append(@, Head(addAfterBroadcast[e]))]
    /\ addAfterBroadcast' = [addAfterBroadcast EXCEPT ![e] = Tail(@)]
    /\ UNCHANGED <<removeAfterBroadcast, anim, broadcasting, stack, crashed, calls, history>>

\* Mutant: a deferred addition is replayed before the deferred removals.
DrainAddEarly(e) ==
    /\ ~crashed
    /\ OnTop(IsDrain)
    /\ addAfterBroadcast[e] # <<>>
    /\ LET o == Head(addAfterBroadcast[e]) IN
       observers' = [observers EXCEPT ![e] = IF Contains(@, o) THEN @ ELSE Append(@, o)]
    /\ addAfterBroadcast' = [addAfterBroadcast EXCEPT ![e] = Tail(@)]
    /\ UNCHANGED <<removeAfterBroadcast, anim, broadcasting, stack, crashed, calls, history>>

\* ... and then every deferred addObserver.
DrainAdd(e) ==
    /\ ~crashed
    /\ OnTop(IsDrain)
    /\ NoneToRemove
    /\ addAfterBroadcast[e] # <<>>
    /\ LET o == Head(addAfterBroadcast[e]) IN
       observers' = [observers EXCEPT ![e] = IF Contains(@, o) THEN @ ELSE Append(@, o)]
    /\ addAfterBroadcast' = [addAfterBroadcast EXCEPT ![e] = Tail(@)]
    /\ UNCHANGED <<removeAfterBroadcast, anim, broadcasting, stack, crashed, calls, history>>

DrainEnd ==
    /\ ~crashed
    /\ OnTop(IsDrain)
    /\ NoneToRemove /\ NoneToAdd
    /\ stack' = Front(stack)
    /\ UNCHANGED <<hub, anim, broadcasting, crashed, calls, history>>

-----------------------------------------------------------------------------
(* Animations.                                                             *)

SetAllowedNotificationsDutingAnimation(notifications) ==
    /\ AppRuns
    /\ allowedNotifications' = notifications
    /\ UNCHANGED <<hub, delayedPosts, animationInProgress, broadcasting, stack,
                   crashed, calls, history>>

\* Mutant: the flush stops one post short.
SetAnimationInProgressShort(value) ==
    /\ AppRuns
    /\ Len(stack) < MaxDepth
    /\ animationInProgress' = value
    /\ stack' = IF ~value /\ delayedPosts # <<>>
                THEN Append(stack, [kind |-> "flush", at |-> 0,
                                    limit |-> Len(delayedPosts) - 1, stale |-> FALSE])
                ELSE stack
    /\ reentered' = (reentered \/ FlushDepths(stack) # {})
    /\ UNCHANGED <<hub, delayedPosts, allowedNotifications, broadcasting, crashed,
                   calls, posted, runs>>

SetAnimationInProgress(value) ==
    /\ AppRuns
    /\ Len(stack) < MaxDepth
    /\ animationInProgress' = value
    /\ stack' = IF ~value /\ delayedPosts # <<>>
                THEN Append(stack, [kind |-> "flush", at |-> 0,
                                    limit |-> Len(delayedPosts), stale |-> FALSE])
                ELSE stack
    /\ reentered' = (reentered \/ FlushDepths(stack) # {})
    /\ UNCHANGED <<hub, delayedPosts, allowedNotifications, broadcasting, crashed,
                   calls, posted, runs>>

\* The for loop over delayedPosts: the iterator stops at the size the list had
\* when the loop began, and fails when the list has changed since.
FlushNext ==
    /\ ~crashed
    /\ OnTop(IsFlush)
    /\ LET f == Last(stack) IN
       /\ f.at < f.limit
       /\ \/ /\ f.stale
             /\ crashed' = TRUE
             /\ UNCHANGED <<broadcasting, stack, runs>>
          \/ /\ ~f.stale
             /\ Broadcast(delayedPosts[f.at + 1], [stack EXCEPT ![Len(stack)].at = @ + 1])
             /\ UNCHANGED crashed
    /\ UNCHANGED <<hub, anim, calls, posted, reentered>>

\* Mutant: the delayed posts stay in the list.
FlushEndKeeping ==
    /\ ~crashed
    /\ OnTop(IsFlush)
    /\ Last(stack).at >= Last(stack).limit
    /\ delayedPosts' = delayedPosts
    /\ stack' = Front(stack)
    /\ UNCHANGED <<hub, animationInProgress, allowedNotifications, broadcasting,
                   crashed, calls, history>>

FlushEnd ==
    /\ ~crashed
    /\ OnTop(IsFlush)
    /\ Last(stack).at >= Last(stack).limit
    /\ delayedPosts' = <<>>
    /\ stack' = Invalidate(Front(stack))
    /\ UNCHANGED <<hub, animationInProgress, allowedNotifications, broadcasting,
                   crashed, calls, history>>

-----------------------------------------------------------------------------
\* What application code asks of the hub.
App ==
    \/ \E o \in Observers, e \in Events : AddObserver(o, e) \/ RemoveObserver(o, e)
    \/ \E e \in Events : PostNotificationName(e)
    \/ \E S \in SUBSET Events : SetAllowedNotificationsDutingAnimation(S)
    \/ \E value \in BOOLEAN : SetAnimationInProgress(value)

\* What the hub's own methods do once they run.
Run ==
    \/ CallNextObserver
    \/ EndBroadcast
    \/ \E e \in Events : DrainRemove(e) \/ DrainAdd(e)
    \/ DrainEnd
    \/ FlushNext
    \/ FlushEnd

Next == App \/ Run

Spec == Init /\ [][Next]_vars

\* Observers return, so a method that runs goes on; and every animation ends
\* in a message of the main looper, which finds the stack empty.
AnimationEnds == stack = <<>> /\ SetAnimationInProgress(FALSE)
FairSpec == Spec /\ WF_vars(Run) /\ SF_vars(AnimationEnds)

-----------------------------------------------------------------------------
(* Properties.                                                             *)

TypeOK ==
    /\ observers \in [Events -> Seq(Observers)]
    /\ removeAfterBroadcast \in [Events -> Seq(Observers)]
    /\ addAfterBroadcast \in [Events -> Seq(Observers)]
    /\ delayedPosts \in Seq([id : Events, no : 1..MaxPosts])
    /\ broadcasting \in Nat
    /\ animationInProgress \in BOOLEAN
    /\ allowedNotifications \in SUBSET Events
    /\ stack \in Seq(Frames)
    /\ crashed \in BOOLEAN
    /\ posted \in 0..MaxPosts
    /\ runs \in [1..MaxPosts -> 0..2]
    /\ intent \in [Events -> SUBSET Observers]
    /\ crossed \in [Events -> SUBSET Observers]
    /\ reentered \in BOOLEAN

\* No observer is twice in the list of an event, whatever mixture of direct
\* and deferred registrations led there: it would be told of a post twice.
NoDuplicateObservers ==
    \A e \in Events : IsInjective(observers[e])

\* The lists that the loops of postNotificationNameInternal walk by index do
\* not change from the first step of the outermost broadcast to its last.
StableWhileBroadcasting ==
    [][broadcasting > 0 /\ broadcasting' > 0 => UNCHANGED observers]_vars

\* Between two messages of the main looper no call is still deferred, and the
\* observers of an event are those whose last call was addObserver: none of
\* them is lost, and the only other ones are those that were added and then
\* removed during one broadcast, whose removal ran before their addition.
RegistrationOutcome ==
    (stack = <<>>) =>
        /\ NoneToRemove /\ NoneToAdd
        /\ \A e \in Events : ToSet(observers[e]) = intent[e] \cup crossed[e]

\* Position of delayedPosts up to which the running flush has broadcast.
Flushed == IF FlushDepths(stack) = {} THEN 0 ELSE stack[Min(FlushDepths(stack))].at

Waiting(n) == \E i \in DOMAIN delayedPosts : i > Flushed /\ delayedPosts[i].no = n

\* Unless an observer starts or ends an animation while delayed posts are being
\* flushed, the loop over delayedPosts does not fail with a
\* ConcurrentModificationException, and every post is broadcast exactly once or
\* still waits in delayedPosts, whatever the observers of the flushed posts post
\* themselves: delaying neither loses nor repeats a post.
PostedExactlyOnce ==
    ~reentered =>
        /\ ~crashed
        /\ \A n \in 1..posted : runs[n] = IF Waiting(n) THEN 0 ELSE 1

\* The hub as a set of observers per event, with whole broadcasts as sets of
\* observers still to be told.  While the deferred calls are replayed, the
\* registration the users see is the one the replay ends with.
Settled(e) ==
    IF broadcasting = 0
    THEN (ToSet(observers[e]) \ ToSet(removeAfterBroadcast[e]))
             \cup ToSet(addAfterBroadcast[e])
    ELSE ToSet(observers[e])

Pending(deferred) ==
    [e \in Events |-> IF broadcasting = 0 THEN {} ELSE ToSet(deferred[e])]

StillToTell(f) == {observers[f.id][i] : i \in (f.a + 1)..Len(observers[f.id])}

Bus == INSTANCE EventBus WITH
    Depths     <- 1..(MaxDepth + 1),
    registered <- [e \in Events |-> Settled(e)],
    joining    <- Pending(addAfterBroadcast),
    leaving    <- Pending(removeAfterBroadcast),
    ongoing    <- {[depth |-> i, id |-> stack[i].id, todo |-> StillToTell(stack[i])]
                      : i \in PostDepths(stack)}

\* postNotificationName, addObserver and removeObserver, with their index
\* loops, nesting counter and deferred lists, implement the abstract bus.
ImplementsBus == Bus!Spec

\* Every post is broadcast in the end, delayed or not, if callbacks return
\* and animations end (and no observer re-enters the flush).
EventuallyBroadcast ==
    \A n \in 1..MaxPosts : (posted >= n) ~> (runs[n] > 0 \/ reentered)

=============================================================================
