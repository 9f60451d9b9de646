---------------------- MODULE NotificationCenterProofs ----------------------
(***************************************************************************)
(* The safety properties of NotificationCenter for every set of observers  *)
(* and events and every bound.                                             *)
(*                                                                         *)
(* The inductive invariant ties the nesting counter to the call stack: the *)
(* counter is the number of broadcasts on the stack, so the deferral of    *)
(* registrations covers exactly the time in which some loop is walking a   *)
(* list. A second invariant numbers the posts and shows that every one of  *)
(* them is broadcast once or waits; the last part is the refinement: to    *)
(* whoever registers with it, the hub is an EventBus.                      *)
(***************************************************************************)
EXTENDS NotificationCenter, ListLemmas

\* broadcasting counts the broadcasts that are on the stack.
CountsBroadcasts == broadcasting = Cardinality(PostDepths(stack))

\* Deferred calls are replayed at the top of the stack, by no broadcast.
DrainsAlone ==
    \A i \in DOMAIN stack : IsDrain(stack[i]) => i = Len(stack) /\ PostDepths(stack) = {}

\* Nothing stays deferred when neither a broadcast nor the replay runs.
DeferredIsTransient ==
    (broadcasting = 0 /\ ~OnTop(IsDrain)) => NoneToRemove /\ NoneToAdd

\* What the lists will hold once every deferred call is replayed.
IntentKept ==
    \A e \in Events :
        (ToSet(observers[e]) \ ToSet(removeAfterBroadcast[e])) \cup ToSet(addAfterBroadcast[e])
            = intent[e] \cup crossed[e]

\* A flush iterates over the list as it was, or knows that it changed.
FlushesKnowTheList ==
    \A i \in FlushDepths(stack) :
        /\ stack[i].at <= stack[i].limit
        /\ stack[i].stale \/ stack[i].limit = Len(delayedPosts)

\* Unless an observer re-enters a flush, there is at most one, no animation
\* runs meanwhile, and so the list does not change under it.
FlushUndisturbed ==
    ~reentered =>
        /\ ~crashed
        /\ FlushDepths(stack) # {} => ~animationInProgress
        /\ \A i \in FlushDepths(stack) : ~stack[i].stale
        /\ \A i, j \in FlushDepths(stack) : i = j

IInv ==
    /\ TypeOK
    /\ CountsBroadcasts
    /\ DrainsAlone
    /\ DeferredIsTransient
    /\ NoDuplicateObservers
    /\ IntentKept
    /\ FlushesKnowTheList
    /\ FlushUndisturbed

-----------------------------------------------------------------------------
(* The call stack.                                                         *)

\* Every frame has one of the three kinds.
LEMMA FrameKinds ==
    ASSUME NEW f \in Frames
    PROVE  /\ IsPost(f) => f \in PostFrame /\ ~IsFlush(f) /\ ~IsDrain(f)
           /\ IsFlush(f) => f \in FlushFrame /\ ~IsPost(f) /\ ~IsDrain(f)
           /\ IsDrain(f) => f \in DrainFrame /\ ~IsPost(f) /\ ~IsFlush(f)
BY DEF Frames, PostFrame, FlushFrame, DrainFrame, IsPost, IsFlush, IsDrain

\* The depths of a kind of frame are a finite set.
LEMMA DepthsFinite ==
    ASSUME NEW s \in Seq(Frames)
    PROVE  /\ PostDepths(s) \subseteq 1..Len(s) /\ FlushDepths(s) \subseteq 1..Len(s)
           /\ IsFiniteSet(PostDepths(s))
           /\ Cardinality(PostDepths(s)) \in Nat
           /\ Cardinality(PostDepths(s)) = 0 <=> PostDepths(s) = {}
<1>1. PostDepths(s) \subseteq 1..Len(s) /\ FlushDepths(s) \subseteq 1..Len(s)
  BY DEF PostDepths, FlushDepths
<1>2. IsFiniteSet(1..Len(s))
  BY FS_Interval
<1>3. IsFiniteSet(PostDepths(s))
  BY <1>1, <1>2, FS_Subset
<1>4. QED
  BY <1>1, <1>3, FS_CardinalityType, FS_EmptySet

\* A frame is pushed.
LEMMA PushFrame ==
    ASSUME NEW s \in Seq(Frames), NEW f \in Frames
    PROVE  LET t == Append(s, f) IN
           /\ t \in Seq(Frames)
           /\ t # <<>>
           /\ Len(t) = Len(s) + 1
           /\ Last(t) = f
           /\ t[Len(s) + 1] = f
           /\ \A i \in 1..Len(s) : t[i] = s[i]
           /\ PostDepths(t) = IF IsPost(f) THEN PostDepths(s) \cup {Len(s) + 1} ELSE PostDepths(s)
           /\ FlushDepths(t) = IF IsFlush(f) THEN FlushDepths(s) \cup {Len(s) + 1} ELSE FlushDepths(s)
<1> DEFINE t == Append(s, f)
<1>1. /\ t \in Seq(Frames) /\ t # <<>> /\ Len(t) = Len(s) + 1 /\ Len(s) \in Nat
      /\ t[Len(s) + 1] = f
      /\ DOMAIN t = 1..(Len(s) + 1) /\ DOMAIN s = 1..Len(s)
      /\ \A i \in 1..Len(s) : t[i] = s[i]
  OBVIOUS
<1> HIDE DEF t
<1>2. Last(t) = f
  BY <1>1 DEF Last
<1>3. \A i : i \in 1..(Len(s) + 1) <=> i \in 1..Len(s) \/ i = Len(s) + 1
  BY <1>1
<1>4. Len(s) + 1 \notin 1..Len(s)
  BY <1>1
<1>5. PostDepths(t) = IF IsPost(f) THEN PostDepths(s) \cup {Len(s) + 1} ELSE PostDepths(s)
  BY <1>1, <1>3, <1>4 DEF PostDepths
<1>6. FlushDepths(t) = IF IsFlush(f) THEN FlushDepths(s) \cup {Len(s) + 1} ELSE FlushDepths(s)
  BY <1>1, <1>3, <1>4 DEF FlushDepths
<1>7. QED
  BY <1>1, <1>2, <1>5, <1>6 DEF t

\* The top frame is popped.
LEMMA PopFrame ==
    ASSUME NEW s \in Seq(Frames), s # <<>>
    PROVE  LET t == Front(s) IN
           /\ t \in Seq(Frames)
           /\ Len(s) \in Nat \ {0}
           /\ Len(t) = Len(s) - 1
           /\ Last(s) = s[Len(s)]
           /\ Last(s) \in Frames
           /\ \A i \in 1..Len(t) : t[i] = s[i]
           /\ PostDepths(t) = PostDepths(s) \ {Len(s)}
           /\ FlushDepths(t) = FlushDepths(s) \ {Len(s)}
<1> DEFINE t == Front(s)
<1>1. /\ t \in Seq(Frames) /\ Len(s) \in Nat \ {0} /\ Len(t) = Len(s) - 1
      /\ Last(s) = s[Len(s)] /\ Last(s) \in Frames
      /\ \A i \in 1..(Len(s) - 1) : t[i] = s[i]
  BY FrontOfSeq
<1> HIDE DEF t
<1>2. DOMAIN t = 1..(Len(s) - 1) /\ DOMAIN s = 1..Len(s)
  BY <1>1
<1>3. \A i : i \in 1..(Len(s) - 1) <=> i \in 1..Len(s) /\ i # Len(s)
  BY <1>1
<1>4. PostDepths(t) = PostDepths(s) \ {Len(s)}
  BY <1>1, <1>2, <1>3 DEF PostDepths
<1>5. FlushDepths(t) = FlushDepths(s) \ {Len(s)}
  BY <1>1, <1>2, <1>3 DEF FlushDepths
<1>6. QED
  BY <1>1, <1>4, <1>5 DEF t

\* A field of the top frame changes, and no frame's kind.
LEMMA UpdateTop ==
    ASSUME NEW s \in Seq(Frames), s # <<>>, NEW f \in Frames,
           f.kind = Last(s).kind,
           NEW t, t = [s EXCEPT ![Len(s)] = f]
    PROVE  /\ t \in Seq(Frames)
           /\ Len(t) = Len(s)
           /\ Len(s) \in Nat \ {0}
           /\ Last(t) = f
           /\ t[Len(s)] = f
           /\ \A i \in 1..Len(s) : t[i] = IF i = Len(s) THEN f ELSE s[i]
           /\ PostDepths(t) = PostDepths(s)
           /\ FlushDepths(t) = FlushDepths(s)
<1>1. Len(s) \in Nat \ {0} /\ Last(s) = s[Len(s)] /\ Len(s) \in 1..Len(s)
  BY EmptySeq DEF Last
<1>2. /\ t \in Seq(Frames) /\ Len(t) = Len(s)
      /\ \A i \in 1..Len(s) : t[i] = IF i = Len(s) THEN f ELSE s[i]
  BY <1>1, ExceptSeq
<1>3. DOMAIN t = 1..Len(s) /\ DOMAIN s = 1..Len(s)
  BY <1>2
<1>4. PostDepths(t) = PostDepths(s) /\ FlushDepths(t) = FlushDepths(s)
  BY <1>1, <1>2, <1>3 DEF PostDepths, FlushDepths, IsPost, IsFlush
<1>5. Last(t) = f
  BY <1>1, <1>2 DEF Last
<1>6. QED
  BY <1>1, <1>2, <1>4, <1>5

\* Iterators are invalidated: flush frames get stale, nothing else changes.
LEMMA InvalidateFrames ==
    ASSUME NEW s \in Seq(Frames)
    PROVE  LET t == Invalidate(s) IN
           /\ t \in Seq(Frames)
           /\ Len(t) = Len(s)
           /\ \A i \in 1..Len(s) :
                  /\ ~IsFlush(s[i]) => t[i] = s[i]
                  /\ IsFlush(s[i]) => /\ t[i] \in FlushFrame
                                      /\ t[i].at = s[i].at
                                      /\ t[i].limit = s[i].limit
                                      /\ t[i].stale
                  /\ t[i].kind = s[i].kind
           /\ PostDepths(t) = PostDepths(s)
           /\ FlushDepths(t) = FlushDepths(s)
<1> DEFINE t == Invalidate(s)
<1>1. t = [i \in 1..Len(s) |-> IF IsFlush(s[i]) THEN [s[i] EXCEPT !.stale = TRUE] ELSE s[i]]
  BY DEF Invalidate
<1>2. DOMAIN t = 1..Len(s) /\ DOMAIN s = 1..Len(s) /\ Len(s) \in Nat
  BY <1>1
<1>3. ASSUME NEW i \in 1..Len(s)
      PROVE  /\ t[i] \in Frames
             /\ ~IsFlush(s[i]) => t[i] = s[i]
             /\ IsFlush(s[i]) => /\ t[i] \in FlushFrame
                                 /\ t[i].at = s[i].at
                                 /\ t[i].limit = s[i].limit
                                 /\ t[i].stale
             /\ t[i].kind = s[i].kind
  <2>1. s[i] \in Frames
    OBVIOUS
  <2>2. CASE IsFlush(s[i])
    <3>1. s[i] \in FlushFrame /\ t[i] = [s[i] EXCEPT !.stale = TRUE]
      BY <1>1, <2>1, <2>2, FrameKinds
    <3>2. QED
      BY <2>2, <3>1 DEF Frames, FlushFrame, IsFlush
  <2>3. CASE ~IsFlush(s[i])
    BY <1>1, <2>1, <2>3
  <2>4. QED
    BY <2>2, <2>3
<1>4. t \in Seq(Frames) /\ Len(t) = Len(s)
  BY <1>1, <1>2, <1>3
<1> HIDE DEF t
<1>5. PostDepths(t) = PostDepths(s) /\ FlushDepths(t) = FlushDepths(s)
  BY <1>2, <1>3 DEF PostDepths, FlushDepths, IsPost, IsFlush
<1>6. QED
  BY <1>3, <1>4, <1>5 DEF t

-----------------------------------------------------------------------------
(* The initial states.                                                     *)

LEMMA InitIInv == Init => IInv
<1> SUFFICES ASSUME Init
             PROVE  IInv
  OBVIOUS
<1> USE NCAssumption DEF Init
<1>1. PostDepths(stack) = {} /\ FlushDepths(stack) = {} /\ DOMAIN stack = {}
  BY DEF PostDepths, FlushDepths
<1>2. TypeOK
  <2>1. <<>> \in Seq(Observers) /\ <<>> \in Seq(Frames) /\ <<>> \in Seq([id : Events, no : 1..MaxPosts])
    BY EmptySeq
  <2>2. 0 \in 0..MaxPosts /\ 0 \in 0..2
    OBVIOUS
  <2>3. QED
    BY <2>1, <2>2 DEF TypeOK
<1>3. CountsBroadcasts
  BY <1>1, FS_EmptySet DEF CountsBroadcasts
<1>4. DrainsAlone /\ FlushesKnowTheList /\ FlushUndisturbed
  BY <1>1 DEF DrainsAlone, FlushesKnowTheList, FlushUndisturbed
<1>5. DeferredIsTransient
  BY DEF DeferredIsTransient, NoneToRemove, NoneToAdd
<1>6. NoDuplicateObservers
  BY DEF NoDuplicateObservers, IsInjective
<1>7. IntentKept
  BY DEF IntentKept, ToSet
<1>8. QED
  BY <1>2, <1>3, <1>4, <1>5, <1>6, <1>7 DEF IInv

-----------------------------------------------------------------------------
(* Steps of application code.                                              *)

\* Application code is never run by the replay of deferred calls, and it
\* finds nothing deferred when no broadcast runs.
LEMMA AppFindsNothingDeferred ==
    ASSUME IInv, AppRuns, ~Deferring
    PROVE  /\ broadcasting = 0
           /\ NoneToRemove /\ NoneToAdd
<1>1. ~OnTop(IsDrain)
  BY DEF AppRuns, OnTop, IsPost, IsDrain
<1>2. QED
  BY <1>1 DEF IInv, DeferredIsTransient, Deferring

LEMMA AddObserverIInv ==
    ASSUME IInv, NEW o \in Observers, NEW e \in Events, AddObserver(o, e)
    PROVE  IInv'
<1> DEFINE list == observers[e]
           late == addAfterBroadcast[e]
<1>1. /\ UNCHANGED <<removeAfterBroadcast, delayedPosts, animationInProgress,
                     allowedNotifications, broadcasting, stack, crashed, posted,
                     runs, reentered>>
      /\ intent' = [intent EXCEPT ![e] = @ \cup {o}]
      /\ crossed' = [crossed EXCEPT ![e] = @ \ {o}]
      /\ AppRuns
  BY DEF AddObserver, anim, history
<1>2. TypeOK
  BY DEF IInv
<1>3. list \in Seq(Observers) /\ late \in Seq(Observers) /\ IsInjective(list)
  BY <1>2 DEF TypeOK, IInv, NoDuplicateObservers
<1>4. CASE Deferring
  <2>1. /\ observers' = observers
        /\ addAfterBroadcast' = [addAfterBroadcast EXCEPT ![e] = Append(late, o)]
        /\ broadcasting # 0
    BY <1>4 DEF AddObserver, Deferring
  <2>2. Append(late, o) \in Seq(Observers) /\ ToSet(Append(late, o)) = ToSet(late) \cup {o}
    BY <1>3, ToSetOfAppend
  <2>3. TypeOK'
    BY <1>1, <1>2, <2>1, <2>2 DEF TypeOK
  <2>4. IntentKept'
    <3> SUFFICES ASSUME NEW d \in Events
                 PROVE  (ToSet(observers[d]') \ ToSet(removeAfterBroadcast[d]'))
                            \cup ToSet(addAfterBroadcast[d]') = intent[d]' \cup crossed[d]'
      BY DEF IntentKept
    <3>1. (ToSet(observers[d]) \ ToSet(removeAfterBroadcast[d])) \cup ToSet(addAfterBroadcast[d])
              = intent[d] \cup crossed[d]
      BY DEF IInv, IntentKept
    <3>2. CASE d # e
      BY <1>1, <1>2, <2>1, <3>1, <3>2 DEF TypeOK
    <3>3. CASE d = e
      BY <1>1, <1>2, <2>1, <2>2, <3>1, <3>3 DEF TypeOK
    <3>4. QED
      BY <3>2, <3>3
  <2>5. CountsBroadcasts' /\ DrainsAlone' /\ FlushesKnowTheList' /\ FlushUndisturbed'
    BY <1>1 DEF IInv, CountsBroadcasts, DrainsAlone, FlushesKnowTheList, FlushUndisturbed
  <2>6. DeferredIsTransient' /\ NoDuplicateObservers'
    BY <1>1, <2>1 DEF IInv, DeferredIsTransient, NoDuplicateObservers
  <2>7. QED
    BY <2>3, <2>4, <2>5, <2>6 DEF IInv
<1>5. CASE ~Deferring
  <2> DEFINE new == IF Contains(list, o) THEN list ELSE Append(list, o)
  <2>1. /\ observers' = [observers EXCEPT ![e] = new]
        /\ addAfterBroadcast' = addAfterBroadcast
    BY <1>5 DEF AddObserver
  <2>2. broadcasting = 0 /\ NoneToRemove /\ NoneToAdd
    BY <1>1, <1>5, AppFindsNothingDeferred
  <2>3. /\ new \in Seq(Observers)
        /\ IsInjective(new)
        /\ ToSet(new) = ToSet(list) \cup {o}
    BY <1>3, ToSetOfAppend, AppendToDistinct, ContainsToSet
  <2> HIDE DEF new
  <2>4. TypeOK'
    BY <1>1, <1>2, <2>1, <2>3 DEF TypeOK
  <2>5. IntentKept'
    <3> SUFFICES ASSUME NEW d \in Events
                 PROVE  (ToSet(observers[d]') \ ToSet(removeAfterBroadcast[d]'))
                            \cup ToSet(addAfterBroadcast[d]') = intent[d]' \cup crossed[d]'
      BY DEF IntentKept
    <3>1. (ToSet(observers[d]) \ ToSet(removeAfterBroadcast[d])) \cup ToSet(addAfterBroadcast[d])
              = intent[d] \cup crossed[d]
      BY DEF IInv, IntentKept
    <3>2. ToSet(removeAfterBroadcast[d]) = {} /\ ToSet(addAfterBroadcast[d]) = {}
      BY <2>2 DEF NoneToRemove, NoneToAdd, ToSet
    <3>3. CASE d # e
      BY <1>1, <1>2, <2>1, <3>1, <3>3 DEF TypeOK
    <3>4. CASE d = e
      BY <1>1, <1>2, <2>1, <2>3, <3>1, <3>2, <3>4 DEF TypeOK
    <3>5. QED
      BY <3>3, <3>4
  <2>6. CountsBroadcasts' /\ DrainsAlone' /\ FlushesKnowTheList' /\ FlushUndisturbed'
    BY <1>1 DEF IInv, CountsBroadcasts, DrainsAlone, FlushesKnowTheList, FlushUndisturbed
  <2>7. NoDuplicateObservers'
    BY <1>2, <2>1, <2>3 DEF IInv, NoDuplicateObservers, TypeOK
  <2>8. DeferredIsTransient'
    BY <1>1, <2>1, <2>2 DEF DeferredIsTransient, NoneToRemove, NoneToAdd
  <2>9. QED
    BY <2>4, <2>5, <2>6, <2>7, <2>8 DEF IInv
<1>6. QED
  BY <1>4, <1>5

LEMMA RemoveObserverIInv ==
    ASSUME IInv, NEW o \in Observers, NEW e \in Events, RemoveObserver(o, e)
    PROVE  IInv'
<1> DEFINE list == observers[e]
           late == removeAfterBroadcast[e]
<1>1. /\ UNCHANGED <<addAfterBroadcast, delayedPosts, animationInProgress,
                     allowedNotifications, broadcasting, stack, crashed, posted,
                     runs, reentered>>
      /\ intent' = [intent EXCEPT ![e] = @ \ {o}]
      /\ crossed' = [crossed EXCEPT ![e] =
             IF Contains(addAfterBroadcast[e], o) THEN @ \cup {o} ELSE @ \ {o}]
      /\ AppRuns
  BY DEF RemoveObserver, anim, history
<1>2. TypeOK
  BY DEF IInv
<1>3. list \in Seq(Observers) /\ late \in Seq(Observers) /\ IsInjective(list)
  BY <1>2 DEF TypeOK, IInv, NoDuplicateObservers
<1>4. Contains(addAfterBroadcast[e], o) <=> o \in ToSet(addAfterBroadcast[e])
  BY ContainsToSet
<1>5. CASE Deferring
  <2>1. /\ observers' = observers
        /\ removeAfterBroadcast' = [removeAfterBroadcast EXCEPT ![e] = Append(late, o)]
        /\ broadcasting # 0
    BY <1>5 DEF RemoveObserver, Deferring
  <2>2. Append(late, o) \in Seq(Observers) /\ ToSet(Append(late, o)) = ToSet(late) \cup {o}
    BY <1>3, ToSetOfAppend
  <2>3. TypeOK'
    BY <1>1, <1>2, <2>1, <2>2 DEF TypeOK
  <2>4. IntentKept'
    <3> SUFFICES ASSUME NEW d \in Events
                 PROVE  (ToSet(observers[d]') \ ToSet(removeAfterBroadcast[d]'))
                            \cup ToSet(addAfterBroadcast[d]') = intent[d]' \cup crossed[d]'
      BY DEF IntentKept
    <3>1. (ToSet(observers[d]) \ ToSet(removeAfterBroadcast[d])) \cup ToSet(addAfterBroadcast[d])
              = intent[d] \cup crossed[d]
      BY DEF IInv, IntentKept
    <3>2. CASE d # e
      BY <1>1, <1>2, <2>1, <3>1, <3>2 DEF TypeOK
    <3>3. CASE d = e
      BY <1>1, <1>2, <1>4, <2>1, <2>2, <3>1, <3>3 DEF TypeOK
    <3>4. QED
      BY <3>2, <3>3
  <2>5. CountsBroadcasts' /\ DrainsAlone' /\ FlushesKnowTheList' /\ FlushUndisturbed'
    BY <1>1 DEF IInv, CountsBroadcasts, DrainsAlone, FlushesKnowTheList, FlushUndisturbed
  <2>6. DeferredIsTransient' /\ NoDuplicateObservers'
    BY <1>1, <2>1 DEF IInv, DeferredIsTransient, NoDuplicateObservers
  <2>7. QED
    BY <2>3, <2>4, <2>5, <2>6 DEF IInv
<1>6. CASE ~Deferring
  <2> DEFINE new == RemoveFirst(list, o)
  <2>1. /\ observers' = [observers EXCEPT ![e] = new]
        /\ removeAfterBroadcast' = removeAfterBroadcast
    BY <1>6 DEF RemoveObserver
  <2>2. broadcasting = 0 /\ NoneToRemove /\ NoneToAdd
    BY <1>1, <1>6, AppFindsNothingDeferred
  <2>3. /\ new \in Seq(Observers)
        /\ IsInjective(new)
        /\ ToSet(new) = ToSet(list) \ {o}
    BY <1>3, RemoveFirstOfDistinct
  <2> HIDE DEF new
  <2>4. TypeOK'
    BY <1>1, <1>2, <2>1, <2>3 DEF TypeOK
  <2>5. IntentKept'
    <3> SUFFICES ASSUME NEW d \in Events
                 PROVE  (ToSet(observers[d]') \ ToSet(removeAfterBroadcast[d]'))
                            \cup ToSet(addAfterBroadcast[d]') = intent[d]' \cup crossed[d]'
      BY DEF IntentKept
    <3>1. (ToSet(observers[d]) \ ToSet(removeAfterBroadcast[d])) \cup ToSet(addAfterBroadcast[d])
              = intent[d] \cup crossed[d]
      BY DEF IInv, IntentKept
    <3>2. ToSet(removeAfterBroadcast[d]) = {} /\ ToSet(addAfterBroadcast[d]) = {}
      BY <2>2 DEF NoneToRemove, NoneToAdd, ToSet
    <3>3. CASE d # e
      BY <1>1, <1>2, <2>1, <3>1, <3>3 DEF TypeOK
    <3>4. CASE d = e
      BY <1>1, <1>2, <1>4, <2>1, <2>3, <3>1, <3>2, <3>4 DEF TypeOK
    <3>5. QED
      BY <3>3, <3>4
  <2>6. CountsBroadcasts' /\ DrainsAlone' /\ FlushesKnowTheList' /\ FlushUndisturbed'
    BY <1>1 DEF IInv, CountsBroadcasts, DrainsAlone, FlushesKnowTheList, FlushUndisturbed
  <2>7. NoDuplicateObservers'
    BY <1>2, <2>1, <2>3 DEF IInv, NoDuplicateObservers, TypeOK
  <2>8. DeferredIsTransient'
    BY <1>1, <2>1, <2>2 DEF DeferredIsTransient, NoneToRemove, NoneToAdd
  <2>9. QED
    BY <2>4, <2>5, <2>6, <2>7, <2>8 DEF IInv
<1>7. QED
  BY <1>5, <1>6

\* The part of the invariant that reads only the lists and the counter holds
\* on when the lists, the counter and the intents do not change and no replay
\* starts or ends.
LEMMA ListsUntouched ==
    ASSUME IInv, UNCHANGED <<hub, calls>>
    PROVE  NoDuplicateObservers' /\ IntentKept'
BY DEF IInv, NoDuplicateObservers, IntentKept, hub, calls

\* A broadcast starts on top of a stack s that no replay tops.
LEMMA BroadcastStarts ==
    ASSUME IInv,
           NEW p \in [id : Events, no : 1..MaxPosts],
           NEW s \in Seq(Frames),
           PostDepths(s) = PostDepths(stack),
           \A i \in DOMAIN s : ~IsDrain(s[i]),
           Broadcast(p, s),
           UNCHANGED <<observers, removeAfterBroadcast, addAfterBroadcast>>
    PROVE  /\ broadcasting' \in Nat
           /\ runs' \in [1..MaxPosts -> 0..2]
           /\ stack' \in Seq(Frames)
           /\ FlushDepths(stack') = FlushDepths(s)
           /\ \A i \in 1..Len(s) : stack'[i] = s[i]
           /\ CountsBroadcasts'
           /\ DrainsAlone'
           /\ DeferredIsTransient'
<1> DEFINE f == [kind |-> "post", id |-> p.id, a |-> 0]
<1>1. /\ broadcasting' = broadcasting + 1
      /\ stack' = Append(s, f)
      /\ runs' = [runs EXCEPT ![p.no] = Again(@)]
  BY DEF Broadcast
<1>2. f \in PostFrame /\ f \in Frames /\ IsPost(f) /\ ~IsFlush(f) /\ ~IsDrain(f)
  BY DEF Frames, PostFrame, IsPost, IsFlush, IsDrain
<1> HIDE DEF f
<1>3. /\ stack' \in Seq(Frames)
      /\ stack' # <<>>
      /\ Len(stack') = Len(s) + 1
      /\ Last(stack') = f
      /\ stack'[Len(s) + 1] = f
      /\ \A i \in 1..Len(s) : stack'[i] = s[i]
      /\ PostDepths(stack') = PostDepths(s) \cup {Len(s) + 1}
      /\ FlushDepths(stack') = FlushDepths(s)
  BY <1>1, <1>2, PushFrame
<1>4. /\ broadcasting \in Nat
      /\ broadcasting = Cardinality(PostDepths(stack))
      /\ runs \in [1..MaxPosts -> 0..2]
  BY DEF IInv, TypeOK, CountsBroadcasts
<1>5. runs' \in [1..MaxPosts -> 0..2]
  BY <1>1, <1>4 DEF Again
<1>6. CountsBroadcasts'
  <2>1. IsFiniteSet(PostDepths(s)) /\ PostDepths(s) \subseteq 1..Len(s)
    BY DepthsFinite
  <2>2. Len(s) \in Nat
    OBVIOUS
  <2>3. Len(s) + 1 \notin PostDepths(s)
    BY <2>1, <2>2
  <2>4. Cardinality(PostDepths(s) \cup {Len(s) + 1}) = Cardinality(PostDepths(s)) + 1
    BY <2>1, <2>3, FS_AddElement
  <2>5. Cardinality(PostDepths(stack')) = Cardinality(PostDepths(s)) + 1
    BY <1>3, <2>4, Zenon
  <2>6. Cardinality(PostDepths(s)) = broadcasting
    BY <1>4, Zenon
  <2>7. QED
    BY <1>1, <1>4, <2>5, <2>6 DEF CountsBroadcasts
<1>7. DrainsAlone'
  <2>1. \A i \in DOMAIN stack' : ~IsDrain(stack'[i])
    <3>1. DOMAIN stack' = 1..(Len(s) + 1) /\ DOMAIN s = 1..Len(s) /\ Len(s) \in Nat
      BY <1>3
    <3>2. \A i \in 1..(Len(s) + 1) : i \in 1..Len(s) \/ i = Len(s) + 1
      BY <3>1
    <3>3. QED
      BY <1>2, <1>3, <3>1, <3>2
  <2>2. QED
    BY <2>1 DEF DrainsAlone
<1>8. DeferredIsTransient'
  BY <1>1, <1>4 DEF DeferredIsTransient
<1>9. QED
  BY <1>1, <1>3, <1>4, <1>5, <1>6, <1>7, <1>8

\* No frame is a replay while application code runs or a flush goes on.
LEMMA NoDrainBelow ==
    ASSUME IInv, stack # <<>> => ~IsDrain(Last(stack))
    PROVE  \A i \in DOMAIN stack : ~IsDrain(stack[i])
<1> SUFFICES ASSUME NEW i \in DOMAIN stack, IsDrain(stack[i])
             PROVE  FALSE
  OBVIOUS
<1>1. i = Len(stack) /\ stack \in Seq(Frames)
  BY DEF IInv, DrainsAlone, TypeOK
<1>2. stack # <<>> /\ Last(stack) = stack[i]
  BY <1>1 DEF Last
<1>3. QED
  BY <1>2

LEMMA PostNotificationNameIInv ==
    ASSUME IInv, NEW e \in Events, PostNotificationName(e)
    PROVE  IInv'
<1> DEFINE p == [id |-> e, no |-> posted + 1]
<1>1. /\ UNCHANGED <<hub, animationInProgress, allowedNotifications, crashed, calls, reentered>>
      /\ AppRuns /\ posted < MaxPosts /\ posted' = posted + 1
  BY DEF PostNotificationName
<1>2. TypeOK
  BY DEF IInv
<1>3. /\ p \in [id : Events, no : 1..MaxPosts]
      /\ posted' \in 0..MaxPosts
  BY <1>1, <1>2, NCAssumption DEF TypeOK
<1>4. stack \in Seq(Frames)
  BY <1>2 DEF TypeOK
<1>5. ~OnTop(IsDrain) /\ (stack # <<>> => ~IsDrain(Last(stack)))
  BY <1>1 DEF AppRuns, OnTop, IsPost, IsDrain
<1>6. CASE Held(e)
  <2>1. /\ delayedPosts' = Append(delayedPosts, p)
        /\ stack' = Invalidate(stack)
        /\ UNCHANGED <<broadcasting, runs>>
        /\ animationInProgress
    BY <1>6 DEF PostNotificationName, Held
  <2>2. /\ stack' \in Seq(Frames)
        /\ Len(stack') = Len(stack)
        /\ \A i \in 1..Len(stack) :
               /\ ~IsFlush(stack[i]) => stack'[i] = stack[i]
               /\ IsFlush(stack[i]) => /\ stack'[i] \in FlushFrame
                                       /\ stack'[i].at = stack[i].at
                                       /\ stack'[i].limit = stack[i].limit
                                       /\ stack'[i].stale
               /\ stack'[i].kind = stack[i].kind
        /\ PostDepths(stack') = PostDepths(stack)
        /\ FlushDepths(stack') = FlushDepths(stack)
    BY <1>4, <2>1, InvalidateFrames
  <2>3. TypeOK'
    <3>1. delayedPosts' \in Seq([id : Events, no : 1..MaxPosts])
      BY <1>2, <1>3, <2>1 DEF TypeOK
    <3>2. QED
      BY <1>1, <1>2, <1>3, <2>1, <2>2, <3>1 DEF TypeOK, hub, calls
  <2>4. CountsBroadcasts'
    BY <2>1, <2>2 DEF IInv, CountsBroadcasts
  <2>5. \A i \in DOMAIN stack' : ~IsDrain(stack'[i])
    <3>1. \A i \in DOMAIN stack : ~IsDrain(stack[i])
      BY <1>5, NoDrainBelow
    <3>2. DOMAIN stack' = 1..Len(stack) /\ DOMAIN stack = 1..Len(stack)
      BY <1>4, <2>2
    <3>3. QED
      BY <2>2, <3>1, <3>2 DEF IsDrain
  <2>6. DrainsAlone'
    BY <2>5 DEF DrainsAlone
  <2>7. DeferredIsTransient'
    BY <1>1, <1>5, <2>1 DEF IInv, DeferredIsTransient, NoneToRemove, NoneToAdd, hub
  <2>8. FlushesKnowTheList'
    <3>1. FlushDepths(stack) \subseteq 1..Len(stack)
      BY <1>4, DepthsFinite
    <3>2. \A i \in FlushDepths(stack) : IsFlush(stack[i])
      BY DEF FlushDepths
    <3>3. QED
      BY <2>2, <3>1, <3>2 DEF IInv, FlushesKnowTheList
  <2>9. FlushUndisturbed'
    BY <1>1, <2>1, <2>2 DEF IInv, FlushUndisturbed
  <2>10. QED
    BY <1>1, <2>3, <2>4, <2>6, <2>7, <2>8, <2>9, ListsUntouched DEF IInv
<1>7. CASE ~Held(e)
  <2>1. Broadcast(p, stack) /\ UNCHANGED delayedPosts
    BY <1>7 DEF PostNotificationName
  <2> HIDE DEF p
  <2>2. /\ broadcasting' \in Nat
        /\ runs' \in [1..MaxPosts -> 0..2]
        /\ stack' \in Seq(Frames)
        /\ FlushDepths(stack') = FlushDepths(stack)
        /\ \A i \in 1..Len(stack) : stack'[i] = stack[i]
        /\ CountsBroadcasts' /\ DrainsAlone' /\ DeferredIsTransient'
    <3>1. \A i \in DOMAIN stack : ~IsDrain(stack[i])
      BY <1>5, NoDrainBelow
    <3>2. QED
      BY <1>1, <1>3, <1>4, <2>1, <3>1, BroadcastStarts DEF hub
  <2>3. TypeOK'
    BY <1>1, <1>2, <1>3, <2>1, <2>2 DEF TypeOK, hub, calls
  <2>4. FlushDepths(stack) \subseteq 1..Len(stack)
    BY <1>4, DepthsFinite
  <2>5. FlushesKnowTheList'
    BY <2>1, <2>2, <2>4 DEF IInv, FlushesKnowTheList
  <2>6. FlushUndisturbed'
    BY <1>1, <2>2, <2>4 DEF IInv, FlushUndisturbed
  <2>7. QED
    BY <1>1, <2>2, <2>3, <2>5, <2>6, ListsUntouched DEF IInv
<1>8. QED
  BY <1>6, <1>7

LEMMA SetAllowedIInv ==
    ASSUME IInv, NEW S \in SUBSET Events, SetAllowedNotificationsDutingAnimation(S)
    PROVE  IInv'
<1>1. /\ UNCHANGED <<hub, delayedPosts, animationInProgress, broadcasting, stack,
                     crashed, calls, history>>
      /\ allowedNotifications' = S
  BY DEF SetAllowedNotificationsDutingAnimation
<1>2. TypeOK'
  BY <1>1 DEF IInv, TypeOK, hub, calls, history
<1>3. CountsBroadcasts' /\ DrainsAlone' /\ FlushesKnowTheList' /\ FlushUndisturbed'
  BY <1>1 DEF IInv, CountsBroadcasts, DrainsAlone, FlushesKnowTheList, FlushUndisturbed, history
<1>4. DeferredIsTransient'
  BY <1>1 DEF IInv, DeferredIsTransient, NoneToRemove, NoneToAdd, hub, OnTop, IsDrain
<1>5. QED
  BY <1>1, <1>2, <1>3, <1>4, ListsUntouched DEF IInv

LEMMA SetAnimationInProgressIInv ==
    ASSUME IInv, NEW value \in BOOLEAN, SetAnimationInProgress(value)
    PROVE  IInv'
<1> DEFINE f == [kind |-> "flush", at |-> 0, limit |-> Len(delayedPosts), stale |-> FALSE]
<1>1. /\ UNCHANGED <<hub, delayedPosts, allowedNotifications, broadcasting, crashed,
                     calls, posted, runs>>
      /\ AppRuns /\ ~crashed
      /\ animationInProgress' = value
      /\ reentered' = (reentered \/ FlushDepths(stack) # {})
  BY DEF SetAnimationInProgress, AppRuns
<1>2. TypeOK /\ stack \in Seq(Frames)
  BY DEF IInv, TypeOK
<1>3. ~OnTop(IsDrain) /\ (stack # <<>> => ~IsDrain(Last(stack)))
  BY <1>1 DEF AppRuns, OnTop, IsPost, IsDrain
<1>4. CASE ~value /\ delayedPosts # <<>>
  <2>1. stack' = Append(stack, f)
    BY <1>4 DEF SetAnimationInProgress
  <2>2. f \in FlushFrame /\ f \in Frames /\ IsFlush(f) /\ ~IsPost(f) /\ ~IsDrain(f)
    BY <1>2 DEF TypeOK, Frames, FlushFrame, IsPost, IsFlush, IsDrain
  <2>3. f.at <= f.limit /\ f.limit = Len(delayedPosts) /\ f.stale = FALSE
    BY <1>2 DEF TypeOK
  <2> HIDE DEF f
  <2>4. /\ stack' \in Seq(Frames)
        /\ stack' # <<>>
        /\ Len(stack') = Len(stack) + 1
        /\ Last(stack') = f
        /\ stack'[Len(stack) + 1] = f
        /\ \A i \in 1..Len(stack) : stack'[i] = stack[i]
        /\ PostDepths(stack') = PostDepths(stack)
        /\ FlushDepths(stack') = FlushDepths(stack) \cup {Len(stack) + 1}
    BY <1>2, <2>1, <2>2, PushFrame
  <2>5. TypeOK'
    BY <1>1, <1>2, <2>4 DEF TypeOK, hub, calls
  <2>6. CountsBroadcasts'
    BY <1>1, <2>4 DEF IInv, CountsBroadcasts
  <2>7. DrainsAlone'
    <3>1. \A i \in DOMAIN stack : ~IsDrain(stack[i])
      BY <1>3, NoDrainBelow
    <3>2. /\ DOMAIN stack' = 1..(Len(stack) + 1) /\ DOMAIN stack = 1..Len(stack)
          /\ \A i \in 1..(Len(stack) + 1) : i \in 1..Len(stack) \/ i = Len(stack) + 1
      BY <1>2, <2>4
    <3>3. QED
      BY <2>2, <2>4, <3>1, <3>2 DEF DrainsAlone
  <2>8. DeferredIsTransient'
    BY <1>1, <1>3 DEF IInv, DeferredIsTransient, NoneToRemove, NoneToAdd, hub, OnTop, IsDrain
  <2>9. FlushDepths(stack) \subseteq 1..Len(stack)
    BY <1>2, DepthsFinite
  <2>10. FlushesKnowTheList'
    BY <1>1, <2>3, <2>4, <2>9 DEF IInv, FlushesKnowTheList
  <2>11. FlushUndisturbed'
    <3> SUFFICES ASSUME ~reentered'
                 PROVE  /\ ~crashed' /\ ~animationInProgress'
                        /\ \A i \in FlushDepths(stack') : ~stack'[i].stale
                        /\ \A i, j \in FlushDepths(stack') : i = j
      BY DEF FlushUndisturbed
    <3>1. FlushDepths(stack) = {}
      BY <1>1
    <3>2. QED
      BY <1>1, <1>4, <2>3, <2>4, <3>1
  <2>12. QED
    BY <1>1, <2>5, <2>6, <2>7, <2>8, <2>10, <2>11, ListsUntouched DEF IInv
<1>5. CASE ~(~value /\ delayedPosts # <<>>)
  <2>1. stack' = stack
    BY <1>5 DEF SetAnimationInProgress
  <2>2. TypeOK'
    BY <1>1, <1>2, <2>1 DEF TypeOK, hub, calls
  <2>3. CountsBroadcasts' /\ DrainsAlone' /\ FlushesKnowTheList'
    BY <1>1, <2>1 DEF IInv, CountsBroadcasts, DrainsAlone, FlushesKnowTheList
  <2>4. DeferredIsTransient'
    BY <1>1, <2>1 DEF IInv, DeferredIsTransient, NoneToRemove, NoneToAdd, hub, OnTop, IsDrain
  <2>5. FlushUndisturbed'
    BY <1>1, <2>1 DEF IInv, FlushUndisturbed
  <2>6. QED
    BY <1>1, <2>2, <2>3, <2>4, <2>5, ListsUntouched DEF IInv
<1>6. QED
  BY <1>4, <1>5

-----------------------------------------------------------------------------
(* Steps of the hub's methods.                                             *)

LEMMA CallNextObserverIInv ==
    ASSUME IInv, CallNextObserver
    PROVE  IInv'
<1> DEFINE f == Last(stack)
           g == [f EXCEPT !.a = @ + 1]
<1>1. /\ UNCHANGED <<hub, anim, broadcasting, crashed, calls, history>>
      /\ stack # <<>> /\ IsPost(f)
      /\ stack' = [stack EXCEPT ![Len(stack)].a = @ + 1]
  BY DEF CallNextObserver, OnTop
<1>2. TypeOK /\ stack \in Seq(Frames)
  BY DEF IInv, TypeOK
<1>3. f = stack[Len(stack)] /\ Len(stack) \in 1..Len(stack) /\ f \in Frames
  BY <1>1, <1>2, FrontOfSeq
<1>4. f \in PostFrame
  BY <1>1, <1>3, FrameKinds
<1>5. g \in PostFrame /\ g \in Frames /\ g.kind = f.kind /\ ~IsDrain(g)
  BY <1>1, <1>4 DEF PostFrame, Frames, IsPost, IsDrain
<1>6. stack' = [stack EXCEPT ![Len(stack)] = g]
  BY <1>1, <1>3
<1> HIDE DEF g
<1>7. /\ stack' \in Seq(Frames)
      /\ Len(stack') = Len(stack)
      /\ Last(stack') = g
      /\ \A i \in 1..Len(stack) : stack'[i] = IF i = Len(stack) THEN g ELSE stack[i]
      /\ PostDepths(stack') = PostDepths(stack)
      /\ FlushDepths(stack') = FlushDepths(stack)
  <2> DEFINE t == [stack EXCEPT ![Len(stack)] = g]
  <2>1. stack # <<>> /\ g.kind = Last(stack).kind
    BY <1>1, <1>5
  <2> HIDE DEF f
  <2>2. /\ t \in Seq(Frames)
        /\ Len(t) = Len(stack)
        /\ Last(t) = g
        /\ \A i \in 1..Len(stack) : t[i] = IF i = Len(stack) THEN g ELSE stack[i]
        /\ PostDepths(t) = PostDepths(stack)
        /\ FlushDepths(t) = FlushDepths(stack)
    BY <1>2, <1>5, <2>1, UpdateTop
  <2>3. QED
    BY <1>6, <2>2
<1>8. TypeOK'
  BY <1>1, <1>2, <1>7 DEF TypeOK, hub, anim, calls, history
<1>9. CountsBroadcasts'
  BY <1>1, <1>7 DEF IInv, CountsBroadcasts
<1>10. \A i \in DOMAIN stack' : ~IsDrain(stack'[i])
  <2>1. ~IsDrain(Last(stack))
    BY <1>1 DEF IsPost, IsDrain
  <2>2. \A i \in DOMAIN stack : ~IsDrain(stack[i])
    BY <2>1, NoDrainBelow
  <2>3. DOMAIN stack' = 1..Len(stack) /\ DOMAIN stack = 1..Len(stack)
    BY <1>2, <1>7
  <2>4. QED
    BY <1>5, <1>7, <2>2, <2>3
<1>11. DrainsAlone'
  BY <1>10 DEF DrainsAlone
<1>12. DeferredIsTransient'
  <2>1. ~IsDrain(f)
    BY <1>1 DEF IsPost, IsDrain
  <2>2. QED
    BY <1>1, <2>1 DEF IInv, DeferredIsTransient, NoneToRemove, NoneToAdd, hub, OnTop
<1>13. \A i \in FlushDepths(stack) : i \in 1..Len(stack) /\ i # Len(stack)
  BY <1>1, <1>2, <1>3, DepthsFinite DEF FlushDepths, IsFlush, IsPost
<1>14. FlushesKnowTheList' /\ FlushUndisturbed'
  BY <1>1, <1>7, <1>13 DEF IInv, FlushesKnowTheList, FlushUndisturbed, anim, history
<1>15. QED
  BY <1>1, <1>8, <1>9, <1>11, <1>12, <1>14, ListsUntouched DEF IInv

LEMMA EndBroadcastIInv ==
    ASSUME IInv, EndBroadcast
    PROVE  IInv'
<1> DEFINE n == Len(stack)
           below == Front(stack)
<1>1. /\ UNCHANGED <<hub, anim, crashed, calls, history>>
      /\ stack # <<>> /\ IsPost(Last(stack))
      /\ broadcasting' = broadcasting - 1
      /\ stack' = IF broadcasting = 1 THEN Append(below, [kind |-> "drain"]) ELSE below
  BY DEF EndBroadcast, OnTop
<1>2. TypeOK /\ stack \in Seq(Frames)
  BY DEF IInv, TypeOK
<1>3. /\ below \in Seq(Frames)
      /\ n \in Nat \ {0}
      /\ Len(below) = n - 1
      /\ Last(stack) = stack[n]
      /\ \A i \in 1..Len(below) : below[i] = stack[i]
      /\ PostDepths(below) = PostDepths(stack) \ {n}
      /\ FlushDepths(below) = FlushDepths(stack) \ {n}
  BY <1>1, <1>2, PopFrame
<1>4. n \in PostDepths(stack) /\ n \notin FlushDepths(stack)
  BY <1>1, <1>2, <1>3 DEF PostDepths, FlushDepths, IsPost, IsFlush
<1>5. /\ broadcasting = Cardinality(PostDepths(stack)) /\ broadcasting \in Nat
      /\ Cardinality(PostDepths(below)) = broadcasting - 1
      /\ broadcasting - 1 \in Nat
      /\ broadcasting - 1 = 0 <=> PostDepths(below) = {}
  <2>1. broadcasting = Cardinality(PostDepths(stack)) /\ broadcasting \in Nat
    BY <1>2 DEF IInv, CountsBroadcasts, TypeOK
  <2>2. Cardinality(PostDepths(below)) = broadcasting - 1
    BY <1>2, <1>3, <1>4, <2>1, DepthsFinite, FS_RemoveElement
  <2>3. QED
    BY <1>3, <2>1, <2>2, DepthsFinite
<1>6. \A i \in DOMAIN stack : ~IsDrain(stack[i])
  BY <1>1, NoDrainBelow DEF IsPost, IsDrain
<1>7. /\ DOMAIN below = 1..(n - 1) /\ DOMAIN stack = 1..n
      /\ \A i \in DOMAIN below : ~IsDrain(below[i])
  BY <1>2, <1>3, <1>6
<1>8. /\ stack' \in Seq(Frames)
      /\ PostDepths(stack') = PostDepths(below)
      /\ FlushDepths(stack') = FlushDepths(stack)
      /\ \A i \in 1..(n - 1) : stack'[i] = stack[i]
      /\ DrainsAlone'
      /\ broadcasting' = 0 => OnTop(IsDrain)'
  <2>1. CASE broadcasting = 1
    <3> DEFINE d == [kind |-> "drain"]
    <3>1. d \in Frames /\ IsDrain(d) /\ ~IsPost(d) /\ ~IsFlush(d)
      BY DEF Frames, DrainFrame, IsDrain, IsPost, IsFlush
    <3>2. stack' = Append(below, d)
      BY <1>1, <2>1
    <3> HIDE DEF d
    <3>3. /\ stack' \in Seq(Frames)
          /\ stack' # <<>>
          /\ Len(stack') = Len(below) + 1
          /\ Last(stack') = d
          /\ stack'[Len(below) + 1] = d
          /\ \A i \in 1..Len(below) : stack'[i] = below[i]
          /\ PostDepths(stack') = PostDepths(below)
          /\ FlushDepths(stack') = FlushDepths(below)
      BY <1>3, <3>1, <3>2, PushFrame
    <3>4. DOMAIN stack' = 1..(Len(below) + 1) /\ DOMAIN below = 1..Len(below)
      BY <1>3, <3>3
    <3>5. \A i \in 1..(Len(below) + 1) : i \in 1..Len(below) \/ i = Len(below) + 1
      BY <1>3
    <3>6. PostDepths(stack') = {}
      BY <1>5, <2>1, <3>3
    <3>7. DrainsAlone'
      BY <1>7, <3>3, <3>4, <3>5, <3>6 DEF DrainsAlone
    <3>8. OnTop(IsDrain)'
      BY <3>1, <3>3 DEF OnTop
    <3>9. QED
      BY <1>3, <1>4, <3>3, <3>7, <3>8
  <2>2. CASE broadcasting # 1
    <3>1. stack' = below
      BY <1>1, <2>2
    <3>2. DrainsAlone'
      BY <1>7, <3>1 DEF DrainsAlone
    <3>3. broadcasting' # 0
      BY <1>1, <1>5, <2>2
    <3>4. QED
      BY <1>3, <1>4, <3>1, <3>2, <3>3
  <2>3. QED
    BY <2>1, <2>2
<1>9. TypeOK'
  BY <1>1, <1>2, <1>5, <1>8 DEF TypeOK, hub, anim, calls, history
<1>10. CountsBroadcasts'
  BY <1>1, <1>5, <1>8 DEF CountsBroadcasts
<1>11. DeferredIsTransient'
  BY <1>8 DEF DeferredIsTransient
<1>12. \A i \in FlushDepths(stack) : i \in 1..(n - 1)
  BY <1>2, <1>3, <1>4, DepthsFinite
<1>13. FlushesKnowTheList' /\ FlushUndisturbed'
  BY <1>1, <1>8, <1>12 DEF IInv, FlushesKnowTheList, FlushUndisturbed, anim, history
<1>14. QED
  BY <1>1, <1>8, <1>9, <1>10, <1>11, <1>13, ListsUntouched DEF IInv

\* While deferred calls are replayed no broadcast is on the stack.
LEMMA ReplayIsQuiet ==
    ASSUME IInv, OnTop(IsDrain)
    PROVE  PostDepths(stack) = {} /\ broadcasting = 0
<1>1. stack \in Seq(Frames) /\ stack # <<>>
  BY DEF IInv, TypeOK, OnTop
<1>2. Len(stack) \in DOMAIN stack /\ Last(stack) = stack[Len(stack)]
  <2>1. Len(stack) \in Nat \ {0} /\ DOMAIN stack = 1..Len(stack)
    BY <1>1, EmptySeq
  <2>2. QED
    BY <2>1 DEF Last
<1>3. PostDepths(stack) = {}
  BY <1>2 DEF IInv, DrainsAlone, OnTop
<1>4. QED
  BY <1>3, FS_EmptySet DEF IInv, CountsBroadcasts

\* The part of the invariant that the replay of one deferred call leaves alone.
LEMMA ReplayFrame ==
    ASSUME IInv, OnTop(IsDrain), UNCHANGED <<anim, broadcasting, stack, crashed, calls, history>>
    PROVE  /\ CountsBroadcasts' /\ DrainsAlone' /\ FlushesKnowTheList' /\ FlushUndisturbed'
           /\ DeferredIsTransient'
<1>1. CountsBroadcasts' /\ DrainsAlone' /\ FlushesKnowTheList' /\ FlushUndisturbed'
  BY DEF IInv, CountsBroadcasts, DrainsAlone, FlushesKnowTheList, FlushUndisturbed, anim,
     history
<1>2. OnTop(IsDrain)'
  BY DEF OnTop, IsDrain
<1>3. QED
  BY <1>1, <1>2 DEF DeferredIsTransient

LEMMA DrainRemoveIInv ==
    ASSUME IInv, NEW e \in Events, DrainRemove(e)
    PROVE  IInv'
<1> DEFINE late == removeAfterBroadcast[e]
           new  == RemoveFirst(observers[e], Head(late))
<1>1. /\ UNCHANGED <<addAfterBroadcast, anim, broadcasting, stack, crashed, calls, history>>
      /\ OnTop(IsDrain) /\ late # <<>>
      /\ observers' = [observers EXCEPT ![e] = new]
      /\ removeAfterBroadcast' = [removeAfterBroadcast EXCEPT ![e] = Tail(late)]
  BY DEF DrainRemove
<1>2. TypeOK
  BY DEF IInv
<1>3. observers[e] \in Seq(Observers) /\ late \in Seq(Observers) /\ IsInjective(observers[e])
  BY <1>2 DEF TypeOK, IInv, NoDuplicateObservers
<1>4. Tail(late) \in Seq(Observers) /\ ToSet(late) = {Head(late)} \cup ToSet(Tail(late))
  BY <1>1, <1>3, ToSetOfTail
<1>5. /\ new \in Seq(Observers)
      /\ IsInjective(new)
      /\ ToSet(new) = ToSet(observers[e]) \ {Head(late)}
  BY <1>3, RemoveFirstOfDistinct
<1> HIDE DEF new
<1>6. TypeOK'
  BY <1>1, <1>2, <1>4, <1>5 DEF TypeOK, anim, calls, history
<1>7. NoDuplicateObservers'
  BY <1>1, <1>2, <1>5 DEF IInv, NoDuplicateObservers, TypeOK
<1>8. IntentKept'
  <2> SUFFICES ASSUME NEW d \in Events
               PROVE  (ToSet(observers[d]') \ ToSet(removeAfterBroadcast[d]'))
                          \cup ToSet(addAfterBroadcast[d]') = intent[d]' \cup crossed[d]'
    BY DEF IntentKept
  <2>1. (ToSet(observers[d]) \ ToSet(removeAfterBroadcast[d])) \cup ToSet(addAfterBroadcast[d])
            = intent[d] \cup crossed[d]
    BY DEF IInv, IntentKept
  <2>2. CASE d # e
    BY <1>1, <1>2, <2>1, <2>2 DEF TypeOK, calls
  <2>3. CASE d = e
    BY <1>1, <1>2, <1>4, <1>5, <2>1, <2>3 DEF TypeOK, calls
  <2>4. QED
    BY <2>2, <2>3
<1>9. QED
  BY <1>1, <1>6, <1>7, <1>8, ReplayFrame DEF IInv

LEMMA DrainAddIInv ==
    ASSUME IInv, NEW e \in Events, DrainAdd(e)
    PROVE  IInv'
<1> DEFINE late == addAfterBroadcast[e]
           list == observers[e]
           o    == Head(late)
           new  == IF Contains(list, o) THEN list ELSE Append(list, o)
<1>1. /\ UNCHANGED <<removeAfterBroadcast, anim, broadcasting, stack, crashed, calls, history>>
      /\ OnTop(IsDrain) /\ NoneToRemove /\ late # <<>>
      /\ observers' = [observers EXCEPT ![e] = new]
      /\ addAfterBroadcast' = [addAfterBroadcast EXCEPT ![e] = Tail(late)]
  BY DEF DrainAdd
<1>2. TypeOK
  BY DEF IInv
<1>3. list \in Seq(Observers) /\ late \in Seq(Observers) /\ IsInjective(list)
  BY <1>2 DEF TypeOK, IInv, NoDuplicateObservers
<1>4. /\ o \in Observers /\ Tail(late) \in Seq(Observers)
      /\ ToSet(late) = {o} \cup ToSet(Tail(late))
  BY <1>1, <1>3, ToSetOfTail
<1> HIDE DEF o
<1>5. /\ new \in Seq(Observers)
      /\ IsInjective(new)
      /\ ToSet(new) = ToSet(list) \cup {o}
  BY <1>3, <1>4, ToSetOfAppend, AppendToDistinct, ContainsToSet
<1> HIDE DEF new
<1>6. TypeOK'
  BY <1>1, <1>2, <1>4, <1>5 DEF TypeOK, anim, calls, history
<1>7. NoDuplicateObservers'
  BY <1>1, <1>2, <1>5 DEF IInv, NoDuplicateObservers, TypeOK
<1>8. IntentKept'
  <2> SUFFICES ASSUME NEW d \in Events
               PROVE  (ToSet(observers[d]') \ ToSet(removeAfterBroadcast[d]'))
                          \cup ToSet(addAfterBroadcast[d]') = intent[d]' \cup crossed[d]'
    BY DEF IntentKept
  <2>1. (ToSet(observers[d]) \ ToSet(removeAfterBroadcast[d])) \cup ToSet(addAfterBroadcast[d])
            = intent[d] \cup crossed[d]
    BY DEF IInv, IntentKept
  <2>2. ToSet(removeAfterBroadcast[d]) = {}
    BY <1>1 DEF NoneToRemove, ToSet
  <2>3. CASE d # e
    BY <1>1, <1>2, <2>1, <2>3 DEF TypeOK, calls
  <2>4. CASE d = e
    BY <1>1, <1>2, <1>4, <1>5, <2>1, <2>2, <2>4 DEF TypeOK, calls
  <2>5. QED
    BY <2>3, <2>4
<1>9. QED
  BY <1>1, <1>6, <1>7, <1>8, ReplayFrame DEF IInv

LEMMA DrainEndIInv ==
    ASSUME IInv, DrainEnd
    PROVE  IInv'
<1> DEFINE n == Len(stack)
<1>1. /\ UNCHANGED <<hub, anim, broadcasting, crashed, calls, history>>
      /\ OnTop(IsDrain) /\ stack # <<>> /\ NoneToRemove /\ NoneToAdd
      /\ stack' = Front(stack)
  BY DEF DrainEnd, OnTop
<1>2. TypeOK /\ stack \in Seq(Frames)
  BY DEF IInv, TypeOK
<1>3. /\ stack' \in Seq(Frames)
      /\ n \in Nat \ {0}
      /\ Len(stack') = n - 1
      /\ Last(stack) = stack[n]
      /\ \A i \in 1..Len(stack') : stack'[i] = stack[i]
      /\ PostDepths(stack') = PostDepths(stack) \ {n}
      /\ FlushDepths(stack') = FlushDepths(stack) \ {n}
  BY <1>1, <1>2, PopFrame
<1>4. PostDepths(stack) = {}
  BY <1>1, ReplayIsQuiet
<1>5. FlushDepths(stack') = FlushDepths(stack) /\ FlushDepths(stack) \subseteq 1..(n - 1)
  <2>1. n \notin FlushDepths(stack)
    BY <1>1, <1>3 DEF OnTop, FlushDepths, IsDrain, IsFlush
  <2>2. QED
    BY <1>2, <1>3, <2>1, DepthsFinite
<1>6. TypeOK'
  BY <1>1, <1>2, <1>3 DEF TypeOK, hub, anim, calls, history
<1>7. CountsBroadcasts'
  BY <1>1, <1>3, <1>4 DEF IInv, CountsBroadcasts
<1>8. DrainsAlone'
  <2>1. DOMAIN stack' = 1..(n - 1) /\ DOMAIN stack = 1..n /\ 1..(n - 1) \subseteq 1..n
    BY <1>2, <1>3
  <2>2. \A i \in 1..(n - 1) : ~IsDrain(stack[i])
    BY <1>3, <2>1 DEF IInv, DrainsAlone
  <2>3. QED
    BY <1>3, <2>1, <2>2 DEF DrainsAlone
<1>9. DeferredIsTransient'
  BY <1>1 DEF DeferredIsTransient, NoneToRemove, NoneToAdd, hub
<1>10. FlushesKnowTheList' /\ FlushUndisturbed'
  BY <1>1, <1>3, <1>5 DEF IInv, FlushesKnowTheList, FlushUndisturbed, anim, history
<1>11. QED
  BY <1>1, <1>6, <1>7, <1>8, <1>9, <1>10, ListsUntouched DEF IInv

LEMMA FlushNextIInv ==
    ASSUME IInv, FlushNext
    PROVE  IInv'
<1> DEFINE n == Len(stack)
           f == Last(stack)
           g == [f EXCEPT !.at = @ + 1]
           s == [stack EXCEPT ![n] = g]
<1>1. /\ UNCHANGED <<hub, anim, calls, posted, reentered>>
      /\ ~crashed /\ stack # <<>> /\ IsFlush(f) /\ f.at < f.limit
  BY DEF FlushNext, OnTop
<1>2. TypeOK /\ stack \in Seq(Frames)
  BY DEF IInv, TypeOK
<1>3. f = stack[n] /\ n \in Nat \ {0} /\ n \in 1..n /\ f \in Frames
  BY <1>1, <1>2, FrontOfSeq
<1>4. f \in FlushFrame /\ ~IsDrain(f)
  BY <1>1, <1>3, FrameKinds
<1>5. n \in FlushDepths(stack)
  BY <1>1, <1>2, <1>3 DEF FlushDepths
<1>6. CASE f.stale
  <2>1. crashed' = TRUE /\ UNCHANGED <<broadcasting, stack, runs>>
    BY <1>6 DEF FlushNext
  <2>2. TypeOK'
    BY <1>1, <1>2, <2>1 DEF TypeOK, hub, anim, calls
  <2>3. CountsBroadcasts' /\ DrainsAlone' /\ FlushesKnowTheList'
    BY <1>1, <2>1 DEF IInv, CountsBroadcasts, DrainsAlone, FlushesKnowTheList, anim
  <2>4. DeferredIsTransient'
    BY <1>1, <2>1 DEF IInv, DeferredIsTransient, NoneToRemove, NoneToAdd, hub, OnTop, IsDrain
  <2>5. reentered
    BY <1>3, <1>5, <1>6 DEF IInv, FlushUndisturbed
  <2>6. FlushUndisturbed'
    BY <1>1, <2>5 DEF FlushUndisturbed
  <2>7. QED
    BY <1>1, <2>2, <2>3, <2>4, <2>6, ListsUntouched DEF IInv
<1>7. CASE ~f.stale
  <2> DEFINE p == delayedPosts[f.at + 1]
  <2>1. crashed' = crashed /\ Broadcast(p, s)
    BY <1>7, <1>3 DEF FlushNext
  <2>2. /\ g \in FlushFrame /\ g \in Frames /\ g.kind = f.kind /\ ~IsDrain(g)
        /\ g.at = f.at + 1 /\ g.limit = f.limit /\ g.stale = f.stale
        /\ g.at <= g.limit
    BY <1>1, <1>4 DEF FlushFrame, Frames, IsFlush, IsDrain
  <2>3. f.limit = Len(delayedPosts)
    BY <1>3, <1>5, <1>7 DEF IInv, FlushesKnowTheList
  <2>4. p \in [id : Events, no : 1..MaxPosts]
    <3>1. f.at + 1 \in 1..Len(delayedPosts)
      BY <1>1, <1>4, <2>3 DEF FlushFrame
    <3>2. delayedPosts \in Seq([id : Events, no : 1..MaxPosts])
      BY <1>2 DEF TypeOK
    <3>3. QED
      BY <3>1, <3>2, ElementOfSeq
  <2> HIDE DEF g
  <2>5. /\ s \in Seq(Frames)
        /\ Len(s) = n
        /\ \A i \in 1..n : s[i] = IF i = n THEN g ELSE stack[i]
        /\ PostDepths(s) = PostDepths(stack)
        /\ FlushDepths(s) = FlushDepths(stack)
    BY <1>1, <1>2, <2>2, UpdateTop
  <2> HIDE DEF s, p
  <2>6. \A i \in DOMAIN s : ~IsDrain(s[i])
    <3>1. \A i \in DOMAIN stack : ~IsDrain(stack[i])
      BY <1>4, NoDrainBelow
    <3>2. DOMAIN s = 1..n /\ DOMAIN stack = 1..n
      BY <1>2, <2>5
    <3>3. QED
      BY <2>2, <2>5, <3>1, <3>2
  <2>7. /\ broadcasting' \in Nat
        /\ runs' \in [1..MaxPosts -> 0..2]
        /\ stack' \in Seq(Frames)
        /\ FlushDepths(stack') = FlushDepths(s)
        /\ \A i \in 1..Len(s) : stack'[i] = s[i]
        /\ CountsBroadcasts' /\ DrainsAlone' /\ DeferredIsTransient'
    BY <1>1, <2>1, <2>4, <2>5, <2>6, BroadcastStarts DEF hub
  <2>8. TypeOK'
    BY <1>1, <1>2, <2>1, <2>7 DEF TypeOK, hub, anim, calls
  <2>9. FlushDepths(stack) \subseteq 1..n
    BY <1>2, DepthsFinite
  <2>10. \A i \in FlushDepths(stack) : stack'[i] = IF i = n THEN g ELSE stack[i]
    BY <2>5, <2>7, <2>9
  <2>11. FlushesKnowTheList'
    BY <1>1, <2>2, <2>3, <2>5, <2>7, <2>10 DEF IInv, FlushesKnowTheList, anim
  <2>12. FlushUndisturbed'
    BY <1>1, <1>7, <2>1, <2>2, <2>5, <2>7, <2>10 DEF IInv, FlushUndisturbed, anim
  <2>13. QED
    BY <1>1, <2>7, <2>8, <2>11, <2>12, ListsUntouched DEF IInv
<1>8. QED
  BY <1>6, <1>7

LEMMA FlushEndIInv ==
    ASSUME IInv, FlushEnd
    PROVE  IInv'
<1> DEFINE n == Len(stack)
           below == Front(stack)
<1>1. /\ UNCHANGED <<hub, animationInProgress, allowedNotifications, broadcasting,
                     crashed, calls, history>>
      /\ stack # <<>> /\ IsFlush(Last(stack)) /\ ~crashed
      /\ delayedPosts' = <<>>
      /\ stack' = Invalidate(below)
  BY DEF FlushEnd, OnTop
<1>2. TypeOK /\ stack \in Seq(Frames)
  BY DEF IInv, TypeOK
<1>3. /\ below \in Seq(Frames)
      /\ n \in Nat \ {0}
      /\ Len(below) = n - 1
      /\ Last(stack) = stack[n]
      /\ \A i \in 1..Len(below) : below[i] = stack[i]
      /\ PostDepths(below) = PostDepths(stack) \ {n}
      /\ FlushDepths(below) = FlushDepths(stack) \ {n}
  BY <1>1, <1>2, PopFrame
<1>4. n \in FlushDepths(stack) /\ n \notin PostDepths(stack)
  BY <1>1, <1>2, <1>3 DEF PostDepths, FlushDepths, IsPost, IsFlush
<1>5. /\ stack' \in Seq(Frames)
      /\ Len(stack') = n - 1
      /\ \A i \in 1..(n - 1) :
             /\ IsFlush(stack[i]) => /\ stack'[i].at = stack[i].at
                                     /\ stack'[i].limit = stack[i].limit
                                     /\ stack'[i].stale
             /\ stack'[i].kind = stack[i].kind
      /\ PostDepths(stack') = PostDepths(stack)
      /\ FlushDepths(stack') = FlushDepths(stack) \ {n}
  <2> HIDE DEF below
  <2>1. /\ stack' \in Seq(Frames)
        /\ Len(stack') = Len(below)
        /\ \A i \in 1..Len(below) :
               /\ IsFlush(below[i]) => /\ stack'[i].at = below[i].at
                                       /\ stack'[i].limit = below[i].limit
                                       /\ stack'[i].stale
               /\ stack'[i].kind = below[i].kind
        /\ PostDepths(stack') = PostDepths(below)
        /\ FlushDepths(stack') = FlushDepths(below)
    BY <1>1, <1>3, InvalidateFrames
  <2>2. PostDepths(stack') = PostDepths(stack) /\ FlushDepths(stack') = FlushDepths(stack) \ {n}
    BY <1>3, <1>4, <2>1
  <2>3. QED
    BY <1>3, <2>1, <2>2
<1>6. DOMAIN stack' = 1..(n - 1) /\ DOMAIN stack = 1..n /\ 1..(n - 1) \subseteq 1..n
  BY <1>2, <1>3, <1>5
<1>7. TypeOK'
  <2>1. delayedPosts' \in Seq([id : Events, no : 1..MaxPosts])
    BY <1>1, EmptySeq
  <2>2. QED
    BY <1>1, <1>2, <1>5, <2>1 DEF TypeOK, hub, calls, history
<1>8. CountsBroadcasts'
  BY <1>1, <1>5 DEF IInv, CountsBroadcasts
<1>9. DrainsAlone'
  <2>1. \A i \in DOMAIN stack : ~IsDrain(stack[i])
    BY <1>1, NoDrainBelow DEF IsFlush, IsDrain
  <2>2. \A i \in DOMAIN stack' : ~IsDrain(stack'[i])
    BY <1>5, <1>6, <2>1 DEF IsDrain
  <2>3. QED
    BY <2>2 DEF DrainsAlone
<1>10. DeferredIsTransient'
  <2>1. ~OnTop(IsDrain)
    BY <1>1 DEF OnTop, IsDrain, IsFlush
  <2>2. QED
    BY <1>1, <2>1 DEF IInv, DeferredIsTransient, NoneToRemove, NoneToAdd, hub
<1>11. \A i \in FlushDepths(stack') : i \in 1..(n - 1) /\ IsFlush(stack[i]) /\ i \in FlushDepths(stack)
  BY <1>2, <1>3, <1>5, DepthsFinite DEF FlushDepths
<1>12. FlushesKnowTheList'
  BY <1>1, <1>5, <1>11 DEF IInv, FlushesKnowTheList
<1>13. FlushUndisturbed'
  <2> SUFFICES ASSUME ~reentered'
               PROVE  /\ ~crashed'
                      /\ FlushDepths(stack') = {}
    BY DEF FlushUndisturbed
  <2>1. ~reentered /\ \A i, j \in FlushDepths(stack) : i = j
    BY <1>1 DEF IInv, FlushUndisturbed, history
  <2>2. QED
    BY <1>1, <1>4, <1>5, <2>1
<1>14. QED
  BY <1>1, <1>7, <1>8, <1>9, <1>10, <1>12, <1>13, ListsUntouched DEF IInv

-----------------------------------------------------------------------------
(* The inductive invariant and what follows from it.                       *)

LEMMA NextIInv == IInv /\ [Next]_vars => IInv'
<1> SUFFICES ASSUME IInv, [Next]_vars
             PROVE  IInv'
  OBVIOUS
<1>1. ASSUME NEW o \in Observers, NEW e \in Events, AddObserver(o, e) \/ RemoveObserver(o, e)
      PROVE  IInv'
  BY <1>1, AddObserverIInv, RemoveObserverIInv
<1>2. ASSUME NEW e \in Events, PostNotificationName(e)
      PROVE  IInv'
  BY <1>2, PostNotificationNameIInv
<1>3. ASSUME NEW S \in SUBSET Events, SetAllowedNotificationsDutingAnimation(S)
      PROVE  IInv'
  BY <1>3, SetAllowedIInv
<1>4. ASSUME NEW value \in BOOLEAN, SetAnimationInProgress(value)
      PROVE  IInv'
  BY <1>4, SetAnimationInProgressIInv
<1>5. CASE CallNextObserver
  BY <1>5, CallNextObserverIInv
<1>6. CASE EndBroadcast
  BY <1>6, EndBroadcastIInv
<1>7. ASSUME NEW e \in Events, DrainRemove(e) \/ DrainAdd(e)
      PROVE  IInv'
  BY <1>7, DrainRemoveIInv, DrainAddIInv
<1>8. CASE DrainEnd
  BY <1>8, DrainEndIInv
<1>9. CASE FlushNext
  BY <1>9, FlushNextIInv
<1>10. CASE FlushEnd
  BY <1>10, FlushEndIInv
<1>11. CASE UNCHANGED vars
  <2>1. UNCHANGED <<hub, anim, broadcasting, stack, crashed, calls, history>>
    BY <1>11 DEF vars
  <2>2. TypeOK'
    BY <2>1 DEF IInv, TypeOK, hub, anim, calls, history
  <2>3. CountsBroadcasts' /\ DrainsAlone' /\ FlushesKnowTheList' /\ FlushUndisturbed'
    BY <2>1 DEF IInv, CountsBroadcasts, DrainsAlone, FlushesKnowTheList, FlushUndisturbed,
       anim, history
  <2>4. DeferredIsTransient'
    BY <2>1 DEF IInv, DeferredIsTransient, NoneToRemove, NoneToAdd, hub, OnTop, IsDrain
  <2>5. QED
    BY <2>1, <2>2, <2>3, <2>4, ListsUntouched DEF IInv
<1>12. QED
  BY <1>1, <1>2, <1>3, <1>4, <1>5, <1>6, <1>7, <1>8, <1>9, <1>10, <1>11 DEF Next, App, Run

\* The inductive invariant holds in every reachable state.
LEMMA Invariance == Spec => []IInv
BY InitIInv, NextIInv, PTL DEF Spec

\* Every variable of the hub keeps its type: in particular the nesting
\* counter never goes below zero, whatever callbacks do.
THEOREM Typing == Spec => []TypeOK
<1>1. IInv => TypeOK
  BY DEF IInv
<1>2. QED
  BY <1>1, Invariance, PTL

\* No observer is ever registered twice for an event.
THEOREM ObserversAreDistinct == Spec => []NoDuplicateObservers
<1>1. IInv => NoDuplicateObservers
  BY DEF IInv
<1>2. QED
  BY <1>1, Invariance, PTL

\* Once the main thread is back in its looper, the registered observers are
\* those whose last call was addObserver, and those that were added and then
\* removed within one broadcast.
THEOREM RegistrationFollowsIntent == Spec => []RegistrationOutcome
<1>1. IInv => RegistrationOutcome
  <2> SUFFICES ASSUME IInv, stack = <<>>
               PROVE  /\ NoneToRemove /\ NoneToAdd
                      /\ \A e \in Events : ToSet(observers[e]) = intent[e] \cup crossed[e]
    BY DEF RegistrationOutcome
  <2>1. broadcasting = 0
    BY FS_EmptySet DEF IInv, CountsBroadcasts, PostDepths
  <2>2. NoneToRemove /\ NoneToAdd
    BY <2>1 DEF IInv, DeferredIsTransient, OnTop
  <2>3. \A e \in Events : ToSet(removeAfterBroadcast[e]) = {} /\ ToSet(addAfterBroadcast[e]) = {}
    BY <2>2 DEF NoneToRemove, NoneToAdd, ToSet
  <2>4. QED
    BY <2>2, <2>3 DEF IInv, IntentKept
<1>2. QED
  BY <1>1, Invariance, PTL

\* From the first step of the outermost broadcast to its last, no step changes
\* a list of observers: every index loop walks the list it started on.
THEOREM ListsAreStable == Spec => StableWhileBroadcasting
<1>1. IInv /\ [Next]_vars => [broadcasting > 0 /\ broadcasting' > 0 => UNCHANGED observers]_vars
  <2> SUFFICES ASSUME IInv, Next, broadcasting > 0
               PROVE  UNCHANGED observers
    OBVIOUS
  <2>1. Deferring /\ ~OnTop(IsDrain)
    BY ReplayIsQuiet DEF Deferring
  <2>2. ASSUME NEW o \in Observers, NEW e \in Events, AddObserver(o, e) \/ RemoveObserver(o, e)
        PROVE  UNCHANGED observers
    BY <2>1, <2>2 DEF AddObserver, RemoveObserver
  <2>3. ASSUME NEW e \in Events, DrainRemove(e) \/ DrainAdd(e)
        PROVE  FALSE
    BY <2>1, <2>3 DEF DrainRemove, DrainAdd
  <2>4. ASSUME \/ \E e \in Events : PostNotificationName(e)
               \/ \E S \in SUBSET Events : SetAllowedNotificationsDutingAnimation(S)
               \/ \E value \in BOOLEAN : SetAnimationInProgress(value)
        PROVE  UNCHANGED observers
    BY <2>4 DEF PostNotificationName, SetAllowedNotificationsDutingAnimation,
                SetAnimationInProgress, hub
  <2>5. ASSUME CallNextObserver \/ EndBroadcast \/ DrainEnd \/ FlushNext \/ FlushEnd
        PROVE  UNCHANGED observers
    BY <2>5 DEF CallNextObserver, EndBroadcast, DrainEnd, FlushNext, FlushEnd, hub
  <2>6. QED
    BY <2>2, <2>3, <2>4, <2>5 DEF Next, App, Run
<1>2. QED
  BY <1>1, Invariance, PTL DEF Spec, StableWhileBroadcasting

-----------------------------------------------------------------------------
(* Posts are delayed, flushed and broadcast.                               *)

\* Posts are numbered in the order they are made: those that are held back
\* are different ones and were made, and none was broadcast before it was made.
PostsAreNumbered ==
    /\ \A i \in DOMAIN delayedPosts : delayedPosts[i].no <= posted
    /\ \A i, j \in DOMAIN delayedPosts : delayedPosts[i].no = delayedPosts[j].no => i = j
    /\ \A n \in 1..MaxPosts : n > posted => runs[n] = 0

\* A flush is never nested deeper than application code may nest.
FlushesAreShallow == \A i \in FlushDepths(stack) : i <= MaxDepth

\* A post that does not wait was broadcast once.
BroadcastOnce ==
    ~reentered => \A n \in 1..posted : runs[n] = IF Waiting(n) THEN 0 ELSE 1

PostInv == PostsAreNumbered /\ FlushesAreShallow /\ BroadcastOnce

\* The one flush that runs is the outermost one.
LEMMA OnlyFlush ==
    ASSUME NEW s \in Seq(Frames), \A i, j \in FlushDepths(s) : i = j, NEW k \in FlushDepths(s)
    PROVE  Min(FlushDepths(s)) = k
<1>1. FlushDepths(s) \in SUBSET Nat /\ FlushDepths(s) # {}
  BY DepthsFinite
<1>2. Min(FlushDepths(s)) \in FlushDepths(s)
  BY <1>1, MinOfNaturals
<1> QED
  BY <1>2

\* A step that moves no flush.
LEMMA FlushedFollows ==
    ASSUME stack \in Seq(Frames),
           FlushDepths(stack') = FlushDepths(stack),
           \A i \in FlushDepths(stack) : stack'[i].at = stack[i].at
    PROVE  Flushed' = Flushed
<1>1. CASE FlushDepths(stack) = {}
  BY <1>1 DEF Flushed
<1>2. CASE FlushDepths(stack) # {}
  <2>1. FlushDepths(stack) \in SUBSET Nat
    BY DepthsFinite
  <2>2. Min(FlushDepths(stack)) \in FlushDepths(stack)
    BY <1>2, <2>1, MinOfNaturals
  <2> QED
    BY <1>2, <2>2 DEF Flushed
<1> QED
  BY <1>1, <1>2

\* A step that neither moves a flush nor touches the posts.
LEMMA PostsUntouched ==
    ASSUME PostInv, stack \in Seq(Frames),
           UNCHANGED <<delayedPosts, runs, posted, reentered>>,
           FlushDepths(stack') = FlushDepths(stack),
           \A i \in FlushDepths(stack) : stack'[i].at = stack[i].at
    PROVE  PostInv'
<1>1. Flushed' = Flushed
  BY FlushedFollows
<1>2. PostsAreNumbered' /\ FlushesAreShallow'
  BY DEF PostInv, PostsAreNumbered, FlushesAreShallow
<1>3. BroadcastOnce'
  BY <1>1 DEF PostInv, BroadcastOnce, Waiting
<1> QED
  BY <1>2, <1>3 DEF PostInv

\* The frames after a broadcast started on top of s.
LEMMA BroadcastFrames ==
    ASSUME NEW p \in [id : Events, no : Nat], NEW s \in Seq(Frames), Broadcast(p, s)
    PROVE  /\ stack' \in Seq(Frames)
           /\ PostDepths(stack') = PostDepths(s) \cup {Len(s) + 1}
           /\ FlushDepths(stack') = FlushDepths(s)
           /\ \A i \in 1..Len(s) : stack'[i] = s[i]
           /\ stack'[Len(s) + 1] = [kind |-> "post", id |-> p.id, a |-> 0]
           /\ PostDepths(s) \subseteq 1..Len(s) /\ FlushDepths(s) \subseteq 1..Len(s)
<1> DEFINE f == [kind |-> "post", id |-> p.id, a |-> 0]
<1>1. f \in Frames /\ IsPost(f) /\ ~IsFlush(f)
  BY DEF Frames, PostFrame, IsPost, IsFlush
<1>2. stack' = Append(s, f)
  BY DEF Broadcast
<1> HIDE DEF f
<1>3. /\ stack' \in Seq(Frames)
      /\ PostDepths(stack') = PostDepths(s) \cup {Len(s) + 1}
      /\ FlushDepths(stack') = FlushDepths(s)
      /\ \A i \in 1..Len(s) : stack'[i] = s[i]
      /\ stack'[Len(s) + 1] = f
  BY <1>1, <1>2, PushFrame
<1> QED
  BY <1>3, DepthsFinite DEF f

LEMMA InitPostInv == Init => PostInv
<1> SUFFICES ASSUME Init PROVE PostInv
  OBVIOUS
<1>1. FlushDepths(stack) = {} /\ DOMAIN delayedPosts = {} /\ 1..posted = {}
  BY DEF Init, FlushDepths
<1> QED
  BY <1>1 DEF Init, PostInv, PostsAreNumbered, FlushesAreShallow, BroadcastOnce

\* What the invariant says of the posts, for the steps below.
LEMMA PostTypes ==
    ASSUME IInv
    PROVE  /\ delayedPosts \in Seq([id : Events, no : 1..MaxPosts])
           /\ DOMAIN delayedPosts = 1..Len(delayedPosts) /\ Len(delayedPosts) \in Nat
           /\ \A i \in DOMAIN delayedPosts : delayedPosts[i].no \in 1..MaxPosts
           /\ posted \in 0..MaxPosts /\ MaxPosts \in Nat
           /\ runs \in [1..MaxPosts -> 0..2]
           /\ stack \in Seq(Frames)
<1>1. delayedPosts \in Seq([id : Events, no : 1..MaxPosts])
  BY DEF IInv, TypeOK
<1>2. \A i \in 1..Len(delayedPosts) : delayedPosts[i] \in [id : Events, no : 1..MaxPosts]
  BY <1>1, ElementOfSeq
<1>3. DOMAIN delayedPosts = 1..Len(delayedPosts) /\ Len(delayedPosts) \in Nat
  BY <1>1
<1>4. \A i \in DOMAIN delayedPosts : delayedPosts[i].no \in 1..MaxPosts
  BY <1>2, <1>3
<1>5. /\ posted \in 0..MaxPosts /\ MaxPosts \in Nat
      /\ runs \in [1..MaxPosts -> 0..2] /\ stack \in Seq(Frames)
  BY NCAssumption DEF IInv, TypeOK
<1> QED
  BY <1>1, <1>3, <1>4, <1>5

LEMMA PostNotificationNamePosts ==
    ASSUME IInv, PostInv, NEW e \in Events, PostNotificationName(e)
    PROVE  PostInv'
<1> DEFINE p == [id |-> e, no |-> posted + 1]
<1>1. posted < MaxPosts /\ posted' = posted + 1 /\ reentered' = reentered
  BY DEF PostNotificationName
<1>2. PostsAreNumbered /\ FlushesAreShallow /\ BroadcastOnce
  BY DEF PostInv
<1>3. CASE Held(e)
  <2>1. /\ delayedPosts' = Append(delayedPosts, p) /\ stack' = Invalidate(stack)
        /\ runs' = runs /\ animationInProgress
    BY <1>3 DEF PostNotificationName, Held
  <2>2. FlushDepths(stack') = FlushDepths(stack)
    BY <2>1, PostTypes, InvalidateFrames
  <2>3. /\ DOMAIN delayedPosts' = 1..(Len(delayedPosts) + 1)
        /\ delayedPosts'[Len(delayedPosts) + 1].no = posted + 1
        /\ \A i \in DOMAIN delayedPosts : delayedPosts'[i] = delayedPosts[i]
        /\ \A i \in DOMAIN delayedPosts' :
               i \in DOMAIN delayedPosts \/ i = Len(delayedPosts) + 1
    BY <1>1, <2>1, PostTypes
  <2>4. PostsAreNumbered'
    BY <1>1, <1>2, <2>1, <2>3, PostTypes DEF PostsAreNumbered
  <2>5. FlushesAreShallow'
    BY <1>2, <2>2 DEF FlushesAreShallow
  <2>6. BroadcastOnce'
    <3> SUFFICES ASSUME ~reentered', NEW n \in 1..posted'
                 PROVE  runs'[n] = IF Waiting(n)' THEN 0 ELSE 1
      BY DEF BroadcastOnce
    <3>1. ~reentered /\ FlushDepths(stack) = {}
      BY <1>1, <2>1 DEF IInv, FlushUndisturbed
    <3>2. Flushed = 0 /\ Flushed' = 0
      BY <2>2, <3>1 DEF Flushed
    <3>3. CASE n = posted + 1
      <4>1. Waiting(n)'
        <5>1. Len(delayedPosts) + 1 \in DOMAIN delayedPosts' /\ Len(delayedPosts) + 1 > 0
          BY <2>3, PostTypes
        <5> QED
          BY <2>3, <3>2, <3>3, <5>1 DEF Waiting
      <4>2. runs[n] = 0
        BY <1>1, <1>2, <3>3, PostTypes DEF PostsAreNumbered
      <4> QED
        BY <2>1, <4>1, <4>2
    <3>4. CASE n # posted + 1
      <4>1. n \in 1..posted
        BY <1>1, <3>4, PostTypes
      <4>2. Waiting(n) => Waiting(n)'
        <5>1. \A i \in DOMAIN delayedPosts : i \in DOMAIN delayedPosts'
          BY <2>3, PostTypes
        <5> QED
          BY <2>3, <3>2, <5>1 DEF Waiting
      <4>3. Waiting(n)' => Waiting(n)
        BY <2>3, <3>2, <3>4 DEF Waiting
      <4> QED
        BY <1>2, <2>1, <3>1, <4>1, <4>2, <4>3 DEF BroadcastOnce
    <3> QED
      BY <3>3, <3>4
  <2> QED
    BY <2>4, <2>5, <2>6 DEF PostInv
<1>4. CASE ~Held(e)
  <2>1. Broadcast(p, stack) /\ delayedPosts' = delayedPosts
    BY <1>4 DEF PostNotificationName
  <2>2. runs' = [runs EXCEPT ![posted + 1] = Again(@)]
    BY <2>1 DEF Broadcast
  <2>3. /\ FlushDepths(stack') = FlushDepths(stack)
        /\ \A i \in FlushDepths(stack) : stack'[i] = stack[i]
    <3>1. p \in [id : Events, no : Nat]
      BY PostTypes
    <3> QED
      BY <2>1, <3>1, PostTypes, BroadcastFrames
  <2>4. posted + 1 \in 1..MaxPosts /\ runs[posted + 1] = 0 /\ runs'[posted + 1] = 1
        /\ \A n \in 1..MaxPosts : n # posted + 1 => runs'[n] = runs[n]
    BY <1>1, <1>2, <2>2, PostTypes DEF PostsAreNumbered, Again
  <2>5. PostsAreNumbered'
    BY <1>1, <1>2, <2>1, <2>4, PostTypes DEF PostsAreNumbered
  <2>6. FlushesAreShallow'
    BY <1>2, <2>3 DEF FlushesAreShallow
  <2>7. Flushed' = Flushed
    BY <2>3, PostTypes, FlushedFollows
  <2>8. BroadcastOnce'
    <3> SUFFICES ASSUME ~reentered', NEW n \in 1..posted'
                 PROVE  runs'[n] = IF Waiting(n)' THEN 0 ELSE 1
      BY DEF BroadcastOnce
    <3>1. Waiting(n)' <=> Waiting(n)
      BY <2>1, <2>7 DEF Waiting
    <3>2. CASE n = posted + 1
      <4>1. ~Waiting(n)
        BY <1>2, <3>2, PostTypes DEF Waiting, PostsAreNumbered
      <4> QED
        BY <2>4, <3>1, <3>2, <4>1
    <3>3. CASE n # posted + 1
      <4>1. n \in 1..posted /\ n \in 1..MaxPosts
        BY <1>1, <3>3, PostTypes
      <4> QED
        BY <1>1, <1>2, <2>4, <3>1, <3>3, <4>1 DEF BroadcastOnce
    <3> QED
      BY <3>2, <3>3
  <2> QED
    BY <2>5, <2>6, <2>8 DEF PostInv
<1> QED
  BY <1>3, <1>4

LEMMA SetAnimationInProgressPosts ==
    ASSUME IInv, PostInv, NEW value \in BOOLEAN, SetAnimationInProgress(value)
    PROVE  PostInv'
<1> DEFINE f == [kind |-> "flush", at |-> 0, limit |-> Len(delayedPosts), stale |-> FALSE]
<1>1. /\ UNCHANGED <<delayedPosts, runs, posted>> /\ Len(stack) < MaxDepth
      /\ reentered' = (reentered \/ FlushDepths(stack) # {})
      /\ stack' = stack \/ stack' = Append(stack, f)
  BY DEF SetAnimationInProgress
<1>2. PostsAreNumbered /\ FlushesAreShallow /\ BroadcastOnce
  BY DEF PostInv
<1>3. /\ FlushDepths(stack') \subseteq FlushDepths(stack) \cup {Len(stack) + 1}
      /\ \A i \in FlushDepths(stack') \ FlushDepths(stack) : stack'[i].at = 0
      /\ stack' \in Seq(Frames)
  <2>1. CASE stack' = stack
    BY <2>1, PostTypes
  <2>2. CASE stack' = Append(stack, f)
    <3>1. f \in Frames /\ f.at = 0
      BY PostTypes DEF Frames, FlushFrame
    <3> HIDE DEF f
    <3>2. /\ stack' \in Seq(Frames) /\ stack'[Len(stack) + 1] = f
          /\ FlushDepths(stack') \subseteq FlushDepths(stack) \cup {Len(stack) + 1}
      BY <2>2, <3>1, PostTypes, PushFrame
    <3> QED
      BY <3>1, <3>2
  <2> QED
    BY <1>1, <2>1, <2>2
<1>4. PostsAreNumbered'
  BY <1>1, <1>2 DEF PostsAreNumbered
<1>5. FlushesAreShallow'
  BY <1>1, <1>2, <1>3, PostTypes, NCAssumption DEF FlushesAreShallow
<1>6. BroadcastOnce'
  <2> SUFFICES ASSUME ~reentered'
               PROVE  Flushed = 0 /\ Flushed' = 0
    <3>1. Flushed' = Flushed => \A n \in 1..posted : Waiting(n)' = Waiting(n)
      BY <1>1 DEF Waiting
    <3> QED
      BY <1>1, <1>2, <3>1 DEF BroadcastOnce
  <2>1. FlushDepths(stack) = {}
    BY <1>1
  <2>2. Flushed = 0
    BY <2>1 DEF Flushed
  <2>3. CASE FlushDepths(stack') = {}
    BY <2>2, <2>3 DEF Flushed
  <2>4. CASE FlushDepths(stack') # {}
    <3>1. FlushDepths(stack') \in SUBSET Nat
      BY <1>3, DepthsFinite
    <3>2. Min(FlushDepths(stack')) \in FlushDepths(stack')
      BY <2>4, <3>1, MinOfNaturals
    <3> QED
      BY <1>3, <2>1, <2>2, <2>4, <3>2 DEF Flushed
  <2> QED
    BY <2>3, <2>4
<1> QED
  BY <1>4, <1>5, <1>6 DEF PostInv

LEMMA FlushNextPosts ==
    ASSUME IInv, PostInv, FlushNext
    PROVE  PostInv'
<1> DEFINE n == Len(stack)
           f == Last(stack)
           g == [f EXCEPT !.at = @ + 1]
           s == [stack EXCEPT ![n] = g]
           p == delayedPosts[f.at + 1]
<1>1. /\ UNCHANGED <<delayedPosts, posted, reentered>>
      /\ stack # <<>> /\ IsFlush(f) /\ f.at < f.limit
  BY DEF FlushNext, OnTop, anim
<1>2. PostsAreNumbered /\ FlushesAreShallow /\ BroadcastOnce
  BY DEF PostInv
<1>3. f = stack[n] /\ n \in Nat \ {0} /\ n \in 1..n /\ f \in Frames
  BY <1>1, PostTypes, FrontOfSeq
<1>4. f \in FlushFrame
  BY <1>1, <1>3, FrameKinds
<1>5. n \in FlushDepths(stack)
  BY <1>1, <1>3, PostTypes DEF FlushDepths
<1>6. CASE f.stale
  <2>1. UNCHANGED <<stack, runs>>
    BY <1>6 DEF FlushNext
  <2> QED
    BY <1>1, <2>1, PostTypes, PostsUntouched
<1>7. CASE ~f.stale
  <2>1. Broadcast(p, s)
    BY <1>3, <1>7 DEF FlushNext
  <2>2. g \in FlushFrame /\ g \in Frames /\ g.kind = f.kind /\ g.at = f.at + 1
    BY <1>4 DEF FlushFrame, Frames
  <2>3. f.limit = Len(delayedPosts)
    BY <1>3, <1>5, <1>7 DEF IInv, FlushesKnowTheList
  <2>4. f.at + 1 \in DOMAIN delayedPosts /\ f.at \in Nat
    BY <1>1, <1>4, <2>3, PostTypes DEF FlushFrame
  <2>5. p \in [id : Events, no : 1..MaxPosts] /\ p \in [id : Events, no : Nat]
    <3>1. p \in [id : Events, no : 1..MaxPosts]
      BY <2>4, PostTypes, ElementOfSeq
    <3> QED
      BY <3>1, PostTypes
  <2> HIDE DEF g
  <2>6. /\ s \in Seq(Frames) /\ Len(s) = n
        /\ \A i \in 1..n : s[i] = IF i = n THEN g ELSE stack[i]
        /\ FlushDepths(s) = FlushDepths(stack)
    BY <1>1, <2>2, PostTypes, UpdateTop
  <2> HIDE DEF s
  <2>7. runs' = [runs EXCEPT ![p.no] = Again(@)]
    BY <2>1 DEF Broadcast
  <2>8. p.no <= posted /\ \A i \in DOMAIN delayedPosts : delayedPosts[i].no = p.no => i = f.at + 1
    BY <1>2, <2>4 DEF PostsAreNumbered
  <2> HIDE DEF p
  <2>9. /\ FlushDepths(stack') = FlushDepths(stack)
        /\ stack'[n].at = f.at + 1 /\ stack' \in Seq(Frames)
    BY <1>3, <2>1, <2>2, <2>5, <2>6, BroadcastFrames
  <2>10. PostsAreNumbered'
    BY <1>1, <1>2, <2>5, <2>7, <2>8, PostTypes DEF PostsAreNumbered
  <2>11. FlushesAreShallow'
    BY <1>2, <2>9 DEF FlushesAreShallow
  <2>12. BroadcastOnce'
    <3> SUFFICES ASSUME ~reentered', NEW m \in 1..posted'
                 PROVE  runs'[m] = IF Waiting(m)' THEN 0 ELSE 1
      BY DEF BroadcastOnce
    <3>1. ~reentered /\ \A i, j \in FlushDepths(stack) : i = j
      BY <1>1 DEF IInv, FlushUndisturbed
    <3>2. Min(FlushDepths(stack)) = n /\ Min(FlushDepths(stack')) = n
      BY <1>5, <2>9, <3>1, PostTypes, OnlyFlush
    <3>3. Flushed = f.at /\ Flushed' = f.at + 1
      BY <1>3, <1>5, <2>9, <3>2 DEF Flushed
    <3>4. m \in 1..posted /\ m \in 1..MaxPosts /\ runs[m] = IF Waiting(m) THEN 0 ELSE 1
      BY <1>1, <1>2, <3>1, PostTypes DEF BroadcastOnce
    <3>5. CASE m = p.no
      <4>1. Waiting(m)
        BY <2>4, <3>3, <3>5 DEF Waiting, p
      <4>2. ~Waiting(m)'
        BY <1>1, <2>4, <2>8, <3>3, <3>5, PostTypes DEF Waiting
      <4>3. runs'[m] = 1
        BY <2>7, <3>4, <3>5, <4>1, PostTypes DEF Again
      <4> QED
        BY <4>2, <4>3
    <3>6. CASE m # p.no
      <4>1. \A i \in DOMAIN delayedPosts : delayedPosts[i].no = m => i # f.at + 1
        BY <3>6 DEF p
      <4>2. \A i \in DOMAIN delayedPosts :
                delayedPosts[i].no = m => (i > f.at + 1 <=> i > f.at)
        BY <2>4, <4>1, PostTypes
      <4>3. Waiting(m)' <=> Waiting(m)
        BY <1>1, <3>3, <4>2 DEF Waiting
      <4> QED
        BY <2>7, <3>4, <3>6, <4>3, PostTypes
    <3> QED
      BY <3>5, <3>6
  <2> QED
    BY <2>10, <2>11, <2>12 DEF PostInv
<1> QED
  BY <1>6, <1>7

LEMMA FlushEndPosts ==
    ASSUME IInv, PostInv, FlushEnd
    PROVE  PostInv'
<1> DEFINE n == Len(stack)
           f == Last(stack)
           below == Front(stack)
<1>1. /\ UNCHANGED <<posted, runs, reentered>> /\ delayedPosts' = <<>>
      /\ stack # <<>> /\ IsFlush(f) /\ f.at >= f.limit /\ stack' = Invalidate(below)
  BY DEF FlushEnd, OnTop, history
<1>2. PostsAreNumbered /\ FlushesAreShallow /\ BroadcastOnce
  BY DEF PostInv
<1>3. f = stack[n] /\ n \in Nat \ {0} /\ n \in 1..n /\ f \in Frames
  BY <1>1, PostTypes, FrontOfSeq
<1>4. f \in FlushFrame
  BY <1>1, <1>3, FrameKinds
<1>5. n \in FlushDepths(stack)
  BY <1>1, <1>3, PostTypes DEF FlushDepths
<1>6. below \in Seq(Frames) /\ FlushDepths(below) \subseteq FlushDepths(stack)
  BY <1>1, PostTypes, PopFrame
<1> HIDE DEF below
<1>7. FlushDepths(stack') \subseteq FlushDepths(stack)
  BY <1>1, <1>6, InvalidateFrames
<1>8. DOMAIN delayedPosts' = {}
  BY <1>1
<1>9. PostsAreNumbered'
  BY <1>1, <1>2, <1>8 DEF PostsAreNumbered
<1>10. FlushesAreShallow'
  BY <1>2, <1>7 DEF FlushesAreShallow
<1>11. BroadcastOnce'
  <2> SUFFICES ASSUME ~reentered', NEW m \in 1..posted'
               PROVE  ~Waiting(m) /\ ~Waiting(m)'
    BY <1>1, <1>2 DEF BroadcastOnce
  <2>1. ~reentered /\ ~f.stale /\ \A i, j \in FlushDepths(stack) : i = j
    BY <1>1, <1>3, <1>5 DEF IInv, FlushUndisturbed
  <2>2. Flushed = f.at
    BY <1>3, <1>5, <2>1, PostTypes, OnlyFlush DEF Flushed
  <2>3. f.limit = Len(delayedPosts)
    BY <1>3, <1>5, <2>1 DEF IInv, FlushesKnowTheList
  <2>4. ~Waiting(m)
    BY <1>1, <1>4, <2>2, <2>3, PostTypes DEF Waiting, FlushFrame
  <2> QED
    BY <1>8, <2>4 DEF Waiting
<1> QED
  BY <1>9, <1>10, <1>11 DEF PostInv

\* The broadcast on top of s takes one step along its list.
LEMMA StepTop ==
    ASSUME NEW s \in Seq(Frames), s # <<>>, IsPost(Last(s))
    PROVE  LET t == [s EXCEPT ![Len(s)].a = @ + 1]
               n == Len(s)
           IN  /\ s[n] \in PostFrame /\ Last(s) = s[n] /\ n \in 1..n
               /\ Len(t) = n
               /\ t[n] = [s[n] EXCEPT !.a = @ + 1]
               /\ \A i \in 1..n : i # n => t[i] = s[i]
               /\ PostDepths(t) = PostDepths(s) /\ FlushDepths(t) = FlushDepths(s)
<1> DEFINE f == Last(s)
           g == [f EXCEPT !.a = @ + 1]
           t == [s EXCEPT ![Len(s)] = g]
<1>1. f = s[Len(s)] /\ Len(s) \in 1..Len(s) /\ f \in Frames
  BY FrontOfSeq
<1>2. f \in PostFrame
  BY <1>1, FrameKinds
<1>3. g \in Frames /\ g.kind = f.kind
  BY <1>2 DEF PostFrame, Frames
<1>4. t = [s EXCEPT ![Len(s)].a = @ + 1]
  BY <1>1
<1>5. g = [s[Len(s)] EXCEPT !.a = @ + 1]
  BY <1>1
<1> HIDE DEF g
<1>6. g.kind = Last(s).kind
  BY <1>3
<1> HIDE DEF f
<1>7. /\ Len(t) = Len(s)
      /\ \A i \in 1..Len(s) : t[i] = IF i = Len(s) THEN g ELSE s[i]
      /\ PostDepths(t) = PostDepths(s) /\ FlushDepths(t) = FlushDepths(s)
  BY <1>3, <1>6, UpdateTop
<1> HIDE DEF t
<1> QED
  BY <1>1, <1>2, <1>4, <1>5, <1>7 DEF f

\* The same for a step of the hub.
LEMMA NextObserverFrames ==
    ASSUME IInv, CallNextObserver
    PROVE  LET n == Len(stack) IN
           /\ stack[n] \in PostFrame /\ Last(stack) = stack[n]
           /\ n \in PostDepths(stack) /\ n \in 1..n
           /\ Len(stack') = n
           /\ stack'[n] = [stack[n] EXCEPT !.a = @ + 1]
           /\ \A i \in 1..n : i # n => stack'[i] = stack[i]
           /\ PostDepths(stack') = PostDepths(stack) /\ PostDepths(stack) \subseteq 1..n
           /\ FlushDepths(stack') = FlushDepths(stack)
<1>1. stack # <<>> /\ IsPost(Last(stack)) /\ stack \in Seq(Frames)
  BY DEF CallNextObserver, OnTop, IInv, TypeOK
<1>2. stack' = [stack EXCEPT ![Len(stack)].a = @ + 1]
  BY DEF CallNextObserver
<1>3. PostDepths(stack) \subseteq 1..Len(stack)
  BY <1>1, DepthsFinite
<1>4. LET n == Len(stack) IN
      /\ stack[n] \in PostFrame /\ Last(stack) = stack[n] /\ n \in 1..n
      /\ Len(stack') = n
      /\ stack'[n] = [stack[n] EXCEPT !.a = @ + 1]
      /\ \A i \in 1..n : i # n => stack'[i] = stack[i]
      /\ PostDepths(stack') = PostDepths(stack) /\ FlushDepths(stack') = FlushDepths(stack)
  BY <1>1, <1>2, StepTop
<1>5. Len(stack) \in PostDepths(stack)
  BY <1>1, <1>4 DEF PostDepths
<1> QED
  BY <1>3, <1>4, <1>5

\* The walk of a broadcast and its end leave every flush where it is.
LEMMA BroadcastMovesNoFlush ==
    ASSUME IInv, CallNextObserver \/ EndBroadcast \/ DrainEnd
    PROVE  /\ FlushDepths(stack') = FlushDepths(stack)
           /\ \A i \in FlushDepths(stack) : stack'[i] = stack[i]
<1> DEFINE n == Len(stack)
           f == Last(stack)
           below == Front(stack)
<1>1. stack # <<>> /\ (IsPost(f) \/ IsDrain(f))
  BY DEF CallNextObserver, EndBroadcast, DrainEnd, OnTop
<1>2. f = stack[n] /\ n \in Nat \ {0} /\ n \in 1..n /\ f \in Frames
  BY <1>1, PostTypes, FrontOfSeq
<1>3. ~IsFlush(f)
  BY <1>1, <1>2, FrameKinds
<1>4. n \notin FlushDepths(stack) /\ FlushDepths(stack) \subseteq 1..n
  BY <1>2, <1>3, PostTypes, DepthsFinite DEF FlushDepths
<1>5. \A i \in FlushDepths(stack) : i \in 1..(n - 1) /\ i # n
  BY <1>2, <1>4
<1>6. CASE CallNextObserver
  <2>1. /\ FlushDepths(stack') = FlushDepths(stack)
        /\ \A i \in 1..n : i # n => stack'[i] = stack[i]
    BY <1>6, NextObserverFrames
  <2> QED
    BY <1>4, <1>5, <2>1
<1>7. /\ below \in Seq(Frames) /\ Len(below) = n - 1
      /\ \A i \in 1..(n - 1) : below[i] = stack[i]
      /\ FlushDepths(below) = FlushDepths(stack)
  <2>1. /\ below \in Seq(Frames) /\ Len(below) = n - 1
        /\ \A i \in 1..Len(below) : below[i] = stack[i]
        /\ FlushDepths(below) = FlushDepths(stack) \ {n}
    BY <1>1, PostTypes, PopFrame
  <2> QED
    BY <1>4, <2>1
<1>8. CASE stack' = below
  BY <1>5, <1>7, <1>8
<1>9. CASE stack' = Append(below, [kind |-> "drain"])
  <2> DEFINE d == [kind |-> "drain"]
  <2>1. d \in Frames /\ ~IsFlush(d)
    BY DEF Frames, DrainFrame, IsFlush
  <2>2. stack' = Append(below, d)
    BY <1>9
  <2> HIDE DEF d, below
  <2>3. /\ FlushDepths(stack') = FlushDepths(below)
        /\ \A i \in 1..Len(below) : stack'[i] = below[i]
    BY <1>7, <2>1, <2>2, PushFrame
  <2> QED
    BY <1>5, <1>7, <2>3
<1>10. CallNextObserver \/ stack' = below \/ stack' = Append(below, [kind |-> "drain"])
  <2>1. EndBroadcast => stack' = below \/ stack' = Append(below, [kind |-> "drain"])
    BY DEF EndBroadcast
  <2>2. DrainEnd => stack' = below
    BY DEF DrainEnd
  <2> QED
    BY <2>1, <2>2
<1> QED
  BY <1>6, <1>8, <1>9, <1>10

LEMMA NextPostInv == IInv /\ PostInv /\ [Next]_vars => PostInv'
<1> SUFFICES ASSUME IInv, PostInv, [Next]_vars
             PROVE  PostInv'
  OBVIOUS
<1>1. ASSUME UNCHANGED <<delayedPosts, runs, posted, reentered, stack>>
      PROVE  PostInv'
  BY <1>1, PostTypes, PostsUntouched
<1>2. ASSUME NEW o \in Observers, NEW e \in Events, AddObserver(o, e) \/ RemoveObserver(o, e)
      PROVE  PostInv'
  BY <1>1, <1>2 DEF AddObserver, RemoveObserver, anim, history
<1>3. ASSUME NEW e \in Events, PostNotificationName(e)
      PROVE  PostInv'
  BY <1>3, PostNotificationNamePosts
<1>4. ASSUME NEW S \in SUBSET Events, SetAllowedNotificationsDutingAnimation(S)
      PROVE  PostInv'
  BY <1>1, <1>4 DEF SetAllowedNotificationsDutingAnimation, history
<1>5. ASSUME NEW value \in BOOLEAN, SetAnimationInProgress(value)
      PROVE  PostInv'
  BY <1>5, SetAnimationInProgressPosts
<1>6. CASE CallNextObserver \/ EndBroadcast \/ DrainEnd
  <2>1. UNCHANGED <<delayedPosts, runs, posted, reentered>>
    BY <1>6 DEF CallNextObserver, EndBroadcast, DrainEnd, anim, history
  <2> QED
    BY <1>6, <2>1, BroadcastMovesNoFlush, PostTypes, PostsUntouched
<1>7. ASSUME NEW e \in Events, DrainRemove(e) \/ DrainAdd(e)
      PROVE  PostInv'
  BY <1>1, <1>7 DEF DrainRemove, DrainAdd, anim, history
<1>8. CASE FlushNext
  BY <1>8, FlushNextPosts
<1>9. CASE FlushEnd
  BY <1>9, FlushEndPosts
<1>10. CASE UNCHANGED vars
  BY <1>1, <1>10 DEF vars, anim, history
<1> QED
  BY <1>2, <1>3, <1>4, <1>5, <1>6, <1>7, <1>8, <1>9, <1>10 DEF Next, App, Run

\* Unless an observer starts or ends an animation while delayed posts are
\* flushed, the flush does not fail, and delaying neither loses nor repeats a post.
THEOREM DelayedPostsAreKept == Spec => []PostedExactlyOnce
<1>1. Spec => []PostInv
  BY InitPostInv, NextPostInv, Invariance, PTL DEF Spec
<1>2. IInv /\ PostInv => PostedExactlyOnce
  BY DEF IInv, FlushUndisturbed, PostInv, BroadcastOnce, PostedExactlyOnce
<1> QED
  BY <1>1, <1>2, Invariance, PTL

-----------------------------------------------------------------------------
(* The hub implements the bus.  The variables of the bus, as the hub's      *)
(* state defines them.                                                     *)

Registered == [e \in Events |-> Settled(e)]
Joining    == Pending(addAfterBroadcast)
Leaving    == Pending(removeAfterBroadcast)
Running    == {[depth |-> i, id |-> stack[i].id, todo |-> StillToTell(stack[i])]
                  : i \in PostDepths(stack)}

BusStep == Bus!Next \/ UNCHANGED Bus!busVars

LEMMA InitBus == Init => Bus!Init
<1> SUFFICES ASSUME Init PROVE Bus!Init
  OBVIOUS
<1>1. PostDepths(stack) = {}
  BY DEF Init, PostDepths
<1>2. \A e \in Events : Settled(e) = {}
  BY DEF Init, Settled, ToSet
<1> QED
  BY <1>1, <1>2 DEF Init, Bus!Init, Pending

\* The types of what the bus is made of.
LEMMA BusTypes ==
    ASSUME IInv
    PROVE  /\ stack \in Seq(Frames) /\ Len(stack) \in Nat
           /\ PostDepths(stack) \subseteq 1..Len(stack)
           /\ broadcasting \in Nat
           /\ broadcasting = 0 <=> PostDepths(stack) = {}
           /\ observers \in [Events -> Seq(Observers)]
           /\ removeAfterBroadcast \in [Events -> Seq(Observers)]
           /\ addAfterBroadcast \in [Events -> Seq(Observers)]
<1>1. stack \in Seq(Frames)
  BY DEF IInv, TypeOK
<1>2. PostDepths(stack) \subseteq 1..Len(stack)
      /\ (Cardinality(PostDepths(stack)) = 0 <=> PostDepths(stack) = {})
  BY <1>1, DepthsFinite
<1> QED
  BY <1>1, <1>2 DEF IInv, TypeOK, CountsBroadcasts

\* The bus is quiet while no broadcast is counted, and the broadcasts on it
\* are not deeper than the stack.
LEMMA RunningDepths ==
    ASSUME IInv
    PROVE  /\ broadcasting = 0 <=> Running = {}
           /\ \A b \in Running : b.depth \in 1..Len(stack)
<1>1. Running = {} <=> PostDepths(stack) = {}
  BY DEF Running
<1>2. \A b \in Running : b.depth \in PostDepths(stack)
  BY DEF Running
<1> QED
  BY <1>1, <1>2, BusTypes

\* The observers of obs that the broadcast of frame f has not told.
ToTell(obs, f) == {obs[f.id][i] : i \in (f.a + 1)..Len(obs[f.id])}

LEMMA RunningIs ==
    /\ Running = {[depth |-> i, id |-> stack[i].id, todo |-> ToTell(observers, stack[i])]
                      : i \in PostDepths(stack)}
    /\ Running' = {[depth |-> i, id |-> stack'[i].id, todo |-> ToTell(observers', stack'[i])]
                      : i \in PostDepths(stack')}
BY DEF Running, StillToTell, ToTell

\* Steps that the bus does not see.
LEMMA RunningUntouched ==
    ASSUME UNCHANGED observers, PostDepths(stack') = PostDepths(stack),
           \A i \in PostDepths(stack) : stack'[i] = stack[i]
    PROVE  Running' = Running
BY RunningIs

LEMMA BusUntouched ==
    ASSUME UNCHANGED <<hub, broadcasting>>, PostDepths(stack') = PostDepths(stack),
           \A i \in PostDepths(stack) : stack'[i] = stack[i]
    PROVE  BusStep
<1>1. Running' = Running
  BY RunningUntouched DEF hub
<1>2. Registered' = Registered /\ Joining' = Joining /\ Leaving' = Leaving
  BY DEF Registered, Joining, Leaving, Settled, Pending, hub
<1> QED
  BY <1>1, <1>2 DEF BusStep, Bus!busVars, Registered, Joining, Leaving, Running

LEMMA AddObserverJoins ==
    ASSUME IInv, NEW o \in Observers, NEW e \in Events, AddObserver(o, e)
    PROVE  Bus!Join(o, e)
<1>1. /\ UNCHANGED <<removeAfterBroadcast, broadcasting, stack>> /\ AppRuns
  BY DEF AddObserver
<1>2. observers[e] \in Seq(Observers) /\ addAfterBroadcast[e] \in Seq(Observers)
  BY BusTypes
<1>3. Leaving' = Leaving
  BY <1>1 DEF Leaving, Pending
<1>4. CASE Deferring
  <2>1. /\ UNCHANGED observers
        /\ addAfterBroadcast' = [addAfterBroadcast EXCEPT ![e] = Append(@, o)]
    BY <1>4 DEF AddObserver
  <2>2. Running # {} /\ broadcasting # 0
    BY <1>4, RunningDepths DEF Deferring
  <2>3. Running' = Running /\ Registered' = Registered
    BY <1>1, <2>1, <2>2, RunningUntouched DEF Registered, Settled
  <2>4. ToSet(Append(addAfterBroadcast[e], o)) = ToSet(addAfterBroadcast[e]) \cup {o}
    BY <1>2, ToSetOfAppend
  <2>5. Joining' = [Joining EXCEPT ![e] = @ \cup {o}]
    BY <1>1, <2>1, <2>2, <2>4, BusTypes DEF Joining, Pending
  <2> QED
    BY <1>3, <2>2, <2>3, <2>5
       DEF Bus!Join, Bus!Quiet, Registered, Joining, Leaving, Running
<1>5. CASE ~Deferring
  <2> DEFINE new == IF Contains(observers[e], o) THEN observers[e] ELSE Append(observers[e], o)
  <2>1. observers' = [observers EXCEPT ![e] = new] /\ UNCHANGED addAfterBroadcast
    BY <1>5 DEF AddObserver
  <2>2. broadcasting = 0 /\ NoneToRemove /\ NoneToAdd
    BY <1>1, <1>5, AppFindsNothingDeferred
  <2>3. Running = {} /\ Running' = {}
    BY <1>1, <2>2, BusTypes DEF Running
  <2>4. ToSet(new) = ToSet(observers[e]) \cup {o}
    BY <1>2, ToSetOfAppend, ContainsToSet
  <2> HIDE DEF new
  <2>5. Joining' = Joining
    BY <1>1, <2>1 DEF Joining, Pending
  <2>6. \A d \in Events : ToSet(removeAfterBroadcast[d]) = {} /\ ToSet(addAfterBroadcast[d]) = {}
    BY <2>2 DEF NoneToRemove, NoneToAdd, ToSet
  <2>7. Registered' = [Registered EXCEPT ![e] = @ \cup {o}]
    BY <1>1, <2>1, <2>2, <2>4, <2>6, BusTypes DEF Registered, Settled
  <2> QED
    BY <1>3, <2>3, <2>5, <2>7
       DEF Bus!Join, Bus!Quiet, Registered, Joining, Leaving, Running
<1> QED
  BY <1>4, <1>5

LEMMA RemoveObserverLeaves ==
    ASSUME IInv, NEW o \in Observers, NEW e \in Events, RemoveObserver(o, e)
    PROVE  Bus!Leave(o, e)
<1>1. /\ UNCHANGED <<addAfterBroadcast, broadcasting, stack>> /\ AppRuns
  BY DEF RemoveObserver
<1>2. /\ observers[e] \in Seq(Observers) /\ removeAfterBroadcast[e] \in Seq(Observers)
      /\ IsInjective(observers[e])
  BY BusTypes DEF IInv, NoDuplicateObservers
<1>3. Joining' = Joining
  BY <1>1 DEF Joining, Pending
<1>4. CASE Deferring
  <2>1. /\ UNCHANGED observers
        /\ removeAfterBroadcast' = [removeAfterBroadcast EXCEPT ![e] = Append(@, o)]
    BY <1>4 DEF RemoveObserver
  <2>2. Running # {} /\ broadcasting # 0
    BY <1>4, RunningDepths DEF Deferring
  <2>3. Running' = Running /\ Registered' = Registered
    BY <1>1, <2>1, <2>2, RunningUntouched DEF Registered, Settled
  <2>4. ToSet(Append(removeAfterBroadcast[e], o)) = ToSet(removeAfterBroadcast[e]) \cup {o}
    BY <1>2, ToSetOfAppend
  <2>5. Leaving' = [Leaving EXCEPT ![e] = @ \cup {o}]
    BY <1>1, <2>1, <2>2, <2>4, BusTypes DEF Leaving, Pending
  <2> QED
    BY <1>3, <2>2, <2>3, <2>5
       DEF Bus!Leave, Bus!Quiet, Registered, Joining, Leaving, Running
<1>5. CASE ~Deferring
  <2> DEFINE new == RemoveFirst(observers[e], o)
  <2>1. observers' = [observers EXCEPT ![e] = new] /\ UNCHANGED removeAfterBroadcast
    BY <1>5 DEF RemoveObserver
  <2>2. broadcasting = 0 /\ NoneToRemove /\ NoneToAdd
    BY <1>1, <1>5, AppFindsNothingDeferred
  <2>3. Running = {} /\ Running' = {}
    BY <1>1, <2>2, BusTypes DEF Running
  <2>4. ToSet(new) = ToSet(observers[e]) \ {o}
    BY <1>2, RemoveFirstOfDistinct
  <2> HIDE DEF new
  <2>5. Leaving' = Leaving
    BY <1>1, <2>1 DEF Leaving, Pending
  <2>6. \A d \in Events : ToSet(removeAfterBroadcast[d]) = {} /\ ToSet(addAfterBroadcast[d]) = {}
    BY <2>2 DEF NoneToRemove, NoneToAdd, ToSet
  <2>7. Registered' = [Registered EXCEPT ![e] = @ \ {o}]
    BY <1>1, <2>1, <2>2, <2>4, <2>6, BusTypes DEF Registered, Settled
  <2> QED
    BY <1>3, <2>3, <2>5, <2>7
       DEF Bus!Leave, Bus!Quiet, Registered, Joining, Leaving, Running
<1> QED
  BY <1>4, <1>5

\* A broadcast announces its event to those who are registered when it starts.
LEMMA BroadcastAnnounces ==
    ASSUME IInv, ~OnTop(IsDrain), UNCHANGED hub, Len(stack) <= MaxDepth,
           NEW p \in [id : Events, no : Nat], NEW s \in Seq(Frames), Broadcast(p, s),
           Len(s) = Len(stack), PostDepths(s) = PostDepths(stack),
           \A i \in PostDepths(s) : s[i] = stack[i]
    PROVE  BusStep
<1> DEFINE d == Len(stack) + 1
           b == [depth |-> d, id |-> p.id, todo |-> Registered[p.id]]
<1>1. broadcasting' = broadcasting + 1 /\ broadcasting \in Nat /\ p.id \in Events
  BY BusTypes DEF Broadcast
<1>2. UNCHANGED <<observers, removeAfterBroadcast, addAfterBroadcast>>
  BY DEF hub
<1>3. broadcasting = 0 =>
          \A e \in Events : ToSet(removeAfterBroadcast[e]) = {} /\ ToSet(addAfterBroadcast[e]) = {}
  BY DEF IInv, DeferredIsTransient, NoneToRemove, NoneToAdd, ToSet
<1>4. \A e \in Events : Settled(e) = ToSet(observers[e])
  BY <1>3 DEF Settled
<1>5. Registered' = Registered
  <2>1. \A e \in Events : Settled(e)' = ToSet(observers[e])
    BY <1>1, <1>2 DEF Settled
  <2> QED
    BY <1>4, <2>1 DEF Registered
<1>6. Joining' = Joining /\ Leaving' = Leaving
  <2>1. broadcasting' # 0
    BY <1>1
  <2>2. CASE broadcasting = 0
    BY <1>2, <1>3, <2>1, <2>2 DEF Joining, Leaving, Pending
  <2>3. CASE broadcasting # 0
    BY <1>2, <2>1, <2>3 DEF Joining, Leaving, Pending
  <2> QED
    BY <2>2, <2>3
<1>7. /\ PostDepths(stack') = PostDepths(stack) \cup {d}
      /\ \A i \in PostDepths(stack) : stack'[i] = stack[i]
      /\ stack'[d] = [kind |-> "post", id |-> p.id, a |-> 0]
  <2>1. /\ PostDepths(stack') = PostDepths(s) \cup {Len(s) + 1}
        /\ \A i \in 1..Len(s) : stack'[i] = s[i]
        /\ stack'[Len(s) + 1] = [kind |-> "post", id |-> p.id, a |-> 0]
        /\ PostDepths(s) \subseteq 1..Len(s)
    BY BroadcastFrames
  <2> QED
    BY <2>1
<1>8. ToTell(observers', stack'[d]) = Registered[p.id]
  <2>1. ToTell(observers', stack'[d]) = {observers[p.id][i] : i \in 1..Len(observers[p.id])}
    BY <1>2, <1>7 DEF ToTell
  <2>2. observers[p.id] \in Seq(Observers)
    BY <1>1, BusTypes
  <2>3. {observers[p.id][i] : i \in 1..Len(observers[p.id])} = ToSet(observers[p.id])
    BY <2>2 DEF ToSet
  <2> QED
    BY <1>1, <1>4, <2>1, <2>3 DEF Registered
<1>9. Running' = Running \cup {b}
  <2> DEFINE New(i) == [depth |-> i, id |-> stack'[i].id, todo |-> ToTell(observers', stack'[i])]
             Old(i) == [depth |-> i, id |-> stack[i].id, todo |-> ToTell(observers, stack[i])]
  <2>1. Running' = {New(i) : i \in PostDepths(stack) \cup {d}}
    BY <1>7, RunningIs
  <2>2. Running = {Old(i) : i \in PostDepths(stack)}
    BY RunningIs
  <2>3. \A i \in PostDepths(stack) : New(i) = Old(i)
    BY <1>2, <1>7
  <2>4. New(d) = b
    BY <1>7, <1>8
  <2> HIDE DEF New, Old, b, d
  <2> QED
    BY <2>1, <2>2, <2>3, <2>4
<1>10. \A c \in Running : c.depth < d
  BY RunningDepths, BusTypes
<1>11. d \in 1..(MaxDepth + 1)
  BY BusTypes, NCAssumption
<1>12. ASSUME NEW e, NEW x, e = p.id, x = d
       PROVE  Bus!Announce(e, x)
  BY <1>5, <1>6, <1>9, <1>10, <1>12
     DEF Bus!Announce, Registered, Joining, Leaving, Running
<1> HIDE DEF d
<1>13. \E e \in Events, x \in 1..(MaxDepth + 1) : Bus!Announce(e, x)
  BY <1>1, <1>11, <1>12
<1> QED
  BY <1>13 DEF BusStep, Bus!Next

LEMMA PostNotificationNameOnBus ==
    ASSUME IInv, NEW e \in Events, PostNotificationName(e)
    PROVE  BusStep
<1> DEFINE p == [id |-> e, no |-> posted + 1]
<1>1. UNCHANGED hub /\ AppRuns
  BY DEF PostNotificationName
<1>2. CASE Held(e)
  <2>1. stack' = Invalidate(stack) /\ UNCHANGED broadcasting
    BY <1>2 DEF PostNotificationName
  <2>2. /\ PostDepths(stack') = PostDepths(stack)
        /\ \A i \in 1..Len(stack) : ~IsFlush(stack[i]) => stack'[i] = stack[i]
    BY <2>1, BusTypes, InvalidateFrames
  <2>3. \A i \in PostDepths(stack) : i \in 1..Len(stack) /\ ~IsFlush(stack[i])
    BY BusTypes DEF PostDepths, IsPost, IsFlush
  <2> QED
    BY <1>1, <2>1, <2>2, <2>3, BusUntouched
<1>3. CASE ~Held(e)
  <2>1. Broadcast(p, stack) /\ Len(stack) < MaxDepth
    BY <1>3 DEF PostNotificationName
  <2>2. ~OnTop(IsDrain)
    BY <1>1 DEF AppRuns, OnTop, IsPost, IsDrain
  <2>3. p \in [id : Events, no : Nat]
    BY DEF IInv, TypeOK
  <2> HIDE DEF p
  <2>4. Len(stack) <= MaxDepth
    BY <2>1, BusTypes, NCAssumption
  <2> QED
    BY <1>1, <2>1, <2>2, <2>3, <2>4, BusTypes, BroadcastAnnounces
<1> QED
  BY <1>2, <1>3

LEMMA SetAnimationInProgressOnBus ==
    ASSUME IInv, NEW value \in BOOLEAN, SetAnimationInProgress(value)
    PROVE  BusStep
<1> DEFINE f == [kind |-> "flush", at |-> 0, limit |-> Len(delayedPosts), stale |-> FALSE]
<1>1. UNCHANGED <<hub, broadcasting>> /\ (stack' = stack \/ stack' = Append(stack, f))
  BY DEF SetAnimationInProgress
<1>2. CASE stack' = stack
  BY <1>1, <1>2, BusUntouched
<1>3. CASE stack' = Append(stack, f)
  <2>1. f \in Frames /\ ~IsPost(f)
    BY PostTypes DEF Frames, FlushFrame, IsPost
  <2> HIDE DEF f
  <2>2. /\ PostDepths(stack') = PostDepths(stack)
        /\ \A i \in 1..Len(stack) : stack'[i] = stack[i]
    BY <1>3, <2>1, BusTypes, PushFrame
  <2> QED
    BY <1>1, <2>2, BusTypes, BusUntouched
<1> QED
  BY <1>1, <1>2, <1>3

\* The innermost broadcast tells its next observer, who was not told before:
\* the list has no duplicates.
LEMMA CallNextObserverTells ==
    ASSUME IInv, CallNextObserver
    PROVE  BusStep
<1> DEFINE n == Len(stack)
           f == stack[n]
           g == [f EXCEPT !.a = @ + 1]
           list == observers[f.id]
           o == list[f.a + 1]
           b == [depth |-> n, id |-> f.id, todo |-> ToTell(observers, f)]
           c == [depth |-> n, id |-> f.id, todo |-> ToTell(observers, g)]
<1>1. /\ f \in PostFrame /\ Last(stack) = f
      /\ n \in PostDepths(stack) /\ n \in 1..n
      /\ stack'[n] = g
      /\ \A i \in 1..n : i # n => stack'[i] = stack[i]
      /\ PostDepths(stack') = PostDepths(stack) /\ PostDepths(stack) \subseteq 1..n
  BY NextObserverFrames
<1>2. UNCHANGED <<hub, broadcasting>> /\ f.a < Len(list)
  BY <1>1 DEF CallNextObserver
<1>3. f.id \in Events /\ f.a \in Nat /\ g.id = f.id /\ g.a = f.a + 1
  BY <1>1 DEF PostFrame
<1>4. list \in Seq(Observers) /\ IsInjective(list) /\ Len(list) \in Nat
  BY <1>3, BusTypes DEF IInv, NoDuplicateObservers
<1>5. Registered' = Registered /\ Joining' = Joining /\ Leaving' = Leaving
  BY <1>2 DEF Registered, Joining, Leaving, Settled, Pending, hub
<1>6. /\ ToTell(observers, f) = {list[i] : i \in (f.a + 1)..Len(list)}
      /\ ToTell(observers, g) = {list[i] : i \in (f.a + 2)..Len(list)}
  BY <1>3 DEF ToTell
<1>7. o \in ToTell(observers, f) /\ ToTell(observers, g) = ToTell(observers, f) \ {o}
  <2>1. f.a + 1 \in (f.a + 1)..Len(list) /\ f.a + 1 \in DOMAIN list
    BY <1>2, <1>3, <1>4
  <2>2. \A i : i \in (f.a + 2)..Len(list) <=> i \in (f.a + 1)..Len(list) /\ i # f.a + 1
    BY <1>3, <1>4
  <2>3. \A i \in (f.a + 1)..Len(list) : i \in DOMAIN list
    BY <1>3, <1>4
  <2>4. \A i \in (f.a + 1)..Len(list) : list[i] = o => i = f.a + 1
    BY <1>4, <2>1, <2>3 DEF IsInjective
  <2> HIDE DEF list, f, g
  <2> QED
    BY <1>6, <2>1, <2>2, <2>4
<1>8. Running' = (Running \ {b}) \cup {c} /\ b \in Running
  <2> DEFINE New(i) == [depth |-> i, id |-> stack'[i].id, todo |-> ToTell(observers', stack'[i])]
             Old(i) == [depth |-> i, id |-> stack[i].id, todo |-> ToTell(observers, stack[i])]
  <2>1. Running' = {New(i) : i \in PostDepths(stack)}
    BY <1>1, RunningIs
  <2>2. Running = {Old(i) : i \in PostDepths(stack)}
    BY RunningIs
  <2>3. \A i \in PostDepths(stack) : i # n => New(i) = Old(i)
    BY <1>1, <1>2 DEF hub
  <2>4. New(n) = c /\ Old(n) = b
    BY <1>1, <1>2, <1>3 DEF hub
  <2>5. \A i : Old(i).depth = i
    OBVIOUS
  <2> HIDE DEF New, Old, b, c, n, f, g
  <2> QED
    BY <1>1, <2>1, <2>2, <2>3, <2>4, <2>5
<1>9. c = [b EXCEPT !.todo = @ \ {o}] /\ o \in b.todo /\ b.depth = n
  <2>1. c.todo = b.todo \ {o} /\ o \in b.todo
    BY <1>7
  <2> HIDE DEF o, f, g, list, n
  <2> QED
    BY <2>1 DEF n
<1>10. \A x \in Running : x.depth <= n
  BY RunningDepths, BusTypes
<1> HIDE DEF b, c, o, n, f, g, list
<1>11. ASSUME NEW x, NEW y, x = b, y = o
       PROVE  Bus!Tell(x, y)
  BY <1>5, <1>8, <1>9, <1>10, <1>11
     DEF Bus!Tell, Bus!Innermost, Registered, Joining, Leaving, Running
<1>12. \E x \in Running : \E y \in x.todo : Bus!Tell(x, y)
  BY <1>8, <1>9, <1>11
<1> QED
  BY <1>12 DEF BusStep, Bus!Next, Running

\* A broadcast whose list is walked is over; with the outermost one everything
\* that was deferred is due.
LEMMA EndBroadcastFinishes ==
    ASSUME IInv, EndBroadcast
    PROVE  BusStep
<1> DEFINE n == Len(stack)
           f == stack[n]
           below == Front(stack)
           b == [depth |-> n, id |-> f.id, todo |-> ToTell(observers, f)]
<1>1. /\ UNCHANGED hub /\ stack # <<>> /\ IsPost(Last(stack))
      /\ Last(stack).a >= Len(observers[Last(stack).id])
      /\ broadcasting' = broadcasting - 1
      /\ stack' = IF broadcasting = 1 THEN Append(below, [kind |-> "drain"]) ELSE below
  BY DEF EndBroadcast, OnTop
<1>2. /\ below \in Seq(Frames) /\ n \in Nat \ {0} /\ Len(below) = n - 1
      /\ Last(stack) = f /\ f \in Frames
      /\ \A i \in 1..Len(below) : below[i] = stack[i]
      /\ PostDepths(below) = PostDepths(stack) \ {n}
  BY <1>1, BusTypes, PopFrame
<1>3. f \in PostFrame /\ n \in PostDepths(stack)
  BY <1>1, <1>2, BusTypes, FrameKinds DEF PostDepths
<1>4. /\ PostDepths(stack') = PostDepths(stack) \ {n}
      /\ \A i \in 1..(n - 1) : stack'[i] = stack[i]
  <2>1. CASE broadcasting = 1
    <3> DEFINE d == [kind |-> "drain"]
    <3>1. d \in Frames /\ ~IsPost(d)
      BY DEF Frames, DrainFrame, IsPost
    <3>2. stack' = Append(below, d)
      BY <1>1, <2>1
    <3> HIDE DEF d, below
    <3>3. /\ PostDepths(stack') = PostDepths(below)
          /\ \A i \in 1..Len(below) : stack'[i] = below[i]
      BY <1>2, <3>1, <3>2, PushFrame
    <3> QED
      BY <1>2, <3>3
  <2>2. CASE broadcasting # 1
    BY <1>1, <1>2, <2>2
  <2> QED
    BY <2>1, <2>2
<1>5. ToTell(observers, f) = {}
  <2>1. f.id \in Events /\ f.a \in Nat
    BY <1>3 DEF PostFrame
  <2>2. Len(observers[f.id]) \in Nat
    BY <2>1, BusTypes
  <2>3. (f.a + 1)..Len(observers[f.id]) = {}
    BY <1>1, <1>2, <2>1, <2>2
  <2> QED
    BY <2>3 DEF ToTell
<1>6. Running' = Running \ {b} /\ b \in Running
  <2> DEFINE New(i) == [depth |-> i, id |-> stack'[i].id, todo |-> ToTell(observers', stack'[i])]
             Old(i) == [depth |-> i, id |-> stack[i].id, todo |-> ToTell(observers, stack[i])]
  <2>1. Running' = {New(i) : i \in PostDepths(stack) \ {n}}
    BY <1>4, RunningIs
  <2>2. Running = {Old(i) : i \in PostDepths(stack)}
    BY RunningIs
  <2>3. \A i \in PostDepths(stack) \ {n} : i \in 1..(n - 1)
    BY <1>2, BusTypes
  <2>4. \A i \in PostDepths(stack) \ {n} : New(i) = Old(i)
    BY <1>1, <1>4, <2>3 DEF hub
  <2>5. Old(n) = b /\ \A i : Old(i).depth = i
    OBVIOUS
  <2> HIDE DEF New, Old, b, n, f
  <2> QED
    BY <1>3, <2>1, <2>2, <2>4, <2>5
<1>7. b.todo = {} /\ b.depth = n /\ \A x \in Running : x.depth <= n
  BY <1>5, RunningDepths, BusTypes
<1>8. broadcasting # 0
  BY <1>3, BusTypes
<1>9. broadcasting' = 0 <=> Running' = {}
  <2>1. IInv'
    BY EndBroadcastIInv
  <2>2. broadcasting' = 0 <=> PostDepths(stack') = {}
    <3>1. broadcasting' = Cardinality(PostDepths(stack')) /\ stack' \in Seq(Frames)
      BY <2>1 DEF IInv, CountsBroadcasts, TypeOK
    <3> QED
      BY <3>1, DepthsFinite
  <2> QED
    BY <2>2, RunningIs
<1> HIDE DEF b, n, f, below
<1>10. IF Running = {b}
       THEN /\ Registered' = [e \in Events |-> (Registered[e] \ Leaving[e]) \cup Joining[e]]
            /\ Joining' = [e \in Events |-> {}]
            /\ Leaving' = [e \in Events |-> {}]
       ELSE UNCHANGED <<Registered, Joining, Leaving>>
  <2>1. UNCHANGED <<observers, removeAfterBroadcast, addAfterBroadcast>>
    BY <1>1 DEF hub
  <2>2. CASE Running = {b}
    <3>1. broadcasting' = 0
      BY <1>6, <1>9, <2>2
    <3>2. Joining' = [e \in Events |-> {}] /\ Leaving' = [e \in Events |-> {}]
      BY <3>1 DEF Joining, Leaving, Pending
    <3>3. Registered' = [e \in Events |-> (Registered[e] \ Leaving[e]) \cup Joining[e]]
      BY <1>8, <2>1, <3>1 DEF Registered, Joining, Leaving, Pending, Settled
    <3> QED
      BY <2>2, <3>2, <3>3
  <2>3. CASE Running # {b}
    <3>1. broadcasting' # 0
      BY <1>6, <1>9, <2>3
    <3> QED
      BY <1>8, <2>1, <2>3, <3>1 DEF Registered, Joining, Leaving, Pending, Settled
  <2> QED
    BY <2>2, <2>3
<1>11. ASSUME NEW x, x = b
       PROVE  Bus!Finish(x)
  BY <1>6, <1>7, <1>10, <1>11
     DEF Bus!Finish, Bus!Innermost, Registered, Joining, Leaving, Running
<1>12. \E x \in Running : Bus!Finish(x)
  BY <1>6, <1>11
<1> QED
  BY <1>12 DEF BusStep, Bus!Next, Running

\* The replay of the deferred calls changes nothing that the bus shows.
LEMMA ReplayOnBus ==
    ASSUME IInv, OnTop(IsDrain), UNCHANGED broadcasting,
           \A e \in Events : Settled(e)' = Settled(e),
           PostDepths(stack') \subseteq PostDepths(stack)
    PROVE  BusStep
<1>1. PostDepths(stack) = {} /\ broadcasting = 0
  BY ReplayIsQuiet
<1>2. Running = {} /\ Running' = {}
  BY <1>1 DEF Running
<1>3. Joining' = Joining /\ Leaving' = Leaving
  BY <1>1 DEF Joining, Leaving, Pending
<1>4. Registered' = Registered
  BY DEF Registered
<1> QED
  BY <1>2, <1>3, <1>4 DEF BusStep, Bus!busVars, Registered, Joining, Leaving, Running

LEMMA DrainOnBus ==
    ASSUME IInv, NEW e \in Events, DrainRemove(e) \/ DrainAdd(e)
    PROVE  BusStep
<1>1. OnTop(IsDrain) /\ UNCHANGED <<broadcasting, stack>>
  BY DEF DrainRemove, DrainAdd
<1>2. broadcasting = 0 /\ broadcasting' = 0
  BY <1>1, ReplayIsQuiet
<1>3. /\ observers[e] \in Seq(Observers) /\ IsInjective(observers[e])
      /\ removeAfterBroadcast[e] \in Seq(Observers) /\ addAfterBroadcast[e] \in Seq(Observers)
  BY BusTypes DEF IInv, NoDuplicateObservers
<1>4. \A d \in Events : Settled(d)' = Settled(d)
  <2>1. CASE DrainRemove(e)
    <3> DEFINE h == Head(removeAfterBroadcast[e])
               new == RemoveFirst(observers[e], h)
               rest == Tail(removeAfterBroadcast[e])
    <3>1. /\ observers' = [observers EXCEPT ![e] = new] /\ UNCHANGED addAfterBroadcast
          /\ removeAfterBroadcast' = [removeAfterBroadcast EXCEPT ![e] = rest]
          /\ removeAfterBroadcast[e] # <<>>
      BY <2>1 DEF DrainRemove
    <3>2. ToSet(new) = ToSet(observers[e]) \ {h}
      BY <1>3, RemoveFirstOfDistinct
    <3>3. ToSet(removeAfterBroadcast[e]) = {h} \cup ToSet(rest)
      BY <1>3, <3>1, ToSetOfTail
    <3> HIDE DEF h, new, rest
    <3> QED
      BY <1>2, <3>1, <3>2, <3>3, BusTypes DEF Settled
  <2>2. CASE DrainAdd(e)
    <3> DEFINE h == Head(addAfterBroadcast[e])
               new == IF Contains(observers[e], h) THEN observers[e] ELSE Append(observers[e], h)
               rest == Tail(addAfterBroadcast[e])
    <3>1. /\ observers' = [observers EXCEPT ![e] = new] /\ UNCHANGED removeAfterBroadcast
          /\ addAfterBroadcast' = [addAfterBroadcast EXCEPT ![e] = rest]
          /\ addAfterBroadcast[e] # <<>> /\ NoneToRemove
      BY <2>2 DEF DrainAdd
    <3>2. ToSet(addAfterBroadcast[e]) = {h} \cup ToSet(rest) /\ h \in Observers
      BY <1>3, <3>1, ToSetOfTail
    <3>3. ToSet(new) = ToSet(observers[e]) \cup {h}
      BY <1>3, <3>2, ToSetOfAppend, ContainsToSet
    <3>4. \A d \in Events : ToSet(removeAfterBroadcast[d]) = {}
      BY <3>1 DEF NoneToRemove, ToSet
    <3> HIDE DEF h, new, rest
    <3> QED
      BY <1>2, <3>1, <3>2, <3>3, <3>4, BusTypes DEF Settled
  <2> QED
    BY <2>1, <2>2
<1> QED
  BY <1>1, <1>4, ReplayOnBus

LEMMA DrainEndOnBus ==
    ASSUME IInv, DrainEnd
    PROVE  BusStep
<1>1. UNCHANGED <<hub, broadcasting>> /\ OnTop(IsDrain) /\ stack # <<>> /\ stack' = Front(stack)
  BY DEF DrainEnd, OnTop
<1>2. \A e \in Events : Settled(e)' = Settled(e)
  BY <1>1 DEF Settled, hub
<1>3. PostDepths(stack') \subseteq PostDepths(stack)
  BY <1>1, BusTypes, PopFrame
<1> QED
  BY <1>1, <1>2, <1>3, ReplayOnBus

LEMMA FlushNextOnBus ==
    ASSUME IInv, FlushesAreShallow, FlushNext
    PROVE  BusStep
<1> DEFINE n == Len(stack)
           f == Last(stack)
           g == [f EXCEPT !.at = @ + 1]
           s == [stack EXCEPT ![n] = g]
           p == delayedPosts[f.at + 1]
<1>1. UNCHANGED hub /\ stack # <<>> /\ IsFlush(f) /\ f.at < f.limit
  BY DEF FlushNext, OnTop
<1>2. f = stack[n] /\ n \in Nat \ {0} /\ n \in 1..n /\ f \in Frames
  BY <1>1, BusTypes, FrontOfSeq
<1>3. f \in FlushFrame /\ ~IsPost(f) /\ ~IsDrain(f) /\ n \in FlushDepths(stack)
  BY <1>1, <1>2, FrameKinds, BusTypes DEF FlushDepths
<1>4. CASE f.stale
  <2>1. UNCHANGED <<broadcasting, stack>>
    BY <1>4 DEF FlushNext
  <2> QED
    BY <1>1, <2>1, BusUntouched
<1>5. CASE ~f.stale
  <2>1. Broadcast(p, s)
    BY <1>2, <1>5 DEF FlushNext
  <2>2. g \in Frames /\ g.kind = f.kind
    BY <1>3 DEF FlushFrame, Frames
  <2>3. f.limit = Len(delayedPosts)
    BY <1>2, <1>3, <1>5 DEF IInv, FlushesKnowTheList
  <2>4. p \in [id : Events, no : Nat]
    <3>1. f.at + 1 \in 1..Len(delayedPosts)
      BY <1>1, <1>3, <2>3, PostTypes DEF FlushFrame
    <3>2. p \in [id : Events, no : 1..MaxPosts]
      BY <3>1, PostTypes, ElementOfSeq
    <3> QED
      BY <3>2, PostTypes
  <2> HIDE DEF g
  <2>5. /\ s \in Seq(Frames) /\ Len(s) = n
        /\ \A i \in 1..n : s[i] = IF i = n THEN g ELSE stack[i]
        /\ PostDepths(s) = PostDepths(stack)
    BY <1>1, <2>2, BusTypes, UpdateTop
  <2> HIDE DEF s, p
  <2>6. \A i \in PostDepths(stack) : i \in 1..n /\ i # n
    BY <1>2, <1>3, BusTypes DEF PostDepths
  <2>7. \A i \in PostDepths(s) : s[i] = stack[i]
    BY <2>5, <2>6
  <2>8. ~OnTop(IsDrain)
    BY <1>3 DEF OnTop
  <2>9. n <= MaxDepth
    BY <1>3 DEF FlushesAreShallow
  <2> QED
    BY <1>1, <2>1, <2>4, <2>5, <2>7, <2>8, <2>9, BroadcastAnnounces
<1> QED
  BY <1>4, <1>5

LEMMA FlushEndOnBus ==
    ASSUME IInv, FlushEnd
    PROVE  BusStep
<1> DEFINE n == Len(stack)
           below == Front(stack)
<1>1. /\ UNCHANGED <<hub, broadcasting>> /\ stack # <<>> /\ IsFlush(Last(stack))
      /\ stack' = Invalidate(below)
  BY DEF FlushEnd, OnTop
<1>2. /\ below \in Seq(Frames) /\ n \in Nat \ {0} /\ Len(below) = n - 1
      /\ Last(stack) = stack[n]
      /\ \A i \in 1..Len(below) : below[i] = stack[i]
      /\ PostDepths(below) = PostDepths(stack) \ {n}
  BY <1>1, BusTypes, PopFrame
<1> HIDE DEF below
<1>3. /\ PostDepths(stack') = PostDepths(below)
      /\ \A i \in 1..Len(below) : ~IsFlush(below[i]) => stack'[i] = below[i]
  BY <1>1, <1>2, InvalidateFrames
<1>4. n \notin PostDepths(stack)
  BY <1>1, <1>2 DEF PostDepths, IsPost, IsFlush
<1>5. \A i \in PostDepths(stack) : i \in 1..(n - 1) /\ ~IsFlush(stack[i])
  BY <1>2, <1>4, BusTypes DEF PostDepths, IsPost, IsFlush
<1>6. PostDepths(stack') = PostDepths(stack) /\ \A i \in PostDepths(stack) : stack'[i] = stack[i]
  BY <1>2, <1>3, <1>4, <1>5
<1> QED
  BY <1>1, <1>6, BusUntouched

LEMMA NextBus == IInv /\ FlushesAreShallow /\ [Next]_vars => BusStep
<1> SUFFICES ASSUME IInv, FlushesAreShallow, [Next]_vars
             PROVE  BusStep
  OBVIOUS
<1>1. ASSUME NEW o \in Observers, NEW e \in Events, AddObserver(o, e) \/ RemoveObserver(o, e)
      PROVE  BusStep
  <2>1. Bus!Join(o, e) \/ Bus!Leave(o, e)
    BY <1>1, AddObserverJoins, RemoveObserverLeaves
  <2> QED
    BY <2>1 DEF BusStep, Bus!Next
<1>2. ASSUME NEW e \in Events, PostNotificationName(e)
      PROVE  BusStep
  BY <1>2, PostNotificationNameOnBus
<1>3. ASSUME NEW S \in SUBSET Events, SetAllowedNotificationsDutingAnimation(S)
      PROVE  BusStep
  BY <1>3, BusUntouched DEF SetAllowedNotificationsDutingAnimation
<1>4. ASSUME NEW value \in BOOLEAN, SetAnimationInProgress(value)
      PROVE  BusStep
  BY <1>4, SetAnimationInProgressOnBus
<1>5. CASE CallNextObserver
  BY <1>5, CallNextObserverTells
<1>6. CASE EndBroadcast
  BY <1>6, EndBroadcastFinishes
<1>7. ASSUME NEW e \in Events, DrainRemove(e) \/ DrainAdd(e)
      PROVE  BusStep
  BY <1>7, DrainOnBus
<1>8. CASE DrainEnd
  BY <1>8, DrainEndOnBus
<1>9. CASE FlushNext
  BY <1>9, FlushNextOnBus
<1>10. CASE FlushEnd
  BY <1>10, FlushEndOnBus
<1>11. CASE UNCHANGED vars
  BY <1>11, BusUntouched DEF vars
<1> QED
  BY <1>1, <1>2, <1>3, <1>4, <1>5, <1>6, <1>7, <1>8, <1>9, <1>10, <1>11 DEF Next, App, Run

\* The hub implements the bus: with its index loops, nesting counter and
\* deferred lists, a broadcast tells each observer that was registered when
\* the outermost running broadcast began, once, and registrations made
\* meanwhile take effect together when it ends.
THEOREM HubImplementsBus == Spec => ImplementsBus
<1>1. PostInv => FlushesAreShallow
  BY DEF PostInv
<1>2. BusStep => [Bus!Next]_(Bus!busVars)
  BY DEF BusStep
<1>3. Spec => []PostInv
  BY InitPostInv, NextPostInv, Invariance, PTL DEF Spec
<1> QED
  BY <1>1, <1>2, <1>3, InitBus, NextBus, Invariance, PTL DEF Spec, ImplementsBus, Bus!Spec

=============================================================================
