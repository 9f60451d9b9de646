------------------------------ MODULE EventBus ------------------------------
(***************************************************************************)
(* What NotificationCenter promises to its users, without lists, indices,  *)
(* counters or call frames.                                                *)
(*                                                                         *)
(* A broadcast tells each observer that was registered for the event when  *)
(* the outermost running broadcast began, once, and nobody else.  Joining  *)
(* and leaving take effect at once while nothing is broadcast, and         *)
(* together, leaving first, when the outermost broadcast finishes.         *)
(***************************************************************************)
EXTENDS Naturals

CONSTANTS
    Observers,
    Events,
    Depths      \* the nesting depths of broadcasts, a set of naturals

VARIABLES
    registered,  \* event -> the observers of it
    joining,     \* event -> observers to add when the broadcasts are over
    leaving,     \* event -> observers to remove when the broadcasts are over
    ongoing      \* the broadcasts that run, with the observers still to tell

busVars == <<registered, joining, leaving, ongoing>>

Quiet == ongoing = {}

Innermost(b) == b \in ongoing /\ \A c \in ongoing : c.depth <= b.depth

Init ==
    /\ registered = [e \in Events |-> {}]
    /\ joining = [e \in Events |-> {}]
    /\ leaving = [e \in Events |-> {}]
    /\ ongoing = {}

Join(o, e) ==
    /\ \/ /\ Quiet
          /\ registered' = [registered EXCEPT ![e] = @ \cup {o}]
          /\ UNCHANGED joining
       \/ /\ ~Quiet
          /\ joining' = [joining EXCEPT ![e] = @ \cup {o}]
          /\ UNCHANGED registered
    /\ UNCHANGED <<leaving, ongoing>>

Leave(o, e) ==
    /\ \/ /\ Quiet
          /\ registered' = [registered EXCEPT ![e] = @ \ {o}]
          /\ UNCHANGED leaving
       \/ /\ ~Quiet
          /\ leaving' = [leaving EXCEPT ![e] = @ \cup {o}]
          /\ UNCHANGED registered
    /\ UNCHANGED <<joining, ongoing>>

Announce(e, d) ==
    /\ \A b \in ongoing : b.depth < d
    /\ ongoing' = ongoing \cup {[depth |-> d, id |-> e, todo |-> registered[e]]}
    /\ UNCHANGED <<registered, joining, leaving>>

Tell(b, o) ==
    /\ Innermost(b)
    /\ o \in b.todo
    /\ ongoing' = (ongoing \ {b}) \cup {[b EXCEPT !.todo = @ \ {o}]}
    /\ UNCHANGED <<registered, joining, leaving>>

Finish(b) ==
    /\ Innermost(b)
    /\ b.todo = {}
    /\ ongoing' = ongoing \ {b}
    /\ IF ongoing = {b}
       THEN /\ registered' = [e \in Events |-> (registered[e] \ leaving[e]) \cup joining[e]]
            /\ joining' = [e \in Events |-> {}]
            /\ leaving' = [e \in Events |-> {}]
       ELSE UNCHANGED <<registered, joining, leaving>>

Next ==
    \/ \E o \in Observers, e \in Events : Join(o, e) \/ Leave(o, e)
    \/ \E e \in Events, d \in Depths : Announce(e, d)
    \/ \E b \in ongoing : Finish(b) \/ \E o \in b.todo : Tell(b, o)

Spec == Init /\ [][Next]_busVars

=============================================================================
