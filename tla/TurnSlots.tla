------------------------------ MODULE TurnSlots ------------------------------
(***************************************************************************)
(* What the turn bridge promises a worker process about its turns: at most *)
(* MaxTurns of them hold a slot, a turn is refused only while every slot   *)
(* is taken or lost, and a slot that was given back is never held again by *)
(* the same turn.  TurnBridge implements this specification.               *)
(***************************************************************************)
EXTENDS Naturals, FiniteSets

CONSTANTS
    Turns,       \* the turns requests may ask for
    MaxTurns     \* MAX_TURNS_IN_FLIGHT

VARIABLES
    held,        \* turns that hold a slot
    lost,        \* turns that died without giving their slot back
    refused,     \* turns refused because the worker was full
    over         \* turns that gave their slot back

slots == <<held, lost, refused, over>>

Known == held \cup lost \cup refused \cup over
Taken == Cardinality(held \cup lost)

Init ==
    /\ held = {} /\ lost = {}
    /\ refused = {} /\ over = {}

Take(t) ==
    /\ t \notin Known
    /\ Taken < MaxTurns
    /\ held' = held \cup {t}
    /\ UNCHANGED <<lost, refused, over>>

Refuse(t) ==
    /\ t \notin Known
    /\ Taken = MaxTurns
    /\ refused' = refused \cup {t}
    /\ UNCHANGED <<held, lost, over>>

GiveBack(t) ==
    /\ t \in held
    /\ held' = held \ {t}
    /\ over' = over \cup {t}
    /\ UNCHANGED <<lost, refused>>

\* A lost slot is never free again: the worker runs with one turn less.
Lose(t) ==
    /\ t \in held
    /\ held' = held \ {t}
    /\ lost' = lost \cup {t}
    /\ UNCHANGED <<refused, over>>

Next == \E t \in Turns : Take(t) \/ Refuse(t) \/ GiveBack(t) \/ Lose(t)

Spec == Init /\ [][Next]_slots
==============================================================================
