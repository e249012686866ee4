------------------------------- MODULE TurnLog -------------------------------
(***************************************************************************)
(* What a browser may rely on when it reports the turns of a live voice    *)
(* session: turns are stored one after the other, and a turn that was      *)
(* acknowledged is stored.  LiveTurns implements this specification.       *)
(***************************************************************************)
EXTENDS Naturals

CONSTANTS
    Sessions,   \* live sessions of one learner in one lesson
    MaxTurns    \* LIVE_FOLLOW_UP_MAX_TURNS

VARIABLES
    stored,     \* turns whose rows are durable
    acked       \* turns whose report was answered with success

log == <<stored, acked>>

Turns == 1 .. MaxTurns

Init ==
    /\ stored = [s \in Sessions |-> {}]
    /\ acked = [s \in Sessions |-> {}]

Store(s, i) ==
    /\ i \notin stored[s]
    /\ 1 .. i - 1 \subseteq stored[s]
    /\ stored' = [stored EXCEPT ![s] = @ \cup {i}]
    /\ UNCHANGED acked

Ack(s, batch) ==
    /\ batch \subseteq stored[s]
    /\ acked' = [acked EXCEPT ![s] = @ \cup batch]
    /\ UNCHANGED stored

Next ==
    \E s \in Sessions :
        \/ \E i \in Turns : Store(s, i)
        \/ \E batch \in SUBSET Turns : Ack(s, batch)

Spec == Init /\ [][Next]_log
==============================================================================
