---------------------------- MODULE MCLiveTurns ------------------------------
(* LiveTurns on small instances; workers are interchangeable.               *)
EXTENDS LiveTurns, TLC

CONSTANTS s1

LiveSymmetry == Permutations(Workers)

Working(w) == ~At(w, "idle")
Untouched(s) ==
    /\ binding[s] = [last |-> 0, pending |-> 0, claim |-> Nobody]
    /\ receipt[s] = Absent /\ s \notin late
    /\ \A w \in Workers : Working(w) => task[w].s # s

\* One session with all its turns and the faults; or a session and the one
\* that replaces it, with a turn each and without faults.
OneOrBrief ==
    \/ \A s \in Sessions \ {s1} : Untouched(s)
    \/ /\ faults = 0
       /\ \A w \in Workers : Working(w) => task[w].first = 1 /\ task[w].last <= 1
       /\ \A s \in Sessions : usage[s][2] = 0
==============================================================================
