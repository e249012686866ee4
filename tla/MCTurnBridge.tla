---------------------------- MODULE MCTurnBridge ----------------------------
(* TurnBridge on small instances; turns are interchangeable.               *)
EXTENDS TurnBridge, TLC

TurnSymmetry == Permutations(Turns)
==============================================================================
