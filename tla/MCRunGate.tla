----------------------------- MODULE MCRunGate ------------------------------
(* RunGate on a small instance.                                             *)
EXTENDS RunGate

\* Three of the requests come, and a fault strands at most one lesson run.
\* Nothing obliges the fourth request or a fault, so what is left are
\* behaviours of the specification, for liveness too.
ThreeCome ==
    /\ Cardinality({r \in Requests : thread[r] # "new"}) <= 3
    /\ Cardinality(stranded) <= 1
==============================================================================
