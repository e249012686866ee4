-------------------------- MODULE MCCreditWallet ----------------------------
(* CreditWallet on small instances: two buckets, a usage that may need both, *)
(* a free usage and operations that reserve two credits; workers are          *)
(* interchangeable.                                                          *)
EXTENDS CreditWallet, TLC

CONSTANTS b1, b2, u1, free

MCGranted == b1 :> 3 @@ b2 :> 1
MCCost == [x \in Usages \cup Operations |-> IF x = free THEN 0 ELSE 2]

WorkerSymmetry == Permutations(Workers)
==============================================================================
