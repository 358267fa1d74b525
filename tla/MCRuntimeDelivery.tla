-------------------------- MODULE MCRuntimeDelivery --------------------------
(* Small instances of RuntimeDelivery: the exit of one process, the answer of  *)
(* one child agent, or both, that belong to the Turn running at the start.    *)
EXTENDS RuntimeDelivery, TLC

CONSTANTS t1, t2, t3, t4, process, answer

AllFromFirst == [d \in Item |-> First]
ContinuesAs  == [d \in Item |-> IF d = process THEN t2 ELSE t3]
Symmetry     == Permutations(Host)
============================================================================
