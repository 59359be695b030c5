------------------------------ MODULE MCReleaseScan ------------------------------
(* ReleaseScan on small instances: repository 1 is s1's, repository 2 s2's.     *)
EXTENDS ReleaseScan, TLC

CONSTANTS s1, s2, v1, v2, t1, t2, t3, c1, c2, c3, w1, w2, p1

OwnRepo == [s \in Sub |-> IF s = s1 THEN 1 ELSE 2]

\* Sound for the runs that check no liveness property.
Symmetry ==
  Permutations(Token) \cup Permutations(Copy) \cup Permutations(Worker) \cup Permutations(Tag)
==================================================================================
