----------------------------- MODULE MCSubscribeSaga -----------------------------
(* SubscribeSaga on small instances.                                            *)
EXTENDS SubscribeSaga, TLC

CONSTANTS r1, r2, s1, s2, p1, p2, h1, w1, w2

\* Sound for the runs that check no liveness property.
Symmetry == Permutations({r1, r2}) \cup Permutations({s1, s2}) \cup Permutations({w1, w2} \cap Sweeper)
==================================================================================
