----------------------------- MODULE MCEmailDelivery -----------------------------
(* EmailDelivery on small instances.                                            *)
EXTENDS EmailDelivery, TLC

CONSTANTS m1, m2, m3, k1, k2, c1, c2, c3, c4, a1, a2

\* Messages of one type have the same key: the hard case for the idempotency store.
OneKey == [m \in Msg |-> IF m \in Release THEN k2 ELSE k1]

\* Sound for the runs that check no liveness property.
Symmetry == Permutations({c1, c2, c3, c4} \cap Copy) \cup Permutations(Worker)
==================================================================================
