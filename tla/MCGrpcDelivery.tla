----------------------------- MODULE MCGrpcDelivery ------------------------------
(* GrpcDelivery on a small instance.                                            *)
EXTENDS GrpcDelivery, TLC

CONSTANTS m1, m2, k1, k2, c1, c2, c3, a1, a2, x1, x2

\* The release messages left in the queue have one key.
FirstKey == [m \in Msg |-> k1]
==================================================================================
