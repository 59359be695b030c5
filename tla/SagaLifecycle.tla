------------------------------ MODULE SagaLifecycle ------------------------------
(* What a subscribe saga promises, whoever drives it: the state machine written  *)
(* in modules/saga/constants/saga.constants.ts, in which a saga that ended stays  *)
(* as it ended.                                                                   *)
CONSTANT Saga

VARIABLE saga  \* saga[i]: the state of SagaInstance i, "none" before it is created

SagaState == {"STARTED", "AWAITING_EMAIL", "COMPLETED", "COMPENSATING", "COMPENSATED"}

Open == {"STARTED", "AWAITING_EMAIL"}

Move(i, from, to) ==
  /\ saga[i] \in from
  /\ saga' = [saga EXCEPT ![i] = to]

Start(i) == Move(i, {"none"}, "STARTED")
Await(i) == Move(i, {"STARTED"}, "AWAITING_EMAIL")
Complete(i) == Move(i, {"AWAITING_EMAIL"}, "COMPLETED")
Compensate(i) == Move(i, Open, "COMPENSATING")
Finish(i) == Move(i, {"COMPENSATING"}, "COMPENSATED")

Init == saga = [i \in Saga |-> "none"]

Next == \E i \in Saga : Start(i) \/ Await(i) \/ Complete(i) \/ Compensate(i) \/ Finish(i)

Spec == Init /\ [][Next]_saga
==================================================================================
