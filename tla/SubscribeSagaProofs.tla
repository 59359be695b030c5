--------------------------- MODULE SubscribeSagaProofs ---------------------------
(* Proofs about SubscribeSaga, for every set of requests, rows, handlers and      *)
(* sweeps and every number of faults.                                             *)
EXTENDS SubscribeSaga, TLAPS

\* The inductive invariant, in named parts.

\* A request has a row once it has upserted it, and a saga once it has created it.
PhaseInv ==
  \A r \in Request :
    /\ phase[r] \in {"idle", "checked", "refused"} => sub[r] = None
    /\ phase[r] \in {"upserted", "created", "published", "returned"} => sub[r] # None
    /\ phase[r] \in {"idle", "checked", "refused", "upserted"} => saga[r] = "none"
    /\ phase[r] \in {"created", "published", "returned"} => saga[r] # "none"
    /\ saga[r] # "none" => sub[r] # None

\* Rows belong to requests, and only rows that have been sent are confirmed.
RowInv ==
  /\ \A r \in Request : sub[r] # None => status[sub[r]] # "unused"
  /\ \A s \in SubId : status[s] # "unused" => \E r \in Request : sub[r] = s
  /\ \A s \in confirming \cup confirmed : status[s] # "unused"
  /\ unsubscribing \subseteq confirmed
  /\ unsubscribed \subseteq confirmed

\* A worker that is at a saga, or has one ahead, has a saga that was created.
WorkerInv ==
  \A w \in Worker :
    /\ task[w] = "complete" => todo[w] = {}
    /\ job[w] # None => saga[job[w]] # "none"
    /\ \A r \in todo[w] : saga[r] # "none"

\* A published message and a reply are about a saga, and a SENT one about a mailed key.
MailInv ==
  /\ \A r \in Request : phase[r] \in {"published", "returned"} => r \in published
  /\ \A r \in published : saga[r] # "none"
  /\ \A r \in Request : <<r, "SENT">> \in replies => sub[r] \in mailed
  /\ \A m \in replies : saga[m[1]] # "none"
  /\ \A w \in Worker : task[w] = "complete" => sub[job[w]] \in mailed
  /\ CompletedWasMailed
  /\ AwaitingWasPublished

Inv == TypeOK /\ PhaseInv /\ RowInv /\ WorkerInv /\ MailInv /\ ConfirmedIsKept

\* The row of a saga is no longer PENDING when its delete is over, unless that threw.
RemovedInv ==
  /\ CompensationLeavesNoPending
  /\ \A w \in Worker :
       task[w] = "finish" =>
         \/ status[sub[job[w]]] # "PENDING"
         \/ Shared(job[w])
         \/ job[w] \in undeleted

\* The sweep meets a request that is in flight only if its saga has been overtaken by the
\* clock: but for these, a saga is compensated by one worker, and start() has done with it.
Over(r) == phase[r] \in {"returned", "failed"} \/ r \in overtaken

ClaimInv ==
  /\ \A r \in Request \ overtaken : phase[r] \in {"created", "published"} => saga[r] = "STARTED"
  /\ \A r \in Request : saga[r] = "AWAITING_EMAIL" => phase[r] = "returned"
  /\ \A r \in stale : Over(r)
  /\ \A w \in Worker : \A r \in todo[w] : Over(r)
  /\ \A w \in Worker : task[w] \in {"remove", "finish"} =>
       job[w] \in overtaken \/ (saga[job[w]] = "COMPENSATING" /\ Over(job[w]))
  /\ CompensationExclusive

\* The row of a saga that nobody compensates is there, unless cancelled or shared.
KeptInv ==
  \A r \in Request \ overtaken :
    /\ sub[r] # None
    /\ saga[r] \notin {"COMPENSATING", "COMPENSATED"}
    /\ ~Shared(r)
    => Live(sub[r]) \/ sub[r] \in unsubscribed

----------------------------------------------------------------------------------
\* Every variable keeps its type, whatever interleaves.
LEMMA TypeInit == Init => TypeOK
  BY DEF Init, TypeOK, SubInit, SubTypeOK, MailInit, MailTypeOK, RowStatus, Phase,
     SagaState, Task

LEMMA TypeStep == ASSUME TypeOK, [Next]_vars PROVE TypeOK'
  <1>. USE SagaAssumption, SubscriptionsAssumption
       DEF TypeOK, SubTypeOK, MailTypeOK, RowStatus, Phase, SagaState, Task, Worker, Reply,
           vars, clockVars, subVars, mailVars, reqVars, workVars, linkVars, faultVars
  <1>1. ASSUME NEW r \in Request, NEW p \in Pair, Check(r, p) PROVE TypeOK'
    BY <1>1 DEF Check, checkIfActiveExists
  <1>2. ASSUME NEW r \in Request, RefuseUnknown(r) PROVE TypeOK'
    BY <1>2 DEF RefuseUnknown
  <1>3. ASSUME NEW r \in Request, NEW s \in SubId, Upsert(r, s) PROVE TypeOK'
    BY <1>3 DEF Upsert, upsertPending
  <1>4. ASSUME NEW r \in Request, CreateSaga(r) PROVE TypeOK'
    BY <1>4 DEF CreateSaga, write
  <1>5. ASSUME NEW r \in Request, PublishMail(r) PROVE TypeOK'
    BY <1>5 DEF PublishMail, Publish
  <1>6. ASSUME NEW r \in Request, AwaitReply(r) PROVE TypeOK'
    BY <1>6 DEF AwaitReply, updateState, write
  <1>7. ASSUME NEW r \in Request, Age(r) PROVE TypeOK'
    BY <1>7 DEF Age
  <1>8. ASSUME NEW r \in Request, Notify(r) PROVE TypeOK'
    BY <1>8 DEF Notify, Mail, ReplySent, ReplyFailed
  <1>9. ASSUME NEW h \in Handler, NEW m \in Reply, Receive(h, m) PROVE TypeOK'
    BY <1>9 DEF Receive, isSent, Go, Reply
  <1>10. ASSUME NEW w \in Sweeper, Sweep(w) PROVE TypeOK'
    BY <1>10 DEF Sweep, Go, findStuck
  <1>11. ASSUME NEW w \in Worker, Complete(w) PROVE TypeOK'
    BY <1>11 DEF Complete, transition, write, Go, At
  <1>12. ASSUME NEW w \in Worker, NEW r \in Request, Claim(w, r) PROVE TypeOK'
    BY <1>12 DEF Claim, transition, write, Go, Proceed, At
  <1>13. ASSUME NEW w \in Worker, Remove(w) PROVE TypeOK'
    BY <1>13 DEF Remove, deleteIfPending, Go, At
  <1>14. ASSUME NEW w \in Worker, Finish(w) PROVE TypeOK'
    BY <1>14 DEF Finish, updateState, write, Go, Proceed, At
  <1>15. ASSUME NEW s \in SubId, ConfirmRead(s) PROVE TypeOK'
    BY <1>15 DEF ConfirmRead
  <1>16. ASSUME NEW s \in SubId, ConfirmWrite(s) PROVE TypeOK'
    BY <1>16 DEF ConfirmWrite, activate
  <1>17. ASSUME NEW s \in SubId, UnsubscribeRead(s) PROVE TypeOK'
    BY <1>17 DEF UnsubscribeRead
  <1>18. ASSUME NEW s \in SubId, UnsubscribeWrite(s) PROVE TypeOK'
    BY <1>18 DEF UnsubscribeWrite, delete
  <1>19. ASSUME NEW r \in Request, RequestFails(r) PROVE TypeOK'
    BY <1>19 DEF RequestFails, Fault
  <1>20. ASSUME NEW m \in Reply, ReceiveFails(m) PROVE TypeOK'
    BY <1>20 DEF ReceiveFails, Fault
  <1>21. ASSUME NEW w \in Worker, RemoveFails(w) PROVE TypeOK'
    BY <1>21 DEF RemoveFails, Fault, Go, At
  <1>22. ASSUME NEW w \in Worker, Abort(w) PROVE TypeOK'
    BY <1>22 DEF Abort, WriteOf, transition, updateState, write, Fault, Go, At
  <1>23. ASSUME Crash PROVE TypeOK'
    <2>1. replies' \subseteq Reply
      BY <1>23 DEF Crash, Unacked, At, Reply
    <2>2. phase' \in [Request -> Phase] /\ faults' \in Nat
      BY <1>23 DEF Crash, Fault
    <2>. QED
      BY <1>23, <2>1, <2>2 DEF Crash
  <1>24. CASE UNCHANGED vars
    BY <1>24
  <1>. QED
    BY <1>1, <1>2, <1>3, <1>4, <1>5, <1>6, <1>7, <1>8, <1>9, <1>10, <1>11, <1>12, <1>13,
       <1>14, <1>15, <1>16, <1>17, <1>18, <1>19, <1>20, <1>21, <1>22, <1>23, <1>24
       DEF Next, RequestStep, WorkerStep, LinkStep, FaultStep

\* Type correctness.
THEOREM TypeCorrect == SafeSpec => []TypeOK
  <1>1. TypeOK /\ [Next]_vars => TypeOK'
    BY TypeStep
  <1>. QED
    BY TypeInit, <1>1, PTL DEF SafeSpec

----------------------------------------------------------------------------------
\* What holds whatever the timing and whatever the faults.
LEMMA InvInit == Init => Inv
  <1>. SUFFICES ASSUME Init PROVE Inv
    OBVIOUS
  <1>1. TypeOK
    BY TypeInit
  <1>. QED
    BY <1>1 DEF Init, Inv, SubInit, MailInit, PhaseInv, RowInv, WorkerInv, MailInv,
         CompletedWasMailed, AwaitingWasPublished, ConfirmedIsKept

\* A request keeps its row, and a saga is not created before its row.
LEMMA PhaseStep == ASSUME Inv, [Next]_vars PROVE PhaseInv'
  <1>. USE SagaAssumption, SubscriptionsAssumption
       DEF TypeOK, SubTypeOK, MailTypeOK, RowStatus, Phase, SagaState, Task, Worker, Reply,
           Open, Settled, vars, clockVars, subVars, mailVars, reqVars, workVars, linkVars,
           faultVars, Inv,
           PhaseInv, WorkerInv, InFlight
  <1>1. ASSUME NEW r \in Request, NEW p \in Pair, Check(r, p) PROVE PhaseInv'
    BY <1>1 DEF Check, checkIfActiveExists
  <1>2. ASSUME NEW r \in Request, RefuseUnknown(r) PROVE PhaseInv'
    BY <1>2 DEF RefuseUnknown
  <1>3. ASSUME NEW r \in Request, NEW s \in SubId, Upsert(r, s) PROVE PhaseInv'
    BY <1>3 DEF Upsert, upsertPending
  <1>4. ASSUME NEW r \in Request, CreateSaga(r) PROVE PhaseInv'
    BY <1>4 DEF CreateSaga, write
  <1>5. ASSUME NEW r \in Request, PublishMail(r) PROVE PhaseInv'
    BY <1>5 DEF PublishMail, Publish
  <1>6. ASSUME NEW r \in Request, AwaitReply(r) PROVE PhaseInv'
    BY <1>6 DEF AwaitReply, updateState, write
  <1>7. ASSUME NEW r \in Request, Age(r) PROVE PhaseInv'
    BY <1>7 DEF Age
  <1>8. ASSUME NEW r \in Request, Notify(r) PROVE PhaseInv'
    BY <1>8 DEF Notify, Mail, ReplySent, ReplyFailed
  <1>9. ASSUME NEW h \in Handler, NEW m \in Reply, Receive(h, m) PROVE PhaseInv'
    BY <1>9 DEF Receive, isSent, Go, Reply
  <1>10. ASSUME NEW w \in Sweeper, Sweep(w) PROVE PhaseInv'
    BY <1>10 DEF Sweep, Go, findStuck
  <1>11. ASSUME NEW w \in Worker, Complete(w) PROVE PhaseInv'
    BY <1>11 DEF Complete, transition, write, Go, At
  <1>12. ASSUME NEW w \in Worker, NEW r \in Request, Claim(w, r) PROVE PhaseInv'
    BY <1>12 DEF Claim, transition, write, Go, Proceed, At
  <1>13. ASSUME NEW w \in Worker, Remove(w) PROVE PhaseInv'
    BY <1>13 DEF Remove, deleteIfPending, Go, At
  <1>14. ASSUME NEW w \in Worker, Finish(w) PROVE PhaseInv'
    BY <1>14 DEF Finish, updateState, write, Go, Proceed, At
  <1>15. ASSUME NEW s \in SubId, ConfirmRead(s) PROVE PhaseInv'
    BY <1>15 DEF ConfirmRead
  <1>16. ASSUME NEW s \in SubId, ConfirmWrite(s) PROVE PhaseInv'
    BY <1>16 DEF ConfirmWrite, activate
  <1>17. ASSUME NEW s \in SubId, UnsubscribeRead(s) PROVE PhaseInv'
    BY <1>17 DEF UnsubscribeRead
  <1>18. ASSUME NEW s \in SubId, UnsubscribeWrite(s) PROVE PhaseInv'
    BY <1>18 DEF UnsubscribeWrite, delete
  <1>19. ASSUME NEW r \in Request, RequestFails(r) PROVE PhaseInv'
    BY <1>19 DEF RequestFails, Fault
  <1>20. ASSUME NEW m \in Reply, ReceiveFails(m) PROVE PhaseInv'
    BY <1>20 DEF ReceiveFails, Fault
  <1>21. ASSUME NEW w \in Worker, RemoveFails(w) PROVE PhaseInv'
    BY <1>21 DEF RemoveFails, Fault, Go, At
  <1>22. ASSUME NEW w \in Worker, Abort(w) PROVE PhaseInv'
    BY <1>22 DEF Abort, WriteOf, transition, updateState, write, Fault, Go, At
  <1>23. ASSUME Crash PROVE PhaseInv'
    BY <1>23 DEF Crash, Fault, Unacked, At, Reply
  <1>24. CASE UNCHANGED vars
    BY <1>24
  <1>. QED
    BY <1>1, <1>2, <1>3, <1>4, <1>5, <1>6, <1>7, <1>8, <1>9, <1>10, <1>11, <1>12, <1>13,
       <1>14, <1>15, <1>16, <1>17, <1>18, <1>19, <1>20, <1>21, <1>22, <1>23, <1>24
       DEF Next, RequestStep, WorkerStep, LinkStep, FaultStep

\* Workers only know sagas that exist.
LEMMA WorkerInvStep == ASSUME Inv, [Next]_vars PROVE WorkerInv'
  <1>. USE SagaAssumption, SubscriptionsAssumption
       DEF TypeOK, SubTypeOK, MailTypeOK, RowStatus, Phase, SagaState, Task, Worker, Reply,
           Open, Settled, vars, clockVars, subVars, mailVars, reqVars, workVars, linkVars,
           faultVars, Inv,
           PhaseInv, WorkerInv, At
  <1>1. ASSUME NEW r \in Request, NEW p \in Pair, Check(r, p) PROVE WorkerInv'
    BY <1>1 DEF Check, checkIfActiveExists
  <1>2. ASSUME NEW r \in Request, RefuseUnknown(r) PROVE WorkerInv'
    BY <1>2 DEF RefuseUnknown
  <1>3. ASSUME NEW r \in Request, NEW s \in SubId, Upsert(r, s) PROVE WorkerInv'
    BY <1>3 DEF Upsert, upsertPending
  <1>4. ASSUME NEW r \in Request, CreateSaga(r) PROVE WorkerInv'
    BY <1>4 DEF CreateSaga, write
  <1>5. ASSUME NEW r \in Request, PublishMail(r) PROVE WorkerInv'
    BY <1>5 DEF PublishMail, Publish
  <1>6. ASSUME NEW r \in Request, AwaitReply(r) PROVE WorkerInv'
    BY <1>6 DEF AwaitReply, updateState, write
  <1>7. ASSUME NEW r \in Request, Age(r) PROVE WorkerInv'
    BY <1>7 DEF Age
  <1>8. ASSUME NEW r \in Request, Notify(r) PROVE WorkerInv'
    BY <1>8 DEF Notify, Mail, ReplySent, ReplyFailed
  <1>9. ASSUME NEW h \in Handler, NEW m \in Reply, Receive(h, m) PROVE WorkerInv'
    BY <1>9 DEF Receive, isSent, Go, Reply
  <1>10. ASSUME NEW w \in Sweeper, Sweep(w) PROVE WorkerInv'
    BY <1>10 DEF Sweep, Go, findStuck
  <1>11. ASSUME NEW w \in Worker, Complete(w) PROVE WorkerInv'
    BY <1>11 DEF Complete, transition, write, Go, At
  <1>12. ASSUME NEW w \in Worker, NEW r \in Request, Claim(w, r) PROVE WorkerInv'
    BY <1>12 DEF Claim, transition, write, Go, Proceed, At
  <1>13. ASSUME NEW w \in Worker, Remove(w) PROVE WorkerInv'
    BY <1>13 DEF Remove, deleteIfPending, Go, At
  <1>14. ASSUME NEW w \in Worker, Finish(w) PROVE WorkerInv'
    BY <1>14 DEF Finish, updateState, write, Go, Proceed, At
  <1>15. ASSUME NEW s \in SubId, ConfirmRead(s) PROVE WorkerInv'
    BY <1>15 DEF ConfirmRead
  <1>16. ASSUME NEW s \in SubId, ConfirmWrite(s) PROVE WorkerInv'
    BY <1>16 DEF ConfirmWrite, activate
  <1>17. ASSUME NEW s \in SubId, UnsubscribeRead(s) PROVE WorkerInv'
    BY <1>17 DEF UnsubscribeRead
  <1>18. ASSUME NEW s \in SubId, UnsubscribeWrite(s) PROVE WorkerInv'
    BY <1>18 DEF UnsubscribeWrite, delete
  <1>19. ASSUME NEW r \in Request, RequestFails(r) PROVE WorkerInv'
    BY <1>19 DEF RequestFails, Fault
  <1>20. ASSUME NEW m \in Reply, ReceiveFails(m) PROVE WorkerInv'
    BY <1>20 DEF ReceiveFails, Fault
  <1>21. ASSUME NEW w \in Worker, RemoveFails(w) PROVE WorkerInv'
    BY <1>21 DEF RemoveFails, Fault, Go, At
  <1>22. ASSUME NEW w \in Worker, Abort(w) PROVE WorkerInv'
    BY <1>22 DEF Abort, WriteOf, transition, updateState, write, Fault, Go, At
  <1>23. ASSUME Crash PROVE WorkerInv'
    BY <1>23 DEF Crash, Fault, Unacked, At, Reply
  <1>24. CASE UNCHANGED vars
    BY <1>24
  <1>. QED
    BY <1>1, <1>2, <1>3, <1>4, <1>5, <1>6, <1>7, <1>8, <1>9, <1>10, <1>11, <1>12, <1>13,
       <1>14, <1>15, <1>16, <1>17, <1>18, <1>19, <1>20, <1>21, <1>22, <1>23, <1>24
       DEF Next, RequestStep, WorkerStep, LinkStep, FaultStep

\* Rows are not lost track of.
LEMMA RowStep == ASSUME Inv, [Next]_vars PROVE RowInv'
  <1>. USE SagaAssumption, SubscriptionsAssumption
       DEF TypeOK, SubTypeOK, MailTypeOK, RowStatus, Phase, SagaState, Task, Worker, Reply,
           Open, Settled, vars, clockVars, subVars, mailVars, reqVars, workVars, linkVars,
           faultVars, Inv,
           PhaseInv, WorkerInv, RowInv, Live, RowsOf, ConfirmLinkKnown
  <1>1. ASSUME NEW r \in Request, NEW p \in Pair, Check(r, p) PROVE RowInv'
    BY <1>1 DEF Check, checkIfActiveExists
  <1>2. ASSUME NEW r \in Request, RefuseUnknown(r) PROVE RowInv'
    BY <1>2 DEF RefuseUnknown
  <1>3. ASSUME NEW r \in Request, NEW s \in SubId, Upsert(r, s) PROVE RowInv'
    BY <1>3 DEF Upsert, upsertPending
  <1>4. ASSUME NEW r \in Request, CreateSaga(r) PROVE RowInv'
    BY <1>4 DEF CreateSaga, write
  <1>5. ASSUME NEW r \in Request, PublishMail(r) PROVE RowInv'
    BY <1>5 DEF PublishMail, Publish
  <1>6. ASSUME NEW r \in Request, AwaitReply(r) PROVE RowInv'
    BY <1>6 DEF AwaitReply, updateState, write
  <1>7. ASSUME NEW r \in Request, Age(r) PROVE RowInv'
    BY <1>7 DEF Age
  <1>8. ASSUME NEW r \in Request, Notify(r) PROVE RowInv'
    BY <1>8 DEF Notify, Mail, ReplySent, ReplyFailed
  <1>9. ASSUME NEW h \in Handler, NEW m \in Reply, Receive(h, m) PROVE RowInv'
    BY <1>9 DEF Receive, isSent, Go, Reply
  <1>10. ASSUME NEW w \in Sweeper, Sweep(w) PROVE RowInv'
    BY <1>10 DEF Sweep, Go, findStuck
  <1>11. ASSUME NEW w \in Worker, Complete(w) PROVE RowInv'
    BY <1>11 DEF Complete, transition, write, Go, At
  <1>12. ASSUME NEW w \in Worker, NEW r \in Request, Claim(w, r) PROVE RowInv'
    BY <1>12 DEF Claim, transition, write, Go, Proceed, At
  <1>13. ASSUME NEW w \in Worker, Remove(w) PROVE RowInv'
    BY <1>13 DEF Remove, deleteIfPending, Go, At
  <1>14. ASSUME NEW w \in Worker, Finish(w) PROVE RowInv'
    BY <1>14 DEF Finish, updateState, write, Go, Proceed, At
  <1>15. ASSUME NEW s \in SubId, ConfirmRead(s) PROVE RowInv'
    BY <1>15 DEF ConfirmRead
  <1>16. ASSUME NEW s \in SubId, ConfirmWrite(s) PROVE RowInv'
    BY <1>16 DEF ConfirmWrite, activate
  <1>17. ASSUME NEW s \in SubId, UnsubscribeRead(s) PROVE RowInv'
    BY <1>17 DEF UnsubscribeRead
  <1>18. ASSUME NEW s \in SubId, UnsubscribeWrite(s) PROVE RowInv'
    BY <1>18 DEF UnsubscribeWrite, delete
  <1>19. ASSUME NEW r \in Request, RequestFails(r) PROVE RowInv'
    BY <1>19 DEF RequestFails, Fault
  <1>20. ASSUME NEW m \in Reply, ReceiveFails(m) PROVE RowInv'
    BY <1>20 DEF ReceiveFails, Fault
  <1>21. ASSUME NEW w \in Worker, RemoveFails(w) PROVE RowInv'
    BY <1>21 DEF RemoveFails, Fault, Go, At
  <1>22. ASSUME NEW w \in Worker, Abort(w) PROVE RowInv'
    BY <1>22 DEF Abort, WriteOf, transition, updateState, write, Fault, Go, At
  <1>23. ASSUME Crash PROVE RowInv'
    BY <1>23 DEF Crash, Fault, Unacked, At, Reply
  <1>24. CASE UNCHANGED vars
    BY <1>24
  <1>. QED
    BY <1>1, <1>2, <1>3, <1>4, <1>5, <1>6, <1>7, <1>8, <1>9, <1>10, <1>11, <1>12, <1>13,
       <1>14, <1>15, <1>16, <1>17, <1>18, <1>19, <1>20, <1>21, <1>22, <1>23, <1>24
       DEF Next, RequestStep, WorkerStep, LinkStep, FaultStep

\* Replies are about mails.
LEMMA MailStep == ASSUME Inv, [Next]_vars PROVE MailInv'
  <1>. USE SagaAssumption, SubscriptionsAssumption
       DEF TypeOK, SubTypeOK, MailTypeOK, RowStatus, Phase, SagaState, Task, Worker, Reply,
           Open, Settled, vars, clockVars, subVars, mailVars, reqVars, workVars, linkVars,
           faultVars, Inv,
           PhaseInv, WorkerInv, MailInv, CompletedWasMailed, AwaitingWasPublished, At,
           InFlight
  <1>1. ASSUME NEW r \in Request, NEW p \in Pair, Check(r, p) PROVE MailInv'
    BY <1>1 DEF Check, checkIfActiveExists
  <1>2. ASSUME NEW r \in Request, RefuseUnknown(r) PROVE MailInv'
    BY <1>2 DEF RefuseUnknown
  <1>3. ASSUME NEW r \in Request, NEW s \in SubId, Upsert(r, s) PROVE MailInv'
    BY <1>3 DEF Upsert, upsertPending
  <1>4. ASSUME NEW r \in Request, CreateSaga(r) PROVE MailInv'
    BY <1>4 DEF CreateSaga, write
  <1>5. ASSUME NEW r \in Request, PublishMail(r) PROVE MailInv'
    BY <1>5 DEF PublishMail, Publish
  <1>6. ASSUME NEW r \in Request, AwaitReply(r) PROVE MailInv'
    BY <1>6 DEF AwaitReply, updateState, write
  <1>7. ASSUME NEW r \in Request, Age(r) PROVE MailInv'
    BY <1>7 DEF Age
  <1>8. ASSUME NEW r \in Request, Notify(r) PROVE MailInv'
    BY <1>8 DEF Notify, Mail, ReplySent, ReplyFailed
  <1>9. ASSUME NEW h \in Handler, NEW m \in Reply, Receive(h, m) PROVE MailInv'
    BY <1>9 DEF Receive, isSent, Go, Reply
  <1>10. ASSUME NEW w \in Sweeper, Sweep(w) PROVE MailInv'
    BY <1>10 DEF Sweep, Go, findStuck
  <1>11. ASSUME NEW w \in Worker, Complete(w) PROVE MailInv'
    BY <1>11 DEF Complete, transition, write, Go, At
  <1>12. ASSUME NEW w \in Worker, NEW r \in Request, Claim(w, r) PROVE MailInv'
    BY <1>12 DEF Claim, transition, write, Go, Proceed, At
  <1>13. ASSUME NEW w \in Worker, Remove(w) PROVE MailInv'
    BY <1>13 DEF Remove, deleteIfPending, Go, At
  <1>14. ASSUME NEW w \in Worker, Finish(w) PROVE MailInv'
    BY <1>14 DEF Finish, updateState, write, Go, Proceed, At
  <1>15. ASSUME NEW s \in SubId, ConfirmRead(s) PROVE MailInv'
    BY <1>15 DEF ConfirmRead
  <1>16. ASSUME NEW s \in SubId, ConfirmWrite(s) PROVE MailInv'
    BY <1>16 DEF ConfirmWrite, activate
  <1>17. ASSUME NEW s \in SubId, UnsubscribeRead(s) PROVE MailInv'
    BY <1>17 DEF UnsubscribeRead
  <1>18. ASSUME NEW s \in SubId, UnsubscribeWrite(s) PROVE MailInv'
    BY <1>18 DEF UnsubscribeWrite, delete
  <1>19. ASSUME NEW r \in Request, RequestFails(r) PROVE MailInv'
    BY <1>19 DEF RequestFails, Fault
  <1>20. ASSUME NEW m \in Reply, ReceiveFails(m) PROVE MailInv'
    BY <1>20 DEF ReceiveFails, Fault
  <1>21. ASSUME NEW w \in Worker, RemoveFails(w) PROVE MailInv'
    BY <1>21 DEF RemoveFails, Fault, Go, At
  <1>22. ASSUME NEW w \in Worker, Abort(w) PROVE MailInv'
    BY <1>22 DEF Abort, WriteOf, transition, updateState, write, Fault, Go, At
  <1>23. ASSUME Crash PROVE MailInv'
    <2>1. \A m \in replies' \ replies :
            saga[m[1]] # "none" /\ (m[2] = "SENT" => sub[m[1]] \in mailed)
      <3>1. TAKE m \in replies' \ replies
      <3>2. PICK h \in Handler : m \in Unacked(h)
        BY <1>23, <3>1 DEF Crash
      <3>. QED
        BY <3>2 DEF Unacked
    <2>2. UNCHANGED <<published, mailed, sub, saga>> /\ \A w \in Worker : task'[w] = "idle"
      BY <1>23 DEF Crash
    <2>3. \A r \in Request : phase'[r] = phase[r] \/ phase'[r] = "failed"
      BY <1>23 DEF Crash
    <2>. QED
      BY <2>1, <2>2, <2>3
  <1>24. CASE UNCHANGED vars
    BY <1>24
  <1>. QED
    BY <1>1, <1>2, <1>3, <1>4, <1>5, <1>6, <1>7, <1>8, <1>9, <1>10, <1>11, <1>12, <1>13,
       <1>14, <1>15, <1>16, <1>17, <1>18, <1>19, <1>20, <1>21, <1>22, <1>23, <1>24
       DEF Next, RequestStep, WorkerStep, LinkStep, FaultStep

\* A confirmed subscription is kept.
LEMMA ConfirmedStep == ASSUME Inv, [Next]_vars PROVE ConfirmedIsKept'
  <1>. USE SagaAssumption, SubscriptionsAssumption
       DEF TypeOK, SubTypeOK, MailTypeOK, RowStatus, Phase, SagaState, Task, Worker, Reply,
           Open, Settled, vars, clockVars, subVars, mailVars, reqVars, workVars, linkVars,
           faultVars, Inv,
           PhaseInv, WorkerInv, RowInv, ConfirmedIsKept, Shared, Live, RowsOf
  <1>1. ASSUME NEW r \in Request, NEW p \in Pair, Check(r, p) PROVE ConfirmedIsKept'
    BY <1>1 DEF Check, checkIfActiveExists
  <1>2. ASSUME NEW r \in Request, RefuseUnknown(r) PROVE ConfirmedIsKept'
    BY <1>2 DEF RefuseUnknown
  <1>3. ASSUME NEW r \in Request, NEW s \in SubId, Upsert(r, s) PROVE ConfirmedIsKept'
    BY <1>3 DEF Upsert, upsertPending
  <1>4. ASSUME NEW r \in Request, CreateSaga(r) PROVE ConfirmedIsKept'
    BY <1>4 DEF CreateSaga, write
  <1>5. ASSUME NEW r \in Request, PublishMail(r) PROVE ConfirmedIsKept'
    BY <1>5 DEF PublishMail, Publish
  <1>6. ASSUME NEW r \in Request, AwaitReply(r) PROVE ConfirmedIsKept'
    BY <1>6 DEF AwaitReply, updateState, write
  <1>7. ASSUME NEW r \in Request, Age(r) PROVE ConfirmedIsKept'
    BY <1>7 DEF Age
  <1>8. ASSUME NEW r \in Request, Notify(r) PROVE ConfirmedIsKept'
    BY <1>8 DEF Notify, Mail, ReplySent, ReplyFailed
  <1>9. ASSUME NEW h \in Handler, NEW m \in Reply, Receive(h, m) PROVE ConfirmedIsKept'
    BY <1>9 DEF Receive, isSent, Go, Reply
  <1>10. ASSUME NEW w \in Sweeper, Sweep(w) PROVE ConfirmedIsKept'
    BY <1>10 DEF Sweep, Go, findStuck
  <1>11. ASSUME NEW w \in Worker, Complete(w) PROVE ConfirmedIsKept'
    BY <1>11 DEF Complete, transition, write, Go, At
  <1>12. ASSUME NEW w \in Worker, NEW r \in Request, Claim(w, r) PROVE ConfirmedIsKept'
    BY <1>12 DEF Claim, transition, write, Go, Proceed, At
  <1>13. ASSUME NEW w \in Worker, Remove(w) PROVE ConfirmedIsKept'
    BY <1>13 DEF Remove, deleteIfPending, Go, At
  <1>14. ASSUME NEW w \in Worker, Finish(w) PROVE ConfirmedIsKept'
    BY <1>14 DEF Finish, updateState, write, Go, Proceed, At
  <1>15. ASSUME NEW s \in SubId, ConfirmRead(s) PROVE ConfirmedIsKept'
    BY <1>15 DEF ConfirmRead
  <1>16. ASSUME NEW s \in SubId, ConfirmWrite(s) PROVE ConfirmedIsKept'
    BY <1>16 DEF ConfirmWrite, activate
  <1>17. ASSUME NEW s \in SubId, UnsubscribeRead(s) PROVE ConfirmedIsKept'
    BY <1>17 DEF UnsubscribeRead
  <1>18. ASSUME NEW s \in SubId, UnsubscribeWrite(s) PROVE ConfirmedIsKept'
    BY <1>18 DEF UnsubscribeWrite, delete
  <1>19. ASSUME NEW r \in Request, RequestFails(r) PROVE ConfirmedIsKept'
    BY <1>19 DEF RequestFails, Fault
  <1>20. ASSUME NEW m \in Reply, ReceiveFails(m) PROVE ConfirmedIsKept'
    BY <1>20 DEF ReceiveFails, Fault
  <1>21. ASSUME NEW w \in Worker, RemoveFails(w) PROVE ConfirmedIsKept'
    BY <1>21 DEF RemoveFails, Fault, Go, At
  <1>22. ASSUME NEW w \in Worker, Abort(w) PROVE ConfirmedIsKept'
    BY <1>22 DEF Abort, WriteOf, transition, updateState, write, Fault, Go, At
  <1>23. ASSUME Crash PROVE ConfirmedIsKept'
    BY <1>23 DEF Crash, Fault, Unacked, At, Reply
  <1>24. CASE UNCHANGED vars
    BY <1>24
  <1>. QED
    BY <1>1, <1>2, <1>3, <1>4, <1>5, <1>6, <1>7, <1>8, <1>9, <1>10, <1>11, <1>12, <1>13,
       <1>14, <1>15, <1>16, <1>17, <1>18, <1>19, <1>20, <1>21, <1>22, <1>23, <1>24
       DEF Next, RequestStep, WorkerStep, LinkStep, FaultStep

THEOREM Invariance == SafeSpec => []Inv
  <1>1. Inv /\ [Next]_vars => Inv'
    <2>. SUFFICES ASSUME Inv, [Next]_vars PROVE Inv'
      OBVIOUS
    <2>1. TypeOK'
      BY TypeStep DEF Inv
    <2>. QED
      BY <2>1, PhaseStep, RowStep, WorkerInvStep, MailStep, ConfirmedStep DEF Inv
  <1>. QED
    BY InvInit, <1>1, PTL DEF SafeSpec

\* No completed saga without its mail: see CompletedWasMailed.
THEOREM CompletedIsMailed == SafeSpec => []CompletedWasMailed
  <1>1. Inv => CompletedWasMailed
    BY DEF Inv, MailInv
  <1>. QED
    BY Invariance, <1>1, PTL

\* No saga waits for a message that is not in the queue: see AwaitingWasPublished.
THEOREM AwaitingIsPublished == SafeSpec => []AwaitingWasPublished
  <1>1. Inv => AwaitingWasPublished
    BY DEF Inv, MailInv
  <1>. QED
    BY Invariance, <1>1, PTL

\* A confirmed subscription stays until it is cancelled: see ConfirmedIsKept.
THEOREM ConfirmedStays == SafeSpec => []ConfirmedIsKept
  <1>1. Inv => ConfirmedIsKept
    BY DEF Inv
  <1>. QED
    BY Invariance, <1>1, PTL


\* What ActiveDeletedOnlyByOwner says of one step.
OwnerDeletes ==
  \A s \in SubId : status[s] = "ACTIVE" /\ status'[s] = "deleted" => s \in unsubscribed'

\* Only the owner's request deletes an ACTIVE row.
LEMMA OwnerStep == ASSUME TypeOK, [Next]_vars PROVE OwnerDeletes
  <1>. USE SagaAssumption, SubscriptionsAssumption
       DEF TypeOK, SubTypeOK, MailTypeOK, RowStatus, Phase, SagaState, Task, Worker, Reply,
           Open, Settled, vars, clockVars, subVars, mailVars, reqVars, workVars, linkVars,
           faultVars, OwnerDeletes
  <1>1. ASSUME NEW r \in Request, NEW p \in Pair, Check(r, p) PROVE OwnerDeletes
    BY <1>1 DEF Check, checkIfActiveExists
  <1>2. ASSUME NEW r \in Request, RefuseUnknown(r) PROVE OwnerDeletes
    BY <1>2 DEF RefuseUnknown
  <1>3. ASSUME NEW r \in Request, NEW s \in SubId, Upsert(r, s) PROVE OwnerDeletes
    BY <1>3 DEF Upsert, upsertPending
  <1>4. ASSUME NEW r \in Request, CreateSaga(r) PROVE OwnerDeletes
    BY <1>4 DEF CreateSaga, write
  <1>5. ASSUME NEW r \in Request, PublishMail(r) PROVE OwnerDeletes
    BY <1>5 DEF PublishMail, Publish
  <1>6. ASSUME NEW r \in Request, AwaitReply(r) PROVE OwnerDeletes
    BY <1>6 DEF AwaitReply, updateState, write
  <1>7. ASSUME NEW r \in Request, Age(r) PROVE OwnerDeletes
    BY <1>7 DEF Age
  <1>8. ASSUME NEW r \in Request, Notify(r) PROVE OwnerDeletes
    BY <1>8 DEF Notify, Mail, ReplySent, ReplyFailed
  <1>9. ASSUME NEW h \in Handler, NEW m \in Reply, Receive(h, m) PROVE OwnerDeletes
    BY <1>9 DEF Receive, isSent, Go, Reply
  <1>10. ASSUME NEW w \in Sweeper, Sweep(w) PROVE OwnerDeletes
    BY <1>10 DEF Sweep, Go, findStuck
  <1>11. ASSUME NEW w \in Worker, Complete(w) PROVE OwnerDeletes
    BY <1>11 DEF Complete, transition, write, Go, At
  <1>12. ASSUME NEW w \in Worker, NEW r \in Request, Claim(w, r) PROVE OwnerDeletes
    BY <1>12 DEF Claim, transition, write, Go, Proceed, At
  <1>13. ASSUME NEW w \in Worker, Remove(w) PROVE OwnerDeletes
    BY <1>13 DEF Remove, deleteIfPending, Go, At
  <1>14. ASSUME NEW w \in Worker, Finish(w) PROVE OwnerDeletes
    BY <1>14 DEF Finish, updateState, write, Go, Proceed, At
  <1>15. ASSUME NEW s \in SubId, ConfirmRead(s) PROVE OwnerDeletes
    BY <1>15 DEF ConfirmRead
  <1>16. ASSUME NEW s \in SubId, ConfirmWrite(s) PROVE OwnerDeletes
    BY <1>16 DEF ConfirmWrite, activate
  <1>17. ASSUME NEW s \in SubId, UnsubscribeRead(s) PROVE OwnerDeletes
    BY <1>17 DEF UnsubscribeRead
  <1>18. ASSUME NEW s \in SubId, UnsubscribeWrite(s) PROVE OwnerDeletes
    BY <1>18 DEF UnsubscribeWrite, delete
  <1>19. ASSUME NEW r \in Request, RequestFails(r) PROVE OwnerDeletes
    BY <1>19 DEF RequestFails, Fault
  <1>20. ASSUME NEW m \in Reply, ReceiveFails(m) PROVE OwnerDeletes
    BY <1>20 DEF ReceiveFails, Fault
  <1>21. ASSUME NEW w \in Worker, RemoveFails(w) PROVE OwnerDeletes
    BY <1>21 DEF RemoveFails, Fault, Go, At
  <1>22. ASSUME NEW w \in Worker, Abort(w) PROVE OwnerDeletes
    BY <1>22 DEF Abort, WriteOf, transition, updateState, write, Fault, Go, At
  <1>23. ASSUME Crash PROVE OwnerDeletes
    BY <1>23 DEF Crash, Fault, Unacked, At, Reply
  <1>24. CASE UNCHANGED vars
    BY <1>24
  <1>. QED
    BY <1>1, <1>2, <1>3, <1>4, <1>5, <1>6, <1>7, <1>8, <1>9, <1>10, <1>11, <1>12, <1>13,
       <1>14, <1>15, <1>16, <1>17, <1>18, <1>19, <1>20, <1>21, <1>22, <1>23, <1>24
       DEF Next, RequestStep, WorkerStep, LinkStep, FaultStep

\* No compensation removes an ACTIVE subscription: see ActiveDeletedOnlyByOwner.
THEOREM OnlyOwnerDeletesActive == SafeSpec => ActiveDeletedOnlyByOwner
  <1>1. TypeOK /\ [Next]_vars => [OwnerDeletes]_vars
    BY OwnerStep
  <1>. QED
    BY TypeCorrect, <1>1, PTL DEF SafeSpec, ActiveDeletedOnlyByOwner, OwnerDeletes

----------------------------------------------------------------------------------
\* What a compensation leaves behind.

\* A worker past its delete has left no unconfirmed row of its own.
LEMMA RemovedStep ==
  ASSUME Inv, RemovedInv, [Next]_vars
  PROVE  RemovedInv'
  <1>. USE SagaAssumption, SubscriptionsAssumption
       DEF TypeOK, SubTypeOK, MailTypeOK, RowStatus, Phase, SagaState, Task, Worker, Reply,
           Open, Settled, vars, clockVars, subVars, mailVars, reqVars, workVars, linkVars,
           faultVars, Inv,
           PhaseInv, WorkerInv, RowInv, RemovedInv, CompensationLeavesNoPending, Shared,
           Live, RowsOf
  <1>1. ASSUME NEW r \in Request, NEW p \in Pair, Check(r, p) PROVE RemovedInv'
    BY <1>1 DEF Check, checkIfActiveExists
  <1>2. ASSUME NEW r \in Request, RefuseUnknown(r) PROVE RemovedInv'
    BY <1>2 DEF RefuseUnknown
  <1>3. ASSUME NEW r \in Request, NEW s \in SubId, Upsert(r, s) PROVE RemovedInv'
    BY <1>3 DEF Upsert, upsertPending
  <1>4. ASSUME NEW r \in Request, CreateSaga(r) PROVE RemovedInv'
    BY <1>4 DEF CreateSaga, write
  <1>5. ASSUME NEW r \in Request, PublishMail(r) PROVE RemovedInv'
    BY <1>5 DEF PublishMail, Publish
  <1>6. ASSUME NEW r \in Request, AwaitReply(r) PROVE RemovedInv'
    BY <1>6 DEF AwaitReply, updateState, write
  <1>7. ASSUME NEW r \in Request, Age(r) PROVE RemovedInv'
    BY <1>7 DEF Age
  <1>8. ASSUME NEW r \in Request, Notify(r) PROVE RemovedInv'
    BY <1>8 DEF Notify, Mail, ReplySent, ReplyFailed
  <1>9. ASSUME NEW h \in Handler, NEW m \in Reply, Receive(h, m) PROVE RemovedInv'
    BY <1>9 DEF Receive, isSent, Go, Reply
  <1>10. ASSUME NEW w \in Sweeper, Sweep(w) PROVE RemovedInv'
    BY <1>10 DEF Sweep, Go, findStuck
  <1>11. ASSUME NEW w \in Worker, Complete(w) PROVE RemovedInv'
    BY <1>11 DEF Complete, transition, write, Go, At
  <1>12. ASSUME NEW w \in Worker, NEW r \in Request, Claim(w, r) PROVE RemovedInv'
    BY <1>12 DEF Claim, transition, write, Go, Proceed, At
  <1>13. ASSUME NEW w \in Worker, Remove(w) PROVE RemovedInv'
    BY <1>13 DEF Remove, deleteIfPending, Go, At
  <1>14. ASSUME NEW w \in Worker, Finish(w) PROVE RemovedInv'
    BY <1>14 DEF Finish, updateState, write, Go, Proceed, At
  <1>15. ASSUME NEW s \in SubId, ConfirmRead(s) PROVE RemovedInv'
    BY <1>15 DEF ConfirmRead
  <1>16. ASSUME NEW s \in SubId, ConfirmWrite(s) PROVE RemovedInv'
    BY <1>16 DEF ConfirmWrite, activate
  <1>17. ASSUME NEW s \in SubId, UnsubscribeRead(s) PROVE RemovedInv'
    BY <1>17 DEF UnsubscribeRead
  <1>18. ASSUME NEW s \in SubId, UnsubscribeWrite(s) PROVE RemovedInv'
    BY <1>18 DEF UnsubscribeWrite, delete
  <1>19. ASSUME NEW r \in Request, RequestFails(r) PROVE RemovedInv'
    BY <1>19 DEF RequestFails, Fault
  <1>20. ASSUME NEW m \in Reply, ReceiveFails(m) PROVE RemovedInv'
    BY <1>20 DEF ReceiveFails, Fault
  <1>21. ASSUME NEW w \in Worker, RemoveFails(w) PROVE RemovedInv'
    BY <1>21 DEF RemoveFails, Fault, Go, At
  <1>22. ASSUME NEW w \in Worker, Abort(w) PROVE RemovedInv'
    BY <1>22 DEF Abort, WriteOf, transition, updateState, write, Fault, Go, At
  <1>23. ASSUME Crash PROVE RemovedInv'
    BY <1>23 DEF Crash, Fault, Unacked, At, Reply
  <1>24. CASE UNCHANGED vars
    BY <1>24
  <1>. QED
    BY <1>1, <1>2, <1>3, <1>4, <1>5, <1>6, <1>7, <1>8, <1>9, <1>10, <1>11, <1>12, <1>13,
       <1>14, <1>15, <1>16, <1>17, <1>18, <1>19, <1>20, <1>21, <1>22, <1>23, <1>24
       DEF Next, RequestStep, WorkerStep, LinkStep, FaultStep

\* compensate() cleans up: a PENDING row that a compensated saga leaves behind is shared with
\* another request, or its delete threw (removePendingSubscription).
THEOREM CompensationCleansUp == SafeSpec => []CompensationLeavesNoPending
  <1>1. Init => RemovedInv
    BY DEF Init, RemovedInv, CompensationLeavesNoPending
  <1>2. Inv /\ RemovedInv /\ [Next]_vars => RemovedInv'
    BY RemovedStep
  <1>3. RemovedInv => CompensationLeavesNoPending
    BY DEF RemovedInv
  <1>. QED
    BY Invariance, <1>1, <1>2, <1>3, PTL DEF SafeSpec

----------------------------------------------------------------------------------
\* What holds of the sagas that do not time out before their start() is over.

\* A saga is compensated by the worker that claimed it, and by no other.
LEMMA ClaimStep == ASSUME Inv, ClaimInv, [Next]_vars PROVE ClaimInv'
  <1>. USE SagaAssumption, SubscriptionsAssumption
       DEF TypeOK, SubTypeOK, MailTypeOK, RowStatus, Phase, SagaState, Task, Worker, Reply,
           Open, Settled, vars, clockVars, subVars, mailVars, reqVars, workVars, linkVars,
           faultVars, Inv,
           PhaseInv, WorkerInv, ClaimInv, CompensationExclusive, Over, InFlight
  <1>1. ASSUME NEW r \in Request, NEW p \in Pair, Check(r, p) PROVE ClaimInv'
    BY <1>1 DEF Check, checkIfActiveExists
  <1>2. ASSUME NEW r \in Request, RefuseUnknown(r) PROVE ClaimInv'
    BY <1>2 DEF RefuseUnknown
  <1>3. ASSUME NEW r \in Request, NEW s \in SubId, Upsert(r, s) PROVE ClaimInv'
    BY <1>3 DEF Upsert, upsertPending
  <1>4. ASSUME NEW r \in Request, CreateSaga(r) PROVE ClaimInv'
    BY <1>4 DEF CreateSaga, write
  <1>5. ASSUME NEW r \in Request, PublishMail(r) PROVE ClaimInv'
    BY <1>5 DEF PublishMail, Publish
  <1>6. ASSUME NEW r \in Request, AwaitReply(r) PROVE ClaimInv'
    BY <1>6 DEF AwaitReply, updateState, write
  <1>7. ASSUME NEW r \in Request, Age(r) PROVE ClaimInv'
    BY <1>7 DEF Age
  <1>8. ASSUME NEW r \in Request, Notify(r) PROVE ClaimInv'
    BY <1>8 DEF Notify, Mail, ReplySent, ReplyFailed
  <1>9. ASSUME NEW h \in Handler, NEW m \in Reply, Receive(h, m) PROVE ClaimInv'
    BY <1>9 DEF Receive, isSent, Go, Reply
  <1>10. ASSUME NEW w \in Sweeper, Sweep(w) PROVE ClaimInv'
    BY <1>10 DEF Sweep, Go, findStuck
  <1>11. ASSUME NEW w \in Worker, Complete(w) PROVE ClaimInv'
    BY <1>11 DEF Complete, transition, write, Go, At
  <1>12. ASSUME NEW w \in Worker, NEW r \in Request, Claim(w, r) PROVE ClaimInv'
    BY <1>12 DEF Claim, transition, write, Go, Proceed, At
  <1>13. ASSUME NEW w \in Worker, Remove(w) PROVE ClaimInv'
    BY <1>13 DEF Remove, deleteIfPending, Go, At
  <1>14. ASSUME NEW w \in Worker, Finish(w) PROVE ClaimInv'
    BY <1>14 DEF Finish, updateState, write, Go, Proceed, At
  <1>15. ASSUME NEW s \in SubId, ConfirmRead(s) PROVE ClaimInv'
    BY <1>15 DEF ConfirmRead
  <1>16. ASSUME NEW s \in SubId, ConfirmWrite(s) PROVE ClaimInv'
    BY <1>16 DEF ConfirmWrite, activate
  <1>17. ASSUME NEW s \in SubId, UnsubscribeRead(s) PROVE ClaimInv'
    BY <1>17 DEF UnsubscribeRead
  <1>18. ASSUME NEW s \in SubId, UnsubscribeWrite(s) PROVE ClaimInv'
    BY <1>18 DEF UnsubscribeWrite, delete
  <1>19. ASSUME NEW r \in Request, RequestFails(r) PROVE ClaimInv'
    BY <1>19 DEF RequestFails, Fault
  <1>20. ASSUME NEW m \in Reply, ReceiveFails(m) PROVE ClaimInv'
    BY <1>20 DEF ReceiveFails, Fault
  <1>21. ASSUME NEW w \in Worker, RemoveFails(w) PROVE ClaimInv'
    BY <1>21 DEF RemoveFails, Fault, Go, At
  <1>22. ASSUME NEW w \in Worker, Abort(w) PROVE ClaimInv'
    BY <1>22 DEF Abort, WriteOf, transition, updateState, write, Fault, Go, At
  <1>23. ASSUME Crash PROVE ClaimInv'
    BY <1>23 DEF Crash, Fault, Unacked, At, Reply
  <1>24. CASE UNCHANGED vars
    BY <1>24
  <1>. QED
    BY <1>1, <1>2, <1>3, <1>4, <1>5, <1>6, <1>7, <1>8, <1>9, <1>10, <1>11, <1>12, <1>13,
       <1>14, <1>15, <1>16, <1>17, <1>18, <1>19, <1>20, <1>21, <1>22, <1>23, <1>24
       DEF Next, RequestStep, WorkerStep, LinkStep, FaultStep

LEMMA ClaimInvariance == SafeSpec => []ClaimInv
  <1>1. Init => ClaimInv
    BY DEF Init, ClaimInv, CompensationExclusive
  <1>2. Inv /\ ClaimInv /\ [Next]_vars => ClaimInv'
    BY ClaimStep
  <1>. QED
    BY Invariance, <1>1, <1>2, PTL DEF SafeSpec

\* One worker at a time removes a subscription: see CompensationExclusive.
THEOREM OneCompensatorPerSaga == SafeSpec => []CompensationExclusive
  <1>1. ClaimInv => CompensationExclusive
    BY DEF ClaimInv
  <1>. QED
    BY ClaimInvariance, <1>1, PTL

\* The row of a saga that nobody compensates is kept.
LEMMA KeptStep ==
  ASSUME Inv, ClaimInv, KeptInv, [Next]_vars
  PROVE  KeptInv'
  <1>. USE SagaAssumption, SubscriptionsAssumption
       DEF TypeOK, SubTypeOK, MailTypeOK, RowStatus, Phase, SagaState, Task, Worker, Reply,
           Open, Settled, vars, clockVars, subVars, mailVars, reqVars, workVars, linkVars,
           faultVars, Inv,
           PhaseInv, WorkerInv, RowInv, ClaimInv, KeptInv, Shared, Live, RowsOf
  <1>1. ASSUME NEW r \in Request, NEW p \in Pair, Check(r, p) PROVE KeptInv'
    BY <1>1 DEF Check, checkIfActiveExists
  <1>2. ASSUME NEW r \in Request, RefuseUnknown(r) PROVE KeptInv'
    BY <1>2 DEF RefuseUnknown
  <1>3. ASSUME NEW r \in Request, NEW s \in SubId, Upsert(r, s) PROVE KeptInv'
    BY <1>3 DEF Upsert, upsertPending
  <1>4. ASSUME NEW r \in Request, CreateSaga(r) PROVE KeptInv'
    BY <1>4 DEF CreateSaga, write
  <1>5. ASSUME NEW r \in Request, PublishMail(r) PROVE KeptInv'
    BY <1>5 DEF PublishMail, Publish
  <1>6. ASSUME NEW r \in Request, AwaitReply(r) PROVE KeptInv'
    BY <1>6 DEF AwaitReply, updateState, write
  <1>7. ASSUME NEW r \in Request, Age(r) PROVE KeptInv'
    BY <1>7 DEF Age
  <1>8. ASSUME NEW r \in Request, Notify(r) PROVE KeptInv'
    BY <1>8 DEF Notify, Mail, ReplySent, ReplyFailed
  <1>9. ASSUME NEW h \in Handler, NEW m \in Reply, Receive(h, m) PROVE KeptInv'
    BY <1>9 DEF Receive, isSent, Go, Reply
  <1>10. ASSUME NEW w \in Sweeper, Sweep(w) PROVE KeptInv'
    BY <1>10 DEF Sweep, Go, findStuck
  <1>11. ASSUME NEW w \in Worker, Complete(w) PROVE KeptInv'
    BY <1>11 DEF Complete, transition, write, Go, At
  <1>12. ASSUME NEW w \in Worker, NEW r \in Request, Claim(w, r) PROVE KeptInv'
    BY <1>12 DEF Claim, transition, write, Go, Proceed, At
  <1>13. ASSUME NEW w \in Worker, Remove(w) PROVE KeptInv'
    BY <1>13 DEF Remove, deleteIfPending, Go, At
  <1>14. ASSUME NEW w \in Worker, Finish(w) PROVE KeptInv'
    BY <1>14 DEF Finish, updateState, write, Go, Proceed, At
  <1>15. ASSUME NEW s \in SubId, ConfirmRead(s) PROVE KeptInv'
    BY <1>15 DEF ConfirmRead
  <1>16. ASSUME NEW s \in SubId, ConfirmWrite(s) PROVE KeptInv'
    BY <1>16 DEF ConfirmWrite, activate
  <1>17. ASSUME NEW s \in SubId, UnsubscribeRead(s) PROVE KeptInv'
    BY <1>17 DEF UnsubscribeRead
  <1>18. ASSUME NEW s \in SubId, UnsubscribeWrite(s) PROVE KeptInv'
    BY <1>18 DEF UnsubscribeWrite, delete
  <1>19. ASSUME NEW r \in Request, RequestFails(r) PROVE KeptInv'
    BY <1>19 DEF RequestFails, Fault
  <1>20. ASSUME NEW m \in Reply, ReceiveFails(m) PROVE KeptInv'
    BY <1>20 DEF ReceiveFails, Fault
  <1>21. ASSUME NEW w \in Worker, RemoveFails(w) PROVE KeptInv'
    BY <1>21 DEF RemoveFails, Fault, Go, At
  <1>22. ASSUME NEW w \in Worker, Abort(w) PROVE KeptInv'
    BY <1>22 DEF Abort, WriteOf, transition, updateState, write, Fault, Go, At
  <1>23. ASSUME Crash PROVE KeptInv'
    BY <1>23 DEF Crash, Fault, Unacked, At, Reply
  <1>24. CASE UNCHANGED vars
    BY <1>24
  <1>. QED
    BY <1>1, <1>2, <1>3, <1>4, <1>5, <1>6, <1>7, <1>8, <1>9, <1>10, <1>11, <1>12, <1>13,
       <1>14, <1>15, <1>16, <1>17, <1>18, <1>19, <1>20, <1>21, <1>22, <1>23, <1>24
       DEF Next, RequestStep, WorkerStep, LinkStep, FaultStep

\* A completed saga keeps its row: see CompletedKeepsRow.
THEOREM CompletedRowStays == SafeSpec => []CompletedKeepsRow
  <1>1. Init => KeptInv
    BY DEF Init, KeptInv
  <1>2. Inv /\ ClaimInv /\ KeptInv /\ [Next]_vars => KeptInv'
    BY KeptStep
  <1>3. Inv /\ KeptInv => CompletedKeepsRow
    BY DEF Inv, PhaseInv, KeptInv, CompletedKeepsRow
  <1>. QED
    BY Invariance, ClaimInvariance, <1>1, <1>2, <1>3, PTL DEF SafeSpec

\* What FollowsLifecycle says of one step.
LifecycleNext == Lifecycle!Next \/ UNCHANGED Orderly

\* A write of a saga is a step of the state machine if the state machine allows it from
\* where the saga is; one of a saga that has been overtaken is not shown.
LEMMA OrderlyWrite ==
  ASSUME TypeOK, NEW r \in Request, NEW to, write(r, to)
  PROVE  /\ r \in overtaken => UNCHANGED Orderly
         /\ r \notin overtaken => Orderly[r] = saga[r] /\ Orderly' = [Orderly EXCEPT ![r] = to]
  BY DEF TypeOK, write, Orderly

\* Every step is a step of the saga's state machine, or leaves every saga alone.
LEMMA LifecycleStep ==
  ASSUME Inv, ClaimInv, [Next]_vars
  PROVE  LifecycleNext
  <1>. USE SagaAssumption, SubscriptionsAssumption
       DEF TypeOK, SubTypeOK, MailTypeOK, RowStatus, Phase, SagaState, Task, Worker, Reply,
           Open, Settled, vars, clockVars, subVars, mailVars, reqVars, workVars, linkVars,
           faultVars, Inv,
           PhaseInv, WorkerInv, ClaimInv, LifecycleNext, Lifecycle!Next,
           Lifecycle!Start, Lifecycle!Await, Lifecycle!Complete, Lifecycle!Compensate,
           Lifecycle!Finish, Lifecycle!Move, Lifecycle!Open
  <1>1. ASSUME NEW r \in Request, NEW p \in Pair, Check(r, p) PROVE LifecycleNext
    BY <1>1 DEF Check, checkIfActiveExists, Orderly
  <1>2. ASSUME NEW r \in Request, RefuseUnknown(r) PROVE LifecycleNext
    BY <1>2 DEF RefuseUnknown, Orderly
  <1>3. ASSUME NEW r \in Request, NEW s \in SubId, Upsert(r, s) PROVE LifecycleNext
    BY <1>3 DEF Upsert, upsertPending, Orderly
  <1>4. ASSUME NEW r \in Request, CreateSaga(r) PROVE LifecycleNext
    <2>1. write(r, "STARTED") /\ saga[r] = "none"
      BY <1>4 DEF CreateSaga
    <2>. QED
      BY <2>1, OrderlyWrite
  <1>5. ASSUME NEW r \in Request, PublishMail(r) PROVE LifecycleNext
    BY <1>5 DEF PublishMail, Publish, Orderly
  <1>6. ASSUME NEW r \in Request, AwaitReply(r) PROVE LifecycleNext
    <2>1. write(r, "AWAITING_EMAIL") /\ (r \notin overtaken => saga[r] = "STARTED")
      BY <1>6 DEF AwaitReply, updateState
    <2>. QED
      BY <2>1, OrderlyWrite
  <1>7. ASSUME NEW r \in Request, Age(r) PROVE LifecycleNext
    <2>1. saga[r] = "STARTED" \/ ~InFlight(r) \/ r \in overtaken
      BY <1>7 DEF Age, InFlight
    <2>. QED
      BY <1>7, <2>1 DEF Age, Orderly
  <1>8. ASSUME NEW r \in Request, Notify(r) PROVE LifecycleNext
    BY <1>8 DEF Notify, Mail, ReplySent, ReplyFailed, Orderly
  <1>9. ASSUME NEW h \in Handler, NEW m \in Reply, Receive(h, m) PROVE LifecycleNext
    BY <1>9 DEF Receive, isSent, Go, Reply, Orderly
  <1>10. ASSUME NEW w \in Sweeper, Sweep(w) PROVE LifecycleNext
    BY <1>10 DEF Sweep, Go, findStuck, Orderly
  <1>11. ASSUME NEW w \in Worker, Complete(w) PROVE LifecycleNext
    <2>1. CASE UNCHANGED <<saga, clockVars>>
      BY <2>1 DEF Orderly
    <2>2. CASE transition(job[w], {"AWAITING_EMAIL"}, "COMPLETED")
      <3>1. job[w] \in Request /\ saga[job[w]] = "AWAITING_EMAIL" /\ write(job[w], "COMPLETED")
        BY <1>11, <2>2 DEF Complete, At, transition
      <3>. QED
        BY <3>1, OrderlyWrite
    <2>. QED
      BY <1>11, <2>1, <2>2 DEF Complete
  <1>12. ASSUME NEW w \in Worker, NEW r \in Request, Claim(w, r) PROVE LifecycleNext
    <2>1. CASE UNCHANGED <<saga, clockVars>>
      BY <2>1 DEF Orderly
    <2>2. CASE transition(r, Open, "COMPENSATING")
      <3>1. saga[r] \in Open /\ write(r, "COMPENSATING")
        BY <2>2 DEF transition
      <3>. QED
        BY <3>1, OrderlyWrite
    <2>. QED
      BY <1>12, <2>1, <2>2 DEF Claim
  <1>13. ASSUME NEW w \in Worker, Remove(w) PROVE LifecycleNext
    BY <1>13 DEF Remove, deleteIfPending, Go, At, Orderly
  <1>14. ASSUME NEW w \in Worker, Finish(w) PROVE LifecycleNext
    <2>1. job[w] \in Request /\ write(job[w], "COMPENSATED")
      BY <1>14 DEF Finish, At, updateState
    <2>2. job[w] \notin overtaken => saga[job[w]] = "COMPENSATING"
      BY <1>14 DEF Finish, At
    <2>. QED
      BY <2>1, <2>2, OrderlyWrite
  <1>15. ASSUME NEW s \in SubId, ConfirmRead(s) PROVE LifecycleNext
    BY <1>15 DEF ConfirmRead, Orderly
  <1>16. ASSUME NEW s \in SubId, ConfirmWrite(s) PROVE LifecycleNext
    BY <1>16 DEF ConfirmWrite, activate, Orderly
  <1>17. ASSUME NEW s \in SubId, UnsubscribeRead(s) PROVE LifecycleNext
    BY <1>17 DEF UnsubscribeRead, Orderly
  <1>18. ASSUME NEW s \in SubId, UnsubscribeWrite(s) PROVE LifecycleNext
    BY <1>18 DEF UnsubscribeWrite, delete, Orderly
  <1>19. ASSUME NEW r \in Request, RequestFails(r) PROVE LifecycleNext
    BY <1>19 DEF RequestFails, Fault, Orderly
  <1>20. ASSUME NEW m \in Reply, ReceiveFails(m) PROVE LifecycleNext
    BY <1>20 DEF ReceiveFails, Fault, Orderly
  <1>21. ASSUME NEW w \in Worker, RemoveFails(w) PROVE LifecycleNext
    BY <1>21 DEF RemoveFails, Fault, Go, At, Orderly
  <1>22. ASSUME NEW w \in Worker, Abort(w) PROVE LifecycleNext
    <2>1. CASE UNCHANGED <<saga, clockVars>>
      BY <2>1 DEF Orderly
    <2>2. CASE At(w, "complete") /\ transition(job[w], {"AWAITING_EMAIL"}, "COMPLETED")
      <3>1. job[w] \in Request /\ saga[job[w]] = "AWAITING_EMAIL" /\ write(job[w], "COMPLETED")
        BY <2>2 DEF At, transition
      <3>. QED
        BY <3>1, OrderlyWrite
    <2>3. ASSUME NEW r \in todo[w], transition(r, Open, "COMPENSATING") PROVE LifecycleNext
      <3>1. r \in Request /\ saga[r] \in Open /\ write(r, "COMPENSATING")
        BY <2>3 DEF transition
      <3>. QED
        BY <3>1, OrderlyWrite
    <2>4. CASE At(w, "finish") /\ updateState(job[w], "COMPENSATED")
      <3>1. job[w] \in Request /\ write(job[w], "COMPENSATED")
        BY <2>4 DEF At, updateState
      <3>2. job[w] \notin overtaken => saga[job[w]] = "COMPENSATING"
        BY <2>4 DEF At
      <3>. QED
        BY <3>1, <3>2, OrderlyWrite
    <2>. QED
      BY <1>22, <2>1, <2>2, <2>3, <2>4 DEF Abort, WriteOf
  <1>23. ASSUME Crash PROVE LifecycleNext
    BY <1>23 DEF Crash, Fault, Unacked, At, Reply, Orderly
  <1>24. CASE UNCHANGED vars
    BY <1>24 DEF Orderly
  <1>. QED
    BY <1>1, <1>2, <1>3, <1>4, <1>5, <1>6, <1>7, <1>8, <1>9, <1>10, <1>11, <1>12, <1>13,
       <1>14, <1>15, <1>16, <1>17, <1>18, <1>19, <1>20, <1>21, <1>22, <1>23, <1>24
       DEF Next, RequestStep, WorkerStep, LinkStep, FaultStep

\* The detailed model implements the state machine of a saga: see FollowsLifecycle.
THEOREM ImplementsLifecycle == SafeSpec => FollowsLifecycle
  <1>1. Init => Lifecycle!Init
    BY DEF Init, Lifecycle!Init, Orderly
  <1>2. Inv /\ ClaimInv /\ [Next]_vars => [Lifecycle!Next]_Orderly
    BY LifecycleStep DEF LifecycleNext
  <1>. QED
    BY Invariance, ClaimInvariance, <1>1, <1>2, PTL
       DEF SafeSpec, FollowsLifecycle, Lifecycle!Spec
==================================================================================
