------------------------------ MODULE SubscribeSaga ------------------------------
(* The subscribe flow of the API server: POST /subscribe and its saga             *)
(* (modules/saga/orchestrator/subscribe.saga.ts), the consumer of the replies of  *)
(* the notification service, the sweep of stuck sagas that a cron starts every    *)
(* minute, and the requests that confirm a subscription and cancel it.  All run   *)
(* in one process and interleave at every await; the database and the queues      *)
(* outlive the process.                                                           *)
EXTENDS Subscriptions, ConfirmationMail

\* A Request is a subscribe request that passes validation; it also names the saga
\* it creates.
CONSTANTS
  Handler,     \* replies handled at once (the prefetch of the reply consumer)
  Sweeper,     \* sweeps running at once: the cron does not wait for the last one
  FaultPoint,  \* where a fault may strike, see FaultPoints
  MaxFaults,   \* bound: how many faults strike in a behaviour
  SlowStart    \* bound: may a start() take longer than CONFIRMATION_TIMEOUT_MS?

Worker == Handler \cup Sweeper

\* A call that throws: in a subscribe request, when a reply is read, and in each
\* task of a worker; and the death of the process.
FaultPoints == {"request", "receive", "complete", "compensate", "remove", "finish", "crash"}

\* An idempotency key is made of the pair and of the confirm token: one per row.
ASSUME SagaAssumption ==
  /\ Key = SubId
  /\ None \notin Request
  /\ Handler \cap Sweeper = {}
  /\ FaultPoint \subseteq FaultPoints
  /\ MaxFaults \in Nat
  /\ SlowStart \in BOOLEAN

VARIABLES
  phase,         \* phase[r]: the await the subscribe request r is at
  want,          \* want[r]: the (email, repository) r asks for
  sub,           \* sub[r]: the row r upserted, the payload of r's saga
  saga,          \* saga[r]: SagaInstance.state
  stale,         \* the sagas not updated for CONFIRMATION_TIMEOUT_MS
  overtaken,     \* history: the sagas that got stale before their start() was over
  task,          \* task[w]: the await the worker w is at
  job,           \* job[w]: the saga w is working on
  todo,          \* todo[w]: the sagas w has read and not come to yet
  confirming,    \* the rows a confirm request has read as PENDING, not yet updated
  unsubscribing, \* the rows an unsubscribe request has read, not yet deleted
  confirmed,     \* history: the rows that a confirm request has made ACTIVE
  unsubscribed,  \* history: the rows that an unsubscribe request has deleted
  faults,        \* the faults so far
  undeleted      \* history: the sagas the delete of whose row threw, and came to nothing

reqVars == <<phase, want, sub>>
clockVars == <<stale, overtaken>>
workVars == <<task, job, todo>>
linkVars == <<confirming, unsubscribing, confirmed, unsubscribed>>
faultVars == <<faults, undeleted>>
vars == <<subVars, mailVars, reqVars, saga, clockVars, workVars, linkVars, faultVars>>

Phase == {"idle", "checked", "upserted", "created", "published", "returned", "refused", "failed"}
SagaState == {"none", "STARTED", "AWAITING_EMAIL", "COMPLETED", "COMPENSATING", "COMPENSATED"}
Task == {"idle", "complete", "compensate", "remove", "finish"}

Open == {"STARTED", "AWAITING_EMAIL"}
Settled == {"COMPLETED", "COMPENSATED"}

TypeOK ==
  /\ SubTypeOK
  /\ MailTypeOK
  /\ phase \in [Request -> Phase]
  /\ want \in [Request -> Pair \cup {None}]
  /\ sub \in [Request -> SubId \cup {None}]
  /\ saga \in [Request -> SagaState]
  /\ stale \subseteq Request
  /\ overtaken \subseteq Request
  /\ task \in [Worker -> Task]
  /\ job \in [Worker -> Request \cup {None}]
  /\ \A w \in Worker : task[w] \in {"complete", "remove", "finish"} => job[w] \in Request
  /\ todo \in [Worker -> SUBSET Request]
  /\ confirming \subseteq SubId
  /\ unsubscribing \subseteq SubId
  /\ confirmed \subseteq SubId
  /\ unsubscribed \subseteq SubId
  /\ faults \in Nat
  /\ undeleted \subseteq Request

Init ==
  /\ SubInit
  /\ MailInit
  /\ phase = [r \in Request |-> "idle"]
  /\ want = [r \in Request |-> None]
  /\ sub = [r \in Request |-> None]
  /\ saga = [r \in Request |-> "none"]
  /\ stale = {}
  /\ overtaken = {}
  /\ task = [w \in Worker |-> "idle"]
  /\ job = [w \in Worker |-> None]
  /\ todo = [w \in Worker |-> {}]
  /\ confirming = {}
  /\ unsubscribing = {}
  /\ confirmed = {}
  /\ unsubscribed = {}
  /\ faults = 0
  /\ undeleted = {}

----------------------------------------------------------------------------------
\* Operators on the table SagaInstance.  Every write sets updatedAt, so a saga is
\* no longer stale after it.

write(r, to) ==
  /\ saga' = [saga EXCEPT ![r] = to]
  /\ stale' = stale \ {r}
  /\ UNCHANGED overtaken

\* UPDATE ... WHERE id = r: whatever the state is.
updateState(r, to) == write(r, to)

\* Mutant of transition: the state is not compared.
transitionAnyway(r, from, to) == from # {} /\ updateState(r, to)

\* UPDATE ... WHERE id = r AND state IN from, which tells whether it took place.
transition(r, from, to) == saga[r] \in from /\ write(r, to)

\* Mutant of findStuck: a saga whose start() did not come to its end is forgotten.
findUnanswered == {r \in stale : saga[r] = "AWAITING_EMAIL"}

findStuck == {r \in stale : saga[r] \in Open}

\* One more fault, at a place where faults are considered.
Fault(point) ==
  /\ point \in FaultPoint
  /\ faults < MaxFaults
  /\ faults' = faults + 1

----------------------------------------------------------------------------------
\* A subscribe request: subscribeToRepo, then start.

\* The check that no subscription is active, and the refusal when one is.
Check(r, p) ==
  /\ phase[r] = "idle"
  /\ want' = [want EXCEPT ![r] = p]
  /\ phase' = [phase EXCEPT ![r] = IF checkIfActiveExists(p) THEN "refused" ELSE "checked"]
  /\ UNCHANGED <<subVars, mailVars, sub, saga, clockVars, workVars, linkVars, faultVars>>

\* GitHub does not know the repository.
RefuseUnknown(r) ==
  /\ phase[r] = "checked"
  /\ phase' = [phase EXCEPT ![r] = "refused"]
  /\ UNCHANGED <<subVars, mailVars, want, sub, saga, clockVars, workVars, linkVars, faultVars>>

\* GitHub knows the repository: start() upserts the row.
Upsert(r, s) ==
  /\ phase[r] = "checked"
  /\ upsertPending(want[r], s)
  /\ sub' = [sub EXCEPT ![r] = s]
  /\ phase' = [phase EXCEPT ![r] = "upserted"]
  /\ UNCHANGED <<mailVars, want, saga, clockVars, workVars, linkVars, faultVars>>

CreateSaga(r) ==
  /\ phase[r] = "upserted"
  /\ write(r, "STARTED")
  /\ phase' = [phase EXCEPT ![r] = "created"]
  /\ UNCHANGED <<subVars, mailVars, want, sub, workVars, linkVars, faultVars>>

PublishMail(r) ==
  /\ phase[r] = "created"
  /\ Publish(r)
  /\ phase' = [phase EXCEPT ![r] = "published"]
  /\ UNCHANGED <<subVars, want, sub, saga, clockVars, workVars, linkVars, faultVars>>

AwaitReply(r) ==
  /\ phase[r] = "published"
  /\ updateState(r, "AWAITING_EMAIL")
  /\ phase' = [phase EXCEPT ![r] = "returned"]
  /\ UNCHANGED <<subVars, mailVars, want, sub, workVars, linkVars, faultVars>>

InFlight(r) == phase[r] \in {"checked", "upserted", "created", "published"}

\* A call of the request throws and the caller gets an error.  A call that took
\* effect and then threw is this step taken one phase later.
RequestFails(r) ==
  /\ InFlight(r)
  /\ Fault("request")
  /\ phase' = [phase EXCEPT ![r] = "failed"]
  /\ UNCHANGED <<subVars, mailVars, want, sub, saga, clockVars, workVars, linkVars, undeleted>>

\* The clock: the last write of an open saga gets older than
\* CONFIRMATION_TIMEOUT_MS, maybe before start() is over.
Age(r) ==
  /\ saga[r] \in Open
  /\ InFlight(r) => SlowStart
  /\ stale' = stale \cup {r}
  /\ overtaken' = IF InFlight(r) THEN overtaken \cup {r} ELSE overtaken
  /\ UNCHANGED <<subVars, mailVars, reqVars, saga, workVars, linkVars, faultVars>>

----------------------------------------------------------------------------------
\* The workers: handlers of replies, and sweeps.

At(w, t) == task[w] = t

Go(w, t, j, rest) ==
  /\ task' = [task EXCEPT ![w] = t]
  /\ job' = [job EXCEPT ![w] = j]
  /\ todo' = [todo EXCEPT ![w] = rest]

\* Between two sagas: on to the next one, or done.
Proceed(w, rest) == Go(w, IF rest = {} THEN "idle" ELSE "compensate", None, rest)

\* Mutant of isSent: the status of the reply is not looked at.
isAnswer(m) == m[2] \in {"SENT", "FAILED"}

isSent(m) == m[2] = "SENT"

\* A reply is taken and its saga read.  A reply for a saga that is not awaiting
\* one is acknowledged and forgotten.
Receive(h, m) ==
  LET r == m[1]
  IN /\ At(h, "idle")
     /\ m \in replies
     /\ replies' = replies \ {m}
     /\ IF saga[r] = "AWAITING_EMAIL"
        THEN IF isSent(m) THEN Go(h, "complete", r, {}) ELSE Go(h, "compensate", None, {r})
        ELSE UNCHANGED workVars
     /\ UNCHANGED <<subVars, published, mailed, reqVars, saga, clockVars, linkVars, faultVars>>

\* findById throws: the reply is dropped.
ReceiveFails(m) ==
  /\ m \in replies
  /\ Fault("receive")
  /\ replies' = replies \ {m}
  /\ UNCHANGED <<subVars, published, mailed, reqVars, saga, clockVars, workVars, linkVars,
                 undeleted>>

Complete(h) ==
  /\ At(h, "complete")
  /\ \/ transition(job[h], {"AWAITING_EMAIL"}, "COMPLETED")
     \/ saga[job[h]] # "AWAITING_EMAIL" /\ UNCHANGED <<saga, clockVars>>
  /\ Go(h, "idle", None, {})
  /\ UNCHANGED <<subVars, mailVars, reqVars, linkVars, faultVars>>

\* compensateStuck reads the sagas once, and then goes through them.
Sweep(w) ==
  /\ At(w, "idle")
  /\ findStuck # {}
  /\ Go(w, "compensate", None, findStuck)
  /\ UNCHANGED <<subVars, mailVars, reqVars, saga, clockVars, linkVars, faultVars>>

\* compensate(r): the claim, won or lost to another worker.
Claim(w, r) ==
  /\ At(w, "compensate")
  /\ r \in todo[w]
  /\ \/ /\ transition(r, Open, "COMPENSATING")
        /\ Go(w, "remove", r, todo[w] \ {r})
     \/ /\ saga[r] \notin Open
        /\ Proceed(w, todo[w] \ {r})
        /\ UNCHANGED <<saga, clockVars>>
  /\ UNCHANGED <<subVars, mailVars, reqVars, linkVars, faultVars>>

Remove(w) ==
  /\ At(w, "remove")
  /\ deleteIfPending(sub[job[w]])
  /\ undeleted' = undeleted \ {job[w]}
  /\ Go(w, "finish", job[w], todo[w])
  /\ UNCHANGED <<mailVars, reqVars, saga, clockVars, linkVars, faults>>

\* The delete throws: removePendingSubscription logs it and returns.  A delete that took
\* effect and then threw is no different from Remove.
RemoveFails(w) ==
  /\ At(w, "remove")
  /\ Fault("remove")
  /\ undeleted' = undeleted \cup {job[w]}
  /\ Go(w, "finish", job[w], todo[w])
  /\ UNCHANGED <<subVars, mailVars, reqVars, saga, clockVars, linkVars>>

Finish(w) ==
  /\ At(w, "finish")
  /\ updateState(job[w], "COMPENSATED")
  /\ Proceed(w, todo[w])
  /\ UNCHANGED <<subVars, mailVars, reqVars, linkVars, faultVars>>

\* What the query w is waiting for writes.
WriteOf(w) ==
  \/ At(w, "complete") /\ transition(job[w], {"AWAITING_EMAIL"}, "COMPLETED")
  \/ At(w, "compensate") /\ \E r \in todo[w] : transition(r, Open, "COMPENSATING")
  \/ At(w, "finish") /\ updateState(job[w], "COMPENSATED")

\* The query throws, before or after it took effect: w drops the reply, or the rest of
\* the sweep.
Abort(w) ==
  /\ task[w] \in {"complete", "compensate", "finish"}
  /\ Fault(task[w])
  /\ WriteOf(w) \/ UNCHANGED <<saga, clockVars>>
  /\ Go(w, "idle", None, {})
  /\ UNCHANGED <<subVars, mailVars, reqVars, linkVars, undeleted>>

----------------------------------------------------------------------------------
\* The links in the mails.

\* A confirm token is in the confirmation mail, and in the answer of the gRPC
\* handler Subscribe (test_token).
ConfirmLinkKnown(s) == s \in mailed \/ \E r \in Request : phase[r] = "returned" /\ sub[r] = s

\* confirmSubscription reads the row; an ACTIVE one, and none, is an error.
ConfirmRead(s) ==
  /\ ConfirmLinkKnown(s)
  /\ status[s] = "PENDING"
  /\ confirming' = confirming \cup {s}
  /\ UNCHANGED <<subVars, mailVars, reqVars, saga, clockVars, workVars,
                 unsubscribing, confirmed, unsubscribed, faultVars>>

\* The update by id, which throws if the row has been deleted meanwhile.
ConfirmWrite(s) ==
  /\ s \in confirming
  /\ confirming' = confirming \ {s}
  /\ \/ activate(s) /\ confirmed' = confirmed \cup {s}
     \/ ~Live(s) /\ UNCHANGED <<subVars, confirmed>>
  /\ UNCHANGED <<mailVars, reqVars, saga, clockVars, workVars,
                 unsubscribing, unsubscribed, faultVars>>

\* An unsubscribe token is only in the release mails, which are for ACTIVE rows.
UnsubscribeRead(s) ==
  /\ s \in confirmed
  /\ Live(s)
  /\ unsubscribing' = unsubscribing \cup {s}
  /\ UNCHANGED <<subVars, mailVars, reqVars, saga, clockVars, workVars,
                 confirming, confirmed, unsubscribed, faultVars>>

UnsubscribeWrite(s) ==
  /\ s \in unsubscribing
  /\ unsubscribing' = unsubscribing \ {s}
  /\ \/ delete(s) /\ unsubscribed' = unsubscribed \cup {s}
     \/ ~Live(s) /\ UNCHANGED <<subVars, unsubscribed>>
  /\ UNCHANGED <<mailVars, reqVars, saga, clockVars, workVars,
                 confirming, confirmed, faultVars>>

----------------------------------------------------------------------------------
\* The notification service, as far as it promises (ConfirmationMail), and the
\* death of the API server.

Notify(r) ==
  /\ \E k \in Key : k = sub[r] /\ (Mail(r, k) \/ ReplySent(r, k) \/ ReplyFailed(r))
  /\ UNCHANGED <<subVars, reqVars, saga, clockVars, workVars, linkVars, faultVars>>

\* The reply a handler has not acknowledged yet; RabbitMQ gives it out again.
Unacked(h) ==
  (todo[h] \cup ({job[h]} \ {None})) \X {IF At(h, "complete") THEN "SENT" ELSE "FAILED"}

Crash ==
  /\ Fault("crash")
  /\ phase' = [r \in Request |-> IF InFlight(r) THEN "failed" ELSE phase[r]]
  /\ replies' = replies \cup UNION {Unacked(h) : h \in Handler}
  /\ task' = [w \in Worker |-> "idle"]
  /\ job' = [w \in Worker |-> None]
  /\ todo' = [w \in Worker |-> {}]
  /\ confirming' = {}
  /\ unsubscribing' = {}
  /\ UNCHANGED <<subVars, published, mailed, want, sub, saga, clockVars,
                 confirmed, unsubscribed, undeleted>>

----------------------------------------------------------------------------------

\* What the process does on its own once a request or a reply is there.
RequestStep(r) ==
  \/ RefuseUnknown(r)
  \/ \E s \in SubId : Upsert(r, s)
  \/ CreateSaga(r)
  \/ PublishMail(r)
  \/ AwaitReply(r)

WorkerStep(w) ==
  \/ Complete(w)
  \/ \E r \in Request : Claim(w, r)
  \/ Remove(w)
  \/ Finish(w)

LinkStep(s) ==
  \/ ConfirmRead(s)
  \/ ConfirmWrite(s)
  \/ UnsubscribeRead(s)
  \/ UnsubscribeWrite(s)

FaultStep ==
  \/ \E r \in Request : RequestFails(r)
  \/ \E m \in Reply : ReceiveFails(m)
  \/ \E w \in Worker : RemoveFails(w) \/ Abort(w)
  \/ Crash

Next ==
  \/ \E r \in Request, p \in Pair : Check(r, p)
  \/ \E r \in Request : RequestStep(r) \/ Age(r) \/ Notify(r)
  \/ \E h \in Handler, m \in Reply : Receive(h, m)
  \/ \E w \in Sweeper : Sweep(w)
  \/ \E w \in Worker : WorkerStep(w)
  \/ \E s \in SubId : LinkStep(s)
  \/ FaultStep

SafeSpec == Init /\ [][Next]_vars

\* Promises of started calls settle, time passes, and the cron fires.  Nothing is
\* assumed of people, of the notification service, or of the reply consumer.
Fairness ==
  /\ \A r \in Request : WF_vars(RequestStep(r)) /\ WF_vars(Age(r))
  /\ \A w \in Sweeper : WF_vars(Sweep(w))
  /\ \A w \in Worker : WF_vars(WorkerStep(w))

Spec == SafeSpec /\ Fairness

----------------------------------------------------------------------------------
\* Properties.

\* Another saga shares the row of r: its subscribe request came before the row of
\* r was confirmed, and the upsert gave both the same row.
Shared(r) == \E q \in Request \ {r} : sub[q] = sub[r]

\* A saga that is COMPLETED stands for a confirmation mail that has been sent: no
\* order of replies, sweeps and faults completes a saga whose mail never left
\* (subscribe.saga.ts, onReply).
CompletedWasMailed == \A r \in Request : saga[r] = "COMPLETED" => sub[r] \in mailed

\* A saga that waits for the notification service, or was answered by it, has its
\* message in the queue: no order of start's steps and of faults leaves a saga
\* waiting for a mail nobody was asked to send (subscribe.saga.ts, start).
AwaitingWasPublished ==
  \A r \in Request : saga[r] \in {"AWAITING_EMAIL", "COMPLETED"} => r \in published

\* At most one worker removes the subscription of a saga, whatever replies and
\* overlapping sweeps come at once (the claim in compensate()).  A saga that timed out
\* before its start() was over may be set to AWAITING_EMAIL, and claimed, once more.
CompensationExclusive ==
  \A v, w \in Worker :
    /\ task[v] \in {"remove", "finish"}
    /\ task[w] \in {"remove", "finish"}
    /\ job[v] = job[w]
    /\ job[v] \notin overtaken
    => v = w

\* A compensated saga leaves no unconfirmed subscription behind, whatever else happened,
\* unless the row has been taken over by another subscribe request or the delete itself
\* threw, which removePendingSubscription swallows.
CompensationLeavesNoPending ==
  \A r \in Request :
    /\ saga[r] = "COMPENSATED"
    /\ status[sub[r]] = "PENDING"
    => Shared(r) \/ r \in undeleted

\* Once a person has confirmed, the subscription stays ACTIVE until they cancel
\* it: compensation, late replies and faults leave it alone.  Only a second
\* subscribe request for the same pair, racing the confirmation, can undo it: see
\* ActiveIsNotDemoted.
ConfirmedIsKept ==
  \A r \in Request :
    /\ sub[r] \in confirmed
    /\ ~Shared(r)
    => status[sub[r]] = "ACTIVE" \/ sub[r] \in unsubscribed

\* The confirmation link of a completed saga has a row to confirm: neither a late
\* FAILED reply nor the sweep takes away the subscription of a saga that completed,
\* unless it had timed out before its start() was over.
CompletedKeepsRow ==
  \A r \in Request \ overtaken :
    /\ saga[r] = "COMPLETED"
    /\ ~Shared(r)
    => Live(sub[r]) \/ sub[r] \in unsubscribed

\* An ACTIVE subscription goes away only because its owner cancelled it: the
\* compensating delete never removes it, whenever the confirmation arrives.
ActiveDeletedOnlyByOwner ==
  [][\A s \in SubId :
       status[s] = "ACTIVE" /\ status'[s] = "deleted" => s \in unsubscribed']_vars

\* The saga implements its state machine: the unconditional updateState of start()
\* and of compensate() never undo what another worker did to the saga.  A saga that timed
\* out before its start() was over is left out: it is shown as it was then.
Orderly == [r \in Request |-> IF r \in overtaken THEN "STARTED" ELSE saga[r]]
Lifecycle == INSTANCE SagaLifecycle WITH Saga <- Request, saga <- Orderly
FollowsLifecycle == Lifecycle!Spec

\* A fault took away the worker between its claim and its last write.
Forsaken(r) ==
  /\ saga[r] = "COMPENSATING"
  /\ faults > 0
  /\ \A w \in Worker : task[w] \in {"remove", "finish"} => job[w] # r

\* Every saga that was created ends, whatever the notification service does, whichever
\* await throws and whenever the process dies; the one exception are sagas left
\* COMPENSATING by a fault, which no sweep looks for: see DroppedReplyRecovers.
EverySagaSettles ==
  \A r \in Request : saga[r] # "none" ~> saga[r] \in Settled \/ Forsaken(r)

----------------------------------------------------------------------------------
\* What the code's own words claim and the code does not do.

\* subscription.flow.test.ts: a subscribe request for an active subscription gets
\* a 409 and changes nothing; so a subscribe request never demotes an ACTIVE row.
ActiveIsNotDemoted ==
  [][\A s \in SubId : status[s] = "ACTIVE" => status'[s] # "PENDING"]_vars

\* The test of onReply ignores a reply "if the saga is no longer in state
\* AWAITING_EMAIL"; so a SENT reply that no worker takes up came too late, never
\* before start() had written AWAITING_EMAIL.
OnlyLateRepliesAreIgnored ==
  [][\A r \in Request :
       /\ <<r, "SENT">> \in replies \ replies'
       /\ \A h \in Handler : job'[h] # r
       => saga[r] \in {"COMPLETED", "COMPENSATING", "COMPENSATED"}]_vars

\* rabbit-confirmation-reply.consumer.ts drops a reply it could not handle, which
\* "recovers on timeout sweep"; so the saga of a FAILED reply that is being handled
\* ends, also when its last update throws.
DroppedReplyRecovers ==
  \A h \in Handler, r \in Request :
    At(h, "finish") /\ job[h] = r ~> saga[r] \in Settled
==================================================================================
