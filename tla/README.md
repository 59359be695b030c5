# TLA+ models of git-release-notifier

The repository is a service that mails people when a GitHub repository has a new
release. An API server (`git-release-notifier-be`) takes subscriptions, a scan worker
looks for releases, and a notification service (`notification-service`) sends all mails.
They share PostgreSQL, Redis and RabbitMQ, and nothing else.

This directory holds TLA+ models of the parts in which the order of things matters, TLC
runs on small instances, and TLAPS proofs for instances of every size. `PROJECT.json`
lists the components, runs, theorems and known hazards, and names the source lines of
every definition.

## 1. Inventory

Paths are relative to `src/`; `be` is `git-release-notifier-be/src`, `ns` is
`notification-service/src`.

| Component | State | Operations | Hard | Correct if |
|---|---|---|---|---|
| Subscriptions (`be/modules/subscriptions`, `be/grpc`) | table `Subscription`: PENDING or ACTIVE, tokens, `lastSeenTag` | subscribe, confirm, unsubscribe, list | each operation is a check and a later write | a confirmed subscription stays until its owner cancels it |
| Subscribe saga (`be/modules/saga`) | table `SagaInstance`; queue `saga.confirmation.reply` | `start`, `onReply`, `compensateStuck`, the cron | replies, overlapping sweeps and requests come to one saga; a crash between any two steps | a saga ends; COMPLETED means mailed; COMPENSATED leaves nothing behind |
| E-mail consumer (`ns/consumer`, `ns/modules/sender`) | queues `email-send-queue`, `-retry-queue`, `email-dead-queue`; idempotency keys in Redis | `processMessage`, `handleRetry`, reconnection, shutdown | at-least-once delivery, leases, a channel that closes under a call | nothing is lost, nothing is sent twice without need, replies tell the truth |
| Release scan (`be/modules/scheduler`, `queue`, `be/workers/scanner`) | Redis locks of batches; queues `scan`, retry | cron, lock and send a batch, process, retry | lock TTL against queueing time, crash between lock and send | a release is noticed; a batch is not queued twice for long |
| Tag advance (`be/workers/delivered`) | `lastSeenTag`; queue of delivered releases | `advanceTag` | events out of order, lost or repeated | a release is mailed once and not forgotten |
| gRPC delivery (`ns/grpc`, `be/modules/sender/adapters/grpc-notifier.ts`) | the same idempotency keys | `SendReleaseNotification` | a deadline that passes while the server sends; queue and calls at once | as the e-mail consumer; `lastSeenTag` catches up |
| GitHub client (`be/modules/github`) | cache in Redis | `exists`, latest releases of a batch | stale answers | a release is seen once the cache expires |
| RabbitMQ connections (`*/lib/rabbit`) | one shared promise for each process | connect, reconnect, close | events of an old connection | one connection, and never one that is over |
| Consumers, publishers, start-up and shutdown (`be/app.ts`, `ns/index.ts`, `startWorker`) | channels, timers, `shuttingDown`, `inFlight` | subscribe, subscribe again, stop | a loss at every await of a subscription; a signal during one | one subscription, which comes back; a shutdown that ends and cuts off nothing |
| Metrics, logging, configuration, HTML, templates, API key, wiring, protobuf | none shared | - | - | not modelled: pure functions of a request, output, wiring, generated code |

How they interact. `subscribeToRepo` checks the table, asks GitHub and calls
`SubscribeSaga.start`, which upserts the row, creates the saga and queues a confirmation
message. The e-mail consumer sends the mail and queues `SENT`, or `FAILED` once the
retries are used up; `onReply` completes the saga or compensates it, which deletes the
row if it is still PENDING. The cron compensates sagas nobody answered. The link in the
mail leads to `confirmSubscription`, possibly at the same time as any of this. The scan
queues release messages on the same `email-send-queue` (or calls gRPC), and delivered
releases come back as events that advance `lastSeenTag`.

## 2. Modules

| Module | Models |
|---|---|
| `Subscriptions` | the table `Subscription`, one operator per SQL statement of `subscription.repository.ts` |
| `ConfirmationMail` | the contract between saga and notification service: what may be mailed and reported, and when |
| `SagaLifecycle` | the abstract state machine of a saga |
| `SubscribeSaga` | the API server: subscribe requests, sagas, reply handlers, sweeps, confirm and unsubscribe requests, crashes; extends the first two |
| `SubscribeSagaProofs` | theorems about `SubscribeSaga` |
| `EmailDelivery` | the e-mail consumer between RabbitMQ and Redis |
| `EmailDeliveryProofs` | theorems about `EmailDelivery` |
| `GrpcDelivery` | release mails over gRPC: the scanner as caller, the handler, `lastSeenTag`; extends `EmailDelivery`, with whose workers the handler shares process and keys |
| `GrpcDeliveryProofs` | theorems about `GrpcDelivery`; extends `EmailDeliveryProofs` |
| `ReleaseScan` | the API server's cron, the scanner and the consumer of delivered events |
| `ReleaseScanProofs` | theorems about `ReleaseScan` |
| `RabbitConnection` | the shared promise of a connection, and the connection's events |
| `RabbitClients` | consumers, publishers and shutdown of the three processes; extends `RabbitConnection` |
| `RabbitClientsProofs` | theorems about `RabbitClients` |
| `MCSubscribeSaga`, `MCEmailDelivery`, `MCGrpcDelivery`, `MCReleaseScan`, `MCRabbitClients` | instances for TLC |

Two refinements tie them together. `SubscribeSaga` implements `SagaLifecycle`
(`FollowsLifecycle`). `SubscribeSaga` knows the notification service
only by the actions of `ConfirmationMail`, and `EmailDelivery` implements that module
(`KeepsContract`), so that the two large models need not be checked as one. `ReleaseScan`
has an e-mail consumer in three actions (`Deliver`, `GiveUp`, `Expire`): what
`EmailDelivery` shows is that a queued message ends, and that a key is mailed once.
`GrpcDelivery` composes rather than abstracts: its next-state relation is that of
`EmailDelivery`, each action beside the calls, and the calls. What a lost channel does to
messages is in `EmailDelivery` and `ReleaseScan` (`ChannelCloses`); what it does to those
who held it is in `RabbitClients`.

### SubscribeSaga

A subscribe request `r` names the saga it creates. `phase[r]` says which await of
`subscribeToRepo` and `start` it has passed; every action is the code between two awaits:

| Action | Code |
|---|---|
| `Check`, `RefuseUnknown` | `subscription.service.ts`: `checkIfActiveExists`, GitHub's answer |
| `Upsert`, `CreateSaga`, `PublishMail`, `AwaitReply` | the four awaits of `start` |
| `Receive`, `Complete` | `onReply`: read the saga, then the guarded transition |
| `Sweep`, `Claim`, `Remove`, `Finish` | `compensateStuck` and `compensate`, one saga after the other |
| `ConfirmRead`, `ConfirmWrite`, `UnsubscribeRead`, `UnsubscribeWrite` | the two links: read by token, write by id |
| `Age` | the clock: `updatedAt` gets older than `CONFIRMATION_TIMEOUT_MS`; `stale` is the set of such sagas |
| `RequestFails`, `ReceiveFails`, `RemoveFails`, `Abort` | a call that throws at that await, before or after its query took effect, and who catches it |
| `Notify` | any step the notification service may take by the contract |
| `Crash` | the process dies; RabbitMQ gives unacknowledged replies out again |

A worker is a reply handler (as many as the prefetch lets through) or a sweep (the cron
does not wait for the last one). `task`, `job` and `todo` are its local variables. The id
of a row stands for its tokens, which are drawn with it and never change; the idempotency
key of a confirmation is made of them, so `Key = SubId`. Replies are a set, and a reply
taken may be put there again, which gives duplicates and any order.

`confirmed` and `unsubscribed` are history variables; so are `published`, `mailed` and
`undeleted`, the sagas whose compensating delete threw. `removePendingSubscription` swallows
that error, so their rows may stay PENDING; `CompensationLeavesNoPending` excepts these, and
rows two requests share, and no others.

Bounded: `MaxFaults` faults of the kinds in `FaultPoint`; one subscribe request per
member of `Request`; row ids from `SubId`. `SlowStart` says whether a saga may time out
before its `start` is over. With 120 s that is unlikely, but nothing in the code excludes
it: the sweep compensates the saga, and `start` then sets it to AWAITING_EMAIL, whatever
its state, so that it is compensated again. The history variable `overtaken` has these
sagas. `CompensationExclusive`, `CompletedKeepsRow` and `FollowsLifecycle` leave them out;
the other properties do not.

`EverySagaSettles` has one exception, `Forsaken`: a worker that dies, or whose query throws,
between the claim and the write of COMPENSATED leaves the saga COMPENSATING, and no sweep
looks for that state. This includes a claim that has committed when the query throws
(`WriteOf` in `Abort`). It is the finding `saga_dropped_reply`.

### EmailDelivery

A copy of a message is in one of the three queues, given out to a worker, or free. A
worker is one call of `processMessage`; with `prefetch(1)` there is one for each channel,
but a call goes on when its channel has closed and another has been opened, and there may
be several instances of the service. `pc[a]` is the await it is at; `cur[a]` is the copy
it has to settle, or `None` once its channel is gone.

| Action | Code |
|---|---|
| `Take` | `parseMessage`, `deadLetterInvalid` |
| `Claim`, `Look`, `ClaimFails` | `RedisIdempotencyStore.claim`: SET NX, then GET |
| `Send`, `SendFails` | `deliver`; with fault `smtp` the server has accepted the mail and the call fails |
| `ReleaseKey`, `ReleaseFails` | the catch block: `release`, `handleRetry` |
| `ConfirmKey`, `ConfirmFails` | `confirm`, whose error is only logged |
| `Report`, `ReportFails` | `confirmDelivery` (SENT twice, or one delivered event), then ack, or `handleRetry` |
| `Fail`, `FailFails` | `publishSagaFailure` |
| `Redeliver`, `Lapse`, `Expire` | the TTLs of retry queue, lease and done key |
| `ChannelCloses`, `Crash` | the broker gives out again what was not settled |

`handleRetry` publishes a new copy and then settles the old one without learning whether
the broker has received either; `handleRetryBreaks` has the connection break at that
point: the old copy is given out again, with or without the new one. Release and
confirmation messages never share a key (`email-message.ts`); messages of one type do,
when two sagas share a row or a scan runs twice.

Bounded: `Copy`, so the fault that makes a copy is only possible while one is free;
`MaxFaults`. The done key expires only when no copy with this key is around: it lives
for a day, a message for seconds. `SlowDelivery` says whether a delivery may outlast its
lease of 60 s: the code sets no SMTP timeouts, so it may. The history variable `overrun`
has the keys to which this has happened, until they expire. From then on two workers may
send for the key, and `OneMailPerFault` and `SendingExclusive` speak of the other keys.
What remains true of all keys, `NothingVanishes`, `FailedIsFinal` and `KeepsContract`, does
not mention it.

### GrpcDelivery

A call `x` is at two places: `caller[x]` is the await of `GrpcNotifier`, `serve[x]` that of
`handleSendReleaseNotification`. They part when the deadline passes or either side dies.

| Action | Code |
|---|---|
| `callServer` | a scan that finds the subscriber outdated calls, once for each member of `Call` at a time |
| `CallClaim`, `CallLook`, `CallClaimFails` | `claim`: go on, DUPLICATE, ABORTED, UNAVAILABLE |
| `CallSend`, `CallRelease`, `CallConfirm` | the mail; INTERNAL after a failure; SENT, even if `confirm` throws |
| `DeadlinePasses` | 30 s, anytime while the server sends, elsewhere as a fault; the handler goes on |
| `sendReleaseNotification` | `advanceTag` after SENT or DUPLICATE |
| `handleMessage` | the delivered event of a message that was still queued, which may move the tag back |
| `ScannerCrash`, `ServiceCrash` | one side dies; the second with the queue's workers |
| `LeaseLapses`, `KeyExpires` | those of `EmailDelivery`, for the calls as well: `callOverrun` has the keys whose lease a call has outlasted |

The queue holds release messages beside the calls when `RELEASE_TRANSPORT` has been
changed (`factories.ts`). One subscriber is modelled: keys are made of e-mail, repository
and tag, so two subscribers have no key in common. `latest` changes `MaxTags` times.

### RabbitClients

A behaviour is that of one of the three processes (`process`), which share no connection,
with all its clients. A client is a consumer, a publisher's cached channel, or the timer by
which the API server and the scanner get a lost connection back. `step[h]` is the await a
client is at, `link[h]` the connection it waits for or has its channel on.

| Action | Code |
|---|---|
| `GetConnection` | start, a timer that fires, or a publication without a channel: `getRabbitConnection` |
| `Connected`, `RejectConnect` | `amqp.connect` settles, for all who wait for it |
| `Opened` | channel, queues and prefetch; then the handlers are on, and `consume` is called |
| `Subscribed` | the answer to `consume`, which only the e-mail consumer awaits |
| `Break` | 'error' and 'close', or 'close' alone: heartbeat, socket, broker |
| `ProtocolError`, `Close` | 'error' at once, 'close' when the broker has answered |
| `ChannelDies` | a channel alone |
| `Signal`, then `Cancelled`, `Drain`, `CloseChannel`, `tryShutdown`, `closeRabbitConnection`, `closeRedis`, `closeMetrics` | the shutdown of `index.ts`; that of `app.ts` only closes the connection |
| `Receive`, `Settle` | messages, which the drain waits for until its deadline |
| `CallArrives`, `CallEnds`, `DeadlinePasses` | calls over gRPC, which `tryShutdown` waits for while they are open |
| `HandlerEnds` | a handler whose call is over by its caller's deadline (`voided`), which nothing waits for |

A call and its handler part at the deadline of 30 s (`grpc-notifier.ts:51`): `tryShutdown`
counts open streams, and the handler, which `notification.grpc-server.ts:102` does not await,
may still be sending when the process exits. `NoWorkCutOff` says that only such handlers, and
messages past the drain deadline, are cut off. What becomes of the key and the mail then is
in `GrpcDelivery` (`ServiceCrash`). A `redis.quit` that rejects ends the process at once.

`Suffer` is what all losses have in common: `Rescheduled` sets the timers (for the e-mail
consumer in two calls of `scheduleReconnect` where a `consume` fails, the 'close' handler's
and the catch's; the second finds the timer of the first), and two rejections end the
process, after which Docker starts it again (`restart: on-failure`): that of `startWorker`, and that of a `consume` nobody awaits, since Node ends a process with
an unhandled rejection. The reply consumer of the API server has no 'close' handler and does not
subscribe again.

amqplib is external: 'error' and 'close' are emitted in one go, except that an error the
client detects is emitted before the closing handshake; pending calls and unconfirmed
publications are rejected when a channel is gone.

### ReleaseScan

A cron run `p` cuts the repositories with active subscriptions into batches (`plan[p]`),
and for each takes a lock (`grip[p]` is its token) and sends a scan message. A message
`c` carries its batch and that token (`job[c]`). A worker, one call of `processMessage`,
takes the message, asks GitHub, and works through `todo[w]`: repositories to look up, then
subscribers to notify, in any order, as at most `REPO_CONCURRENCY` loops run at once.
`todo[None]` holds what the loops of a call that has failed go on with. `unsent[p]` is the
payload of a send that returned `false`, until its lock is released.

| Action | Code |
|---|---|
| `generateJobs` | `SchedulerService`, at every tick, whether the last run is over or not |
| `acquireForBatch`, `acquireFails` | the awaited SET NX of `publishBatch` |
| `send`, `sendIsLost` | `session.send`, unconfirmed; one that throws ends the run |
| `sendFillsBuffer`, `unlockUnsent` | it returns `false`; then the awaited `unlock`, which may throw |
| `Lapse` | the TTL of a lock, which may pass at any time |
| `Take`, `Fetch`, `FetchFails` | `processMessage`, `getLatestReleasesBatch`: an answer, part of one, an error |
| `processRepo`, `processRepoFails` | `getOutdatedSubscribers`; `Promise.all` rejects at the first error |
| `sendReleaseNotification` | `QueueNotifier`; `Promise.allSettled` collects its errors |
| `Finish`, `Unlock` | the ack, and the release of the lock behind it |
| `handleRetry`, `handleRetryBreaks` | confirmed copy for the retry queue, then nack; or discard, then unlock |
| `handleMessage`, `handleMessageFails` | `delivered.consumer.ts`: `advanceTag`, or the event is dropped |
| `Subscribe`, `Confirm`, `Unsubscribe`, `Release` | what changes outside of the scan |

`loose` is a history variable: the messages whose lock has lapsed, or was given up because
the broker lost what the scanner told it or the producer took it for not sent. `mailed` and `repeated` are, too. The write
buffer: amqplib's `sendToQueue` returns `false` for a full buffer and has written the
message all the same, so the batch is queued and its lock released, contrary to the log
line `queue.notifier.ts:46`.

Bounded: `Token` and `Copy`, the tokens and messages in use at once (a token nobody has is
as good as a new UUID); `MaxQueued`, above which equal messages are not counted;
`MaxFaults` (an `unlock` that throws behind a full buffer is not counted again);
`MaxChanges` of the kinds in `Change`. A day passes (`Expire`) only when the
scan has caught up: the cron ticks 1440 times in it.

## 3. Runs

| Run | Instance | Shows |
|---|---|---|
| `saga_safety` | 2 requests, 1 pair, 2 rows, 1 handler, 2 sweeps, 1 fault of any kind | saga, row and mail agree; one compensator; completed sagas keep their row |
| `saga_liveness` | 1 request, 1 handler, 2 sweeps, 3 faults of any kind, `SlowStart` | every saga ends, but for `Forsaken` ones; the state machine |
| `saga_demoted` | 2 requests, no fault | violation: see below |
| `saga_early_reply` | 1 request, no fault | violation |
| `saga_dropped_reply` | 1 request, 1 fault | violation |
| `email_safety` | 2 confirmations with one key, 1 invalid message, 3 copies, 2 workers, 2 faults, `SlowDelivery` | nothing vanishes; FAILED is final; one sender for a key and one mail per fault, but for overrun leases; the contract is kept |
| `grpc_delivery` | 1 queued release, 1 worker, 2 calls, 2 releases, 1 fault (all but those of channels and reports, which `email_safety` has) | one sender for a key over both transports, one mail per fault; every message ends; `lastSeenTag` tells the truth and catches up |
| `email_given_up` | 1 message, 1 crash, the code's 3 retries | violation |
| `scan_safety` | 2 repositories in batches of 2, 2 subscribers, 2 tags, 2 tokens, 1 fault, 2 changes | a batch keeps its lock; `lastSeenTag` tells the truth |
| `scan_liveness` | 1 subscriber, 2 tags, 1 fault, 2 changes | every job ends; every subscriber learns |
| `scan_repeated` | 1 subscriber, 2 tags, no fault | violation |
| `rabbit_clients` | each of the three processes, 2 faults of any kind | one connection, never a stale one; one subscription, which comes back; the shutdown ends and cuts off no work |

Why the bounds suffice. Everything the saga does to a row is done by id, so interference
needs two requests on one row, or a row and its successor after a deletion: two requests
and two rows. Interference between workers is pairwise: a handler and two sweeps hold
every pair. One fault puts every single partial failure at every place; two would only
combine them. Whether a saga ends depends on its own state and on the workers, not on rows or
other sagas, but for a sweep that an earlier saga of its list aborts, after which the next
sweep finds the rest: so `saga_liveness` has one request, and room for a slow `start`, two
sweeps and three faults, one after the other. For the e-mail consumer the idempotency key is the only thing messages
share, so two messages with one key and two workers show every conflict. Three copies
are both of them and the one a lost settlement makes, or both and the message that does not
parse. For the scan, two repositories are in one batch or in two as subscriptions come and go, two tokens let a
lock lapse and be taken again while the old message is under way, and two tags let their
events overtake each other. Two calls are one that has been given up and one that follows
it, with the worker of a queued message as a third sender for the key (two workers are in
`email_safety`); two releases let an answer about the old one come after the new one is
out. `SlowDelivery` is `FALSE` in `grpc_delivery`, for its size: with the proofs, which do
not assume it, nothing rests on that but the two liveness properties. `RabbitClients` has room
for the four connections two faults can bring about (a fifth changes nothing), and for two
instances of each client, so that a second subscription would show. It tells two reconnect
timers apart; a third changes nothing, as all of them call the same function.

`SlowStart` is `TRUE` in `saga_liveness` and `FALSE` in `saga_safety`, for its size; the proofs
do not assume it, so nothing rests on that.

Symmetry (permutations of requests, rows and sweeps; of copies and workers) is used in the runs
that check no liveness property. Deadlock is not checked: all requests may have been
answered, or all messages have ended, and then the system rightly stops.

### Fairness

`SubscribeSaga`: the steps of a request or a worker that has begun (promises settle:
the event loop and the database clients guarantee it), the clock, and the cron. Nothing
is assumed of people, of the notification service or of the reply consumer; in fact the
consumer is not restarted when its channel closes, and the sweep alone has to end the
sagas.

`EmailDelivery`: calls settle, the broker gives out what is queued while a consumer is
idle, and the TTL of the retry queue passes. Redis need not forget anything.

`GrpcDelivery`: moreover a scan every minute calls for an outdated subscriber, its deadline
and the handler's calls settle, leases end, and events come. That the SMTP server accepts
what it is asked often enough is a premise of `TagCatchesUp` (`Accepts`).

`RabbitClients`: timers fire, pending calls settle, the broker can be reached but for the
faults, and there is always something to publish. Nothing is assumed of the processing of
a message (an SMTP call may hang): the drain has its deadline. Nothing is assumed of a gRPC
handler either: `CallEnds \/ DeadlinePasses` says that the call ends by its caller's deadline
at the latest. That takes up to 30 s, and Docker would kill the process after 15 s.

`ReleaseScan`: the cron ticks, calls settle, TTLs pass, and the broker gives out messages
in their order, hence strong fairness for `Take`: a batch that is queued every minute does
not starve another. Strong fairness of `CronStep` concerns the bounds: a copy or a token
that is free now and then is enough. That GitHub answers is not assumed of the system: it
is a premise of `EverySubscriberLearns` (`Answers`), and `EveryJobEnds` does without.

### What the code's own words claim and the code does not do

1. `saga_demoted`. An active subscription answers 409 (`subscription.flow.test.ts:156`),
   but the check and `upsertPending` are separate awaits. A confirmation between them is
   undone: the row is PENDING again, and a sweep may delete it.
2. `saga_early_reply`. `onReply` ignores replies of sagas "no longer" in AWAITING_EMAIL
   (`subscribe.saga.test.ts:229`), and also of sagas not yet in that state: a fast SENT is
   lost, and the saga is compensated although the mail is out.
3. `saga_dropped_reply`. A reply that could not be handled "recovers on timeout sweep"
   (`rabbit-confirmation-reply.consumer.ts:47`), but the sweep skips COMPENSATING.
4. `email_given_up`. Notifications "must not be lost" in an outage (`system-design.md:38`).
   After a crash behind the claim, a message finds its own lease, retries three times
   within 15 s of the 60 s, and is dead-lettered without a try, and without FAILED.
5. `scan_repeated`. No "repeated notifications for an already known release"
   (`system-design.md:33`), but any tag other than `lastSeenTag` counts as new. When a
   release is withdrawn on GitHub, the one before it is mailed again, unless its key, which
   lives for a day, is still there.

## 4. Proofs

Five modules prove what TLC checks on small instances for instances of every size: all
sets of requests, messages, keys, workers, calls, tags and connections, all sets of fault
points, any number of faults. The assumptions on the constants are named in the modules
that declare them (`SubscriptionsAssumption`, `SagaAssumption`, `EmailAssumption`,
`GrpcAssumption`, `ScanAssumption`, `ConnectionAssumption`, `WorkAssumption`). They are
types, the distinctness of names and of keys (a release message has no key of a
confirmation, `email-message.ts`), and, for the scan, that `SCAN_BATCH_SIZE` is positive
and the repositories are numbers, finitely many.

All five are laid out alike. A property speaks of what is stored, queued or mailed, and not
of the local variables of those about to write it, so it is not inductive. The module begins
with the invariant that is, in named parts; each part has a lemma that says it is
preserved, given itself and those before it, with one step for each action; the theorems
follow. TLC has checked the parts as invariants, too.

### SubscribeSagaProofs

| Theorem | Property |
|---|---|
| `TypeCorrect` | `TypeOK` |
| `CompletedIsMailed` | `CompletedWasMailed` |
| `AwaitingIsPublished` | `AwaitingWasPublished` |
| `ConfirmedStays` | `ConfirmedIsKept` |
| `OnlyOwnerDeletesActive` | `ActiveDeletedOnlyByOwner` |
| `CompensationCleansUp` | `CompensationLeavesNoPending` |
| `OneCompensatorPerSaga` | `CompensationExclusive` |
| `CompletedRowStays` | `CompletedKeepsRow` |
| `ImplementsLifecycle` | `FollowsLifecycle` |

`PhaseInv`: how far a request has come determines what its saga may be. `WorkerInv`: the
sagas a worker holds have been created, and a completing handler has no sweep to go
through. `RowInv`: a row a saga holds is in use, every row in use belongs to some request,
and rows whose links are followed are in use. `MailInv`: SENT in the queue or in a handler's
hand is for a key that was mailed, a published message for a request that got that far.
`ClaimInv`: a saga is found stale only when its request is over or the saga has been
overtaken; but for those, a worker at "remove" or "finish" holds a COMPENSATING saga whose
request is over, one worker to a saga. `KeptInv` and `RemovedInv` carry the row through
compensation: past the delete it is no longer PENDING, unless it is shared or the delete threw. For `FollowsLifecycle`, a saga is shown as it is until it is overtaken, and
then as it was: lemma `OrderlyWrite` says what a write shows.

### EmailDeliveryProofs

| Theorem | Property |
|---|---|
| `TypeCorrect` | `TypeOK`, and `WorkInv` |
| `NothingIsLost` | `NothingVanishes` |
| `FailedStaysFailed` | `FailedIsFinal` |
| `OneSender` | `SendingExclusive` |
| `OneMailAndOneMorePerFault` | `OneMailPerFault` |
| `ImplementsContract` | `KeepsContract` |

`WorkInv`, `CopyInv`: a worker's message and the copy it has to settle belong together, and
a copy has one worker; without this a settlement might take another's message away.
`KnownInv`: whatever is queued, worked on or reported was published. `DoneInv`: a key that is
done, and one whose worker is past `deliver`, was mailed; `claim`'s answer "done" may then be
reported as SENT, and each step is one of the contract or a stutter (`ImplementsContract`).
`OnlyCopyInv`: while no connection has broken, a message has one copy and its worker has
it, so FAILED, which comes when that copy is dead, is final. `LeaseInv`: for a key no
delivery has overrun, who sends has the lease, alone (`Leased`), and a key that may be
claimed again has cost no mail that a fault does not account for (`Counted`): one that is
neither done nor about to be was mailed once per fault at most, and the next mail is the one
allowed beyond. `OneMailPerFault` alone would not say which keys have a mail to spare.

### GrpcDeliveryProofs

| Theorem | Property |
|---|---|
| `CallTypeCorrect` | `CallTypeOK`, and `AboutInv` |
| `TagTellsTruth` | `TagWasMailed` |
| `NothingIsLostBesideCalls` | `NothingVanishes` |
| `OneSenderOverBoth` | `OneSenderPerKey` |
| `MailedOnceOverBoth` | `OneMailOverBoth` |

A step of `GrpcDelivery` is one of the consumer beside the calls or leaves the consumer's
queues and workers alone (lemma `Steps`), so `Inv` of `EmailDeliveryProofs` is kept by its
lemmas and by the calls' doing nothing to it but mail keys and store what is mailed.
`AboutInv`, `AnswerInv`: a call that is answered with success, or will be, is about a tag
that was mailed. `AllLeaseInv` is `LeaseInv` over both transports. That the consumer takes
nothing from a call is lemma `HeldElsewhere`: while a call has the lease of a key, every step
of the consumer but the lapse of that lease (`Spares`) neither sends for it nor frees it.

### ReleaseScanProofs

| Theorem | Property |
|---|---|
| `TypeCorrect` | `TypeOK` |
| `LockIsHeld` | `LockOutlivesJob` |
| `SeenIsMailed` | `SeenWasMailed` |

`LockOutlivesJob` needs to know whose tokens are whose: that of a lock just taken is nobody
else's (`GripInv`), two messages have one token only if the broker has lost a settlement, and
a worker about to release a lock is the last to need it, as is the producer, but for the
message it takes for not sent (`OwnerInv`). Then the comparison in
`UNLOCK_IF_OWNER` protects every other lock. `SeenWasMailed` needs that delivered events are
about mails (`EventInv`), which with `done`, `mails` and rows that come and go is kept by each
of the consumers. `TypeOK` includes that `chunk` makes no empty batch (`ChunkBatches`).

### RabbitClientsProofs

| Theorem | Property |
|---|---|
| `TypeCorrect` | `TypeOK` |
| `PromiseIsFresh` | `NoStalePromise` |
| `ConnectionIsShared` | `OneConnection` |
| `SubscribedOnce` | `OneSubscription` |
| `WorkIsFinished` | `NoWorkCutOff` |

`PromiseInv`: what ends a connection clears the promise first. `ForsakenInv` counts: a
connection nobody is given any more is owed to a protocol error, so there are as many at
most as there were errors. `ClientInv`: a client has one instance, but for the timers that
get a lost connection back, and a timer never has a channel; so `Rescheduled`, which
may set several timers, cannot make a second subscription. `CancelInv`, `WorkInv`: once the
shutdown has cancelled the e-mail consumer, only a subscription that was under way can
bring it work, and no call is open when the connection is closed.

### What is only model-checked

Liveness: `EverySagaSettles`, `EveryMessageEnds`, `TagCatchesUp`, `EveryJobEnds`,
`EverySubscriberLearns`, `EveryClientReturns`, `ShutdownEnds`. Fairness is out of the
prover's reach. The five violations are counterexamples, and need no proof.

The proofs are about models whose bounds are constants, `MaxFaults` for one, so that they
cover every bound; but not about what a bound excludes altogether: the day that passes only
when the messages are through, the equal messages above `MaxQueued` that are not counted
(for every `MaxQueued`), and that `FaultPoint` names all that can fail.

## 5. Not modelled

- `SIGKILL` during a shutdown, 15 s after the signal: the outcome is that of `Crash`.
- A crash between the upsert and the creation of a saga leaves a PENDING row no saga
  removes, until the person subscribes again or confirms; `SubscribeSaga` has the step,
  no property forbids it. The cached answer whether a repository exists may be ten minutes
  old; `SubscribeSaga` takes any answer.
- Requests over gRPC that `validateRequest` refuses: the scanner sends none.
- Events between the settling of an amqplib call and the continuation of its await: a
  handler attached there might miss one. The model attaches it with the continuation.
- Reply messages that do not parse: they are acknowledged and change nothing.
- Confirmation tokens guessed by strangers; listings, which only read.
- Scan messages that do not parse: the producer writes none. Repositories renamed on
  GitHub: its answer then has another name, and the scan finds nothing for them.
- The components marked `not_modelled` in `PROJECT.json`, for the reasons given there.

## 6. Plan

1. *Done:* `Subscriptions`, `ConfirmationMail`, `SagaLifecycle`, `SubscribeSaga`;
   `EmailDelivery`; `ReleaseScan`; `GrpcDelivery`, as an extension of `EmailDelivery`;
   `RabbitConnection` and `RabbitClients`.
2. *Done:* proofs of every invariant and action property the runs check.
3. Not taken up: an abstract specification of the batch lock with `ReleaseScan` shown to
   implement it; `LockOutlivesJob` and its proof say what it would.
