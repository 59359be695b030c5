------------------------------- MODULE ReleaseScan -------------------------------
(* The scan for new releases: every minute the API server's cron queues batches of *)
(* repositories, one lock in Redis for each batch (modules/scheduler,             *)
(* modules/queue); the scanner asks GitHub for their latest releases and queues a *)
(* release message for every subscriber who has seen another tag                  *)
(* (workers/scanner); the delivered events of the notification service advance    *)
(* lastSeenTag (workers/delivered).                                               *)
EXTENDS Naturals, FiniteSets

CONSTANTS
  Repo,             \* the repositories: numbers, for their order
  Sub,              \* the (email, repository) pairs that may be subscribed
  RepoOf,           \* RepoOf[s]: the repository of s
  Tag,              \* the tags of releases
  Token,            \* bound: the lock tokens in use at once
  Copy,             \* bound: the scan messages there may be at once
  Cron,             \* runs of generateJobs at once: a tick does not wait for the last
  Worker,           \* calls of processMessage at once
  SCAN_BATCH_SIZE,
  MAX_RETRIES,
  MaxQueued,        \* bound: equal messages, or events, counted apart
  FaultPoint,       \* where a fault may strike, see FaultPoints
  MaxFaults,        \* bound: how many faults strike in a behaviour
  Change,           \* what may change outside of the scan, see Changes
  MaxChanges,       \* bound: how often it does
  None              \* stands for an absent value

\* The scanner dies; the API server dies; a channel closes; Redis fails; a scan message
\* is lost on its way; the write buffer is full; GitHub answers in part; a query fails;
\* a release message is not confirmed; the broker loses what is on its way when a scan
\* message is settled; a mail is given up; a delivered event fails.
FaultPoints ==
  {"crash", "cron", "channel", "redis", "lost", "full", "partial", "query",
   "publish", "settle", "mail", "event"}

\* The subscription of a row starts or ends; GitHub's latest release is another one; a
\* day goes by, and an idempotency key with it.
Changes == {"subscribe", "unsubscribe", "release", "day"}

Batch == (SUBSET Repo) \ {{}}
Job == [batch : Batch, token : Token]

ASSUME ScanAssumption ==
  /\ Repo \subseteq Nat /\ IsFiniteSet(Repo)
  /\ Sub \cap Repo = {}
  /\ RepoOf \in [Sub -> Repo]
  /\ SCAN_BATCH_SIZE \in Nat \ {0}
  /\ MAX_RETRIES \in Nat
  /\ MaxQueued \in Nat \ {0}
  /\ FaultPoint \subseteq FaultPoints /\ MaxFaults \in Nat
  /\ Change \subseteq Changes /\ MaxChanges \in Nat
  /\ None \notin Tag \cup Token \cup Copy \cup Worker \cup Job

VARIABLES
  status,    \* status[s]: of the row of s
  lastSeen,  \* lastSeen[s]: its lastSeenTag
  latest,    \* latest[r]: the tag of GitHub's latest release of r
  lock,      \* lock[b]: the token under the lock key of the batch b
  plan,      \* plan[p]: the batches the cron run p has still to lock and to send
  grip,      \* grip[p]: the token of the lock it has just taken for the next of them
  unsent,    \* unsent[p]: the payload it takes for not sent, and whose lock it releases
  place,     \* place[c]: the queue the scan message c is in
  job,       \* job[c]: its payload, a batch and the token of its lock
  tries,     \* tries[c]: its header x-retry-count
  loose,     \* history: the messages whose lock has lapsed or was given up too early
  pc,        \* pc[w]: the await the worker w is at
  cur,       \* cur[w]: the message w has to settle, None once its channel is gone
  mine,      \* mine[w]: the payload w works on
  todo,      \* todo[w]: its repositories to look up and subscribers to notify, each with
             \* a tag; todo[None]: what calls that have failed go on doing all the same
  mails,     \* mails[k]: the release messages with the key k not yet dealt with
  events,    \* events[k]: the delivered events of k not yet dealt with
  done,      \* the keys that are done in the idempotency store
  mailed,    \* history: the keys that have been mailed
  repeated,  \* history: those that have been mailed again
  faults,    \* the faults so far
  changes    \* the changes so far

rowVars == <<status, lastSeen>>
cronVars == <<plan, grip, unsent>>
copyVars == <<place, job, tries, loose>>
workVars == <<pc, cur, mine, todo>>
mailVars == <<mails, events, done, mailed, repeated>>
vars == <<rowVars, latest, lock, cronVars, copyVars, workVars, mailVars, faults, changes>>

Key == Sub \X Tag  \* the idempotency keys: email, repository and tag

TypeOK ==
  /\ status \in [Sub -> {"none", "PENDING", "ACTIVE"}]
  /\ lastSeen \in [Sub -> Tag \cup {None}]
  /\ latest \in [Repo -> Tag \cup {None}]
  /\ lock \in [Batch -> Token \cup {None}]
  /\ plan \in [Cron -> SUBSET Batch]
  /\ grip \in [Cron -> Token \cup {None}]
  /\ unsent \in [Cron -> Job \cup {None}]
  /\ place \in [Copy -> {"queue", "retry", "held", "free"}]
  /\ job \in [Copy -> Job \cup {None}]
  /\ tries \in [Copy -> 0 .. MAX_RETRIES]
  /\ loose \subseteq Copy
  /\ pc \in [Worker -> {"idle", "fetch", "scan", "unlock"}]
  /\ cur \in [Worker -> Copy \cup {None}]
  /\ mine \in [Worker -> Job \cup {None}]
  /\ todo \in [Worker \cup {None} -> SUBSET ((Repo \cup Sub) \X Tag)]
  /\ mails \in [Key -> 0 .. MaxQueued]
  /\ events \in [Key -> 0 .. MaxQueued]
  /\ done \subseteq Key
  /\ mailed \subseteq Key
  /\ repeated \subseteq mailed
  /\ faults \in Nat
  /\ changes \in Nat

\* A new database, in which those subscribed have confirmed.
Init ==
  /\ status \in [Sub -> {"none", "ACTIVE"}]
  /\ lastSeen = [s \in Sub |-> None]
  /\ latest = [r \in Repo |-> None]
  /\ lock = [b \in Batch |-> None]
  /\ plan = [p \in Cron |-> {}]
  /\ grip = [p \in Cron |-> None]
  /\ unsent = [p \in Cron |-> None]
  /\ place = [c \in Copy |-> "free"]
  /\ job = [c \in Copy |-> None]
  /\ tries = [c \in Copy |-> 0]
  /\ loose = {}
  /\ pc = [w \in Worker |-> "idle"]
  /\ cur = [w \in Worker |-> None]
  /\ mine = [w \in Worker |-> None]
  /\ todo = [w \in Worker \cup {None} |-> {}]
  /\ mails = [k \in Key |-> 0]
  /\ events = [k \in Key |-> 0]
  /\ done = {}
  /\ mailed = {}
  /\ repeated = {}
  /\ faults = 0
  /\ changes = 0

Fault(point) ==
  /\ point \in FaultPoint
  /\ faults < MaxFaults
  /\ faults' = faults + 1

Changed(what) ==
  /\ what \in Change
  /\ changes < MaxChanges
  /\ changes' = changes + 1

----------------------------------------------------------------------------------
\* Outside of the scan.

\* upsertPending and, after the confirmation, activate.
Subscribe(s) ==
  /\ status[s] # "PENDING"
  /\ Changed("subscribe")
  /\ status' = [status EXCEPT ![s] = "PENDING"]
  /\ UNCHANGED <<lastSeen, latest, lock, cronVars, copyVars, workVars, mailVars, faults>>

Confirm(s) ==
  /\ status[s] = "PENDING"
  /\ status' = [status EXCEPT ![s] = "ACTIVE"]
  /\ UNCHANGED <<lastSeen, latest, lock, cronVars, copyVars, workVars, mailVars, faults, changes>>

\* delete: a row inserted later has seen no tag.
Unsubscribe(s) ==
  /\ status[s] # "none"
  /\ Changed("unsubscribe")
  /\ status' = [status EXCEPT ![s] = "none"]
  /\ lastSeen' = [lastSeen EXCEPT ![s] = None]
  /\ UNCHANGED <<latest, lock, cronVars, copyVars, workVars, mailVars, faults>>

\* A release is published, or the latest one is withdrawn and an older one takes its place.
Release(r, t) ==
  /\ latest[r] # t
  /\ Changed("release")
  /\ latest' = [latest EXCEPT ![r] = t]
  /\ UNCHANGED <<rowVars, lock, cronVars, copyVars, workVars, mailVars, faults>>

----------------------------------------------------------------------------------
\* SchedulerService.generateJobs and ScanJobProducer.

groupByRepository == {RepoOf[s] : s \in {u \in Sub : status[u] = "ACTIVE"}}

\* The repositories of R in their order, cut every SCAN_BATCH_SIZE.
chunk(R) ==
  LET number(r) == Cardinality({q \in R : q < r}) \div SCAN_BATCH_SIZE
  IN {{q \in R : number(q) = number(r)} : r \in R}

IsFirst(b, B) == b \in B /\ \A d \in B : \E r \in b : \A q \in d : r <= q

generateJobs(p) ==
  /\ plan[p] = {} /\ unsent[p] = None
  /\ groupByRepository # {}
  /\ plan' = [plan EXCEPT ![p] = chunk(groupByRepository)]
  /\ UNCHANGED <<rowVars, latest, lock, grip, unsent, copyVars, workVars, mailVars, faults, changes>>

\* randomUUID: a token that no lock, message or call has.
Fresh(t) ==
  /\ \A b \in Batch : lock[b] # t
  /\ \A p \in Cron : grip[p] # t /\ (unsent[p] # None => unsent[p].token # t)
  /\ \A c \in Copy : job[c] # None => job[c].token # t
  /\ \A w \in Worker : mine[w] # None => mine[w].token # t

\* SET lockKey token EX ttl NX.
acquire(b, t) ==
  /\ lock[b] = None
  /\ Fresh(t)
  /\ lock' = [lock EXCEPT ![b] = t]

Due(p, b) == grip[p] = None /\ unsent[p] = None /\ IsFirst(b, plan[p])

\* publishBatch: take the lock, or go on to the next batch.
acquireForBatch(p) ==
  \E b \in plan[p] :
    /\ Due(p, b)
    /\ \/ \E t \in Token : acquire(b, t) /\ grip' = [grip EXCEPT ![p] = t]
          /\ UNCHANGED plan
       \/ /\ lock[b] # None
          /\ plan' = [plan EXCEPT ![p] = @ \ {b}]
          /\ UNCHANGED <<lock, grip>>
    /\ UNCHANGED <<rowVars, latest, unsent, copyVars, workVars, mailVars, faults, changes>>

\* Redis throws, before or after it has set the key: the run ends.
acquireFails(p) ==
  \E b \in plan[p] :
    /\ Due(p, b)
    /\ Fault("redis")
    /\ \/ UNCHANGED lock
       \/ \E t \in Token : acquire(b, t)
    /\ plan' = [plan EXCEPT ![p] = {}]
    /\ UNCHANGED <<rowVars, latest, grip, unsent, copyVars, workVars, mailVars, changes>>

\* The batch b is sent, and those of rest are still to come.
Sent(p, b, rest) ==
  /\ grip[p] # None
  /\ IsFirst(b, plan[p])
  /\ plan' = [plan EXCEPT ![p] = rest]
  /\ grip' = [grip EXCEPT ![p] = None]

Put(c, b, t) ==
  /\ place[c] = "free"
  /\ place' = [place EXCEPT ![c] = "queue"]
  /\ job' = [job EXCEPT ![c] = [batch |-> b, token |-> t]]
  /\ UNCHANGED tries

\* session.send, which nobody confirms.
send(p) ==
  \E b \in plan[p] :
    /\ Sent(p, b, plan[p] \ {b})
    /\ \E c \in Copy :
         /\ Put(c, b, grip[p])
         /\ loose' = IF lock[b] = grip[p] THEN loose ELSE loose \cup {c}
    /\ UNCHANGED <<rowVars, latest, lock, unsent, workVars, mailVars, faults, changes>>

\* The message is lost on its way; on a closed channel the send throws, and the run ends.
sendIsLost(p) ==
  \E b \in plan[p] :
    /\ \E rest \in {plan[p] \ {b}, {}} : Sent(p, b, rest)
    /\ Fault("lost")
    /\ UNCHANGED <<rowVars, latest, lock, unsent, copyVars, workVars, mailVars, changes>>

\* Mutant of unlock: whoever has the lock loses it.
unlockAnyway(b, t) == lock' = [lock EXCEPT ![b] = None]

\* UNLOCK_IF_OWNER.
unlock(b, t) == lock' = [lock EXCEPT ![b] = IF @ = t THEN None ELSE @]

\* sendToQueue returns false when the write buffer is full, and has written to it all
\* the same: the batch is queued, and its lock about to be released.
sendFillsBuffer(p) ==
  \E b \in plan[p] :
    /\ Sent(p, b, plan[p] \ {b})
    /\ Fault("full")
    /\ unsent' = [unsent EXCEPT ![p] = [batch |-> b, token |-> grip[p]]]
    /\ \E c \in Copy : Put(c, b, grip[p]) /\ loose' = loose \cup {c}
    /\ UNCHANGED <<rowVars, latest, lock, workVars, mailVars, changes>>

\* Redis may throw here, too, with the lock released or not, and the run ends; the fault
\* that counts is the full buffer.
unlockUnsent(p) ==
  /\ unsent[p] # None
  /\ unsent' = [unsent EXCEPT ![p] = None]
  /\ \/ unlock(unsent[p].batch, unsent[p].token) /\ UNCHANGED plan
     \/ /\ "redis" \in FaultPoint
        /\ UNCHANGED lock \/ unlock(unsent[p].batch, unsent[p].token)
        /\ plan' = [plan EXCEPT ![p] = {}]
  /\ UNCHANGED <<rowVars, latest, grip, copyVars, workVars, mailVars, faults, changes>>

CronCrash ==
  /\ Fault("cron")
  /\ plan' = [p \in Cron |-> {}]
  /\ grip' = [p \in Cron |-> None]
  /\ unsent' = [p \in Cron |-> None]
  /\ UNCHANGED <<rowVars, latest, lock, copyVars, workVars, mailVars, changes>>

\* The TTL of a lock is over, which may be while its batch is queued or worked on.
Lapse(b) ==
  /\ lock[b] # None
  /\ lock' = [lock EXCEPT ![b] = None]
  /\ loose' = loose \cup {c \in Copy : job[c] = [batch |-> b, token |-> lock[b]]}
  /\ UNCHANGED <<rowVars, latest, cronVars, place, job, tries, workVars, mailVars, faults, changes>>

----------------------------------------------------------------------------------
\* scanner.worker.ts.

\* The TTL of the retry queue is over.
Redeliver(c) ==
  /\ place[c] = "retry"
  /\ place' = [place EXCEPT ![c] = "queue"]
  /\ UNCHANGED <<rowVars, latest, lock, cronVars, job, tries, loose, workVars, mailVars,
                 faults, changes>>

Take(w, c) ==
  /\ pc[w] = "idle"
  /\ place[c] = "queue"
  /\ place' = [place EXCEPT ![c] = "held"]
  /\ pc' = [pc EXCEPT ![w] = "fetch"]
  /\ cur' = [cur EXCEPT ![w] = c]
  /\ mine' = [mine EXCEPT ![w] = job[c]]
  /\ UNCHANGED <<rowVars, latest, lock, cronVars, job, tries, loose, todo, mailVars, faults, changes>>

Drop(c) ==
  /\ place' = [place EXCEPT ![c] = "free"]
  /\ job' = [job EXCEPT ![c] = None]
  /\ tries' = [tries EXCEPT ![c] = 0]
  /\ loose' = loose \ {c}

\* The call is over, or goes on to release the lock.
Return(w) ==
  /\ pc' = [pc EXCEPT ![w] = "idle"]
  /\ cur' = [cur EXCEPT ![w] = None]
  /\ mine' = [mine EXCEPT ![w] = None]

releaseLock(w) ==
  /\ pc' = [pc EXCEPT ![w] = "unlock"]
  /\ cur' = [cur EXCEPT ![w] = None]
  /\ UNCHANGED mine

\* Mutant of Exhausted: one retry too many.
ExhaustedLate(w) == tries[cur[w]] > MAX_RETRIES

Exhausted(w) == tries[cur[w]] >= MAX_RETRIES

\* Mutant of handleRetry: the header x-retry-count is not written.
handleRetryUncounted(w) ==
  \/ /\ cur[w] = None
     /\ Return(w)
     /\ UNCHANGED copyVars
  \/ /\ cur[w] # None
     /\ Return(w)
     /\ place' = [place EXCEPT ![cur[w]] = "retry"]
     /\ UNCHANGED <<job, tries, loose>>

\* To the retry queue with the message; after MAX_RETRIES, away with it and its lock.  On
\* a closed channel all of this throws: the broker has given the message out again.
handleRetry(w) ==
  \/ /\ cur[w] = None
     /\ Return(w)
     /\ UNCHANGED copyVars
  \/ /\ cur[w] # None /\ ~Exhausted(w)
     /\ Return(w)
     /\ place' = [place EXCEPT ![cur[w]] = "retry"]
     /\ tries' = [tries EXCEPT ![cur[w]] = @ + 1]
     /\ UNCHANGED <<job, loose>>
  \/ /\ cur[w] # None /\ Exhausted(w)
     /\ releaseLock(w)
     /\ Drop(cur[w])

\* The retry message is not confirmed, or the nack behind it is lost: the message is in
\* the queue again, as it was, and the new copy d may be there, too.  Or the nack of a
\* message to be discarded is lost, and its lock released.
handleRetryBreaks(w) ==
  /\ cur[w] # None
  /\ Fault("settle")
  /\ \/ /\ ~Exhausted(w)
        /\ Return(w)
        /\ place' = [place EXCEPT ![cur[w]] = "queue"]
        /\ UNCHANGED <<job, tries, loose>>
     \/ /\ ~Exhausted(w)
        /\ Return(w)
        /\ \E d \in Copy :
             /\ place[d] = "free"
             /\ place' = [place EXCEPT ![cur[w]] = "queue", ![d] = "retry"]
             /\ job' = [job EXCEPT ![d] = mine[w]]
             /\ tries' = [tries EXCEPT ![d] = tries[cur[w]] + 1]
             /\ loose' = loose \cup {cur[w], d}
     \/ /\ Exhausted(w)
        /\ releaseLock(w)
        /\ place' = [place EXCEPT ![cur[w]] = "queue"]
        /\ loose' = loose \cup {cur[w]}
        /\ UNCHANGED <<job, tries>>

Retry(w) ==
  \/ handleRetry(w) /\ UNCHANGED faults
  \/ handleRetryBreaks(w)

----------------------------------------------------------------------------------
\* ScanBatchProcessor.process.

\* The repositories that have a release, in GitHub's answer or in a part of it.
getLatestReleasesBatch(w) ==
  LET found == {<<r, latest[r]>> : r \in {q \in mine[w].batch : latest[q] # None}}
  IN \/ todo' = [todo EXCEPT ![w] = found] /\ UNCHANGED faults
     \/ Fault("partial") /\ \E part \in SUBSET found : todo' = [todo EXCEPT ![w] = part]

Fetch(w) ==
  /\ pc[w] = "fetch"
  /\ getLatestReleasesBatch(w)
  /\ pc' = [pc EXCEPT ![w] = "scan"]
  /\ UNCHANGED <<rowVars, latest, lock, cronVars, copyVars, cur, mine, mailVars, changes>>

\* GitHub is not to be reached, or limits the rate.
FetchFails(w) ==
  /\ pc[w] = "fetch"
  /\ Retry(w)
  /\ UNCHANGED <<rowVars, latest, lock, cronVars, todo, mailVars, changes>>

\* Mutant of getOutdatedSubscribers: without the condition for NULL, which is not
\* different from any tag.
getOutdatedNotNull(r, t) ==
  {s \in Sub : RepoOf[s] = r /\ status[s] = "ACTIVE" /\ lastSeen[s] \notin {t, None}}

getOutdatedSubscribers(r, t) ==
  {s \in Sub : RepoOf[s] = r /\ status[s] = "ACTIVE" /\ lastSeen[s] # t}

\* processRepo, the query.  The order of at most REPO_CONCURRENCY repositories at once
\* is left open.
processRepo(x) ==
  \E r \in Repo, t \in Tag :
    /\ <<r, t>> \in todo[x]
    /\ todo' = [todo EXCEPT ![x] = (@ \ {<<r, t>>}) \cup (getOutdatedSubscribers(r, t) \X {t})]
    /\ UNCHANGED <<rowVars, latest, lock, cronVars, copyVars, pc, cur, mine, mailVars,
                   faults, changes>>

\* The query fails, and so does the call.  The other repositories go on regardless, but
\* for those whose query fails, too.
processRepoFails(w) ==
  \E r \in Repo, t \in Tag :
    /\ <<r, t>> \in todo[w]
    /\ Fault("query")
    /\ \E rest \in SUBSET (todo[w] \ {<<r, t>>}) :
         todo' = [todo EXCEPT ![w] = {}, ![None] = @ \cup rest]
    /\ handleRetry(w)
    /\ UNCHANGED <<rowVars, latest, lock, cronVars, mailVars, changes>>

More(count, k) == [count EXCEPT ![k] = IF @ = MaxQueued THEN @ ELSE @ + 1]
Less(count, k) == [count EXCEPT ![k] = @ - 1]

\* QueueNotifier; a failure is one of those Promise.allSettled collects, whether the
\* broker has the message or not.
sendReleaseNotification(x) ==
  \E k \in Key \cap todo[x] :
    /\ todo' = [todo EXCEPT ![x] = @ \ {k}]
    /\ \/ mails' = More(mails, k) /\ UNCHANGED faults
       \/ Fault("publish") /\ UNCHANGED mails
    /\ UNCHANGED <<rowVars, latest, lock, cronVars, copyVars, pc, cur, mine, events, done,
                   mailed, repeated, changes>>

\* channel.ack, which throws on a closed channel, and so does the handleRetry that
\* catches it.
Finish(w) ==
  /\ pc[w] = "scan"
  /\ todo[w] = {}
  /\ \/ /\ cur[w] = None
        /\ Return(w)
        /\ UNCHANGED <<copyVars, faults>>
     \/ /\ cur[w] # None
        /\ releaseLock(w)
        /\ Drop(cur[w])
        /\ UNCHANGED faults
     \/ /\ cur[w] # None
        /\ Fault("settle")
        /\ releaseLock(w)
        /\ place' = [place EXCEPT ![cur[w]] = "queue"]
        /\ loose' = loose \cup {cur[w]}
        /\ UNCHANGED <<job, tries>>
  /\ UNCHANGED <<rowVars, latest, lock, cronVars, todo, mailVars, changes>>

Unlock(w) ==
  /\ pc[w] = "unlock"
  /\ \/ unlock(mine[w].batch, mine[w].token) /\ UNCHANGED faults
     \/ Fault("redis") /\ UNCHANGED lock
  /\ Return(w)
  /\ UNCHANGED <<rowVars, latest, cronVars, copyVars, todo, mailVars, changes>>

\* The channel of w closes.  The call goes on, with nothing to settle.
ChannelCloses(w) ==
  /\ cur[w] # None
  /\ Fault("channel")
  /\ place' = [place EXCEPT ![cur[w]] = "queue"]
  /\ cur' = [cur EXCEPT ![w] = None]
  /\ UNCHANGED <<rowVars, latest, lock, cronVars, job, tries, loose, pc, mine, todo, mailVars,
                 changes>>

Crash ==
  /\ Fault("crash")
  /\ place' = [c \in Copy |-> IF place[c] = "held" THEN "queue" ELSE place[c]]
  /\ pc' = [w \in Worker |-> "idle"]
  /\ cur' = [w \in Worker |-> None]
  /\ mine' = [w \in Worker |-> None]
  /\ todo' = [w \in Worker \cup {None} |-> {}]
  /\ UNCHANGED <<rowVars, latest, lock, cronVars, job, tries, loose, mailVars, changes>>

----------------------------------------------------------------------------------
\* The notification service, as EmailDelivery has it, and delivered.consumer.ts.

\* A release message is settled: the mail has been sent, now or before, and the
\* delivered event is out.
Deliver(k) ==
  /\ mails[k] > 0
  /\ mails' = Less(mails, k)
  /\ events' = More(events, k)
  /\ done' = done \cup {k}
  /\ mailed' = mailed \cup {k}
  /\ repeated' = IF k \in mailed \ done THEN repeated \cup {k} ELSE repeated
  /\ UNCHANGED <<rowVars, latest, lock, cronVars, copyVars, workVars, faults, changes>>

\* It is dead after its last retry.
GiveUp(k) ==
  /\ mails[k] > 0
  /\ Fault("mail")
  /\ mails' = Less(mails, k)
  /\ UNCHANGED <<rowVars, latest, lock, cronVars, copyVars, workVars, events, done, mailed,
                 repeated, changes>>

\* A day after the mail.  The cron ticks every minute: whatever was going on has ended,
\* and the scan has caught up.
CaughtUp ==
  /\ \A k \in Key : mails[k] = 0 /\ events[k] = 0
  /\ \A x \in Worker \cup {None} : todo[x] = {}
  /\ \A s \in Sub : status[s] = "ACTIVE" => lastSeen[s] = latest[RepoOf[s]]

Expire(k) ==
  /\ k \in done
  /\ CaughtUp
  /\ Changed("day")
  /\ done' = done \ {k}
  /\ UNCHANGED <<rowVars, latest, lock, cronVars, copyVars, workVars, mails, events, mailed,
                 repeated, faults>>

\* Mutant of advanceTag: what GitHub has by then, in place of the event's tag.
advanceToLatest(s, t) ==
  lastSeen' = [lastSeen EXCEPT ![s] = IF status[s] = "none" THEN @ ELSE latest[RepoOf[s]]]

\* UPDATE ... SET lastSeenTag = t WHERE email and repository are those of s.
advanceTag(s, t) ==
  lastSeen' = [lastSeen EXCEPT ![s] = IF status[s] = "none" THEN @ ELSE t]

handleMessage(s, t) ==
  /\ events[<<s, t>>] > 0
  /\ advanceTag(s, t)
  /\ \/ events' = Less(events, <<s, t>>) /\ UNCHANGED faults
     \/ Fault("event") /\ UNCHANGED events  \* the ack is lost
  /\ UNCHANGED <<status, latest, lock, cronVars, copyVars, workVars, mails, done, mailed,
                 repeated, changes>>

\* The update fails, and the event is discarded.
handleMessageFails(s, t) ==
  /\ events[<<s, t>>] > 0
  /\ Fault("event")
  /\ events' = Less(events, <<s, t>>)
  /\ UNCHANGED <<rowVars, latest, lock, cronVars, copyVars, workVars, mails, done, mailed,
                 repeated, changes>>

----------------------------------------------------------------------------------

Outside ==
  \/ \E s \in Sub : Subscribe(s) \/ Confirm(s) \/ Unsubscribe(s)
  \/ \E r \in Repo, t \in Tag : Release(r, t)
  \/ \E k \in Key : Expire(k)

CronStep(p) == acquireForBatch(p) \/ send(p) \/ unlockUnsent(p)
CronFault(p) == acquireFails(p) \/ sendIsLost(p) \/ sendFillsBuffer(p)

Going(x) == processRepo(x) \/ sendReleaseNotification(x)
WorkerStep(w) == Fetch(w) \/ FetchFails(w) \/ Going(w) \/ Finish(w) \/ Unlock(w)
WorkerFault(w) == processRepoFails(w) \/ ChannelCloses(w)

Notified(k) == Deliver(k) \/ handleMessage(k[1], k[2])
NotNotified(k) == GiveUp(k) \/ handleMessageFails(k[1], k[2])

Next ==
  \/ Outside
  \/ \E p \in Cron : generateJobs(p) \/ CronStep(p) \/ CronFault(p)
  \/ CronCrash
  \/ \E b \in Batch : Lapse(b)
  \/ \E c \in Copy : Redeliver(c) \/ \E w \in Worker : Take(w, c)
  \/ \E w \in Worker : WorkerStep(w) \/ WorkerFault(w)
  \/ Going(None)
  \/ Crash
  \/ \E k \in Key : Notified(k) \/ NotNotified(k)

SafeSpec == Init /\ [][Next]_vars

\* The cron ticks, awaited calls settle, TTLs pass, the broker gives out messages in
\* their order.  That a token or a copy is free again and again is a matter of the bounds.
Fairness ==
  /\ \A p \in Cron : WF_vars(generateJobs(p)) /\ SF_vars(CronStep(p))
  /\ \A b \in Batch : WF_vars(Lapse(b))
  /\ \A c \in Copy : WF_vars(Redeliver(c)) /\ SF_vars(\E w \in Worker : Take(w, c))
  /\ \A w \in Worker : WF_vars(WorkerStep(w))
  /\ WF_vars(Going(None))
  /\ \A k \in Key : WF_vars(Deliver(k)) /\ WF_vars(handleMessage(k[1], k[2]))

Spec == SafeSpec /\ Fairness

----------------------------------------------------------------------------------
\* Properties.

\* A batch that is queued, held or waiting for its retry has its own lock, and so is
\* queued only once: the lock is given up after the last attempt and by its owner alone.
\* Excepted are messages whose lock has lapsed, whose settling the broker has lost, or
\* which the producer takes for not sent.
LockOutlivesJob ==
  \A c \in Copy \ loose : job[c] # None => lock[job[c].batch] = job[c].token

\* lastSeenTag is a tag that was mailed to the subscriber, whatever is lost, repeated or
\* late, and also if the row is another one by then.
SeenWasMailed ==
  \A s \in Sub : lastSeen[s] # None => <<s, lastSeen[s]>> \in mailed

\* No batch goes round the retry queue for ever, though GitHub may never answer.
EveryJobEnds == \A c \in Copy : place[c] # "free" ~> place[c] = "free"

\* A release that stays the latest one reaches everyone who stays subscribed, and
\* lastSeenTag comes to rest at it, if GitHub answers when asked again and again: what a
\* scan leaves out, a later one makes good.
Asked(r) == \E w \in Worker : pc[w] = "fetch" /\ r \in mine[w].batch
Scanned(r) == \E w \in Worker : pc[w] = "scan" /\ r \in mine[w].batch
Answers(r) == []<>Asked(r) => []<>Scanned(r)
Awaits(s, t) == status[s] = "ACTIVE" /\ latest[RepoOf[s]] = t
EverySubscriberLearns ==
  \A s \in Sub, t \in Tag :
    Answers(RepoOf[s]) /\ <>[]Awaits(s, t) => <>[](lastSeen[s] = t)

----------------------------------------------------------------------------------
\* What the code's own words claim and the code does not do.

\* system-design.md: the system does not send repeated notifications for an already
\* known release; so nobody is mailed the same tag twice.
NoRepeatedMail == repeated = {}
==================================================================================
