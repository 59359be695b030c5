---------------------------- MODULE ReleaseScanProofs ----------------------------
(* Proofs about ReleaseScan, for every set of repositories, subscriptions, tags,    *)
(* tokens, messages, cron runs and workers and every number of faults and changes.  *)
EXTENDS ReleaseScan, TLAPS

\* The inductive invariant, in named parts.

\* TypeOK, by owner.
RowTypes ==
  /\ status \in [Sub -> {"none", "PENDING", "ACTIVE"}]
  /\ lastSeen \in [Sub -> Tag \cup {None}]
  /\ latest \in [Repo -> Tag \cup {None}]
  /\ faults \in Nat
  /\ changes \in Nat

CronTypes ==
  /\ lock \in [Batch -> Token \cup {None}]
  /\ plan \in [Cron -> SUBSET Batch]
  /\ grip \in [Cron -> Token \cup {None}]
  /\ unsent \in [Cron -> Job \cup {None}]

CopyTypes ==
  /\ place \in [Copy -> {"queue", "retry", "held", "free"}]
  /\ job \in [Copy -> Job \cup {None}]
  /\ tries \in [Copy -> 0 .. MAX_RETRIES]
  /\ loose \subseteq Copy
  /\ pc \in [Worker -> {"idle", "fetch", "scan", "unlock"}]
  /\ cur \in [Worker -> Copy \cup {None}]
  /\ mine \in [Worker -> Job \cup {None}]

TodoType == todo \in [Worker \cup {None} -> SUBSET ((Repo \cup Sub) \X Tag)]

MailTypes ==
  /\ mails \in [Key -> 0 .. MaxQueued]
  /\ events \in [Key -> 0 .. MaxQueued]
  /\ done \subseteq Key
  /\ mailed \subseteq Key
  /\ repeated \subseteq mailed

\* A worker has a batch while it works, and the message it has to settle is its own.
WorkInv ==
  \A w \in Worker :
    /\ pc[w] # "idle" => mine[w] \in Job
    /\ pc[w] \in {"idle", "unlock"} => cur[w] = None
    /\ cur[w] # None => place[cur[w]] = "held" /\ job[cur[w]] = mine[w]
    /\ \A v \in Worker : cur[w] # None /\ cur[v] = cur[w] => v = w

\* A message that is somewhere has a batch.
CopyInv == \A c \in Copy : place[c] # "free" => job[c] \in Job

\* The token of a lock just taken is that of no message, no worker and no other run, nor
\* of a lock a run is about to release.
GripInv ==
  \A p \in Cron : grip[p] # None =>
    /\ \A q \in Cron : grip[q] = grip[p] => q = p
    /\ \A q \in Cron : unsent[q] # None => unsent[q].token # grip[p]
    /\ \A c \in Copy : job[c] # None => job[c].token # grip[p]
    /\ \A w \in Worker : mine[w] # None => mine[w].token # grip[p]

\* Two messages with one token have come from a settling the broker has lost; a worker
\* about to release a lock is the last to need it, and so is a cron run, but for the message
\* it takes for not sent.
OwnerInv ==
  /\ \A c, d \in Copy :
       job[c] # None /\ job[d] # None /\ job[c].token = job[d].token => d = c \/ c \in loose
  /\ \A w \in Worker : pc[w] = "unlock" =>
       \A c \in Copy \ loose : job[c] # None => job[c].token # mine[w].token
  /\ \A p \in Cron : unsent[p] # None =>
       \A c \in Copy \ loose : job[c] # None => job[c].token # unsent[p].token

\* A delivered event is about a mail.
EventInv ==
  /\ \A k \in Key : events[k] > 0 => k \in mailed
  /\ SeenWasMailed

----------------------------------------------------------------------------------
\* Each part is inductive, given those before it.

LEMMA KeyPair == ASSUME NEW k \in Key PROVE k[1] \in Sub /\ k[2] \in Tag /\ <<k[1], k[2]>> = k
  BY DEF Key

LEMMA Nonempty == ASSUME NEW S, S \subseteq Repo, NEW r \in S PROVE S \in Batch
  BY DEF Batch

\* generateJobs queues batches that are not empty, of repositories with a subscriber.
LEMMA ChunkBatches == chunk(groupByRepository) \subseteq Batch
  <1>. SUFFICES ASSUME NEW R, R \subseteq Repo PROVE chunk(R) \subseteq Batch
    BY ScanAssumption DEF groupByRepository
  <1>. DEFINE number(r) == Cardinality({q \in R : q < r}) \div SCAN_BATCH_SIZE
  <1>. DEFINE part(r) == {q \in R : number(q) = number(r)}
  <1>1. ASSUME NEW r \in R PROVE part(r) \in Batch
    BY <1>1, Nonempty
  <1>. QED
    BY <1>1 DEF chunk

LEMMA NoneIsNew ==
  None \notin Tag /\ None \notin Token /\ None \notin Copy /\ None \notin Worker /\ None \notin Job
  BY ScanAssumption

LEMMA RowStep == ASSUME RowTypes, [Next]_vars PROVE RowTypes'
  <1>. USE ScanAssumption DEF RowTypes, rowVars
  <1>1. ASSUME NEW s \in Sub, Subscribe(s) PROVE RowTypes'
    BY <1>1 DEF Subscribe, Changed
  <1>2. ASSUME NEW s \in Sub, Confirm(s) PROVE RowTypes'
    BY <1>2 DEF Confirm
  <1>3. ASSUME NEW s \in Sub, Unsubscribe(s) PROVE RowTypes'
    BY <1>3 DEF Unsubscribe, Changed
  <1>4. ASSUME NEW r \in Repo, NEW t \in Tag, Release(r, t) PROVE RowTypes'
    BY <1>4 DEF Release, Changed
  <1>5. ASSUME NEW k \in Key, Expire(k) PROVE RowTypes'
    BY <1>5 DEF Expire, Changed
  <1>6. ASSUME NEW p \in Cron, generateJobs(p) PROVE RowTypes'
    BY <1>6 DEF generateJobs
  <1>7. ASSUME NEW p \in Cron, acquireForBatch(p) PROVE RowTypes'
    BY <1>7 DEF acquireForBatch
  <1>8. ASSUME NEW p \in Cron, send(p) PROVE RowTypes'
    BY <1>8 DEF send
  <1>9. ASSUME NEW p \in Cron, acquireFails(p) PROVE RowTypes'
    BY <1>9 DEF acquireFails, Fault
  <1>10. ASSUME NEW p \in Cron, sendIsLost(p) PROVE RowTypes'
    BY <1>10 DEF sendIsLost, Fault
  <1>11. ASSUME NEW p \in Cron, sendFillsBuffer(p) PROVE RowTypes'
    BY <1>11 DEF sendFillsBuffer, Fault
  <1>12. ASSUME CronCrash PROVE RowTypes'
    BY <1>12 DEF CronCrash, Fault
  <1>13. ASSUME NEW b \in Batch, Lapse(b) PROVE RowTypes'
    BY <1>13 DEF Lapse
  <1>14. ASSUME NEW c \in Copy, Redeliver(c) PROVE RowTypes'
    BY <1>14 DEF Redeliver
  <1>15. ASSUME NEW w \in Worker, NEW c \in Copy, Take(w, c) PROVE RowTypes'
    BY <1>15 DEF Take
  <1>16. ASSUME NEW w \in Worker, Fetch(w) PROVE RowTypes'
    BY <1>16 DEF Fetch, getLatestReleasesBatch, Fault
  <1>17. ASSUME NEW w \in Worker, FetchFails(w) PROVE RowTypes'
    BY <1>17 DEF FetchFails, Fault, Retry, handleRetryBreaks
  <1>18. ASSUME NEW x \in Worker \cup {None}, processRepo(x) PROVE RowTypes'
    BY <1>18 DEF processRepo
  <1>19. ASSUME NEW x \in Worker \cup {None}, sendReleaseNotification(x) PROVE RowTypes'
    BY <1>19 DEF sendReleaseNotification, Fault
  <1>20. ASSUME NEW w \in Worker, Finish(w) PROVE RowTypes'
    BY <1>20 DEF Finish, Fault
  <1>21. ASSUME NEW w \in Worker, Unlock(w) PROVE RowTypes'
    BY <1>21 DEF Unlock, Fault
  <1>22. ASSUME NEW w \in Worker, processRepoFails(w) PROVE RowTypes'
    BY <1>22 DEF processRepoFails, Fault
  <1>23. ASSUME NEW w \in Worker, ChannelCloses(w) PROVE RowTypes'
    BY <1>23 DEF ChannelCloses, Fault
  <1>24. ASSUME Crash PROVE RowTypes'
    BY <1>24 DEF Crash, Fault
  <1>25. ASSUME NEW k \in Key, Deliver(k) PROVE RowTypes'
    BY <1>25 DEF Deliver
  <1>26. ASSUME NEW k \in Key, GiveUp(k) PROVE RowTypes'
    BY <1>26 DEF GiveUp, Fault
  <1>27. ASSUME NEW s \in Sub, NEW t \in Tag, handleMessage(s, t) PROVE RowTypes'
    BY <1>27 DEF handleMessage, advanceTag, Fault
  <1>28. ASSUME NEW s \in Sub, NEW t \in Tag, handleMessageFails(s, t) PROVE RowTypes'
    BY <1>28 DEF handleMessageFails, Fault
  <1>29. ASSUME NEW p \in Cron, unlockUnsent(p) PROVE RowTypes'
    BY <1>29 DEF unlockUnsent
  <1>30. CASE UNCHANGED vars
    BY <1>30 DEF vars
  <1>. QED
    BY KeyPair, <1>1, <1>2, <1>3, <1>4, <1>5, <1>6, <1>7, <1>8, <1>9, <1>10, <1>11,
       <1>12, <1>13, <1>14, <1>15, <1>16, <1>17, <1>18, <1>19, <1>20, <1>21, <1>22,
       <1>23, <1>24, <1>25, <1>26, <1>27, <1>28, <1>29, <1>30
       DEF Next, Outside, CronStep, CronFault, Going, WorkerStep, WorkerFault, Notified, NotNotified

LEMMA CronStepTypes == ASSUME CronTypes, CopyTypes, WorkInv, [Next]_vars PROVE CronTypes'
  <1>. USE ScanAssumption DEF CronTypes, cronVars
  <1>1. ASSUME NEW s \in Sub, Subscribe(s) PROVE CronTypes'
    BY <1>1 DEF Subscribe
  <1>2. ASSUME NEW s \in Sub, Confirm(s) PROVE CronTypes'
    BY <1>2 DEF Confirm
  <1>3. ASSUME NEW s \in Sub, Unsubscribe(s) PROVE CronTypes'
    BY <1>3 DEF Unsubscribe
  <1>4. ASSUME NEW r \in Repo, NEW t \in Tag, Release(r, t) PROVE CronTypes'
    BY <1>4 DEF Release
  <1>5. ASSUME NEW k \in Key, Expire(k) PROVE CronTypes'
    BY <1>5 DEF Expire
  <1>6. ASSUME NEW p \in Cron, generateJobs(p) PROVE CronTypes'
    BY <1>6, ChunkBatches DEF generateJobs
  <1>7. ASSUME NEW p \in Cron, acquireForBatch(p) PROVE CronTypes'
    BY <1>7 DEF acquireForBatch, Due, acquire
  <1>8. ASSUME NEW p \in Cron, send(p) PROVE CronTypes'
    BY <1>8 DEF send, Sent
  <1>9. ASSUME NEW p \in Cron, acquireFails(p) PROVE CronTypes'
    BY <1>9 DEF acquireFails, Due, acquire
  <1>10. ASSUME NEW p \in Cron, sendIsLost(p) PROVE CronTypes'
    BY <1>10 DEF sendIsLost, Sent
  <1>11. ASSUME NEW p \in Cron, sendFillsBuffer(p) PROVE CronTypes'
    BY <1>11 DEF sendFillsBuffer, Sent, Job
  <1>12. ASSUME CronCrash PROVE CronTypes'
    BY <1>12 DEF CronCrash
  <1>13. ASSUME NEW b \in Batch, Lapse(b) PROVE CronTypes'
    BY <1>13 DEF Lapse
  <1>14. ASSUME NEW c \in Copy, Redeliver(c) PROVE CronTypes'
    BY <1>14 DEF Redeliver
  <1>15. ASSUME NEW w \in Worker, NEW c \in Copy, Take(w, c) PROVE CronTypes'
    BY <1>15 DEF Take
  <1>16. ASSUME NEW w \in Worker, Fetch(w) PROVE CronTypes'
    BY <1>16 DEF Fetch
  <1>17. ASSUME NEW w \in Worker, FetchFails(w) PROVE CronTypes'
    BY <1>17 DEF FetchFails
  <1>18. ASSUME NEW x \in Worker \cup {None}, processRepo(x) PROVE CronTypes'
    BY <1>18 DEF processRepo
  <1>19. ASSUME NEW x \in Worker \cup {None}, sendReleaseNotification(x) PROVE CronTypes'
    BY <1>19 DEF sendReleaseNotification
  <1>20. ASSUME NEW w \in Worker, Finish(w) PROVE CronTypes'
    BY <1>20 DEF Finish
  <1>21. ASSUME NEW w \in Worker, Unlock(w) PROVE CronTypes'
    BY <1>21 DEF Unlock, unlock
  <1>22. ASSUME NEW w \in Worker, processRepoFails(w) PROVE CronTypes'
    BY <1>22 DEF processRepoFails
  <1>23. ASSUME NEW w \in Worker, ChannelCloses(w) PROVE CronTypes'
    BY <1>23 DEF ChannelCloses
  <1>24. ASSUME Crash PROVE CronTypes'
    BY <1>24 DEF Crash
  <1>25. ASSUME NEW k \in Key, Deliver(k) PROVE CronTypes'
    BY <1>25 DEF Deliver
  <1>26. ASSUME NEW k \in Key, GiveUp(k) PROVE CronTypes'
    BY <1>26 DEF GiveUp
  <1>27. ASSUME NEW s \in Sub, NEW t \in Tag, handleMessage(s, t) PROVE CronTypes'
    BY <1>27 DEF handleMessage
  <1>28. ASSUME NEW s \in Sub, NEW t \in Tag, handleMessageFails(s, t) PROVE CronTypes'
    BY <1>28 DEF handleMessageFails
  <1>29. ASSUME NEW p \in Cron, unlockUnsent(p) PROVE CronTypes'
    BY <1>29 DEF unlockUnsent, unlock
  <1>30. CASE UNCHANGED vars
    BY <1>30 DEF vars
  <1>. QED
    BY KeyPair, <1>1, <1>2, <1>3, <1>4, <1>5, <1>6, <1>7, <1>8, <1>9, <1>10, <1>11,
       <1>12, <1>13, <1>14, <1>15, <1>16, <1>17, <1>18, <1>19, <1>20, <1>21, <1>22,
       <1>23, <1>24, <1>25, <1>26, <1>27, <1>28, <1>29, <1>30
       DEF Next, Outside, CronStep, CronFault, Going, WorkerStep, WorkerFault, Notified, NotNotified

\* What a call does when it is over, or fails, keeps the types.
LEMMA ReturnTypes ==
  ASSUME CopyTypes, NEW w \in Worker, Return(w) \/ releaseLock(w)
  PROVE  /\ pc' \in [Worker -> {"idle", "fetch", "scan", "unlock"}]
         /\ cur' \in [Worker -> Copy \cup {None}] /\ mine' \in [Worker -> Job \cup {None}]
  BY DEF CopyTypes, Return, releaseLock

LEMMA DropTypes ==
  ASSUME CopyTypes, NEW c \in Copy, Drop(c)
  PROVE  /\ place' \in [Copy -> {"queue", "retry", "held", "free"}]
         /\ job' \in [Copy -> Job \cup {None}] /\ tries' \in [Copy -> 0 .. MAX_RETRIES]
         /\ loose' \subseteq Copy
  BY ScanAssumption DEF CopyTypes, Drop

LEMMA HandleRetryTypes ==
  ASSUME CopyTypes, NEW w \in Worker, handleRetry(w) PROVE CopyTypes'
  <1>1. CASE Return(w) /\ UNCHANGED copyVars
    BY <1>1, ReturnTypes DEF CopyTypes, copyVars
  <1>2. CASE /\ cur[w] # None /\ ~Exhausted(w)
             /\ Return(w)
             /\ place' = [place EXCEPT ![cur[w]] = "retry"]
             /\ tries' = [tries EXCEPT ![cur[w]] = @ + 1]
             /\ UNCHANGED <<job, loose>>
    <2>1. cur[w] \in Copy /\ tries[cur[w]] + 1 \in 0 .. MAX_RETRIES
      BY <1>2, ScanAssumption DEF CopyTypes, Exhausted
    <2>. QED
      BY <1>2, <2>1, ReturnTypes DEF CopyTypes
  <1>3. CASE cur[w] # None /\ releaseLock(w) /\ Drop(cur[w])
    BY <1>3, ReturnTypes, DropTypes DEF CopyTypes
  <1>. QED
    BY <1>1, <1>2, <1>3 DEF handleRetry

LEMMA HandleRetryBreaksTypes ==
  ASSUME CopyTypes, WorkInv, NEW w \in Worker, pc[w] # "idle", handleRetryBreaks(w) PROVE CopyTypes'
  <1>1. cur[w] \in Copy /\ tries[cur[w]] \in 0 .. MAX_RETRIES /\ mine[w] \in Job
    BY DEF handleRetryBreaks, CopyTypes, WorkInv
  <1>2. Return(w) \/ releaseLock(w)
    BY DEF handleRetryBreaks
  <1>3. /\ place' \in [Copy -> {"queue", "retry", "held", "free"}]
        /\ job' \in [Copy -> Job \cup {None}] /\ loose' \subseteq Copy
    BY <1>1 DEF handleRetryBreaks, CopyTypes
  <1>4. tries' \in [Copy -> 0 .. MAX_RETRIES]
    <2>1. ~Exhausted(w) => tries[cur[w]] + 1 \in 0 .. MAX_RETRIES
      BY <1>1, ScanAssumption DEF Exhausted
    <2>. QED
      BY <1>1, <2>1 DEF handleRetryBreaks, CopyTypes
  <1>. QED
    BY <1>2, <1>3, <1>4, ReturnTypes DEF CopyTypes

LEMMA CopyTypeStep == ASSUME CopyTypes, CronTypes, WorkInv, CopyInv, [Next]_vars PROVE CopyTypes'
  <1>. USE ScanAssumption DEF CopyTypes, CronTypes, WorkInv, CopyInv, copyVars, workVars
  <1>1. ASSUME NEW s \in Sub, Subscribe(s) PROVE CopyTypes'
    BY <1>1 DEF Subscribe
  <1>2. ASSUME NEW s \in Sub, Confirm(s) PROVE CopyTypes'
    BY <1>2 DEF Confirm
  <1>3. ASSUME NEW s \in Sub, Unsubscribe(s) PROVE CopyTypes'
    BY <1>3 DEF Unsubscribe
  <1>4. ASSUME NEW r \in Repo, NEW t \in Tag, Release(r, t) PROVE CopyTypes'
    BY <1>4 DEF Release
  <1>5. ASSUME NEW k \in Key, Expire(k) PROVE CopyTypes'
    BY <1>5 DEF Expire
  <1>6. ASSUME NEW p \in Cron, generateJobs(p) PROVE CopyTypes'
    BY <1>6 DEF generateJobs
  <1>7. ASSUME NEW p \in Cron, acquireForBatch(p) PROVE CopyTypes'
    BY <1>7 DEF acquireForBatch
  <1>8. ASSUME NEW p \in Cron, send(p) PROVE CopyTypes'
    BY <1>8 DEF send, Sent, Put, Job
  <1>9. ASSUME NEW p \in Cron, acquireFails(p) PROVE CopyTypes'
    BY <1>9 DEF acquireFails
  <1>10. ASSUME NEW p \in Cron, sendIsLost(p) PROVE CopyTypes'
    BY <1>10 DEF sendIsLost, Sent
  <1>11. ASSUME NEW p \in Cron, sendFillsBuffer(p) PROVE CopyTypes'
    BY <1>11 DEF sendFillsBuffer, Sent, Put, Job
  <1>12. ASSUME CronCrash PROVE CopyTypes'
    BY <1>12 DEF CronCrash
  <1>13. ASSUME NEW b \in Batch, Lapse(b) PROVE CopyTypes'
    BY <1>13 DEF Lapse
  <1>14. ASSUME NEW c \in Copy, Redeliver(c) PROVE CopyTypes'
    BY <1>14 DEF Redeliver
  <1>15. ASSUME NEW w \in Worker, NEW c \in Copy, Take(w, c) PROVE CopyTypes'
    BY <1>15 DEF Take
  <1>16. ASSUME NEW w \in Worker, Fetch(w) PROVE CopyTypes'
    BY <1>16 DEF Fetch
  <1>17. ASSUME NEW w \in Worker, FetchFails(w) PROVE CopyTypes'
    BY <1>17, HandleRetryTypes, HandleRetryBreaksTypes DEF FetchFails, Retry
  <1>18. ASSUME NEW x \in Worker \cup {None}, processRepo(x) PROVE CopyTypes'
    BY <1>18 DEF processRepo
  <1>19. ASSUME NEW x \in Worker \cup {None}, sendReleaseNotification(x) PROVE CopyTypes'
    BY <1>19 DEF sendReleaseNotification
  <1>20. ASSUME NEW w \in Worker, Finish(w) PROVE CopyTypes'
    <2>1. Return(w) \/ releaseLock(w)
      BY <1>20 DEF Finish
    <2>2. /\ place' \in [Copy -> {"queue", "retry", "held", "free"}]
          /\ job' \in [Copy -> Job \cup {None}] /\ tries' \in [Copy -> 0 .. MAX_RETRIES]
          /\ loose' \subseteq Copy
      BY <1>20, DropTypes DEF Finish
    <2>. QED
      BY <2>1, <2>2, ReturnTypes
  <1>21. ASSUME NEW w \in Worker, Unlock(w) PROVE CopyTypes'
    BY <1>21 DEF Unlock, Return
  <1>22. ASSUME NEW w \in Worker, processRepoFails(w) PROVE CopyTypes'
    BY <1>22, HandleRetryTypes DEF processRepoFails
  <1>23. ASSUME NEW w \in Worker, ChannelCloses(w) PROVE CopyTypes'
    BY <1>23 DEF ChannelCloses
  <1>24. ASSUME Crash PROVE CopyTypes'
    BY <1>24 DEF Crash
  <1>25. ASSUME NEW k \in Key, Deliver(k) PROVE CopyTypes'
    BY <1>25 DEF Deliver
  <1>26. ASSUME NEW k \in Key, GiveUp(k) PROVE CopyTypes'
    BY <1>26 DEF GiveUp
  <1>27. ASSUME NEW s \in Sub, NEW t \in Tag, handleMessage(s, t) PROVE CopyTypes'
    BY <1>27 DEF handleMessage
  <1>28. ASSUME NEW s \in Sub, NEW t \in Tag, handleMessageFails(s, t) PROVE CopyTypes'
    BY <1>28 DEF handleMessageFails
  <1>29. ASSUME NEW p \in Cron, unlockUnsent(p) PROVE CopyTypes'
    BY <1>29 DEF unlockUnsent
  <1>30. CASE UNCHANGED vars
    BY <1>30 DEF vars
  <1>. QED
    BY KeyPair, <1>1, <1>2, <1>3, <1>4, <1>5, <1>6, <1>7, <1>8, <1>9, <1>10, <1>11,
       <1>12, <1>13, <1>14, <1>15, <1>16, <1>17, <1>18, <1>19, <1>20, <1>21, <1>22,
       <1>23, <1>24, <1>25, <1>26, <1>27, <1>28, <1>29, <1>30
       DEF Next, Outside, CronStep, CronFault, Going, WorkerStep, WorkerFault, Notified, NotNotified

LEMMA TodoStep == ASSUME TodoType, RowTypes, CopyTypes, WorkInv, [Next]_vars PROVE TodoType'
  <1>. USE ScanAssumption DEF TodoType, workVars
  <1>1. ASSUME NEW s \in Sub, Subscribe(s) PROVE TodoType'
    BY <1>1 DEF Subscribe
  <1>2. ASSUME NEW s \in Sub, Confirm(s) PROVE TodoType'
    BY <1>2 DEF Confirm
  <1>3. ASSUME NEW s \in Sub, Unsubscribe(s) PROVE TodoType'
    BY <1>3 DEF Unsubscribe
  <1>4. ASSUME NEW r \in Repo, NEW t \in Tag, Release(r, t) PROVE TodoType'
    BY <1>4 DEF Release
  <1>5. ASSUME NEW k \in Key, Expire(k) PROVE TodoType'
    BY <1>5 DEF Expire
  <1>6. ASSUME NEW p \in Cron, generateJobs(p) PROVE TodoType'
    BY <1>6 DEF generateJobs
  <1>7. ASSUME NEW p \in Cron, acquireForBatch(p) PROVE TodoType'
    BY <1>7 DEF acquireForBatch
  <1>8. ASSUME NEW p \in Cron, send(p) PROVE TodoType'
    BY <1>8 DEF send
  <1>9. ASSUME NEW p \in Cron, acquireFails(p) PROVE TodoType'
    BY <1>9 DEF acquireFails
  <1>10. ASSUME NEW p \in Cron, sendIsLost(p) PROVE TodoType'
    BY <1>10 DEF sendIsLost
  <1>11. ASSUME NEW p \in Cron, sendFillsBuffer(p) PROVE TodoType'
    BY <1>11 DEF sendFillsBuffer
  <1>12. ASSUME CronCrash PROVE TodoType'
    BY <1>12 DEF CronCrash
  <1>13. ASSUME NEW b \in Batch, Lapse(b) PROVE TodoType'
    BY <1>13 DEF Lapse
  <1>14. ASSUME NEW c \in Copy, Redeliver(c) PROVE TodoType'
    BY <1>14 DEF Redeliver
  <1>15. ASSUME NEW w \in Worker, NEW c \in Copy, Take(w, c) PROVE TodoType'
    BY <1>15 DEF Take
  <1>16. ASSUME NEW w \in Worker, Fetch(w) PROVE TodoType'
    <2>. DEFINE found == {<<r, latest[r]>> : r \in {q \in mine[w].batch : latest[q] # None}}
    <2>1. mine[w].batch \subseteq Repo
      BY <1>16 DEF Fetch, WorkInv, Job, Batch
    <2>2. ASSUME NEW r \in mine[w].batch, latest[r] # None
          PROVE  <<r, latest[r]>> \in (Repo \cup Sub) \X Tag
      BY <2>1, <2>2 DEF RowTypes
    <2>3. found \subseteq (Repo \cup Sub) \X Tag
      BY <2>2
    <2>. HIDE DEF found
    <2>4. \E part \in SUBSET found : todo' = [todo EXCEPT ![w] = part]
      BY <1>16 DEF Fetch, getLatestReleasesBatch, found
    <2>. QED
      BY <2>3, <2>4
  <1>17. ASSUME NEW w \in Worker, FetchFails(w) PROVE TodoType'
    BY <1>17 DEF FetchFails
  <1>18. ASSUME NEW x \in Worker \cup {None}, processRepo(x) PROVE TodoType'
    BY <1>18 DEF processRepo, getOutdatedSubscribers
  <1>19. ASSUME NEW x \in Worker \cup {None}, sendReleaseNotification(x) PROVE TodoType'
    BY <1>19 DEF sendReleaseNotification, Key
  <1>20. ASSUME NEW w \in Worker, Finish(w) PROVE TodoType'
    BY <1>20 DEF Finish
  <1>21. ASSUME NEW w \in Worker, Unlock(w) PROVE TodoType'
    BY <1>21 DEF Unlock
  <1>22. ASSUME NEW w \in Worker, processRepoFails(w) PROVE TodoType'
    BY <1>22 DEF processRepoFails
  <1>23. ASSUME NEW w \in Worker, ChannelCloses(w) PROVE TodoType'
    BY <1>23 DEF ChannelCloses
  <1>24. ASSUME Crash PROVE TodoType'
    BY <1>24 DEF Crash
  <1>25. ASSUME NEW k \in Key, Deliver(k) PROVE TodoType'
    BY <1>25 DEF Deliver
  <1>26. ASSUME NEW k \in Key, GiveUp(k) PROVE TodoType'
    BY <1>26 DEF GiveUp
  <1>27. ASSUME NEW s \in Sub, NEW t \in Tag, handleMessage(s, t) PROVE TodoType'
    BY <1>27 DEF handleMessage
  <1>28. ASSUME NEW s \in Sub, NEW t \in Tag, handleMessageFails(s, t) PROVE TodoType'
    BY <1>28 DEF handleMessageFails
  <1>29. ASSUME NEW p \in Cron, unlockUnsent(p) PROVE TodoType'
    BY <1>29 DEF unlockUnsent
  <1>30. CASE UNCHANGED vars
    BY <1>30 DEF vars
  <1>. QED
    BY KeyPair, <1>1, <1>2, <1>3, <1>4, <1>5, <1>6, <1>7, <1>8, <1>9, <1>10, <1>11,
       <1>12, <1>13, <1>14, <1>15, <1>16, <1>17, <1>18, <1>19, <1>20, <1>21, <1>22,
       <1>23, <1>24, <1>25, <1>26, <1>27, <1>28, <1>29, <1>30
       DEF Next, Outside, CronStep, CronFault, Going, WorkerStep, WorkerFault, Notified, NotNotified

LEMMA OneLess ==
  ASSUME MaxQueued \in Nat, NEW count \in [Key -> 0 .. MaxQueued], NEW k \in Key, count[k] > 0
  PROVE  Less(count, k) \in [Key -> 0 .. MaxQueued]
  BY DEF Less

LEMMA MailStep == ASSUME MailTypes, [Next]_vars PROVE MailTypes'
  <1>. USE ScanAssumption DEF MailTypes, mailVars
  <1>1. ASSUME NEW s \in Sub, Subscribe(s) PROVE MailTypes'
    BY <1>1 DEF Subscribe
  <1>2. ASSUME NEW s \in Sub, Confirm(s) PROVE MailTypes'
    BY <1>2 DEF Confirm
  <1>3. ASSUME NEW s \in Sub, Unsubscribe(s) PROVE MailTypes'
    BY <1>3 DEF Unsubscribe
  <1>4. ASSUME NEW r \in Repo, NEW t \in Tag, Release(r, t) PROVE MailTypes'
    BY <1>4 DEF Release
  <1>5. ASSUME NEW k \in Key, Expire(k) PROVE MailTypes'
    BY <1>5 DEF Expire
  <1>6. ASSUME NEW p \in Cron, generateJobs(p) PROVE MailTypes'
    BY <1>6 DEF generateJobs
  <1>7. ASSUME NEW p \in Cron, acquireForBatch(p) PROVE MailTypes'
    BY <1>7 DEF acquireForBatch
  <1>8. ASSUME NEW p \in Cron, send(p) PROVE MailTypes'
    BY <1>8 DEF send
  <1>9. ASSUME NEW p \in Cron, acquireFails(p) PROVE MailTypes'
    BY <1>9 DEF acquireFails
  <1>10. ASSUME NEW p \in Cron, sendIsLost(p) PROVE MailTypes'
    BY <1>10 DEF sendIsLost
  <1>11. ASSUME NEW p \in Cron, sendFillsBuffer(p) PROVE MailTypes'
    BY <1>11 DEF sendFillsBuffer
  <1>12. ASSUME CronCrash PROVE MailTypes'
    BY <1>12 DEF CronCrash
  <1>13. ASSUME NEW b \in Batch, Lapse(b) PROVE MailTypes'
    BY <1>13 DEF Lapse
  <1>14. ASSUME NEW c \in Copy, Redeliver(c) PROVE MailTypes'
    BY <1>14 DEF Redeliver
  <1>15. ASSUME NEW w \in Worker, NEW c \in Copy, Take(w, c) PROVE MailTypes'
    BY <1>15 DEF Take
  <1>16. ASSUME NEW w \in Worker, Fetch(w) PROVE MailTypes'
    BY <1>16 DEF Fetch
  <1>17. ASSUME NEW w \in Worker, FetchFails(w) PROVE MailTypes'
    BY <1>17 DEF FetchFails
  <1>18. ASSUME NEW x \in Worker \cup {None}, processRepo(x) PROVE MailTypes'
    BY <1>18 DEF processRepo
  <1>19. ASSUME NEW x \in Worker \cup {None}, sendReleaseNotification(x) PROVE MailTypes'
    BY <1>19 DEF sendReleaseNotification, More
  <1>20. ASSUME NEW w \in Worker, Finish(w) PROVE MailTypes'
    BY <1>20 DEF Finish
  <1>21. ASSUME NEW w \in Worker, Unlock(w) PROVE MailTypes'
    BY <1>21 DEF Unlock
  <1>22. ASSUME NEW w \in Worker, processRepoFails(w) PROVE MailTypes'
    BY <1>22 DEF processRepoFails
  <1>23. ASSUME NEW w \in Worker, ChannelCloses(w) PROVE MailTypes'
    BY <1>23 DEF ChannelCloses
  <1>24. ASSUME Crash PROVE MailTypes'
    BY <1>24 DEF Crash
  <1>25. ASSUME NEW k \in Key, Deliver(k) PROVE MailTypes'
    BY <1>25 DEF Deliver, Less, More
  <1>26. ASSUME NEW k \in Key, GiveUp(k) PROVE MailTypes'
    BY <1>26 DEF GiveUp, Less
  <1>27. ASSUME NEW s \in Sub, NEW t \in Tag, handleMessage(s, t) PROVE MailTypes'
    <2>1. <<s, t>> \in Key /\ events[<<s, t>>] > 0
      BY <1>27 DEF handleMessage, Key
    <2>2. Less(events, <<s, t>>) \in [Key -> 0 .. MaxQueued]
      BY <2>1, OneLess
    <2>3. /\ events' \in {Less(events, <<s, t>>), events}
          /\ UNCHANGED <<mails, done, mailed, repeated>>
      BY <1>27 DEF handleMessage
    <2>. QED
      BY <2>2, <2>3
  <1>28. ASSUME NEW s \in Sub, NEW t \in Tag, handleMessageFails(s, t) PROVE MailTypes'
    <2>1. <<s, t>> \in Key /\ events[<<s, t>>] > 0
      BY <1>28 DEF handleMessageFails, Key
    <2>2. Less(events, <<s, t>>) \in [Key -> 0 .. MaxQueued]
      BY <2>1, OneLess
    <2>3. events' = Less(events, <<s, t>>) /\ UNCHANGED <<mails, done, mailed, repeated>>
      BY <1>28 DEF handleMessageFails
    <2>. QED
      BY <2>2, <2>3
  <1>29. ASSUME NEW p \in Cron, unlockUnsent(p) PROVE MailTypes'
    BY <1>29 DEF unlockUnsent
  <1>30. CASE UNCHANGED vars
    BY <1>30 DEF vars
  <1>. QED
    BY KeyPair, <1>1, <1>2, <1>3, <1>4, <1>5, <1>6, <1>7, <1>8, <1>9, <1>10, <1>11,
       <1>12, <1>13, <1>14, <1>15, <1>16, <1>17, <1>18, <1>19, <1>20, <1>21, <1>22,
       <1>23, <1>24, <1>25, <1>26, <1>27, <1>28, <1>29, <1>30
       DEF Next, Outside, CronStep, CronFault, Going, WorkerStep, WorkerFault, Notified, NotNotified

LEMMA WorkStep == ASSUME CopyTypes, WorkInv, CopyInv, [Next]_vars PROVE WorkInv'
  <1>. USE NoneIsNew DEF CopyTypes, WorkInv, CopyInv, copyVars, workVars
  <1>1. ASSUME NEW s \in Sub, Subscribe(s) PROVE WorkInv'
    BY <1>1 DEF Subscribe
  <1>2. ASSUME NEW s \in Sub, Confirm(s) PROVE WorkInv'
    BY <1>2 DEF Confirm
  <1>3. ASSUME NEW s \in Sub, Unsubscribe(s) PROVE WorkInv'
    BY <1>3 DEF Unsubscribe
  <1>4. ASSUME NEW r \in Repo, NEW t \in Tag, Release(r, t) PROVE WorkInv'
    BY <1>4 DEF Release
  <1>5. ASSUME NEW k \in Key, Expire(k) PROVE WorkInv'
    BY <1>5 DEF Expire
  <1>6. ASSUME NEW p \in Cron, generateJobs(p) PROVE WorkInv'
    BY <1>6 DEF generateJobs
  <1>7. ASSUME NEW p \in Cron, acquireForBatch(p) PROVE WorkInv'
    BY <1>7 DEF acquireForBatch
  <1>8. ASSUME NEW p \in Cron, send(p) PROVE WorkInv'
    BY <1>8 DEF send, Sent, Put
  <1>9. ASSUME NEW p \in Cron, acquireFails(p) PROVE WorkInv'
    BY <1>9 DEF acquireFails
  <1>10. ASSUME NEW p \in Cron, sendIsLost(p) PROVE WorkInv'
    BY <1>10 DEF sendIsLost, Sent
  <1>11. ASSUME NEW p \in Cron, sendFillsBuffer(p) PROVE WorkInv'
    BY <1>11 DEF sendFillsBuffer, Sent, Put
  <1>12. ASSUME CronCrash PROVE WorkInv'
    BY <1>12 DEF CronCrash
  <1>13. ASSUME NEW b \in Batch, Lapse(b) PROVE WorkInv'
    BY <1>13 DEF Lapse
  <1>14. ASSUME NEW c \in Copy, Redeliver(c) PROVE WorkInv'
    BY <1>14 DEF Redeliver
  <1>15. ASSUME NEW w \in Worker, NEW c \in Copy, Take(w, c) PROVE WorkInv'
    BY <1>15 DEF Take
  <1>16. ASSUME NEW w \in Worker, Fetch(w) PROVE WorkInv'
    BY <1>16 DEF Fetch
  <1>17. ASSUME NEW w \in Worker, FetchFails(w) PROVE WorkInv'
    BY <1>17 DEF FetchFails, Retry, handleRetryBreaks, handleRetry, Return,
       releaseLock, Drop
  <1>18. ASSUME NEW x \in Worker \cup {None}, processRepo(x) PROVE WorkInv'
    BY <1>18 DEF processRepo
  <1>19. ASSUME NEW x \in Worker \cup {None}, sendReleaseNotification(x) PROVE WorkInv'
    BY <1>19 DEF sendReleaseNotification
  <1>20. ASSUME NEW w \in Worker, Finish(w) PROVE WorkInv'
    BY <1>20 DEF Finish, Return, releaseLock, Drop
  <1>21. ASSUME NEW w \in Worker, Unlock(w) PROVE WorkInv'
    BY <1>21 DEF Unlock, Return
  <1>22. ASSUME NEW w \in Worker, processRepoFails(w) PROVE WorkInv'
    BY <1>22 DEF processRepoFails, handleRetry, Return, releaseLock, Drop
  <1>23. ASSUME NEW w \in Worker, ChannelCloses(w) PROVE WorkInv'
    BY <1>23 DEF ChannelCloses
  <1>24. ASSUME Crash PROVE WorkInv'
    BY <1>24 DEF Crash
  <1>25. ASSUME NEW k \in Key, Deliver(k) PROVE WorkInv'
    BY <1>25 DEF Deliver
  <1>26. ASSUME NEW k \in Key, GiveUp(k) PROVE WorkInv'
    BY <1>26 DEF GiveUp
  <1>27. ASSUME NEW s \in Sub, NEW t \in Tag, handleMessage(s, t) PROVE WorkInv'
    BY <1>27 DEF handleMessage
  <1>28. ASSUME NEW s \in Sub, NEW t \in Tag, handleMessageFails(s, t) PROVE WorkInv'
    BY <1>28 DEF handleMessageFails
  <1>29. ASSUME NEW p \in Cron, unlockUnsent(p) PROVE WorkInv'
    BY <1>29 DEF unlockUnsent
  <1>30. CASE UNCHANGED vars
    BY <1>30 DEF vars
  <1>. QED
    BY KeyPair, <1>1, <1>2, <1>3, <1>4, <1>5, <1>6, <1>7, <1>8, <1>9, <1>10, <1>11,
       <1>12, <1>13, <1>14, <1>15, <1>16, <1>17, <1>18, <1>19, <1>20, <1>21, <1>22,
       <1>23, <1>24, <1>25, <1>26, <1>27, <1>28, <1>29, <1>30
       DEF Next, Outside, CronStep, CronFault, Going, WorkerStep, WorkerFault, Notified, NotNotified

LEMMA CopyStep == ASSUME CopyTypes, CronTypes, WorkInv, CopyInv, [Next]_vars PROVE CopyInv'
  <1>. USE NoneIsNew DEF CopyTypes, CronTypes, WorkInv, CopyInv, copyVars
  <1>1. ASSUME NEW s \in Sub, Subscribe(s) PROVE CopyInv'
    BY <1>1 DEF Subscribe
  <1>2. ASSUME NEW s \in Sub, Confirm(s) PROVE CopyInv'
    BY <1>2 DEF Confirm
  <1>3. ASSUME NEW s \in Sub, Unsubscribe(s) PROVE CopyInv'
    BY <1>3 DEF Unsubscribe
  <1>4. ASSUME NEW r \in Repo, NEW t \in Tag, Release(r, t) PROVE CopyInv'
    BY <1>4 DEF Release
  <1>5. ASSUME NEW k \in Key, Expire(k) PROVE CopyInv'
    BY <1>5 DEF Expire
  <1>6. ASSUME NEW p \in Cron, generateJobs(p) PROVE CopyInv'
    BY <1>6 DEF generateJobs
  <1>7. ASSUME NEW p \in Cron, acquireForBatch(p) PROVE CopyInv'
    BY <1>7 DEF acquireForBatch
  <1>8. ASSUME NEW p \in Cron, send(p) PROVE CopyInv'
    BY <1>8 DEF send, Sent, Put, Job
  <1>9. ASSUME NEW p \in Cron, acquireFails(p) PROVE CopyInv'
    BY <1>9 DEF acquireFails
  <1>10. ASSUME NEW p \in Cron, sendIsLost(p) PROVE CopyInv'
    BY <1>10 DEF sendIsLost, Sent
  <1>11. ASSUME NEW p \in Cron, sendFillsBuffer(p) PROVE CopyInv'
    BY <1>11 DEF sendFillsBuffer, Sent, Put, Job
  <1>12. ASSUME CronCrash PROVE CopyInv'
    BY <1>12 DEF CronCrash
  <1>13. ASSUME NEW b \in Batch, Lapse(b) PROVE CopyInv'
    BY <1>13 DEF Lapse
  <1>14. ASSUME NEW c \in Copy, Redeliver(c) PROVE CopyInv'
    BY <1>14 DEF Redeliver
  <1>15. ASSUME NEW w \in Worker, NEW c \in Copy, Take(w, c) PROVE CopyInv'
    BY <1>15 DEF Take
  <1>16. ASSUME NEW w \in Worker, Fetch(w) PROVE CopyInv'
    BY <1>16 DEF Fetch
  <1>17. ASSUME NEW w \in Worker, FetchFails(w) PROVE CopyInv'
    BY <1>17 DEF FetchFails, Retry, handleRetryBreaks, handleRetry, Return,
       releaseLock, Drop
  <1>18. ASSUME NEW x \in Worker \cup {None}, processRepo(x) PROVE CopyInv'
    BY <1>18 DEF processRepo
  <1>19. ASSUME NEW x \in Worker \cup {None}, sendReleaseNotification(x) PROVE CopyInv'
    BY <1>19 DEF sendReleaseNotification
  <1>20. ASSUME NEW w \in Worker, Finish(w) PROVE CopyInv'
    BY <1>20 DEF Finish, Return, releaseLock, Drop
  <1>21. ASSUME NEW w \in Worker, Unlock(w) PROVE CopyInv'
    BY <1>21 DEF Unlock, Return
  <1>22. ASSUME NEW w \in Worker, processRepoFails(w) PROVE CopyInv'
    BY <1>22 DEF processRepoFails, handleRetry, Return, releaseLock, Drop
  <1>23. ASSUME NEW w \in Worker, ChannelCloses(w) PROVE CopyInv'
    BY <1>23 DEF ChannelCloses
  <1>24. ASSUME Crash PROVE CopyInv'
    BY <1>24 DEF Crash
  <1>25. ASSUME NEW k \in Key, Deliver(k) PROVE CopyInv'
    BY <1>25 DEF Deliver
  <1>26. ASSUME NEW k \in Key, GiveUp(k) PROVE CopyInv'
    BY <1>26 DEF GiveUp
  <1>27. ASSUME NEW s \in Sub, NEW t \in Tag, handleMessage(s, t) PROVE CopyInv'
    BY <1>27 DEF handleMessage
  <1>28. ASSUME NEW s \in Sub, NEW t \in Tag, handleMessageFails(s, t) PROVE CopyInv'
    BY <1>28 DEF handleMessageFails
  <1>29. ASSUME NEW p \in Cron, unlockUnsent(p) PROVE CopyInv'
    BY <1>29 DEF unlockUnsent
  <1>30. CASE UNCHANGED vars
    BY <1>30 DEF vars
  <1>. QED
    BY KeyPair, <1>1, <1>2, <1>3, <1>4, <1>5, <1>6, <1>7, <1>8, <1>9, <1>10, <1>11,
       <1>12, <1>13, <1>14, <1>15, <1>16, <1>17, <1>18, <1>19, <1>20, <1>21, <1>22,
       <1>23, <1>24, <1>25, <1>26, <1>27, <1>28, <1>29, <1>30
       DEF Next, Outside, CronStep, CronFault, Going, WorkerStep, WorkerFault, Notified, NotNotified

LEMMA EventStep == ASSUME RowTypes, MailTypes, EventInv, [Next]_vars PROVE EventInv'
  <1>. USE ScanAssumption DEF RowTypes, MailTypes, EventInv, SeenWasMailed, Key, rowVars, mailVars
  <1>1. ASSUME NEW s \in Sub, Subscribe(s) PROVE EventInv'
    BY <1>1 DEF Subscribe
  <1>2. ASSUME NEW s \in Sub, Confirm(s) PROVE EventInv'
    BY <1>2 DEF Confirm
  <1>3. ASSUME NEW s \in Sub, Unsubscribe(s) PROVE EventInv'
    BY <1>3 DEF Unsubscribe
  <1>4. ASSUME NEW r \in Repo, NEW t \in Tag, Release(r, t) PROVE EventInv'
    BY <1>4 DEF Release
  <1>5. ASSUME NEW k \in Key, Expire(k) PROVE EventInv'
    BY <1>5 DEF Expire
  <1>6. ASSUME NEW p \in Cron, generateJobs(p) PROVE EventInv'
    BY <1>6 DEF generateJobs
  <1>7. ASSUME NEW p \in Cron, acquireForBatch(p) PROVE EventInv'
    BY <1>7 DEF acquireForBatch
  <1>8. ASSUME NEW p \in Cron, send(p) PROVE EventInv'
    BY <1>8 DEF send, Sent, Put
  <1>9. ASSUME NEW p \in Cron, acquireFails(p) PROVE EventInv'
    BY <1>9 DEF acquireFails
  <1>10. ASSUME NEW p \in Cron, sendIsLost(p) PROVE EventInv'
    BY <1>10 DEF sendIsLost, Sent
  <1>11. ASSUME NEW p \in Cron, sendFillsBuffer(p) PROVE EventInv'
    BY <1>11 DEF sendFillsBuffer, Sent, Put
  <1>12. ASSUME CronCrash PROVE EventInv'
    BY <1>12 DEF CronCrash
  <1>13. ASSUME NEW b \in Batch, Lapse(b) PROVE EventInv'
    BY <1>13 DEF Lapse
  <1>14. ASSUME NEW c \in Copy, Redeliver(c) PROVE EventInv'
    BY <1>14 DEF Redeliver
  <1>15. ASSUME NEW w \in Worker, NEW c \in Copy, Take(w, c) PROVE EventInv'
    BY <1>15 DEF Take
  <1>16. ASSUME NEW w \in Worker, Fetch(w) PROVE EventInv'
    BY <1>16 DEF Fetch
  <1>17. ASSUME NEW w \in Worker, FetchFails(w) PROVE EventInv'
    BY <1>17 DEF FetchFails, Retry, handleRetryBreaks, handleRetry, Return,
       releaseLock, Drop
  <1>18. ASSUME NEW x \in Worker \cup {None}, processRepo(x) PROVE EventInv'
    BY <1>18 DEF processRepo
  <1>19. ASSUME NEW x \in Worker \cup {None}, sendReleaseNotification(x) PROVE EventInv'
    BY <1>19 DEF sendReleaseNotification, More
  <1>20. ASSUME NEW w \in Worker, Finish(w) PROVE EventInv'
    BY <1>20 DEF Finish, Return, releaseLock, Drop
  <1>21. ASSUME NEW w \in Worker, Unlock(w) PROVE EventInv'
    BY <1>21 DEF Unlock, Return
  <1>22. ASSUME NEW w \in Worker, processRepoFails(w) PROVE EventInv'
    BY <1>22 DEF processRepoFails, handleRetry, Return, releaseLock, Drop
  <1>23. ASSUME NEW w \in Worker, ChannelCloses(w) PROVE EventInv'
    BY <1>23 DEF ChannelCloses
  <1>24. ASSUME Crash PROVE EventInv'
    BY <1>24 DEF Crash
  <1>25. ASSUME NEW k \in Key, Deliver(k) PROVE EventInv'
    BY <1>25 DEF Deliver, Less, More
  <1>26. ASSUME NEW k \in Key, GiveUp(k) PROVE EventInv'
    BY <1>26 DEF GiveUp, Less
  <1>27. ASSUME NEW s \in Sub, NEW t \in Tag, handleMessage(s, t) PROVE EventInv'
    BY <1>27 DEF handleMessage, advanceTag, Less
  <1>28. ASSUME NEW s \in Sub, NEW t \in Tag, handleMessageFails(s, t) PROVE EventInv'
    BY <1>28 DEF handleMessageFails, Less
  <1>29. ASSUME NEW p \in Cron, unlockUnsent(p) PROVE EventInv'
    BY <1>29 DEF unlockUnsent
  <1>30. CASE UNCHANGED vars
    BY <1>30 DEF vars
  <1>. QED
    BY KeyPair, <1>1, <1>2, <1>3, <1>4, <1>5, <1>6, <1>7, <1>8, <1>9, <1>10, <1>11,
       <1>12, <1>13, <1>14, <1>15, <1>16, <1>17, <1>18, <1>19, <1>20, <1>21, <1>22,
       <1>23, <1>24, <1>25, <1>26, <1>27, <1>28, <1>29, <1>30
       DEF Next, Outside, CronStep, CronFault, Going, WorkerStep, WorkerFault, Notified, NotNotified

LEMMA GripStep == ASSUME CopyTypes, CronTypes, WorkInv, CopyInv, GripInv,
    [Next]_vars PROVE GripInv'
  <1>. USE NoneIsNew DEF CopyTypes, CronTypes, WorkInv, CopyInv, GripInv, cronVars, copyVars, workVars
  <1>1. ASSUME NEW s \in Sub, Subscribe(s) PROVE GripInv'
    BY <1>1 DEF Subscribe
  <1>2. ASSUME NEW s \in Sub, Confirm(s) PROVE GripInv'
    BY <1>2 DEF Confirm
  <1>3. ASSUME NEW s \in Sub, Unsubscribe(s) PROVE GripInv'
    BY <1>3 DEF Unsubscribe
  <1>4. ASSUME NEW r \in Repo, NEW t \in Tag, Release(r, t) PROVE GripInv'
    BY <1>4 DEF Release
  <1>5. ASSUME NEW k \in Key, Expire(k) PROVE GripInv'
    BY <1>5 DEF Expire
  <1>6. ASSUME NEW p \in Cron, generateJobs(p) PROVE GripInv'
    BY <1>6 DEF generateJobs
  <1>7. ASSUME NEW p \in Cron, acquireForBatch(p) PROVE GripInv'
    BY <1>7 DEF acquireForBatch, Due, acquire, Fresh
  <1>8. ASSUME NEW p \in Cron, send(p) PROVE GripInv'
    BY <1>8 DEF send, Sent, Put
  <1>9. ASSUME NEW p \in Cron, acquireFails(p) PROVE GripInv'
    BY <1>9 DEF acquireFails, Due, acquire, Fresh
  <1>10. ASSUME NEW p \in Cron, sendIsLost(p) PROVE GripInv'
    BY <1>10 DEF sendIsLost, Sent
  <1>11. ASSUME NEW p \in Cron, sendFillsBuffer(p) PROVE GripInv'
    BY <1>11 DEF sendFillsBuffer, Sent, Put
  <1>12. ASSUME CronCrash PROVE GripInv'
    BY <1>12 DEF CronCrash
  <1>13. ASSUME NEW b \in Batch, Lapse(b) PROVE GripInv'
    BY <1>13 DEF Lapse
  <1>14. ASSUME NEW c \in Copy, Redeliver(c) PROVE GripInv'
    BY <1>14 DEF Redeliver
  <1>15. ASSUME NEW w \in Worker, NEW c \in Copy, Take(w, c) PROVE GripInv'
    BY <1>15 DEF Take
  <1>16. ASSUME NEW w \in Worker, Fetch(w) PROVE GripInv'
    BY <1>16 DEF Fetch
  <1>17. ASSUME NEW w \in Worker, FetchFails(w) PROVE GripInv'
    BY <1>17 DEF FetchFails, Retry, handleRetryBreaks, handleRetry, Return,
       releaseLock, Drop
  <1>18. ASSUME NEW x \in Worker \cup {None}, processRepo(x) PROVE GripInv'
    BY <1>18 DEF processRepo
  <1>19. ASSUME NEW x \in Worker \cup {None}, sendReleaseNotification(x) PROVE GripInv'
    BY <1>19 DEF sendReleaseNotification
  <1>20. ASSUME NEW w \in Worker, Finish(w) PROVE GripInv'
    BY <1>20 DEF Finish, Return, releaseLock, Drop
  <1>21. ASSUME NEW w \in Worker, Unlock(w) PROVE GripInv'
    BY <1>21 DEF Unlock, Return
  <1>22. ASSUME NEW w \in Worker, processRepoFails(w) PROVE GripInv'
    BY <1>22 DEF processRepoFails, handleRetry, Return, releaseLock, Drop
  <1>23. ASSUME NEW w \in Worker, ChannelCloses(w) PROVE GripInv'
    BY <1>23 DEF ChannelCloses
  <1>24. ASSUME Crash PROVE GripInv'
    BY <1>24 DEF Crash
  <1>25. ASSUME NEW k \in Key, Deliver(k) PROVE GripInv'
    BY <1>25 DEF Deliver
  <1>26. ASSUME NEW k \in Key, GiveUp(k) PROVE GripInv'
    BY <1>26 DEF GiveUp
  <1>27. ASSUME NEW s \in Sub, NEW t \in Tag, handleMessage(s, t) PROVE GripInv'
    BY <1>27 DEF handleMessage
  <1>28. ASSUME NEW s \in Sub, NEW t \in Tag, handleMessageFails(s, t) PROVE GripInv'
    BY <1>28 DEF handleMessageFails
  <1>29. ASSUME NEW p \in Cron, unlockUnsent(p) PROVE GripInv'
    BY <1>29 DEF unlockUnsent
  <1>30. CASE UNCHANGED vars
    BY <1>30 DEF vars
  <1>. QED
    BY KeyPair, <1>1, <1>2, <1>3, <1>4, <1>5, <1>6, <1>7, <1>8, <1>9, <1>10, <1>11,
       <1>12, <1>13, <1>14, <1>15, <1>16, <1>17, <1>18, <1>19, <1>20, <1>21, <1>22,
       <1>23, <1>24, <1>25, <1>26, <1>27, <1>28, <1>29, <1>30
       DEF Next, Outside, CronStep, CronFault, Going, WorkerStep, WorkerFault, Notified, NotNotified

LEMMA ReturnOwner ==
  ASSUME CopyTypes, WorkInv, OwnerInv, NEW w \in Worker, Return(w), UNCHANGED <<job, unsent>>,
         loose \subseteq loose'
  PROVE  OwnerInv'
  BY DEF CopyTypes, WorkInv, OwnerInv, Return

\* Who gives up its message, for good or for the broker to give it out again, may release
\* the lock.
LEMMA ReleaseOwner ==
  ASSUME CopyTypes, WorkInv, OwnerInv, NEW w \in Worker, cur[w] # None, releaseLock(w),
         UNCHANGED unsent,
         Drop(cur[w]) \/ (UNCHANGED job /\ loose' = loose \cup {cur[w]})
  PROVE  OwnerInv'
  <1>. DEFINE d == cur[w]
  <1>. USE NoneIsNew DEF CopyTypes, WorkInv, OwnerInv
  <1>1. d \in Copy /\ job[d] = mine[w] /\ job[d] # None
    OBVIOUS
  <1>2. /\ UNCHANGED mine
        /\ \A v \in Worker \ {w} : pc'[v] = pc[v]
        /\ \A c \in Copy \ {d} : job'[c] = job[c] /\ (c \in loose' <=> c \in loose)
        /\ job'[d] = None \/ (job'[d] = job[d] /\ d \in loose')
    BY <1>1 DEF releaseLock, Drop
  <1>3. ASSUME NEW c \in Copy, NEW e \in Copy, job'[c] # None, job'[e] # None, job'[c].token = job'[e].token
        PROVE  e = c \/ c \in loose'
    BY <1>1, <1>2, <1>3
  <1>4. ASSUME NEW v \in Worker, pc'[v] = "unlock", NEW c \in Copy \ loose', job'[c] # None
        PROVE  job'[c].token # mine'[v].token
    BY <1>1, <1>2, <1>4
  <1>5. ASSUME NEW p \in Cron, unsent[p] # None, NEW c \in Copy \ loose', job'[c] # None
        PROVE  job'[c].token # unsent[p].token
    BY <1>1, <1>2, <1>5
  <1>. QED
    BY <1>3, <1>4, <1>5

LEMMA HandleRetryOwner ==
  ASSUME CopyTypes, WorkInv, OwnerInv, NEW w \in Worker, handleRetry(w), UNCHANGED unsent
  PROVE  OwnerInv'
  <1>1. CASE Return(w) /\ UNCHANGED <<job, loose>>
    BY <1>1, ReturnOwner
  <1>2. CASE cur[w] # None /\ releaseLock(w) /\ Drop(cur[w])
    BY <1>2, ReleaseOwner
  <1>. QED
    BY <1>1, <1>2 DEF handleRetry, copyVars

LEMMA HandleRetryBreaksOwner ==
  ASSUME CopyTypes, WorkInv, OwnerInv, NEW w \in Worker, handleRetryBreaks(w), UNCHANGED unsent
  PROVE  OwnerInv'
  <1>1. CASE Return(w) /\ UNCHANGED <<job, loose>>
    BY <1>1, ReturnOwner
  <1>2. ASSUME NEW d \in Copy, place[d] = "free", cur[w] # None, Return(w),
               job' = [job EXCEPT ![d] = mine[w]], loose' = loose \cup {cur[w], d}
        PROVE  OwnerInv'
    <2>. USE DEF CopyTypes, WorkInv, OwnerInv
    <2>1. cur[w] \in Copy /\ job[cur[w]] = mine[w] /\ mine[w] \in Job /\ mine[w] # None
      BY <1>2, NoneIsNew
    <2>. QED
      BY <1>2, <2>1 DEF Return
  <1>3. CASE cur[w] # None /\ releaseLock(w) /\ loose' = loose \cup {cur[w]} /\ UNCHANGED job
    BY <1>3, ReleaseOwner
  <1>. QED
    BY <1>1, <1>2, <1>3 DEF handleRetryBreaks

LEMMA OwnerStep == ASSUME CopyTypes, CronTypes, WorkInv, CopyInv, GripInv, OwnerInv,
    [Next]_vars PROVE OwnerInv'
  <1>. USE NoneIsNew DEF CopyTypes, CronTypes, WorkInv, CopyInv, GripInv, OwnerInv, cronVars, copyVars,
           workVars
  <1>1. ASSUME NEW s \in Sub, Subscribe(s) PROVE OwnerInv'
    BY <1>1 DEF Subscribe
  <1>2. ASSUME NEW s \in Sub, Confirm(s) PROVE OwnerInv'
    BY <1>2 DEF Confirm
  <1>3. ASSUME NEW s \in Sub, Unsubscribe(s) PROVE OwnerInv'
    BY <1>3 DEF Unsubscribe
  <1>4. ASSUME NEW r \in Repo, NEW t \in Tag, Release(r, t) PROVE OwnerInv'
    BY <1>4 DEF Release
  <1>5. ASSUME NEW k \in Key, Expire(k) PROVE OwnerInv'
    BY <1>5 DEF Expire
  <1>6. ASSUME NEW p \in Cron, generateJobs(p) PROVE OwnerInv'
    BY <1>6 DEF generateJobs
  <1>7. ASSUME NEW p \in Cron, acquireForBatch(p) PROVE OwnerInv'
    BY <1>7 DEF acquireForBatch, Due, acquire, Fresh
  <1>8. ASSUME NEW p \in Cron, send(p) PROVE OwnerInv'
    <2>1. PICK b \in plan[p], c \in Copy : Sent(p, b, plan[p] \ {b}) /\ Put(c, b, grip[p])
      BY <1>8 DEF send
    <2>2. /\ job'[c].token = grip[p] /\ \A d \in Copy \ {c} : job'[d] = job[d]
          /\ loose \subseteq loose' /\ loose' \subseteq loose \cup {c} /\ UNCHANGED <<pc, mine, unsent>>
      BY <1>8, <2>1 DEF send, Put
    <2>3. /\ \A d \in Copy : job[d] # None => job[d].token # grip[p]
          /\ \A w \in Worker : mine[w] # None => mine[w].token # grip[p]
          /\ \A q \in Cron : unsent[q] # None => unsent[q].token # grip[p]
      BY <2>1 DEF Sent
    <2>4. ASSUME NEW d \in Copy, NEW e \in Copy, job'[d] # None, job'[e] # None, job'[d].token = job'[e].token
          PROVE  e = d \/ d \in loose'
      BY <2>2, <2>3, <2>4
    <2>5. ASSUME NEW w \in Worker, pc'[w] = "unlock", NEW d \in Copy \ loose', job'[d] # None
          PROVE  job'[d].token # mine'[w].token
      BY <2>2, <2>3, <2>5
    <2>6. ASSUME NEW q \in Cron, unsent'[q] # None, NEW d \in Copy \ loose', job'[d] # None
          PROVE  job'[d].token # unsent'[q].token
      BY <2>2, <2>3, <2>6
    <2>. QED
      BY <2>4, <2>5, <2>6
  <1>9. ASSUME NEW p \in Cron, acquireFails(p) PROVE OwnerInv'
    BY <1>9 DEF acquireFails, Due, acquire, Fresh
  <1>10. ASSUME NEW p \in Cron, sendIsLost(p) PROVE OwnerInv'
    BY <1>10 DEF sendIsLost, Sent
  <1>11. ASSUME NEW p \in Cron, sendFillsBuffer(p) PROVE OwnerInv'
    BY <1>11 DEF sendFillsBuffer, Sent, Put
  <1>12. ASSUME CronCrash PROVE OwnerInv'
    BY <1>12 DEF CronCrash
  <1>13. ASSUME NEW b \in Batch, Lapse(b) PROVE OwnerInv'
    BY <1>13 DEF Lapse
  <1>14. ASSUME NEW c \in Copy, Redeliver(c) PROVE OwnerInv'
    BY <1>14 DEF Redeliver
  <1>15. ASSUME NEW w \in Worker, NEW c \in Copy, Take(w, c) PROVE OwnerInv'
    BY <1>15 DEF Take
  <1>16. ASSUME NEW w \in Worker, Fetch(w) PROVE OwnerInv'
    BY <1>16 DEF Fetch
  <1>17. ASSUME NEW w \in Worker, FetchFails(w) PROVE OwnerInv'
    BY <1>17, HandleRetryOwner, HandleRetryBreaksOwner DEF FetchFails, Retry
  <1>18. ASSUME NEW x \in Worker \cup {None}, processRepo(x) PROVE OwnerInv'
    BY <1>18 DEF processRepo
  <1>19. ASSUME NEW x \in Worker \cup {None}, sendReleaseNotification(x) PROVE OwnerInv'
    BY <1>19 DEF sendReleaseNotification
  <1>20. ASSUME NEW w \in Worker, Finish(w) PROVE OwnerInv'
    <2>1. UNCHANGED unsent
      BY <1>20 DEF Finish
    <2>2. CASE Return(w) /\ UNCHANGED <<job, loose>>
      BY <2>1, <2>2, ReturnOwner
    <2>3. CASE /\ cur[w] # None /\ releaseLock(w)
               /\ Drop(cur[w]) \/ (UNCHANGED job /\ loose' = loose \cup {cur[w]})
      BY <2>1, <2>3, ReleaseOwner
    <2>. QED
      BY <1>20, <2>2, <2>3 DEF Finish
  <1>21. ASSUME NEW w \in Worker, Unlock(w) PROVE OwnerInv'
    BY <1>21 DEF Unlock, Return
  <1>22. ASSUME NEW w \in Worker, processRepoFails(w) PROVE OwnerInv'
    BY <1>22, HandleRetryOwner DEF processRepoFails
  <1>23. ASSUME NEW w \in Worker, ChannelCloses(w) PROVE OwnerInv'
    BY <1>23 DEF ChannelCloses
  <1>24. ASSUME Crash PROVE OwnerInv'
    BY <1>24 DEF Crash
  <1>25. ASSUME NEW k \in Key, Deliver(k) PROVE OwnerInv'
    BY <1>25 DEF Deliver
  <1>26. ASSUME NEW k \in Key, GiveUp(k) PROVE OwnerInv'
    BY <1>26 DEF GiveUp
  <1>27. ASSUME NEW s \in Sub, NEW t \in Tag, handleMessage(s, t) PROVE OwnerInv'
    BY <1>27 DEF handleMessage
  <1>28. ASSUME NEW s \in Sub, NEW t \in Tag, handleMessageFails(s, t) PROVE OwnerInv'
    BY <1>28 DEF handleMessageFails
  <1>29. ASSUME NEW p \in Cron, unlockUnsent(p) PROVE OwnerInv'
    BY <1>29 DEF unlockUnsent
  <1>30. CASE UNCHANGED vars
    BY <1>30 DEF vars
  <1>. QED
    BY KeyPair, <1>1, <1>2, <1>3, <1>4, <1>5, <1>6, <1>7, <1>8, <1>9, <1>10, <1>11,
       <1>12, <1>13, <1>14, <1>15, <1>16, <1>17, <1>18, <1>19, <1>20, <1>21, <1>22,
       <1>23, <1>24, <1>25, <1>26, <1>27, <1>28, <1>29, <1>30
       DEF Next, Outside, CronStep, CronFault, Going, WorkerStep, WorkerFault, Notified, NotNotified

LEMMA LockStep == ASSUME CopyTypes, CronTypes, WorkInv, CopyInv, GripInv, OwnerInv,
    LockOutlivesJob, [Next]_vars PROVE LockOutlivesJob'
  <1>. USE NoneIsNew DEF CopyTypes, CronTypes, WorkInv, CopyInv, GripInv, OwnerInv, LockOutlivesJob,
           cronVars, copyVars, workVars
  <1>1. ASSUME NEW s \in Sub, Subscribe(s) PROVE LockOutlivesJob'
    BY <1>1 DEF Subscribe
  <1>2. ASSUME NEW s \in Sub, Confirm(s) PROVE LockOutlivesJob'
    BY <1>2 DEF Confirm
  <1>3. ASSUME NEW s \in Sub, Unsubscribe(s) PROVE LockOutlivesJob'
    BY <1>3 DEF Unsubscribe
  <1>4. ASSUME NEW r \in Repo, NEW t \in Tag, Release(r, t) PROVE LockOutlivesJob'
    BY <1>4 DEF Release
  <1>5. ASSUME NEW k \in Key, Expire(k) PROVE LockOutlivesJob'
    BY <1>5 DEF Expire
  <1>6. ASSUME NEW p \in Cron, generateJobs(p) PROVE LockOutlivesJob'
    BY <1>6 DEF generateJobs
  <1>7. ASSUME NEW p \in Cron, acquireForBatch(p) PROVE LockOutlivesJob'
    <2>. SUFFICES ASSUME NEW c \in Copy \ loose, job[c] # None
                  PROVE  lock'[job[c].batch] = job[c].token
      BY <1>7 DEF acquireForBatch
    <2>1. job[c] \in Job /\ lock[job[c].batch] = job[c].token
      OBVIOUS
    <2>. QED
      BY <1>7, <2>1 DEF acquireForBatch, acquire, Job
  <1>8. ASSUME NEW p \in Cron, send(p) PROVE LockOutlivesJob'
    BY <1>8 DEF send, Sent, Put
  <1>9. ASSUME NEW p \in Cron, acquireFails(p) PROVE LockOutlivesJob'
    <2>. SUFFICES ASSUME NEW c \in Copy \ loose, job[c] # None
                  PROVE  lock'[job[c].batch] = job[c].token
      BY <1>9 DEF acquireFails
    <2>1. job[c] \in Job /\ lock[job[c].batch] = job[c].token
      OBVIOUS
    <2>. QED
      BY <1>9, <2>1 DEF acquireFails, acquire, Job
  <1>10. ASSUME NEW p \in Cron, sendIsLost(p) PROVE LockOutlivesJob'
    BY <1>10 DEF sendIsLost, Sent
  <1>11. ASSUME NEW p \in Cron, sendFillsBuffer(p) PROVE LockOutlivesJob'
    BY <1>11 DEF sendFillsBuffer, Sent, Put, unlock
  <1>12. ASSUME CronCrash PROVE LockOutlivesJob'
    BY <1>12 DEF CronCrash
  <1>13. ASSUME NEW b \in Batch, Lapse(b) PROVE LockOutlivesJob'
    <2>. SUFFICES ASSUME NEW c \in Copy \ loose', job[c] # None
                  PROVE  lock'[job[c].batch] = job[c].token
      BY <1>13 DEF Lapse
    <2>1. job[c] \in Job /\ lock[job[c].batch] = job[c].token
      BY <1>13 DEF Lapse
    <2>2. job[c].batch # b
      BY <1>13, <2>1 DEF Lapse, Job
    <2>. QED
      BY <1>13, <2>1, <2>2 DEF Lapse, Job
  <1>14. ASSUME NEW c \in Copy, Redeliver(c) PROVE LockOutlivesJob'
    BY <1>14 DEF Redeliver
  <1>15. ASSUME NEW w \in Worker, NEW c \in Copy, Take(w, c) PROVE LockOutlivesJob'
    BY <1>15 DEF Take
  <1>16. ASSUME NEW w \in Worker, Fetch(w) PROVE LockOutlivesJob'
    BY <1>16 DEF Fetch
  <1>17. ASSUME NEW w \in Worker, FetchFails(w) PROVE LockOutlivesJob'
    BY <1>17 DEF FetchFails, Retry, handleRetryBreaks, handleRetry, Return,
       releaseLock, Drop
  <1>18. ASSUME NEW x \in Worker \cup {None}, processRepo(x) PROVE LockOutlivesJob'
    BY <1>18 DEF processRepo
  <1>19. ASSUME NEW x \in Worker \cup {None}, sendReleaseNotification(x) PROVE LockOutlivesJob'
    BY <1>19 DEF sendReleaseNotification
  <1>20. ASSUME NEW w \in Worker, Finish(w) PROVE LockOutlivesJob'
    BY <1>20 DEF Finish, Return, releaseLock, Drop
  <1>21. ASSUME NEW w \in Worker, Unlock(w) PROVE LockOutlivesJob'
    <2>. SUFFICES ASSUME NEW c \in Copy \ loose, job[c] # None
                  PROVE  lock'[job[c].batch] = job[c].token
      BY <1>21 DEF Unlock
    <2>1. job[c] \in Job /\ mine[w] \in Job /\ lock[job[c].batch] = job[c].token
      BY <1>21 DEF Unlock
    <2>2. job[c].token # mine[w].token
      BY <1>21 DEF Unlock
    <2>. QED
      BY <1>21, <2>1, <2>2 DEF Unlock, unlock, Job
  <1>22. ASSUME NEW w \in Worker, processRepoFails(w) PROVE LockOutlivesJob'
    BY <1>22 DEF processRepoFails, handleRetry, Return, releaseLock, Drop
  <1>23. ASSUME NEW w \in Worker, ChannelCloses(w) PROVE LockOutlivesJob'
    BY <1>23 DEF ChannelCloses
  <1>24. ASSUME Crash PROVE LockOutlivesJob'
    BY <1>24 DEF Crash
  <1>25. ASSUME NEW k \in Key, Deliver(k) PROVE LockOutlivesJob'
    BY <1>25 DEF Deliver
  <1>26. ASSUME NEW k \in Key, GiveUp(k) PROVE LockOutlivesJob'
    BY <1>26 DEF GiveUp
  <1>27. ASSUME NEW s \in Sub, NEW t \in Tag, handleMessage(s, t) PROVE LockOutlivesJob'
    BY <1>27 DEF handleMessage
  <1>28. ASSUME NEW s \in Sub, NEW t \in Tag, handleMessageFails(s, t) PROVE LockOutlivesJob'
    BY <1>28 DEF handleMessageFails
  <1>29. ASSUME NEW p \in Cron, unlockUnsent(p) PROVE LockOutlivesJob'
    <2>. SUFFICES ASSUME NEW c \in Copy \ loose, job[c] # None
                  PROVE  lock'[job[c].batch] = job[c].token
      BY <1>29 DEF unlockUnsent
    <2>1. job[c] \in Job /\ unsent[p] \in Job /\ lock[job[c].batch] = job[c].token
      BY <1>29 DEF unlockUnsent
    <2>2. job[c].token # unsent[p].token
      BY <1>29 DEF unlockUnsent
    <2>. QED
      BY <1>29, <2>1, <2>2 DEF unlockUnsent, unlock, Job
  <1>30. CASE UNCHANGED vars
    BY <1>30 DEF vars
  <1>. QED
    BY KeyPair, <1>1, <1>2, <1>3, <1>4, <1>5, <1>6, <1>7, <1>8, <1>9, <1>10, <1>11,
       <1>12, <1>13, <1>14, <1>15, <1>16, <1>17, <1>18, <1>19, <1>20, <1>21, <1>22,
       <1>23, <1>24, <1>25, <1>26, <1>27, <1>28, <1>29, <1>30
       DEF Next, Outside, CronStep, CronFault, Going, WorkerStep, WorkerFault, Notified, NotNotified

----------------------------------------------------------------------------------

ScanInv ==
  RowTypes /\ CronTypes /\ CopyTypes /\ TodoType /\ MailTypes
  /\ WorkInv /\ CopyInv /\ GripInv /\ OwnerInv /\ LockOutlivesJob /\ EventInv

LEMMA InitTypes == Init => RowTypes /\ CronTypes /\ CopyTypes /\ TodoType /\ MailTypes
  <1>. SUFFICES ASSUME Init PROVE RowTypes /\ CronTypes /\ CopyTypes /\ TodoType /\ MailTypes
    OBVIOUS
  <1>1. RowTypes
    BY ScanAssumption DEF Init, RowTypes
  <1>2. CronTypes
    BY ScanAssumption DEF Init, CronTypes
  <1>3. CopyTypes
    BY ScanAssumption DEF Init, CopyTypes
  <1>4. TodoType
    BY ScanAssumption DEF Init, TodoType
  <1>5. MailTypes
    BY ScanAssumption DEF Init, MailTypes
  <1>. QED
    BY <1>1, <1>2, <1>3, <1>4, <1>5

LEMMA InitScanInv == Init => ScanInv
  <1>. SUFFICES ASSUME Init PROVE ScanInv
    OBVIOUS
  <1>1. WorkInv /\ CopyInv
    BY DEF Init, WorkInv, CopyInv
  <1>2. GripInv /\ OwnerInv /\ LockOutlivesJob
    BY DEF Init, GripInv, OwnerInv, LockOutlivesJob
  <1>3. EventInv
    BY DEF Init, EventInv, SeenWasMailed
  <1>. QED
    BY InitTypes, <1>1, <1>2, <1>3 DEF ScanInv

LEMMA ScanInvStep == ScanInv /\ [Next]_vars => ScanInv'
  <1>. SUFFICES ASSUME ScanInv, [Next]_vars PROVE ScanInv'
    OBVIOUS
  <1>1. RowTypes' /\ CronTypes' /\ CopyTypes' /\ TodoType' /\ MailTypes'
    BY RowStep, CronStepTypes, CopyTypeStep, TodoStep, MailStep DEF ScanInv
  <1>2. WorkInv' /\ CopyInv'
    BY WorkStep, CopyStep DEF ScanInv
  <1>3. GripInv' /\ OwnerInv' /\ LockOutlivesJob'
    BY GripStep, OwnerStep, LockStep DEF ScanInv
  <1>4. EventInv'
    BY EventStep DEF ScanInv
  <1>. QED
    BY <1>1, <1>2, <1>3, <1>4 DEF ScanInv

LEMMA ScanInvariance == SafeSpec => []ScanInv
  BY InitScanInv, ScanInvStep, PTL DEF SafeSpec

\* The variables keep their types in every behaviour of the scan; chunk never makes an
\* empty batch, and no counter of retries goes past MAX_RETRIES.
THEOREM TypeCorrect == SafeSpec => []TypeOK
  <1>1. ScanInv => TypeOK
    BY DEF ScanInv, TypeOK, RowTypes, CronTypes, CopyTypes, TodoType, MailTypes
  <1>. QED
    BY ScanInvariance, <1>1, PTL

\* A batch that is queued, held or waiting for its retry has its own lock, whatever the
\* ticks, the scanner's workers, Redis and the broker do, unless its lock has lapsed,
\* the broker has lost its settling or the producer takes the message for not sent:
\* UNLOCK_IF_OWNER and the order of ack, handleRetry and unlock keep it so.
THEOREM LockIsHeld == SafeSpec => []LockOutlivesJob
  <1>1. ScanInv => LockOutlivesJob
    BY DEF ScanInv
  <1>. QED
    BY ScanInvariance, <1>1, PTL

\* advanceTag writes only tags that were mailed to the subscriber: neither a failed scan
\* nor a lost, late or repeated event makes lastSeenTag run ahead of the mails.
THEOREM SeenIsMailed == SafeSpec => []SeenWasMailed
  <1>1. ScanInv => SeenWasMailed
    BY DEF ScanInv, EventInv
  <1>. QED
    BY ScanInvariance, <1>1, PTL
==================================================================================
