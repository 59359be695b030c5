------------------------------ MODULE EmailDelivery ------------------------------
(* The email consumer of the notification service                                *)
(* (notification-service/src/consumer/email.consumer.ts) between RabbitMQ, which   *)
(* gives a message out again whenever its channel or the process goes away, and   *)
(* Redis, where an idempotency key keeps a mail from being sent twice: pending     *)
(* under a lease while it is sent, done afterwards.                               *)
EXTENDS Naturals

CONSTANTS
  Msg,           \* the messages API server and scanner publish on email-send-queue
  Release,       \* those of type release; the others are confirmations
  Invalid,       \* those that emailMessageSchema refuses
  Key,           \* the idempotency keys
  KeyOf,         \* KeyOf[m]: the key of m; two messages of a type may have the same
  Copy,          \* bound: the copies of messages there may be at once
  Worker,        \* calls of processMessage at once: one for each consumer channel,
                 \* of one instance (a channel reopened while a call is pending) or several
  MAX_RETRIES,
  FaultPoint,    \* where a fault may strike, see FaultPoints
  MaxFaults,     \* bound: how many faults strike in a behaviour
  SlowDelivery,  \* may a delivery outlast the lease of its key?
  None           \* stands for an absent value

\* The process dies; a channel closes; the broker loses what is on its way when a
\* message is settled; the SMTP server accepts a mail and the call still fails;
\* Redis fails on a claim, on a release, on a confirm; a report fails.
FaultPoints == {"crash", "channel", "settle", "smtp", "claim", "release", "confirm", "report"}

ASSUME EmailAssumption ==
  /\ Release \subseteq Msg
  /\ Invalid \subseteq Msg
  /\ KeyOf \in [Msg -> Key]
  /\ \A m \in Release, n \in Msg \ Release : KeyOf[m] # KeyOf[n]
  /\ MAX_RETRIES \in Nat
  /\ FaultPoint \subseteq FaultPoints
  /\ MaxFaults \in Nat
  /\ SlowDelivery \in BOOLEAN
  /\ None \notin Msg \cup Copy

VARIABLES
  place,      \* place[c]: the queue the copy c is in
  of,         \* of[c]: the message c is a copy of
  tries,      \* tries[c]: its header x-retry-count
  store,      \* store[k]: the key k in Redis
  pc,         \* pc[a]: the await the worker a is at
  cur,        \* cur[a]: the copy a has to settle, None once its channel is gone
  msg,        \* msg[a]: the message a works on
  published,  \* history: the messages published
  mailed,     \* history: the keys whose mail the SMTP server has accepted
  sent,       \* history: sent[k]: how often, since Redis last forgot k
  reported,   \* history: the messages a SENT reply or a delivered event is out for
  failed,     \* history: the messages a FAILED reply is out for
  refused,    \* history: the messages whose delivery has failed
  overrun,    \* history: the keys whose lease a delivery has outlasted, see Lapse
  broken,     \* history: has a connection broken while a worker held a copy?
  faults      \* the faults so far

copyVars == <<place, of, tries>>
workVars == <<pc, cur, msg>>
mailVars == <<mailed, sent>>
faultVars == <<broken, faults>>
vars == <<copyVars, store, workVars, published, overrun, mailVars, reported, failed, refused,
          faultVars>>

\* email-send-queue, email-send-retry-queue, email-dead-queue; given out; no copy.
Place == {"queue", "retry", "dead", "held", "free"}
Stored == {"none", "pending", "done"}
Step == {"idle", "claim", "look", "send", "release", "confirm", "report", "repeat", "fail"}

TypeOK ==
  /\ place \in [Copy -> Place]
  /\ of \in [Copy -> Msg \cup {None}]
  /\ tries \in [Copy -> 0 .. MAX_RETRIES]
  /\ store \in [Key -> Stored]
  /\ pc \in [Worker -> Step]
  /\ cur \in [Worker -> Copy \cup {None}]
  /\ msg \in [Worker -> Msg \cup {None}]
  /\ published \subseteq Msg
  /\ mailed \subseteq Key
  /\ sent \in [Key -> Nat]
  /\ reported \subseteq Msg
  /\ failed \subseteq Msg
  /\ refused \subseteq Msg
  /\ overrun \subseteq Key
  /\ broken \in BOOLEAN
  /\ faults \in Nat

Init ==
  /\ place = [c \in Copy |-> "free"]
  /\ of = [c \in Copy |-> None]
  /\ tries = [c \in Copy |-> 0]
  /\ store = [k \in Key |-> "none"]
  /\ pc = [a \in Worker |-> "idle"]
  /\ cur = [a \in Worker |-> None]
  /\ msg = [a \in Worker |-> None]
  /\ published = {}
  /\ mailed = {}
  /\ sent = [k \in Key |-> 0]
  /\ reported = {}
  /\ failed = {}
  /\ refused = {}
  /\ overrun = {}
  /\ broken = FALSE
  /\ faults = 0

Fault(point) ==
  /\ point \in FaultPoint
  /\ faults < MaxFaults
  /\ faults' = faults + 1
  /\ broken' = (broken \/ point \in {"channel", "settle"})

K(a) == KeyOf[msg[a]]

----------------------------------------------------------------------------------
\* The queues.

Publish(m, c) ==
  /\ m \notin published
  /\ place[c] = "free"
  /\ place' = [place EXCEPT ![c] = "queue"]
  /\ of' = [of EXCEPT ![c] = m]
  /\ published' = published \cup {m}
  /\ UNCHANGED <<tries, store, workVars, overrun, mailVars, reported, failed, refused, faultVars>>

\* The TTL of the retry queue is over, and RabbitMQ moves the copy back.
Redeliver(c) ==
  /\ place[c] = "retry"
  /\ place' = [place EXCEPT ![c] = "queue"]
  /\ UNCHANGED <<of, tries, store, workVars, published, overrun, mailVars, reported, failed,
                 refused, faultVars>>

Drop(c) ==
  /\ place' = [place EXCEPT ![c] = "free"]
  /\ of' = [of EXCEPT ![c] = None]
  /\ tries' = [tries EXCEPT ![c] = 0]

Then(a, step) == pc' = [pc EXCEPT ![a] = step] /\ UNCHANGED <<cur, msg>>

Return(a) ==
  /\ pc' = [pc EXCEPT ![a] = "idle"]
  /\ cur' = [cur EXCEPT ![a] = None]
  /\ msg' = [msg EXCEPT ![a] = None]

\* ch.ack(msg).  On a closed channel it throws, and so does the handleRetry that
\* catches it: nothing happens, the broker has given the message out again.
Ack(a) ==
  /\ Return(a)
  /\ IF cur[a] = None THEN UNCHANGED copyVars ELSE Drop(cur[a])

\* handleRetry: to the retry queue or, after MAX_RETRIES, to the dead one.
\* Mutant of Exhausted: one retry too many.
ExhaustedLate(a) == tries[cur[a]] > MAX_RETRIES

Exhausted(a) == tries[cur[a]] >= MAX_RETRIES

\* Mutant of Move: the failure is reported after every attempt.
MoveAlways(a, step) ==
  /\ pc' = [pc EXCEPT ![a] = step]
  /\ cur' = [cur EXCEPT ![a] = None]
  /\ msg' = [msg EXCEPT ![a] = IF step = "idle" THEN None ELSE @]

\* After the last retry, the worker goes on at the step after; before, it is done.
Move(a, step) ==
  IF Exhausted(a)
  THEN /\ pc' = [pc EXCEPT ![a] = step]
       /\ cur' = [cur EXCEPT ![a] = None]
       /\ msg' = [msg EXCEPT ![a] = IF step = "idle" THEN None ELSE @]
  ELSE Return(a)

\* Mutant of handleRetry: the header x-retry-count is not written.
handleRetryUncounted(a, step) ==
  IF cur[a] = None
  THEN Return(a) /\ UNCHANGED copyVars
  ELSE /\ Move(a, step)
       /\ place' = [place EXCEPT ![cur[a]] = IF Exhausted(a) THEN "dead" ELSE "retry"]
       /\ UNCHANGED <<of, tries>>

handleRetry(a, step) ==
  \/ /\ cur[a] = None
     /\ Return(a)
     /\ UNCHANGED copyVars
  \/ /\ cur[a] # None
     /\ Move(a, step)
     /\ place' = [place EXCEPT ![cur[a]] = IF Exhausted(a) THEN "dead" ELSE "retry"]
     /\ tries' = [tries EXCEPT ![cur[a]] = IF Exhausted(a) THEN @ ELSE @ + 1]
     /\ UNCHANGED of

\* The same when the connection breaks behind sendToQueue, which does not tell: the
\* nack is lost, the message is given out again, and the new copy d may be there too.
handleRetryBreaks(a, step) ==
  /\ cur[a] # None
  /\ Fault("settle")
  /\ Move(a, step)
  /\ \/ /\ place' = [place EXCEPT ![cur[a]] = "queue"]
        /\ UNCHANGED <<of, tries>>
     \/ \E d \in Copy :
          /\ place[d] = "free"
          /\ place' = [place EXCEPT ![cur[a]] = "queue",
                                    ![d] = IF Exhausted(a) THEN "dead" ELSE "retry"]
          /\ of' = [of EXCEPT ![d] = msg[a]]
          /\ tries' = [tries EXCEPT ![d] = IF Exhausted(a) THEN tries[cur[a]] ELSE tries[cur[a]] + 1]

Retry(a, step) ==
  \/ handleRetry(a, step) /\ UNCHANGED faultVars
  \/ handleRetryBreaks(a, step)

----------------------------------------------------------------------------------
\* processMessage.

\* A copy is given out.  What does not parse is dead-lettered at once, and nobody
\* is told.
Take(a, c) ==
  /\ pc[a] = "idle"
  /\ place[c] = "queue"
  /\ IF of[c] \in Invalid
     THEN /\ place' = [place EXCEPT ![c] = "dead"]
          /\ UNCHANGED workVars
     ELSE /\ place' = [place EXCEPT ![c] = "held"]
          /\ pc' = [pc EXCEPT ![a] = "claim"]
          /\ cur' = [cur EXCEPT ![a] = c]
          /\ msg' = [msg EXCEPT ![a] = of[c]]
  /\ UNCHANGED <<of, tries, store, published, overrun, mailVars, reported, failed, refused,
                 faultVars>>

\* Mutant of Claim: SET without NX.
ClaimAnyway(a) ==
  /\ pc[a] = "claim"
  /\ store' = [store EXCEPT ![K(a)] = "pending"]
  /\ Then(a, "send")
  /\ UNCHANGED <<copyVars, published, overrun, mailVars, reported, failed, refused, faultVars>>

\* SET key pending EX lease NX.
Claim(a) ==
  /\ pc[a] = "claim"
  /\ IF store[K(a)] = "none"
     THEN store' = [store EXCEPT ![K(a)] = "pending"] /\ Then(a, "send")
     ELSE Then(a, "look") /\ UNCHANGED store
  /\ UNCHANGED <<copyVars, published, overrun, mailVars, reported, failed, refused, faultVars>>

\* Mutants of Look: a delivery that is done is skipped, not confirmed again; a delivery
\* in progress is taken for one that is done.
LookSkips(a) ==
  /\ pc[a] = "look"
  /\ IF store[K(a)] = "done" THEN Ack(a) /\ UNCHANGED faultVars ELSE Retry(a, "idle")
  /\ UNCHANGED <<store, published, overrun, mailVars, reported, failed, refused>>

LookTrusts(a) ==
  /\ pc[a] = "look"
  /\ Then(a, "report")
  /\ UNCHANGED <<copyVars, faultVars, store, published, overrun, mailVars, reported, failed, refused>>

\* GET key: confirm the delivery again, or wait for the one in progress.
Look(a) ==
  /\ pc[a] = "look"
  /\ \/ /\ store[K(a)] = "done"
        /\ Then(a, "report")
        /\ UNCHANGED <<copyVars, faultVars>>
     \/ /\ store[K(a)] # "done"
        /\ Retry(a, "idle")
  /\ UNCHANGED <<store, published, overrun, mailVars, reported, failed, refused>>

\* claim() throws, before or after Redis has set the key.
ClaimFails(a) ==
  /\ pc[a] \in {"claim", "look"}
  /\ Fault("claim")
  /\ handleRetry(a, "idle")
  /\ \/ UNCHANGED store
     \/ /\ pc[a] = "claim" /\ store[K(a)] = "none"
        /\ store' = [store EXCEPT ![K(a)] = "pending"]
  /\ UNCHANGED <<published, overrun, mailVars, reported, failed, refused>>

Accepted(a) ==
  /\ mailed' = mailed \cup {K(a)}
  /\ sent' = [sent EXCEPT ![K(a)] = @ + 1]

Send(a) ==
  /\ pc[a] = "send"
  /\ Accepted(a)
  /\ Then(a, "confirm")
  /\ UNCHANGED <<copyVars, store, published, overrun, reported, failed, refused, faultVars>>

SendFails(a) ==
  /\ pc[a] = "send"
  /\ \/ UNCHANGED <<mailVars, faultVars>>
     \/ Fault("smtp") /\ Accepted(a)
  /\ refused' = refused \cup {msg[a]}
  /\ Then(a, "release")
  /\ UNCHANGED <<copyVars, store, published, overrun, reported, failed>>

\* DEL key, whoever has set it, and the retry.
ReleaseKey(a) ==
  /\ pc[a] = "release"
  /\ store' = [store EXCEPT ![K(a)] = "none"]
  /\ Retry(a, "fail")
  /\ UNCHANGED <<published, overrun, mailVars, reported, failed, refused>>

ReleaseFails(a) ==
  /\ pc[a] = "release"
  /\ Fault("release")
  /\ handleRetry(a, "fail")
  /\ UNCHANGED <<store, published, overrun, mailVars, reported, failed, refused>>

\* Mutant of ConfirmKey: the key keeps its lease, and nothing more.
ConfirmNothing(a) ==
  /\ pc[a] = "confirm"
  /\ Then(a, "report")
  /\ UNCHANGED <<copyVars, store, published, overrun, mailVars, reported, failed, refused, faultVars>>

\* SET key done EX ttl.
ConfirmKey(a) ==
  /\ pc[a] = "confirm"
  /\ store' = [store EXCEPT ![K(a)] = "done"]
  /\ Then(a, "report")
  /\ UNCHANGED <<copyVars, published, overrun, mailVars, reported, failed, refused, faultVars>>

ConfirmFails(a) ==
  /\ pc[a] = "confirm"
  /\ Fault("confirm")
  /\ Then(a, "report")
  /\ UNCHANGED <<copyVars, store, published, overrun, mailVars, reported, failed, refused>>

\* confirmDelivery: one delivered event, or the SENT reply, twice; then the ack.
Report(a) ==
  /\ pc[a] \in {"report", "repeat"}
  /\ reported' = reported \cup {msg[a]}
  /\ IF pc[a] = "report" /\ msg[a] \notin Release
     THEN Then(a, "repeat") /\ UNCHANGED copyVars
     ELSE Ack(a)
  /\ UNCHANGED <<store, published, overrun, mailVars, failed, refused, faultVars>>

\* The publisher's promise rejects, the broker having the report or not.
ReportFails(a) ==
  /\ pc[a] \in {"report", "repeat"}
  /\ Fault("report")
  /\ handleRetry(a, "idle")
  /\ \/ UNCHANGED reported
     \/ reported' = reported \cup {msg[a]}
  /\ UNCHANGED <<store, published, overrun, mailVars, failed, refused>>

\* publishSagaFailure: the FAILED reply of a dead-lettered confirmation.
Fail(a) ==
  /\ pc[a] = "fail"
  /\ failed' = IF msg[a] \in Release THEN failed ELSE failed \cup {msg[a]}
  /\ Return(a)
  /\ UNCHANGED <<copyVars, store, published, overrun, mailVars, reported, refused, faultVars>>

FailFails(a) ==
  /\ pc[a] = "fail"
  /\ Fault("report")
  /\ Return(a)
  /\ UNCHANGED <<copyVars, store, published, overrun, mailVars, reported, failed, refused>>

----------------------------------------------------------------------------------
\* Redis forgets, and connections and processes end.

Claims(a) == pc[a] \in {"send", "release", "confirm"}
Sends(a, k) == Claims(a) /\ K(a) = k

\* The lease ends, maybe under a worker that is still sending: the code sets no SMTP
\* timeouts.
Lapse(k) ==
  /\ store[k] = "pending"
  /\ LET slow == \E a \in Worker : Sends(a, k) IN
     /\ slow => SlowDelivery
     /\ overrun' = IF slow THEN overrun \cup {k} ELSE overrun
  /\ store' = [store EXCEPT ![k] = "none"]
  /\ UNCHANGED <<copyVars, workVars, published, mailVars, reported, failed, refused, faultVars>>

\* A day after the delivery: no copy of a message with this key is around any more.
Expire(k) ==
  /\ store[k] = "done"
  /\ \A c \in Copy : of[c] # None /\ KeyOf[of[c]] = k => place[c] = "dead"
  /\ \A a \in Worker : msg[a] # None => K(a) # k
  /\ store' = [store EXCEPT ![k] = "none"]
  /\ sent' = [sent EXCEPT ![k] = 0]
  /\ overrun' = overrun \ {k}
  /\ UNCHANGED <<copyVars, workVars, published, mailed, reported, failed, refused, faultVars>>

\* The channel of a closes.  The call goes on, with nothing to settle.
ChannelCloses(a) ==
  /\ cur[a] # None
  /\ Fault("channel")
  /\ place' = [place EXCEPT ![cur[a]] = "queue"]
  /\ cur' = [cur EXCEPT ![a] = None]
  /\ UNCHANGED <<of, tries, store, pc, msg, published, overrun, mailVars, reported, failed, refused>>

Crash ==
  /\ Fault("crash")
  /\ place' = [c \in Copy |-> IF place[c] = "held" THEN "queue" ELSE place[c]]
  /\ pc' = [a \in Worker |-> "idle"]
  /\ cur' = [a \in Worker |-> None]
  /\ msg' = [a \in Worker |-> None]
  /\ UNCHANGED <<of, tries, store, published, overrun, mailVars, reported, failed, refused>>

----------------------------------------------------------------------------------

WorkerStep(a) ==
  \/ Claim(a) \/ Look(a) \/ Send(a) \/ SendFails(a) \/ ReleaseKey(a)
  \/ ConfirmKey(a) \/ Report(a) \/ Fail(a)

WorkerFault(a) ==
  \/ ClaimFails(a) \/ ReleaseFails(a) \/ ConfirmFails(a) \/ ReportFails(a)
  \/ FailFails(a) \/ ChannelCloses(a)

QueueStep ==
  \/ \E m \in Msg, c \in Copy : Publish(m, c)
  \/ \E c \in Copy : Redeliver(c) \/ \E a \in Worker : Take(a, c)

Next ==
  \/ QueueStep
  \/ \E a \in Worker : WorkerStep(a) \/ WorkerFault(a)
  \/ \E k \in Key : Lapse(k) \/ Expire(k)
  \/ Crash

SafeSpec == Init /\ [][Next]_vars

\* Awaited calls settle, the broker gives out what is in the queue as long as a
\* consumer is idle, and the TTL of the retry queue passes.
Fairness ==
  /\ \A a \in Worker : WF_vars(WorkerStep(a))
  /\ \A c \in Copy : WF_vars(Redeliver(c)) /\ WF_vars(\E a \in Worker : Take(a, c))

Spec == SafeSpec /\ Fairness

----------------------------------------------------------------------------------
\* Properties.

\* A message leaves the queues only once its mail was accepted and a report of the
\* delivery is out; until then, and for good if it is dead, a copy of it is there:
\* retries publish before they settle, and a report comes before the ack.
NothingVanishes ==
  \A m \in published : (\E c \in Copy : of[c] = m) \/ m \in reported

\* One mail for each key, and at most one more for each fault, unless a delivery has
\* outlasted the lease of the key: retries, messages given out again, and messages with
\* the same key send nothing twice.  (A fault between the SMTP server's answer and the
\* key's confirmation does.)
OneMailPerFault == \A k \in Key \ overrun : sent[k] <= 1 + faults

\* No two workers send for one key at once, unless a delivery has outlasted its lease: the
\* claim by SET NX is the only one, and a release takes away no claim but its own.
SendingExclusive ==
  \A k \in Key \ overrun :
    \A a, b \in Worker : Sends(a, k) /\ Sends(b, k) => a = b

\* Once FAILED is out, for which the API server removes the subscription, no worker
\* is about to send that message's mail, and no copy will bring it about: as long as
\* no connection has broken while a worker held a copy, also across crashes.
FailedIsFinal ==
  ~broken =>
    \A m \in failed :
      /\ \A c \in Copy : of[c] = m => place[c] = "dead"
      /\ \A a \in Worker : msg[a] = m => pc[a] \notin {"claim", "look", "send"}

\* What the API server is told: SENT only after the SMTP server accepted a mail with
\* the key of the message, FAILED only for a message it published.
Replies == ((reported \ Release) \X {"SENT"}) \cup (failed \X {"FAILED"})
Contract == INSTANCE ConfirmationMail WITH Request <- Msg, replies <- Replies
KeepsContract == Contract!MailInit /\ [][Contract!MailNext(KeyOf)]_<<published, mailed, Replies>>

\* Every message ends: no message goes round the retry queue for ever.
Ended(m) == \A c \in Copy : of[c] = m => place[c] = "dead"
EveryMessageEnds == \A m \in Msg : m \in published ~> Ended(m)

----------------------------------------------------------------------------------
\* What the code's own words claim and the code does not do.

\* system-design.md: notifications must not be lost in a temporary outage of the
\* system or of its components; so a message is given up only if its mail is out, or
\* the SMTP server has refused it.
GivenUpOnlyIfRefused ==
  \A c \in Copy :
    place[c] = "dead" /\ of[c] \notin Invalid
      => KeyOf[of[c]] \in mailed \/ of[c] \in refused
==================================================================================
