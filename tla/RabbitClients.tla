------------------------------ MODULE RabbitClients ------------------------------
(* What the three processes do with their RabbitMQ connection: consumers that        *)
(* subscribe, and subscribe again after a while when their channel or their          *)
(* connection is gone; publishers that keep a channel; and the shutdown, which       *)
(* closes one after the other.  A behaviour is that of one process, of any kind:     *)
(* they share no connection.                                                         *)
EXTENDS RabbitConnection, FiniteSets

CONSTANT MaxWork   \* bound: messages, and calls over gRPC, being worked on at once

ASSUME WorkAssumption == MaxWork \in Nat

VARIABLES
  process,   \* which of the services of docker-compose.yml this is; it never changes
  step,      \* step[h]: how far the client h has got
  link,      \* link[h]: the connection h waits for or has its channel on
  started,   \* the consumers that have subscribed once
  phase,     \* how far the shutdown has got
  inFlight,  \* the messages of email-send-queue being worked on
  calls,     \* the calls over gRPC that are open: their callers wait for an answer
  voided,    \* the handlers going on with calls whose deadline has passed
  timedOut,  \* history: did the drain of the e-mail consumer time out?
  late       \* history: did it subscribe after the shutdown had begun?

clientVars == <<step, link, started>>
stopVars == <<phase, inFlight, calls, voided, timedOut, late>>
allVars == <<connVars, process, clientVars, stopVars>>

\* A client is a consumer, a publisher's cached channel, or the timer by which the API
\* server and the scanner get their connection back, in several instances if the code
\* lets it happen.
Consumers == [app |-> {"reply"}, worker |-> {"delivered", "scan"}, notification |-> {"email"}]
Publisher == "publisher"
Client == {"reply", "delivered", "scan", "email", Publisher, "reconnect"} \X {1, 2}
Of(r) == {h \in Client : h[1] = r}

\* No channel; about to get the connection; setTimeout; getRabbitConnection; createChannel
\* and what precedes consume; consume; subscribed, or with a channel to publish on;
\* cancelling and cancelled.
Step == {"off", "start", "timer", "connect", "open", "consume", "on", "cancel", "cancelled"}
Phase == {"run", "cancel", "drain", "channel", "grpc", "rabbit", "closing", "redis", "metrics",
          "exited"}

TypeOK ==
  /\ ConnTypeOK
  /\ process \in DOMAIN Consumers
  /\ step \in [Client -> Step]
  /\ link \in [Client -> Conn \cup {None}]
  /\ \A h \in Client : link[h] # None <=> step[h] \notin {"off", "start", "timer"}
  /\ started \subseteq Consumers[process]
  /\ phase \in Phase
  /\ inFlight \in 0 .. MaxWork
  /\ calls \in Nat
  /\ voided \in Nat
  /\ calls + voided <= MaxWork
  /\ timedOut \in BOOLEAN
  /\ late \in BOOLEAN

\* app.ts, startWorker, index.ts: the scanner's subscription waits for the other one's.
StartsWith(h) ==
  h[2] = 1 /\ h[1] \in Consumers[process] \ {"scan"}

FirstStep == [h \in Client |-> IF StartsWith(h) THEN "start" ELSE "off"]
NoLink == [h \in Client |-> None]

Init ==
  /\ ConnInit
  /\ process \in DOMAIN Consumers
  /\ step = FirstStep
  /\ link = NoLink
  /\ started = {}
  /\ phase = "run"
  /\ inFlight = 0
  /\ calls = 0
  /\ voided = 0
  /\ timedOut = FALSE
  /\ late = FALSE

\* restart: on-failure; a process being stopped is gone for good.
Exit ==
  /\ ConnDies
  /\ step' = FirstStep
  /\ link' = NoLink
  /\ started' = {}
  /\ inFlight' = 0
  /\ calls' = 0
  /\ voided' = 0
  /\ phase' = IF phase = "run" THEN "run" ELSE "exited"
  /\ UNCHANGED <<process, timedOut, late>>

----------------------------------------------------------------------------------
\* Clients whose connection or channel is gone.

\* Two rejections kill the process: that of a consume nobody awaits, and that of the first
\* subscription of one of the scanner's consumers.
Fatal(h) ==
  \/ process # "notification" /\ step[h] = "consume"
  \/ process = "worker" /\ step[h] \in {"connect", "open"}
     /\ h[1] \in Consumers[process] \ started

\* Mutant of scheduleReconnect: without the test of reconnectTimer.
scheduleReconnectTwice(T, h) ==
  IF phase = "run" THEN T \cup (IF h \in T THEN Of("email") ELSE {h}) ELSE T

\* A call of the e-mail consumer's scheduleReconnect, T being where its timers are: one for
\* h, unless it is shuttingDown or a timer is set.
scheduleReconnect(T, h) ==
  IF phase = "run" /\ T = {} THEN {h} ELSE T

EmailTimers == {h \in Of("email") : step[h] = "timer"}

\* Mutant of ConsumerLost: an attempt that fails is not repeated.
ConsumerLostOnce(h) ==
  IF step[h] \in {"connect", "open"} THEN {} ELSE scheduleReconnect(EmailTimers, h)

\* The timers the e-mail consumer sets: the channel's 'close' handler calls
\* scheduleReconnect, and so does the catch of the setup this ends; a failed consume
\* brings both.
ConsumerLost(h) ==
  LET closed == IF step[h] \in {"connect", "open"}
                THEN EmailTimers ELSE scheduleReconnect(EmailTimers, h)
      caught == IF step[h] \in {"connect", "open", "consume"}
                THEN scheduleReconnect(closed, h) ELSE closed
  IN caught \ EmailTimers

\* The clients for which a timer is set: those that subscribe again.
Rescheduled(H) ==
  {h \in H : h[1] \in {"delivered", "scan", "reconnect"}}
  \cup UNION {ConsumerLost(h) : h \in {g \in H : g[1] = "email"}}

\* Those of H lose what they have; more are the timers of the connection's own close.
Lose(H, more) ==
  LET timers == Rescheduled(H) \cup more IN
  /\ step' = [h \in Client |->
       IF h \in timers THEN "timer" ELSE IF h \in H THEN "off" ELSE step[h]]
  /\ link' = [h \in Client |-> IF h \in H THEN None ELSE link[h]]
  /\ started' = started \cup (Consumers[process] \cap {h[1] : h \in H})

\* Either they do, or the process dies.
Suffer(H, event, more) ==
  \/ /\ \A h \in H : ~Fatal(h)
     /\ event
     /\ Lose(H, more)
     /\ UNCHANGED <<process, stopVars>>
  \/ /\ \E h \in H : Fatal(h)
     /\ Exit

On(c) == {h \in Client : link[h] = c}

\* The 'close' handler of the API server and of the scanner gets the connection back;
\* bound: two of its timers are told apart, a third comes to what the others do.
Reconnecting ==
  LET free == {h \in Of("reconnect") : step[h] = "off"}
  IN IF process = "notification" \/ phase # "run" \/ free = {}
     THEN {}
     ELSE {CHOOSE h \in free : TRUE}

RejectConnect(c) ==
  /\ conn[c] = "connecting"
  /\ Fault("connect")
  /\ Suffer(On(c), ConnectFails(c), {})

Break(c) ==
  /\ conn[c] = "open"
  /\ Fault("break")
  /\ Suffer(On(c), Breaks(c), Reconnecting)

ProtocolError(c) ==
  /\ Fault("protocol")
  /\ onError(c)
  /\ UNCHANGED <<process, clientVars, stopVars>>

Close(c) ==
  /\ conn[c] = "closing"
  /\ UNCHANGED faults
  /\ Suffer(On(c), Closes(c), Reconnecting)

ChannelDies(h) ==
  /\ step[h] \in {"open", "consume", "on", "cancel", "cancelled"}
  /\ Fault("channel")
  /\ Suffer({h}, UNCHANGED <<connectionPromise, conn, pending, errors>>, {})

----------------------------------------------------------------------------------
\* setupConsumer, subscribe, startDeliveredConsumer, startConfirmationReplyConsumer,
\* getChannel of the publishers.

\* Where a client goes once it has the connection.
WithConnection(h) == IF h[1] = "reconnect" THEN "off" ELSE "open"

\* Somebody publishes: in the notification service, the processing of a message.
Wanted(h) ==
  /\ h = <<Publisher, 1>>
  /\ step[h] = "off"
  /\ process = "notification" => inFlight > 0

GetConnection(h) ==
  /\ step[h] \in {"start", "timer"} \/ Wanted(h)
  /\ \E c \in Conn :
       /\ getRabbitConnection(c)
       /\ LET there == conn[c] = "open" IN
          /\ step' = [step EXCEPT ![h] = IF there THEN WithConnection(h) ELSE "connect"]
          /\ link' = [link EXCEPT ![h] = IF there /\ h[1] = "reconnect" THEN None ELSE c]
  /\ UNCHANGED <<process, started, stopVars>>

Connected(c) ==
  /\ Connects(c)
  /\ step' = [h \in Client |-> IF link[h] = c THEN WithConnection(h) ELSE step[h]]
  /\ link' = [h \in Client |-> IF link[h] = c /\ h[1] = "reconnect" THEN None ELSE link[h]]
  /\ UNCHANGED <<process, started, stopVars>>

\* The channel and its queues are there.  Only the e-mail consumer awaits consume, and the
\* scanner's first two subscriptions come one after the other.
Opened(h) ==
  /\ step[h] = "open"
  /\ conn[link[h]] = "open"
  /\ step' = [g \in Client |->
       IF g = h THEN IF h[1] = Publisher THEN "on" ELSE "consume"
       ELSE IF g = <<"scan", 1>> /\ h[1] = "delivered" /\ step[g] = "off" THEN "start"
       ELSE step[g]]
  /\ started' = started \cup ({h[1]} \cap {"reply", "delivered", "scan"})
  /\ UNCHANGED <<connVars, process, link, stopVars>>

Subscribed(h) ==
  /\ step[h] = "consume"
  /\ conn[link[h]] = "open"
  /\ step' = [step EXCEPT ![h] = "on"]
  /\ started' = started \cup {h[1]}
  /\ late' = (late \/ phase # "run")
  /\ UNCHANGED <<connVars, process, link, phase, inFlight, calls, voided, timedOut>>

----------------------------------------------------------------------------------
\* The work of the notification service.

Work(messages, open, handlers) ==
  /\ inFlight' = inFlight + messages
  /\ calls' = calls + open
  /\ voided' = voided + handlers
  /\ UNCHANGED <<connVars, process, clientVars, phase, timedOut, late>>

Receive ==
  /\ \E h \in Of("email") : step[h] \in {"on", "cancel"}
  /\ inFlight < MaxWork
  /\ Work(1, 0, 0)

\* Mutant of Settle: counted down twice.
SettleTwice == inFlight > 0 /\ Work(0 - 2, 0, 0)

\* processMessage is over.
Settle == inFlight > 0 /\ Work(0 - 1, 0, 0)

\* tryShutdown refuses new calls.
CallArrives ==
  /\ process = "notification"
  /\ phase \in {"run", "cancel", "drain", "channel"}
  /\ calls + voided < MaxWork
  /\ Work(0, 1, 0)

\* The handler answers, and with that the call is over.
CallEnds == calls > 0 /\ Work(0, 0 - 1, 0)

\* The deadline of the caller, or its end: the call is over, and the handler, which nobody
\* awaits, goes on.
DeadlinePasses == calls > 0 /\ Work(0, 0 - 1, 1)

\* That handler comes to its end; its answer goes nowhere.
HandlerEnds == voided > 0 /\ Work(0, 0, 0 - 1)

----------------------------------------------------------------------------------
\* The shutdown on SIGTERM, index.ts and app.ts; the scanner has none.

To(p) == phase' = p /\ UNCHANGED <<process, inFlight, calls, voided, late>>

Signal ==
  /\ phase = "run"
  /\ \/ process = "app" /\ TakePromise /\ To("closing") /\ UNCHANGED step
     \/ /\ process = "notification"
        /\ UNCHANGED connVars
        /\ "email" \in started
        /\ To("cancel")
        /\ step' = [h \in Client |->
             IF h[1] = "email" /\ step[h] = "timer" THEN "off"
             ELSE IF h[1] = "email" /\ step[h] = "on" THEN "cancel"
             ELSE step[h]]
  /\ UNCHANGED <<link, started, timedOut>>

\* channel.cancel has been answered, has failed, or was not called for.
Cancelled ==
  /\ phase = "cancel"
  /\ To("drain")
  /\ step' = [h \in Client |-> IF step[h] = "cancel" THEN "cancelled" ELSE step[h]]
  /\ UNCHANGED <<connVars, link, started, timedOut>>

\* Mutant of Drain: no deadline.
DrainForever ==
  /\ phase = "drain"
  /\ inFlight = 0
  /\ To("channel")
  /\ UNCHANGED <<connVars, clientVars, timedOut>>

\* The deadline is config.consumer.shutdownTimeoutMs.
Drain ==
  /\ phase = "drain"
  /\ To("channel")
  /\ timedOut' = (inFlight > 0)
  /\ UNCHANGED <<connVars, clientVars>>

CloseChannel ==
  /\ phase = "channel"
  /\ To("grpc")
  /\ LET H == {h \in Of("email") : step[h] \in {"on", "cancelled"}} IN Lose(H, {})
  /\ UNCHANGED <<connVars, timedOut>>

\* Mutant of tryShutdown: forceShutdown.
tryShutdownForced ==
  /\ phase = "grpc"
  /\ To("rabbit")
  /\ UNCHANGED <<connVars, clientVars, timedOut>>

\* It waits for calls that are open, and not for handlers whose call is over.
tryShutdown ==
  /\ phase = "grpc"
  /\ calls = 0
  /\ To("rabbit")
  /\ UNCHANGED <<connVars, clientVars, timedOut>>

closeRabbitConnection ==
  /\ \/ phase = "rabbit" /\ TakePromise /\ To("closing")
     \/ phase = "closing" /\ CloseTaken /\ To("closing")
     \/ /\ phase = "closing"
        /\ pending = None
        /\ To(IF process = "notification" THEN "redis" ELSE "exited")
        /\ UNCHANGED connVars
  /\ UNCHANGED <<clientVars, timedOut>>

\* A quit that rejects is a rejection nobody handles: the process ends there.
closeRedis ==
  /\ phase = "redis"
  /\ To("metrics") \/ To("exited")
  /\ UNCHANGED <<connVars, clientVars, timedOut>>

closeMetrics ==
  /\ phase = "metrics"
  /\ To("exited")
  /\ UNCHANGED <<connVars, clientVars, timedOut>>

StopStep ==
  \/ Cancelled \/ Drain \/ CloseChannel \/ tryShutdown
  \/ closeRabbitConnection \/ closeRedis \/ closeMetrics

----------------------------------------------------------------------------------

Next ==
  /\ phase # "exited"
  /\ \/ \E h \in Client : GetConnection(h) \/ Opened(h) \/ Subscribed(h) \/ ChannelDies(h)
     \/ \E c \in Conn :
          Connected(c) \/ RejectConnect(c) \/ Break(c) \/ ProtocolError(c) \/ Close(c)
     \/ Receive \/ Settle \/ CallArrives \/ CallEnds \/ DeadlinePasses \/ HandlerEnds
     \/ Signal \/ StopStep

\* Awaited calls settle, timers fire, the broker can be reached but for the faults, and
\* there is always something to publish.  A call over gRPC ends, by its deadline at the
\* latest; nothing is assumed of the handler.
Running(A) == phase # "exited" /\ A
Fairness ==
  /\ \A h \in Client : WF_allVars(Running(GetConnection(h) \/ Opened(h) \/ Subscribed(h)))
  /\ \A c \in Conn : WF_allVars(Running(Connected(c) \/ Close(c)))
  /\ WF_allVars(CallEnds \/ DeadlinePasses)
  /\ WF_allVars(StopStep)

Spec == Init /\ [][Next]_allVars /\ Fairness

----------------------------------------------------------------------------------
\* Properties.

\* All of a process shares one connection until it is closed; only a late 'close' event,
\* which clears the promise of the connection made since, adds one, which nobody is given
\* again and nothing will close.
OneConnection ==
  phase \notin {"closing", "redis", "metrics", "exited"} =>
    Cardinality({c \in Conn : conn[c] \in {"connecting", "open"}}) <= 1 + errors

\* A consumer never gets its messages on two channels at once: a channel that is lost, with
\* the failure of what was awaited on it, sets one timer.
OneSubscription ==
  \A g, h \in Client :
    g[1] = h[1] /\ step[g] # "off" /\ step[h] # "off" => g = h \/ g[1] = "reconnect"

\* When the notification service exits, nobody waits for the answer to a call over gRPC: it
\* cuts off the handlers at most whose callers have given up before.  A message is being
\* worked on only if the drain timed out, or the consumer had subscribed behind the back of
\* the shutdown (it was at setupConsumer when the signal came).
NoWorkCutOff ==
  phase = "exited" => calls = 0 /\ (inFlight > 0 => timedOut \/ late)

\* Once the faults are over, the consumers of the scanner and of the notification service
\* are subscribed, and the API server and the scanner can publish, until they are stopped.
\* (The API server's consumer of replies subscribes once.)
Back(r) == <>[](phase = "run" => \E h \in Of(r) : step[h] = "on")
EveryClientReturns ==
  /\ \A r \in {"delivered", "scan", "email"} : r \in Consumers[process] => Back(r)
  /\ process # "notification" => Back(Publisher)

\* A shutdown ends, whatever it interrupts and whatever fails on the way.
ShutdownEnds == phase # "run" ~> phase = "exited"
==================================================================================
