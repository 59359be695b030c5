--------------------------- MODULE RabbitClientsProofs ---------------------------
(* Proofs about RabbitClients, for every number of connections, faults and messages *)
(* being worked on.                                                                 *)
EXTENDS RabbitClients, FiniteSetTheorems, TLAPS

\* The inductive invariant, in named parts.

\* Whatever ends a connection clears the promise first, and what closeRabbitConnection
\* waits for is a connection of its own.
PromiseInv ==
  /\ NoStalePromise
  /\ pending # None => conn[pending] # "over" /\ pending # connectionPromise

\* The connections nobody is given any more: each is owed to a protocol error, and gone
\* with its 'close' event.
Forsaken == {c \in Conn : conn[c] # "over" /\ c # connectionPromise}

ForsakenInv == phase \notin {"closing", "redis", "metrics", "exited"} => Cardinality(Forsaken) <= errors

\* TypeOK, by owner.
ClientTypes ==
  /\ process \in DOMAIN Consumers
  /\ step \in [Client -> Step]
  /\ link \in [Client -> Conn \cup {None}]
  /\ \A h \in Client : link[h] # None <=> step[h] \notin {"off", "start", "timer"}
  /\ started \subseteq Consumers[process]

StopTypes ==
  /\ phase \in Phase
  /\ inFlight \in 0 .. MaxWork
  /\ calls \in Nat
  /\ voided \in Nat
  /\ calls + voided <= MaxWork
  /\ timedOut \in BOOLEAN
  /\ late \in BOOLEAN

\* The clients are those of the process, each once; a timer that gets the connection back
\* ends with it, and only consumers consume and are cancelled.
ClientInv ==
  \A h \in Client : step[h] # "off" =>
    /\ h[1] \in Consumers[process] \cup {Publisher, "reconnect"}
    /\ h[2] = 1 \/ h[1] = "reconnect"
    /\ h[1] = "reconnect" => step[h] \in {"timer", "connect"}
    /\ h[1] = Publisher => step[h] \in {"connect", "open", "on"}

\* Work is the notification service's, which waits for it: with a deadline for messages,
\* without one for open calls, and refuses calls first.
WorkInv ==
  /\ process # "notification" => calls = 0 /\ inFlight = 0
  /\ phase \in {"rabbit", "closing", "redis", "metrics", "exited"} => calls = 0
  /\ phase \notin {"run", "cancel", "drain"} => (inFlight > 0 => timedOut \/ late)

\* The shutdown cancels the e-mail consumer before it waits: one that is subscribed then
\* had subscribed too late.
CancelInv ==
  /\ phase # "run" => \A h \in Of("email") : step[h] = "on" => late
  /\ phase # "cancel" => \A h \in Of("email") : step[h] # "cancel"

----------------------------------------------------------------------------------
\* The connection: which of its calls and events a step is.

ConnChange ==
  \/ UNCHANGED <<connectionPromise, conn, pending, errors>>
  \/ \E c \in Conn : getRabbitConnection(c) \/ Connects(c) \/ ConnectFails(c)
  \/ \E c \in Conn : Breaks(c) \/ onError(c) \/ Closes(c)
  \/ TakePromise /\ phase' = "closing"
  \/ CloseTaken /\ phase = "closing"
  \/ ConnDies

LEMMA ConnChanges == ASSUME [Next]_allVars PROVE ConnChange
  <1>. USE DEF connVars, ConnChange
  <1>1. ASSUME NEW h \in Client, GetConnection(h) \/ Opened(h) \/ Subscribed(h) PROVE ConnChange
    BY <1>1 DEF GetConnection, Opened, Subscribed
  <1>2. ASSUME NEW h \in Client, ChannelDies(h) PROVE ConnChange
    BY <1>2 DEF ChannelDies, Suffer, Exit
  <1>3. ASSUME NEW c \in Conn, Connected(c) PROVE ConnChange
    BY <1>3 DEF Connected
  <1>4. ASSUME NEW c \in Conn, RejectConnect(c) PROVE ConnChange
    BY <1>4 DEF RejectConnect, Suffer, Exit
  <1>5. ASSUME NEW c \in Conn, Break(c) PROVE ConnChange
    BY <1>5 DEF Break, Suffer, Exit
  <1>6. ASSUME NEW c \in Conn, ProtocolError(c) PROVE ConnChange
    BY <1>6 DEF ProtocolError
  <1>7. ASSUME NEW c \in Conn, Close(c) PROVE ConnChange
    BY <1>7 DEF Close, Suffer, Exit
  <1>8. CASE Receive \/ Settle \/ CallArrives \/ CallEnds \/ DeadlinePasses \/ HandlerEnds
    BY <1>8 DEF Receive, Settle, CallArrives, CallEnds, DeadlinePasses, HandlerEnds, Work
  <1>9. CASE Signal
    BY <1>9 DEF Signal, To
  <1>10. CASE StopStep
    BY <1>10 DEF StopStep, Cancelled, Drain, CloseChannel, tryShutdown, closeRabbitConnection, closeRedis,
       closeMetrics,
       To
  <1>11. CASE UNCHANGED allVars
    BY <1>11 DEF allVars
  <1>. QED
    BY <1>1, <1>2, <1>3, <1>4, <1>5, <1>6, <1>7, <1>8, <1>9, <1>10, <1>11 DEF Next

\* Only the faults counted are left.
LEMMA FaultsType == ASSUME faults \in Nat, [Next]_allVars PROVE faults' \in Nat
  <1>1. UNCHANGED faults \/ faults' = faults + 1
    BY DEF Next, GetConnection, getRabbitConnection, Opened, Subscribed, ChannelDies, Connected, Connects,
       RejectConnect, Break, ProtocolError, Close, Receive, Settle, CallArrives, CallEnds, DeadlinePasses, HandlerEnds, Work, Signal,
       StopStep, Cancelled, Drain, CloseChannel, tryShutdown, closeRabbitConnection, closeRedis, closeMetrics, To,
       TakePromise, CloseTaken, Fault, connVars, allVars
  <1>. QED
    BY <1>1

LEMMA ConnTypeStep == ASSUME ConnTypeOK, [Next]_allVars PROVE ConnTypeOK'
  <1>. USE ConnectionAssumption, FaultsType DEF ConnTypeOK
  <1>1. CASE UNCHANGED <<connectionPromise, conn, pending, errors>>
    BY <1>1
  <1>2. ASSUME NEW c \in Conn, getRabbitConnection(c) PROVE ConnTypeOK'
    BY <1>2 DEF getRabbitConnection
  <1>3. ASSUME NEW c \in Conn, Connects(c) PROVE ConnTypeOK'
    BY <1>3 DEF Connects
  <1>4. ASSUME NEW c \in Conn, ConnectFails(c) PROVE ConnTypeOK'
    BY <1>4 DEF ConnectFails, Over
  <1>5. ASSUME NEW c \in Conn, Breaks(c) \/ Closes(c) PROVE ConnTypeOK'
    BY <1>5 DEF Breaks, Closes, onClose, Over
  <1>6. ASSUME NEW c \in Conn, onError(c) PROVE ConnTypeOK'
    BY <1>6 DEF onError
  <1>7. CASE TakePromise \/ CloseTaken
    BY <1>7 DEF TakePromise, CloseTaken
  <1>8. CASE ConnDies
    BY <1>8 DEF ConnDies, NoConn
  <1>. QED
    BY ConnChanges, <1>1, <1>2, <1>3, <1>4, <1>5, <1>6, <1>7, <1>8 DEF ConnChange

LEMMA PromiseStep == ASSUME ConnTypeOK, PromiseInv, [Next]_allVars PROVE PromiseInv'
  <1>. USE ConnectionAssumption DEF ConnTypeOK, PromiseInv, NoStalePromise, Conn
  <1>1. CASE UNCHANGED <<connectionPromise, conn, pending, errors>>
    BY <1>1
  <1>2. ASSUME NEW c \in Conn, getRabbitConnection(c) PROVE PromiseInv'
    BY <1>2 DEF getRabbitConnection, Fresh
  <1>3. ASSUME NEW c \in Conn, Connects(c) PROVE PromiseInv'
    BY <1>3 DEF Connects
  <1>4. ASSUME NEW c \in Conn, ConnectFails(c) PROVE PromiseInv'
    BY <1>4 DEF ConnectFails, Over
  <1>5. ASSUME NEW c \in Conn, Breaks(c) \/ Closes(c) PROVE PromiseInv'
    BY <1>5 DEF Breaks, Closes, onClose, Over
  <1>6. ASSUME NEW c \in Conn, onError(c) PROVE PromiseInv'
    BY <1>6 DEF onError
  <1>7. CASE TakePromise
    BY <1>7 DEF TakePromise
  <1>8. CASE CloseTaken
    BY <1>8 DEF CloseTaken
  <1>9. CASE ConnDies
    BY <1>9 DEF ConnDies
  <1>. QED
    BY ConnChanges, <1>1, <1>2, <1>3, <1>4, <1>5, <1>6, <1>7, <1>8, <1>9 DEF ConnChange

LEMMA ForsakenFinite == IsFiniteSet(Forsaken) /\ Cardinality(Forsaken) \in Nat
  <1>1. IsFiniteSet(Conn)
    BY ConnectionAssumption, FS_Interval DEF Conn
  <1>2. IsFiniteSet(Forsaken)
    BY <1>1, FS_Subset DEF Forsaken
  <1>. QED
    BY <1>2, FS_CardinalityType

LEMMA GrowsByOne ==
  ASSUME NEW S, NEW x, IsFiniteSet(S)
  PROVE  IsFiniteSet(S \cup {x}) /\ Cardinality(S \cup {x}) <= Cardinality(S) + 1
  <1>1. Cardinality(S) \in Nat
    BY FS_CardinalityType
  <1>2. /\ IsFiniteSet(S \cup {x})
        /\ Cardinality(S \cup {x}) = IF x \in S THEN Cardinality(S) ELSE Cardinality(S) + 1
    BY FS_AddElement
  <1>. QED
    BY <1>1, <1>2

\* A connection that is over and a promise that is gone: nobody is one too many.
LEMMA OverForsakes ==
  ASSUME ConnTypeOK, PromiseInv, NEW c \in Conn, conn[c] # "over", Over(c), connectionPromise' = None
  PROVE  Cardinality(Forsaken') <= Cardinality(Forsaken)
  <1>. DEFINE p == connectionPromise
  <1>1. Forsaken' \subseteq (Forsaken \cup {p}) \ {c}
    BY DEF Forsaken, Over, ConnTypeOK
  <1>2. IsFiniteSet(Forsaken) /\ Cardinality(Forsaken) \in Nat
    BY ForsakenFinite
  <1>3. CASE c = p
    <2>1. Forsaken' \subseteq Forsaken
      BY <1>1, <1>3
    <2>. QED
      BY <1>2, <2>1, FS_Subset
  <1>4. CASE c # p
    <2>1. c \in Forsaken
      BY <1>4 DEF Forsaken
    <2>2. /\ IsFiniteSet(Forsaken \ {c})
          /\ Cardinality(Forsaken \ {c}) = Cardinality(Forsaken) - 1
      BY <1>2, <2>1, FS_RemoveElement
    <2>3. /\ IsFiniteSet((Forsaken \ {c}) \cup {p})
          /\ Cardinality((Forsaken \ {c}) \cup {p}) <= (Cardinality(Forsaken) - 1) + 1
      BY <1>2, <2>2, GrowsByOne
    <2>4. Forsaken' \subseteq (Forsaken \ {c}) \cup {p}
      BY <1>1
    <2>5. Cardinality(Forsaken') <= Cardinality((Forsaken \ {c}) \cup {p})
      BY <2>3, <2>4, FS_Subset
    <2>6. Cardinality(Forsaken') \in Nat /\ Cardinality((Forsaken \ {c}) \cup {p}) \in Nat
      BY <2>3, <2>4, FS_Subset, FS_CardinalityType
    <2>. QED
      BY <1>2, <2>3, <2>5, <2>6
  <1>. QED
    BY <1>3, <1>4

\* A protocol error may forsake the connection of the promise, and it counts as an error.
LEMMA ErrorForsakes ==
  ASSUME ConnTypeOK, PromiseInv, NEW c \in Conn, onError(c)
  PROVE  Cardinality(Forsaken') <= Cardinality(Forsaken) + 1
  <1>. DEFINE p == connectionPromise
  <1>1. Forsaken' \subseteq Forsaken \cup {p}
    BY DEF Forsaken, onError, ConnTypeOK
  <1>2. IsFiniteSet(Forsaken) /\ Cardinality(Forsaken) \in Nat
    BY ForsakenFinite
  <1>3. /\ IsFiniteSet(Forsaken \cup {p})
        /\ Cardinality(Forsaken \cup {p}) <= Cardinality(Forsaken) + 1
    BY <1>2, GrowsByOne
  <1>4. Cardinality(Forsaken') <= Cardinality(Forsaken \cup {p})
    BY <1>1, <1>3, FS_Subset
  <1>5. Cardinality(Forsaken') \in Nat /\ Cardinality(Forsaken \cup {p}) \in Nat
    BY <1>1, <1>3, FS_Subset, FS_CardinalityType
  <1>. QED
    BY <1>2, <1>3, <1>4, <1>5

\* The shutdown goes on.
LEMMA PhaseStep ==
  ASSUME [Next]_allVars, phase \in {"closing", "redis", "metrics", "exited"}
  PROVE  phase' \in {"closing", "redis", "metrics", "exited"}
  <1>. USE DEF stopVars
  <1>1. ASSUME NEW h \in Client, GetConnection(h) \/ Opened(h) \/ Subscribed(h) \/ ChannelDies(h)
        PROVE  phase' \in {"closing", "redis", "metrics", "exited"}
    BY <1>1 DEF GetConnection, Opened, Subscribed, ChannelDies, Suffer, Exit
  <1>2. ASSUME NEW c \in Conn, Connected(c) \/ RejectConnect(c) \/ Break(c) \/ ProtocolError(c) \/ Close(c)
        PROVE  phase' \in {"closing", "redis", "metrics", "exited"}
    BY <1>2 DEF Connected, RejectConnect, Break, ProtocolError, Close, Suffer, Exit
  <1>3. CASE Receive \/ Settle \/ CallArrives \/ CallEnds \/ DeadlinePasses \/ HandlerEnds
    BY <1>3 DEF Receive, Settle, CallArrives, CallEnds, DeadlinePasses, HandlerEnds, Work
  <1>4. CASE Signal \/ StopStep
    BY <1>4 DEF Signal, StopStep, Cancelled, Drain, CloseChannel, tryShutdown, closeRabbitConnection,
       closeRedis, closeMetrics, To
  <1>5. CASE UNCHANGED allVars
    BY <1>5 DEF allVars
  <1>. QED
    BY <1>1, <1>2, <1>3, <1>4, <1>5 DEF Next

LEMMA ForsakenStep ==
  ASSUME ConnTypeOK, PromiseInv, ForsakenInv, [Next]_allVars PROVE ForsakenInv'
  <1>. SUFFICES ASSUME phase' \notin {"closing", "redis", "metrics", "exited"},
                       phase \notin {"closing", "redis", "metrics", "exited"}
                PROVE  Cardinality(Forsaken') <= errors'
    BY PhaseStep DEF ForsakenInv
  <1>1. /\ Cardinality(Forsaken) <= errors
        /\ Cardinality(Forsaken) \in Nat /\ Cardinality(Forsaken') \in Nat /\ errors \in Nat
    <2>1. IsFiniteSet(Forsaken')
      <3>1. IsFiniteSet(Conn)
        BY ConnectionAssumption, FS_Interval DEF Conn
      <3>. QED
        BY <3>1, FS_Subset DEF Forsaken
    <2>. QED
      BY <2>1, ForsakenFinite, FS_CardinalityType DEF ForsakenInv, ConnTypeOK
  <1>2. ASSUME Forsaken' = Forsaken, errors' = errors PROVE Cardinality(Forsaken') <= errors'
    BY <1>1, <1>2
  <1>3. CASE UNCHANGED <<connectionPromise, conn, pending, errors>>
    BY <1>2, <1>3 DEF Forsaken
  <1>4. ASSUME NEW c \in Conn, getRabbitConnection(c) PROVE Cardinality(Forsaken') <= errors'
    BY <1>2, <1>4, ConnectionAssumption DEF getRabbitConnection, Fresh, Forsaken, ConnTypeOK, Conn
  <1>5. ASSUME NEW c \in Conn, Connects(c) PROVE Cardinality(Forsaken') <= errors'
    BY <1>2, <1>5 DEF Connects, Forsaken, ConnTypeOK
  <1>6. ASSUME NEW c \in Conn, ConnectFails(c) \/ Breaks(c) \/ Closes(c)
        PROVE  Cardinality(Forsaken') <= errors'
    BY <1>1, <1>6, OverForsakes DEF ConnectFails, Breaks, Closes, onClose
  <1>7. ASSUME NEW c \in Conn, onError(c) PROVE Cardinality(Forsaken') <= errors'
    <2>1. Cardinality(Forsaken') <= Cardinality(Forsaken) + 1
      BY <1>7, ErrorForsakes
    <2>2. errors' = errors + 1
      BY <1>7 DEF onError
    <2>. QED
      BY <1>1, <2>1, <2>2
  <1>8. CASE ConnDies
    <2>1. Forsaken' = {} /\ errors' = 0
      BY <1>8 DEF ConnDies, NoConn, Forsaken
    <2>. QED
      BY <2>1, FS_EmptySet
  <1>. QED
    BY ConnChanges, <1>3, <1>4, <1>5, <1>6, <1>7, <1>8 DEF ConnChange

----------------------------------------------------------------------------------
\* The clients: which of their steps a step is.

LEMMA Names ==
  ASSUME process \in DOMAIN Consumers
  PROVE  /\ Consumers[process] \subseteq {"reply", "delivered", "scan", "email"}
         /\ "email" \in Consumers[process] <=> process = "notification"
         /\ process = "notification" => Consumers[process] = {"email"}
  BY DEF Consumers

LEMMA ScheduleReconnect ==
  ASSUME NEW H
  PROVE  Rescheduled(H) \subseteq {h \in H : h[1] \in {"delivered", "scan", "reconnect", "email"}}
  <1>1. ASSUME NEW h PROVE ConsumerLost(h) \subseteq {h}
    <2>1. ASSUME NEW T PROVE scheduleReconnect(T, h) \in {T, {h}}
      BY DEF scheduleReconnect
    <2>2. scheduleReconnect(EmailTimers, h) \subseteq EmailTimers \cup {h}
      BY <2>1
    <2>3. ASSUME NEW T, T \subseteq EmailTimers \cup {h}
          PROVE  scheduleReconnect(T, h) \subseteq EmailTimers \cup {h}
      BY <2>1, <2>3
    <2>. QED
      BY <2>2, <2>3 DEF ConsumerLost
  <1>. QED
    BY <1>1 DEF Rescheduled

\* The clients of H lose what they have, and those of more get the connection back.
Lost(H, more) ==
  /\ \A h \in H : step[h] \notin {"off", "start", "timer"}
  /\ \A h \in more : h[1] = "reconnect" /\ step[h] = "off"
  /\ Lose(H, more)
  /\ UNCHANGED process

LEMMA OnIsLinked ==
  ASSUME ClientTypes, NEW c \in Conn, NEW h \in On(c)
  PROVE  h \in Client /\ step[h] \notin {"off", "start", "timer"}
  BY ConnectionAssumption DEF ClientTypes, On, Conn

LEMMA ReconnectingFree ==
  Reconnecting \subseteq {h \in Client : h[1] = "reconnect" /\ step[h] = "off"}
  <1>. DEFINE free == {h \in Of("reconnect") : step[h] = "off"}
  <1>1. free # {} => (CHOOSE h \in free : TRUE) \in free
    OBVIOUS
  <1>. QED
    BY <1>1 DEF Reconnecting, Of

\* The steps that change what a client has.
ClientChange ==
  \/ UNCHANGED <<process, clientVars>>
  \/ \E h \in Client : GetConnection(h) \/ Opened(h) \/ Subscribed(h)
  \/ \E c \in Conn : Connected(c)
  \/ Exit
  \/ Signal \/ Cancelled
  \/ \E H, more \in SUBSET Client : Lost(H, more)

\* Nobody loses anything but who has it; otherwise the process dies.
LEMMA Losses == ASSUME ClientTypes, [Next]_allVars PROVE ClientChange
  <1>. USE DEF clientVars, ClientChange
  <1>1. ASSUME NEW h \in Client, ChannelDies(h) PROVE ClientChange
    <2>1. Exit \/ Lost({h}, {})
      BY <1>1 DEF ChannelDies, Suffer, Lost
    <2>. QED
      BY <2>1
  <1>2. ASSUME NEW c \in Conn, RejectConnect(c) PROVE ClientChange
    <2>1. Exit \/ Lost(On(c), {})
      BY <1>2, OnIsLinked DEF RejectConnect, Suffer, Lost
    <2>. QED
      BY <2>1 DEF On
  <1>3. ASSUME NEW c \in Conn, Break(c) \/ Close(c) PROVE ClientChange
    <2>1. Exit \/ Lost(On(c), Reconnecting)
      BY <1>3, OnIsLinked, ReconnectingFree DEF Break, Close, Suffer, Lost
    <2>2. On(c) \in SUBSET Client /\ Reconnecting \in SUBSET Client
      BY ReconnectingFree DEF On
    <2>. QED
      BY <2>1, <2>2
  <1>4. ASSUME CloseChannel PROVE ClientChange
    <2>. DEFINE H == {h \in Of("email") : step[h] \in {"on", "cancelled"}}
    <2>1. Lost(H, {}) /\ H \in SUBSET Client
      BY <1>4 DEF CloseChannel, Lost, To, Of
    <2>. QED
      BY <2>1
  <1>5. ASSUME NEW c \in Conn, ProtocolError(c) PROVE ClientChange
    BY <1>5 DEF ProtocolError
  <1>6. CASE Receive \/ Settle \/ CallArrives \/ CallEnds \/ DeadlinePasses \/ HandlerEnds
    BY <1>6 DEF Receive, Settle, CallArrives, CallEnds, DeadlinePasses, HandlerEnds, Work
  <1>7. CASE Drain \/ tryShutdown \/ closeRabbitConnection \/ closeRedis \/ closeMetrics
    BY <1>7 DEF Drain, tryShutdown, closeRabbitConnection, closeRedis, closeMetrics, To
  <1>8. CASE UNCHANGED allVars
    BY <1>8 DEF allVars
  <1>. QED
    BY <1>1, <1>2, <1>3, <1>4, <1>5, <1>6, <1>7, <1>8 DEF Next, StopStep

\* What a client may be at, as one fact.
ClientOK(h) ==
  step[h] # "off" =>
    /\ h[1] \in Consumers[process] \cup {Publisher, "reconnect"}
    /\ h[2] = 1 \/ h[1] = "reconnect"
    /\ h[1] = "reconnect" => step[h] \in {"timer", "connect"}
    /\ h[1] = Publisher => step[h] \in {"connect", "open", "on"}

Clients == ClientTypes /\ ClientInv

LEMMA LostStep ==
  ASSUME Clients, NEW H \in SUBSET Client, NEW more \in SUBSET Client, Lost(H, more)
  PROVE  Clients'
  <1>. DEFINE timers == Rescheduled(H) \cup more
  <1>1. timers \subseteq {h \in H : h[1] \in {"delivered", "scan", "reconnect", "email"}} \cup more
    BY ScheduleReconnect
  <1>2. /\ step' = [h \in Client |->
             IF h \in timers THEN "timer" ELSE IF h \in H THEN "off" ELSE step[h]]
        /\ link' = [h \in Client |-> IF h \in H THEN None ELSE link[h]]
        /\ started' = started \cup (Consumers[process] \cap {h[1] : h \in H})
        /\ process' = process
    BY DEF Lost, Lose
  <1>3. \A h \in H : step[h] \notin {"off", "start", "timer"}
    BY DEF Lost
  <1>4. \A h \in more : h[1] = "reconnect" /\ step[h] = "off"
    BY DEF Lost
  <1>5. ASSUME NEW h \in Client
        PROVE  link'[h] # None <=> step'[h] \notin {"off", "start", "timer"}
    BY <1>1, <1>2, <1>3, <1>4 DEF Clients, ClientTypes
  <1>6. ClientTypes'
    <2>1. step' \in [Client -> Step] /\ link' \in [Client -> Conn \cup {None}]
      BY <1>2 DEF Clients, ClientTypes, Step
    <2>2. started' \subseteq Consumers[process']
      BY <1>2 DEF Clients, ClientTypes
    <2>. QED
      BY <1>2, <1>5, <2>1, <2>2 DEF Clients, ClientTypes
  <1>7. ASSUME NEW h \in Client PROVE ClientOK(h)'
    <2>1. ClientOK(h)
      BY DEF Clients, ClientInv, ClientOK
    <2>2. CASE h \in timers
      <3>1. step'[h] = "timer"
        BY <1>2, <2>2
      <3>2. h[1] # Publisher
        BY <1>1, <1>4, <2>2 DEF Publisher
      <3>3. step[h] # "off" \/ h[1] = "reconnect"
        BY <1>1, <1>3, <1>4, <2>2
      <3>. QED
        BY <1>2, <2>1, <3>1, <3>2, <3>3 DEF ClientOK
    <2>3. CASE h \notin timers
      BY <1>2, <2>1, <2>3 DEF ClientOK
    <2>. QED
      BY <2>2, <2>3
  <1>. QED
    BY <1>6, <1>7 DEF Clients, ClientInv, ClientOK

LEMMA ExitStep == ASSUME Clients, Exit PROVE Clients'
  <1>1. /\ step' = [h \in Client |-> IF StartsWith(h) THEN "start" ELSE "off"]
        /\ link' = [h \in Client |-> None]
        /\ started' = {}
        /\ process' = process
    BY DEF Exit, FirstStep, NoLink
  <1>2. ClientTypes'
    BY <1>1 DEF Clients, ClientTypes, Step
  <1>3. ASSUME NEW h \in Client PROVE ClientOK(h)'
    <2>1. step'[h] # "off" => h[2] = 1 /\ h[1] \in Consumers[process] \ {"scan"}
      BY <1>1 DEF StartsWith
    <2>2. h[1] \in Consumers[process] => h[1] # "reconnect" /\ h[1] # Publisher
      BY Names DEF Clients, ClientTypes, Publisher
    <2>. QED
      BY <1>1, <2>1, <2>2 DEF ClientOK
  <1>. QED
    BY <1>2, <1>3 DEF Clients, ClientInv, ClientOK

LEMMA GetConnectionStep == ASSUME Clients, NEW h \in Client, GetConnection(h) PROVE Clients'
  <1>1. PICK c \in Conn :
          LET there == conn[c] = "open" IN
          /\ step' = [step EXCEPT ![h] = IF there THEN WithConnection(h) ELSE "connect"]
          /\ link' = [link EXCEPT ![h] = IF there /\ h[1] = "reconnect" THEN None ELSE c]
    BY DEF GetConnection
  <1>2. process' = process /\ started' = started
    BY DEF GetConnection
  <1>3. \/ step[h] \in {"start", "timer"}
        \/ h = <<Publisher, 1>>
    BY DEF GetConnection, Wanted
  <1>4. c # None /\ c \in Conn \cup {None}
    BY ConnectionAssumption DEF Conn
  <1>5. /\ step' \in [Client -> Step]
        /\ link' \in [Client -> Conn \cup {None}]
    BY <1>1, <1>4 DEF Clients, ClientTypes, Step, WithConnection
  <1>6. link'[h] # None <=> step'[h] \notin {"off", "start", "timer"}
    BY <1>1, <1>4 DEF Clients, ClientTypes, WithConnection
  <1>7. ASSUME NEW g \in Client, g # h PROVE step'[g] = step[g] /\ link'[g] = link[g]
    BY <1>1, <1>7 DEF Clients, ClientTypes
  <1>8. ClientTypes'
    BY <1>2, <1>5, <1>6, <1>7 DEF Clients, ClientTypes
  <1>9. ClientOK(h)'
    <2>1. ClientOK(h)
      BY DEF Clients, ClientInv, ClientOK
    <2>2. /\ step'[h] \in {"off", "open", "connect"}
          /\ h[1] = "reconnect" => step'[h] \in {"off", "connect"}
      BY <1>1 DEF Clients, ClientTypes, WithConnection
    <2>3. CASE step[h] \in {"start", "timer"}
      BY <1>2, <2>1, <2>2, <2>3 DEF ClientOK
    <2>4. CASE h = <<Publisher, 1>>
      BY <2>2, <2>4 DEF ClientOK, Publisher
    <2>. QED
      BY <1>3, <2>3, <2>4
  <1>10. ASSUME NEW g \in Client, g # h PROVE ClientOK(g)'
    BY <1>2, <1>7, <1>10 DEF Clients, ClientInv, ClientOK
  <1>. QED
    BY <1>8, <1>9, <1>10 DEF Clients, ClientInv, ClientOK

LEMMA ConnectedStep == ASSUME Clients, NEW c \in Conn, Connected(c) PROVE Clients'
  <1>1. /\ step' = [h \in Client |-> IF link[h] = c THEN WithConnection(h) ELSE step[h]]
        /\ link' = [h \in Client |-> IF link[h] = c /\ h[1] = "reconnect" THEN None ELSE link[h]]
        /\ process' = process
        /\ started' = started
    BY DEF Connected
  <1>2. c # None
    BY ConnectionAssumption DEF Conn
  <1>3. /\ step' \in [Client -> Step]
        /\ link' \in [Client -> Conn \cup {None}]
    BY <1>1 DEF Clients, ClientTypes, Step, WithConnection
  <1>4. ASSUME NEW h \in Client PROVE link'[h] # None <=> step'[h] \notin {"off", "start", "timer"}
    BY <1>1, <1>2 DEF Clients, ClientTypes, WithConnection
  <1>5. ClientTypes'
    BY <1>1, <1>3, <1>4 DEF Clients, ClientTypes
  <1>6. ASSUME NEW h \in Client PROVE ClientOK(h)'
    <2>1. ClientOK(h)
      BY DEF Clients, ClientInv, ClientOK
    <2>2. link[h] = c => step[h] # "off"
      BY <1>2 DEF Clients, ClientTypes
    <2>. QED
      BY <1>1, <2>1, <2>2 DEF ClientOK, WithConnection
  <1>. QED
    BY <1>5, <1>6 DEF Clients, ClientInv, ClientOK

LEMMA OpenedStep == ASSUME Clients, NEW h \in Client, Opened(h) PROVE Clients'
  <1>1. /\ step' = [g \in Client |->
             IF g = h THEN IF h[1] = Publisher THEN "on" ELSE "consume"
             ELSE IF g = <<"scan", 1>> /\ h[1] = "delivered" /\ step[g] = "off" THEN "start"
             ELSE step[g]]
        /\ started' = started \cup ({h[1]} \cap {"reply", "delivered", "scan"})
        /\ process' = process
        /\ link' = link
        /\ step[h] = "open"
    BY DEF Opened
  <1>2. h[1] \in Consumers[process] \cup {Publisher} /\ h[2] = 1 /\ h[1] # "reconnect"
    BY <1>1 DEF Clients, ClientInv
  <1>3. h[1] = "delivered" => "scan" \in Consumers[process]
    BY <1>2 DEF Clients, ClientTypes, Consumers, Publisher
  <1>4. step' \in [Client -> Step]
    BY <1>1 DEF Clients, ClientTypes, Step
  <1>5. ASSUME NEW g \in Client PROVE link'[g] # None <=> step'[g] \notin {"off", "start", "timer"}
    BY <1>1 DEF Clients, ClientTypes
  <1>6. started' \subseteq Consumers[process]
    BY <1>1, <1>2 DEF Clients, ClientTypes, Publisher
  <1>7. ClientTypes'
    BY <1>1, <1>4, <1>5, <1>6 DEF Clients, ClientTypes
  <1>8. ASSUME NEW g \in Client PROVE ClientOK(g)'
    <2>1. ClientOK(g)
      BY DEF Clients, ClientInv, ClientOK
    <2>2. CASE g = h
      BY <1>1, <1>2, <2>2 DEF ClientOK
    <2>3. CASE g # h /\ g = <<"scan", 1>>
      BY <1>1, <1>3, <2>1, <2>3 DEF ClientOK, Publisher
    <2>4. CASE g # h /\ g # <<"scan", 1>>
      BY <1>1, <2>1, <2>4 DEF ClientOK
    <2>. QED
      BY <2>2, <2>3, <2>4
  <1>. QED
    BY <1>7, <1>8 DEF Clients, ClientInv, ClientOK

LEMMA SubscribedStep == ASSUME Clients, NEW h \in Client, Subscribed(h) PROVE Clients'
  <1>1. /\ step' = [step EXCEPT ![h] = "on"]
        /\ started' = started \cup {h[1]}
        /\ process' = process
        /\ link' = link
        /\ step[h] = "consume"
    BY DEF Subscribed
  <1>2. h[1] \in Consumers[process] /\ h[2] = 1 /\ h[1] # "reconnect" /\ h[1] # Publisher
    BY <1>1 DEF Clients, ClientInv
  <1>3. step' \in [Client -> Step] /\ started' \subseteq Consumers[process]
    BY <1>1, <1>2 DEF Clients, ClientTypes, Step
  <1>4. ASSUME NEW g \in Client PROVE link'[g] # None <=> step'[g] \notin {"off", "start", "timer"}
    BY <1>1 DEF Clients, ClientTypes
  <1>5. ClientTypes'
    BY <1>1, <1>3, <1>4 DEF Clients, ClientTypes
  <1>6. ASSUME NEW g \in Client PROVE ClientOK(g)'
    BY <1>1, <1>2 DEF Clients, ClientTypes, ClientInv, ClientOK
  <1>. QED
    BY <1>5, <1>6 DEF Clients, ClientInv, ClientOK

\* Only the e-mail consumer is cancelled, or stops waiting for its timer.
LEMMA CancelStep == ASSUME Clients, Signal \/ Cancelled PROVE Clients'
  <1>1. /\ process' = process
        /\ link' = link
        /\ started' = started
    BY DEF Signal, Cancelled, To
  <1>2. /\ step' \in [Client -> Step]
        /\ \A h \in Client :
             \/ step'[h] = step[h]
             \/ h[1] = "email" /\ step[h] = "timer" /\ step'[h] = "off"
             \/ h[1] = "email" /\ step[h] = "on" /\ step'[h] = "cancel"
             \/ step[h] = "cancel" /\ step'[h] = "cancelled"
    <2>1. CASE Signal
      BY <2>1 DEF Signal, Clients, ClientTypes, Step
    <2>2. CASE Cancelled
      BY <2>2 DEF Cancelled, Clients, ClientTypes, Step
    <2>. QED
      BY <2>1, <2>2
  <1>3. ClientTypes'
    BY <1>1, <1>2 DEF Clients, ClientTypes
  <1>4. ASSUME NEW h \in Client PROVE ClientOK(h)'
    BY <1>1, <1>2 DEF Clients, ClientInv, ClientOK, Publisher
  <1>. QED
    BY <1>3, <1>4 DEF Clients, ClientInv, ClientOK

LEMMA ClientsStep == ASSUME Clients, [Next]_allVars PROVE Clients'
  <1>1. ClientChange
    BY Losses DEF Clients
  <1>2. CASE UNCHANGED <<process, clientVars>>
    BY <1>2 DEF clientVars, Clients, ClientTypes, ClientInv
  <1>3. ASSUME NEW h \in Client, GetConnection(h) PROVE Clients'
    BY <1>3, GetConnectionStep
  <1>4. ASSUME NEW h \in Client, Opened(h) PROVE Clients'
    BY <1>4, OpenedStep
  <1>5. ASSUME NEW h \in Client, Subscribed(h) PROVE Clients'
    BY <1>5, SubscribedStep
  <1>6. ASSUME NEW c \in Conn, Connected(c) PROVE Clients'
    BY <1>6, ConnectedStep
  <1>7. CASE Exit
    BY <1>7, ExitStep
  <1>8. CASE Signal \/ Cancelled
    BY <1>8, CancelStep
  <1>9. ASSUME NEW H \in SUBSET Client, NEW more \in SUBSET Client, Lost(H, more) PROVE Clients'
    BY <1>9, LostStep
  <1>. QED
    BY <1>1, <1>2, <1>3, <1>4, <1>5, <1>6, <1>7, <1>8, <1>9 DEF ClientChange

----------------------------------------------------------------------------------
\* The shutdown: which of its steps a step is.

StopChange ==
  \/ UNCHANGED stopVars
  \/ Exit
  \/ \E h \in Client : Subscribed(h)
  \/ Receive \/ Settle \/ CallArrives \/ CallEnds \/ DeadlinePasses \/ HandlerEnds
  \/ Signal \/ StopStep

LEMMA StopChanges == ASSUME [Next]_allVars PROVE StopChange
  <1>. USE DEF StopChange
  <1>1. ASSUME NEW h \in Client, GetConnection(h) \/ Opened(h) PROVE StopChange
    BY <1>1 DEF GetConnection, Opened
  <1>2. ASSUME NEW h \in Client, ChannelDies(h) PROVE StopChange
    BY <1>2 DEF ChannelDies, Suffer
  <1>3. ASSUME NEW c \in Conn, Connected(c) \/ ProtocolError(c) PROVE StopChange
    BY <1>3 DEF Connected, ProtocolError
  <1>4. ASSUME NEW c \in Conn, RejectConnect(c) \/ Break(c) \/ Close(c) PROVE StopChange
    BY <1>4 DEF RejectConnect, Break, Close, Suffer
  <1>5. CASE UNCHANGED allVars
    BY <1>5 DEF allVars
  <1>. QED
    BY <1>1, <1>2, <1>3, <1>4, <1>5 DEF Next

LEMMA StopTypeStep == ASSUME StopTypes, [Next]_allVars PROVE StopTypes'
  <1>. USE WorkAssumption DEF StopTypes, Phase
  <1>1. CASE UNCHANGED stopVars
    BY <1>1 DEF stopVars
  <1>2. CASE Exit
    BY <1>2 DEF Exit
  <1>3. ASSUME NEW h \in Client, Subscribed(h) PROVE StopTypes'
    BY <1>3 DEF Subscribed
  <1>4. CASE Receive \/ Settle
    BY <1>4 DEF Receive, Settle, Work
  <1>5. CASE CallArrives \/ CallEnds \/ DeadlinePasses \/ HandlerEnds
    BY <1>5 DEF CallArrives, CallEnds, DeadlinePasses, HandlerEnds, Work
  <1>6. CASE Signal
    BY <1>6 DEF Signal, To
  <1>7. CASE Drain
    BY <1>7 DEF Drain, To
  <1>8. CASE closeRabbitConnection
    BY <1>8 DEF closeRabbitConnection, To
  <1>9. CASE Cancelled \/ CloseChannel \/ tryShutdown \/ closeRedis \/ closeMetrics
    BY <1>9 DEF Cancelled, CloseChannel, tryShutdown, closeRedis, closeMetrics, To
  <1>. QED
    BY StopChanges, <1>1, <1>2, <1>3, <1>4, <1>5, <1>6, <1>7, <1>8, <1>9 DEF StopChange, StopStep

\* A consumer is subscribed by Subscribed and cancelled by the signal, and by nothing else.
LEMMA SubscribedStays ==
  ASSUME Clients, [Next]_allVars, NEW h \in Of("email"), step'[h] \in {"on", "cancel"}
  PROVE  step'[h] = step[h] \/ Subscribed(h) \/ Signal
  <1>. DEFINE Stays == step'[h] = step[h] \/ Subscribed(h) \/ Signal
  <1>0. h \in Client /\ h[1] = "email" /\ h[1] # Publisher
    BY DEF Of, Publisher
  <1>1. CASE UNCHANGED <<process, clientVars>>
    BY <1>1 DEF clientVars
  <1>2. ASSUME NEW g \in Client, GetConnection(g) PROVE Stays
    BY <1>0, <1>2 DEF GetConnection, Clients, ClientTypes, WithConnection
  <1>3. ASSUME NEW g \in Client, Opened(g) PROVE Stays
    BY <1>0, <1>3 DEF Opened
  <1>4. ASSUME NEW g \in Client, Subscribed(g) PROVE Stays
    <2>1. CASE g = h
      BY <1>4, <2>1
    <2>2. CASE g # h
      BY <1>0, <1>4, <2>2 DEF Subscribed, Clients, ClientTypes
    <2>. QED
      BY <2>1, <2>2
  <1>5. ASSUME NEW c \in Conn, Connected(c) PROVE Stays
    BY <1>0, <1>5 DEF Connected, WithConnection
  <1>6. CASE Exit
    BY <1>0, <1>6 DEF Exit, FirstStep
  <1>7. CASE Cancelled
    BY <1>0, <1>7 DEF Cancelled
  <1>8. ASSUME NEW H \in SUBSET Client, NEW more \in SUBSET Client, Lost(H, more) PROVE Stays
    BY <1>0, <1>8 DEF Lost, Lose
  <1>. QED
    BY Losses, <1>1, <1>2, <1>3, <1>4, <1>5, <1>6, <1>7, <1>8 DEF ClientChange, Clients

LEMMA NotBeforeRun == ASSUME Signal PROVE phase = "run" /\ phase' # "run"
  BY DEF Signal, To

LEMMA LateCounts ==
  ASSUME NEW h \in Client, Subscribed(h)
  PROVE  step[h] = "consume" /\ phase' = phase /\ late' = (late \/ phase # "run")
  BY DEF Subscribed

LEMMA CancelInvStep == ASSUME Clients, CancelInv, [Next]_allVars PROVE CancelInv'
  <1>1. CASE UNCHANGED <<phase, late>>
    <2>1. ~Signal
      BY <1>1, NotBeforeRun
    <2>2. ASSUME NEW h \in Of("email"), step'[h] = "on", phase # "run" PROVE late
      <3>1. step[h] = "on" \/ Subscribed(h)
        BY <2>1, <2>2, SubscribedStays
      <3>2. CASE step[h] = "on"
        BY <2>2, <3>2 DEF CancelInv
      <3>3. CASE Subscribed(h)
        <4>1. late' = (late \/ phase # "run") /\ late' = late
          BY <1>1, <3>3, LateCounts DEF Of
        <4>2. late = TRUE
          BY <2>2, <4>1
        <4>. QED
          BY <4>2
      <3>. QED
        BY <3>1, <3>2, <3>3
    <2>3. ASSUME NEW h \in Of("email"), step'[h] = "cancel" PROVE phase = "cancel"
      <3>1. step[h] = "cancel" \/ Subscribed(h)
        BY <2>1, <2>3, SubscribedStays
      <3>2. CASE Subscribed(h)
        BY <2>3, <3>2 DEF Subscribed, Clients, ClientTypes, Of
      <3>. QED
        BY <3>1, <3>2 DEF CancelInv
    <2>. QED
      BY <1>1, <2>2, <2>3 DEF CancelInv
  <1>2. CASE Exit
    BY <1>2 DEF Exit, FirstStep, Of, CancelInv
  <1>3. ASSUME NEW g \in Client, Subscribed(g) PROVE CancelInv'
    BY <1>3 DEF Subscribed, CancelInv, Clients, ClientTypes, Of
  <1>4. CASE Signal
    <2>1. ASSUME process = "app", NEW h \in Of("email") PROVE step'[h] = "off"
      <3>1. step' = step
        BY <1>4, <2>1 DEF Signal
      <3>2. h \in Client /\ h[1] = "email" /\ h[1] \notin Consumers[process] \cup {Publisher, "reconnect"}
        BY <2>1 DEF Of, Consumers, Publisher
      <3>. QED
        BY <3>1, <3>2 DEF Clients, ClientInv
    <2>2. ASSUME process = "notification", NEW h \in Of("email")
          PROVE  phase' = "cancel" /\ step'[h] # "on"
      BY <1>4, <2>2 DEF Signal, To, Of
    <2>3. process \in {"app", "notification"}
      BY <1>4 DEF Signal
    <2>4. process = "notification" => phase' = "cancel"
      BY <1>4 DEF Signal, To
    <2>. QED
      BY <2>1, <2>2, <2>3, <2>4 DEF CancelInv, Of, Client
  <1>5. CASE Cancelled
    BY <1>5 DEF Cancelled, To, CancelInv, Of
  <1>6. CASE Drain \/ tryShutdown \/ closeRabbitConnection \/ closeRedis \/ closeMetrics
    BY <1>6 DEF Drain, tryShutdown, closeRabbitConnection, closeRedis, closeMetrics, To, clientVars, CancelInv
  <1>7. CASE CloseChannel
    BY <1>7 DEF CloseChannel, To, Lose, CancelInv, Of
  <1>8. CASE Receive \/ Settle \/ CallArrives \/ CallEnds \/ DeadlinePasses \/ HandlerEnds
    BY <1>1, <1>8 DEF Receive, Settle, CallArrives, CallEnds, DeadlinePasses, HandlerEnds, Work
  <1>9. CASE UNCHANGED stopVars
    BY <1>1, <1>9 DEF stopVars
  <1>. QED
    BY StopChanges, <1>2, <1>3, <1>4, <1>5, <1>6, <1>7, <1>8, <1>9 DEF StopChange, StopStep

LEMMA WorkInvStep ==
  ASSUME Clients, StopTypes, CancelInv, WorkInv, [Next]_allVars PROVE WorkInv'
  <1>0. inFlight \in Nat /\ calls \in Nat /\ voided \in Nat /\ process \in DOMAIN Consumers
    BY WorkAssumption DEF StopTypes, Clients, ClientTypes
  <1>1. process' = process
    BY Losses DEF Clients, ClientChange, clientVars, GetConnection, Opened, Subscribed, Connected, Exit,
       Signal, Cancelled, Lost, To
  <1>. USE <1>0, <1>1 DEF WorkInv
  <1>2. CASE UNCHANGED stopVars
    BY <1>2 DEF stopVars
  <1>3. CASE Exit
    BY <1>3 DEF Exit
  <1>4. ASSUME NEW h \in Client, Subscribed(h) PROVE WorkInv'
    BY <1>4 DEF Subscribed
  <1>5. CASE Receive
    <2>1. PICK h \in Of("email") : step[h] \in {"on", "cancel"}
      BY <1>5 DEF Receive
    <2>2. process = "notification"
      BY <2>1, Names DEF Clients, ClientTypes, ClientInv, Of, Publisher
    <2>3. phase \notin {"run", "cancel", "drain"} => late
      BY <2>1 DEF CancelInv
    <2>4. UNCHANGED <<phase, late>> /\ calls' = calls + 0
      BY <1>5 DEF Receive, Work
    <2>. QED
      BY <2>2, <2>3, <2>4
  <1>6. CASE Settle \/ CallEnds \/ DeadlinePasses \/ HandlerEnds
    BY <1>6 DEF Settle, CallEnds, DeadlinePasses, HandlerEnds, Work
  <1>7. CASE CallArrives
    BY <1>7 DEF CallArrives, Work
  <1>8. CASE Signal
    BY <1>8 DEF Signal, To
  <1>9. CASE Cancelled \/ Drain \/ CloseChannel
    BY <1>9 DEF Cancelled, Drain, CloseChannel, To
  <1>10. CASE tryShutdown \/ closeRabbitConnection \/ closeRedis \/ closeMetrics
    BY <1>10 DEF tryShutdown, closeRabbitConnection, closeRedis, closeMetrics, To
  <1>. QED
    BY StopChanges, <1>2, <1>3, <1>4, <1>5, <1>6, <1>7, <1>8, <1>9, <1>10 DEF StopChange, StopStep

----------------------------------------------------------------------------------
\* The invariant.

ClientsInv ==
  /\ ConnTypeOK /\ PromiseInv /\ ForsakenInv
  /\ Clients
  /\ StopTypes /\ CancelInv /\ WorkInv

LEMMA InitInv == ASSUME Init PROVE ClientsInv
  <1>. USE DEF Init, ConnInit
  <1>1. ConnTypeOK /\ PromiseInv
    BY DEF ConnTypeOK, PromiseInv, NoStalePromise, NoConn
  <1>2. ForsakenInv
    <2>1. Forsaken = {} /\ errors = 0
      BY DEF Forsaken, NoConn
    <2>. QED
      BY <2>1, FS_EmptySet DEF ForsakenInv
  <1>3. ClientTypes
    BY DEF ClientTypes, FirstStep, NoLink, Step
  <1>4. ClientInv
    BY Names DEF ClientInv, FirstStep, StartsWith, Publisher
  <1>5. StopTypes
    <2>1. 0 \in 0 .. MaxWork /\ 0 + 0 <= MaxWork
      BY WorkAssumption
    <2>. QED
      BY <2>1 DEF StopTypes, Phase
  <1>6. CancelInv /\ WorkInv
    BY DEF CancelInv, WorkInv, FirstStep, Of
  <1>. QED
    BY <1>1, <1>2, <1>3, <1>4, <1>5, <1>6 DEF ClientsInv, Clients

LEMMA NextInv == ASSUME ClientsInv, [Next]_allVars PROVE ClientsInv'
  BY ConnTypeStep, PromiseStep, ForsakenStep, ClientsStep, StopTypeStep, CancelInvStep, WorkInvStep
     DEF ClientsInv

LEMMA Invariance == Spec => []ClientsInv
  <1>1. Init => ClientsInv
    BY InitInv
  <1>2. ClientsInv /\ [Next]_allVars => ClientsInv'
    BY NextInv
  <1>. QED
    BY <1>1, <1>2, PTL DEF Spec

LEMMA Types == ASSUME ClientsInv PROVE TypeOK
  BY DEF ClientsInv, Clients, ClientTypes, StopTypes, TypeOK

\* What is there beside the connection of the promise is forsaken.
LEMMA OneBesideForsaken == ASSUME ClientsInv PROVE OneConnection
  <1>. DEFINE live == {c \in Conn : conn[c] \in {"connecting", "open"}}
              all == Forsaken \cup {connectionPromise}
  <1>. SUFFICES ASSUME phase \notin {"closing", "redis", "metrics", "exited"}
                PROVE  Cardinality(live) <= 1 + errors
    BY DEF OneConnection
  <1>1. IsFiniteSet(Forsaken) /\ Cardinality(Forsaken) \in Nat
    BY ForsakenFinite
  <1>2. IsFiniteSet(all) /\ Cardinality(all) <= Cardinality(Forsaken) + 1
    BY <1>1, GrowsByOne
  <1>3. live \subseteq all
    BY DEF Forsaken
  <1>4. IsFiniteSet(live) /\ Cardinality(live) <= Cardinality(all)
    BY <1>2, <1>3, FS_Subset
  <1>5. Cardinality(live) \in Nat /\ Cardinality(all) \in Nat
    BY <1>2, <1>4, FS_CardinalityType
  <1>6. Cardinality(Forsaken) <= errors /\ errors \in Nat
    BY DEF ClientsInv, ForsakenInv, ConnTypeOK
  <1>. HIDE DEF live, all
  <1>. QED
    BY <1>1, <1>2, <1>4, <1>5, <1>6

LEMMA OneOfEach == ASSUME ClientsInv PROVE OneSubscription
  <1>. SUFFICES ASSUME NEW g \in Client, NEW h \in Client, g[1] = h[1], step[g] # "off", step[h] # "off",
                       g[1] # "reconnect"
                PROVE  g = h
    BY DEF OneSubscription
  <1>1. g[2] = 1 /\ h[2] = 1
    BY DEF ClientsInv, Clients, ClientInv
  <1>. QED
    BY <1>1 DEF Client

LEMMA WorkIsOver == ASSUME ClientsInv PROVE NoWorkCutOff
  BY DEF ClientsInv, WorkInv, NoWorkCutOff

\* Every variable of a process and its connection keeps its type (rabbit.connection.ts and
\* those that use it).
THEOREM TypeCorrect == Spec => []TypeOK
  BY Invariance, Types, PTL

\* getRabbitConnection never hands out a connection that is over or being closed: whatever
\* interrupts what, the promise is cleared with, or before, the connection it is of.
THEOREM PromiseIsFresh == Spec => []NoStalePromise
  <1>1. ClientsInv => NoStalePromise
    BY DEF ClientsInv, PromiseInv
  <1>. QED
    BY <1>1, Invariance, PTL

\* Until it is stopped a process has one connection, and one more at most for each protocol
\* error, whose 'close' event clears the promise of the connection made since.
THEOREM ConnectionIsShared == Spec => []OneConnection
  BY Invariance, OneBesideForsaken, PTL

\* No consumer subscribes twice, and no publisher keeps two channels, however their
\* channels and connections are lost and got back.
THEOREM SubscribedOnce == Spec => []OneSubscription
  BY Invariance, OneOfEach, PTL

\* The shutdown of index.ts cuts off no call over gRPC whose caller still waits, and a message
\* only after the deadline or when the consumer subscribed behind its back.
THEOREM WorkIsFinished == Spec => []NoWorkCutOff
  BY Invariance, WorkIsOver, PTL
==================================================================================
