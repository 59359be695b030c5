---------------------------- MODULE RabbitConnection -----------------------------
(* The RabbitMQ connection of a process (lib/rabbit/rabbit.connection.ts, of both  *)
(* packages): whoever needs it shares one promise, and the events of a connection  *)
(* clear the promise there is, be it that of the connection or of a later one.     *)
EXTENDS Naturals

CONSTANTS
  MaxConn,    \* bound: the connections a process has at once, open or not
  FaultPoint, \* where a fault may strike, see FaultPoints
  MaxFaults,  \* bound: how many faults strike in a behaviour
  None        \* stands for an absent value

\* connect() rejects; a connection breaks, which emits 'error' and 'close' or 'close' only;
\* a protocol error, which emits 'error' at once and 'close' when the broker has answered;
\* a channel is closed.
FaultPoints == {"connect", "break", "protocol", "channel"}

ASSUME ConnectionAssumption ==
  /\ MaxConn \in Nat \ {0}
  /\ FaultPoint \subseteq FaultPoints
  /\ MaxFaults \in Nat
  /\ None \notin Nat

VARIABLES
  connectionPromise, \* the connection it is the promise of, or None
  conn,              \* conn[c]: what the connection c is; one that is over has its number free
  pending,           \* the promise closeRabbitConnection has taken and waits for
  errors,            \* history: the protocol errors of this process's connections
  faults             \* the faults so far

connVars == <<connectionPromise, conn, pending, errors, faults>>

Conn == 1 .. MaxConn

ConnTypeOK ==
  /\ connectionPromise \in Conn \cup {None}
  /\ conn \in [Conn -> {"over", "connecting", "open", "closing"}]
  /\ pending \in Conn \cup {None}
  /\ errors \in Nat
  /\ faults \in Nat

NoConn == [c \in Conn |-> "over"]

ConnInit ==
  /\ connectionPromise = None
  /\ conn = NoConn
  /\ pending = None
  /\ errors = 0
  /\ faults = 0

\* The process dies, and all it has with it.
ConnDies ==
  /\ connectionPromise' = None
  /\ conn' = NoConn
  /\ pending' = None
  /\ errors' = 0

Fault(point) ==
  /\ point \in FaultPoint
  /\ faults < MaxFaults
  /\ faults' = faults + 1

----------------------------------------------------------------------------------
\* The calls and the events; what is a fault is said where it strikes a client, too.

Fresh(c) == conn[c] = "over" /\ \A d \in Conn : conn[d] = "over" => c <= d

\* Mutant of getRabbitConnection: the promise is awaited before it is kept.
getRabbitConnectionUnshared(c) ==
  /\ \/ connectionPromise = c /\ conn[c] = "open" /\ UNCHANGED <<connectionPromise, conn>>
     \/ /\ connectionPromise \in {None} \cup {d \in Conn : conn[d] = "connecting"}
        /\ Fresh(c)
        /\ connectionPromise' = c
        /\ conn' = [conn EXCEPT ![c] = "connecting"]
  /\ UNCHANGED <<pending, errors, faults>>

\* The caller waits for the connection c from here on.
getRabbitConnection(c) ==
  /\ \/ connectionPromise = c /\ UNCHANGED <<connectionPromise, conn>>
     \/ /\ connectionPromise = None
        /\ Fresh(c)
        /\ connectionPromise' = c
        /\ conn' = [conn EXCEPT ![c] = "connecting"]
  /\ UNCHANGED <<pending, errors, faults>>

\* amqp.connect resolves, and connect() listens to the connection's events.
Connects(c) ==
  /\ conn[c] = "connecting"
  /\ conn' = [conn EXCEPT ![c] = "open"]
  /\ UNCHANGED <<connectionPromise, pending, errors, faults>>

Over(c) ==
  /\ conn' = [conn EXCEPT ![c] = "over"]
  /\ pending' = IF pending = c THEN None ELSE pending

\* amqp.connect rejects: the catch of the call that made the promise.
ConnectFails(c) ==
  /\ conn[c] = "connecting"
  /\ Over(c)
  /\ connectionPromise' = None
  /\ UNCHANGED errors

\* Mutant of onClose: the promise stays.
onCloseKeeps(c) ==
  /\ Over(c)
  /\ UNCHANGED connectionPromise

\* The 'close' event, the part both packages have.
onClose(c) ==
  /\ Over(c)
  /\ connectionPromise' = None

\* The socket breaks, the heartbeat times out, or the broker closes the connection.
Breaks(c) ==
  /\ conn[c] = "open"
  /\ onClose(c)
  /\ UNCHANGED errors

\* The 'error' event of a protocol error: the library sends connection.close.
onError(c) ==
  /\ conn[c] = "open"
  /\ conn' = [conn EXCEPT ![c] = "closing"]
  /\ connectionPromise' = None
  /\ errors' = errors + 1
  /\ UNCHANGED pending

\* The broker has answered it, or that of closeRabbitConnection.
Closes(c) ==
  /\ conn[c] = "closing"
  /\ onClose(c)
  /\ UNCHANGED errors

----------------------------------------------------------------------------------
\* closeRabbitConnection, whose flag closing is kept by the shutdown (RabbitClients).

TakePromise ==
  /\ pending' = connectionPromise
  /\ connectionPromise' = None
  /\ UNCHANGED <<conn, errors, faults>>

\* conn.close(), which throws if the connection is no longer open.
CloseTaken ==
  /\ pending # None
  /\ conn[pending] = "open"
  /\ conn' = [conn EXCEPT ![pending] = "closing"]
  /\ UNCHANGED <<connectionPromise, pending, errors, faults>>

----------------------------------------------------------------------------------
\* Properties.

\* Nobody is given a connection that is over or being closed: whatever ends a connection
\* clears the promise first.
NoStalePromise ==
  connectionPromise # None => conn[connectionPromise] \in {"connecting", "open"}
==================================================================================
