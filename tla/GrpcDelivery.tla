------------------------------ MODULE GrpcDelivery -------------------------------
(* Release mails over gRPC: the scanner calls the notification service            *)
(* (be/modules/sender/adapters/grpc-notifier.ts), which sends the mail before it   *)
(* answers (notification-service/src/grpc/notification.grpc-server.ts), and the    *)
(* answer, not an event, advances lastSeenTag.  The gRPC server runs in the        *)
(* process of the e-mail consumer and shares its idempotency keys: this module     *)
(* adds the calls to EmailDelivery.  The queue may hold release messages from      *)
(* before a change of transport (be/composition/factories.ts).  One subscriber is  *)
(* enough: the keys of two have nothing in common.                                 *)
EXTENDS EmailDelivery

CONSTANTS
  Call,       \* bound: calls at once, of scans that overlap or retry
  Tag,        \* the keys of this subscriber's release mails, one for each tag
  CallFault,  \* where a fault may strike a call, see CallFaults
  MaxTags     \* bound: how often the latest release changes

\* The deadline passes although the SMTP server was not being slow; a tag cannot be
\* written; the scanner dies.
CallFaults == {"deadline", "tag", "scanner"}

ASSUME GrpcAssumption ==
  /\ Tag \subseteq Key
  /\ \A m \in Msg \ Release : KeyOf[m] \notin Tag
  /\ CallFault \subseteq CallFaults
  /\ CallFaults \cap FaultPoints = {}
  /\ MaxTags \in Nat
  /\ None \notin Tag

VARIABLES
  latest,    \* the tag of GitHub's latest release
  releases,  \* how often it has changed
  lastSeen,  \* lastSeenTag of the subscriber
  caller,    \* caller[x]: what GrpcNotifier is at with the call x
  about,     \* about[x]: the tag x is about
  serve,     \* serve[x]: the await the server's handler of x is at
  seen,      \* the release messages whose delivered event has been consumed
  callOverrun \* history: the keys whose lease a call has outlasted

callVars == <<caller, about, serve>>
\* The scanner's, and the history of the calls.
scanVars == <<latest, releases, lastSeen, seen, callOverrun>>
allVars == <<vars, callVars, scanVars>>

CallTypeOK ==
  /\ TypeOK
  /\ latest \in Tag
  /\ releases \in Nat
  /\ lastSeen \in Tag \cup {None}
  /\ caller \in [Call -> {"idle", "wait", "advance"}]
  /\ about \in [Call -> Tag \cup {None}]
  /\ serve \in [Call -> {"none", "claim", "look", "send", "release", "confirm"}]
  /\ seen \subseteq Release
  /\ callOverrun \subseteq Key

CallInit ==
  /\ Init
  /\ latest \in Tag
  /\ releases = 0
  /\ lastSeen = None
  /\ caller = [x \in Call |-> "idle"]
  /\ about = [x \in Call |-> None]
  /\ serve = [x \in Call |-> "none"]
  /\ seen = {}
  /\ callOverrun = {}

CallFaulty(point) ==
  /\ point \in CallFault
  /\ faults < MaxFaults
  /\ faults' = faults + 1
  /\ UNCHANGED broken

----------------------------------------------------------------------------------
\* The scanner: ReleaseScan, as far as one subscriber sees it, and GrpcNotifier.

NewRelease(t) ==
  /\ t # latest
  /\ releases < MaxTags
  /\ latest' = t
  /\ releases' = releases + 1
  /\ UNCHANGED <<vars, callVars, lastSeen, seen, callOverrun>>

\* callServer, by a scan that finds the subscriber outdated.
callServer(x) ==
  /\ caller[x] = "idle" /\ serve[x] = "none"
  /\ lastSeen # latest
  /\ caller' = [caller EXCEPT ![x] = "wait"]
  /\ about' = [about EXCEPT ![x] = latest]
  /\ serve' = [serve EXCEPT ![x] = "claim"]
  /\ UNCHANGED <<vars, scanVars>>

HangUp(x) ==
  /\ caller' = [caller EXCEPT ![x] = "idle"]
  /\ about' = [about EXCEPT ![x] = IF serve[x] = "none" THEN None ELSE @]

\* CALL_TIMEOUT_MS: the scan goes on without the answer, and the server goes on, too.
DeadlinePasses(x) ==
  /\ caller[x] = "wait"
  /\ IF serve[x] = "send" THEN UNCHANGED faultVars ELSE CallFaulty("deadline")
  /\ HangUp(x)
  /\ UNCHANGED <<copyVars, store, workVars, published, overrun, mailVars, reported, failed, refused,
                 serve, scanVars>>

\* advanceTag, after SENT or DUPLICATE.
sendReleaseNotification(x) ==
  /\ caller[x] = "advance"
  /\ \/ lastSeen' = about[x] /\ UNCHANGED faultVars
     \/ CallFaulty("tag") /\ UNCHANGED lastSeen
  /\ HangUp(x)
  /\ UNCHANGED <<copyVars, store, workVars, published, overrun, mailVars, reported, failed, refused,
                 serve, latest, releases, seen, callOverrun>>

ScannerCrash ==
  /\ CallFaulty("scanner")
  /\ caller' = [x \in Call |-> "idle"]
  /\ about' = [x \in Call |-> IF serve[x] = "none" THEN None ELSE about[x]]
  /\ UNCHANGED <<copyVars, store, workVars, published, overrun, mailVars, reported, failed, refused,
                 serve, scanVars>>

\* handleMessage of delivered.consumer.ts, for the event of a release message: an event
\* whose tag could not be written is dropped.
handleMessage(m) ==
  /\ m \in (reported \cap Release) \ seen
  /\ KeyOf[m] \in Tag
  /\ seen' = seen \cup {m}
  /\ \/ lastSeen' = KeyOf[m] /\ UNCHANGED faultVars
     \/ CallFaulty("tag") /\ UNCHANGED lastSeen
  /\ UNCHANGED <<copyVars, store, workVars, published, overrun, mailVars, reported, failed, refused,
                 callVars, latest, releases, callOverrun>>

----------------------------------------------------------------------------------
\* handleSendReleaseNotification.

Serve(x, step) == serve' = [serve EXCEPT ![x] = step] /\ UNCHANGED <<caller, about>>

\* The callback: whoever still waits gets the answer.
Answer(x, status) ==
  /\ serve' = [serve EXCEPT ![x] = "none"]
  /\ caller' = [caller EXCEPT ![x] =
       IF @ = "wait" /\ status \in {"SENT", "DUPLICATE"} THEN "advance" ELSE "idle"]
  /\ about' = [about EXCEPT ![x] = IF caller'[x] = "idle" THEN None ELSE @]

CallClaim(x) ==
  /\ serve[x] = "claim"
  /\ IF store[about[x]] = "none"
     THEN store' = [store EXCEPT ![about[x]] = "pending"] /\ Serve(x, "send")
     ELSE Serve(x, "look") /\ UNCHANGED store
  /\ UNCHANGED <<copyVars, workVars, published, overrun, mailVars, reported, failed, refused,
                 faultVars, scanVars>>

\* Mutant of CallLook: a delivery in progress counts as a duplicate.
CallLookTrusts(x) ==
  /\ serve[x] = "look"
  /\ Answer(x, "DUPLICATE")
  /\ UNCHANGED <<vars, scanVars>>

\* Mutant of CallLook: whatever has the key, the call is ABORTED.
CallLookAborts(x) ==
  /\ serve[x] = "look"
  /\ Answer(x, "ABORTED")
  /\ UNCHANGED <<vars, scanVars>>

\* A duplicate of what is done; a delivery in progress is ABORTED.
CallLook(x) ==
  /\ serve[x] = "look"
  /\ Answer(x, IF store[about[x]] = "done" THEN "DUPLICATE" ELSE "ABORTED")
  /\ UNCHANGED <<vars, scanVars>>

\* Redis fails, before or after it has set the key.
CallClaimFails(x) ==
  /\ serve[x] \in {"claim", "look"}
  /\ Fault("claim")
  /\ Answer(x, "UNAVAILABLE")
  /\ \/ UNCHANGED store
     \/ /\ serve[x] = "claim" /\ store[about[x]] = "none"
        /\ store' = [store EXCEPT ![about[x]] = "pending"]
  /\ UNCHANGED <<copyVars, workVars, published, overrun, mailVars, reported, failed, refused,
                 scanVars>>

CallAccepted(x) ==
  /\ mailed' = mailed \cup {about[x]}
  /\ sent' = [sent EXCEPT ![about[x]] = @ + 1]

CallSend(x) ==
  /\ serve[x] = "send"
  /\ \/ CallAccepted(x) /\ Serve(x, "confirm") /\ UNCHANGED faultVars
     \/ Serve(x, "release") /\ UNCHANGED <<mailVars, faultVars>>
     \/ CallAccepted(x) /\ Serve(x, "release") /\ Fault("smtp")
  /\ UNCHANGED <<copyVars, store, workVars, published, overrun, reported, failed, refused, scanVars>>

CallRelease(x) ==
  /\ serve[x] = "release"
  /\ \/ store' = [store EXCEPT ![about[x]] = "none"] /\ UNCHANGED faultVars
     \/ Fault("release") /\ UNCHANGED store
  /\ Answer(x, "INTERNAL")
  /\ UNCHANGED <<copyVars, workVars, published, overrun, mailVars, reported, failed, refused,
                 scanVars>>

\* Mutant of CallConfirm: the key keeps its lease, and nothing more.
CallConfirmNothing(x) ==
  /\ serve[x] = "confirm"
  /\ Answer(x, "SENT")
  /\ UNCHANGED <<vars, scanVars>>

\* SENT, even if the key could not be confirmed.
CallConfirm(x) ==
  /\ serve[x] = "confirm"
  /\ \/ store' = [store EXCEPT ![about[x]] = "done"] /\ UNCHANGED faultVars
     \/ Fault("confirm") /\ UNCHANGED store
  /\ Answer(x, "SENT")
  /\ UNCHANGED <<copyVars, workVars, published, overrun, mailVars, reported, failed, refused,
                 scanVars>>

----------------------------------------------------------------------------------
\* One process, one store: what EmailDelivery says of them holds of the calls as well.

CallClaims(x) == serve[x] \in {"send", "release", "confirm"}
CallSends(x, k) == CallClaims(x) /\ about[x] = k

LeaseLapses(k) ==
  /\ Lapse(k)
  /\ LET slow == \E x \in Call : CallSends(x, k) IN
     /\ slow => SlowDelivery
     /\ callOverrun' = IF slow THEN callOverrun \cup {k} ELSE callOverrun
  /\ UNCHANGED <<callVars, latest, releases, lastSeen, seen>>

\* A day later: longer than the scans need to call again and advance the tag.
KeyExpires(k) ==
  /\ Expire(k)
  /\ \A x \in Call : about[x] # k
  /\ lastSeen = latest
  /\ callOverrun' = callOverrun \ {k}
  /\ UNCHANGED <<callVars, latest, releases, lastSeen, seen>>

\* The callers' connections break.
ServiceCrash ==
  /\ Crash
  /\ serve' = [x \in Call |-> "none"]
  /\ caller' = [x \in Call |-> IF caller[x] = "wait" THEN "idle" ELSE caller[x]]
  /\ about' = [x \in Call |-> IF caller[x] = "advance" THEN about[x] ELSE None]
  /\ UNCHANGED scanVars

CallStep(x) ==
  \/ CallClaim(x) \/ CallLook(x) \/ CallSend(x) \/ CallRelease(x) \/ CallConfirm(x)
  \/ sendReleaseNotification(x)

CallNext ==
  \/ QueueStep /\ UNCHANGED <<callVars, scanVars>>
  \/ \E a \in Worker : (WorkerStep(a) \/ WorkerFault(a)) /\ UNCHANGED <<callVars, scanVars>>
  \/ \E k \in Key : LeaseLapses(k) \/ KeyExpires(k)
  \/ ServiceCrash
  \/ ScannerCrash
  \/ \E t \in Tag : NewRelease(t)
  \/ \E x \in Call : callServer(x) \/ CallStep(x) \/ CallClaimFails(x) \/ DeadlinePasses(x)
  \/ \E m \in Msg : handleMessage(m)

CallSafeSpec == CallInit /\ [][CallNext]_allVars

\* As in EmailDelivery; moreover leases end, events come, and a scan every minute calls
\* for a subscriber who is outdated.
CallFairness ==
  /\ \A a \in Worker : WF_allVars(WorkerStep(a) /\ UNCHANGED <<callVars, scanVars>>)
  /\ \A c \in Copy :
       /\ WF_allVars(Redeliver(c) /\ UNCHANGED <<callVars, scanVars>>)
       /\ WF_allVars((\E a \in Worker : Take(a, c)) /\ UNCHANGED <<callVars, scanVars>>)
  /\ \A k \in Tag : WF_allVars(LeaseLapses(k))
  /\ \A x \in Call : WF_allVars(CallStep(x))
  /\ WF_allVars(\E x \in Call : callServer(x))
  /\ \A m \in Msg : WF_allVars(handleMessage(m))

CallSpec == CallSafeSpec /\ CallFairness

----------------------------------------------------------------------------------
\* Properties.

\* The keys whose lease has lapsed under a message or a call being worked on.
Overrun == overrun \cup callOverrun

\* No two of all the messages and calls being worked on send for one key, unless one has
\* outlasted its lease: the claim is shared by both transports, and a deadline that passes
\* gives no second call the key.
OneSenderPerKey ==
  \A k \in Key \ Overrun :
    /\ \A a, b \in Worker : Sends(a, k) /\ Sends(b, k) => a = b
    /\ \A x, y \in Call : CallSends(x, k) /\ CallSends(y, k) => x = y
    /\ \A x \in Call, a \in Worker : ~(CallSends(x, k) /\ Sends(a, k))

\* One mail for each key, and at most one more for each fault, over both transports, unless
\* a delivery has outlasted its lease: calls repeated after a deadline send nothing twice.
OneMailOverBoth == \A k \in Key \ Overrun : sent[k] <= 1 + faults

\* lastSeenTag is a tag whose mail the SMTP server has accepted, whether an answer or an
\* event has told so, and about whichever call.
TagWasMailed == lastSeen # None => lastSeen \in mailed

\* A release that stays the latest one ends up as lastSeenTag, if the SMTP server accepts
\* its mail when asked again and again: answers that came too late, callers and servers
\* that died are made good by a later call, which is told DUPLICATE; so is an event of the
\* queue that moves the tag back.
At(t, step) == \E x \in Call : serve[x] = step /\ about[x] = t
Accepts(t) == []<>At(t, "send") => []<>At(t, "confirm")
TagCatchesUp ==
  \A t \in Tag : Accepts(t) /\ <>[](latest = t) => <>[](lastSeen = t)
==================================================================================
