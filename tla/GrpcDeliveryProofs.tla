---------------------------- MODULE GrpcDeliveryProofs ----------------------------
(* Proofs about GrpcDelivery, for every set of messages, keys, workers, calls and    *)
(* tags and every number of faults.  The steps of the consumer are those of          *)
(* EmailDelivery, whose lemmas are used again.                                       *)
EXTENDS GrpcDelivery, EmailDeliveryProofs

\* The inductive invariant, in named parts; Inv is that of EmailDeliveryProofs.

\* CallTypeOK, but for what it has of EmailDelivery.
CallTypes ==
  /\ latest \in Tag
  /\ releases \in Nat
  /\ lastSeen \in Tag \cup {None}
  /\ caller \in [Call -> {"idle", "wait", "advance"}]
  /\ about \in [Call -> Tag \cup {None}]
  /\ serve \in [Call -> {"none", "claim", "look", "send", "release", "confirm"}]
  /\ seen \subseteq Release
  /\ callOverrun \subseteq Key

\* A call is about a tag as long as the caller or the server is at it.
AboutInv ==
  \A x \in Call : caller[x] # "idle" \/ serve[x] # "none" => about[x] # None

\* What advances a tag, or will, has been mailed.
AnswerInv ==
  /\ \A x \in Call : caller[x] = "advance" \/ serve[x] = "confirm" => about[x] \in mailed
  /\ TagWasMailed

AllInv == Inv /\ CallTypes /\ AboutInv /\ AnswerInv

\* Unless a delivery has outlasted the lease of k: who sends for k has the lease, alone,
\* over both transports, and a key that may be claimed again has cost no mail that a fault
\* does not account for.
AllLeased(k) ==
  /\ Leased(k)
  /\ \A x \in Call : CallSends(x, k) => store[k] = "pending"
  /\ \A x, y \in Call : CallSends(x, k) /\ CallSends(y, k) => x = y
  /\ \A x \in Call, a \in Worker : ~(CallSends(x, k) /\ Sends(a, k))

CallCounted(k) ==
  /\ sent[k] <= 1 + faults
  /\ /\ store[k] # "done"
     /\ \A a \in Worker : pc[a] = "confirm" => K(a) # k
     /\ \A x \in Call : serve[x] = "confirm" => about[x] # k
     => sent[k] <= faults

AllLeaseInv == \A k \in Key \ Overrun : AllLeased(k) /\ CallCounted(k)

----------------------------------------------------------------------------------
\* Each part is inductive, given those before it.

\* A step is one of the consumer, or leaves its queues and workers alone.
CallChange ==
  \/ ScannerCrash
  \/ \E x \in Call : CallStep(x) \/ CallClaimFails(x) \/ DeadlinePasses(x)
  \/ \E m \in Msg : handleMessage(m)

LEMMA Steps == ASSUME [CallNext]_allVars PROVE [Next]_vars \/ CallChange
  BY DEF CallNext, Next, CallChange, allVars, LeaseLapses, KeyExpires, ServiceCrash, NewRelease,
     callServer

LEMMA ConsumerUntouched ==
  ASSUME CallChange
  PROVE  UNCHANGED <<place, of, tries, pc, cur, msg, published, reported, failed, refused>>
  BY DEF CallChange, CallStep, ScannerCrash, handleMessage, DeadlinePasses, CallClaimFails, CallClaim,
     CallLook, CallSend, CallRelease, CallConfirm, sendReleaseNotification, vars, copyVars, workVars

LEMMA EmailTypeStep == ASSUME TypeOK, WorkInv, CopyInv, CallTypes, AboutInv,
    [CallNext]_allVars PROVE TypeOK'
  <1>. USE GrpcAssumption, EmailAssumption DEF TypeOK, CallTypes, AboutInv, Stored, copyVars,
           workVars, mailVars, faultVars, vars
  <1>1. ASSUME ScannerCrash PROVE TypeOK'
    BY <1>1 DEF ScannerCrash, CallFaulty
  <1>2. ASSUME NEW x \in Call, CallClaim(x) PROVE TypeOK'
    BY <1>2 DEF CallClaim, Serve
  <1>3. ASSUME NEW x \in Call, CallLook(x) PROVE TypeOK'
    BY <1>3 DEF CallLook, Answer
  <1>4. ASSUME NEW x \in Call, CallSend(x) PROVE TypeOK'
    BY <1>4 DEF CallSend, CallAccepted, Serve, Fault
  <1>5. ASSUME NEW x \in Call, CallRelease(x) PROVE TypeOK'
    BY <1>5 DEF CallRelease, Answer, Fault
  <1>6. ASSUME NEW x \in Call, CallConfirm(x) PROVE TypeOK'
    BY <1>6 DEF CallConfirm, Answer, Fault
  <1>7. ASSUME NEW x \in Call, sendReleaseNotification(x) PROVE TypeOK'
    BY <1>7 DEF sendReleaseNotification, HangUp, CallFaulty
  <1>8. ASSUME NEW x \in Call, CallClaimFails(x) PROVE TypeOK'
    BY <1>8 DEF CallClaimFails, Answer, Fault
  <1>9. ASSUME NEW x \in Call, DeadlinePasses(x) PROVE TypeOK'
    BY <1>9 DEF DeadlinePasses, HangUp, CallFaulty
  <1>10. ASSUME NEW m \in Msg, handleMessage(m) PROVE TypeOK'
    BY <1>10 DEF handleMessage, CallFaulty
  <1>11. CASE [Next]_vars
    BY <1>11, TypeStep
  <1>. QED
    BY Steps, <1>1, <1>2, <1>3, <1>4, <1>5, <1>6, <1>7, <1>8, <1>9, <1>10, <1>11
       DEF CallChange, CallStep

LEMMA EmailDoneStep == ASSUME TypeOK, WorkInv, KnownInv, DoneInv, CallTypes,
    AboutInv, AnswerInv, [CallNext]_allVars PROVE DoneInv'
  <1>. USE GrpcAssumption, EmailAssumption DEF TypeOK, DoneInv, CallTypes, AboutInv, AnswerInv, K,
           workVars, mailVars, vars
  <1>1. ASSUME ScannerCrash PROVE DoneInv'
    BY <1>1 DEF ScannerCrash, CallFaulty
  <1>2. ASSUME NEW x \in Call, CallClaim(x) PROVE DoneInv'
    BY <1>2 DEF CallClaim, Serve
  <1>3. ASSUME NEW x \in Call, CallLook(x) PROVE DoneInv'
    BY <1>3 DEF CallLook, Answer
  <1>4. ASSUME NEW x \in Call, CallSend(x) PROVE DoneInv'
    BY <1>4 DEF CallSend, CallAccepted, Serve, Fault
  <1>5. ASSUME NEW x \in Call, CallRelease(x) PROVE DoneInv'
    BY <1>5 DEF CallRelease, Answer, Fault
  <1>6. ASSUME NEW x \in Call, CallConfirm(x) PROVE DoneInv'
    BY <1>6 DEF CallConfirm, Answer, Fault
  <1>7. ASSUME NEW x \in Call, sendReleaseNotification(x) PROVE DoneInv'
    BY <1>7 DEF sendReleaseNotification, HangUp, CallFaulty
  <1>8. ASSUME NEW x \in Call, CallClaimFails(x) PROVE DoneInv'
    BY <1>8 DEF CallClaimFails, Answer, Fault
  <1>9. ASSUME NEW x \in Call, DeadlinePasses(x) PROVE DoneInv'
    BY <1>9 DEF DeadlinePasses, HangUp, CallFaulty
  <1>10. ASSUME NEW m \in Msg, handleMessage(m) PROVE DoneInv'
    BY <1>10 DEF handleMessage, CallFaulty
  <1>11. CASE [Next]_vars
    BY <1>11, DoneStep
  <1>. QED
    BY Steps, <1>1, <1>2, <1>3, <1>4, <1>5, <1>6, <1>7, <1>8, <1>9, <1>10, <1>11
       DEF CallChange, CallStep

LEMMA EmailInvStep ==
  ASSUME Inv, CallTypes, AboutInv, AnswerInv, [CallNext]_allVars PROVE Inv'
  <1>1. CASE [Next]_vars
    BY <1>1, InvStep
  <1>2. CASE CallChange
    <2>1. WorkInv' /\ CopyInv' /\ KnownInv'
      BY <1>2, ConsumerUntouched DEF Inv, WorkInv, CopyInv, KnownInv
    <2>. QED
      BY <2>1, EmailTypeStep, EmailDoneStep DEF Inv
  <1>. QED
    BY <1>1, <1>2, Steps

LEMMA MailedGrows == ASSUME [CallNext]_allVars PROVE mailed \subseteq mailed'
  <1>1. ASSUME [Next]_vars PROVE mailed \subseteq mailed'
    BY <1>1 DEF Next, QueueStep, WorkerStep, WorkerFault, Publish, Redeliver, Take, Claim, Look, Send,
       SendFails, ReleaseKey, ConfirmKey, Report, Fail, ClaimFails, ReleaseFails, ConfirmFails,
       ReportFails, FailFails, ChannelCloses, Lapse, Expire, Crash, Accepted, mailVars, vars
  <1>2. ASSUME CallChange PROVE mailed \subseteq mailed'
    BY <1>2 DEF CallChange, CallStep, ScannerCrash, handleMessage, DeadlinePasses, CallClaimFails,
       CallClaim, CallLook, CallSend, CallRelease, CallConfirm, sendReleaseNotification, CallAccepted,
       vars, mailVars
  <1>. QED
    BY <1>1, <1>2, Steps

LEMMA CallTypeStep == ASSUME CallTypes, AboutInv, [CallNext]_allVars PROVE CallTypes'
  <1>. USE GrpcAssumption DEF CallTypes, AboutInv, callVars, scanVars
  <1>1. ASSUME ServiceCrash PROVE CallTypes'
    BY <1>1 DEF ServiceCrash
  <1>2. ASSUME ScannerCrash PROVE CallTypes'
    BY <1>2 DEF ScannerCrash
  <1>3. ASSUME NEW t \in Tag, NewRelease(t) PROVE CallTypes'
    BY <1>3 DEF NewRelease
  <1>4. ASSUME NEW x \in Call, callServer(x) PROVE CallTypes'
    BY <1>4 DEF callServer
  <1>5. ASSUME NEW x \in Call, CallClaim(x) PROVE CallTypes'
    BY <1>5 DEF CallClaim, Serve
  <1>6. ASSUME NEW x \in Call, CallLook(x) PROVE CallTypes'
    BY <1>6 DEF CallLook, Answer
  <1>7. ASSUME NEW x \in Call, CallSend(x) PROVE CallTypes'
    BY <1>7 DEF CallSend, Serve
  <1>8. ASSUME NEW x \in Call, CallRelease(x) PROVE CallTypes'
    BY <1>8 DEF CallRelease, Answer
  <1>9. ASSUME NEW x \in Call, CallConfirm(x) PROVE CallTypes'
    BY <1>9 DEF CallConfirm, Answer
  <1>10. ASSUME NEW x \in Call, sendReleaseNotification(x) PROVE CallTypes'
    BY <1>10 DEF sendReleaseNotification, HangUp
  <1>11. ASSUME NEW x \in Call, CallClaimFails(x) PROVE CallTypes'
    BY <1>11 DEF CallClaimFails, Answer
  <1>12. ASSUME NEW x \in Call, DeadlinePasses(x) PROVE CallTypes'
    BY <1>12 DEF DeadlinePasses, HangUp
  <1>13. ASSUME NEW m \in Msg, handleMessage(m) PROVE CallTypes'
    BY <1>13 DEF handleMessage
  <1>14. CASE UNCHANGED <<callVars, scanVars>>
    BY <1>14
  <1>. QED
    BY <1>1, <1>2, <1>3, <1>4, <1>5, <1>6, <1>7, <1>8, <1>9, <1>10, <1>11, <1>12,
       <1>13, <1>14
       DEF CallNext, CallStep, LeaseLapses, KeyExpires, allVars

LEMMA AboutStep == ASSUME CallTypes, AboutInv, [CallNext]_allVars PROVE AboutInv'
  <1>. USE GrpcAssumption DEF CallTypes, AboutInv, callVars
  <1>1. ASSUME ServiceCrash PROVE AboutInv'
    BY <1>1 DEF ServiceCrash
  <1>2. ASSUME ScannerCrash PROVE AboutInv'
    BY <1>2 DEF ScannerCrash
  <1>3. ASSUME NEW t \in Tag, NewRelease(t) PROVE AboutInv'
    BY <1>3 DEF NewRelease
  <1>4. ASSUME NEW x \in Call, callServer(x) PROVE AboutInv'
    BY <1>4 DEF callServer
  <1>5. ASSUME NEW x \in Call, CallClaim(x) PROVE AboutInv'
    BY <1>5 DEF CallClaim, Serve
  <1>6. ASSUME NEW x \in Call, CallLook(x) PROVE AboutInv'
    BY <1>6 DEF CallLook, Answer
  <1>7. ASSUME NEW x \in Call, CallSend(x) PROVE AboutInv'
    BY <1>7 DEF CallSend, Serve
  <1>8. ASSUME NEW x \in Call, CallRelease(x) PROVE AboutInv'
    BY <1>8 DEF CallRelease, Answer
  <1>9. ASSUME NEW x \in Call, CallConfirm(x) PROVE AboutInv'
    BY <1>9 DEF CallConfirm, Answer
  <1>10. ASSUME NEW x \in Call, sendReleaseNotification(x) PROVE AboutInv'
    BY <1>10 DEF sendReleaseNotification, HangUp
  <1>11. ASSUME NEW x \in Call, CallClaimFails(x) PROVE AboutInv'
    BY <1>11 DEF CallClaimFails, Answer
  <1>12. ASSUME NEW x \in Call, DeadlinePasses(x) PROVE AboutInv'
    BY <1>12 DEF DeadlinePasses, HangUp
  <1>13. ASSUME NEW m \in Msg, handleMessage(m) PROVE AboutInv'
    BY <1>13 DEF handleMessage
  <1>14. CASE UNCHANGED <<callVars, scanVars>>
    BY <1>14
  <1>. QED
    BY <1>1, <1>2, <1>3, <1>4, <1>5, <1>6, <1>7, <1>8, <1>9, <1>10, <1>11, <1>12,
       <1>13, <1>14
       DEF CallNext, CallStep, LeaseLapses, KeyExpires, allVars

LEMMA AnswerStep == ASSUME TypeOK, DoneInv, CallTypes, AboutInv, AnswerInv,
    [CallNext]_allVars PROVE AnswerInv'
  <1>. USE MailedGrows, GrpcAssumption DEF TypeOK, CallTypes, DoneInv, AboutInv, AnswerInv, TagWasMailed, callVars, scanVars
  <1>1. ASSUME ServiceCrash PROVE AnswerInv'
    BY <1>1 DEF ServiceCrash
  <1>2. ASSUME ScannerCrash PROVE AnswerInv'
    BY <1>2 DEF ScannerCrash
  <1>3. ASSUME NEW t \in Tag, NewRelease(t) PROVE AnswerInv'
    BY <1>3 DEF NewRelease
  <1>4. ASSUME NEW x \in Call, callServer(x) PROVE AnswerInv'
    BY <1>4 DEF callServer
  <1>5. ASSUME NEW x \in Call, CallClaim(x) PROVE AnswerInv'
    BY <1>5 DEF CallClaim, Serve
  <1>6. ASSUME NEW x \in Call, CallLook(x) PROVE AnswerInv'
    <2>1. CASE store[about[x]] = "done"
      BY <1>6, <2>1 DEF CallLook, Answer
    <2>2. CASE store[about[x]] # "done"
      BY <1>6, <2>2 DEF CallLook, Answer
    <2>. QED
      BY <2>1, <2>2
  <1>7. ASSUME NEW x \in Call, CallSend(x) PROVE AnswerInv'
    BY <1>7 DEF CallSend, CallAccepted, Serve
  <1>8. ASSUME NEW x \in Call, CallRelease(x) PROVE AnswerInv'
    BY <1>8 DEF CallRelease, Answer
  <1>9. ASSUME NEW x \in Call, CallConfirm(x) PROVE AnswerInv'
    BY <1>9 DEF CallConfirm, Answer
  <1>10. ASSUME NEW x \in Call, sendReleaseNotification(x) PROVE AnswerInv'
    BY <1>10 DEF sendReleaseNotification, HangUp
  <1>11. ASSUME NEW x \in Call, CallClaimFails(x) PROVE AnswerInv'
    BY <1>11 DEF CallClaimFails, Answer
  <1>12. ASSUME NEW x \in Call, DeadlinePasses(x) PROVE AnswerInv'
    BY <1>12 DEF DeadlinePasses, HangUp
  <1>13. ASSUME NEW m \in Msg, handleMessage(m) PROVE AnswerInv'
    BY <1>13 DEF handleMessage
  <1>14. CASE UNCHANGED <<callVars, scanVars>>
    BY <1>14
  <1>. QED
    BY <1>1, <1>2, <1>3, <1>4, <1>5, <1>6, <1>7, <1>8, <1>9, <1>10, <1>11, <1>12,
       <1>13, <1>14
       DEF CallNext, CallStep, LeaseLapses, KeyExpires, allVars

\* A step of the consumer, or a key that lapses: no call that sends for k loses its lease.
ConsumerChange(k) ==
  /\ [Next]_vars
  /\ UNCHANGED callVars
  /\ \A x \in Call : CallSends(x, k) => Spares(k)

LEMMA ConsumerSteps ==
  ASSUME [CallNext]_allVars, NEW k \in Key, k \notin callOverrun'
  PROVE  \/ ConsumerChange(k) \/ ServiceCrash \/ CallChange
         \/ \E t \in Tag : NewRelease(t)
         \/ \E x \in Call : callServer(x)
  <1>1. CASE /\ QueueStep \/ \E a \in Worker : WorkerStep(a) \/ WorkerFault(a)
             /\ UNCHANGED <<callVars, scanVars>>
    BY <1>1 DEF ConsumerChange, Next, Spares
  <1>2. ASSUME NEW j \in Key, LeaseLapses(j) PROVE ConsumerChange(k)
    <2>1. [Next]_vars /\ UNCHANGED callVars
      BY <1>2 DEF LeaseLapses, Next, callVars
    <2>2. ASSUME NEW x \in Call, CallSends(x, k) PROVE j # k
      BY <1>2, <2>2 DEF LeaseLapses
    <2>. QED
      BY <1>2, <2>1, <2>2 DEF ConsumerChange, LeaseLapses, Spares
  <1>3. ASSUME NEW j \in Key, KeyExpires(j) PROVE ConsumerChange(k)
    BY <1>3 DEF ConsumerChange, Next, Spares, KeyExpires
  <1>4. CASE UNCHANGED allVars
    BY <1>4 DEF ConsumerChange, Spares, allVars
  <1>. QED
    BY <1>1, <1>2, <1>3, <1>4 DEF CallNext, CallChange

LEMMA AllLeaseStep ==
  ASSUME TypeOK, WorkInv, CallTypes, AboutInv, NEW k \in Key, AllLeased(k), [CallNext]_allVars,
         k \notin Overrun'
  PROVE  AllLeased(k)'
  <1>. USE GrpcAssumption, EmailAssumption DEF CallTypes, AboutInv, AllLeased
  <1>0. k \notin overrun' /\ k \notin callOverrun'
    BY DEF Overrun
  <1>1. CASE ConsumerChange(k)
    <2>1. Leased(k)'
      BY <1>0, <1>1, LeaseStep DEF ConsumerChange
    <2>2. ASSUME NEW x \in Call, CallSends(x, k)
          PROVE  store'[k] = "pending" /\ \A a \in Worker : ~Sends(a, k)'
      <3>1. store[k] = "pending" /\ Spares(k) /\ \A a \in Worker : ~Sends(a, k)
        BY <1>1, <2>2 DEF ConsumerChange
      <3>. QED
        BY <3>1, HeldElsewhere
    <2>3. \A x \in Call : CallSends(x, k)' <=> CallSends(x, k)
      BY <1>1 DEF ConsumerChange, callVars, CallSends, CallClaims
    <2>. QED
      BY <2>1, <2>2, <2>3
  <1>2. CASE ServiceCrash
    <2>1. Leased(k)'
      BY <1>0, <1>2, LeaseStep DEF ServiceCrash, Next
    <2>2. \A x \in Call : ~CallSends(x, k)'
      BY <1>2 DEF ServiceCrash, CallSends, CallClaims
    <2>. QED
      BY <2>1, <2>2
  <1>. USE DEF TypeOK, WorkInv, Leased, Sends, CallSends, Claims, CallClaims, K, workVars, callVars
  <1>3. ASSUME NEW t \in Tag, NewRelease(t) PROVE AllLeased(k)'
    BY <1>3 DEF NewRelease, vars
  <1>4. ASSUME NEW x \in Call, callServer(x) PROVE AllLeased(k)'
    BY <1>4 DEF callServer, vars
  <1>5. ASSUME ScannerCrash PROVE AllLeased(k)'
    BY <1>5 DEF ScannerCrash
  <1>6. ASSUME NEW x \in Call, CallClaim(x) PROVE AllLeased(k)'
    BY <1>6 DEF CallClaim, Serve
  <1>7. ASSUME NEW x \in Call, CallLook(x) PROVE AllLeased(k)'
    BY <1>7 DEF CallLook, Answer, vars
  <1>8. ASSUME NEW x \in Call, CallSend(x) PROVE AllLeased(k)'
    BY <1>8 DEF CallSend, Serve
  <1>9. ASSUME NEW x \in Call, CallRelease(x) PROVE AllLeased(k)'
    BY <1>9 DEF CallRelease, Answer
  <1>10. ASSUME NEW x \in Call, CallConfirm(x) PROVE AllLeased(k)'
    BY <1>10 DEF CallConfirm, Answer
  <1>11. ASSUME NEW x \in Call, sendReleaseNotification(x) PROVE AllLeased(k)'
    BY <1>11 DEF sendReleaseNotification, HangUp
  <1>12. ASSUME NEW x \in Call, CallClaimFails(x) PROVE AllLeased(k)'
    BY <1>12 DEF CallClaimFails, Answer
  <1>13. ASSUME NEW x \in Call, DeadlinePasses(x) PROVE AllLeased(k)'
    BY <1>13 DEF DeadlinePasses, HangUp
  <1>14. ASSUME NEW m \in Msg, handleMessage(m) PROVE AllLeased(k)'
    BY <1>14 DEF handleMessage
  <1>. QED
    BY ConsumerSteps, <1>0, <1>1, <1>2, <1>3, <1>4, <1>5, <1>6, <1>7, <1>8, <1>9, <1>10, <1>11, <1>12, <1>13, <1>14
       DEF CallChange, CallStep

LEMMA AllCountStep ==
  ASSUME TypeOK, WorkInv, CopyInv, CallTypes, AboutInv, NEW k \in Key, AllLeased(k), CallCounted(k),
         [CallNext]_allVars, k \notin Overrun'
  PROVE  CallCounted(k)'
  <1>. USE GrpcAssumption, EmailAssumption DEF CallTypes, AboutInv, AllLeased, CallCounted
  <1>0. k \notin callOverrun'
    BY DEF Overrun
  <1>1. CASE ConsumerChange(k)
    <2>1. CASE \E x \in Call : serve[x] = "confirm" /\ about[x] = k
      <3>0. \E x \in Call : CallSends(x, k)
        BY <2>1 DEF CallSends, CallClaims
      <3>1. /\ store[k] = "pending" /\ Spares(k) /\ \A a \in Worker : ~Sends(a, k)
        BY <1>1, <3>0 DEF ConsumerChange
      <3>2. sent'[k] = sent[k] /\ faults <= faults' /\ UNCHANGED <<serve, about>>
        BY <1>1, <3>1, HeldElsewhere DEF ConsumerChange, callVars
      <3>3. TypeOK'
        BY <1>1, TypeStep DEF ConsumerChange
      <3>4. sent[k] \in Nat /\ faults \in Nat /\ faults' \in Nat
        BY <3>3 DEF TypeOK
      <3>. QED
        BY <2>1, <3>2, <3>4
    <2>2. CASE \A x \in Call : serve[x] = "confirm" => about[x] # k
      <3>1. Counted(k)'
        BY <1>1, <2>2, CountStep DEF Counted, ConsumerChange
      <3>. QED
        BY <3>1 DEF Counted
    <2>. QED
      BY <2>1, <2>2
  <1>. USE DEF TypeOK, WorkInv, Leased, Sends, CallSends, Claims, CallClaims, K, workVars,
           mailVars, faultVars, callVars
  <1>2. CASE ServiceCrash
    BY <1>2 DEF ServiceCrash, Crash, Fault
  <1>3. ASSUME NEW t \in Tag, NewRelease(t) PROVE CallCounted(k)'
    BY <1>3 DEF NewRelease, vars
  <1>4. ASSUME NEW x \in Call, callServer(x) PROVE CallCounted(k)'
    BY <1>4 DEF callServer, vars
  <1>5. ASSUME ScannerCrash PROVE CallCounted(k)'
    BY <1>5 DEF ScannerCrash, CallFaulty
  <1>6. ASSUME NEW x \in Call, CallClaim(x) PROVE CallCounted(k)'
    BY <1>6 DEF CallClaim, Serve
  <1>7. ASSUME NEW x \in Call, CallLook(x) PROVE CallCounted(k)'
    BY <1>7 DEF CallLook, Answer, vars
  <1>8. ASSUME NEW x \in Call, CallSend(x) PROVE CallCounted(k)'
    BY <1>8 DEF CallSend, CallAccepted, Serve, Fault
  <1>9. ASSUME NEW x \in Call, CallRelease(x) PROVE CallCounted(k)'
    BY <1>9 DEF CallRelease, Answer, Fault
  <1>10. ASSUME NEW x \in Call, CallConfirm(x) PROVE CallCounted(k)'
    BY <1>10 DEF CallConfirm, Answer, Fault
  <1>11. ASSUME NEW x \in Call, sendReleaseNotification(x) PROVE CallCounted(k)'
    BY <1>11 DEF sendReleaseNotification, HangUp, CallFaulty
  <1>12. ASSUME NEW x \in Call, CallClaimFails(x) PROVE CallCounted(k)'
    BY <1>12 DEF CallClaimFails, Answer, Fault
  <1>13. ASSUME NEW x \in Call, DeadlinePasses(x) PROVE CallCounted(k)'
    BY <1>13 DEF DeadlinePasses, HangUp, CallFaulty
  <1>14. ASSUME NEW m \in Msg, handleMessage(m) PROVE CallCounted(k)'
    BY <1>14 DEF handleMessage, CallFaulty
  <1>. QED
    BY ConsumerSteps, <1>0, <1>1, <1>2, <1>3, <1>4, <1>5, <1>6, <1>7, <1>8, <1>9, <1>10, <1>11, <1>12, <1>13, <1>14
       DEF CallChange, CallStep

\* A key is forgotten only once nobody sends for it.
LEMMA AllForgotten ==
  ASSUME TypeOK, WorkInv, CallTypes, NEW k \in Key, KeyExpires(k)
  PROVE  AllLeased(k)' /\ CallCounted(k)'
  <1>1. Leased(k)' /\ Counted(k)'
    BY Forgotten DEF KeyExpires
  <1>2. \A x \in Call : ~CallSends(x, k)'
    BY DEF KeyExpires, CallSends, callVars
  <1>3. sent'[k] = 0 /\ faults' = faults /\ faults \in Nat
    BY DEF KeyExpires, Expire, TypeOK, faultVars
  <1>. QED
    BY <1>1, <1>2, <1>3 DEF AllLeased, CallCounted

LEMMA AllOverrunStays ==
  ASSUME [CallNext]_allVars, NEW k \in Overrun, k \notin Overrun' PROVE KeyExpires(k)
  <1>1. CASE CallChange
    BY <1>1 DEF CallChange, CallStep, ScannerCrash, handleMessage, DeadlinePasses, CallClaimFails,
       CallClaim, CallLook, CallSend, CallRelease, CallConfirm, sendReleaseNotification, vars, scanVars,
       Overrun
  <1>2. ASSUME NEW j \in Key, KeyExpires(j) PROVE KeyExpires(k)
    BY <1>2 DEF KeyExpires, Expire, Overrun
  <1>3. ASSUME NEW j \in Key, LeaseLapses(j) PROVE FALSE
    BY <1>3 DEF LeaseLapses, Lapse, Overrun
  <1>4. CASE \/ QueueStep /\ UNCHANGED <<callVars, scanVars>>
             \/ \E a \in Worker : (WorkerStep(a) \/ WorkerFault(a)) /\ UNCHANGED <<callVars, scanVars>>
             \/ ServiceCrash
    <2>1. overrun' = overrun
      BY <1>4 DEF ServiceCrash, QueueStep, WorkerStep, WorkerFault, Publish, Redeliver, Take, Claim,
         Look, Send, SendFails, ReleaseKey, ConfirmKey, Report, Fail, ClaimFails, ReleaseFails,
         ConfirmFails, ReportFails, FailFails, ChannelCloses, Crash
    <2>2. callOverrun' = callOverrun
      BY <1>4 DEF ServiceCrash, scanVars
    <2>. QED
      BY <2>1, <2>2 DEF Overrun
  <1>5. CASE (\E t \in Tag : NewRelease(t)) \/ (\E x \in Call : callServer(x)) \/ UNCHANGED allVars
    BY <1>5 DEF NewRelease, callServer, allVars, vars, scanVars, Overrun
  <1>. QED
    BY <1>1, <1>2, <1>3, <1>4, <1>5 DEF CallNext, CallChange

LEMMA AllLeaseInvStep ==
  ASSUME TypeOK, WorkInv, CopyInv, CallTypes, AboutInv, AllLeaseInv, [CallNext]_allVars PROVE AllLeaseInv'
  <1>. SUFFICES ASSUME NEW k \in Key, k \notin Overrun' PROVE AllLeased(k)' /\ CallCounted(k)'
    BY DEF AllLeaseInv
  <1>1. CASE k \in Overrun
    BY <1>1, AllOverrunStays, AllForgotten
  <1>2. CASE k \notin Overrun
    BY <1>2, AllLeaseStep, AllCountStep DEF AllLeaseInv
  <1>. QED
    BY <1>1, <1>2

----------------------------------------------------------------------------------
\* Theorems.

LEMMA AllInit == CallInit => AllInv
  <1>. USE GrpcAssumption DEF CallInit
  <1>1. CallInit => Inv
    BY InvInit
  <1>2. CallInit => CallTypes /\ AboutInv /\ AnswerInv
    BY DEF CallTypes, AboutInv, AnswerInv, TagWasMailed
  <1>. QED
    BY <1>1, <1>2 DEF AllInv

LEMMA AllStep == ASSUME AllInv, [CallNext]_allVars PROVE AllInv'
  BY EmailInvStep, CallTypeStep, AboutStep, AnswerStep DEF AllInv, Inv

LEMMA AllInvariance == CallSafeSpec => []AllInv
  <1>1. AllInv /\ [CallNext]_allVars => AllInv'
    BY AllStep
  <1>. QED
    BY AllInit, <1>1, PTL DEF CallSafeSpec

\* Type correctness, and what a call is about: one whose caller waits for an answer, or has
\* one, and one the server works on, is about a tag (sendReleaseNotification).
THEOREM CallTypeCorrect == CallSafeSpec => [](CallTypeOK /\ AboutInv)
  <1>1. AllInv => CallTypeOK /\ AboutInv
    BY DEF AllInv, Inv, CallTypes, CallTypeOK
  <1>. QED
    BY AllInvariance, <1>1, PTL

\* lastSeenTag is a tag whose mail the SMTP server has accepted, whether an answer of
\* handleSendReleaseNotification or a delivered event has advanced it, and about whichever
\* of the calls and messages under way.
THEOREM TagTellsTruth == CallSafeSpec => []TagWasMailed
  <1>1. AllInv => TagWasMailed
    BY DEF AllInv, AnswerInv
  <1>. QED
    BY AllInvariance, <1>1, PTL

\* A message of the queue does not vanish because a call has its key.
THEOREM NothingIsLostBesideCalls == CallSafeSpec => []NothingVanishes
  <1>1. CallInit => NothingVanishes
    BY DEF CallInit, Init, NothingVanishes
  <1>2. AllInv /\ NothingVanishes /\ [CallNext]_allVars => NothingVanishes'
    <2>. SUFFICES ASSUME AllInv, NothingVanishes, [CallNext]_allVars PROVE NothingVanishes'
      OBVIOUS
    <2>1. CASE [Next]_vars
      BY <2>1, VanishStep DEF AllInv, Inv
    <2>2. CASE CallChange
      BY <2>2, ConsumerUntouched DEF NothingVanishes
    <2>. QED
      BY <2>1, <2>2, Steps
  <1>. QED
    BY AllInvariance, <1>1, <1>2, PTL DEF CallSafeSpec

LEMMA AllLeaseInvariance == CallSafeSpec => []AllLeaseInv
  <1>1. CallInit => AllLeaseInv
    BY DEF CallInit, Init, AllLeaseInv, AllLeased, Leased, CallCounted, Sends, Claims, CallSends, CallClaims
  <1>2. AllInv /\ AllLeaseInv /\ [CallNext]_allVars => AllLeaseInv'
    BY AllLeaseInvStep DEF AllInv, Inv
  <1>. QED
    BY AllInvariance, <1>1, <1>2, PTL DEF CallSafeSpec

\* The claim by SET NX is shared by the consumer and the gRPC server: of all the messages
\* and calls being worked on one at most sends for a key whose lease none has outlasted.
THEOREM OneSenderOverBoth == CallSafeSpec => []OneSenderPerKey
  <1>1. AllLeaseInv => OneSenderPerKey
    BY DEF AllLeaseInv, AllLeased, Leased, OneSenderPerKey
  <1>. QED
    BY AllLeaseInvariance, <1>1, PTL

\* One mail for each key and one more for each fault, over both transports, unless a
\* delivery has outlasted its lease: scans that call again, deadlines that pass and
\* messages given out again send nothing twice.
THEOREM MailedOnceOverBoth == CallSafeSpec => []OneMailOverBoth
  <1>1. AllLeaseInv => OneMailOverBoth
    BY DEF AllLeaseInv, CallCounted, OneMailOverBoth
  <1>. QED
    BY AllLeaseInvariance, <1>1, PTL
==================================================================================
