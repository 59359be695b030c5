--------------------------- MODULE EmailDeliveryProofs ---------------------------
(* Proofs about EmailDelivery, for every set of messages, keys, copies and workers  *)
(* and every number of retries and faults.                                          *)
EXTENDS EmailDelivery, TLAPS

\* The inductive invariant, in named parts.

\* A worker has a message while it works, and nothing to settle before and after; the
\* copy it has to settle is its own.
WorkInv ==
  \A a \in Worker :
    /\ pc[a] = "idle" <=> msg[a] = None
    /\ pc[a] \in {"idle", "fail"} => cur[a] = None
    /\ cur[a] # None => place[cur[a]] = "held" /\ of[cur[a]] = msg[a]
    /\ \A b \in Worker : cur[a] # None /\ cur[b] = cur[a] => b = a

\* A copy is one of a message unless it is free.
CopyInv == \A c \in Copy : place[c] = "free" <=> of[c] = None

\* Whatever is queued, worked on or reported has been published.
KnownInv ==
  /\ \A c \in Copy : of[c] # None => of[c] \in published
  /\ \A a \in Worker : msg[a] # None => msg[a] \in published
  /\ reported \subseteq published
  /\ failed \subseteq published

\* A key that is done, one whose delivery is being confirmed, and that of a message whose
\* delivery was reported, has been mailed.
DoneInv ==
  /\ \A k \in Key : store[k] = "done" => k \in mailed
  /\ \A m \in reported : KeyOf[m] \in mailed
  /\ \A a \in Worker : pc[a] \in {"confirm", "report", "repeat"} => K(a) \in mailed

\* As long as no connection has broken: a message has one copy, the worker that works on
\* it has the copy, and a dead one stays dead.
OnlyCopyInv ==
  ~broken =>
    /\ \A c, d \in Copy : of[c] # None /\ of[d] = of[c] => d = c
    /\ \A a \in Worker : cur[a] # None \/ pc[a] \in {"idle", "fail"}
    /\ \A a \in Worker : pc[a] = "fail" => \A c \in Copy : of[c] = msg[a] => place[c] = "dead"
    /\ \A m \in failed : \A c \in Copy : of[c] = m => place[c] = "dead"

\* Unless a delivery has outlasted the lease of k: who sends for k has the lease, alone,
\* and a key that may be claimed again has cost no mail that a fault does not account for.
Leased(k) ==
  /\ \A a \in Worker : Sends(a, k) => store[k] = "pending"
  /\ \A a, b \in Worker : Sends(a, k) /\ Sends(b, k) => a = b

Counted(k) ==
  /\ sent[k] <= 1 + faults
  /\ store[k] # "done" /\ (\A a \in Worker : pc[a] = "confirm" => K(a) # k) => sent[k] <= faults

LeaseInv == \A k \in Key \ overrun : Leased(k) /\ Counted(k)

Inv == TypeOK /\ WorkInv /\ CopyInv /\ KnownInv /\ DoneInv

----------------------------------------------------------------------------------
\* Each part is inductive, given those before it.

LEMMA NoneIsNew == None \notin Msg /\ None \notin Copy
  BY EmailAssumption

\* handleRetry: the worker sends for nobody any more, and the others go on.
LEMMA HandleRetryFrees ==
  ASSUME TypeOK, NEW a \in Worker, NEW step \in {"idle", "fail"}, handleRetry(a, step)
  PROVE  ~Claims(a)' /\ \A b \in Worker \ {a} : pc'[b] = pc[b] /\ msg'[b] = msg[b]
  BY DEF TypeOK, handleRetry, Move, Return, Claims

LEMMA HandleRetryType ==
  ASSUME TypeOK, WorkInv, NEW a \in Worker, pc[a] # "idle", NEW step \in {"idle", "fail"},
         handleRetry(a, step)
  PROVE  /\ place' \in [Copy -> Place] /\ of' \in [Copy -> Msg \cup {None}]
         /\ tries' \in [Copy -> 0 .. MAX_RETRIES]
         /\ pc' \in [Worker -> Step] /\ cur' \in [Worker -> Copy \cup {None}]
         /\ msg' \in [Worker -> Msg \cup {None}]
  <1>. USE DEF TypeOK, WorkInv
  <1>1. pc' \in [Worker -> Step]
    BY DEF handleRetry, Move, Return, Step
  <1>2. cur' \in [Worker -> Copy \cup {None}] /\ msg' \in [Worker -> Msg \cup {None}]
    BY DEF handleRetry, Move, Return
  <1>3. place' \in [Copy -> Place] /\ of' \in [Copy -> Msg \cup {None}]
    BY DEF handleRetry, copyVars, Place
  <1>4. tries' \in [Copy -> 0 .. MAX_RETRIES]
    <2>1. CASE cur[a] = None
      BY <2>1 DEF handleRetry, copyVars
    <2>2. CASE cur[a] # None
      <3>1. cur[a] \in Copy /\ MAX_RETRIES \in Nat
        BY <2>2, EmailAssumption
      <3>. QED
        BY <2>2, <3>1 DEF handleRetry, Exhausted
    <2>. QED
      BY <2>1, <2>2
  <1>. QED
    BY <1>1, <1>2, <1>3, <1>4

\* What a retry changes keeps its type, whether it is settled as it should be or the
\* connection breaks.
LEMMA RetryType ==
  ASSUME TypeOK, WorkInv, NEW a \in Worker, pc[a] # "idle", NEW step \in {"idle", "fail"},
         Retry(a, step)
  PROVE  /\ place' \in [Copy -> Place] /\ of' \in [Copy -> Msg \cup {None}]
         /\ tries' \in [Copy -> 0 .. MAX_RETRIES]
         /\ pc' \in [Worker -> Step] /\ cur' \in [Worker -> Copy \cup {None}]
         /\ msg' \in [Worker -> Msg \cup {None}]
         /\ broken' \in BOOLEAN /\ faults' \in Nat
  <1>. USE EmailAssumption DEF TypeOK, WorkInv, Place, Step
  <1>1. CASE handleRetry(a, step) /\ UNCHANGED faultVars
    BY <1>1, HandleRetryType DEF faultVars
  <1>2. CASE handleRetryBreaks(a, step)
    <2>1. broken' \in BOOLEAN /\ faults' \in Nat
      BY <1>2 DEF handleRetryBreaks, Fault
    <2>2. /\ pc' \in [Worker -> Step] /\ cur' \in [Worker -> Copy \cup {None}]
          /\ msg' \in [Worker -> Msg \cup {None}]
      <3>1. pc' \in [Worker -> Step]
        BY <1>2 DEF handleRetryBreaks, Move, Return
      <3>2. cur' \in [Worker -> Copy \cup {None}]
        BY <1>2 DEF handleRetryBreaks, Move, Return
      <3>3. msg' \in [Worker -> Msg \cup {None}]
        BY <1>2 DEF handleRetryBreaks, Move, Return
      <3>. QED
        BY <3>1, <3>2, <3>3
    <2>3. /\ place' \in [Copy -> Place] /\ of' \in [Copy -> Msg \cup {None}]
          /\ tries' \in [Copy -> 0 .. MAX_RETRIES]
      BY <1>2 DEF handleRetryBreaks, Exhausted
    <2>. QED
      BY <2>1, <2>2, <2>3
  <1>. QED
    BY <1>1, <1>2 DEF Retry

LEMMA TypeStep == ASSUME TypeOK, WorkInv, CopyInv, [Next]_vars PROVE TypeOK'
  <1>. USE EmailAssumption DEF TypeOK, WorkInv, Place, Stored, Step, copyVars, workVars, mailVars,
           faultVars
  <1>1. ASSUME NEW m \in Msg, NEW c \in Copy, Publish(m, c) PROVE TypeOK'
    BY <1>1 DEF Publish
  <1>2. ASSUME NEW c \in Copy, Redeliver(c) PROVE TypeOK'
    BY <1>2 DEF Redeliver
  <1>3. ASSUME NEW a \in Worker, NEW c \in Copy, Take(a, c) PROVE TypeOK'
    <2>1. /\ pc' \in [Worker -> Step] /\ cur' \in [Worker -> Copy \cup {None}]
          /\ msg' \in [Worker -> Msg \cup {None}]
      BY <1>3 DEF Take
    <2>. QED
      BY <1>3, <2>1 DEF Take
  <1>4. ASSUME NEW a \in Worker, Claim(a) PROVE TypeOK'
    BY <1>4 DEF Claim, Then, K
  <1>5. ASSUME NEW a \in Worker, Look(a) PROVE TypeOK'
    BY <1>5, RetryType DEF Look, Then
  <1>6. ASSUME NEW a \in Worker, Send(a) PROVE TypeOK'
    BY <1>6 DEF Send, Then, Accepted, K
  <1>7. ASSUME NEW a \in Worker, SendFails(a) PROVE TypeOK'
    BY <1>7 DEF SendFails, Then, Accepted, K, Fault
  <1>8. ASSUME NEW a \in Worker, ReleaseKey(a) PROVE TypeOK'
    BY <1>8, RetryType DEF ReleaseKey, K
  <1>9. ASSUME NEW a \in Worker, ConfirmKey(a) PROVE TypeOK'
    BY <1>9 DEF ConfirmKey, Then, K
  <1>10. ASSUME NEW a \in Worker, Report(a) PROVE TypeOK'
    <2>1. CASE Then(a, "repeat") /\ UNCHANGED copyVars
      BY <1>10, <2>1 DEF Report, Then
    <2>2. CASE Ack(a)
      BY <1>10, <2>2 DEF Report, Ack, Return, Drop
    <2>. QED
      BY <1>10, <2>1, <2>2 DEF Report
  <1>11. ASSUME NEW a \in Worker, Fail(a) PROVE TypeOK'
    BY <1>11 DEF Fail, Return
  <1>12. ASSUME NEW a \in Worker, ClaimFails(a) PROVE TypeOK'
    BY <1>12, HandleRetryType DEF ClaimFails, K, Fault
  <1>13. ASSUME NEW a \in Worker, ReleaseFails(a) PROVE TypeOK'
    BY <1>13, HandleRetryType DEF ReleaseFails, Fault
  <1>14. ASSUME NEW a \in Worker, ConfirmFails(a) PROVE TypeOK'
    BY <1>14 DEF ConfirmFails, Then, Fault
  <1>15. ASSUME NEW a \in Worker, ReportFails(a) PROVE TypeOK'
    BY <1>15, HandleRetryType DEF ReportFails, Fault
  <1>16. ASSUME NEW a \in Worker, FailFails(a) PROVE TypeOK'
    BY <1>16 DEF FailFails, Return, Fault
  <1>17. ASSUME NEW a \in Worker, ChannelCloses(a) PROVE TypeOK'
    BY <1>17 DEF ChannelCloses, Fault
  <1>18. ASSUME NEW k \in Key, Lapse(k) PROVE TypeOK'
    BY <1>18 DEF Lapse
  <1>19. ASSUME NEW k \in Key, Expire(k) PROVE TypeOK'
    BY <1>19 DEF Expire
  <1>20. ASSUME Crash PROVE TypeOK'
    BY <1>20 DEF Crash, Fault
  <1>21. CASE UNCHANGED vars
    BY <1>21 DEF vars
  <1>. QED
    BY <1>1, <1>2, <1>3, <1>4, <1>5, <1>6, <1>7, <1>8, <1>9, <1>10, <1>11, <1>12,
       <1>13, <1>14, <1>15, <1>16, <1>17, <1>18, <1>19, <1>20, <1>21
       DEF Next, QueueStep, WorkerStep, WorkerFault

LEMMA WorkStep == ASSUME TypeOK, WorkInv, CopyInv, [Next]_vars PROVE WorkInv'
  <1>. USE NoneIsNew DEF TypeOK, WorkInv, CopyInv, copyVars, workVars
  <1>1. ASSUME NEW m \in Msg, NEW c \in Copy, Publish(m, c) PROVE WorkInv'
    BY <1>1 DEF Publish
  <1>2. ASSUME NEW c \in Copy, Redeliver(c) PROVE WorkInv'
    BY <1>2 DEF Redeliver
  <1>3. ASSUME NEW a \in Worker, NEW c \in Copy, Take(a, c) PROVE WorkInv'
    BY <1>3 DEF Take
  <1>4. ASSUME NEW a \in Worker, Claim(a) PROVE WorkInv'
    BY <1>4 DEF Claim, Then
  <1>5. ASSUME NEW a \in Worker, Look(a) PROVE WorkInv'
    BY <1>5 DEF Look, Then, Retry, handleRetry, handleRetryBreaks, Move, Return
  <1>6. ASSUME NEW a \in Worker, Send(a) PROVE WorkInv'
    BY <1>6 DEF Send, Then
  <1>7. ASSUME NEW a \in Worker, SendFails(a) PROVE WorkInv'
    BY <1>7 DEF SendFails, Then
  <1>8. ASSUME NEW a \in Worker, ReleaseKey(a) PROVE WorkInv'
    BY <1>8 DEF ReleaseKey, Retry, handleRetry, handleRetryBreaks, Move, Return
  <1>9. ASSUME NEW a \in Worker, ConfirmKey(a) PROVE WorkInv'
    BY <1>9 DEF ConfirmKey, Then
  <1>10. ASSUME NEW a \in Worker, Report(a) PROVE WorkInv'
    BY <1>10 DEF Report, Then, Ack, Return, Drop
  <1>11. ASSUME NEW a \in Worker, Fail(a) PROVE WorkInv'
    BY <1>11 DEF Fail, Return
  <1>12. ASSUME NEW a \in Worker, ClaimFails(a) PROVE WorkInv'
    BY <1>12 DEF ClaimFails, handleRetry, Move, Return
  <1>13. ASSUME NEW a \in Worker, ReleaseFails(a) PROVE WorkInv'
    BY <1>13 DEF ReleaseFails, handleRetry, Move, Return
  <1>14. ASSUME NEW a \in Worker, ConfirmFails(a) PROVE WorkInv'
    BY <1>14 DEF ConfirmFails, Then
  <1>15. ASSUME NEW a \in Worker, ReportFails(a) PROVE WorkInv'
    BY <1>15 DEF ReportFails, handleRetry, Move, Return
  <1>16. ASSUME NEW a \in Worker, FailFails(a) PROVE WorkInv'
    BY <1>16 DEF FailFails, Return
  <1>17. ASSUME NEW a \in Worker, ChannelCloses(a) PROVE WorkInv'
    BY <1>17 DEF ChannelCloses
  <1>18. ASSUME NEW k \in Key, Lapse(k) PROVE WorkInv'
    BY <1>18 DEF Lapse
  <1>19. ASSUME NEW k \in Key, Expire(k) PROVE WorkInv'
    BY <1>19 DEF Expire
  <1>20. ASSUME Crash PROVE WorkInv'
    BY <1>20 DEF Crash
  <1>21. CASE UNCHANGED vars
    BY <1>21 DEF vars
  <1>. QED
    BY <1>1, <1>2, <1>3, <1>4, <1>5, <1>6, <1>7, <1>8, <1>9, <1>10, <1>11, <1>12,
       <1>13, <1>14, <1>15, <1>16, <1>17, <1>18, <1>19, <1>20, <1>21
       DEF Next, QueueStep, WorkerStep, WorkerFault

LEMMA CopyStep == ASSUME TypeOK, WorkInv, CopyInv, [Next]_vars PROVE CopyInv'
  <1>. USE NoneIsNew DEF TypeOK, WorkInv, CopyInv, copyVars
  <1>1. ASSUME NEW m \in Msg, NEW c \in Copy, Publish(m, c) PROVE CopyInv'
    BY <1>1 DEF Publish
  <1>2. ASSUME NEW c \in Copy, Redeliver(c) PROVE CopyInv'
    BY <1>2 DEF Redeliver
  <1>3. ASSUME NEW a \in Worker, NEW c \in Copy, Take(a, c) PROVE CopyInv'
    BY <1>3 DEF Take
  <1>4. ASSUME NEW a \in Worker, Claim(a) PROVE CopyInv'
    BY <1>4 DEF Claim, Then
  <1>5. ASSUME NEW a \in Worker, Look(a) PROVE CopyInv'
    BY <1>5 DEF Look, Then, Retry, handleRetry, handleRetryBreaks, Move, Return
  <1>6. ASSUME NEW a \in Worker, Send(a) PROVE CopyInv'
    BY <1>6 DEF Send, Then
  <1>7. ASSUME NEW a \in Worker, SendFails(a) PROVE CopyInv'
    BY <1>7 DEF SendFails, Then
  <1>8. ASSUME NEW a \in Worker, ReleaseKey(a) PROVE CopyInv'
    BY <1>8 DEF ReleaseKey, Retry, handleRetry, handleRetryBreaks, Move, Return
  <1>9. ASSUME NEW a \in Worker, ConfirmKey(a) PROVE CopyInv'
    BY <1>9 DEF ConfirmKey, Then
  <1>10. ASSUME NEW a \in Worker, Report(a) PROVE CopyInv'
    BY <1>10 DEF Report, Then, Ack, Return, Drop
  <1>11. ASSUME NEW a \in Worker, Fail(a) PROVE CopyInv'
    BY <1>11 DEF Fail, Return
  <1>12. ASSUME NEW a \in Worker, ClaimFails(a) PROVE CopyInv'
    BY <1>12 DEF ClaimFails, handleRetry, Move, Return
  <1>13. ASSUME NEW a \in Worker, ReleaseFails(a) PROVE CopyInv'
    BY <1>13 DEF ReleaseFails, handleRetry, Move, Return
  <1>14. ASSUME NEW a \in Worker, ConfirmFails(a) PROVE CopyInv'
    BY <1>14 DEF ConfirmFails, Then
  <1>15. ASSUME NEW a \in Worker, ReportFails(a) PROVE CopyInv'
    BY <1>15 DEF ReportFails, handleRetry, Move, Return
  <1>16. ASSUME NEW a \in Worker, FailFails(a) PROVE CopyInv'
    BY <1>16 DEF FailFails, Return
  <1>17. ASSUME NEW a \in Worker, ChannelCloses(a) PROVE CopyInv'
    BY <1>17 DEF ChannelCloses
  <1>18. ASSUME NEW k \in Key, Lapse(k) PROVE CopyInv'
    BY <1>18 DEF Lapse
  <1>19. ASSUME NEW k \in Key, Expire(k) PROVE CopyInv'
    BY <1>19 DEF Expire
  <1>20. ASSUME Crash PROVE CopyInv'
    BY <1>20 DEF Crash
  <1>21. CASE UNCHANGED vars
    BY <1>21 DEF vars
  <1>. QED
    BY <1>1, <1>2, <1>3, <1>4, <1>5, <1>6, <1>7, <1>8, <1>9, <1>10, <1>11, <1>12,
       <1>13, <1>14, <1>15, <1>16, <1>17, <1>18, <1>19, <1>20, <1>21
       DEF Next, QueueStep, WorkerStep, WorkerFault

LEMMA KnownStep == ASSUME TypeOK, WorkInv, CopyInv, KnownInv, [Next]_vars PROVE KnownInv'
  <1>. USE NoneIsNew DEF TypeOK, WorkInv, CopyInv, KnownInv, copyVars, workVars
  <1>1. ASSUME NEW m \in Msg, NEW c \in Copy, Publish(m, c) PROVE KnownInv'
    BY <1>1 DEF Publish
  <1>2. ASSUME NEW c \in Copy, Redeliver(c) PROVE KnownInv'
    BY <1>2 DEF Redeliver
  <1>3. ASSUME NEW a \in Worker, NEW c \in Copy, Take(a, c) PROVE KnownInv'
    BY <1>3 DEF Take
  <1>4. ASSUME NEW a \in Worker, Claim(a) PROVE KnownInv'
    BY <1>4 DEF Claim, Then
  <1>5. ASSUME NEW a \in Worker, Look(a) PROVE KnownInv'
    BY <1>5 DEF Look, Then, Retry, handleRetry, handleRetryBreaks, Move, Return
  <1>6. ASSUME NEW a \in Worker, Send(a) PROVE KnownInv'
    BY <1>6 DEF Send, Then
  <1>7. ASSUME NEW a \in Worker, SendFails(a) PROVE KnownInv'
    BY <1>7 DEF SendFails, Then
  <1>8. ASSUME NEW a \in Worker, ReleaseKey(a) PROVE KnownInv'
    BY <1>8 DEF ReleaseKey, Retry, handleRetry, handleRetryBreaks, Move, Return
  <1>9. ASSUME NEW a \in Worker, ConfirmKey(a) PROVE KnownInv'
    BY <1>9 DEF ConfirmKey, Then
  <1>10. ASSUME NEW a \in Worker, Report(a) PROVE KnownInv'
    BY <1>10 DEF Report, Then, Ack, Return, Drop
  <1>11. ASSUME NEW a \in Worker, Fail(a) PROVE KnownInv'
    BY <1>11 DEF Fail, Return
  <1>12. ASSUME NEW a \in Worker, ClaimFails(a) PROVE KnownInv'
    BY <1>12 DEF ClaimFails, handleRetry, Move, Return
  <1>13. ASSUME NEW a \in Worker, ReleaseFails(a) PROVE KnownInv'
    BY <1>13 DEF ReleaseFails, handleRetry, Move, Return
  <1>14. ASSUME NEW a \in Worker, ConfirmFails(a) PROVE KnownInv'
    BY <1>14 DEF ConfirmFails, Then
  <1>15. ASSUME NEW a \in Worker, ReportFails(a) PROVE KnownInv'
    BY <1>15 DEF ReportFails, handleRetry, Move, Return
  <1>16. ASSUME NEW a \in Worker, FailFails(a) PROVE KnownInv'
    BY <1>16 DEF FailFails, Return
  <1>17. ASSUME NEW a \in Worker, ChannelCloses(a) PROVE KnownInv'
    BY <1>17 DEF ChannelCloses
  <1>18. ASSUME NEW k \in Key, Lapse(k) PROVE KnownInv'
    BY <1>18 DEF Lapse
  <1>19. ASSUME NEW k \in Key, Expire(k) PROVE KnownInv'
    BY <1>19 DEF Expire
  <1>20. ASSUME Crash PROVE KnownInv'
    BY <1>20 DEF Crash
  <1>21. CASE UNCHANGED vars
    BY <1>21 DEF vars
  <1>. QED
    BY <1>1, <1>2, <1>3, <1>4, <1>5, <1>6, <1>7, <1>8, <1>9, <1>10, <1>11, <1>12,
       <1>13, <1>14, <1>15, <1>16, <1>17, <1>18, <1>19, <1>20, <1>21
       DEF Next, QueueStep, WorkerStep, WorkerFault

LEMMA DoneStep == ASSUME TypeOK, WorkInv, DoneInv, [Next]_vars PROVE DoneInv'
  <1>. USE EmailAssumption DEF TypeOK, WorkInv, DoneInv, K, workVars, mailVars
  <1>1. ASSUME NEW m \in Msg, NEW c \in Copy, Publish(m, c) PROVE DoneInv'
    BY <1>1 DEF Publish
  <1>2. ASSUME NEW c \in Copy, Redeliver(c) PROVE DoneInv'
    BY <1>2 DEF Redeliver
  <1>3. ASSUME NEW a \in Worker, NEW c \in Copy, Take(a, c) PROVE DoneInv'
    BY <1>3 DEF Take
  <1>4. ASSUME NEW a \in Worker, Claim(a) PROVE DoneInv'
    BY <1>4 DEF Claim, Then
  <1>5. ASSUME NEW a \in Worker, Look(a) PROVE DoneInv'
    BY <1>5 DEF Look, Then, Retry, handleRetry, handleRetryBreaks, Move, Return
  <1>6. ASSUME NEW a \in Worker, Send(a) PROVE DoneInv'
    BY <1>6 DEF Send, Then, Accepted
  <1>7. ASSUME NEW a \in Worker, SendFails(a) PROVE DoneInv'
    BY <1>7 DEF SendFails, Then, Accepted
  <1>8. ASSUME NEW a \in Worker, ReleaseKey(a) PROVE DoneInv'
    BY <1>8 DEF ReleaseKey, Retry, handleRetry, handleRetryBreaks, Move, Return
  <1>9. ASSUME NEW a \in Worker, ConfirmKey(a) PROVE DoneInv'
    BY <1>9 DEF ConfirmKey, Then
  <1>10. ASSUME NEW a \in Worker, Report(a) PROVE DoneInv'
    BY <1>10 DEF Report, Then, Ack, Return, Drop
  <1>11. ASSUME NEW a \in Worker, Fail(a) PROVE DoneInv'
    BY <1>11 DEF Fail, Return
  <1>12. ASSUME NEW a \in Worker, ClaimFails(a) PROVE DoneInv'
    BY <1>12 DEF ClaimFails, handleRetry, Move, Return
  <1>13. ASSUME NEW a \in Worker, ReleaseFails(a) PROVE DoneInv'
    BY <1>13 DEF ReleaseFails, handleRetry, Move, Return
  <1>14. ASSUME NEW a \in Worker, ConfirmFails(a) PROVE DoneInv'
    BY <1>14 DEF ConfirmFails, Then
  <1>15. ASSUME NEW a \in Worker, ReportFails(a) PROVE DoneInv'
    BY <1>15 DEF ReportFails, handleRetry, Move, Return
  <1>16. ASSUME NEW a \in Worker, FailFails(a) PROVE DoneInv'
    BY <1>16 DEF FailFails, Return
  <1>17. ASSUME NEW a \in Worker, ChannelCloses(a) PROVE DoneInv'
    BY <1>17 DEF ChannelCloses
  <1>18. ASSUME NEW k \in Key, Lapse(k) PROVE DoneInv'
    BY <1>18 DEF Lapse
  <1>19. ASSUME NEW k \in Key, Expire(k) PROVE DoneInv'
    BY <1>19 DEF Expire
  <1>20. ASSUME Crash PROVE DoneInv'
    BY <1>20 DEF Crash
  <1>21. CASE UNCHANGED vars
    BY <1>21 DEF vars
  <1>. QED
    BY <1>1, <1>2, <1>3, <1>4, <1>5, <1>6, <1>7, <1>8, <1>9, <1>10, <1>11, <1>12,
       <1>13, <1>14, <1>15, <1>16, <1>17, <1>18, <1>19, <1>20, <1>21
       DEF Next, QueueStep, WorkerStep, WorkerFault

LEMMA VanishStep == ASSUME TypeOK, WorkInv, CopyInv, NothingVanishes, [Next]_vars PROVE NothingVanishes'
  <1>. USE NoneIsNew DEF TypeOK, WorkInv, CopyInv, NothingVanishes, copyVars, workVars
  <1>1. ASSUME NEW m \in Msg, NEW c \in Copy, Publish(m, c) PROVE NothingVanishes'
    BY <1>1 DEF Publish
  <1>2. ASSUME NEW c \in Copy, Redeliver(c) PROVE NothingVanishes'
    BY <1>2 DEF Redeliver
  <1>3. ASSUME NEW a \in Worker, NEW c \in Copy, Take(a, c) PROVE NothingVanishes'
    BY <1>3 DEF Take
  <1>4. ASSUME NEW a \in Worker, Claim(a) PROVE NothingVanishes'
    BY <1>4 DEF Claim, Then
  <1>5. ASSUME NEW a \in Worker, Look(a) PROVE NothingVanishes'
    BY <1>5 DEF Look, Then, Retry, handleRetry, handleRetryBreaks, Move, Return
  <1>6. ASSUME NEW a \in Worker, Send(a) PROVE NothingVanishes'
    BY <1>6 DEF Send, Then
  <1>7. ASSUME NEW a \in Worker, SendFails(a) PROVE NothingVanishes'
    BY <1>7 DEF SendFails, Then
  <1>8. ASSUME NEW a \in Worker, ReleaseKey(a) PROVE NothingVanishes'
    BY <1>8 DEF ReleaseKey, Retry, handleRetry, handleRetryBreaks, Move, Return
  <1>9. ASSUME NEW a \in Worker, ConfirmKey(a) PROVE NothingVanishes'
    BY <1>9 DEF ConfirmKey, Then
  <1>10. ASSUME NEW a \in Worker, Report(a) PROVE NothingVanishes'
    BY <1>10 DEF Report, Then, Ack, Return, Drop
  <1>11. ASSUME NEW a \in Worker, Fail(a) PROVE NothingVanishes'
    BY <1>11 DEF Fail, Return
  <1>12. ASSUME NEW a \in Worker, ClaimFails(a) PROVE NothingVanishes'
    BY <1>12 DEF ClaimFails, handleRetry, Move, Return
  <1>13. ASSUME NEW a \in Worker, ReleaseFails(a) PROVE NothingVanishes'
    BY <1>13 DEF ReleaseFails, handleRetry, Move, Return
  <1>14. ASSUME NEW a \in Worker, ConfirmFails(a) PROVE NothingVanishes'
    BY <1>14 DEF ConfirmFails, Then
  <1>15. ASSUME NEW a \in Worker, ReportFails(a) PROVE NothingVanishes'
    BY <1>15 DEF ReportFails, handleRetry, Move, Return
  <1>16. ASSUME NEW a \in Worker, FailFails(a) PROVE NothingVanishes'
    BY <1>16 DEF FailFails, Return
  <1>17. ASSUME NEW a \in Worker, ChannelCloses(a) PROVE NothingVanishes'
    BY <1>17 DEF ChannelCloses
  <1>18. ASSUME NEW k \in Key, Lapse(k) PROVE NothingVanishes'
    BY <1>18 DEF Lapse
  <1>19. ASSUME NEW k \in Key, Expire(k) PROVE NothingVanishes'
    BY <1>19 DEF Expire
  <1>20. ASSUME Crash PROVE NothingVanishes'
    BY <1>20 DEF Crash
  <1>21. CASE UNCHANGED vars
    BY <1>21 DEF vars
  <1>. QED
    BY <1>1, <1>2, <1>3, <1>4, <1>5, <1>6, <1>7, <1>8, <1>9, <1>10, <1>11, <1>12,
       <1>13, <1>14, <1>15, <1>16, <1>17, <1>18, <1>19, <1>20, <1>21
       DEF Next, QueueStep, WorkerStep, WorkerFault

LEMMA OnlyCopyStep == ASSUME TypeOK, WorkInv, CopyInv, KnownInv, OnlyCopyInv,
    [Next]_vars PROVE OnlyCopyInv'
  <1>. USE NoneIsNew DEF TypeOK, WorkInv, CopyInv, KnownInv, OnlyCopyInv, copyVars, workVars, faultVars
  <1>1. ASSUME NEW m \in Msg, NEW c \in Copy, Publish(m, c) PROVE OnlyCopyInv'
    BY <1>1 DEF Publish
  <1>2. ASSUME NEW c \in Copy, Redeliver(c) PROVE OnlyCopyInv'
    BY <1>2 DEF Redeliver
  <1>3. ASSUME NEW a \in Worker, NEW c \in Copy, Take(a, c) PROVE OnlyCopyInv'
    BY <1>3, SMTT(30) DEF Take
  <1>4. ASSUME NEW a \in Worker, Claim(a) PROVE OnlyCopyInv'
    BY <1>4 DEF Claim, Then
  <1>5. ASSUME NEW a \in Worker, Look(a) PROVE OnlyCopyInv'
    <2>1. CASE handleRetry(a, "idle") /\ UNCHANGED faultVars
      BY <1>5, <2>1 DEF Look, handleRetry, Move, Return
    <2>2. CASE handleRetryBreaks(a, "idle")
      BY <2>2 DEF handleRetryBreaks, Fault
    <2>. QED
      BY <1>5, <2>1, <2>2 DEF Look, Retry, Then
  <1>6. ASSUME NEW a \in Worker, Send(a) PROVE OnlyCopyInv'
    BY <1>6 DEF Send, Then
  <1>7. ASSUME NEW a \in Worker, SendFails(a) PROVE OnlyCopyInv'
    BY <1>7 DEF SendFails, Then, Fault
  <1>8. ASSUME NEW a \in Worker, ReleaseKey(a) PROVE OnlyCopyInv'
    <2>1. CASE handleRetry(a, "fail") /\ UNCHANGED faultVars
      BY <1>8, <2>1 DEF ReleaseKey, handleRetry, Move, Return
    <2>2. CASE handleRetryBreaks(a, "fail")
      BY <2>2 DEF handleRetryBreaks, Fault
    <2>. QED
      BY <1>8, <2>1, <2>2 DEF ReleaseKey, Retry
  <1>9. ASSUME NEW a \in Worker, ConfirmKey(a) PROVE OnlyCopyInv'
    BY <1>9 DEF ConfirmKey, Then
  <1>10. ASSUME NEW a \in Worker, Report(a) PROVE OnlyCopyInv'
    BY <1>10, SMTT(30) DEF Report, Then, Ack, Return, Drop
  <1>11. ASSUME NEW a \in Worker, Fail(a) PROVE OnlyCopyInv'
    BY <1>11 DEF Fail, Return
  <1>12. ASSUME NEW a \in Worker, ClaimFails(a) PROVE OnlyCopyInv'
    BY <1>12 DEF ClaimFails, Fault, handleRetry, Move, Return
  <1>13. ASSUME NEW a \in Worker, ReleaseFails(a) PROVE OnlyCopyInv'
    BY <1>13 DEF ReleaseFails, Fault, handleRetry, Move, Return
  <1>14. ASSUME NEW a \in Worker, ConfirmFails(a) PROVE OnlyCopyInv'
    BY <1>14 DEF ConfirmFails, Then, Fault
  <1>15. ASSUME NEW a \in Worker, ReportFails(a) PROVE OnlyCopyInv'
    BY <1>15 DEF ReportFails, Fault, handleRetry, Move, Return
  <1>16. ASSUME NEW a \in Worker, FailFails(a) PROVE OnlyCopyInv'
    BY <1>16 DEF FailFails, Return, Fault
  <1>17. ASSUME NEW a \in Worker, ChannelCloses(a) PROVE OnlyCopyInv'
    BY <1>17 DEF ChannelCloses, Fault
  <1>18. ASSUME NEW k \in Key, Lapse(k) PROVE OnlyCopyInv'
    BY <1>18 DEF Lapse
  <1>19. ASSUME NEW k \in Key, Expire(k) PROVE OnlyCopyInv'
    BY <1>19 DEF Expire
  <1>20. ASSUME Crash PROVE OnlyCopyInv'
    BY <1>20 DEF Crash, Fault
  <1>21. CASE UNCHANGED vars
    BY <1>21 DEF vars
  <1>. QED
    BY <1>1, <1>2, <1>3, <1>4, <1>5, <1>6, <1>7, <1>8, <1>9, <1>10, <1>11, <1>12,
       <1>13, <1>14, <1>15, <1>16, <1>17, <1>18, <1>19, <1>20, <1>21
       DEF Next, QueueStep, WorkerStep, WorkerFault

LEMMA LeaseStep ==
  ASSUME TypeOK, WorkInv, NEW k \in Key, Leased(k), [Next]_vars, k \notin overrun'
  PROVE  Leased(k)'
  <1>. USE EmailAssumption DEF TypeOK, WorkInv, Leased, Sends, Claims, K, workVars
  <1>1. ASSUME NEW m \in Msg, NEW c \in Copy, Publish(m, c) PROVE Leased(k)'
    BY <1>1 DEF Publish
  <1>2. ASSUME NEW c \in Copy, Redeliver(c) PROVE Leased(k)'
    BY <1>2 DEF Redeliver
  <1>3. ASSUME NEW a \in Worker, NEW c \in Copy, Take(a, c) PROVE Leased(k)'
    BY <1>3 DEF Take
  <1>4. ASSUME NEW a \in Worker, Claim(a) PROVE Leased(k)'
    BY <1>4 DEF Claim, Then
  <1>5. ASSUME NEW a \in Worker, Look(a) PROVE Leased(k)'
    BY <1>5 DEF Look, Then, Retry, handleRetry, handleRetryBreaks, Move, Return
  <1>6. ASSUME NEW a \in Worker, Send(a) PROVE Leased(k)'
    BY <1>6 DEF Send, Then
  <1>7. ASSUME NEW a \in Worker, SendFails(a) PROVE Leased(k)'
    BY <1>7 DEF SendFails, Then
  <1>8. ASSUME NEW a \in Worker, ReleaseKey(a) PROVE Leased(k)'
    BY <1>8 DEF ReleaseKey, Retry, handleRetry, handleRetryBreaks, Move, Return
  <1>9. ASSUME NEW a \in Worker, ConfirmKey(a) PROVE Leased(k)'
    BY <1>9 DEF ConfirmKey, Then
  <1>10. ASSUME NEW a \in Worker, Report(a) PROVE Leased(k)'
    BY <1>10 DEF Report, Then, Ack, Return, Drop
  <1>11. ASSUME NEW a \in Worker, Fail(a) PROVE Leased(k)'
    BY <1>11 DEF Fail, Return
  <1>12. ASSUME NEW a \in Worker, ClaimFails(a) PROVE Leased(k)'
    BY <1>12, HandleRetryFrees DEF ClaimFails
  <1>13. ASSUME NEW a \in Worker, ReleaseFails(a) PROVE Leased(k)'
    BY <1>13, HandleRetryFrees DEF ReleaseFails
  <1>14. ASSUME NEW a \in Worker, ConfirmFails(a) PROVE Leased(k)'
    BY <1>14 DEF ConfirmFails, Then
  <1>15. ASSUME NEW a \in Worker, ReportFails(a) PROVE Leased(k)'
    BY <1>15, HandleRetryFrees DEF ReportFails
  <1>16. ASSUME NEW a \in Worker, FailFails(a) PROVE Leased(k)'
    BY <1>16 DEF FailFails, Return
  <1>17. ASSUME NEW a \in Worker, ChannelCloses(a) PROVE Leased(k)'
    BY <1>17 DEF ChannelCloses
  <1>18. ASSUME NEW j \in Key, Lapse(j) PROVE Leased(k)'
    BY <1>18 DEF Lapse
  <1>19. ASSUME NEW j \in Key, Expire(j) PROVE Leased(k)'
    BY <1>19 DEF Expire
  <1>20. ASSUME Crash PROVE Leased(k)'
    BY <1>20 DEF Crash
  <1>21. CASE UNCHANGED vars
    BY <1>21 DEF vars
  <1>. QED
    BY <1>1, <1>2, <1>3, <1>4, <1>5, <1>6, <1>7, <1>8, <1>9, <1>10, <1>11, <1>12,
       <1>13, <1>14, <1>15, <1>16, <1>17, <1>18, <1>19, <1>20, <1>21
       DEF Next, QueueStep, WorkerStep, WorkerFault

\* All but the lapse of the lease of k.
Spares(k) ==
  \/ QueueStep \/ Crash \/ UNCHANGED vars
  \/ \E a \in Worker : WorkerStep(a) \/ WorkerFault(a)
  \/ \E j \in Key : Expire(j) \/ (j # k /\ Lapse(j))

\* Nobody sends for a key whose lease no worker has.
LEMMA HeldElsewhere ==
  ASSUME TypeOK, WorkInv, NEW k \in Key, store[k] = "pending",
         \A a \in Worker : ~Sends(a, k), Spares(k)
  PROVE  /\ store'[k] = "pending" /\ sent'[k] = sent[k] /\ faults <= faults'
         /\ \A a \in Worker : ~Sends(a, k)'
  <1>. USE EmailAssumption DEF TypeOK, WorkInv, Sends, Claims, K, workVars, mailVars, faultVars
  <1>. DEFINE Kept == /\ store'[k] = "pending" /\ sent'[k] = sent[k] /\ faults <= faults'
                      /\ \A a \in Worker : ~Sends(a, k)'
  <1>1. ASSUME NEW m \in Msg, NEW c \in Copy, Publish(m, c) PROVE Kept
    BY <1>1 DEF Publish
  <1>2. ASSUME NEW c \in Copy, Redeliver(c) PROVE Kept
    BY <1>2 DEF Redeliver
  <1>3. ASSUME NEW a \in Worker, NEW c \in Copy, Take(a, c) PROVE Kept
    BY <1>3 DEF Take
  <1>4. ASSUME NEW a \in Worker, Claim(a) PROVE Kept
    BY <1>4 DEF Claim, Then
  <1>5. ASSUME NEW a \in Worker, Look(a) PROVE Kept
    BY <1>5 DEF Look, Then, Fault, Retry, handleRetry, handleRetryBreaks, Move,
       Return
  <1>6. ASSUME NEW a \in Worker, Send(a) PROVE Kept
    BY <1>6 DEF Send, Then, Accepted
  <1>7. ASSUME NEW a \in Worker, SendFails(a) PROVE Kept
    BY <1>7 DEF SendFails, Then, Accepted, Fault
  <1>8. ASSUME NEW a \in Worker, ReleaseKey(a) PROVE Kept
    BY <1>8 DEF ReleaseKey, Fault, Retry, handleRetry, handleRetryBreaks, Move,
       Return
  <1>9. ASSUME NEW a \in Worker, ConfirmKey(a) PROVE Kept
    BY <1>9 DEF ConfirmKey, Then
  <1>10. ASSUME NEW a \in Worker, Report(a) PROVE Kept
    BY <1>10 DEF Report, Then, Ack, Return, Drop
  <1>11. ASSUME NEW a \in Worker, Fail(a) PROVE Kept
    BY <1>11 DEF Fail, Return
  <1>12. ASSUME NEW a \in Worker, ClaimFails(a) PROVE Kept
    BY <1>12 DEF ClaimFails, Fault, handleRetry, Move, Return
  <1>13. ASSUME NEW a \in Worker, ReleaseFails(a) PROVE Kept
    BY <1>13 DEF ReleaseFails, Fault, handleRetry, Move, Return
  <1>14. ASSUME NEW a \in Worker, ConfirmFails(a) PROVE Kept
    BY <1>14 DEF ConfirmFails, Then, Fault
  <1>15. ASSUME NEW a \in Worker, ReportFails(a) PROVE Kept
    BY <1>15 DEF ReportFails, Fault, handleRetry, Move, Return
  <1>16. ASSUME NEW a \in Worker, FailFails(a) PROVE Kept
    BY <1>16 DEF FailFails, Return, Fault
  <1>17. ASSUME NEW a \in Worker, ChannelCloses(a) PROVE Kept
    BY <1>17 DEF ChannelCloses, Fault
  <1>18. ASSUME NEW j \in Key, j # k, Lapse(j) PROVE Kept
    BY <1>18 DEF Lapse
  <1>19. ASSUME NEW j \in Key, Expire(j) PROVE Kept
    BY <1>19 DEF Expire
  <1>20. ASSUME Crash PROVE Kept
    BY <1>20 DEF Crash, Fault
  <1>21. CASE UNCHANGED vars
    BY <1>21 DEF vars
  <1>. QED
    BY <1>1, <1>2, <1>3, <1>4, <1>5, <1>6, <1>7, <1>8, <1>9, <1>10, <1>11, <1>12,
       <1>13, <1>14, <1>15, <1>16, <1>17, <1>18, <1>19, <1>20, <1>21
       DEF Spares, QueueStep, WorkerStep, WorkerFault

LEMMA CountStep ==
  ASSUME TypeOK, WorkInv, NEW k \in Key, Leased(k), Counted(k), [Next]_vars
  PROVE  Counted(k)'
  <1>. USE EmailAssumption DEF TypeOK, WorkInv, Leased, Counted, Sends, Claims, K, workVars,
           mailVars, faultVars
  <1>1. ASSUME NEW m \in Msg, NEW c \in Copy, Publish(m, c) PROVE Counted(k)'
    BY <1>1 DEF Publish
  <1>2. ASSUME NEW c \in Copy, Redeliver(c) PROVE Counted(k)'
    BY <1>2 DEF Redeliver
  <1>3. ASSUME NEW a \in Worker, NEW c \in Copy, Take(a, c) PROVE Counted(k)'
    BY <1>3 DEF Take
  <1>4. ASSUME NEW a \in Worker, Claim(a) PROVE Counted(k)'
    BY <1>4 DEF Claim, Then
  <1>5. ASSUME NEW a \in Worker, Look(a) PROVE Counted(k)'
    BY <1>5, SMTT(30) DEF Look, Then, Fault, Retry, handleRetry, handleRetryBreaks, Move,
       Return
  <1>6. ASSUME NEW a \in Worker, Send(a) PROVE Counted(k)'
    BY <1>6 DEF Send, Then, Accepted
  <1>7. ASSUME NEW a \in Worker, SendFails(a) PROVE Counted(k)'
    BY <1>7 DEF SendFails, Then, Accepted, Fault
  <1>8. ASSUME NEW a \in Worker, ReleaseKey(a) PROVE Counted(k)'
    BY <1>8, SMTT(30) DEF ReleaseKey, Fault, Retry, handleRetry, handleRetryBreaks, Move,
       Return
  <1>9. ASSUME NEW a \in Worker, ConfirmKey(a) PROVE Counted(k)'
    BY <1>9 DEF ConfirmKey, Then
  <1>10. ASSUME NEW a \in Worker, Report(a) PROVE Counted(k)'
    BY <1>10 DEF Report, Then, Ack, Return, Drop
  <1>11. ASSUME NEW a \in Worker, Fail(a) PROVE Counted(k)'
    BY <1>11 DEF Fail, Return
  <1>12. ASSUME NEW a \in Worker, ClaimFails(a) PROVE Counted(k)'
    BY <1>12 DEF ClaimFails, Fault, handleRetry, Move, Return
  <1>13. ASSUME NEW a \in Worker, ReleaseFails(a) PROVE Counted(k)'
    BY <1>13 DEF ReleaseFails, Fault, handleRetry, Move, Return
  <1>14. ASSUME NEW a \in Worker, ConfirmFails(a) PROVE Counted(k)'
    BY <1>14 DEF ConfirmFails, Then, Fault
  <1>15. ASSUME NEW a \in Worker, ReportFails(a) PROVE Counted(k)'
    BY <1>15 DEF ReportFails, Fault, handleRetry, Move, Return
  <1>16. ASSUME NEW a \in Worker, FailFails(a) PROVE Counted(k)'
    BY <1>16 DEF FailFails, Return, Fault
  <1>17. ASSUME NEW a \in Worker, ChannelCloses(a) PROVE Counted(k)'
    BY <1>17 DEF ChannelCloses, Fault
  <1>18. ASSUME NEW j \in Key, Lapse(j) PROVE Counted(k)'
    BY <1>18 DEF Lapse
  <1>19. ASSUME NEW j \in Key, Expire(j) PROVE Counted(k)'
    BY <1>19 DEF Expire
  <1>20. ASSUME Crash PROVE Counted(k)'
    BY <1>20 DEF Crash, Fault
  <1>21. CASE UNCHANGED vars
    BY <1>21 DEF vars
  <1>. QED
    BY <1>1, <1>2, <1>3, <1>4, <1>5, <1>6, <1>7, <1>8, <1>9, <1>10, <1>11, <1>12,
       <1>13, <1>14, <1>15, <1>16, <1>17, <1>18, <1>19, <1>20, <1>21
       DEF Next, QueueStep, WorkerStep, WorkerFault

\* A key is forgotten only once nobody sends for it.
LEMMA Forgotten ==
  ASSUME TypeOK, WorkInv, NEW k \in Key, Expire(k) PROVE Leased(k)' /\ Counted(k)'
  BY DEF Expire, TypeOK, WorkInv, Leased, Counted, Sends, Claims, K, workVars, faultVars

LEMMA OverrunStays ==
  ASSUME [Next]_vars, NEW k \in overrun, k \notin overrun' PROVE Expire(k)
  BY DEF Next, QueueStep, WorkerStep, WorkerFault, Publish, Redeliver, Take, Claim, Look, Send,
     SendFails, ReleaseKey, ConfirmKey, Report, Fail, ClaimFails, ReleaseFails, ConfirmFails,
     ReportFails, FailFails, ChannelCloses, Lapse, Expire, Crash, vars

LEMMA LeaseInvStep == ASSUME TypeOK, WorkInv, LeaseInv, [Next]_vars PROVE LeaseInv'
  <1>. SUFFICES ASSUME NEW k \in Key, k \notin overrun' PROVE Leased(k)' /\ Counted(k)'
    BY DEF LeaseInv
  <1>1. CASE k \in overrun
    BY <1>1, OverrunStays, Forgotten
  <1>2. CASE k \notin overrun
    BY <1>2, LeaseStep, CountStep DEF LeaseInv
  <1>. QED
    BY <1>1, <1>2

----------------------------------------------------------------------------------
\* The contract: which of its steps a step is.

ContractStep == [Contract!MailNext(KeyOf)]_<<published, mailed, Replies>>

LEMMA Mails ==
  ASSUME Inv, NEW a \in Worker, pc[a] = "send", Accepted(a), UNCHANGED <<published, reported, failed>>
  PROVE  ContractStep
  <1>1. msg[a] \in Msg /\ msg[a] \in published /\ K(a) \in Key
    BY EmailAssumption DEF Inv, TypeOK, WorkInv, KnownInv, K
  <1>2. Contract!Mail(msg[a], K(a))
    BY <1>1 DEF Contract!Mail, Accepted, Replies
  <1>. QED
    BY <1>1, <1>2 DEF ContractStep, Contract!MailNext, K

LEMMA Reports ==
  ASSUME Inv, NEW a \in Worker, pc[a] \in {"report", "repeat"},
         reported' = reported \cup {msg[a]}, UNCHANGED <<published, mailed, failed>>
  PROVE  ContractStep
  <1>1. msg[a] \in Msg /\ msg[a] \in published /\ K(a) \in Key /\ K(a) \in mailed
    BY EmailAssumption DEF Inv, TypeOK, WorkInv, KnownInv, DoneInv, K
  <1>2. CASE msg[a] \in Release
    BY <1>2 DEF ContractStep, Replies
  <1>3. CASE msg[a] \notin Release
    <2>1. Replies' = Replies \cup {<<msg[a], "SENT">>}
      BY <1>3 DEF Replies
    <2>2. Contract!ReplySent(msg[a], K(a))
      BY <1>1, <2>1 DEF Contract!ReplySent
    <2>. QED
      BY <1>1, <2>2 DEF ContractStep, Contract!MailNext, K
  <1>. QED
    BY <1>2, <1>3

LEMMA Fails ==
  ASSUME Inv, NEW a \in Worker, Fail(a)
  PROVE  ContractStep
  <1>1. msg[a] \in Msg /\ msg[a] \in published /\ K(a) \in Key
    BY EmailAssumption DEF Inv, TypeOK, WorkInv, KnownInv, K, Fail
  <1>2. CASE msg[a] \in Release
    BY <1>2 DEF ContractStep, Replies, Fail, mailVars
  <1>3. CASE msg[a] \notin Release
    <2>1. Replies' = Replies \cup {<<msg[a], "FAILED">>}
      BY <1>3 DEF Replies, Fail
    <2>2. Contract!ReplyFailed(msg[a])
      BY <1>1, <2>1 DEF Contract!ReplyFailed, Fail, mailVars
    <2>. QED
      BY <1>1, <2>2 DEF ContractStep, Contract!MailNext, K
  <1>. QED
    BY <1>2, <1>3

LEMMA Publishes ==
  ASSUME NEW m \in Msg, NEW c \in Copy, Publish(m, c)
  PROVE  ContractStep
  <1>1. Contract!Publish(m)
    BY DEF Publish, Contract!Publish, mailVars, Replies
  <1>. QED
    BY <1>1 DEF ContractStep, Contract!MailNext

\* Whatever else happens is of no interest to the API server.
LEMMA Silent == ASSUME UNCHANGED <<published, mailed, reported, failed>> PROVE ContractStep
  BY DEF ContractStep, Replies

LEMMA RefinementStep == ASSUME Inv, [Next]_vars PROVE ContractStep
  <1>1. ASSUME NEW m \in Msg, NEW c \in Copy, Publish(m, c) PROVE ContractStep
    BY <1>1, Publishes
  <1>2. ASSUME NEW c \in Copy, Redeliver(c) PROVE ContractStep
    BY <1>2, Silent DEF Redeliver, mailVars
  <1>3. ASSUME NEW a \in Worker, NEW c \in Copy, Take(a, c) PROVE ContractStep
    BY <1>3, Silent DEF Take, mailVars
  <1>4. ASSUME NEW a \in Worker, Claim(a) PROVE ContractStep
    BY <1>4, Silent DEF Claim, mailVars
  <1>5. ASSUME NEW a \in Worker, Look(a) PROVE ContractStep
    BY <1>5, Silent DEF Look, mailVars
  <1>6. ASSUME NEW a \in Worker, Send(a) PROVE ContractStep
    BY <1>6, Mails DEF Send
  <1>7. ASSUME NEW a \in Worker, SendFails(a) PROVE ContractStep
    BY <1>7, Mails, Silent DEF SendFails, mailVars
  <1>8. ASSUME NEW a \in Worker, ReleaseKey(a) PROVE ContractStep
    BY <1>8, Silent DEF ReleaseKey, mailVars
  <1>9. ASSUME NEW a \in Worker, ConfirmKey(a) PROVE ContractStep
    BY <1>9, Silent DEF ConfirmKey, mailVars
  <1>10. ASSUME NEW a \in Worker, Report(a) PROVE ContractStep
    BY <1>10, Reports DEF Report, mailVars
  <1>11. ASSUME NEW a \in Worker, Fail(a) PROVE ContractStep
    BY <1>11, Fails
  <1>12. ASSUME NEW a \in Worker, ClaimFails(a) PROVE ContractStep
    BY <1>12, Silent DEF ClaimFails, mailVars
  <1>13. ASSUME NEW a \in Worker, ReleaseFails(a) PROVE ContractStep
    BY <1>13, Silent DEF ReleaseFails, mailVars
  <1>14. ASSUME NEW a \in Worker, ConfirmFails(a) PROVE ContractStep
    BY <1>14, Silent DEF ConfirmFails, mailVars
  <1>15. ASSUME NEW a \in Worker, ReportFails(a) PROVE ContractStep
    BY <1>15, Reports, Silent DEF ReportFails, mailVars
  <1>16. ASSUME NEW a \in Worker, FailFails(a) PROVE ContractStep
    BY <1>16, Silent DEF FailFails, mailVars
  <1>17. ASSUME NEW a \in Worker, ChannelCloses(a) PROVE ContractStep
    BY <1>17, Silent DEF ChannelCloses, mailVars
  <1>18. ASSUME NEW k \in Key, Lapse(k) PROVE ContractStep
    BY <1>18, Silent DEF Lapse, mailVars
  <1>19. ASSUME NEW k \in Key, Expire(k) PROVE ContractStep
    BY <1>19, Silent DEF Expire, mailVars
  <1>20. ASSUME Crash PROVE ContractStep
    BY <1>20, Silent DEF Crash, mailVars
  <1>21. CASE UNCHANGED vars
    BY <1>21, Silent DEF vars, mailVars
  <1>. QED
    BY <1>1, <1>2, <1>3, <1>4, <1>5, <1>6, <1>7, <1>8, <1>9, <1>10, <1>11, <1>12,
       <1>13, <1>14, <1>15, <1>16, <1>17, <1>18, <1>19, <1>20, <1>21
       DEF Next, QueueStep, WorkerStep, WorkerFault

----------------------------------------------------------------------------------
\* Theorems.

LEMMA InvInit == Init => Inv
  <1>1. Init => TypeOK
    <2>. SUFFICES ASSUME Init PROVE TypeOK
      OBVIOUS
    <2>1. broken \in BOOLEAN
      BY DEF Init
    <2>2. /\ place \in [Copy -> Place] /\ of \in [Copy -> Msg \cup {None}]
          /\ tries \in [Copy -> 0 .. MAX_RETRIES] /\ store \in [Key -> Stored]
          /\ pc \in [Worker -> Step] /\ cur \in [Worker -> Copy \cup {None}]
          /\ msg \in [Worker -> Msg \cup {None}]
      BY EmailAssumption DEF Init, Place, Stored, Step
    <2>. QED
      BY <2>1, <2>2 DEF Init, TypeOK
  <1>2. Init => WorkInv /\ CopyInv /\ KnownInv /\ DoneInv
    BY NoneIsNew DEF Init, WorkInv, CopyInv, KnownInv, DoneInv
  <1>. QED
    BY <1>1, <1>2 DEF Inv

LEMMA InvStep == ASSUME Inv, [Next]_vars PROVE Inv'
  BY TypeStep, WorkStep, CopyStep, KnownStep, DoneStep DEF Inv

LEMMA Invariance == SafeSpec => []Inv
  <1>1. Inv /\ [Next]_vars => Inv'
    BY InvStep
  <1>. QED
    BY InvInit, <1>1, PTL DEF SafeSpec

\* Type correctness, and how the workers' local variables belong together: no retry counts
\* past the limit, a worker past its first step has a message, the copy it has to settle is
\* one of that message, and no other worker has it (processMessage).
THEOREM TypeCorrect == SafeSpec => [](TypeOK /\ WorkInv)
  <1>1. Inv => TypeOK /\ WorkInv
    BY DEF Inv
  <1>. QED
    BY Invariance, <1>1, PTL

\* A published message is in the queues or its delivery was reported, whatever crashes,
\* closes, fails or is given out again: processMessage settles nothing too early.
THEOREM NothingIsLost == SafeSpec => []NothingVanishes
  <1>1. Init => NothingVanishes
    BY DEF Init, NothingVanishes
  <1>2. Inv /\ NothingVanishes /\ [Next]_vars => NothingVanishes'
    BY VanishStep DEF Inv
  <1>. QED
    BY Invariance, <1>1, <1>2, PTL DEF SafeSpec

\* After publishSagaFailure nobody sends the mail any more, as long as no connection has
\* broken while a worker held a copy.
THEOREM FailedStaysFailed == SafeSpec => []FailedIsFinal
  <1>1. Init => OnlyCopyInv
    BY DEF Init, OnlyCopyInv
  <1>2. Inv /\ OnlyCopyInv /\ [Next]_vars => OnlyCopyInv'
    BY OnlyCopyStep DEF Inv
  <1>3. Inv /\ OnlyCopyInv => FailedIsFinal
    BY NoneIsNew DEF Inv, TypeOK, WorkInv, OnlyCopyInv, FailedIsFinal
  <1>. QED
    BY Invariance, <1>1, <1>2, <1>3, PTL DEF SafeSpec

LEMMA LeaseInvariance == SafeSpec => []LeaseInv
  <1>1. Init => LeaseInv
    BY DEF Init, LeaseInv, Leased, Counted, Sends, Claims
  <1>2. Inv /\ LeaseInv /\ [Next]_vars => LeaseInv'
    BY LeaseInvStep DEF Inv
  <1>. QED
    BY Invariance, <1>1, <1>2, PTL DEF SafeSpec

\* No two workers send for one key, unless a delivery has outlasted its lease: neither
\* redeliveries and reconnections nor messages with the same key get past the claim.
THEOREM OneSender == SafeSpec => []SendingExclusive
  <1>1. LeaseInv => SendingExclusive
    BY DEF LeaseInv, Leased, SendingExclusive
  <1>. QED
    BY LeaseInvariance, <1>1, PTL

\* One mail for each key and one more for each fault, unless a delivery has outlasted its
\* lease, whatever is retried, given out again or processed twice.
THEOREM OneMailAndOneMorePerFault == SafeSpec => []OneMailPerFault
  <1>1. LeaseInv => OneMailPerFault
    BY DEF LeaseInv, Counted, OneMailPerFault
  <1>. QED
    BY LeaseInvariance, <1>1, PTL

\* The consumer implements the contract the API server's saga relies on: what it reports
\* as SENT was mailed, and what it reports at all was published.
THEOREM ImplementsContract == SafeSpec => KeepsContract
  <1>1. Init => Contract!MailInit
    BY DEF Init, Contract!MailInit, Replies
  <1>2. Inv /\ [Next]_vars => [Contract!MailNext(KeyOf)]_<<published, mailed, Replies>>
    BY RefinementStep DEF ContractStep
  <1>. QED
    BY Invariance, <1>1, <1>2, PTL DEF SafeSpec, KeepsContract
==================================================================================
