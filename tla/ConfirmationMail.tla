----------------------------- MODULE ConfirmationMail -----------------------------
(* What the notification service promises to a subscribe saga, and all it         *)
(* promises: it mails a confirmation only if one was queued; it reports SENT only  *)
(* for a mail the SMTP server accepted, under the key of the message; it may       *)
(* report FAILED instead, or also, or nothing at all.  Every report may come       *)
(* several times, in any order, at any time: queues, retries and redeliveries      *)
(* live in EmailDelivery, which implements this contract.                          *)
CONSTANTS
  Request,  \* the messages: one for each saga, whose id they carry
  Key       \* the idempotency keys: email, repository and confirm token

VARIABLES
  published,  \* the requests whose message has reached the queue email-send-queue
  mailed,     \* the keys whose mail has been accepted by the SMTP server
  replies     \* the queue saga.confirmation.reply, as a set: see ReplySent

mailVars == <<published, mailed, replies>>

Reply == Request \X {"SENT", "FAILED"}

MailTypeOK ==
  /\ published \subseteq Request
  /\ mailed \subseteq Key
  /\ replies \subseteq Reply

MailInit == published = {} /\ mailed = {} /\ replies = {}

\* Mutant of Publish: it returns although the broker has not taken the message.
PublishUnconfirmed(r) == r \in Request /\ UNCHANGED mailVars

Publish(r) ==
  /\ published' = published \cup {r}
  /\ UNCHANGED <<mailed, replies>>

Mail(r, k) ==
  /\ r \in published
  /\ mailed' = mailed \cup {k}
  /\ UNCHANGED <<published, replies>>

\* A reply taken from the queue may be put there again, which is how duplicates
\* are modelled: each copy is delivered once the one before it is taken.
ReplySent(r, k) ==
  /\ r \in published
  /\ k \in mailed
  /\ replies' = replies \cup {<<r, "SENT">>}
  /\ UNCHANGED <<published, mailed>>

ReplyFailed(r) ==
  /\ r \in published
  /\ replies' = replies \cup {<<r, "FAILED">>}
  /\ UNCHANGED <<published, mailed>>

\* The contract as a specification of its own, for messages with the given keys.
MailNext(key) ==
  \E r \in Request :
    \/ Publish(r)
    \/ \E k \in Key : k = key[r] /\ (Mail(r, k) \/ ReplySent(r, k) \/ ReplyFailed(r))
==================================================================================
