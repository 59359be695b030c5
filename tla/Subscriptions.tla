------------------------------ MODULE Subscriptions ------------------------------
(* The table Subscription of the API server's database, as its repository       *)
(* (modules/subscriptions/repositories/subscription.repository.ts) reads and    *)
(* writes it.  A row is identified by the id it is given when it is created; its *)
(* confirm and unsubscribe tokens are drawn together with the id and never       *)
(* change, so the id stands for them too.  An id that has been deleted is never  *)
(* drawn again.  Every operator is one SQL statement, hence atomic.              *)
EXTENDS Naturals

CONSTANTS
  Pair,   \* the (email, repository) pairs people subscribe to
  SubId,  \* the row ids the database may draw
  None    \* stands for an absent value

ASSUME SubscriptionsAssumption == None \notin Pair \cup SubId

VARIABLES
  status,  \* status[s]: where the row s is in its life
  pair     \* pair[s]: the (email, repository) the row s was created with

subVars == <<status, pair>>

RowStatus == {"unused", "PENDING", "ACTIVE", "deleted"}

SubTypeOK ==
  /\ status \in [SubId -> RowStatus]
  /\ pair \in [SubId -> Pair \cup {None}]

SubInit ==
  /\ status = [s \in SubId |-> "unused"]
  /\ pair = [s \in SubId |-> None]

Live(s) == status[s] \in {"PENDING", "ACTIVE"}

\* The rows of the pair p; the unique index on (email, repository) keeps it a
\* set of at most one row.
RowsOf(p) == {s \in SubId : Live(s) /\ pair[s] = p}

checkIfActiveExists(p) == \E s \in RowsOf(p) : status[s] = "ACTIVE"

\* INSERT ... ON CONFLICT (email, repository) DO UPDATE SET status = 'PENDING':
\* s is the row returned, the one there was or a new one.
upsertPending(p, s) ==
  /\ \/ s \in RowsOf(p)
     \/ RowsOf(p) = {} /\ status[s] = "unused"
  /\ status' = [status EXCEPT ![s] = "PENDING"]
  /\ pair' = [pair EXCEPT ![s] = p]

\* Mutant of activate: a status that the enum SubscriptionStatus does not have.
activateUnknown(s) ==
  /\ Live(s)
  /\ status' = [status EXCEPT ![s] = "CONFIRMED"]
  /\ UNCHANGED pair

\* UPDATE ... WHERE id = s, which fails when there is no such row.
activate(s) ==
  /\ Live(s)
  /\ status' = [status EXCEPT ![s] = "ACTIVE"]
  /\ UNCHANGED pair

\* DELETE ... WHERE id = s, which fails when there is no such row.
delete(s) ==
  /\ Live(s)
  /\ status' = [status EXCEPT ![s] = "deleted"]
  /\ UNCHANGED pair

\* Mutants of deleteIfPending: the row goes whatever its status is; the condition is
\* the wrong way round.
deleteAnyway(s) ==
  /\ status' = [status EXCEPT ![s] = IF Live(s) THEN "deleted" ELSE @]
  /\ UNCHANGED pair

deleteIfActive(s) ==
  /\ status' = [status EXCEPT ![s] = IF @ = "ACTIVE" THEN "deleted" ELSE @]
  /\ UNCHANGED pair

\* DELETE ... WHERE id = s AND status = 'PENDING', which may delete nothing.
deleteIfPending(s) ==
  /\ status' = [status EXCEPT ![s] = IF @ = "PENDING" THEN "deleted" ELSE @]
  /\ UNCHANGED pair
==================================================================================
