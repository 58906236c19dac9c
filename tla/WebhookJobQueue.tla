---------------------------- MODULE WebhookJobQueue ----------------------------
(***************************************************************************)
(* Durable webhook delivery: the webhooks and webhook_jobs tables and the  *)
(* Dispatcher.  Dispatch fans an event out into one row per subscribed     *)
(* webhook; delivery loops claim a row, look its webhook up, POST, record  *)
(* the attempt and settle or reschedule the row; recovery, administrators  *)
(* and webhook administration interfere.                                   *)
(*                                                                         *)
(* One action is one SQL statement or the POST.  Time is two bits per row, *)
(* as in IndexJobQueue.  The receiver is part of the model: it may act on  *)
(* a request whose answer never arrives.                                   *)
(***************************************************************************)
EXTENDS Naturals

CONSTANTS
  Webhooks,        \* registered endpoints that subscribe to the events
  Messages,        \* (event, payload) pairs, told apart by their hash
  Dispatchers,     \* concurrent calls of Dispatch
  Workers,         \* Dispatcher.Start loops, of all processes
  Delays,          \* number of Config.WebhookRetryDelays
  MaxAttempts,     \* JobRecoveryConfig.MaxAttempts
  MaxJobs,         \* bound: rows ever inserted
  MaxAdminRetries, \* bound: administrative retries of one row
  MaxDispatches    \* bound: calls of Dispatch

None == "none"

ASSUME WebhookAssumption ==
  /\ None \notin Webhooks
  /\ Delays \in Nat /\ MaxAttempts \in Nat \ {0}
  /\ MaxJobs \in Nat /\ MaxAdminRetries \in Nat /\ MaxDispatches \in Nat

VARIABLES
  hook,       \* the webhooks table: enabled, disabled or deleted
  job,        \* the webhook_jobs table, by id
  nextId,     \* the id sequence
  waiting,    \* accepted rows whose next_attempt_at lies in the future
  overdue,    \* running rows whose updated_at is before the recovery cut-off
  dispatcher, \* each Dispatch: its message and the webhooks still to serve
  worker,     \* what each delivery loop is doing
  deliveries, \* the webhook_deliveries table: jobs with the outcome of an attempt
  calls,      \* bound: calls of Dispatch so far
  posted,     \* history: rows whose request has reached the receiver
  served,     \* history: <<webhook, message>> that Dispatch found or gave a row
  unfound,    \* history: rows whose webhook could not be looked up
  lost,       \* history: rows put back by recovery or by an administrator
  retries     \* history: how often an administrator has put each row back

vars == <<hook, job, nextId, waiting, overdue, dispatcher, worker, deliveries, calls,
          posted, served, unfound, lost, retries>>

fanout == <<dispatcher, calls, served>>
history == <<posted, unfound>>

-----------------------------------------------------------------------------
JobIds == 1..MaxJobs

ActiveStatuses == {"accepted", "running"}
Statuses == ActiveStatuses \cup {"completed", "failed", "cancelled"}

Rows == [status   : Statuses \cup {"absent", "deleted"},
         hook     : Webhooks \cup {None},
         message  : Messages \cup {None},
         attempts : Nat]

Present(j) == job[j].status \in Statuses
Active(j) == job[j].status \in ActiveStatuses

\* GetActiveByIdentity, and what the partial unique index compares.
ActiveFor(h, m) == {j \in JobIds : Active(j) /\ job[j].hook = h /\ job[j].message = m}

\* An UPDATE that makes j active passes the unique index.
MayBeActive(j) == ActiveFor(job[j].hook, job[j].message) \subseteq {j}

\* ForEvent: the enabled subscribers, read once per Dispatch.
ForEvent == {h \in Webhooks : hook[h] = "enabled"}

Idle == [pc |-> "idle", job |-> 0, attempt |-> 0]
WorkerStates == {Idle} \cup
  [pc : {"claimed", "found", "accepted", "refused", "delivered", "erred", "unfound"},
   job : JobIds, attempt : Nat]

Done == [pc |-> "idle", message |-> None, todo |-> {}, hook |-> None]
DispatcherStates == {Done} \cup
  [pc : {"fanout"}, message : Messages, todo : SUBSET Webhooks, hook : {None}] \cup
  [pc : {"unseen", "refused"}, message : Messages, todo : SUBSET Webhooks, hook : Webhooks]

Init ==
  /\ hook = [h \in Webhooks |-> "enabled"]
  /\ job = [j \in JobIds |->
              [status |-> "absent", hook |-> None, message |-> None, attempts |-> 0]]
  /\ nextId = 1
  /\ waiting = {} /\ overdue = {}
  /\ dispatcher = [d \in Dispatchers |-> Done]
  /\ worker = [w \in Workers |-> Idle]
  /\ deliveries = {}
  /\ calls = 0
  /\ posted = {} /\ served = {} /\ unfound = {} /\ lost = {}
  /\ retries = [j \in JobIds |-> 0]

\* One UPDATE of row j: it writes updated_at, so the row is not overdue.
Write(j, status, retryLater) ==
  /\ job' = [job EXCEPT ![j].status = status]
  /\ overdue' = overdue \ {j}
  /\ waiting' = IF retryLater THEN waiting \cup {j} ELSE waiting \ {j}

-----------------------------------------------------------------------------
(* Dispatch: for each subscriber look for an active row, insert one, look  *)
(* again.  An error of one subscriber is logged and the next one is served.*)

\* Dispatch goes on with the subscribers in todo.
Proceed(d, todo) ==
  dispatcher' = [dispatcher EXCEPT ![d] =
    IF todo = {} THEN Done
    ELSE [pc |-> "fanout", message |-> dispatcher[d].message, todo |-> todo, hook |-> None]]

Begin(d, m) ==
  /\ dispatcher[d].pc = "idle"
  /\ calls < MaxDispatches
  /\ calls' = calls + 1
  /\ dispatcher' = [dispatcher EXCEPT ![d] =
       IF ForEvent = {} THEN Done
       ELSE [pc |-> "fanout", message |-> m, todo |-> ForEvent, hook |-> None]]
  /\ UNCHANGED <<hook, job, nextId, waiting, overdue, worker, deliveries, served, history, lost, retries>>

DedupeActive(d, h) ==
  /\ dispatcher[d].pc = "fanout" /\ h \in dispatcher[d].todo
  /\ ActiveFor(h, dispatcher[d].message) # {}
  /\ served' = served \cup {<<h, dispatcher[d].message>>}
  /\ Proceed(d, dispatcher[d].todo \ {h})
  /\ UNCHANGED <<hook, job, nextId, waiting, overdue, worker, deliveries, calls, history, lost, retries>>

FindNoActive(d, h) ==
  /\ dispatcher[d].pc = "fanout" /\ h \in dispatcher[d].todo
  /\ ActiveFor(h, dispatcher[d].message) = {}
  /\ dispatcher' = [dispatcher EXCEPT ![d].pc = "unseen", ![d].hook = h, ![d].todo = @ \ {h}]
  /\ UNCHANGED <<hook, job, nextId, waiting, overdue, worker, deliveries, calls, served, history, lost, retries>>

\* The lookup errs: the subscriber is skipped.
LookupErrs(d, h) ==
  /\ dispatcher[d].pc = "fanout" /\ h \in dispatcher[d].todo
  /\ Proceed(d, dispatcher[d].todo \ {h})
  /\ UNCHANGED <<hook, job, nextId, waiting, overdue, worker, deliveries, calls, served, history, lost, retries>>

Insert(d) ==
  LET h == dispatcher[d].hook
      m == dispatcher[d].message
  IN  /\ job' = [job EXCEPT ![nextId].status = "accepted", ![nextId].hook = h,
                            ![nextId].message = m]
      /\ nextId' = nextId + 1
      /\ served' = served \cup {<<h, m>>}
      /\ Proceed(d, dispatcher[d].todo)
      /\ UNCHANGED <<hook, waiting, overdue, worker, deliveries, calls, history, lost, retries>>

\* Create: the webhook must still exist and have no active row for the message.
Create(d) ==
  /\ dispatcher[d].pc = "unseen"
  /\ nextId \in JobIds
  /\ hook[dispatcher[d].hook] # "deleted"
  /\ ActiveFor(dispatcher[d].hook, dispatcher[d].message) = {}
  /\ Insert(d)

CreateFails(d) ==
  /\ dispatcher[d].pc = "unseen"
  /\ dispatcher' = [dispatcher EXCEPT ![d].pc = "refused"]
  /\ UNCHANGED <<hook, job, nextId, waiting, overdue, worker, deliveries, calls, served, history, lost, retries>>

\* Mutant of LookAgain: every failed INSERT counts as a duplicate.
LookAgainBlindly(d) ==
  /\ dispatcher[d].pc = "refused"
  /\ served' = served \cup {<<dispatcher[d].hook, dispatcher[d].message>>}
  /\ Proceed(d, dispatcher[d].todo)
  /\ UNCHANGED <<hook, job, nextId, waiting, overdue, worker, deliveries, calls, history, lost, retries>>

LookAgain(d) ==
  LET h == dispatcher[d].hook
      m == dispatcher[d].message
  IN  /\ dispatcher[d].pc = "refused"
      /\ served' = IF ActiveFor(h, m) # {} THEN served \cup {<<h, m>>} ELSE served
      /\ Proceed(d, dispatcher[d].todo)
      /\ UNCHANGED <<hook, job, nextId, waiting, overdue, worker, deliveries, calls, history, lost, retries>>

-----------------------------------------------------------------------------
(* Delivery: processNext in each loop.                                     *)

\* Mutant of Claimable: the status is not filtered.
ClaimableWhenActive(j) == Active(j) /\ j \notin waiting

\* ClaimNext takes the due row with the smallest next_attempt_at; the order
\* of the due rows is left open.
Claimable(j) == job[j].status = "accepted" /\ j \notin waiting

ClaimNext(w) ==
  /\ worker[w].pc = "idle"
  /\ \E j \in JobIds :
       /\ Claimable(j)
       /\ job' = [job EXCEPT ![j].status = "running", ![j].attempts = @ + 1]
       /\ overdue' = overdue \ {j}
       /\ worker' = [worker EXCEPT ![w] =
            [pc |-> "claimed", job |-> j, attempt |-> job[j].attempts + 1]]
  /\ UNCHANGED <<hook, nextId, waiting, fanout, deliveries, history, lost, retries>>

\* GetByID: a disabled webhook is found like an enabled one.
FindHook(w) ==
  /\ worker[w].pc = "claimed"
  /\ hook[job[worker[w].job].hook] # "deleted"
  /\ worker' = [worker EXCEPT ![w].pc = "found"]
  /\ UNCHANGED <<hook, job, nextId, waiting, overdue, fanout, deliveries, history, lost, retries>>

\* GetByID errs: the webhook is gone, or the database did not answer.
MissHook(w) ==
  /\ worker[w].pc = "claimed"
  /\ worker' = [worker EXCEPT ![w].pc = "unfound"]
  /\ unfound' = unfound \cup {worker[w].job}
  /\ UNCHANGED <<hook, job, nextId, waiting, overdue, fanout, deliveries, posted, lost, retries>>

\* send: a 2xx answer; or no such answer, whether the request arrived or not.
Send(w) ==
  /\ worker[w].pc = "found"
  /\ \/ /\ worker' = [worker EXCEPT ![w].pc = "accepted"]
        /\ posted' = posted \cup {worker[w].job}
     \/ /\ worker' = [worker EXCEPT ![w].pc = "refused"]
        /\ posted' \in {posted, posted \cup {worker[w].job}}
  /\ UNCHANGED <<hook, job, nextId, waiting, overdue, fanout, deliveries, unfound, lost, retries>>

\* CreateDelivery, whose error is only logged.
Record(w) ==
  LET entry == [job |-> worker[w].job, success |-> worker[w].pc = "accepted"]
  IN  /\ worker[w].pc \in {"accepted", "refused"}
      /\ deliveries' \in {deliveries, deliveries \cup {entry}}
      /\ worker' = [worker EXCEPT ![w].pc = IF entry.success THEN "delivered" ELSE "erred"]
      /\ UNCHANGED <<hook, job, nextId, waiting, overdue, fanout, history, lost, retries>>

\* Every UPDATE that settles a row goes by id alone.
SettleRow(w, status, retryLater) ==
  LET j == worker[w].job
  IN  /\ IF Present(j) /\ (status = "accepted" => MayBeActive(j))
         THEN Write(j, status, retryLater)
         ELSE UNCHANGED <<job, overdue, waiting>>
      /\ worker' = [worker EXCEPT ![w] = Idle]
      /\ UNCHANGED <<hook, nextId, fanout, deliveries, history, lost, retries>>

\* Mutant of Complete: any answer of the receiver completes the row.
CompleteOnAnswer(w) ==
  worker[w].pc \in {"delivered", "erred"} /\ SettleRow(w, "completed", FALSE)

Complete(w) == worker[w].pc = "delivered" /\ SettleRow(w, "completed", FALSE)

\* The attempt was the last one: the delay after it is never waited.
Exhausted(attempt) == attempt >= Delays

DeadLetter(w) ==
  worker[w].pc = "erred" /\ Exhausted(worker[w].attempt) /\ SettleRow(w, "failed", FALSE)

Reschedule(w) ==
  worker[w].pc = "erred" /\ ~Exhausted(worker[w].attempt) /\ SettleRow(w, "accepted", TRUE)

\* failLookup fails the row at once, on any error.
FailLookup(w) == worker[w].pc = "unfound" /\ SettleRow(w, "failed", FALSE)

\* The process stops, or the statement that settles the row errs.
Abandon(w) ==
  /\ worker[w].pc # "idle"
  /\ worker' = [worker EXCEPT ![w] = Idle]
  /\ UNCHANGED <<hook, job, nextId, waiting, overdue, fanout, deliveries, history, lost, retries>>

-----------------------------------------------------------------------------
(* Time, recovery and administration.                                      *)

BecomeDue(j) ==
  /\ j \in waiting
  /\ waiting' = waiting \ {j}
  /\ UNCHANGED <<hook, job, nextId, overdue, fanout, worker, deliveries, history, lost, retries>>

GrowOverdue(j) ==
  /\ job[j].status = "running" /\ j \notin overdue
  /\ overdue' = overdue \cup {j}
  /\ UNCHANGED <<hook, job, nextId, waiting, fanout, worker, deliveries, history, lost, retries>>

\* Mutant of Recovered: rows out of attempts are left as they are.
RecoveredBelowLimit(row) ==
  IF row.attempts < MaxAttempts THEN [row EXCEPT !.status = "accepted"] ELSE row

Recovered(row) ==
  IF row.attempts < MaxAttempts THEN [row EXCEPT !.status = "accepted"]
                                ELSE [row EXCEPT !.status = "failed"]

RecoverStale ==
  /\ overdue # {}
  /\ job' = [j \in JobIds |-> IF j \in overdue THEN Recovered(job[j]) ELSE job[j]]
  /\ overdue' = {}
  /\ lost' = lost \cup overdue
  /\ UNCHANGED <<hook, nextId, waiting, fanout, worker, deliveries, history, retries>>

\* Retry by id alone, in any state of the row.
Retry(j) ==
  /\ Present(j) /\ MayBeActive(j)
  /\ retries[j] < MaxAdminRetries
  /\ Write(j, "accepted", FALSE)
  /\ lost' = lost \cup {j}
  /\ retries' = [retries EXCEPT ![j] = @ + 1]
  /\ UNCHANGED <<hook, nextId, fanout, worker, deliveries, history>>

CancelQueued(j) ==
  /\ job[j].status = "accepted"
  /\ Write(j, "cancelled", FALSE)
  /\ UNCHANGED <<hook, nextId, fanout, worker, deliveries, history, lost, retries>>

\* Update of a webhook: rows that are queued for it stay.
ToggleHook(h) ==
  /\ hook[h] # "deleted"
  /\ hook' = [hook EXCEPT ![h] = IF @ = "enabled" THEN "disabled" ELSE "enabled"]
  /\ UNCHANGED <<job, nextId, waiting, overdue, fanout, worker, deliveries, history, lost, retries>>

\* Delete of a webhook, or of its project: the foreign keys delete its rows
\* and its delivery log.
DeleteHook(h) ==
  LET mine == {j \in JobIds : job[j].hook = h}
  IN  /\ hook[h] # "deleted"
      /\ hook' = [hook EXCEPT ![h] = "deleted"]
      /\ job' = [j \in JobIds |->
                   IF j \in mine THEN [job[j] EXCEPT !.status = "deleted"] ELSE job[j]]
      /\ waiting' = waiting \ mine
      /\ overdue' = overdue \ mine
      /\ deliveries' = {entry \in deliveries : entry.job \notin mine}
      /\ UNCHANGED <<nextId, fanout, worker, history, lost, retries>>

-----------------------------------------------------------------------------
DispatchSteps(d) ==
  \/ \E m \in Messages : Begin(d, m)
  \/ \E h \in Webhooks : DedupeActive(d, h) \/ FindNoActive(d, h) \/ LookupErrs(d, h)
  \/ Create(d) \/ CreateFails(d) \/ LookAgain(d)

Lookup(w) == FindHook(w) \/ MissHook(w)
Settle(w) == Complete(w) \/ DeadLetter(w) \/ Reschedule(w) \/ FailLookup(w)

Next ==
  \/ \E d \in Dispatchers : DispatchSteps(d)
  \/ \E w \in Workers : ClaimNext(w) \/ Lookup(w) \/ Send(w) \/ Record(w) \/ Settle(w) \/ Abandon(w)
  \/ \E j \in JobIds : BecomeDue(j) \/ GrowOverdue(j) \/ Retry(j) \/ CancelQueued(j)
  \/ RecoverStale
  \/ \E h \in Webhooks : ToggleHook(h) \/ DeleteHook(h)

Spec == Init /\ [][Next]_vars

\* Delivery loops keep polling, the HTTP client times out (ClientTimeout), time
\* passes and the recovery timer fires.
Fairness ==
  /\ \A w \in Workers : /\ WF_vars(ClaimNext(w)) /\ WF_vars(Lookup(w)) /\ WF_vars(Send(w))
                        /\ WF_vars(Record(w)) /\ WF_vars(Settle(w))
  /\ \A j \in JobIds : WF_vars(BecomeDue(j)) /\ WF_vars(GrowOverdue(j))
  /\ WF_vars(RecoverStale)

FairSpec == Spec /\ Fairness

-----------------------------------------------------------------------------
TypeOK ==
  /\ hook \in [Webhooks -> {"enabled", "disabled", "deleted"}]
  /\ job \in [JobIds -> Rows]
  /\ nextId \in 1..(MaxJobs + 1)
  /\ waiting \subseteq {j \in JobIds : job[j].status = "accepted"}
  /\ overdue \subseteq {j \in JobIds : job[j].status = "running"}
  /\ dispatcher \in [Dispatchers -> DispatcherStates]
  /\ worker \in [Workers -> WorkerStates]
  /\ deliveries \subseteq [job : JobIds, success : BOOLEAN]
  /\ calls \in 0..MaxDispatches
  /\ posted \subseteq JobIds
  /\ served \subseteq Webhooks \X Messages
  /\ unfound \subseteq JobIds
  /\ lost \subseteq JobIds
  /\ retries \in [JobIds -> Nat]

\* A subscriber that Dispatch passes without logging an error has a row for
\* the message, as long as the webhook exists.
ServedHasRow ==
  \A p \in served : hook[p[1]] # "deleted" =>
    \E j \in JobIds : Present(j) /\ job[j].hook = p[1] /\ job[j].message = p[2]

\* No delivery is given up early, unless its webhook could not be looked up.
FailedMeansExhausted ==
  \A j \in JobIds : (job[j].status = "failed" /\ j \notin unfound) =>
    job[j].attempts >= Delays \/ job[j].attempts >= MaxAttempts

\* What Dispatch and deliverClaimedWebhookJob owe a subscriber, over rows of the right shape:
\* nobody who was passed is without a row, and no row is given up before its attempts are used.
NoSubscriberForgotten == TypeOK /\ ServedHasRow /\ FailedMeansExhausted

\* The queue is a DurableJob: a row completes only when a request has reached
\* its receiver, and a settled row does not come back unless its claim was once
\* taken from a loop, by recovery or by an administrator.
Phase == [j \in JobIds |-> IF Active(j) THEN "pending" ELSE job[j].status]
Promise == INSTANCE DurableJob
  WITH Jobs <- JobIds, phase <- Phase, done <- posted, contested <- lost
KeepsPromise == Promise!Spec

\* Every queued delivery is settled, whatever crashes and however the receiver
\* behaves.
DeliverySettles ==
  \A j \in JobIds : Active(j) ~> ~Active(j)
=============================================================================
