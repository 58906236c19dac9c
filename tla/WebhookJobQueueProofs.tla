------------------------- MODULE WebhookJobQueueProofs -------------------------
(***************************************************************************)
(* Proofs about WebhookJobQueue, for every number of webhooks, messages,   *)
(* rows, dispatchers and delivery loops and every setting of the limits.   *)
(***************************************************************************)
EXTENDS WebhookJobQueue, TLAPS

-----------------------------------------------------------------------------
(* Shape: types, and which rows exist.                                     *)

UnusedRow == [status |-> "absent", hook |-> None, message |-> None, attempts |-> 0]

\* Rows exist for the ids that the sequence has handed out, and no others.
IdsHandedOut ==
  \A j \in JobIds : IF j < nextId THEN job[j].hook \in Webhooks /\ job[j].status # "absent"
                                  ELSE job[j] = UnusedRow

\* A loop delivers a row that was inserted; it may have been deleted since.
ClaimsNameRows ==
  \A w \in Workers : worker[w].pc # "idle" => job[worker[w].job].status # "absent"

Shape == TypeOK /\ IdsHandedOut /\ ClaimsNameRows

\* An actor between two statements holds what it has read.
LEMMA BusyWorker ==
  ASSUME Shape, NEW w \in Workers, worker[w].pc # "idle"
  PROVE  /\ worker[w].job \in JobIds /\ worker[w].attempt \in Nat
         /\ worker[w] \in [pc : {"claimed", "found", "accepted", "refused", "delivered", "erred",
                                 "unfound"}, job : JobIds, attempt : Nat]
         /\ job[worker[w].job].status # "absent" /\ job[worker[w].job].hook \in Webhooks
BY DEF Shape, TypeOK, WorkerStates, Idle, ClaimsNameRows, IdsHandedOut, UnusedRow

LEMMA BusyDispatcher ==
  ASSUME TypeOK, NEW d \in Dispatchers, dispatcher[d].pc # "idle"
  PROVE  /\ dispatcher[d].message \in Messages
         /\ dispatcher[d].todo \subseteq Webhooks
         /\ dispatcher[d].pc # "fanout" => dispatcher[d].hook \in Webhooks
BY DEF TypeOK, DispatcherStates, Done

-----------------------------------------------------------------------------
(* What a step does to a row, and to a delivery loop.                      *)

\* A row keeps its identity and its attempts, and no row vanishes.
RowKept(j) ==
  /\ job[j].status # "absent" =>
       /\ job'[j].status # "absent"
       /\ job'[j].hook = job[j].hook /\ job'[j].message = job[j].message
  /\ job[j].attempts <= job'[j].attempts

\* The loop that holds row j settles it.
SettledBy(w, j) ==
  /\ worker[w].pc # "idle" /\ worker[w].job = j /\ worker'[w].pc = "idle"
  /\ job[j].status \in Statuses
  /\ \/ worker[w].pc = "delivered" /\ job'[j].status = "completed"
     \/ worker[w].pc = "erred" /\ Exhausted(worker[w].attempt) /\ job'[j].status = "failed"
     \/ worker[w].pc = "unfound" /\ job'[j].status = "failed"
     \/ worker[w].pc = "erred" /\ job'[j].status = "accepted"

\* The ways in which the status of a row changes, and who changes it.
RowMoved(j) ==
  LET before == job[j].status
      after == job'[j].status
  IN  \/ after = before
      \/ before = "absent" /\ after = "accepted"
      \/ before = "accepted" /\ after \in {"running", "cancelled"}
      \/ before \in Statuses /\ after = "deleted" /\ hook'[job[j].hook] = "deleted"
      \/ j \in lost' /\ before \in Statuses /\ after = "accepted"
      \/ j \in lost' /\ before = "running" /\ after = "failed" /\ job[j].attempts >= MaxAttempts
      \/ \E w \in Workers : SettledBy(w, j)

RowStep(j) == RowKept(j) /\ RowMoved(j)

\* Settling a row leaves the loop without one, and writes one row at most.
LEMMA SettledRow ==
  ASSUME NEW w \in Workers, Settle(w)
  PROVE  /\ worker[w].pc # "idle"
         /\ worker' = [worker EXCEPT ![w] = Idle]
         /\ \/ UNCHANGED <<job, overdue, waiting>>
            \/ /\ Present(worker[w].job)
               /\ \E status \in {"completed", "failed", "accepted"}, later \in BOOLEAN :
                    /\ Write(worker[w].job, status, later)
                    /\ later => status = "accepted"
                    /\ status = "completed" => worker[w].pc = "delivered"
                    /\ status = "failed" =>
                         \/ worker[w].pc = "unfound"
                         \/ worker[w].pc = "erred" /\ Exhausted(worker[w].attempt)
                    /\ status = "accepted" => worker[w].pc = "erred"
<1>1. CASE Complete(w)
  BY <1>1, Zenon DEF Complete, SettleRow
<1>2. CASE DeadLetter(w)
  BY <1>2, Zenon DEF DeadLetter, SettleRow
<1>3. CASE Reschedule(w)
  BY <1>3, Zenon DEF Reschedule, SettleRow
<1>4. CASE FailLookup(w)
  BY <1>4, Zenon DEF FailLookup, SettleRow
<1>5. QED
  BY <1>1, <1>2, <1>3, <1>4 DEF Settle

\* An UPDATE of one row changes its status alone.
LEMMA WriteRow ==
  ASSUME TypeOK, NEW j \in JobIds, NEW status \in Statuses, NEW later \in BOOLEAN,
         Write(j, status, later)
  PROVE  /\ job' \in [JobIds -> Rows]
         /\ job'[j].status = status
         /\ job'[j].hook = job[j].hook /\ job'[j].message = job[j].message
         /\ job'[j].attempts = job[j].attempts
         /\ \A k \in JobIds : k # j => job'[k] = job[k]
BY DEF Write, TypeOK, Rows, Statuses, ActiveStatuses

LEMMA WriteRowStep ==
  ASSUME TypeOK, NEW j \in JobIds, NEW status \in Statuses, NEW later \in BOOLEAN,
         Write(j, status, later), Present(j), NEW k \in JobIds,
         k = j => RowMoved(j)
  PROVE  RowStep(k)
<1>1. job[k].attempts \in Nat
  BY DEF TypeOK, Rows
<1>2. QED
  BY <1>1, WriteRow DEF RowStep, RowKept, RowMoved, Present, Statuses, ActiveStatuses

LEMMA RowSteps ==
  ASSUME Shape, [Next]_vars, NEW j \in JobIds
  PROVE  RowStep(j)
<1>1. /\ TypeOK /\ worker \in [Workers -> WorkerStates]
      /\ job \in [JobIds -> Rows] /\ job[j] \in Rows /\ job[j].attempts \in Nat
  BY DEF Shape, TypeOK, Rows
<1>2. ASSUME job'[j] = job[j] PROVE RowStep(j)
  BY <1>1, <1>2 DEF RowStep, RowKept, RowMoved
<1>3. ASSUME NEW d \in Dispatchers, DispatchSteps(d) PROVE RowStep(j)
  <2>1. CASE Create(d)
    <3>1. nextId \in JobIds /\ job' = [job EXCEPT ![nextId].status = "accepted",
                                                  ![nextId].hook = dispatcher[d].hook,
                                                  ![nextId].message = dispatcher[d].message]
      BY <2>1 DEF Create, Insert
    <3>2. job[nextId] = UnusedRow
      BY <3>1 DEF Shape, IdsHandedOut, JobIds
    <3>3. QED
      BY <1>1, <1>2, <3>1, <3>2 DEF RowStep, RowKept, RowMoved, UnusedRow, Rows
  <2>2. CASE ~Create(d)
    BY <1>2, <1>3, <2>2
    DEF DispatchSteps, Begin, DedupeActive, FindNoActive, LookupErrs, CreateFails, LookAgain
  <2>3. QED
    BY <2>1, <2>2
<1>4. ASSUME NEW w \in Workers, ClaimNext(w) PROVE RowStep(j)
  BY <1>1, <1>4 DEF ClaimNext, Claimable, RowStep, RowKept, RowMoved, Rows
<1>5. ASSUME NEW w \in Workers, Lookup(w) \/ Send(w) \/ Record(w) \/ Abandon(w) PROVE RowStep(j)
  BY <1>2, <1>5 DEF Lookup, FindHook, MissHook, Send, Record, Abandon
<1>6. ASSUME NEW w \in Workers, Settle(w) PROVE RowStep(j)
  <2> DEFINE k == worker[w].job
  <2>1. /\ worker[w].pc # "idle" /\ k \in JobIds
        /\ worker' = [worker EXCEPT ![w] = Idle]
    BY <1>6, BusyWorker, SettledRow
  <2>2. worker'[w].pc = "idle"
    BY <1>1, <2>1 DEF Idle
  <2>3. CASE job' = job
    BY <1>2, <2>3
  <2>4. CASE job' # job
    <3>1. PICK status \in {"completed", "failed", "accepted"}, later \in BOOLEAN :
            /\ Write(k, status, later) /\ Present(k)
            /\ status = "completed" => worker[w].pc = "delivered"
            /\ status = "failed" => \/ worker[w].pc = "unfound"
                                    \/ worker[w].pc = "erred" /\ Exhausted(worker[w].attempt)
            /\ status = "accepted" => worker[w].pc = "erred"
      BY <1>6, <2>4, SettledRow
    <3>2. status \in Statuses
      BY DEF Statuses, ActiveStatuses
    <3>3. job'[k].status = status
      BY <1>1, <2>1, <3>1, <3>2, WriteRow
    <3>4. RowMoved(k)
      BY <2>1, <2>2, <3>1, <3>3 DEF RowMoved, SettledBy, Present
    <3>5. QED
      BY <1>1, <2>1, <3>1, <3>2, <3>4, WriteRowStep
  <2>5. QED
    BY <2>3, <2>4
<1>7. ASSUME NEW k \in JobIds, BecomeDue(k) \/ GrowOverdue(k) PROVE RowStep(j)
  BY <1>2, <1>7 DEF BecomeDue, GrowOverdue
<1>8. ASSUME NEW k \in JobIds, Retry(k) PROVE RowStep(j)
  <2>1. Write(k, "accepted", FALSE) /\ Present(k) /\ k \in lost'
    BY <1>8 DEF Retry
  <2>2. RowMoved(k)
    BY <1>1, <2>1, WriteRow DEF RowMoved, Present, Statuses, ActiveStatuses
  <2>3. QED
    BY <1>1, <2>1, <2>2, WriteRowStep DEF Statuses, ActiveStatuses
<1>9. ASSUME NEW k \in JobIds, CancelQueued(k) PROVE RowStep(j)
  <2>1. Write(k, "cancelled", FALSE) /\ job[k].status = "accepted"
    BY <1>9 DEF CancelQueued
  <2>2. RowMoved(k)
    BY <1>1, <2>1, WriteRow DEF RowMoved, Statuses
  <2>3. QED
    BY <1>1, <2>1, <2>2, WriteRowStep DEF Present, Statuses, ActiveStatuses
<1>10. ASSUME RecoverStale PROVE RowStep(j)
  BY <1>1, <1>10, WebhookAssumption
  DEF RecoverStale, Recovered, TypeOK, RowStep, RowKept, RowMoved, Rows, Statuses, ActiveStatuses
<1>11. ASSUME NEW h \in Webhooks, DeleteHook(h) PROVE RowStep(j)
  <2>1. job[j].status = "absent" => job[j].hook # h
    BY WebhookAssumption DEF Shape, IdsHandedOut, UnusedRow
  <2>2. hook'[h] = "deleted"
    BY <1>11 DEF DeleteHook, Shape, TypeOK
  <2>3. QED
    BY <1>1, <1>11, <2>1, <2>2 DEF DeleteHook, RowStep, RowKept, RowMoved, Rows
<1>12. ASSUME NEW h \in Webhooks, ToggleHook(h) PROVE RowStep(j)
  BY <1>2, <1>12 DEF ToggleHook
<1>13. ASSUME UNCHANGED vars PROVE RowStep(j)
  BY <1>2, <1>13 DEF vars
<1>14. QED
  BY <1>3, <1>4, <1>5, <1>6, <1>7, <1>8, <1>9, <1>10, <1>11, <1>12, <1>13 DEF Next

\* A loop goes on with the row it holds, becomes idle, or claims one.
Continues(v) ==
  /\ worker[v].pc # "idle"
  /\ worker'[v].job = worker[v].job /\ worker'[v].attempt = worker[v].attempt
  /\ \/ worker'[v].pc = worker[v].pc
     \/ worker'[v].pc \in {"found", "refused", "erred"}
     \/ worker'[v].pc = "unfound" /\ worker[v].job \in unfound'
     \/ worker'[v].pc = "accepted" /\ worker[v].job \in posted'
     \/ worker'[v].pc = "delivered" /\ worker[v].pc = "accepted"

Claims(v) ==
  /\ worker[v].pc = "idle" /\ worker'[v].pc = "claimed"
  /\ worker'[v].job \in JobIds
  /\ job[worker'[v].job].status = "accepted" /\ job'[worker'[v].job].status = "running"
  /\ worker'[v].attempt = job'[worker'[v].job].attempts
  /\ lost' = lost
  /\ \A w \in Workers \ {v} : worker'[w] = worker[w]

LEMMA WorkerSteps ==
  ASSUME Shape, [Next]_vars, NEW v \in Workers
  PROVE  worker'[v].pc = "idle" \/ Continues(v) \/ Claims(v)
<1>1. worker \in [Workers -> WorkerStates] /\ job \in [JobIds -> Rows]
  BY DEF Shape, TypeOK
<1>2. ASSUME worker'[v] = worker[v] PROVE worker'[v].pc = "idle" \/ Continues(v)
  BY <1>2 DEF Continues
<1>3. ASSUME NEW w \in Workers, ClaimNext(w)
      PROVE  worker'[v].pc = "idle" \/ Continues(v) \/ Claims(v)
  <2>1. PICK j \in JobIds :
          /\ job[j].status = "accepted"
          /\ job' = [job EXCEPT ![j].status = "running", ![j].attempts = @ + 1]
          /\ worker' = [worker EXCEPT ![w] =
               [pc |-> "claimed", job |-> j, attempt |-> job[j].attempts + 1]]
    BY <1>3 DEF ClaimNext, Claimable
  <2>2. CASE v = w
    BY <1>1, <1>3, <2>1, <2>2 DEF ClaimNext, Claims, Rows
  <2>3. CASE v # w
    BY <1>1, <1>2, <2>1, <2>3
  <2>4. QED
    BY <2>2, <2>3
<1>4. ASSUME NEW w \in Workers, Lookup(w) \/ Send(w) \/ Record(w)
      PROVE  worker'[v].pc = "idle" \/ Continues(v)
  <2>1. CASE v = w
    <3>1. worker[v].pc # "idle" /\ worker[v] \in [pc : {"claimed", "found", "accepted", "refused",
              "delivered", "erred", "unfound"}, job : JobIds, attempt : Nat]
      BY <1>4, <2>1, BusyWorker DEF Lookup, FindHook, MissHook, Send, Record
    <3>2. CASE Lookup(v)
      BY <1>1, <3>1, <3>2 DEF Lookup, FindHook, MissHook, Continues
    <3>3. CASE Send(v)
      BY <1>1, <3>1, <3>3 DEF Send, Continues
    <3>4. CASE Record(v)
      <4>1. /\ worker[v].pc \in {"accepted", "refused"}
            /\ worker' = [worker EXCEPT ![v].pc = IF worker[v].pc = "accepted"
                                                  THEN "delivered" ELSE "erred"]
        BY <3>4 DEF Record
      <4>2. QED
        BY <1>1, <3>1, <4>1 DEF Continues
    <3>5. QED
      BY <1>4, <2>1, <3>2, <3>3, <3>4
  <2>2. CASE v # w
    <3>1. worker'[v] = worker[v]
      BY <1>1, <1>4, <2>2 DEF Lookup, FindHook, MissHook, Send, Record
    <3>2. QED
      BY <1>2, <3>1
  <2>3. QED
    BY <2>1, <2>2
<1>5. ASSUME NEW w \in Workers, Settle(w) \/ Abandon(w)
      PROVE  worker'[v].pc = "idle" \/ Continues(v)
  <2>1. worker' = [worker EXCEPT ![w] = Idle]
    BY <1>5, SettledRow DEF Abandon
  <2>2. QED
    BY <1>1, <1>2, <2>1 DEF Idle
<1>6. ASSUME worker' = worker PROVE worker'[v].pc = "idle" \/ Continues(v)
  BY <1>2, <1>6
<1>7. QED
  BY <1>3, <1>4, <1>5, <1>6, ZenonT(60)
  DEF Next, DispatchSteps, Begin, DedupeActive, FindNoActive, LookupErrs, Create, Insert,
      CreateFails, LookAgain, BecomeDue, GrowOverdue, Retry, CancelQueued, RecoverStale,
      ToggleHook, DeleteHook, vars

-----------------------------------------------------------------------------
(* Type correctness.                                                       *)

LEMMA ProceedType ==
  ASSUME TypeOK, NEW d \in Dispatchers, dispatcher[d].message \in Messages,
         NEW todo \in SUBSET Webhooks, Proceed(d, todo)
  PROVE  dispatcher' \in [Dispatchers -> DispatcherStates]
BY DEF Proceed, TypeOK, DispatcherStates

LEMMA DispatchTypes ==
  ASSUME Shape, NEW d \in Dispatchers, DispatchSteps(d)
  PROVE  TypeOK'
<1>1. TypeOK
  BY DEF Shape
<1>2. ASSUME NEW m \in Messages, Begin(d, m) PROVE TypeOK'
  <2>1. dispatcher' \in [Dispatchers -> DispatcherStates]
    BY <1>1, <1>2 DEF Begin, ForEvent, TypeOK, DispatcherStates
  <2>2. calls' \in 0..MaxDispatches
    BY <1>1, <1>2, WebhookAssumption DEF Begin, TypeOK
  <2>3. QED
    BY <1>1, <1>2, <2>1, <2>2 DEF Begin, TypeOK, history
<1>3. ASSUME NEW h \in Webhooks, DedupeActive(d, h) \/ LookupErrs(d, h) PROVE TypeOK'
  <2>1. dispatcher[d].message \in Messages /\ dispatcher[d].todo \ {h} \in SUBSET Webhooks
    BY <1>1, <1>3, BusyDispatcher DEF DedupeActive, LookupErrs
  <2>2. dispatcher' \in [Dispatchers -> DispatcherStates]
    BY <1>1, <1>3, <2>1, ProceedType DEF DedupeActive, LookupErrs
  <2>3. served' \subseteq Webhooks \X Messages
    BY <1>1, <1>3, <2>1 DEF DedupeActive, LookupErrs, TypeOK
  <2>4. QED
    BY <1>1, <1>3, <2>2, <2>3 DEF DedupeActive, LookupErrs, TypeOK, history
<1>4. ASSUME NEW h \in Webhooks, FindNoActive(d, h) PROVE TypeOK'
  <2>1. /\ dispatcher[d].message \in Messages /\ dispatcher[d].todo \subseteq Webhooks
        /\ dispatcher[d] \in [pc : {"fanout"}, message : Messages, todo : SUBSET Webhooks, hook : {None}]
    BY <1>1, <1>4, BusyDispatcher DEF FindNoActive, TypeOK, DispatcherStates, Done
  <2>2. dispatcher' = [dispatcher EXCEPT ![d].pc = "unseen", ![d].hook = h, ![d].todo = @ \ {h}]
    BY <1>4 DEF FindNoActive
  <2>3. dispatcher' \in [Dispatchers -> DispatcherStates]
    BY <1>1, <2>1, <2>2 DEF TypeOK, DispatcherStates
  <2>4. QED
    BY <1>1, <1>4, <2>3 DEF FindNoActive, TypeOK, history
<1>5. ASSUME Create(d) PROVE TypeOK'
  <2>1. /\ dispatcher[d].message \in Messages /\ dispatcher[d].todo \in SUBSET Webhooks
        /\ dispatcher[d].hook \in Webhooks /\ nextId \in JobIds
        /\ job' = [job EXCEPT ![nextId].status = "accepted", ![nextId].hook = dispatcher[d].hook,
                              ![nextId].message = dispatcher[d].message]
    BY <1>1, <1>5, BusyDispatcher DEF Create, Insert
  <2>2. job[nextId] = UnusedRow
    BY <2>1 DEF Shape, IdsHandedOut, JobIds
  <2>3. job' \in [JobIds -> Rows]
    <3> DEFINE row == [job[nextId] EXCEPT !.status = "accepted", !.hook = dispatcher[d].hook,
                                          !.message = dispatcher[d].message]
    <3>1. job[nextId] \in Rows
      BY <1>1, <2>1 DEF TypeOK
    <3>2. row \in Rows
      BY <2>1, <3>1 DEF Rows, Statuses, ActiveStatuses
    <3>3. job' = [job EXCEPT ![nextId] = row]
      BY <1>1, <2>1, <3>1 DEF TypeOK, Rows
    <3> HIDE DEF row
    <3>4. QED
      BY <1>1, <2>1, <3>2, <3>3 DEF TypeOK
  <2>4. /\ waiting \subseteq {j \in JobIds : job'[j].status = "accepted"}
        /\ overdue \subseteq {j \in JobIds : job'[j].status = "running"}
    BY <1>1, <2>1, <2>2 DEF TypeOK, UnusedRow
  <2>5. nextId' \in 1..(MaxJobs + 1)
    BY <1>5, <2>1, WebhookAssumption DEF Create, Insert, JobIds
  <2>6. served' \subseteq Webhooks \X Messages
    BY <1>1, <1>5, <2>1 DEF Create, Insert, TypeOK
  <2>7. dispatcher' \in [Dispatchers -> DispatcherStates]
    BY <1>1, <1>5, <2>1, ProceedType DEF Create, Insert
  <2>8. QED
    BY <1>1, <1>5, <2>3, <2>4, <2>5, <2>6, <2>7 DEF Create, Insert, TypeOK, history
<1>6. ASSUME CreateFails(d) PROVE TypeOK'
  <2>1. dispatcher' \in [Dispatchers -> DispatcherStates]
    BY <1>1, <1>6 DEF CreateFails, TypeOK, DispatcherStates, Done
  <2>2. QED
    BY <1>1, <1>6, <2>1 DEF CreateFails, TypeOK, history
<1>7. ASSUME LookAgain(d) PROVE TypeOK'
  <2>1. /\ dispatcher[d].message \in Messages /\ dispatcher[d].todo \in SUBSET Webhooks
        /\ dispatcher[d].hook \in Webhooks
    BY <1>1, <1>7, BusyDispatcher DEF LookAgain
  <2>2. dispatcher' \in [Dispatchers -> DispatcherStates]
    BY <1>1, <1>7, <2>1, ProceedType DEF LookAgain
  <2>3. served' \subseteq Webhooks \X Messages
    BY <1>1, <1>7, <2>1 DEF LookAgain, TypeOK
  <2>4. QED
    BY <1>1, <1>7, <2>2, <2>3 DEF LookAgain, TypeOK, history
<1>8. QED
  BY <1>2, <1>3, <1>4, <1>5, <1>6, <1>7 DEF DispatchSteps

\* The types that an UPDATE of a present row by id disturbs.
LEMMA WriteTypes ==
  ASSUME TypeOK, NEW j \in JobIds, NEW status \in Statuses, NEW later \in BOOLEAN,
         Write(j, status, later),
         status # "running", later => status = "accepted"
  PROVE  /\ job' \in [JobIds -> Rows]
         /\ waiting' \subseteq {k \in JobIds : job'[k].status = "accepted"}
         /\ overdue' \subseteq {k \in JobIds : job'[k].status = "running"}
<1>1. /\ waiting' = IF later THEN waiting \cup {j} ELSE waiting \ {j}
      /\ overdue' = overdue \ {j}
  BY Zenon DEF Write
<1>2. /\ waiting \subseteq {k \in JobIds : job[k].status = "accepted"}
      /\ overdue \subseteq {k \in JobIds : job[k].status = "running"}
  BY DEF TypeOK
<1>3. /\ job' \in [JobIds -> Rows] /\ job'[j].status = status
      /\ \A k \in JobIds : k # j => job'[k] = job[k]
  BY WriteRow
<1>4. CASE later
  <2>1. waiting' = waiting \cup {j} /\ job'[j].status = "accepted"
    BY <1>1, <1>3, <1>4
  <2>2. QED
    BY <1>1, <1>2, <1>3, <2>1
<1>5. CASE ~later
  <2>1. waiting' = waiting \ {j}
    BY <1>1, <1>5
  <2>2. QED
    BY <1>1, <1>2, <1>3, <2>1
<1>6. QED
  BY <1>4, <1>5

LEMMA WorkTypes ==
  ASSUME Shape, NEW w \in Workers,
         ClaimNext(w) \/ Lookup(w) \/ Send(w) \/ Record(w) \/ Settle(w) \/ Abandon(w)
  PROVE  TypeOK'
<1>1. TypeOK
  BY DEF Shape
<1>2. CASE ClaimNext(w)
  <2>1. PICK j \in JobIds :
          /\ job[j].status = "accepted" /\ j \notin waiting
          /\ job' = [job EXCEPT ![j].status = "running", ![j].attempts = @ + 1]
          /\ overdue' = overdue \ {j}
          /\ worker' = [worker EXCEPT ![w] =
               [pc |-> "claimed", job |-> j, attempt |-> job[j].attempts + 1]]
    BY <1>2 DEF ClaimNext, Claimable
  <2>2. job[j].attempts + 1 \in Nat
    BY <1>1 DEF TypeOK, Rows
  <2>3. worker' \in [Workers -> WorkerStates]
    BY <1>1, <2>1, <2>2 DEF TypeOK, WorkerStates
  <2>4. /\ job' \in [JobIds -> Rows]
        /\ waiting \subseteq {k \in JobIds : job'[k].status = "accepted"}
        /\ overdue' \subseteq {k \in JobIds : job'[k].status = "running"}
    BY <1>1, <2>1, <2>2 DEF TypeOK, Rows, Statuses, ActiveStatuses
  <2>5. QED
    BY <1>1, <1>2, <2>3, <2>4 DEF ClaimNext, TypeOK, fanout, history
<1>3. CASE Lookup(w) \/ Send(w) \/ Record(w)
  <2>1. /\ worker[w].job \in JobIds
        /\ worker[w] \in [pc : {"claimed", "found", "accepted", "refused", "delivered", "erred",
                                "unfound"}, job : JobIds, attempt : Nat]
    BY <1>3, BusyWorker DEF Lookup, FindHook, MissHook, Send, Record
  <2>2. CASE Lookup(w)
    <3>1. worker' \in [Workers -> WorkerStates] /\ unfound' \subseteq JobIds
      BY <1>1, <2>1, <2>2 DEF Lookup, FindHook, MissHook, TypeOK, WorkerStates, history
    <3>2. QED
      BY <1>1, <2>2, <3>1 DEF Lookup, FindHook, MissHook, TypeOK, fanout, history
  <2>3. CASE Send(w)
    <3>1. worker' \in [Workers -> WorkerStates] /\ posted' \subseteq JobIds
      BY <1>1, <2>1, <2>3 DEF Send, TypeOK, WorkerStates
    <3>2. QED
      BY <1>1, <2>3, <3>1 DEF Send, TypeOK, fanout
  <2>4. CASE Record(w)
    <3>1. /\ worker' = [worker EXCEPT ![w].pc = IF worker[w].pc = "accepted" THEN "delivered" ELSE "erred"]
          /\ deliveries' \subseteq
               deliveries \cup {[job |-> worker[w].job, success |-> worker[w].pc = "accepted"]}
      BY <2>4 DEF Record
    <3>2. worker' \in [Workers -> WorkerStates]
      BY <1>1, <2>1, <3>1 DEF TypeOK, WorkerStates
    <3>3. [job |-> worker[w].job, success |-> worker[w].pc = "accepted"] \in
            [job : JobIds, success : BOOLEAN]
      BY <2>1
    <3>4. deliveries' \subseteq [job : JobIds, success : BOOLEAN]
      BY <1>1, <3>1, <3>3, Zenon DEF TypeOK
    <3>5. UNCHANGED <<hook, job, nextId, waiting, overdue, fanout, history, lost, retries>>
      BY <2>4, Zenon DEF Record
    <3>6. QED
      BY <1>1, <3>2, <3>4, <3>5 DEF TypeOK, fanout, history
  <2>5. QED
    BY <1>3, <2>2, <2>3, <2>4
<1>4. CASE Abandon(w)
  BY <1>1, <1>4 DEF Abandon, TypeOK, WorkerStates, fanout, history
<1>5. CASE Settle(w)
  <2>1. worker[w].job \in JobIds /\ worker' = [worker EXCEPT ![w] = Idle]
    BY <1>5, BusyWorker, SettledRow
  <2>2. worker' \in [Workers -> WorkerStates]
    BY <1>1, <2>1 DEF TypeOK, WorkerStates
  <2>3. /\ job' \in [JobIds -> Rows]
        /\ waiting' \subseteq {k \in JobIds : job'[k].status = "accepted"}
        /\ overdue' \subseteq {k \in JobIds : job'[k].status = "running"}
    <3>1. CASE UNCHANGED <<job, overdue, waiting>>
      BY <1>1, <3>1 DEF TypeOK
    <3>2. CASE ~UNCHANGED <<job, overdue, waiting>>
      <4>1. PICK status \in {"completed", "failed", "accepted"}, later \in BOOLEAN :
              Write(worker[w].job, status, later) /\ (later => status = "accepted")
        BY <1>5, <3>2, SettledRow
      <4>2. status \in Statuses /\ status # "running"
        BY DEF Statuses, ActiveStatuses
      <4>3. QED
        BY <1>1, <2>1, <4>1, <4>2, WriteTypes
    <3>3. QED
      BY <3>1, <3>2
  <2>4. UNCHANGED <<hook, nextId, fanout, deliveries, history, lost, retries>>
    BY <1>5, Zenon DEF Settle, Complete, DeadLetter, Reschedule, FailLookup, SettleRow
  <2>5. QED
    BY <1>1, <2>2, <2>3, <2>4 DEF TypeOK, fanout, history
<1>6. QED
  BY <1>2, <1>3, <1>4, <1>5

LEMMA InterventionTypes ==
  ASSUME Shape,
         \/ \E j \in JobIds : BecomeDue(j) \/ GrowOverdue(j) \/ Retry(j) \/ CancelQueued(j)
         \/ RecoverStale
         \/ \E h \in Webhooks : ToggleHook(h) \/ DeleteHook(h)
  PROVE  TypeOK'
<1>1. TypeOK
  BY DEF Shape
<1>2. ASSUME NEW j \in JobIds, BecomeDue(j) \/ GrowOverdue(j) PROVE TypeOK'
  BY <1>1, <1>2 DEF BecomeDue, GrowOverdue, TypeOK, fanout, history
<1>3. ASSUME NEW j \in JobIds, Retry(j) PROVE TypeOK'
  <2>1. /\ job' \in [JobIds -> Rows]
        /\ waiting' \subseteq {k \in JobIds : job'[k].status = "accepted"}
        /\ overdue' \subseteq {k \in JobIds : job'[k].status = "running"}
    BY <1>1, <1>3, WriteTypes DEF Retry, Statuses, ActiveStatuses
  <2>2. /\ lost' = lost \cup {j} /\ retries' = [retries EXCEPT ![j] = @ + 1]
        /\ UNCHANGED <<hook, nextId, fanout, worker, deliveries, history>>
    BY <1>3, Zenon DEF Retry
  <2>3. QED
    BY <1>1, <2>1, <2>2 DEF TypeOK, fanout, history
<1>4. ASSUME NEW j \in JobIds, CancelQueued(j) PROVE TypeOK'
  <2>1. /\ job' \in [JobIds -> Rows]
        /\ waiting' \subseteq {k \in JobIds : job'[k].status = "accepted"}
        /\ overdue' \subseteq {k \in JobIds : job'[k].status = "running"}
    BY <1>1, <1>4, WriteTypes DEF CancelQueued, Statuses
  <2>2. UNCHANGED <<hook, nextId, fanout, worker, deliveries, history, lost, retries>>
    BY <1>4, Zenon DEF CancelQueued
  <2>3. QED
    BY <1>1, <2>1, <2>2 DEF TypeOK, fanout, history
<1>5. ASSUME RecoverStale PROVE TypeOK'
  <2>1. job' \in [JobIds -> Rows]
    BY <1>1, <1>5 DEF RecoverStale, Recovered, TypeOK, Rows, Statuses, ActiveStatuses
  <2>2. waiting \subseteq {k \in JobIds : job'[k].status = "accepted"}
    BY <1>1, <1>5 DEF RecoverStale, TypeOK
  <2>3. lost' \subseteq JobIds
    BY <1>1, <1>5 DEF RecoverStale, TypeOK
  <2>4. QED
    BY <1>1, <1>5, <2>1, <2>2, <2>3 DEF RecoverStale, TypeOK, fanout, history
<1>6. ASSUME NEW h \in Webhooks, ToggleHook(h) PROVE TypeOK'
  BY <1>1, <1>6 DEF ToggleHook, TypeOK, fanout, history
<1>7. ASSUME NEW h \in Webhooks, DeleteHook(h) PROVE TypeOK'
  <2>1. job' \in [JobIds -> Rows] /\ deliveries' \subseteq deliveries
    BY <1>1, <1>7 DEF DeleteHook, TypeOK, Rows
  <2>2. QED
    BY <1>1, <1>7, <2>1 DEF DeleteHook, TypeOK, fanout, history
<1>8. QED
  BY <1>2, <1>3, <1>4, <1>5, <1>6, <1>7

\* The id sequence: only Create uses a new id.
LEMMA IdsStep == ASSUME Shape, [Next]_vars PROVE IdsHandedOut'
<1>1. \A j \in JobIds : RowStep(j)
  BY RowSteps
<1>2. ASSUME NEW d \in Dispatchers, Create(d) PROVE IdsHandedOut'
  <2>1. /\ nextId \in JobIds /\ nextId' = nextId + 1 /\ dispatcher[d].hook \in Webhooks
        /\ job' = [job EXCEPT ![nextId].status = "accepted", ![nextId].hook = dispatcher[d].hook,
                              ![nextId].message = dispatcher[d].message]
    BY <1>2, BusyDispatcher DEF Create, Insert, Shape
  <2>2. nextId \in Nat /\ job \in [JobIds -> Rows] /\ JobIds \subseteq Nat
    BY <2>1 DEF Shape, TypeOK, JobIds
  <2>3. job'[nextId].hook \in Webhooks /\ job'[nextId].status = "accepted"
    BY <2>1, <2>2 DEF Rows
  <2>4. \A j \in JobIds : j # nextId => job'[j] = job[j] /\ (j < nextId' <=> j < nextId)
    BY <2>1, <2>2
  <2>5. \A j \in JobIds : IF j < nextId THEN job[j].hook \in Webhooks /\ job[j].status # "absent"
                                         ELSE job[j] = UnusedRow
    BY DEF Shape, IdsHandedOut
  <2>6. QED
    BY <2>1, <2>2, <2>3, <2>4, <2>5 DEF IdsHandedOut, UnusedRow
<1>3. ASSUME ~(\E d \in Dispatchers : Create(d))
      PROVE  nextId' = nextId /\ \A j \in JobIds : job[j] = UnusedRow => job'[j] = UnusedRow
  <2>1. ASSUME NEW w \in Workers, Settle(w)
        PROVE  nextId' = nextId /\ \A j \in JobIds : job[j] = UnusedRow => job'[j] = UnusedRow
    <3>1. nextId' = nextId
      BY <2>1, Zenon DEF Settle, Complete, DeadLetter, Reschedule, FailLookup, SettleRow
    <3>2. worker[w].job \in JobIds /\ job[worker[w].job].status # "absent"
      BY <2>1, BusyWorker, SettledRow
    <3>3. \/ job' = job
          \/ \E status \in {"completed", "failed", "accepted"}, later \in BOOLEAN :
               Write(worker[w].job, status, later)
      BY <2>1, SettledRow
    <3>4. \A j \in JobIds : j # worker[w].job => job'[j] = job[j]
      BY <3>2, <3>3, WriteRow DEF Shape, Statuses, ActiveStatuses
    <3>5. QED
      BY <3>1, <3>2, <3>4 DEF UnusedRow
  <2>2. CASE \E w \in Workers : ClaimNext(w)
    BY <2>2 DEF ClaimNext, Claimable, Shape, TypeOK, UnusedRow
  <2>3. ASSUME NEW j \in JobIds, Retry(j) \/ CancelQueued(j)
        PROVE  nextId' = nextId /\ \A k \in JobIds : job[k] = UnusedRow => job'[k] = UnusedRow
    <3>1. /\ nextId' = nextId /\ job[j].status # "absent"
          /\ \E status \in Statuses, later \in BOOLEAN : Write(j, status, later)
      BY <2>3, Zenon DEF Retry, CancelQueued, Present, Statuses, ActiveStatuses
    <3>2. \A k \in JobIds : k # j => job'[k] = job[k]
      BY <3>1, WriteRow DEF Shape
    <3>3. QED
      BY <3>1, <3>2 DEF UnusedRow
  <2>4. CASE RecoverStale
    BY <2>4 DEF RecoverStale, Shape, TypeOK, UnusedRow
  <2>5. CASE \E h \in Webhooks : DeleteHook(h)
    BY <2>5, WebhookAssumption DEF DeleteHook, UnusedRow
  <2>6. CASE nextId' = nextId /\ job' = job
    BY <2>6
  <2>7. QED
    BY <1>3, <2>1, <2>2, <2>3, <2>4, <2>5, <2>6, ZenonT(60)
    DEF Next, DispatchSteps, Begin, DedupeActive, FindNoActive, LookupErrs, CreateFails,
        LookAgain, Lookup, FindHook, MissHook, Send, Record, Abandon, BecomeDue, GrowOverdue,
        ToggleHook, vars
<1>4. QED
  BY <1>1, <1>2, <1>3 DEF Shape, IdsHandedOut, RowStep, RowKept, UnusedRow

LEMMA ClaimNamesStep == ASSUME Shape, [Next]_vars PROVE ClaimsNameRows'
<1> SUFFICES ASSUME NEW v \in Workers, worker'[v].pc # "idle"
             PROVE  job'[worker'[v].job].status # "absent"
  BY DEF ClaimsNameRows
<1>1. CASE Continues(v)
  <2>1. worker[v].job \in JobIds /\ job[worker[v].job].status # "absent"
    BY <1>1, BusyWorker DEF Continues
  <2>2. QED
    BY <1>1, <2>1, RowSteps DEF Continues, RowStep, RowKept
<1>2. CASE Claims(v)
  BY <1>2 DEF Claims
<1>3. QED
  BY <1>1, <1>2, WorkerSteps

LEMMA ShapeStep == Shape /\ [Next]_vars => Shape'
<1> SUFFICES ASSUME Shape, [Next]_vars PROVE Shape'
  OBVIOUS
<1>1. CASE UNCHANGED vars
  BY <1>1 DEF vars, Shape, TypeOK, IdsHandedOut, ClaimsNameRows
<1>2. TypeOK'
  BY <1>1, DispatchTypes, WorkTypes, InterventionTypes DEF Next, Shape
<1>3. QED
  BY <1>2, IdsStep, ClaimNamesStep DEF Shape

LEMMA ShapeInit == Init => Shape
<1> SUFFICES ASSUME Init PROVE Shape
  OBVIOUS
<1>1. job \in [JobIds -> Rows] /\ IdsHandedOut
  BY DEF Init, IdsHandedOut, JobIds, Rows, UnusedRow
<1>2. nextId \in 1..(MaxJobs + 1) /\ calls \in 0..MaxDispatches
  BY WebhookAssumption DEF Init
<1>3. QED
  BY <1>1, <1>2 DEF Init, Shape, TypeOK, ClaimsNameRows, DispatcherStates, WorkerStates, Idle

\* Every reachable state has the types of TypeOK: in particular only accepted
\* rows wait for their next attempt, and only running rows are overdue.
THEOREM TypeCorrect == Spec => []Shape
BY ShapeInit, ShapeStep, PTL DEF Spec

-----------------------------------------------------------------------------
(* Nobody who was passed is without a row.                                 *)

\* A webhook that has been deleted does not come back.
LEMMA DeletedHooksStay ==
  ASSUME Shape, [Next]_vars, NEW h \in Webhooks, hook'[h] # "deleted"
  PROVE  hook[h] # "deleted"
<1>1. ASSUME NEW g \in Webhooks, ToggleHook(g) \/ DeleteHook(g) PROVE hook[h] # "deleted"
  BY <1>1 DEF ToggleHook, DeleteHook, Shape, TypeOK
<1>2. ASSUME hook' = hook PROVE hook[h] # "deleted"
  BY <1>2
<1>3. QED
  BY <1>1, <1>2, ZenonT(60)
  DEF Next, DispatchSteps, Begin, DedupeActive, FindNoActive, LookupErrs, Create, Insert,
      CreateFails, LookAgain, ClaimNext, Lookup, FindHook, MissHook, Send, Record, Settle, Complete,
      DeadLetter, Reschedule, FailLookup, SettleRow, Abandon, BecomeDue, GrowOverdue, Retry,
      CancelQueued, RecoverStale, vars, fanout

\* Dispatch newly passes a subscriber only when it has a row for the message.
LEMMA NewlyServedHasRow ==
  ASSUME Shape, [Next]_vars, NEW p \in served', p \notin served
  PROVE  \E j \in JobIds : Present(j)' /\ job'[j].hook = p[1] /\ job'[j].message = p[2]
<1>1. ASSUME NEW h, NEW m, ActiveFor(h, m) # {}, job' = job, p = <<h, m>>
      PROVE  \E j \in JobIds : Present(j)' /\ job'[j].hook = p[1] /\ job'[j].message = p[2]
  BY <1>1 DEF ActiveFor, Active, Present, Statuses
<1>2. ASSUME NEW d \in Dispatchers, NEW h \in Webhooks, DedupeActive(d, h)
      PROVE  \E j \in JobIds : Present(j)' /\ job'[j].hook = p[1] /\ job'[j].message = p[2]
  BY <1>1, <1>2 DEF DedupeActive
<1>3. ASSUME NEW d \in Dispatchers, LookAgain(d)
      PROVE  \E j \in JobIds : Present(j)' /\ job'[j].hook = p[1] /\ job'[j].message = p[2]
  BY <1>1, <1>3 DEF LookAgain
<1>4. ASSUME NEW d \in Dispatchers, Create(d)
      PROVE  \E j \in JobIds : Present(j)' /\ job'[j].hook = p[1] /\ job'[j].message = p[2]
  <2>1. /\ nextId \in JobIds /\ p = <<dispatcher[d].hook, dispatcher[d].message>>
        /\ job' = [job EXCEPT ![nextId].status = "accepted", ![nextId].hook = dispatcher[d].hook,
                              ![nextId].message = dispatcher[d].message]
    BY <1>4 DEF Create, Insert
  <2>2. /\ job'[nextId].status = "accepted" /\ job'[nextId].hook = p[1]
        /\ job'[nextId].message = p[2]
    BY <2>1 DEF Shape, TypeOK, Rows
  <2>3. QED
    BY <2>1, <2>2 DEF Present, Statuses, ActiveStatuses
<1>5. CASE served' = served
  BY <1>5
<1>6. QED
  BY <1>2, <1>3, <1>4, <1>5, ZenonT(60)
  DEF Next, DispatchSteps, Begin, FindNoActive, LookupErrs, CreateFails, ClaimNext, Lookup, FindHook,
      MissHook, Send, Record, Settle, Complete, DeadLetter, Reschedule, FailLookup, SettleRow,
      Abandon, BecomeDue, GrowOverdue, Retry, CancelQueued, RecoverStale, ToggleHook, DeleteHook,
      vars, fanout

LEMMA ServedStep == ASSUME Shape, ServedHasRow, [Next]_vars PROVE ServedHasRow'
<1> SUFFICES ASSUME NEW p \in served', hook'[p[1]] # "deleted"
             PROVE  \E j \in JobIds : Present(j)' /\ job'[j].hook = p[1] /\ job'[j].message = p[2]
  BY DEF ServedHasRow
<1>1. CASE p \notin served
  BY <1>1, NewlyServedHasRow
<1>2. CASE p \in served
  <2>1. p[1] \in Webhooks
    BY <1>2 DEF Shape, TypeOK
  <2>2. PICK j \in JobIds : Present(j) /\ job[j].hook = p[1] /\ job[j].message = p[2]
    BY <1>2, <2>1, DeletedHooksStay DEF ServedHasRow
  <2>3. RowStep(j)
    BY RowSteps
  <2>4. QED
    BY <2>2, <2>3 DEF Present, RowStep, RowKept, RowMoved, SettledBy, Statuses, ActiveStatuses
<1>3. QED
  BY <1>1, <1>2

-----------------------------------------------------------------------------
(* No delivery is given up before its attempts are used.                   *)

\* The attempt that a loop holds has been counted in the row.
ClaimsCounted ==
  \A w \in Workers :
    worker[w].pc # "idle" => worker[w].attempt <= job[worker[w].job].attempts

\* A loop that could not look its webhook up has left a trace of it.
UnfoundIsKnown == \A w \in Workers : worker[w].pc = "unfound" => worker[w].job \in unfound

GivenUpInv == ClaimsCounted /\ UnfoundIsKnown /\ FailedMeansExhausted

LEMMA HistoryGrows == [Next]_vars => posted \subseteq posted' /\ unfound \subseteq unfound'
<1> SUFFICES ASSUME [Next]_vars PROVE posted \subseteq posted' /\ unfound \subseteq unfound'
  OBVIOUS
<1>1. ASSUME NEW w \in Workers, MissHook(w)
      PROVE  posted \subseteq posted' /\ unfound \subseteq unfound'
  BY <1>1 DEF MissHook
<1>2. ASSUME NEW w \in Workers, Send(w)
      PROVE  posted \subseteq posted' /\ unfound \subseteq unfound'
  BY <1>2 DEF Send
<1>3. ASSUME posted' = posted /\ unfound' = unfound
      PROVE  posted \subseteq posted' /\ unfound \subseteq unfound'
  BY <1>3
<1>4. QED
  BY <1>1, <1>2, <1>3, ZenonT(60)
  DEF Next, DispatchSteps, Begin, DedupeActive, FindNoActive, LookupErrs, Create, Insert,
      CreateFails, LookAgain, ClaimNext, Lookup, FindHook, Record, Settle, Complete,
      DeadLetter, Reschedule, FailLookup, SettleRow, Abandon, BecomeDue, GrowOverdue, Retry,
      CancelQueued, RecoverStale, ToggleHook, DeleteHook, vars, history

LEMMA CountedStep == ASSUME Shape, ClaimsCounted, [Next]_vars PROVE ClaimsCounted'
<1> SUFFICES ASSUME NEW v \in Workers, worker'[v].pc # "idle"
             PROVE  worker'[v].attempt <= job'[worker'[v].job].attempts
  BY DEF ClaimsCounted
<1>1. \A j \in JobIds : job[j].attempts \in Nat /\ job'[j].attempts \in Nat
  BY ShapeStep DEF Shape, TypeOK, Rows
<1>2. CASE Continues(v)
  <2>1. worker[v].job \in JobIds /\ worker[v].attempt \in Nat
    BY <1>2, BusyWorker DEF Continues
  <2>2. job[worker[v].job].attempts <= job'[worker[v].job].attempts
    BY <2>1, RowSteps DEF RowStep, RowKept
  <2>3. worker[v].attempt <= job[worker[v].job].attempts
    BY <1>2 DEF Continues, ClaimsCounted
  <2>4. QED
    BY <1>1, <1>2, <2>1, <2>2, <2>3 DEF Continues
<1>3. CASE Claims(v)
  BY <1>1, <1>3 DEF Claims
<1>4. QED
  BY <1>2, <1>3, WorkerSteps

LEMMA GivenUpStep == ASSUME Shape, GivenUpInv, [Next]_vars PROVE GivenUpInv'
<1>1. ClaimsCounted'
  BY CountedStep DEF GivenUpInv
<1>2. unfound \subseteq unfound'
  BY HistoryGrows
<1>3. UnfoundIsKnown'
  <2> SUFFICES ASSUME NEW v \in Workers, worker'[v].pc = "unfound" PROVE worker'[v].job \in unfound'
    BY DEF UnfoundIsKnown
  <2>1. Continues(v)
    BY WorkerSteps DEF Claims
  <2>2. QED
    BY <1>2, <2>1 DEF Continues, GivenUpInv, UnfoundIsKnown
<1>4. ASSUME NEW j \in JobIds, job'[j].status = "failed", j \notin unfound'
      PROVE  job'[j].attempts >= Delays \/ job'[j].attempts >= MaxAttempts
  <2>1. RowStep(j) /\ job[j].attempts \in Nat /\ job'[j].attempts \in Nat
        /\ job[j].attempts <= job'[j].attempts
    BY RowSteps, ShapeStep DEF RowStep, RowKept, Shape, TypeOK, Rows
  <2>2. \/ job[j].status = "failed"
        \/ job[j].attempts >= MaxAttempts
        \/ \E w \in Workers : SettledBy(w, j) /\ Exhausted(worker[w].attempt)
    BY <1>2, <1>4, <2>1 DEF RowStep, RowMoved, SettledBy, GivenUpInv, UnfoundIsKnown
  <2>3. job[j].attempts >= Delays \/ job[j].attempts >= MaxAttempts
    <3>1. ASSUME NEW w \in Workers, SettledBy(w, j), Exhausted(worker[w].attempt)
          PROVE  job[j].attempts >= Delays
      <4>1. worker[w].attempt \in Nat /\ worker[w].attempt <= job[j].attempts
        BY <3>1, BusyWorker DEF SettledBy, GivenUpInv, ClaimsCounted
      <4>2. QED
        BY <2>1, <3>1, <4>1, WebhookAssumption DEF Exhausted
    <3>2. QED
      BY <1>2, <1>4, <2>2, <3>1 DEF GivenUpInv, FailedMeansExhausted
  <2>4. QED
    BY <2>1, <2>3, WebhookAssumption
<1>5. QED
  BY <1>1, <1>3, <1>4 DEF GivenUpInv, FailedMeansExhausted

\* A subscriber that Dispatch has passed without logging an error has a row for
\* the message as long as its webhook exists, however Dispatches race; and a
\* delivery fails only when its attempts are used up or its webhook could not
\* be looked up.
THEOREM NobodyIsForgotten == Spec => []NoSubscriberForgotten
<1>1. Init => ServedHasRow /\ GivenUpInv
  BY DEF Init, ServedHasRow, GivenUpInv, ClaimsCounted, UnfoundIsKnown, FailedMeansExhausted, Idle
<1>2. Shape /\ ServedHasRow /\ [Next]_vars => ServedHasRow'
  BY ServedStep
<1>3. Shape /\ GivenUpInv /\ [Next]_vars => GivenUpInv'
  BY GivenUpStep
<1>4. Shape /\ ServedHasRow /\ GivenUpInv => NoSubscriberForgotten
  BY DEF Shape, GivenUpInv, NoSubscriberForgotten
<1>5. QED
  BY <1>1, <1>2, <1>3, <1>4, TypeCorrect, PTL DEF Spec

-----------------------------------------------------------------------------
(* The queue implements DurableJob.                                        *)

\* A loop that has a 2xx answer has reached the receiver.
AnswerMeansPosted ==
  \A w \in Workers : worker[w].pc \in {"accepted", "delivered"} => worker[w].job \in posted

\* Until recovery or an administrator puts a row back, the loop that claimed it
\* is the only one that holds it, and the row is running, or gone with its
\* webhook.
HeldUnlessLost ==
  \A v \in Workers :
    (worker[v].pc # "idle" /\ worker[v].job \notin lost) =>
      /\ job[worker[v].job].status \in {"running", "deleted"}
      /\ \A w \in Workers \ {v} : worker[w].pc # "idle" => worker[w].job # worker[v].job

\* History speaks of rows that were inserted.
HistoryNamesRows == \A j \in lost \cup posted : job[j].status # "absent"

HeldInv == AnswerMeansPosted /\ HeldUnlessLost /\ HistoryNamesRows

LEMMA LostGrows ==
  ASSUME Shape, [Next]_vars
  PROVE  lost \subseteq lost' /\ \A j \in lost' \ lost : job[j].status # "absent"
<1>1. ASSUME NEW j \in JobIds, Retry(j)
      PROVE  lost \subseteq lost' /\ \A k \in lost' \ lost : job[k].status # "absent"
  BY <1>1 DEF Retry, Present, Statuses, ActiveStatuses
<1>2. ASSUME RecoverStale
      PROVE  lost \subseteq lost' /\ \A k \in lost' \ lost : job[k].status # "absent"
  BY <1>2 DEF RecoverStale, Shape, TypeOK
<1>3. ASSUME lost' = lost
      PROVE  lost \subseteq lost' /\ \A k \in lost' \ lost : job[k].status # "absent"
  BY <1>3
<1>4. QED
  BY <1>1, <1>2, <1>3, ZenonT(60)
  DEF Next, DispatchSteps, Begin, DedupeActive, FindNoActive, LookupErrs, Create, Insert,
      CreateFails, LookAgain, ClaimNext, Lookup, FindHook, MissHook, Send, Record, Settle, Complete,
      DeadLetter, Reschedule, FailLookup, SettleRow, Abandon, BecomeDue, GrowOverdue,
      CancelQueued, ToggleHook, DeleteHook, vars

\* Only a loop that holds a row sends its request.
LEMMA PostedNamesRows ==
  ASSUME Shape, [Next]_vars, NEW j \in posted', j \notin posted
  PROVE  job[j].status # "absent"
<1>1. ASSUME NEW w \in Workers, Send(w) PROVE job[j].status # "absent"
  BY <1>1, BusyWorker DEF Send
<1>2. CASE posted' = posted
  BY <1>2
<1>3. QED
  BY <1>1, <1>2, ZenonT(60)
  DEF Next, DispatchSteps, Begin, DedupeActive, FindNoActive, LookupErrs, Create, Insert,
      CreateFails, LookAgain, ClaimNext, Lookup, FindHook, MissHook, Record, Settle, Complete,
      DeadLetter, Reschedule, FailLookup, SettleRow, Abandon, BecomeDue, GrowOverdue, Retry,
      CancelQueued, RecoverStale, ToggleHook, DeleteHook, vars, history

LEMMA HeldStep == ASSUME Shape, HeldInv, [Next]_vars PROVE HeldInv'
<1>1. HistoryNamesRows'
  <2>1. lost' \cup posted' \subseteq JobIds
    BY ShapeStep DEF Shape, TypeOK
  <2>2. \A j \in lost' \cup posted' : job[j].status # "absent"
    BY LostGrows, PostedNamesRows DEF HeldInv, HistoryNamesRows
  <2>3. QED
    BY <2>1, <2>2, RowSteps DEF RowStep, RowKept, HistoryNamesRows
<1>2. AnswerMeansPosted'
  <2> SUFFICES ASSUME NEW v \in Workers, worker'[v].pc \in {"accepted", "delivered"}
               PROVE  worker'[v].job \in posted'
    BY DEF AnswerMeansPosted
  <2>1. Continues(v)
    BY WorkerSteps DEF Claims
  <2>2. QED
    BY <2>1, HistoryGrows DEF Continues, HeldInv, AnswerMeansPosted
<1>3. SUFFICES ASSUME NEW v \in Workers, worker'[v].pc # "idle", worker'[v].job \notin lost'
      PROVE  /\ job'[worker'[v].job].status \in {"running", "deleted"}
             /\ \A w \in Workers \ {v} : worker'[w].pc # "idle" => worker'[w].job # worker'[v].job
  BY <1>1, <1>2 DEF HeldInv, HeldUnlessLost
<1>4. lost \subseteq lost'
  BY LostGrows
<1>5. CASE Claims(v)
  <2>1. \A w \in Workers : worker[w].pc # "idle" => worker[w].job # worker'[v].job
    BY <1>3, <1>4, <1>5 DEF Claims, HeldInv, HeldUnlessLost
  <2>2. QED
    BY <1>5, <2>1 DEF Claims
<1>6. CASE Continues(v)
  <2> DEFINE j == worker[v].job
  <2>1. /\ worker'[v].job = j /\ j \in JobIds /\ j \notin lost /\ j \notin lost'
        /\ job[j].status \in {"running", "deleted"}
        /\ \A w \in Workers \ {v} : worker[w].pc # "idle" => worker[w].job # j
    BY <1>3, <1>4, <1>6, BusyWorker DEF Continues, HeldInv, HeldUnlessLost
  <2>2. job'[j].status \in {"running", "deleted"}
    <3>1. RowMoved(j)
      BY <2>1, RowSteps DEF RowStep
    <3>2. ~(\E w \in Workers : SettledBy(w, j))
      BY <1>3, <2>1 DEF SettledBy
    <3>3. QED
      BY <2>1, <3>1, <3>2 DEF RowMoved
  <2>3. ASSUME NEW w \in Workers \ {v}, worker'[w].pc # "idle" PROVE worker'[w].job # j
    <3>1. CASE Continues(w)
      BY <2>1, <3>1 DEF Continues
    <3>2. CASE Claims(w)
      BY <2>1, <3>2 DEF Claims
    <3>3. QED
      BY <2>3, <3>1, <3>2, WorkerSteps
  <2>4. QED
    BY <2>1, <2>2, <2>3
<1>7. QED
  BY <1>3, <1>5, <1>6, WorkerSteps

LEMMA PromiseStep == ASSUME Shape, HeldInv, [Next]_vars PROVE Promise!Next
<1>1. Shape' /\ HeldInv'
  BY ShapeStep, HeldStep
<1>2. \A j \in JobIds : /\ job[j].status \in Statuses \cup {"absent", "deleted"}
                        /\ job'[j].status \in Statuses \cup {"absent", "deleted"}
  BY <1>1 DEF Shape, TypeOK, Rows
<1>3. Phase' \in [JobIds -> Promise!Phases]
  BY <1>2 DEF Phase, Active, Statuses, ActiveStatuses, Promise!Phases, Promise!PresentPhases
<1>4. ASSUME NEW j \in JobIds PROVE Promise!JobStep(j)
  <2>1. RowMoved(j)
    BY RowSteps DEF RowStep
  <2>2. lost \subseteq lost'
    BY LostGrows
  <2>3. CASE \E w \in Workers : SettledBy(w, j)
    <3>1. PICK w \in Workers : SettledBy(w, j)
      BY <2>3
    <3>2. j \in lost \/ job[j].status = "running"
      BY <3>1 DEF SettledBy, HeldInv, HeldUnlessLost, Statuses, ActiveStatuses
    <3>3. job'[j].status = "completed" => j \in posted
      BY <3>1 DEF SettledBy, HeldInv, AnswerMeansPosted
    <3>4. QED
      BY <1>2, <2>2, <3>1, <3>2, <3>3
      DEF SettledBy, Phase, Active, Statuses, ActiveStatuses, Promise!JobStep, Promise!Complete,
          Promise!GiveUp, Promise!SettleAgain, Promise!PresentPhases
  <2>4. CASE ~(\E w \in Workers : SettledBy(w, j))
    BY <1>2, <2>1, <2>4
    DEF RowMoved, Phase, Active, Statuses, ActiveStatuses, Promise!JobStep, Promise!Submit,
        Promise!GiveUp, Promise!SettleAgain, Promise!Delete, Promise!PresentPhases
  <2>5. QED
    BY <2>3, <2>4
<1>5. /\ posted' \subseteq {j \in JobIds : Phase'[j] # "absent"}
      /\ lost' \subseteq {j \in JobIds : Phase'[j] # "absent"}
  BY <1>1 DEF Phase, Shape, TypeOK, HeldInv, HistoryNamesRows
<1>6. QED
  BY <1>3, <1>4, <1>5, LostGrows, HistoryGrows DEF Promise!Next

\* The queue implements DurableJob, with a row's claim and settlement as its
\* phase and a request that has reached the receiver as its work.
THEOREM QueueKeepsPromise == Spec => KeepsPromise
<1>1. Init => HeldInv /\ Promise!Init
  BY DEF Init, HeldInv, HeldUnlessLost, AnswerMeansPosted, HistoryNamesRows, Idle, Phase, Active,
         ActiveStatuses, Promise!Init
<1>2. Shape /\ HeldInv /\ [Next]_vars => HeldInv'
  BY HeldStep
<1>3. Spec => [](Shape /\ HeldInv)
  BY <1>1, <1>2, ShapeInit, ShapeStep, PTL DEF Spec
<1>4. Shape /\ HeldInv /\ [Next]_vars => [Promise!Next]_(Promise!vars)
  BY PromiseStep
<1>5. QED
  BY <1>1, <1>3, <1>4, PTL DEF Spec, KeepsPromise, Promise!Spec
================================================================================
