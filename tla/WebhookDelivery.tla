-------------------------- MODULE WebhookDelivery --------------------------
(***************************************************************************)
(* Webhook deliveries: rows of the WebhookDelivery table, driven by the    *)
(* database pollers (webhook-processor.ts), by the BullMQ worker           *)
(* (webhook-queue.ts) when Redis is there, and by the admin's requeue and  *)
(* the handlers that create and delete rows (app.ts).                      *)
(*                                                                         *)
(* Every await is a place where others may run, so a poller's snapshot,    *)
(* its claim of a row and its final write are separate steps.  Time is     *)
(* abstracted to two flags per row: whether its nextRetryAt has come, and  *)
(* whether it was last written longer ago than the processing timeout.     *)
(***************************************************************************)
EXTENDS Integers, FiniteSets

CONSTANTS
  Delivery,      \* rows
  Poller,        \* the replicas' interval sweeps
  Request,       \* sweeps run by a support request's handler
  QueueWorker,   \* the BullMQ worker
  Admin,         \* concurrent requeue calls
  UseQueue,      \* Redis available
  PromptWrites,  \* a live run finishes a delivery before the processing timeout
  MaxAttempts,   \* MAX_DELIVERY_ATTEMPTS, and the length of the backoff schedule
  MaxRequeues,   \* bound: requeue calls
  MaxLosses      \* bound: runs that die between claiming a row and its final write

Run       == Poller \cup Request
Processor == Run \cup {QueueWorker}
Status    == {"absent", "pending", "processing", "success", "failed", "deleted"}
Result    == {"success", "transient", "permanent"}

DeliveryAssumption ==
  /\ QueueWorker \notin Run /\ Poller \cap Request = {}
  /\ MaxAttempts \in Nat \ {0} /\ MaxRequeues \in Nat /\ MaxLosses \in Nat
  /\ UseQueue \in BOOLEAN /\ PromptWrites \in BOOLEAN

VARIABLES
  status, attemptCount,  \* the columns of a row
  retryAt,               \* nextRetryAt: "null", "later" or "due"
  stale,                 \* updatedAt is older than the processing timeout
  task,                  \* what a processor is doing with a row
  pc, stuck,             \* where a poller's sweep is; the rows its reclaim read
  job, adding,           \* BullMQ's job of a row; an enqueue still under way
  requeue, requeues,     \* rows an admin call has read; calls so far
  losses                 \* runs lost so far

rowVars   == <<status, attemptCount, retryAt, stale>>
sweepVars == <<pc, stuck>>
queueVars == <<job, adding>>
adminVars == <<requeue, requeues>>
vars      == <<rowVars, task, sweepVars, queueVars, adminVars, losses>>

NoTask       == [stage |-> "none", base |-> 0]
Task         == [stage : {"none", "selected", "delivering"}, base : 0..MaxAttempts - 1]
NotRequeuing == [active |-> FALSE, rows |-> {}]

TypeOK ==
  /\ status \in [Delivery -> Status]
  /\ attemptCount \in [Delivery -> 0..MaxAttempts]
  /\ retryAt \in [Delivery -> {"null", "later", "due"}]
  /\ stale \in [Delivery -> BOOLEAN]
  /\ task \in [Processor -> [Delivery -> Task]]
  /\ pc \in [Run -> {"idle", "reclaim", "deliver"}]
  /\ stuck \in [Run -> SUBSET (Delivery \X BOOLEAN)]
  /\ job \in [Delivery -> {"none", "waiting", "active", "done"}]
  /\ adding \in [Delivery -> BOOLEAN]
  /\ requeue \in [Admin -> [active : BOOLEAN, rows : SUBSET Delivery]]
  /\ requeues \in 0..MaxRequeues
  /\ losses \in 0..MaxLosses

Init ==
  /\ status = [d \in Delivery |-> "absent"]
  /\ attemptCount = [d \in Delivery |-> 0]
  /\ retryAt = [d \in Delivery |-> "due"]
  /\ stale = [d \in Delivery |-> FALSE]
  /\ task = [p \in Processor |-> [d \in Delivery |-> NoTask]]
  /\ pc = [p \in Run |-> "idle"]
  /\ stuck = [p \in Run |-> {}]
  /\ job = [d \in Delivery |-> "none"]
  /\ adding = [d \in Delivery |-> FALSE]
  /\ requeue = [a \in Admin |-> NotRequeuing]
  /\ requeues = 0
  /\ losses = 0

Delivering(p, d) == task[p][d].stage = "delivering"

\* One write of one row: the other columns stay, @updatedAt is bumped.
WriteRow(d, newStatus, newCount, newRetryAt) ==
  /\ status' = [status EXCEPT ![d] = newStatus]
  /\ attemptCount' = [attemptCount EXCEPT ![d] = newCount]
  /\ retryAt' = [retryAt EXCEPT ![d] = newRetryAt]
  /\ stale' = [stale EXCEPT ![d] = FALSE]

SetTask(p, d, t) == task' = [task EXCEPT ![p][d] = t]

-----------------------------------------------------------------------------
(* Rows come and go (app.ts).                                              *)

\* POST /support-transactions stores one pending row per active webhook and
\* starts an enqueue it does not wait for.
Create(d) ==
  /\ status[d] = "absent"
  /\ WriteRow(d, "pending", 0, "due")
  /\ adding' = [adding EXCEPT ![d] = UseQueue]
  /\ UNCHANGED <<task, sweepVars, job, adminVars, losses>>

\* DELETE of the webhook cascades to its deliveries.
DeleteWebhook(d) ==
  /\ status[d] \notin {"absent", "deleted"}
  /\ status' = [status EXCEPT ![d] = "deleted"]
  /\ UNCHANGED <<attemptCount, retryAt, stale, task, sweepVars, queueVars,
                 adminVars, losses>>

\* enqueueWebhookDelivery: queue.add ignores a job id BullMQ still knows.  The
\* call may also fail; its caller only logs that.
Enqueue(d) ==
  /\ adding[d]
  /\ adding' = [adding EXCEPT ![d] = FALSE]
  /\ \/ /\ status[d] # "deleted" /\ job[d] = "none"
        /\ job' = [job EXCEPT ![d] = "waiting"]
     \/ UNCHANGED job
  /\ UNCHANGED <<rowVars, task, sweepVars, adminVars, losses>>

\* BullMQ keeps the last 100 completed and 50 failed jobs, then forgets them.
Forget(d) ==
  /\ job[d] = "done"
  /\ job' = [job EXCEPT ![d] = "none"]
  /\ UNCHANGED <<rowVars, task, sweepVars, adding, adminVars, losses>>

-----------------------------------------------------------------------------
(* The poller's sweep (webhook-processor.ts).                              *)

\* runSweep starts by reading the rows stuck in processing.
StartSweep(p) ==
  /\ p \in Poller /\ pc[p] = "idle"
  /\ pc' = [pc EXCEPT ![p] = "reclaim"]
  /\ stuck' = [stuck EXCEPT ![p] =
       {<<d, attemptCount[d] >= MaxAttempts>> :
          d \in {e \in Delivery : status[e] = "processing" /\ stale[e]}}]
  /\ UNCHANGED <<rowVars, task, queueVars, adminVars, losses>>

\* Fault seeded for the checks: the write is not guarded on the row's present
\* status.
ReclaimUnguarded(p, d, exhausted) ==
  IF exhausted THEN WriteRow(d, "failed", attemptCount[d], "null")
               ELSE WriteRow(d, "pending", attemptCount[d], "due")

\* The write of reclaimStuckWebhookDeliveries for one row it read.
ReclaimWrite(p, d, exhausted) ==
  IF status[d] = "processing" /\ (exhausted \/ stale[d])
  THEN IF exhausted THEN WriteRow(d, "failed", attemptCount[d], "null")
                    ELSE WriteRow(d, "pending", attemptCount[d], "due")
  ELSE UNCHANGED rowVars

ReclaimRow(p) ==
  \E x \in stuck[p] :
    /\ ReclaimWrite(p, x[1], x[2])
    /\ stuck' = [stuck EXCEPT ![p] = @ \ {x}]
    /\ UNCHANGED <<task, pc, queueVars, adminVars, losses>>

Selectable(d) ==
  status[d] = "pending" /\ retryAt[d] = "due" /\ attemptCount[d] < MaxAttempts

\* processPendingWebhookDeliveries reads the rows that are due, as they are
\* now.  While Redis is out a support request runs it too, with no reclaim before it.
Select(p) ==
  /\ (pc[p] = "reclaim" /\ stuck[p] = {}) \/ (p \in Request /\ pc[p] = "idle")
  /\ pc' = [pc EXCEPT ![p] = "deliver"]
  /\ task' = [task EXCEPT ![p] = [d \in Delivery |->
       IF Selectable(d) THEN [stage |-> "selected", base |-> attemptCount[d]] ELSE NoTask]]
  /\ UNCHANGED <<rowVars, stuck, queueVars, adminVars, losses>>

EndSweep(p) ==
  /\ pc[p] = "deliver"
  /\ \A d \in Delivery : task[p][d] = NoTask
  /\ pc' = [pc EXCEPT ![p] = "idle"]
  /\ UNCHANGED <<rowVars, task, stuck, queueVars, adminVars, losses>>

-----------------------------------------------------------------------------
(* One delivery (processDelivery; the BullMQ worker's processor).          *)

\* Fault seeded for the checks: the claim is not conditional on the status.
ClaimAnyway(p, d) ==
  IF status[d] # "deleted"
  THEN /\ WriteRow(d, "processing", attemptCount[d], retryAt[d])
       /\ SetTask(p, d, [task[p][d] EXCEPT !.stage = "delivering"])
  ELSE /\ SetTask(p, d, NoTask)
       /\ UNCHANGED rowVars

\* updateMany where status = pending: the row is claimed, and the request is
\* made, or the delivery is skipped.
TryClaim(p, d) ==
  IF status[d] = "pending"
  THEN /\ WriteRow(d, "processing", attemptCount[d], retryAt[d])
       /\ SetTask(p, d, [task[p][d] EXCEPT !.stage = "delivering"])
  ELSE /\ SetTask(p, d, NoTask)
       /\ UNCHANGED rowVars

Claim(p, d) ==
  /\ task[p][d].stage = "selected"
  /\ TryClaim(p, d)
  /\ job' = IF p = QueueWorker
            THEN [job EXCEPT ![d] = IF status[d] = "pending" THEN "active" ELSE "done"]
            ELSE job
  /\ UNCHANGED <<sweepVars, adding, adminVars, losses>>

\* The worker picks a waiting job.  Jobs have attempts: 1, so the worker
\* counts from job.attemptsMade = 0 whatever the row says.
TakeJob(d) ==
  /\ job[d] = "waiting"
  /\ job' = [job EXCEPT ![d] = "active"]
  /\ SetTask(QueueWorker, d, [stage |-> "selected", base |-> 0])
  /\ UNCHANGED <<rowVars, sweepVars, adding, adminVars, losses>>

\* Fault seeded for the checks: the comparison lets one retry too many through.
WillRetryOnceMore(result, nextAttempt) ==
  result = "transient" /\ nextAttempt <= MaxAttempts

\* result.willRetry && shouldRetry(nextAttempt)
WillRetry(result, nextAttempt) ==
  result = "transient" /\ nextAttempt < MaxAttempts

\* Fault seeded for the checks: a retry is left without its time.
OutcomeUnscheduled(d, result, nextAttempt) ==
  WriteRow(d, IF WillRetry(result, nextAttempt) THEN "pending" ELSE "failed", nextAttempt, "null")

WriteOutcome(d, result, nextAttempt) ==
  IF result = "success" THEN WriteRow(d, "success", nextAttempt, retryAt[d])
  ELSE IF WillRetry(result, nextAttempt) THEN WriteRow(d, "pending", nextAttempt, "later")
  ELSE WriteRow(d, "failed", nextAttempt, "null")

\* The endpoint answers and the outcome is written by id, whatever became of
\* the row meanwhile; of a deleted row the update throws.
Finish(p, d, result) ==
  /\ Delivering(p, d)
  /\ IF status[d] = "deleted" THEN UNCHANGED rowVars
     ELSE WriteOutcome(d, result, task[p][d].base + 1)
  /\ SetTask(p, d, NoTask)
  /\ job' = IF p = QueueWorker THEN [job EXCEPT ![d] = "done"] ELSE job
  /\ UNCHANGED <<sweepVars, adding, adminVars, losses>>

\* The final write fails, or the process dies with the row claimed.  A job
\* that threw is failed for good; that of a dead worker is put back to wait.
Lose(p, d) ==
  /\ Delivering(p, d)
  /\ losses < MaxLosses
  /\ losses' = losses + 1
  /\ SetTask(p, d, NoTask)
  /\ IF p = QueueWorker THEN \E j \in {"waiting", "done"} : job' = [job EXCEPT ![d] = j]
                        ELSE UNCHANGED job
  /\ UNCHANGED <<rowVars, sweepVars, adding, adminVars>>

\* The process of a poller dies: its sweep is gone, the rows are as they are.
Crash(p) ==
  /\ pc[p] # "idle"
  /\ losses < MaxLosses
  /\ losses' = losses + 1
  /\ pc' = [pc EXCEPT ![p] = "idle"]
  /\ stuck' = [stuck EXCEPT ![p] = {}]
  /\ task' = [task EXCEPT ![p] = [d \in Delivery |-> NoTask]]
  /\ UNCHANGED <<rowVars, queueVars, adminVars>>

-----------------------------------------------------------------------------
(* Requeue (app.ts) and time.                                              *)

\* POST /admin/webhooks/requeue reads the failed rows ...
RequeueRead(a) ==
  /\ ~requeue[a].active /\ requeues < MaxRequeues
  /\ \E d \in Delivery : status[d] = "failed"
  /\ requeue' = [requeue EXCEPT ![a] =
       [active |-> TRUE, rows |-> {d \in Delivery : status[d] = "failed"}]]
  /\ requeues' = requeues + 1
  /\ UNCHANGED <<rowVars, task, sweepVars, queueVars, losses>>

\* ... and then writes those rows by id, and enqueues them.
RequeueWrite(a) ==
  LET rows == {d \in requeue[a].rows : status[d] # "deleted"} IN
  /\ requeue[a].active
  /\ status' = [d \in Delivery |-> IF d \in rows THEN "pending" ELSE status[d]]
  /\ attemptCount' = [d \in Delivery |-> IF d \in rows THEN 0 ELSE attemptCount[d]]
  /\ retryAt' = [d \in Delivery |-> IF d \in rows THEN "due" ELSE retryAt[d]]
  /\ stale' = [d \in Delivery |-> stale[d] /\ d \notin rows]
  /\ adding' = [d \in Delivery |-> adding[d] \/ (UseQueue /\ d \in rows)]
  /\ requeue' = [requeue EXCEPT ![a] = NotRequeuing]
  /\ UNCHANGED <<task, sweepVars, job, requeues, losses>>

RetryComes(d) ==
  /\ retryAt[d] = "later"
  /\ retryAt' = [retryAt EXCEPT ![d] = "due"]
  /\ UNCHANGED <<status, attemptCount, stale, task, sweepVars, queueVars, adminVars, losses>>

\* A request is cut off after 10 s and the timeout is minutes: when writes
\* are prompt, only a row whose run is gone grows stale.
GrowStale(d) ==
  /\ status[d] = "processing" /\ ~stale[d]
  /\ PromptWrites => \A p \in Processor : ~Delivering(p, d)
  /\ stale' = [stale EXCEPT ![d] = TRUE]
  /\ UNCHANGED <<status, attemptCount, retryAt, task, sweepVars, queueVars, adminVars, losses>>

Sweep(p) == StartSweep(p) \/ ReclaimRow(p) \/ Select(p) \/ EndSweep(p)

Next ==
  \/ \E d \in Delivery :
       \/ Create(d) \/ DeleteWebhook(d) \/ Enqueue(d) \/ Forget(d) \/ TakeJob(d)
       \/ RetryComes(d) \/ GrowStale(d)
       \/ \E p \in Processor :
            Claim(p, d) \/ Lose(p, d) \/ \E result \in Result : Finish(p, d, result)
  \/ \E p \in Run : Sweep(p) \/ Crash(p)
  \/ \E a \in Admin : RequeueRead(a) \/ RequeueWrite(a)

Spec == Init /\ [][Next]_vars

\* The interval keeps starting sweeps, a started promise chain keeps running,
\* a request is answered or cut off, and clocks advance.
Fairness ==
  /\ \A p \in Poller : WF_vars(Sweep(p))
  /\ \A p \in Request : WF_vars(EndSweep(p))
  /\ \A p \in Processor, d \in Delivery :
       WF_vars(Claim(p, d)) /\ WF_vars(\E result \in Result : Finish(p, d, result))
  /\ \A d \in Delivery : WF_vars(RetryComes(d)) /\ WF_vars(GrowStale(d))

FairSpec == Spec /\ Fairness

-----------------------------------------------------------------------------
(* Properties.                                                             *)

\* A row is delivered by one run at a time: the claim (104-108, and 126-134
\* of the worker) excludes the overlapping sweeps, the worker and the reclaim.
OneDeliverer ==
  \A d \in Delivery : \A p, q \in Processor :
    Delivering(p, d) /\ Delivering(q, d) => p = q

\* A row in flight is marked so, and a row that is not marked so is in nobody's
\* hands: a settled or pending row is never being sent.
InFlightIsProcessing ==
  \A d \in Delivery : (\E p \in Processor : Delivering(p, d)) =>
    status[d] \in {"processing", "deleted"}

\* One delivery of a row at a time, and none unseen (31-108): what the
\* claim, the reclaim of rows that look stuck and the requeue keep between them.
Inv == TypeOK /\ OneDeliverer /\ InFlightIsProcessing

\* Every pending row can still be selected, now or later, by the poller: it
\* has a time to be retried at and attempts left (183-193), whatever mixture of
\* retries, reclaims, requeues and jobs produced it.
PendingIsReachable ==
  \A d \in Delivery : status[d] = "pending" =>
    retryAt[d] # "null" /\ attemptCount[d] < MaxAttempts

\* A delivered row stays delivered (until its webhook is deleted): no late
\* write, reclaim or requeue brings it back.
SuccessIsFinal ==
  [][\A d \in Delivery : status[d] = "success" => status'[d] \in {"success", "deleted"}]_vars

\* A row that is pending or being processed is eventually settled, runs that
\* die (finitely often) and requeues notwithstanding.
EventuallySettled ==
  \A d \in Delivery :
    (status[d] \in {"pending", "processing"}) ~> (status[d] \in {"success", "failed", "deleted"})
=============================================================================
