------------------------- MODULE PaymentFlowProofs -------------------------
(***************************************************************************)
(* Of PaymentFlow, for any replicas, rows, claims and calls.               *)
(*                                                                         *)
(* The deliveries: the claims rest on three facts the code never states: a *)
(* row that looks stuck is in nobody's hands, the rows an admin has read   *)
(* are still failed when they are written, and a row that is open has      *)
(* attempts left, so that the reclaim's branch for exhausted rows is never *)
(* taken.  The first needs PromptWrites, the second that requeues do not   *)
(* overlap; README.md says what happens without them.                      *)
(*                                                                         *)
(* The verification: a verdict is right when it is given.  A good one is   *)
(* right for good; a bad one was right when it was cached, and is used for *)
(* less than NegativeTTL.                                                  *)
(*                                                                         *)
(* The badges: whatever a check has counted, found missing or inserted was *)
(* earned when it looked, and what was earned once stays deserved.         *)
(***************************************************************************)
EXTENDS PaymentFlow, SequenceTheorems, TLAPS

-----------------------------------------------------------------------------
(* Deliveries.                                                             *)

\* Requeue calls do not overlap.
OneAdmin == \A a, b \in Admin : a = b

OpenHasAttempts ==
  \A d \in Delivery : status[d] \in {"pending", "processing"} =>
    retryAt[d] # "null" /\ attemptCount[d] < MaxAttempts

StuckHasAttempts == \A p \in Webhooks!Run : \A x \in stuck[p] : x[2] = FALSE

StaleIsIdle ==
  \A d \in Delivery : status[d] = "processing" /\ stale[d] =>
    \A p \in Webhooks!Processor : ~Webhooks!Delivering(p, d)

RequeuedHaveFailed ==
  \A a \in Admin : \A d \in requeue[a].rows : status[d] \in {"failed", "deleted"}

\* The inductive invariant.
ClaimsInv ==
  /\ Webhooks!OneDeliverer /\ Webhooks!InFlightIsProcessing
  /\ OpenHasAttempts /\ StuckHasAttempts /\ StaleIsIdle /\ RequeuedHaveFailed

-----------------------------------------------------------------------------
(* Types.                                                                  *)

\* The queue, the replicas and the requests start with their types.
LEMMA RowTypesInit == ASSUME Webhooks!DeliveryAssumption,
     Webhooks!Init PROVE Webhooks!TypeOK
  BY DEF Webhooks!DeliveryAssumption, Webhooks!Init, Webhooks!TypeOK, Webhooks!Status,
       Webhooks!Task, Webhooks!NoTask, Webhooks!NotRequeuing

\* One write of a row keeps the columns in their types.
LEMMA WriteRowTypes ==
  ASSUME Webhooks!TypeOK, NEW d \in Delivery, NEW s \in Webhooks!Status,
       NEW n \in 0..MaxAttempts,
         NEW r \in {"null", "later", "due"}, Webhooks!WriteRow(d, s, n, r)
  PROVE  /\ status' \in [Delivery -> Webhooks!Status]
         /\ attemptCount' \in [Delivery -> 0..MaxAttempts]
         /\ retryAt' \in [Delivery -> {"null", "later", "due"}]
         /\ stale' \in [Delivery -> BOOLEAN]
  BY DEF Webhooks!TypeOK, Webhooks!WriteRow

\* A step that sets one task to a task keeps the tasks tasks.
LEMMA SetTaskTypes ==
  ASSUME Webhooks!TypeOK, NEW p \in Webhooks!Processor, NEW d \in Delivery,
       NEW t \in Webhooks!Task, Webhooks!SetTask(p, d, t)
  PROVE  task' \in [Webhooks!Processor -> [Delivery -> Webhooks!Task]]
  BY DEF Webhooks!TypeOK, Webhooks!SetTask

\* A replica that does nothing has a task, the empty one.
LEMMA NoTaskType == ASSUME Webhooks!DeliveryAssumption PROVE Webhooks!NoTask \in Webhooks!Task
  BY DEF Webhooks!DeliveryAssumption, Webhooks!NoTask, Webhooks!Task

\* Every step keeps the types.
LEMMA RowTypesStep ==
  ASSUME Webhooks!DeliveryAssumption, Webhooks!TypeOK, [Webhooks!Next]_(Webhooks!vars)
  PROVE  Webhooks!TypeOK'
<1> USE DEF Webhooks!Status
<1>1. ASSUME NEW d \in Delivery, Webhooks!Create(d) PROVE Webhooks!TypeOK'
  <2>1. Webhooks!WriteRow(d, "pending", 0, "due") /\ 0 \in 0..MaxAttempts
    BY <1>1 DEF Webhooks!Create, Webhooks!DeliveryAssumption
  <2>2. adding' \in [Delivery -> BOOLEAN]
    BY <1>1 DEF Webhooks!Create, Webhooks!TypeOK, Webhooks!DeliveryAssumption
  <2> QED BY <1>1, <2>1, <2>2, WriteRowTypes
       DEF Webhooks!Create, Webhooks!TypeOK, Webhooks!sweepVars, Webhooks!adminVars
<1>2. ASSUME NEW d \in Delivery, Webhooks!DeleteWebhook(d) PROVE Webhooks!TypeOK'
  BY <1>2 DEF Webhooks!DeleteWebhook, Webhooks!TypeOK, Webhooks!sweepVars,
       Webhooks!queueVars, Webhooks!adminVars
<1>3. ASSUME NEW d \in Delivery, Webhooks!Enqueue(d) PROVE Webhooks!TypeOK'
  BY <1>3 DEF Webhooks!Enqueue, Webhooks!TypeOK, Webhooks!rowVars, Webhooks!sweepVars,
       Webhooks!adminVars
<1>4. ASSUME NEW d \in Delivery, Webhooks!Forget(d) PROVE Webhooks!TypeOK'
  BY <1>4 DEF Webhooks!Forget, Webhooks!TypeOK, Webhooks!rowVars, Webhooks!sweepVars,
       Webhooks!adminVars
<1>5. ASSUME NEW p \in Webhooks!Run, Webhooks!StartSweep(p) PROVE Webhooks!TypeOK'
  <2>1. {<<d, attemptCount[d] >= MaxAttempts>> :
           d \in {e \in Delivery : status[e] = "processing" /\ stale[e]}}
        \in SUBSET (Delivery \X BOOLEAN)
    <3> DEFINE exhausted(d) == attemptCount[d] >= MaxAttempts
    <3>1. \A d \in Delivery : exhausted(d) \in BOOLEAN
      BY DEF Webhooks!TypeOK, Webhooks!DeliveryAssumption
    <3> HIDE DEF exhausted
    <3>2. {<<d, exhausted(d)>> : d \in {e \in Delivery : status[e] = "processing" /\ stale[e]}}
          \in SUBSET (Delivery \X BOOLEAN)
      BY <3>1
    <3> QED BY <3>2 DEF exhausted
  <2> QED BY <1>5, <2>1 DEF Webhooks!StartSweep, Webhooks!TypeOK, Webhooks!rowVars,
       Webhooks!queueVars, Webhooks!adminVars
<1>6. ASSUME NEW p \in Webhooks!Run, Webhooks!ReclaimRow(p) PROVE Webhooks!TypeOK'
  <2>1. PICK x \in stuck[p] :
          /\ Webhooks!ReclaimWrite(p, x[1], x[2])
          /\ stuck' = [stuck EXCEPT ![p] = @ \ {x}]
          /\ UNCHANGED <<task, pc, Webhooks!queueVars, Webhooks!adminVars, losses>>
    BY <1>6 DEF Webhooks!ReclaimRow
  <2>2. x[1] \in Delivery
    BY DEF Webhooks!TypeOK
  <2>3. stuck' \in [Webhooks!Run -> SUBSET (Delivery \X BOOLEAN)]
    BY <2>1 DEF Webhooks!TypeOK
  <2>4. /\ status' \in [Delivery -> Webhooks!Status]
        /\ attemptCount' \in [Delivery -> 0..MaxAttempts]
        /\ retryAt' \in [Delivery -> {"null", "later", "due"}]
        /\ stale' \in [Delivery -> BOOLEAN]
    <3>1. attemptCount[x[1]] \in 0..MaxAttempts
      BY <2>2 DEF Webhooks!TypeOK
    <3>2. CASE UNCHANGED Webhooks!rowVars
      BY <3>2 DEF Webhooks!rowVars, Webhooks!TypeOK
    <3>3. CASE \/ Webhooks!WriteRow(x[1], "failed", attemptCount[x[1]], "null")
               \/ Webhooks!WriteRow(x[1], "pending", attemptCount[x[1]], "due")
      BY <3>1, <3>3, <2>2, WriteRowTypes
    <3> QED BY <2>1, <3>2, <3>3 DEF Webhooks!ReclaimWrite
  <2> QED BY <2>1, <2>3, <2>4 DEF Webhooks!TypeOK, Webhooks!queueVars, Webhooks!adminVars
<1>7. ASSUME NEW p \in Webhooks!Run, Webhooks!Select(p) PROVE Webhooks!TypeOK'
  <2>1. \A d \in Delivery : Webhooks!Selectable(d) => [stage |-> "selected",
       base |-> attemptCount[d]] \in Webhooks!Task
    BY DEF Webhooks!Selectable, Webhooks!Task, Webhooks!TypeOK, Webhooks!DeliveryAssumption
  <2>2. [d \in Delivery |->
           IF Webhooks!Selectable(d) THEN [stage |-> "selected",
                base |-> attemptCount[d]] ELSE Webhooks!NoTask]
        \in [Delivery -> Webhooks!Task]
    BY <2>1, NoTaskType
  <2>3. task' \in [Webhooks!Processor -> [Delivery -> Webhooks!Task]]
    BY <1>7, <2>2 DEF Webhooks!Select, Webhooks!TypeOK
  <2> QED BY <1>7, <2>3 DEF Webhooks!Select, Webhooks!TypeOK, Webhooks!rowVars,
       Webhooks!queueVars, Webhooks!adminVars
<1>8. ASSUME NEW p \in Webhooks!Run, Webhooks!EndSweep(p) PROVE Webhooks!TypeOK'
  BY <1>8 DEF Webhooks!EndSweep, Webhooks!TypeOK, Webhooks!rowVars, Webhooks!queueVars,
       Webhooks!adminVars
<1>9. ASSUME NEW p \in Webhooks!Processor, NEW d \in Delivery, Webhooks!Claim(p,
     d) PROVE Webhooks!TypeOK'
  <2>1. task[p][d] \in Webhooks!Task /\ attemptCount[d] \in 0..MaxAttempts
        /\ retryAt[d] \in {"null", "later", "due"}
    BY DEF Webhooks!TypeOK
  <2>2. [task[p][d] EXCEPT !.stage = "delivering"] \in Webhooks!Task
    BY <2>1 DEF Webhooks!Task
  <2>3. task' \in [Webhooks!Processor -> [Delivery -> Webhooks!Task]]
    BY <1>9, <2>2, NoTaskType, SetTaskTypes DEF Webhooks!Claim, Webhooks!TryClaim
  <2>4. /\ status' \in [Delivery -> Webhooks!Status]
        /\ attemptCount' \in [Delivery -> 0..MaxAttempts]
        /\ retryAt' \in [Delivery -> {"null", "later", "due"}]
        /\ stale' \in [Delivery -> BOOLEAN]
    <3>1. CASE UNCHANGED Webhooks!rowVars
      BY <3>1 DEF Webhooks!rowVars, Webhooks!TypeOK
    <3>2. CASE Webhooks!WriteRow(d, "processing", attemptCount[d], retryAt[d])
      BY <2>1, <3>2, WriteRowTypes
    <3> QED BY <1>9, <3>1, <3>2 DEF Webhooks!Claim, Webhooks!TryClaim
  <2>5. job' \in [Delivery -> {"none", "waiting", "active", "done"}]
    BY <1>9 DEF Webhooks!Claim, Webhooks!TypeOK
  <2> QED BY <1>9, <2>3, <2>4, <2>5 DEF Webhooks!Claim, Webhooks!TypeOK,
       Webhooks!sweepVars, Webhooks!adminVars
<1>10. ASSUME NEW d \in Delivery, Webhooks!TakeJob(d) PROVE Webhooks!TypeOK'
  <2>1. [stage |-> "selected",
       base |-> 0] \in Webhooks!Task /\ QueueWorker \in Webhooks!Processor
    BY DEF Webhooks!Task, Webhooks!Processor, Webhooks!DeliveryAssumption
  <2>2. task' \in [Webhooks!Processor -> [Delivery -> Webhooks!Task]]
    BY <1>10, <2>1, SetTaskTypes DEF Webhooks!TakeJob
  <2> QED BY <1>10, <2>2 DEF Webhooks!TakeJob, Webhooks!TypeOK, Webhooks!rowVars,
       Webhooks!sweepVars, Webhooks!adminVars
<1>11. ASSUME NEW p \in Webhooks!Processor, NEW d \in Delivery,
     NEW result \in Webhooks!Result, Webhooks!Finish(p, d, result)
       PROVE  Webhooks!TypeOK'
  <2>1. task[p][d].base + 1 \in 0..MaxAttempts /\ retryAt[d] \in {"null", "later", "due"}
    BY DEF Webhooks!TypeOK, Webhooks!Task, Webhooks!DeliveryAssumption
  <2>2. task' \in [Webhooks!Processor -> [Delivery -> Webhooks!Task]]
    BY <1>11, NoTaskType, SetTaskTypes DEF Webhooks!Finish
  <2>3. /\ status' \in [Delivery -> Webhooks!Status]
        /\ attemptCount' \in [Delivery -> 0..MaxAttempts]
        /\ retryAt' \in [Delivery -> {"null", "later", "due"}]
        /\ stale' \in [Delivery -> BOOLEAN]
    <3>1. CASE UNCHANGED Webhooks!rowVars
      BY <3>1 DEF Webhooks!rowVars, Webhooks!TypeOK
    <3>2. CASE Webhooks!WriteOutcome(d, result, task[p][d].base + 1)
      BY <2>1, <3>2, WriteRowTypes DEF Webhooks!WriteOutcome
    <3> QED BY <1>11, <3>1, <3>2 DEF Webhooks!Finish
  <2>4. job' \in [Delivery -> {"none", "waiting", "active", "done"}]
    BY <1>11 DEF Webhooks!Finish, Webhooks!TypeOK
  <2> QED BY <1>11, <2>2, <2>3, <2>4 DEF Webhooks!Finish, Webhooks!TypeOK,
       Webhooks!sweepVars, Webhooks!adminVars
<1>12. ASSUME NEW p \in Webhooks!Processor, NEW d \in Delivery, Webhooks!Lose(p,
     d) PROVE Webhooks!TypeOK'
  <2>1. task' \in [Webhooks!Processor -> [Delivery -> Webhooks!Task]]
    BY <1>12, NoTaskType, SetTaskTypes DEF Webhooks!Lose
  <2>2. job' \in [Delivery -> {"none", "waiting", "active", "done"}]
    BY <1>12 DEF Webhooks!Lose, Webhooks!TypeOK
  <2>3. losses' \in 0..MaxLosses
    BY <1>12 DEF Webhooks!Lose, Webhooks!TypeOK, Webhooks!DeliveryAssumption
  <2> QED BY <1>12, <2>1, <2>2, <2>3 DEF Webhooks!Lose, Webhooks!TypeOK, Webhooks!rowVars,
       Webhooks!sweepVars, Webhooks!adminVars
<1>13. ASSUME NEW p \in Webhooks!Run, Webhooks!Crash(p) PROVE Webhooks!TypeOK'
  <2>1. losses' \in 0..MaxLosses
    BY <1>13 DEF Webhooks!Crash, Webhooks!TypeOK, Webhooks!DeliveryAssumption
  <2>2. task' \in [Webhooks!Processor -> [Delivery -> Webhooks!Task]]
    BY <1>13, NoTaskType DEF Webhooks!Crash, Webhooks!TypeOK
  <2> QED BY <1>13, <2>1, <2>2 DEF Webhooks!Crash, Webhooks!TypeOK, Webhooks!rowVars,
       Webhooks!queueVars, Webhooks!adminVars
<1>14. ASSUME NEW a \in Admin, Webhooks!RequeueRead(a) PROVE Webhooks!TypeOK'
  <2>1. requeues' \in 0..MaxRequeues
    BY <1>14 DEF Webhooks!RequeueRead, Webhooks!TypeOK, Webhooks!DeliveryAssumption
  <2>2. {d \in Delivery : status[d] = "failed"} \in SUBSET Delivery
    OBVIOUS
  <2>3. requeue' \in [Admin -> [active : BOOLEAN, rows : SUBSET Delivery]]
    BY <1>14, <2>2 DEF Webhooks!RequeueRead, Webhooks!TypeOK
  <2> QED BY <1>14, <2>1, <2>3 DEF Webhooks!RequeueRead, Webhooks!TypeOK, Webhooks!rowVars,
       Webhooks!sweepVars, Webhooks!queueVars
<1>15. ASSUME NEW a \in Admin, Webhooks!RequeueWrite(a) PROVE Webhooks!TypeOK'
  <2>1. /\ status' \in [Delivery -> Webhooks!Status]
        /\ attemptCount' \in [Delivery -> 0..MaxAttempts]
        /\ retryAt' \in [Delivery -> {"null", "later", "due"}]
    BY <1>15 DEF Webhooks!RequeueWrite, Webhooks!TypeOK, Webhooks!DeliveryAssumption
  <2>2. stale' \in [Delivery -> BOOLEAN] /\ adding' \in [Delivery -> BOOLEAN]
    BY <1>15, Zenon DEF Webhooks!RequeueWrite, Webhooks!TypeOK, Webhooks!DeliveryAssumption
  <2>3. requeue' \in [Admin -> [active : BOOLEAN, rows : SUBSET Delivery]]
    BY <1>15 DEF Webhooks!RequeueWrite, Webhooks!TypeOK, Webhooks!NotRequeuing
  <2> QED BY <1>15, <2>1, <2>2, <2>3 DEF Webhooks!RequeueWrite, Webhooks!TypeOK,
       Webhooks!sweepVars
<1>16. ASSUME NEW d \in Delivery, Webhooks!RetryComes(d) PROVE Webhooks!TypeOK'
  BY <1>16 DEF Webhooks!RetryComes, Webhooks!TypeOK, Webhooks!sweepVars,
       Webhooks!queueVars, Webhooks!adminVars
<1>17. ASSUME NEW d \in Delivery, Webhooks!GrowStale(d) PROVE Webhooks!TypeOK'
  BY <1>17 DEF Webhooks!GrowStale, Webhooks!TypeOK, Webhooks!sweepVars, Webhooks!queueVars,
       Webhooks!adminVars
<1>18. CASE UNCHANGED Webhooks!vars
  BY <1>18 DEF Webhooks!vars, Webhooks!rowVars, Webhooks!sweepVars, Webhooks!queueVars,
       Webhooks!adminVars, Webhooks!TypeOK
<1> QED BY <1>1, <1>2, <1>3, <1>4, <1>5, <1>6, <1>7, <1>8, <1>9, <1>10, <1>11, <1>12,
           <1>13, <1>14, <1>15, <1>16, <1>17, <1>18 DEF Webhooks!Next, Webhooks!Sweep

-----------------------------------------------------------------------------
(* The claims.  Most actions take runs away from rows and leave the rows.  *)

\* At the start nothing is claimed.
LEMMA ClaimsInit == ASSUME Webhooks!Init PROVE ClaimsInv
  BY DEF Webhooks!Init, ClaimsInv, Webhooks!OneDeliverer, Webhooks!InFlightIsProcessing,
       OpenHasAttempts,
         StuckHasAttempts, StaleIsIdle, RequeuedHaveFailed, Webhooks!Delivering,
              Webhooks!NoTask, Webhooks!NotRequeuing

\* A step that leaves the rows, what is to be reclaimed and what is requeued, and
\* starts no request.
LEMMA RowsKept ==
  ASSUME ClaimsInv, UNCHANGED <<Webhooks!rowVars, stuck, requeue>>,
         \A p \in Webhooks!Processor, d \in Delivery : Webhooks!Delivering(p,
              d)' => Webhooks!Delivering(p, d)
  PROVE  ClaimsInv'
  BY DEF ClaimsInv, Webhooks!OneDeliverer, Webhooks!InFlightIsProcessing, OpenHasAttempts,
         StuckHasAttempts, StaleIsIdle, RequeuedHaveFailed, Webhooks!rowVars

\* A step that sets one task takes no other task.
LEMMA TaskSet ==
  ASSUME Webhooks!TypeOK, NEW p \in Webhooks!Processor, NEW d \in Delivery, NEW t,
       Webhooks!SetTask(p, d, t)
  PROVE  \A q \in Webhooks!Processor, e \in Delivery :
           Webhooks!Delivering(q,
                e)' <=> IF q = p /\ e = d THEN t.stage = "delivering" ELSE Webhooks!Delivering(q, e)
  BY DEF Webhooks!TypeOK, Webhooks!SetTask, Webhooks!Delivering

\* A step that starts no request and writes some rows: none of them is then in a run's
\* hands unless it is deleted, each has attempts left if it is open, and has failed if
\* an admin is about to write it.
RowKept(d) ==
  /\ status'[d] = status[d] /\ attemptCount'[d] = attemptCount[d]
  /\ retryAt'[d] = retryAt[d] /\ stale'[d] = stale[d]

RowRight(d) ==
  /\ status'[d] # "deleted" => \A p \in Webhooks!Processor : task'[p][d].stage # "delivering"
  /\ status'[d] \in {"pending", "processing"} =>
       retryAt'[d] # "null" /\ attemptCount'[d] < MaxAttempts
  /\ \A a \in Admin : d \in requeue'[a].rows => status'[d] \in {"failed", "deleted"}

NoneStarted ==
  \A p \in Webhooks!Processor : \A d \in Delivery :
    task'[p][d].stage = "delivering" => task[p][d].stage = "delivering"

\* A step that starts no request keeps the claims, when each row it writes is
\* right for those that have it.
LEMMA RowsWritten ==
  ASSUME Webhooks!TypeOK, ClaimsInv, StuckHasAttempts', NoneStarted,
         \A a \in Admin : requeue'[a].rows \subseteq requeue[a].rows,
         \A d \in Delivery : RowKept(d) \/ RowRight(d)
  PROVE  ClaimsInv'
<1> USE DEF RowKept, RowRight, NoneStarted, Webhooks!Delivering
<1>2. Webhooks!OneDeliverer'
  BY DEF ClaimsInv, Webhooks!OneDeliverer
<1>3. Webhooks!InFlightIsProcessing'
  <2>1. ASSUME NEW d \in Delivery, NEW p \in Webhooks!Processor,
       task'[p][d].stage = "delivering"
        PROVE  status'[d] \in {"processing", "deleted"}
    BY <2>1 DEF ClaimsInv, Webhooks!InFlightIsProcessing
  <2> QED BY <2>1 DEF Webhooks!InFlightIsProcessing
<1>4. OpenHasAttempts'
  BY DEF ClaimsInv, OpenHasAttempts
<1>5. StaleIsIdle'
  BY DEF ClaimsInv, StaleIsIdle
<1>6. RequeuedHaveFailed'
  <2>1. ASSUME NEW a \in Admin, NEW d \in requeue'[a].rows
        PROVE  status'[d] \in {"failed", "deleted"}
    <3>1. d \in requeue[a].rows /\ d \in Delivery
      BY <2>1 DEF Webhooks!TypeOK
    <3> QED BY <2>1, <3>1 DEF ClaimsInv, RequeuedHaveFailed
  <2> QED BY <2>1 DEF RequeuedHaveFailed
<1> QED BY <1>2, <1>3, <1>4, <1>5, <1>6 DEF ClaimsInv

\* The write of one row, read pointwise.
LEMMA WriteRowEffect ==
  ASSUME Webhooks!TypeOK, NEW d \in Delivery, NEW s, NEW n, NEW r, Webhooks!WriteRow(d, s,
       n, r)
  PROVE  /\ status'[d] = s /\ attemptCount'[d] = n /\ retryAt'[d] = r /\ ~stale'[d]
         /\ \A e \in Delivery \ {d} : RowKept(e)
  BY DEF Webhooks!TypeOK, Webhooks!WriteRow, RowKept

\* Of a row that is pending, settled or not there, no request is under way.
LEMMA NobodyHas ==
  ASSUME ClaimsInv, NEW d \in Delivery, status[d] \notin {"processing", "deleted"}
  PROVE  \A p \in Webhooks!Processor : task[p][d].stage # "delivering"
  BY DEF ClaimsInv, Webhooks!InFlightIsProcessing, Webhooks!Delivering

\* Every step keeps the claims.
LEMMA ClaimsStep ==
  ASSUME Webhooks!DeliveryAssumption, PromptWrites, OneAdmin, Webhooks!TypeOK, ClaimsInv,
       [Webhooks!Next]_(Webhooks!vars)
  PROVE  ClaimsInv'
<1>1. ASSUME NEW d \in Delivery, Webhooks!Create(d) PROVE ClaimsInv'
  <2>1. Webhooks!WriteRow(d, "pending", 0, "due") /\ status[d] = "absent"
        /\ UNCHANGED <<task, stuck, requeue>>
    BY <1>1 DEF Webhooks!Create, Webhooks!sweepVars, Webhooks!adminVars
  <2>2. \A p \in Webhooks!Processor : task'[p][d].stage # "delivering"
    BY <2>1, NobodyHas
  <2>3. \A a \in Admin : d \notin requeue'[a].rows
    BY <2>1 DEF ClaimsInv, RequeuedHaveFailed
  <2>4. StuckHasAttempts' /\ NoneStarted
    BY <2>1 DEF ClaimsInv, StuckHasAttempts, NoneStarted
  <2>5. RowRight(d)
    <3>1. status'[d] = "pending" /\ attemptCount'[d] = 0 /\ retryAt'[d] = "due"
      BY <2>1 DEF Webhooks!WriteRow, Webhooks!TypeOK
    <3> QED BY <2>2, <2>3, <3>1 DEF RowRight, Webhooks!DeliveryAssumption
  <2>6. \A e \in Delivery : RowKept(e) \/ RowRight(e)
    BY <2>1, <2>5, WriteRowEffect
  <2> QED BY <2>1, <2>4, <2>6, RowsWritten
<1>2. ASSUME NEW d \in Delivery, Webhooks!DeleteWebhook(d) PROVE ClaimsInv'
  <2>1. UNCHANGED <<task, stuck, requeue, attemptCount, retryAt, stale>>
    BY <1>2 DEF Webhooks!DeleteWebhook, Webhooks!sweepVars, Webhooks!adminVars
  <2>2. status'[d] = "deleted" /\ \A e \in Delivery \ {d} : status'[e] = status[e]
    BY <1>2 DEF Webhooks!DeleteWebhook, Webhooks!TypeOK
  <2>3. StuckHasAttempts' /\ NoneStarted
    BY <2>1 DEF ClaimsInv, StuckHasAttempts, NoneStarted
  <2>4. \A e \in Delivery : RowKept(e) \/ RowRight(e)
    BY <2>1, <2>2 DEF RowKept, RowRight
  <2> QED BY <2>1, <2>3, <2>4, RowsWritten
<1>3. ASSUME NEW d \in Delivery, Webhooks!Enqueue(d) \/ Webhooks!Forget(d) PROVE ClaimsInv'
  BY <1>3, RowsKept DEF Webhooks!Enqueue, Webhooks!Forget, Webhooks!rowVars,
       Webhooks!sweepVars, Webhooks!adminVars, Webhooks!Delivering
<1>4. ASSUME NEW p \in Webhooks!Run, Webhooks!StartSweep(p) PROVE ClaimsInv'
  <2>1. ASSUME NEW q \in Webhooks!Run, NEW x \in stuck'[q] PROVE x[2] = FALSE
    <3>1. CASE q # p
      BY <1>4, <2>1, <3>1 DEF Webhooks!StartSweep, Webhooks!TypeOK, ClaimsInv,
           StuckHasAttempts
    <3>2. CASE q = p
      <4>1. PICK d \in Delivery : /\ status[d] = "processing"
                                  /\ x = <<d, attemptCount[d] >= MaxAttempts>>
        BY <1>4, <2>1, <3>2 DEF Webhooks!StartSweep, Webhooks!TypeOK
      <4>2. attemptCount[d] < MaxAttempts /\ attemptCount[d] \in Nat /\ MaxAttempts \in Nat
        BY <4>1 DEF ClaimsInv, OpenHasAttempts, Webhooks!TypeOK, Webhooks!DeliveryAssumption
      <4>3. (attemptCount[d] >= MaxAttempts) = FALSE
        BY <4>2
      <4> QED BY <4>1, <4>3
    <3> QED BY <3>1, <3>2
  <2>2. StuckHasAttempts'
    BY <2>1 DEF StuckHasAttempts
  <2>3. UNCHANGED <<Webhooks!rowVars, task, requeue>>
    BY <1>4 DEF Webhooks!StartSweep, Webhooks!adminVars
  <2>4. NoneStarted /\ \A e \in Delivery : RowKept(e)
    BY <2>3 DEF NoneStarted, RowKept, Webhooks!rowVars
  <2> QED BY <2>2, <2>3, <2>4, RowsWritten
<1>5. ASSUME NEW p \in Webhooks!Run, Webhooks!ReclaimRow(p) PROVE ClaimsInv'
  <2>1. PICK x \in stuck[p] :
          /\ Webhooks!ReclaimWrite(p, x[1], x[2])
          /\ stuck' = [stuck EXCEPT ![p] = @ \ {x}]
          /\ UNCHANGED <<task, pc, Webhooks!queueVars, Webhooks!adminVars, losses>>
    BY <1>5 DEF Webhooks!ReclaimRow
  <2>2. x[1] \in Delivery /\ x[2] = FALSE
    BY DEF Webhooks!TypeOK, ClaimsInv, StuckHasAttempts
  <2>3. UNCHANGED <<task, requeue>>
    BY <2>1 DEF Webhooks!adminVars
  <2>4. StuckHasAttempts' /\ NoneStarted
    BY <2>1 DEF ClaimsInv, StuckHasAttempts, NoneStarted, Webhooks!TypeOK
  <2>5. CASE UNCHANGED Webhooks!rowVars
    <3>1. \A e \in Delivery : RowKept(e)
      BY <2>5 DEF RowKept, Webhooks!rowVars
    <3> QED BY <2>3, <2>4, <3>1, RowsWritten
  <2>6. CASE /\ status[x[1]] = "processing" /\ stale[x[1]]
             /\ Webhooks!WriteRow(x[1], "pending", attemptCount[x[1]], "due")
    <3>1. \A q \in Webhooks!Processor : task'[q][x[1]].stage # "delivering"
      BY <2>2, <2>3, <2>6 DEF ClaimsInv, StaleIsIdle, Webhooks!Delivering
    <3>2. \A a \in Admin : x[1] \notin requeue'[a].rows
      BY <2>3, <2>6 DEF ClaimsInv, RequeuedHaveFailed
    <3>3. attemptCount[x[1]] < MaxAttempts
      BY <2>2, <2>6 DEF ClaimsInv, OpenHasAttempts
    <3>4. RowRight(x[1])
      <4>1. attemptCount'[x[1]] = attemptCount[x[1]] /\ retryAt'[x[1]] = "due"
        BY <2>2, <2>6 DEF Webhooks!WriteRow, Webhooks!TypeOK
      <4> QED BY <3>1, <3>2, <3>3, <4>1 DEF RowRight
    <3>5. \A e \in Delivery : RowKept(e) \/ RowRight(e)
      BY <2>2, <2>6, <3>4, WriteRowEffect
    <3> QED BY <2>3, <2>4, <3>5, RowsWritten
  <2> QED BY <2>1, <2>2, <2>5, <2>6 DEF Webhooks!ReclaimWrite
<1>6. ASSUME NEW p \in Webhooks!Run, Webhooks!Select(p) PROVE ClaimsInv'
  <2>1. UNCHANGED <<Webhooks!rowVars, stuck, requeue>>
    BY <1>6 DEF Webhooks!Select, Webhooks!adminVars
  <2>2. \A q \in Webhooks!Processor : \A d \in Delivery :
          q # p => task'[q][d] = task[q][d]
    BY <1>6 DEF Webhooks!Select, Webhooks!TypeOK
  <2>3. \A d \in Delivery : task'[p][d].stage # "delivering"
    BY <1>6 DEF Webhooks!Select, Webhooks!TypeOK, Webhooks!NoTask, Webhooks!Processor
  <2> QED BY <2>1, <2>2, <2>3, RowsKept DEF Webhooks!Delivering
<1>7. ASSUME NEW p \in Webhooks!Run, Webhooks!EndSweep(p) PROVE ClaimsInv'
  BY <1>7, RowsKept DEF Webhooks!EndSweep, Webhooks!rowVars, Webhooks!adminVars,
       Webhooks!Delivering
<1>8. ASSUME NEW p \in Webhooks!Processor, NEW d \in Delivery, Webhooks!Claim(p,
     d) PROVE ClaimsInv'
  <2>1. UNCHANGED <<stuck, requeue>> /\ StuckHasAttempts'
    BY <1>8 DEF Webhooks!Claim, Webhooks!sweepVars, Webhooks!adminVars, ClaimsInv,
         StuckHasAttempts
  <2>2. CASE /\ status[d] = "pending"
             /\ Webhooks!WriteRow(d, "processing", attemptCount[d], retryAt[d])
             /\ Webhooks!SetTask(p, d, [task[p][d] EXCEPT !.stage = "delivering"])
    <3>1. \A q \in Webhooks!Processor : task[q][d].stage # "delivering"
      BY <2>2, NobodyHas
    <3>2. \A q \in Webhooks!Processor, e \in Delivery :
            task'[q][e].stage = "delivering" <=> (q = p /\ e = d) \/ task[q][e].stage = "delivering"
      BY <2>2 DEF Webhooks!TypeOK, Webhooks!SetTask, Webhooks!Task
    <3>3. /\ status'[d] = "processing" /\ attemptCount'[d] = attemptCount[d]
          /\ retryAt'[d] = retryAt[d] /\ ~stale'[d]
      BY <2>2 DEF Webhooks!WriteRow, Webhooks!TypeOK
    <3>4. \A e \in Delivery \ {d} : RowKept(e)
      BY <2>2, WriteRowEffect
    <3>5. Webhooks!OneDeliverer'
      BY <3>1, <3>2 DEF ClaimsInv, Webhooks!OneDeliverer, Webhooks!Delivering
    <3>6. Webhooks!InFlightIsProcessing'
      BY <3>1, <3>2, <3>3, <3>4 DEF ClaimsInv, Webhooks!InFlightIsProcessing,
           Webhooks!Delivering, RowKept
    <3>7. OpenHasAttempts'
      BY <2>2, <3>3, <3>4 DEF ClaimsInv, OpenHasAttempts, RowKept
    <3>8. StaleIsIdle'
      BY <3>2, <3>3, <3>4 DEF ClaimsInv, StaleIsIdle, Webhooks!Delivering, RowKept
    <3>9. RequeuedHaveFailed'
      BY <2>1, <2>2, <3>4 DEF ClaimsInv, RequeuedHaveFailed, RowKept, Webhooks!TypeOK
    <3> QED BY <2>1, <3>5, <3>6, <3>7, <3>8, <3>9 DEF ClaimsInv
  <2>3. CASE Webhooks!SetTask(p, d, Webhooks!NoTask) /\ UNCHANGED Webhooks!rowVars
    <3>1. \A q \in Webhooks!Processor, e \in Delivery : Webhooks!Delivering(q,
         e)' => Webhooks!Delivering(q, e)
      BY <2>3 DEF Webhooks!TypeOK, Webhooks!SetTask, Webhooks!NoTask, Webhooks!Delivering
    <3> QED BY <2>1, <2>3, <3>1, RowsKept
  <2> QED BY <1>8, <2>2, <2>3 DEF Webhooks!Claim, Webhooks!TryClaim
<1>9. ASSUME NEW d \in Delivery, Webhooks!TakeJob(d) PROVE ClaimsInv'
  <2>1. UNCHANGED <<Webhooks!rowVars, stuck, requeue>>
    BY <1>9 DEF Webhooks!TakeJob, Webhooks!sweepVars, Webhooks!adminVars
  <2>2. \A q \in Webhooks!Processor, e \in Delivery : Webhooks!Delivering(q,
       e)' => Webhooks!Delivering(q, e)
    BY <1>9 DEF Webhooks!TakeJob, Webhooks!TypeOK, Webhooks!SetTask, Webhooks!Delivering
  <2> QED BY <2>1, <2>2, RowsKept
<1>10. ASSUME NEW p \in Webhooks!Processor, NEW d \in Delivery,
     NEW result \in Webhooks!Result, Webhooks!Finish(p, d, result)
       PROVE  ClaimsInv'
  <2>1. UNCHANGED <<stuck, requeue>> /\ StuckHasAttempts' /\ Webhooks!SetTask(p, d,
       Webhooks!NoTask)
    BY <1>10 DEF Webhooks!Finish, Webhooks!sweepVars, Webhooks!adminVars, ClaimsInv,
         StuckHasAttempts
  <2>2. /\ task'[p][d].stage # "delivering"
        /\ \A q \in Webhooks!Processor,
             e \in Delivery : (q # p \/ e # d) => task'[q][e] = task[q][e]
    BY <2>1 DEF Webhooks!TypeOK, Webhooks!SetTask, Webhooks!NoTask
  <2>3. NoneStarted
    BY <2>2 DEF NoneStarted
  <2>4. CASE status[d] = "deleted" /\ UNCHANGED Webhooks!rowVars
    <3>1. \A q \in Webhooks!Processor, e \in Delivery : Webhooks!Delivering(q,
         e)' => Webhooks!Delivering(q, e)
      BY <2>3 DEF NoneStarted, Webhooks!Delivering
    <3> QED BY <2>1, <2>4, <3>1, RowsKept
  <2>5. CASE status[d] # "deleted" /\ Webhooks!WriteOutcome(d, result, task[p][d].base + 1)
    <3>1. \A q \in Webhooks!Processor : task'[q][d].stage # "delivering"
      BY <1>10, <2>2 DEF ClaimsInv, Webhooks!OneDeliverer, Webhooks!Finish,
           Webhooks!Delivering
    <3>2. status[d] = "processing"
      BY <1>10, <2>5 DEF ClaimsInv, Webhooks!InFlightIsProcessing, Webhooks!Finish
    <3>3. \A a \in Admin : d \notin requeue'[a].rows
      BY <2>1, <3>2 DEF ClaimsInv, RequeuedHaveFailed
    <3>4. status'[d] = "pending" => retryAt'[d] = "later" /\ attemptCount'[d] < MaxAttempts
      BY <2>5 DEF Webhooks!WriteOutcome, Webhooks!WillRetry, Webhooks!WriteRow,
           Webhooks!TypeOK
    <3>5. status'[d] \in {"success", "pending", "failed"}
      BY <2>5 DEF Webhooks!WriteOutcome, Webhooks!WriteRow, Webhooks!TypeOK
    <3>6. RowRight(d)
      BY <3>1, <3>3, <3>4, <3>5 DEF RowRight
    <3>7. \A e \in Delivery \ {d} : RowKept(e)
      BY <2>5, WriteRowEffect DEF Webhooks!WriteOutcome
    <3> QED BY <2>1, <2>3, <3>6, <3>7, RowsWritten
  <2> QED BY <1>10, <2>4, <2>5 DEF Webhooks!Finish
<1>11. ASSUME NEW p \in Webhooks!Processor, NEW d \in Delivery, Webhooks!Lose(p,
     d) PROVE ClaimsInv'
  <2>1. UNCHANGED <<Webhooks!rowVars, stuck, requeue>>
    BY <1>11 DEF Webhooks!Lose, Webhooks!sweepVars, Webhooks!adminVars
  <2>2. \A q \in Webhooks!Processor, e \in Delivery : Webhooks!Delivering(q,
       e)' => Webhooks!Delivering(q, e)
    BY <1>11 DEF Webhooks!Lose, Webhooks!TypeOK, Webhooks!SetTask, Webhooks!NoTask,
         Webhooks!Delivering
  <2> QED BY <2>1, <2>2, RowsKept
<1>12. ASSUME NEW p \in Webhooks!Run, Webhooks!Crash(p) PROVE ClaimsInv'
  <2>1. UNCHANGED <<Webhooks!rowVars, requeue>>
    BY <1>12 DEF Webhooks!Crash, Webhooks!adminVars
  <2>2. StuckHasAttempts'
    BY <1>12 DEF Webhooks!Crash, ClaimsInv, StuckHasAttempts, Webhooks!TypeOK
  <2>3. NoneStarted
    BY <1>12 DEF Webhooks!Crash, Webhooks!TypeOK, Webhooks!NoTask, NoneStarted
  <2>4. \A e \in Delivery : RowKept(e)
    BY <2>1 DEF RowKept, Webhooks!rowVars
  <2> QED BY <2>1, <2>2, <2>3, <2>4, RowsWritten
<1>13. ASSUME NEW a \in Admin, Webhooks!RequeueRead(a) PROVE ClaimsInv'
  <2>1. UNCHANGED <<Webhooks!rowVars, task, stuck>>
    BY <1>13 DEF Webhooks!RequeueRead, Webhooks!sweepVars
  <2>2. RequeuedHaveFailed'
    BY <1>13, <2>1 DEF Webhooks!RequeueRead, ClaimsInv, RequeuedHaveFailed,
         Webhooks!TypeOK, Webhooks!rowVars
  <2> QED BY <2>1, <2>2 DEF ClaimsInv, Webhooks!OneDeliverer,
       Webhooks!InFlightIsProcessing, OpenHasAttempts,
                            StuckHasAttempts, StaleIsIdle, Webhooks!Delivering,
                                 Webhooks!rowVars
<1>14. ASSUME NEW a \in Admin, Webhooks!RequeueWrite(a) PROVE ClaimsInv'
  <2>1. UNCHANGED <<task, stuck>> /\ StuckHasAttempts' /\ NoneStarted
    BY <1>14 DEF Webhooks!RequeueWrite, Webhooks!sweepVars, ClaimsInv, StuckHasAttempts,
         NoneStarted
  <2>2. \A b \in Admin : b = a /\ requeue'[b].rows = {}
    BY <1>14 DEF OneAdmin, Webhooks!RequeueWrite, Webhooks!NotRequeuing, Webhooks!TypeOK
  <2>3. ASSUME NEW d \in Delivery PROVE RowKept(d) \/ RowRight(d)
    <3>1. CASE d \in requeue[a].rows /\ status[d] # "deleted"
      <4>1. status[d] = "failed"
        BY <3>1 DEF ClaimsInv, RequeuedHaveFailed
      <4>2. \A p \in Webhooks!Processor : task'[p][d].stage # "delivering"
        BY <2>1, <4>1, NobodyHas
      <4>3. status'[d] = "pending" /\ attemptCount'[d] = 0 /\ retryAt'[d] = "due"
        BY <1>14, <3>1 DEF Webhooks!RequeueWrite
      <4> QED BY <2>2, <4>2, <4>3 DEF RowRight, Webhooks!DeliveryAssumption
    <3>2. CASE ~(d \in requeue[a].rows /\ status[d] # "deleted")
      <4>1. status'[d] = status[d] /\ attemptCount'[d] = attemptCount[d] /\ retryAt'[d] = retryAt[d]
        BY <1>14, <3>2 DEF Webhooks!RequeueWrite
      <4>2. stale'[d] = stale[d]
        BY <1>14, <3>2, Zenon DEF Webhooks!RequeueWrite, Webhooks!TypeOK
      <4> QED BY <4>1, <4>2 DEF RowKept
    <3> QED BY <3>1, <3>2
  <2> QED BY <2>1, <2>2, <2>3, RowsWritten
<1>15. ASSUME NEW d \in Delivery, Webhooks!RetryComes(d) PROVE ClaimsInv'
  <2>1. UNCHANGED <<status, attemptCount, stale, task, stuck, requeue>>
    BY <1>15 DEF Webhooks!RetryComes, Webhooks!sweepVars, Webhooks!adminVars
  <2>2. \A e \in Delivery : retryAt[e] # "null" => retryAt'[e] # "null"
    BY <1>15 DEF Webhooks!RetryComes, Webhooks!TypeOK
  <2> QED BY <2>1, <2>2 DEF ClaimsInv, Webhooks!OneDeliverer,
       Webhooks!InFlightIsProcessing, OpenHasAttempts,
                            StuckHasAttempts, StaleIsIdle, RequeuedHaveFailed,
                                 Webhooks!Delivering
<1>16. ASSUME NEW d \in Delivery, Webhooks!GrowStale(d) PROVE ClaimsInv'
  <2>1. UNCHANGED <<status, attemptCount, retryAt, task, stuck, requeue>>
    BY <1>16 DEF Webhooks!GrowStale, Webhooks!sweepVars, Webhooks!adminVars
  <2>2. /\ \A p \in Webhooks!Processor : ~Webhooks!Delivering(p, d)
        /\ \A e \in Delivery : e # d => stale'[e] = stale[e]
    BY <1>16 DEF Webhooks!GrowStale, Webhooks!TypeOK
  <2> QED BY <2>1, <2>2 DEF ClaimsInv, Webhooks!OneDeliverer,
       Webhooks!InFlightIsProcessing, OpenHasAttempts,
                            StuckHasAttempts, StaleIsIdle, RequeuedHaveFailed,
                                 Webhooks!Delivering
<1>17. CASE UNCHANGED Webhooks!vars
  BY <1>17, RowsKept DEF Webhooks!vars, Webhooks!rowVars, Webhooks!sweepVars,
       Webhooks!adminVars, Webhooks!Delivering
<1> QED BY <1>1, <1>2, <1>3, <1>4, <1>5, <1>6, <1>7, <1>8, <1>9, <1>10, <1>11, <1>12,
           <1>13, <1>14, <1>15, <1>16, <1>17 DEF Webhooks!Next, Webhooks!Sweep

\* What is delivered stays delivered: a late write belongs to a run that still has the
\* row, a reclaim is of a row that is processed, a requeue of one that has failed.
LEMMA SuccessStays ==
  ASSUME Webhooks!TypeOK, ClaimsInv, [Webhooks!Next]_(Webhooks!vars), NEW d \in Delivery,
       status[d] = "success"
  PROVE  status'[d] \in {"success", "deleted"}
<1>1. ASSUME NEW e \in Delivery, Webhooks!Create(e) PROVE status'[d] = "success"
  BY <1>1 DEF Webhooks!Create, Webhooks!WriteRow, Webhooks!TypeOK
<1>2. ASSUME NEW e \in Delivery, Webhooks!DeleteWebhook(e) PROVE status'[d] \in {"success",
     "deleted"}
  BY <1>2 DEF Webhooks!DeleteWebhook, Webhooks!TypeOK
<1>3. ASSUME NEW e \in Delivery,
             Webhooks!Enqueue(e) \/ Webhooks!Forget(e) \/ Webhooks!TakeJob(e) \/ Webhooks!RetryComes(e) \/ Webhooks!GrowStale(e)
      PROVE  status'[d] = "success"
  BY <1>3 DEF Webhooks!Enqueue, Webhooks!Forget, Webhooks!TakeJob, Webhooks!RetryComes,
       Webhooks!GrowStale, Webhooks!rowVars
<1>4. ASSUME NEW p \in Webhooks!Processor, NEW e \in Delivery, Webhooks!Claim(p,
     e) PROVE status'[d] = "success"
  BY <1>4 DEF Webhooks!Claim, Webhooks!TryClaim, Webhooks!WriteRow, Webhooks!TypeOK,
       Webhooks!rowVars
<1>5. ASSUME NEW p \in Webhooks!Processor, NEW e \in Delivery,
     NEW result \in Webhooks!Result, Webhooks!Finish(p, e, result)
      PROVE  status'[d] = "success"
  <2>1. status[e] \in {"processing", "deleted"} /\ e # d
    BY <1>5 DEF Webhooks!Finish, ClaimsInv, Webhooks!InFlightIsProcessing
  <2> QED BY <1>5, <2>1 DEF Webhooks!Finish, Webhooks!WriteOutcome, Webhooks!WriteRow,
       Webhooks!TypeOK, Webhooks!rowVars
<1>6. ASSUME NEW p \in Webhooks!Processor, NEW e \in Delivery, Webhooks!Lose(p,
     e) PROVE status'[d] = "success"
  BY <1>6 DEF Webhooks!Lose, Webhooks!rowVars
<1>7. ASSUME NEW p \in Webhooks!Run,
     Webhooks!StartSweep(p) \/ Webhooks!Select(p) \/ Webhooks!EndSweep(p) \/ Webhooks!Crash(p)
      PROVE  status'[d] = "success"
  BY <1>7 DEF Webhooks!StartSweep, Webhooks!Select, Webhooks!EndSweep, Webhooks!Crash,
       Webhooks!rowVars
<1>8. ASSUME NEW p \in Webhooks!Run, Webhooks!ReclaimRow(p) PROVE status'[d] = "success"
  BY <1>8 DEF Webhooks!ReclaimRow, Webhooks!ReclaimWrite, Webhooks!WriteRow,
       Webhooks!TypeOK, Webhooks!rowVars
<1>9. ASSUME NEW a \in Admin, Webhooks!RequeueRead(a) PROVE status'[d] = "success"
  BY <1>9 DEF Webhooks!RequeueRead, Webhooks!rowVars
<1>10. ASSUME NEW a \in Admin, Webhooks!RequeueWrite(a) PROVE status'[d] = "success"
  BY <1>10 DEF Webhooks!RequeueWrite, ClaimsInv, RequeuedHaveFailed
<1>11. CASE UNCHANGED Webhooks!vars
  BY <1>11 DEF Webhooks!vars, Webhooks!rowVars
<1> QED BY <1>1, <1>2, <1>3, <1>4, <1>5, <1>6, <1>7, <1>8, <1>9, <1>10,
     <1>11 DEF Webhooks!Next, Webhooks!Sweep

\* Every step of the flow keeps both, whichever part it is of.
LEMMA FlowDeliveries ==
  ASSUME PromptWrites, OneAdmin, Webhooks!TypeOK, ClaimsInv, [Next]_vars
  PROVE  /\ Webhooks!TypeOK' /\ ClaimsInv'
         /\ [\A d \in Delivery : status[d] = "success" => status'[d] \in {"success", "deleted"}]_(Webhooks!vars)
<1>1. [Webhooks!Next]_(Webhooks!vars)
  <2>1. CASE WebhookStep
    BY <2>1 DEF WebhookStep
  <2>2. CASE VerificationStep \/ BadgeStep \/ UNCHANGED vars
    <3>1. UNCHANGED webhookVars
      BY <2>2 DEF VerificationStep, BadgeStep, vars
    <3> QED BY <3>1 DEF webhookVars, Webhooks!vars, Webhooks!rowVars, Webhooks!sweepVars,
                   Webhooks!queueVars, Webhooks!adminVars
  <2> QED BY <2>1, <2>2 DEF Next
<1> QED BY <1>1, PaymentFlowAssumption, RowTypesStep, ClaimsStep, SuccessStays
       DEF PaymentFlowAssumption

\* Both hold in the initial state of the flow.
LEMMA DeliveriesInit == ASSUME Init PROVE Webhooks!TypeOK /\ ClaimsInv
  BY PaymentFlowAssumption, RowTypesInit, ClaimsInit DEF PaymentFlowAssumption, Init

\* A pending row has a time to be retried at and attempts left (webhook-processor.ts
\* 183-193), whatever mixture of retries, reclaims, requeues and jobs produced it: when
\* runs write before the processing timeout, and requeues do not overlap.
THEOREM Reachable ==
  ASSUME PromptWrites, OneAdmin
  PROVE  Spec => []PendingIsReachable
<1>1. Webhooks!TypeOK /\ ClaimsInv /\ [Next]_vars => Webhooks!TypeOK' /\ ClaimsInv'
  BY FlowDeliveries
<1>2. ClaimsInv => PendingIsReachable
  BY DEF ClaimsInv, OpenHasAttempts, PendingIsReachable, Webhooks!PendingIsReachable
<1> QED BY <1>1, <1>2, DeliveriesInit, PTL DEF Spec

\* A delivery that has succeeded is never attempted again nor marked failed
\* (webhook-processor.ts 54-83; the requeue of app.ts 4333), under the same conditions.
THEOREM Final ==
  ASSUME PromptWrites, OneAdmin
  PROVE  Spec => SuccessIsFinal
<1>1. Webhooks!TypeOK /\ ClaimsInv /\ [Next]_vars
      => /\ Webhooks!TypeOK' /\ ClaimsInv'
         /\ [\A d \in Delivery : status[d] = "success" => status'[d] \in {"success", "deleted"}]_(Webhooks!vars)
  BY FlowDeliveries
<1> QED BY <1>1, DeliveriesInit, PTL DEF Spec, SuccessIsFinal, Webhooks!SuccessIsFinal

-----------------------------------------------------------------------------
(* Verdicts.                                                               *)

Entry == [claim : Claims, result : BOOLEAN, timestamp : 0..MaxTime]
Ask   == [pc : {"request", "answer", "scan", "wait", "done"}, claim : Claims,
          attempt : 1..Retries, page : 1..LastPage + 1, got : Verified!Outcome, verdict : Verified!Verdict]

VerificationTyped ==
  /\ time \in 0..MaxTime
  /\ shown \in [Verified!Txs -> Verified!Outcome] /\ since \in [Verified!Txs -> 0..MaxTime]
  /\ cache \in Seq(Entry) /\ Len(cache) <= CacheSize
  /\ asks \in [Verifiers -> Ask \cup {Verified!NoAsk}]

Succeeded(k) == shown[TxOf[k]] = "successful"

\* A good verdict is right for good; a bad one was right when it was given, so that the
\* payment was made later, if it was.
EntryRight(e) ==
  /\ e.timestamp <= time
  /\ e.result => Verified!Paid(e.claim)
  /\ ~e.result /\ Verified!Paid(e.claim) => e.timestamp <= since[TxOf[e.claim]]

EntriesRight == \A i \in 1..Len(cache) : EntryRight(cache[i])

\* An answer under way may be late, by less than a tick; what is looked through has
\* succeeded.
AskRight(ask) ==
  /\ ask.pc = "answer" =>
       IF ask.got = "successful" THEN Succeeded(ask.claim)
       ELSE Succeeded(ask.claim) => since[TxOf[ask.claim]] = time
  /\ ask.pc = "scan" => Succeeded(ask.claim)

AsksRight == \A v \in Verifiers : AskRight(asks[v])

\* The inductive invariant of the verdicts.
VerdictsInv == VerificationTyped /\ EntriesRight /\ AsksRight

\* The bounds are numbers.
LEMMA VerificationBounds ==
  /\ MaxTime \in Nat /\ Retries \in Nat \ {0} /\ LastPage \in Nat \ {0}
  /\ CacheSize \in Nat \ {0}
  BY PaymentFlowAssumption DEF PaymentFlowAssumption, Verified!VerificationAssumption

\* A claim's transaction is one.
LEMMA TxIs == ASSUME NEW k \in Claims PROVE TxOf[k] \in Verified!Txs
  BY DEF Verified!Txs

\* A call that waits is a call.
LEMMA CallIs ==
  ASSUME VerificationTyped, NEW v \in Verifiers, asks[v].pc # "idle"
  PROVE  asks[v] \in Ask /\ asks[v].claim \in Claims
<1>1. asks[v] # Verified!NoAsk
  BY DEF Verified!NoAsk
<1> QED BY <1>1 DEF VerificationTyped, Ask

\* A verdict that is kept is the only new entry.
LEMMA EntrySet ==
  ASSUME VerificationTyped, NEW k \in Claims, NEW r \in BOOLEAN, Verified!SetEntry(k, r)
  PROVE  /\ cache' \in Seq(Entry) /\ Len(cache') <= CacheSize
         /\ \A i \in 1..Len(cache') :
              \/ \E j \in 1..Len(cache) : cache'[i] = cache[j]
              \/ cache'[i] = [claim |-> k, result |-> r, timestamp |-> time]
<1> DEFINE entry  == [claim |-> k, result |-> r, timestamp |-> time]
           places == {i \in 1..Len(cache) : cache[i].claim = k}
           longer == IF places = {} THEN Append(cache, entry)
                     ELSE [i \in 1..Len(cache) |-> IF i \in places THEN entry ELSE cache[i]]
<1>1. entry \in Entry /\ cache \in Seq(Entry)
  BY DEF VerificationTyped, Entry
<1>2. cache' = IF Len(longer) > CacheSize THEN Tail(longer) ELSE longer
  BY DEF Verified!SetEntry
<1> HIDE DEF entry
<1>3. /\ longer \in Seq(Entry) /\ Len(longer) <= Len(cache) + 1
      /\ \A i \in 1..Len(longer) :
           longer[i] = entry \/ \E j \in 1..Len(cache) : longer[i] = cache[j]
  <2>1. CASE places = {}
    BY <1>1, <2>1
  <2>2. CASE places # {}
    <3>1. longer = [i \in 1..Len(cache) |-> IF i \in places THEN entry ELSE cache[i]]
      BY <2>2
    <3>2. Len(cache) \in Nat /\ \A i \in 1..Len(cache) : cache[i] \in Entry
      BY <1>1
    <3> HIDE DEF places, longer
    <3>3. longer \in [1..Len(cache) -> Entry]
      BY <1>1, <3>1, <3>2
    <3>4. longer \in Seq(Entry) /\ Len(longer) = Len(cache)
      BY <3>2, <3>3, LenProperties
    <3> QED BY <3>1, <3>4
  <2> QED BY <2>1, <2>2
<1>4. CacheSize \in Nat \ {0} /\ Len(cache) \in Nat /\ Len(cache) <= CacheSize
  BY VerificationBounds DEF VerificationTyped
<1> HIDE DEF longer
<1>5. CASE Len(longer) > CacheSize
  <2>1. Len(longer) \in Nat /\ longer # <<>>
    BY <1>3, <1>4, <1>5
  <2>2. /\ Tail(longer) \in Seq(Entry) /\ Len(Tail(longer)) = Len(longer) - 1
        /\ \A i \in 1..Len(Tail(longer)) : i + 1 \in 1..Len(longer) /\ Tail(longer)[i] = longer[i + 1]
    BY <1>3, <2>1
  <2>3. cache' = Tail(longer)
    BY <1>2, <1>5
  <2> QED BY <1>3, <1>4, <2>1, <2>2, <2>3 DEF entry
<1>6. CASE ~(Len(longer) > CacheSize)
  BY <1>2, <1>3, <1>4, <1>6 DEF entry
<1> QED BY <1>5, <1>6

\* A verdict that is right, kept, leaves the cache right.
LEMMA RightEntrySet ==
  ASSUME VerdictsInv, NEW k \in Claims, NEW r \in BOOLEAN, Verified!SetEntry(k, r),
         EntryRight([claim |-> k, result |-> r, timestamp |-> time]),
         UNCHANGED <<time, shown, since>>
  PROVE  cache' \in Seq(Entry) /\ Len(cache') <= CacheSize /\ EntriesRight'
<1>1. \A i \in 1..Len(cache') : EntryRight(cache'[i])
  BY EntrySet DEF VerdictsInv, EntriesRight
<1> QED BY <1>1, EntrySet DEF VerdictsInv, EntriesRight, EntryRight, Verified!Paid

\* A cache that stays, while Horizon does, stays right.
LEMMA CacheStays ==
  ASSUME VerdictsInv, UNCHANGED <<time, shown, since, cache>>
  PROVE  EntriesRight'
  BY DEF VerdictsInv, EntriesRight, EntryRight, Verified!Paid

\* A call that goes on leaves the others.
LEMMA CallGoesOn ==
  ASSUME VerdictsInv, NEW v \in Verifiers, NEW ask \in Ask, AskRight(ask),
         Verified!Becomes(v, ask), UNCHANGED <<time, shown, since>>
  PROVE  asks' \in [Verifiers -> Ask \cup {Verified!NoAsk}] /\ AsksRight'
<1>1. asks' \in [Verifiers -> Ask \cup {Verified!NoAsk}]
  BY DEF VerdictsInv, VerificationTyped, Verified!Becomes
<1>2. \A w \in Verifiers : AskRight(asks'[w])
  BY DEF VerdictsInv, VerificationTyped, AsksRight, Verified!Becomes
<1> QED BY <1>1, <1>2 DEF AsksRight, AskRight, Succeeded

\* A question begins as a call.
LEMMA AskedIs ==
  ASSUME NEW k \in Claims
  PROVE  Verified!Asked(k) \in Ask /\ Verified!Asked(k).pc = "request"
  BY VerificationBounds DEF Ask, Verified!Asked, Verified!Outcome, Verified!Verdict

\* A call as it is when it has ended.
Ended(k, verdict) == [Verified!Asked(k) EXCEPT !.pc = "done", !.verdict = verdict]

\* What ends is a call, with its verdict.
LEMMA EndIs ==
  ASSUME NEW k \in Claims, NEW verdict \in Verified!Verdict
  PROVE  /\ Ended(k, verdict) \in Ask /\ AskRight(Ended(k, verdict))
         /\ Ended(k, verdict).claim = k /\ Ended(k, verdict).verdict = verdict
<1> DEFINE a == Verified!Asked(k)
<1>1. a \in Ask /\ a.claim = k
  BY VerificationBounds DEF Ask, Verified!Asked, Verified!Outcome, Verified!Verdict
<1>2. Ended(k, verdict) = [a EXCEPT !.pc = "done", !.verdict = verdict]
  BY DEF Ended
<1> HIDE DEF a
<1>3. /\ Ended(k, verdict) \in Ask /\ Ended(k, verdict).pc = "done"
      /\ Ended(k, verdict).claim = k /\ Ended(k, verdict).verdict = verdict
  BY <1>1, <1>2 DEF Ask
<1> QED BY <1>3 DEF AskRight

\* What a call that asks again becomes.
LEMMA WaitIs ==
  ASSUME NEW a \in Ask, NEW n \in 1..Retries
  PROVE  /\ [a EXCEPT !.pc = "wait", !.attempt = n, !.page = 1, !.got = "absent"] \in Ask
         /\ [a EXCEPT !.pc = "wait", !.attempt = n, !.page = 1, !.got = "absent"].pc = "wait"
<1> DEFINE b == [a EXCEPT !.pc = "wait"]
           c == [b EXCEPT !.attempt = n]
           d == [c EXCEPT !.page = 1]
           e == [d EXCEPT !.got = "absent"]
<1>1. b \in Ask /\ b.pc = "wait"
  BY DEF Ask
<1>2. c \in Ask /\ c.pc = "wait"
  <2> HIDE DEF b
  <2> QED BY <1>1 DEF Ask
<1>3. d \in Ask /\ d.pc = "wait"
  <2> HIDE DEF c
  <2> QED BY <1>2, VerificationBounds DEF Ask
<1>4. e \in Ask /\ e.pc = "wait"
  <2> HIDE DEF d
  <2> QED BY <1>3 DEF Ask, Verified!Outcome
<1>5. [a EXCEPT !.pc = "wait", !.attempt = n, !.page = 1, !.got = "absent"] = e
  OBVIOUS
<1> QED BY <1>4, <1>5, Zenon

\* What the cache finds is right.
LEMMA FoundIs ==
  ASSUME VerdictsInv, NEW k \in Claims, NEW e \in Verified!Cached(k)
  PROVE  e.claim = k /\ EntryRight(e) /\ Verified!Live(e) /\ e \in Entry
  BY DEF VerdictsInv, VerificationTyped, EntriesRight, Verified!Cached, Verified!SameKey,
         Verified!ToSet

\* The initial state.
LEMMA VerdictsInit == Init => VerdictsInv
<1> SUFFICES ASSUME Init PROVE VerdictsInv
  OBVIOUS
<1>1. VerificationTyped
  BY VerificationBounds DEF Init, Verified!Init, VerificationTyped, Verified!Outcome
<1>2. Len(cache) = 0
  BY DEF Init, Verified!Init
<1>3. AsksRight
  BY DEF Init, Verified!Init, AsksRight, AskRight, Verified!NoAsk
<1> QED BY <1>1, <1>2, <1>3 DEF VerdictsInv, EntriesRight

\* A verdict that is given now is right.
VerdictGiven ==
  \A v \in Verifiers : asks'[v] # asks[v] /\ asks'[v].pc = "done" =>
    LET k == asks'[v].claim IN
    /\ asks'[v].verdict = "true"  => Verified!Paid(k)
    /\ asks'[v].verdict = "false" /\ Verified!Paid(k) => time - since[TxOf[k]] < NegativeTTL

\* A call goes on, undecided or with a right verdict.
LEMMA CallStep ==
  ASSUME VerdictsInv, NEW v \in Verifiers, NEW ask \in Ask, AskRight(ask),
         Verified!Becomes(v, ask), UNCHANGED <<time, shown, since>>,
         cache' = cache \/ (cache' \in Seq(Entry) /\ Len(cache') <= CacheSize /\ EntriesRight'),
         ask.pc = "done" =>
           /\ ask.verdict = "true" => Verified!Paid(ask.claim)
           /\ ask.verdict = "false" /\ Verified!Paid(ask.claim) =>
                time - since[TxOf[ask.claim]] < NegativeTTL
  PROVE  VerdictsInv' /\ VerdictGiven
<1>1. asks' \in [Verifiers -> Ask \cup {Verified!NoAsk}] /\ AsksRight'
  BY CallGoesOn
<1>2. cache' \in Seq(Entry) /\ Len(cache') <= CacheSize /\ EntriesRight'
  BY CacheStays DEF VerdictsInv, VerificationTyped
<1>3. VerdictsInv'
  BY <1>1, <1>2 DEF VerdictsInv, VerificationTyped
<1>4. asks'[v] = ask /\ \A w \in Verifiers \ {v} : asks'[w] = asks[w]
  BY DEF VerdictsInv, VerificationTyped, Verified!Becomes
<1> QED BY <1>3, <1>4 DEF VerdictGiven

\* Every step of the verification keeps the invariant, and gives right verdicts only.
LEMMA VerdictsStep ==
  ASSUME VerdictsInv, Verified!Next
  PROVE  VerdictsInv' /\ VerdictGiven
<1> USE VerificationBounds DEF VerdictsInv
<1>1. NegativeTTL \in Nat \ {0} /\ PageOf \in [Claims -> 0..LastPage]
  BY PaymentFlowAssumption DEF PaymentFlowAssumption, Verified!VerificationAssumption
<1>2. CASE Verified!Pass
  <2>1. time < MaxTime /\ time' = time + 1 /\ UNCHANGED <<shown, since, cache, asks>>
        /\ \A v \in Verifiers : asks[v].pc # "answer"
    BY <1>2 DEF Verified!Pass
  <2>2. VerificationTyped'
    BY <2>1 DEF VerificationTyped
  <2>3. EntriesRight'
    <3>1. ASSUME NEW i \in 1..Len(cache) PROVE EntryRight(cache[i])'
      <4>1. EntryRight(cache[i]) /\ cache[i].timestamp \in Nat
        <5>1. cache[i] \in Entry
          BY DEF VerificationTyped
        <5> QED BY <5>1 DEF EntriesRight, Entry
      <4> QED BY <2>1, <4>1 DEF EntryRight, Verified!Paid, VerificationTyped
    <3> QED BY <2>1, <3>1 DEF EntriesRight
  <2>4. AsksRight'
    BY <2>1 DEF AsksRight, AskRight, Succeeded
  <2> QED BY <2>1, <2>2, <2>3, <2>4 DEF VerdictGiven
<1>3. CASE Verified!Restart
  <2>1. cache' = <<>> /\ UNCHANGED <<time, shown, since>>
        /\ asks' = [v \in Verifiers |-> Verified!NoAsk]
    BY <1>3 DEF Verified!Restart
  <2>2. cache' \in Seq(Entry) /\ Len(cache') = 0
    BY <2>1
  <2>3. \A v \in Verifiers : asks'[v].pc = "idle"
    BY <2>1 DEF Verified!NoAsk
  <2> QED BY <2>1, <2>2, <2>3 DEF VerificationTyped, EntriesRight, AsksRight, AskRight, VerdictGiven
<1>4. ASSUME NEW t \in Verified!Txs, Verified!Show(t) PROVE VerdictsInv' /\ VerdictGiven
  <2>1. /\ shown[t] = "absent" /\ UNCHANGED <<time, cache, asks>>
        /\ shown' \in [Verified!Txs -> Verified!Outcome]
        /\ \A u \in Verified!Txs \ {t} : shown'[u] = shown[u] /\ since'[u] = since[u]
        /\ since'[t] = time /\ since' \in [Verified!Txs -> Nat]
    BY <1>4 DEF Verified!Show, VerificationTyped, Verified!Outcome
  <2>2. VerificationTyped'
    BY <2>1 DEF VerificationTyped
  <2>3. EntriesRight'
    <3>1. ASSUME NEW i \in 1..Len(cache) PROVE EntryRight(cache[i])'
      <4>1. EntryRight(cache[i]) /\ cache[i] \in Entry /\ TxOf[cache[i].claim] \in Verified!Txs
        <5>1. cache[i] \in Entry
          BY DEF VerificationTyped
        <5> QED BY <5>1, TxIs DEF EntriesRight, Entry
      <4>2. CASE TxOf[cache[i].claim] = t
        BY <2>1, <4>1, <4>2 DEF EntryRight, Verified!Paid
      <4>3. CASE TxOf[cache[i].claim] # t
        BY <2>1, <4>1, <4>3 DEF EntryRight, Verified!Paid
      <4> QED BY <4>2, <4>3
    <3> QED BY <2>1, <3>1 DEF EntriesRight
  <2>4. AsksRight'
    <3>1. ASSUME NEW v \in Verifiers, asks[v].pc \in {"answer", "scan"} PROVE AskRight(asks[v])'
      <4>1. AskRight(asks[v]) /\ TxOf[asks[v].claim] \in Verified!Txs
        BY <3>1, CallIs, TxIs DEF AsksRight
      <4>2. CASE TxOf[asks[v].claim] = t
        BY <2>1, <4>1, <4>2 DEF AskRight, Succeeded
      <4>3. CASE TxOf[asks[v].claim] # t
        BY <2>1, <4>1, <4>3 DEF AskRight, Succeeded
      <4> QED BY <4>2, <4>3
    <3> QED BY <2>1, <3>1 DEF AsksRight, AskRight
  <2> QED BY <2>1, <2>2, <2>3, <2>4 DEF VerdictGiven
<1>5. ASSUME NEW v \in Verifiers, NEW k \in Claims, Verified!Verify(v, k)
      PROVE  VerdictsInv' /\ VerdictGiven
  <2>1. UNCHANGED <<time, shown, since, cache>>
    BY <1>5 DEF Verified!Verify
  <2>2. CASE Verified!Becomes(v, Verified!Asked(k))
    <3>1. AskRight(Verified!Asked(k))
      BY AskedIs DEF AskRight
    <3> QED BY <2>1, <2>2, <3>1, AskedIs, CallStep
  <2>3. ASSUME NEW e \in Verified!Cached(k),
               Verified!Becomes(v, Ended(k, IF e.result THEN "true" ELSE "false"))
        PROVE  VerdictsInv' /\ VerdictGiven
    <3> DEFINE ask == Ended(k, IF e.result THEN "true" ELSE "false")
    <3>1. e.claim = k /\ EntryRight(e) /\ Verified!Live(e) /\ e \in Entry
      BY FoundIs
    <3>2. ask \in Ask /\ AskRight(ask) /\ ask.claim = k
          /\ ask.verdict = IF e.result THEN "true" ELSE "false"
      BY EndIs DEF Verified!Verdict
    <3>3. e.result => Verified!Paid(k)
      BY <3>1 DEF EntryRight
    <3>4. ~e.result /\ Verified!Paid(k) => time - since[TxOf[k]] < NegativeTTL
      BY <1>1, <3>1, TxIs DEF EntryRight, Verified!Live, Entry, VerificationTyped
    <3>5. Verified!Becomes(v, ask)
      BY <2>3
    <3>6. e.result \in BOOLEAN
      BY <3>1 DEF Entry
    <3> HIDE DEF ask
    <3> QED BY <2>1, <3>2, <3>3, <3>4, <3>5, <3>6, CallStep
  <2> QED BY <1>5, <2>2, <2>3 DEF Verified!Verify, Ended
<1>6. ASSUME NEW v \in Verifiers,
             Verified!Request(v) \/ Verified!AskAgain(v)
      PROVE  VerdictsInv' /\ VerdictGiven
  <2>1. asks[v] \in Ask /\ asks[v].claim \in Claims /\ TxOf[asks[v].claim] \in Verified!Txs
    BY <1>6, CallIs, TxIs DEF Verified!Request, Verified!AskAgain, Verified!Waits
  <2>2. CASE Verified!Request(v)
    <3> DEFINE ask == [asks[v] EXCEPT !.pc = "answer", !.got = shown[TxOf[asks[v].claim]]]
    <3>1. ask \in Ask /\ ask.pc = "answer" /\ ask.got = shown[TxOf[ask.claim]]
      BY <2>1 DEF Ask, VerificationTyped
    <3>2. AskRight(ask)
      BY <3>1 DEF AskRight, Succeeded
    <3>3. Verified!Becomes(v, ask) /\ UNCHANGED <<time, shown, since, cache>>
      BY <2>2 DEF Verified!Request
    <3> HIDE DEF ask
    <3> QED BY <3>1, <3>2, <3>3, CallStep
  <2>3. CASE Verified!AskAgain(v)
    <3> DEFINE ask == [asks[v] EXCEPT !.pc = "request"]
    <3>1. ask \in Ask /\ ask.pc = "request"
      BY <2>1 DEF Ask
    <3>2. Verified!Becomes(v, ask) /\ UNCHANGED <<time, shown, since, cache>>
      BY <2>3 DEF Verified!AskAgain
    <3> HIDE DEF ask
    <3> QED BY <3>1, <3>2, CallStep DEF AskRight
  <2> QED BY <1>6, <2>2, <2>3
<1>7. ASSUME NEW v \in Verifiers, Verified!TakeAnswer(v) PROVE VerdictsInv' /\ VerdictGiven
  <2>1. /\ asks[v] \in Ask /\ asks[v].claim \in Claims /\ TxOf[asks[v].claim] \in Verified!Txs
        /\ asks[v].pc = "answer" /\ UNCHANGED <<time, shown, since>> /\ AskRight(asks[v])
    BY <1>7, CallIs, TxIs DEF Verified!TakeAnswer, Verified!Waits, AsksRight
  <2>2. CASE asks[v].got = "successful"
    <3> DEFINE ask == [asks[v] EXCEPT !.pc = "scan", !.got = "absent"]
    <3>1. ask \in Ask /\ ask.pc = "scan" /\ ask.claim = asks[v].claim
      BY <2>1 DEF Ask, Verified!Outcome
    <3>2. AskRight(ask)
      BY <2>1, <2>2, <3>1 DEF AskRight
    <3>3. Verified!Becomes(v, ask) /\ UNCHANGED cache
      BY <1>7, <2>2 DEF Verified!TakeAnswer
    <3> HIDE DEF ask
    <3> QED BY <2>1, <3>1, <3>2, <3>3, CallStep
  <2>3. CASE asks[v].got # "successful"
    <3> DEFINE k == asks[v].claim
    <3>1. Verified!SetEntry(k, FALSE) /\ Verified!Becomes(v, Ended(k, "false"))
      BY <1>7, <2>3 DEF Verified!TakeAnswer, Verified!Ends, Ended
    <3>2. Succeeded(k) => since[TxOf[k]] = time
      BY <2>1, <2>3 DEF AskRight
    <3>3. EntryRight([claim |-> k, result |-> FALSE, timestamp |-> time])
      BY <2>1, <3>2 DEF EntryRight, Verified!Paid, Succeeded, VerificationTyped
    <3>4. cache' \in Seq(Entry) /\ Len(cache') <= CacheSize /\ EntriesRight'
      BY <2>1, <3>1, <3>3, RightEntrySet
    <3>5. Verified!Paid(k) => time - since[TxOf[k]] < NegativeTTL
      BY <1>1, <2>1, <3>2 DEF Verified!Paid, Succeeded, VerificationTyped
    <3>6. Ended(k, "false") \in Ask /\ AskRight(Ended(k, "false"))
          /\ Ended(k, "false").claim = k /\ Ended(k, "false").verdict = "false"
      BY <2>1, EndIs DEF Verified!Verdict
    <3> HIDE DEF k
    <3> QED BY <2>1, <3>1, <3>4, <3>5, <3>6, CallStep
  <2> QED BY <2>2, <2>3
<1>8. ASSUME NEW v \in Verifiers, Verified!Scan(v) PROVE VerdictsInv' /\ VerdictGiven
  <2>1. /\ asks[v] \in Ask /\ asks[v].claim \in Claims
        /\ asks[v].pc = "scan" /\ UNCHANGED <<time, shown, since>> /\ AskRight(asks[v])
    BY <1>8, CallIs DEF Verified!Scan, Verified!Waits, AsksRight
  <2>2. CASE asks[v].page = PageOf[asks[v].claim]
    <3> DEFINE k == asks[v].claim
    <3>1. Verified!SetEntry(k, TRUE) /\ Verified!Becomes(v, Ended(k, "true"))
      BY <1>8, <2>2 DEF Verified!Scan, Verified!Ends, Ended
    <3>2. Verified!Paid(k)
      BY <2>1, <2>2 DEF AskRight, Succeeded, Verified!Paid, Ask
    <3>3. EntryRight([claim |-> k, result |-> TRUE, timestamp |-> time])
      BY <3>2 DEF EntryRight, VerificationTyped
    <3>4. cache' \in Seq(Entry) /\ Len(cache') <= CacheSize /\ EntriesRight'
      BY <2>1, <3>1, <3>3, RightEntrySet
    <3>5. Ended(k, "true") \in Ask /\ AskRight(Ended(k, "true"))
          /\ Ended(k, "true").claim = k /\ Ended(k, "true").verdict = "true"
      BY <2>1, EndIs DEF Verified!Verdict
    <3> HIDE DEF k
    <3> QED BY <2>1, <3>1, <3>2, <3>4, <3>5, CallStep
  <2>3. CASE asks[v].page # PageOf[asks[v].claim]
    <3> DEFINE n   == asks[v].page
               ask == [asks[v] EXCEPT !.page = IF n <= LastPage THEN n + 1 ELSE n]
    <3>1. ask \in Ask /\ ask.pc = "scan" /\ ask.claim = asks[v].claim
      BY <2>1 DEF Ask
    <3>2. AskRight(ask)
      BY <2>1, <3>1 DEF AskRight
    <3>3. Verified!Becomes(v, ask) /\ UNCHANGED cache
      BY <1>8, <2>3 DEF Verified!Scan
    <3> HIDE DEF ask
    <3> QED BY <2>1, <3>1, <3>2, <3>3, CallStep
  <2> QED BY <2>2, <2>3
<1>9. ASSUME NEW v \in Verifiers, Verified!HorizonFails(v) PROVE VerdictsInv' /\ VerdictGiven
  <2>1. asks[v] \in Ask /\ asks[v].claim \in Claims /\ UNCHANGED <<time, shown, since, cache>>
    BY <1>9, CallIs DEF Verified!HorizonFails, Verified!Waits
  <2>2. CASE asks[v].attempt < Retries
    <3> DEFINE ask == [asks[v] EXCEPT !.pc = "wait", !.attempt = @ + 1, !.page = 1, !.got = "absent"]
    <3>1. ask \in Ask /\ ask.pc = "wait"
      <4>1. asks[v].attempt + 1 \in 1..Retries
        BY <2>1, <2>2 DEF Ask
      <4> QED BY <2>1, <4>1, WaitIs
    <3>2. Verified!Becomes(v, ask)
      BY <1>9, <2>2 DEF Verified!HorizonFails
    <3> HIDE DEF ask
    <3> QED BY <2>1, <3>1, <3>2, CallStep DEF AskRight
  <2>3. CASE ~(asks[v].attempt < Retries)
    <3> DEFINE k == asks[v].claim
    <3>1. Verified!Becomes(v, Ended(k, "error"))
      BY <1>9, <2>3 DEF Verified!HorizonFails, Verified!Ends, Ended
    <3>2. Ended(k, "error") \in Ask /\ AskRight(Ended(k, "error"))
          /\ Ended(k, "error").verdict = "error"
      BY <2>1, EndIs DEF Verified!Verdict
    <3> HIDE DEF k
    <3> QED BY <2>1, <3>1, <3>2, CallStep
  <2> QED BY <2>2, <2>3
<1> QED BY <1>2, <1>3, <1>4, <1>5, <1>6, <1>7, <1>8, <1>9 DEF Verified!Next

\* Every step of the flow does.
LEMMA FlowVerdicts ==
  ASSUME VerdictsInv, [Next]_vars
  PROVE  VerdictsInv' /\ [VerdictGiven]_(Verified!verificationVars)
<1>1. CASE VerificationStep
  BY <1>1, VerdictsStep DEF VerificationStep
<1>2. CASE WebhookStep \/ BadgeStep \/ UNCHANGED vars
  <2>1. UNCHANGED <<time, shown, since, cache, asks>>
    BY <1>2 DEF WebhookStep, BadgeStep, vars, verificationVars
  <2>2. VerdictsInv'
    BY <2>1 DEF VerdictsInv, VerificationTyped, EntriesRight, EntryRight, Verified!Paid,
       AsksRight, AskRight, Succeeded
  <2> QED BY <2>1, <2>2 DEF Verified!verificationVars
<1> QED BY <1>1, <1>2 DEF Next

\* A payment that is confirmed was made as claimed, and one that is denied had not been
\* made NegativeTTL ago (verify-transaction.ts 10-11, 167-201): for any claims, calls,
\* pages, retries, lifetimes and size of the cache.
THEOREM Verdicts == Spec => VerdictIsRight
<1>1. VerdictsInv /\ [Next]_vars => VerdictsInv' /\ [VerdictGiven]_(Verified!verificationVars)
  BY FlowVerdicts
<1>2. [VerdictGiven]_(Verified!verificationVars) =>
      [\A v \in Verifiers : asks'[v] # asks[v] /\ asks'[v].pc = "done" =>
         LET k == asks'[v].claim IN
         /\ asks'[v].verdict = "true"  => Verified!Paid(k)
         /\ asks'[v].verdict = "false" /\ Verified!Paid(k) =>
              time - since[TxOf[k]] < NegativeTTL]_(Verified!verificationVars)
  BY DEF VerdictGiven
<1> QED BY <1>1, <1>2, VerdictsInit, PTL DEF Spec, VerdictIsRight, Verified!VerdictIsRight

-----------------------------------------------------------------------------
(* Badges.                                                                 *)

\* All that a check has found or inserted was earned when it looked.
CheckDeserved(check) ==
  Awards!EarnedBy(check.counted) \cup check.missing \cup check.inserted \subseteq deserved

\* The inductive invariant of the badges: what is earned now is deserved, and so is what
\* the checks under way are to give.
BadgesInv ==
  /\ Awards!TypeOK /\ Awards!BadgesAreDeserved
  /\ Awards!EarnedBy(payments) \subseteq deserved
  /\ reached => MilestoneBadges \subseteq deserved
  /\ \A c \in Awards!Checker : CheckDeserved(checks[c])

\* No payment, no badge.
LEMMA NothingIsEarned == Awards!EarnedBy(0) = {}
  BY PaymentFlowAssumption DEF PaymentFlowAssumption, Awards!BadgesAssumption, Awards!EarnedBy

\* A check that does not run has nothing to give; one that begins, neither.
LEMMA IdleIs ==
  /\ Awards!Idle \in Awards!Check /\ CheckDeserved(Awards!Idle)
  /\ [Awards!Idle EXCEPT !.pc = "lock"] \in Awards!Check
  /\ CheckDeserved([Awards!Idle EXCEPT !.pc = "lock"])
<1>1. MaxPayments \in Nat
  BY PaymentFlowAssumption DEF PaymentFlowAssumption, Awards!BadgesAssumption
<1>2. /\ Awards!Idle \in Awards!Check
      /\ Awards!Idle.counted = 0 /\ Awards!Idle.missing = {} /\ Awards!Idle.inserted = {}
  BY <1>1 DEF Awards!Idle, Awards!Check
<1> DEFINE idle  == Awards!Idle
           begun == [idle EXCEPT !.pc = "lock"]
<1>3. idle \in Awards!Check /\ idle.counted = 0 /\ idle.missing = {} /\ idle.inserted = {}
  BY <1>2
<1> HIDE DEF idle
<1>4. begun \in Awards!Check /\ begun.counted = 0 /\ begun.missing = {} /\ begun.inserted = {}
  BY <1>3 DEF Awards!Check
<1> HIDE DEF begun
<1>5. CheckDeserved(idle) /\ CheckDeserved(begun)
  BY <1>3, <1>4, NothingIsEarned DEF CheckDeserved
<1> QED BY <1>3, <1>4, <1>5 DEF idle, begun

\* A check goes on with what is deserved, and what it commits is deserved.
LEMMA CheckGoesOn ==
  ASSUME BadgesInv, NEW c \in Awards!Checker, NEW check \in Awards!Check,
         CheckDeserved(check), Awards!Go(c, check),
         UNCHANGED <<payments, reached, deserved>>,
         held' \subseteq deserved, events' \in 0..MaxBadgeEvents
  PROVE  BadgesInv'
<1>1. checks' \in [Awards!Checker -> Awards!Check]
  BY DEF BadgesInv, Awards!TypeOK, Awards!Go
<1>2. \A d \in Awards!Checker : CheckDeserved(checks'[d])
  BY DEF BadgesInv, Awards!TypeOK, Awards!Go
<1>3. Awards!TypeOK' /\ Awards!BadgesAreDeserved'
  BY <1>1 DEF BadgesInv, Awards!TypeOK, Awards!BadgesAreDeserved
<1> QED BY <1>2, <1>3 DEF BadgesInv, CheckDeserved

\* What is deserved grows, with the payments, the milestone and the admin's gifts.
LEMMA DeservedGrows ==
  ASSUME BadgesInv, deserved \subseteq deserved', deserved' \subseteq Awards!Badge,
         payments' \in 0..MaxPayments, Awards!EarnedBy(payments') \subseteq deserved',
         reached' \in BOOLEAN, reached' => MilestoneBadges \subseteq deserved',
         held' \subseteq deserved', events' \in 0..MaxBadgeEvents,
         \/ UNCHANGED checks
         \/ \E c \in Awards!Checker : Awards!Go(c, [Awards!Idle EXCEPT !.pc = "lock"])
  PROVE  BadgesInv'
<1>1. /\ checks' \in [Awards!Checker -> Awards!Check]
      /\ \A d \in Awards!Checker : CheckDeserved(checks'[d])
  <2>1. CASE UNCHANGED checks
    BY <2>1 DEF BadgesInv, Awards!TypeOK
  <2>2. ASSUME NEW c \in Awards!Checker, Awards!Go(c, [Awards!Idle EXCEPT !.pc = "lock"])
        PROVE  /\ checks' \in [Awards!Checker -> Awards!Check]
               /\ \A d \in Awards!Checker : CheckDeserved(checks'[d])
    <3> DEFINE begun == [Awards!Idle EXCEPT !.pc = "lock"]
    <3>1. begun \in Awards!Check /\ CheckDeserved(begun)
      BY IdleIs
    <3>2. checks' = [checks EXCEPT ![c] = begun]
      BY <2>2 DEF Awards!Go
    <3> HIDE DEF begun
    <3> QED BY <3>1, <3>2 DEF BadgesInv, Awards!TypeOK
  <2> QED BY <2>1, <2>2
<1>2. \A d \in Awards!Checker : CheckDeserved(checks[d])'
  BY <1>1 DEF CheckDeserved
<1>3. Awards!TypeOK' /\ Awards!BadgesAreDeserved'
  BY <1>1 DEF BadgesInv, Awards!TypeOK, Awards!BadgesAreDeserved
<1> QED BY <1>2, <1>3 DEF BadgesInv, Awards!EarnedBy

\* In the initial state nothing is earned, and nothing given.
LEMMA BadgesInit == ASSUME Init PROVE BadgesInv
<1>1. MaxPayments \in Nat /\ MaxBadgeEvents \in Nat
  BY PaymentFlowAssumption DEF PaymentFlowAssumption, Awards!BadgesAssumption
<1>2. Awards!TypeOK
  <2>1. Awards!Idle \in Awards!Check
    BY IdleIs
  <2>2. checks \in [Awards!Checker -> Awards!Check]
    BY <2>1 DEF Init, Awards!Init
  <2>3. payments = 0 /\ held = {} /\ deserved = {} /\ events = 0
    BY DEF Init, Awards!Init
  <2>4. reached \in BOOLEAN
    BY DEF Init, Awards!Init
  <2>5. payments \in 0..MaxPayments /\ events \in 0..MaxBadgeEvents
    BY <1>1, <2>3
  <2> QED BY <2>2, <2>3, <2>4, <2>5 DEF Awards!TypeOK
<1>3. \A c \in Awards!Checker : CheckDeserved(checks[c])
  BY IdleIs DEF Init, Awards!Init
<1> QED BY <1>2, <1>3, NothingIsEarned DEF Init, Awards!Init, BadgesInv, Awards!BadgesAreDeserved

\* Every step of a check keeps the invariant.
LEMMA CheckKeeps ==
  ASSUME BadgesInv, NEW c \in Awards!Checker, Awards!CheckStep(c) \/ Awards!CheckFails(c)
  PROVE  BadgesInv'
<1> DEFINE k == checks[c]
<1>1. /\ k \in Awards!Check /\ CheckDeserved(k) /\ checks[c] = k
      /\ held \subseteq deserved /\ events \in 0..MaxBadgeEvents /\ MaxBadgeEvents \in Nat
      /\ payments \in 0..MaxPayments /\ Awards!EarnedBy(payments) \subseteq deserved
      /\ held \subseteq Awards!Badge /\ deserved \subseteq Awards!Badge
      /\ reached => MilestoneBadges \subseteq deserved
  BY PaymentFlowAssumption
     DEF PaymentFlowAssumption, Awards!BadgesAssumption, BadgesInv, Awards!TypeOK,
         Awards!BadgesAreDeserved
<1> HIDE DEF k
<1>2. CASE Awards!Lock(c)
  <2>1. [k EXCEPT !.pc = "awards"] \in Awards!Check /\ CheckDeserved([k EXCEPT !.pc = "awards"])
    BY <1>1 DEF Awards!Check, CheckDeserved
  <2> QED BY <1>1, <1>2, <2>1, CheckGoesOn DEF Awards!Lock
<1>3. CASE Awards!ReadAwards(c)
  <2> DEFINE after == [k EXCEPT !.pc = "payments", !.seen = held]
  <2>1. after \in Awards!Check /\ CheckDeserved(after)
    BY <1>1 DEF Awards!Check, CheckDeserved
  <2>2. Awards!Go(c, after) \/ Awards!Go(c, Awards!Idle)
    BY <1>1, <1>3 DEF Awards!ReadAwards
  <2> HIDE DEF after
  <2> QED BY <1>1, <1>3, <2>1, <2>2, IdleIs, CheckGoesOn DEF Awards!ReadAwards
<1>4. CASE Awards!CountPayments(c)
  <2> DEFINE after == [k EXCEPT !.pc = "milestones", !.counted = payments]
  <2>1. after \in Awards!Check /\ CheckDeserved(after)
    BY <1>1 DEF Awards!Check, CheckDeserved
  <2>2. Awards!Go(c, after)
    BY <1>1, <1>4 DEF Awards!CountPayments
  <2> HIDE DEF after
  <2> QED BY <1>1, <1>4, <2>1, <2>2, CheckGoesOn DEF Awards!CountPayments
<1>5. CASE Awards!CountMilestones(c)
  <2> DEFINE missing == Awards!Awardable(c)
             after   == [k EXCEPT !.pc = "insert", !.missing = missing]
  <2>1. missing \subseteq deserved
    BY <1>1 DEF Awards!Awardable, CheckDeserved
  <2>2. Awards!Go(c, after)
    BY <1>1, <1>5 DEF Awards!CountMilestones
  <2> HIDE DEF missing
  <2>3. after \in Awards!Check /\ CheckDeserved(after)
    BY <1>1, <2>1 DEF Awards!Check, CheckDeserved
  <2> HIDE DEF after
  <2> QED BY <1>1, <1>5, <2>2, <2>3, CheckGoesOn DEF Awards!CountMilestones
<1>6. ASSUME NEW b \in Awards!Badge, Awards!Insert(c, b) PROVE BadgesInv'
  <2> DEFINE lost  == [k EXCEPT !.missing = @ \ {b}, !.aborted = TRUE]
             added == [k EXCEPT !.missing = @ \ {b}, !.inserted = @ \cup {b}]
  <2>1. lost \in Awards!Check /\ CheckDeserved(lost)
    BY <1>1 DEF Awards!Check, CheckDeserved
  <2>2. b \in k.missing
    BY <1>1, <1>6 DEF Awards!Insert
  <2>3. added \in Awards!Check /\ CheckDeserved(added)
    BY <1>1, <2>2 DEF Awards!Check, CheckDeserved
  <2>4. Awards!Go(c, lost) \/ Awards!Go(c, added) \/ Awards!Go(c, Awards!Idle)
    BY <1>1, <1>6 DEF Awards!Insert
  <2> HIDE DEF lost, added
  <2> QED BY <1>1, <1>6, <2>1, <2>3, <2>4, IdleIs, CheckGoesOn DEF Awards!Insert
<1>7. CASE Awards!Commit(c)
  <2>1. held' \subseteq deserved
    BY <1>1, <1>7 DEF Awards!Commit, CheckDeserved
  <2> QED BY <1>1, <1>7, <2>1, IdleIs, CheckGoesOn DEF Awards!Commit
<1>8. CASE Awards!CheckFails(c)
  BY <1>1, <1>8, IdleIs, CheckGoesOn DEF Awards!CheckFails, Awards!Event
<1> QED BY <1>2, <1>3, <1>4, <1>5, <1>6, <1>7, <1>8 DEF Awards!CheckStep

\* Every step of the badges does.
LEMMA BadgesStep == ASSUME BadgesInv, Awards!Next PROVE BadgesInv'
<1>1. /\ MaxPayments \in Nat /\ MaxBadgeEvents \in Nat
      /\ HourlyCheck \in Awards!Checker /\ Checks \subseteq Awards!Checker
  BY PaymentFlowAssumption
     DEF PaymentFlowAssumption, Awards!BadgesAssumption, Awards!Checker
<1> USE DEF BadgesInv, Awards!TypeOK, Awards!BadgesAreDeserved
<1>2. CASE Awards!Pay
  <2>1. payments' \in 0..MaxPayments /\ deserved' = deserved \cup Awards!EarnedBy(payments')
    BY <1>1, <1>2 DEF Awards!Pay
  <2>2. deserved' \subseteq Awards!Badge
    BY <2>1 DEF Awards!EarnedBy, Awards!Badge
  <2>3. \/ UNCHANGED checks
        \/ \E c \in Awards!Checker : Awards!Go(c, [Awards!Idle EXCEPT !.pc = "lock"])
    BY <1>1, <1>2 DEF Awards!Pay
  <2> QED BY <1>2, <2>1, <2>2, <2>3, DeservedGrows DEF Awards!Pay
<1>3. CASE Awards!Milestone
  <2>1. /\ deserved \subseteq deserved' /\ deserved' \subseteq Awards!Badge
        /\ reached' \in BOOLEAN /\ (reached' => MilestoneBadges \subseteq deserved')
    BY <1>3 DEF Awards!Milestone, Awards!Badge
  <2> QED BY <1>1, <1>3, <2>1, DeservedGrows DEF Awards!Milestone, Awards!Event
<1>4. CASE Awards!Visit
  BY <1>1, <1>4, DeservedGrows DEF Awards!Visit
<1>5. ASSUME NEW b \in Awards!Badge, Awards!Assign(b) PROVE BadgesInv'
  BY <1>1, <1>5, DeservedGrows DEF Awards!Assign, Awards!Event
<1>6. ASSUME NEW b \in Awards!Badge, Awards!RevokeBadge(b) PROVE BadgesInv'
  BY <1>1, <1>6, DeservedGrows DEF Awards!RevokeBadge, Awards!Event
<1> QED BY <1>2, <1>3, <1>4, <1>5, <1>6, CheckKeeps DEF Awards!Next

\* Every step of the flow does.
LEMMA FlowBadges == ASSUME BadgesInv, [Next]_vars PROVE BadgesInv'
<1>1. CASE BadgeStep
  BY <1>1, BadgesStep DEF BadgeStep
<1>2. CASE VerificationStep \/ WebhookStep \/ UNCHANGED vars
  <2>1. UNCHANGED badgeVars
    BY <1>2 DEF VerificationStep, WebhookStep, vars
  <2> QED BY <2>1 DEF badgeVars, BadgesInv, Awards!TypeOK, Awards!BadgesAreDeserved, CheckDeserved
<1> QED BY <1>1, <1>2 DEF Next

-----------------------------------------------------------------------------
(* The flow.                                                               *)

\* What the verification's types are short of.
LEMMA VerificationTypes == ASSUME VerificationTyped PROVE Verified!TypeOK
<1>1. \A v \in Verifiers : asks[v] # Verified!NoAsk => asks[v] \in Ask
  BY DEF VerificationTyped
<1> QED BY <1>1 DEF VerificationTyped, Verified!TypeOK, Entry, Ask

\* The cache of verdicts is well-formed and never too long; no row is delivered twice at
\* once, nor unseen; a badge on the profile was earned at some time, or given by the
\* admin (verify-transaction.ts 26-41, webhook-processor.ts 31-108, badge-awarder.ts
\* 45-95): for any claims, rows, replicas, badges and checks, when the deliveries' runs
\* write before the processing timeout and requeues do not overlap.
THEOREM Sound ==
  ASSUME PromptWrites, OneAdmin
  PROVE  Spec => []Inv
<1> DEFINE FlowInv == /\ part \in Parts
                      /\ VerdictsInv
                      /\ Webhooks!TypeOK /\ ClaimsInv
                      /\ BadgesInv
<1>1. Init => FlowInv
  BY VerdictsInit, DeliveriesInit, BadgesInit DEF Init
<1>2. FlowInv /\ [Next]_vars => FlowInv'
  <2>1. [Next]_vars => UNCHANGED part
    BY DEF Next, VerificationStep, WebhookStep, BadgeStep, vars
  <2> QED BY <2>1, FlowVerdicts, FlowDeliveries, FlowBadges
<1>3. FlowInv => Inv
  BY VerificationTypes DEF VerdictsInv, ClaimsInv, BadgesInv, Inv, Webhooks!Inv
<1> QED BY <1>1, <1>2, <1>3, PTL DEF Spec
=============================================================================
