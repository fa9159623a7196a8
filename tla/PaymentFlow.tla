----------------------------- MODULE PaymentFlow -----------------------------
(***************************************************************************)
(* What stands before and behind a recorded payment (POST                  *)
(* /support-transactions): its verification (Verification), the deliveries *)
(* of its webhooks (WebhookDelivery) and the badges it earns (Badges).     *)
(*                                                                         *)
(* The request waits for the verification, through the circuit breaker,    *)
(* and records the payment (SupportTransactions); the deliveries and the   *)
(* check of the badges are started and not waited for.  No part reads what *)
(* another writes, the tables and maps of the three being disjoint, and a  *)
(* part may be entered by a payment at any time: each is examined beside   *)
(* the others' beginning.                                                  *)
(***************************************************************************)
EXTENDS Integers, FiniteSets, Sequences

CONSTANTS
  Claims, TxOf, PageOf, LastPage, Verifiers, PositiveTTL, NegativeTTL, CacheSize,
  Retries, MaxTime,
  Delivery, Poller, SweepRequest, QueueWorker, Admin, UseQueue, PromptWrites,
  MaxAttempts, MaxRequeues, MaxLosses,
  PaymentBadges, MilestoneBadges, Needs, Checks, HourlyCheck, MaxPayments, MaxBadgeEvents

VARIABLES
  part,  \* the one that is examined
  time, shown, since, cache, asks,
  status, attemptCount, retryAt, stale, task, pc, stuck, job, adding, requeue,
  requeues, losses,
  payments, reached, held, checks, deserved, events

Verified == INSTANCE Verification
Webhooks == INSTANCE WebhookDelivery WITH Request <- SweepRequest
Awards   == INSTANCE Badges

ASSUME PaymentFlowAssumption ==
  Verified!VerificationAssumption /\ Webhooks!DeliveryAssumption /\ Awards!BadgesAssumption

verificationVars == <<time, shown, since, cache, asks>>
webhookVars      == <<status, attemptCount, retryAt, stale, task, pc, stuck, job,
                      adding, requeue, requeues, losses>>
badgeVars        == <<payments, reached, held, checks, deserved, events>>
vars             == <<part, verificationVars, webhookVars, badgeVars>>

Parts == {"verification", "webhooks", "badges"}

Init == part \in Parts /\ Verified!Init /\ Webhooks!Init /\ Awards!Init

VerificationStep ==
  part = "verification" /\ Verified!Next /\ UNCHANGED <<part, webhookVars, badgeVars>>
WebhookStep ==
  part = "webhooks" /\ Webhooks!Next /\ UNCHANGED <<part, verificationVars, badgeVars>>
BadgeStep ==
  part = "badges" /\ Awards!Next /\ UNCHANGED <<part, verificationVars, webhookVars>>

Next == VerificationStep \/ WebhookStep \/ BadgeStep

\* The sweeps of the deliveries keep starting, what was started keeps running, a request
\* is answered or cut off, and clocks advance.
WebhooksGoOn ==
  /\ \A p \in Poller : WF_webhookVars(part = "webhooks" /\ Webhooks!Sweep(p))
  /\ \A p \in SweepRequest : WF_webhookVars(part = "webhooks" /\ Webhooks!EndSweep(p))
  /\ \A p \in Poller \cup SweepRequest \cup {QueueWorker}, d \in Delivery :
       /\ WF_webhookVars(part = "webhooks" /\ Webhooks!Claim(p, d))
       /\ WF_webhookVars(/\ part = "webhooks"
                         /\ \E result \in Webhooks!Result : Webhooks!Finish(p, d, result))
  /\ \A d \in Delivery :
       /\ WF_webhookVars(part = "webhooks" /\ Webhooks!RetryComes(d))
       /\ WF_webhookVars(part = "webhooks" /\ Webhooks!GrowStale(d))

\* A check of the badges that runs goes on, and the sweep comes again.
BadgesGoOn ==
  /\ WF_badgeVars(part = "badges" /\ Awards!Visit)
  /\ \A c \in Checks \cup {HourlyCheck} : WF_badgeVars(part = "badges" /\ Awards!CheckStep(c))

Spec == Init /\ [][Next]_vars /\ WebhooksGoOn /\ BadgesGoOn

-----------------------------------------------------------------------------
\* The cache of verdicts is well-formed.  No row is delivered twice at once, nor unseen
\* (webhook-processor.ts 31-108).  A badge on the profile was earned at some time, or
\* given by the admin (badge-awarder.ts 45-95).
Inv ==
  /\ part \in Parts
  /\ part = "verification" => Verified!TypeOK
  /\ part = "webhooks"     => Webhooks!Inv
  /\ part = "badges"       => Awards!TypeOK /\ Awards!BadgesAreDeserved

\* A payment that is confirmed was made as claimed, and one that is denied had not been
\* made NegativeTTL ago (verify-transaction.ts 10-11, 167-201).
VerdictIsRight == Verified!VerdictIsRight

\* Every pending row can still be selected, now or later: it has a time to be retried at
\* and attempts left (webhook-processor.ts 183-193), whatever mixture of retries,
\* reclaims, requeues and jobs produced it.
PendingIsReachable == Webhooks!PendingIsReachable

\* A delivered row stays delivered until its webhook is deleted: no late write, reclaim
\* or requeue brings it back (webhook-processor.ts 54-83).
SuccessIsFinal == Webhooks!SuccessIsFinal

\* A row that is pending or being processed is settled in the end, runs that die and
\* requeues notwithstanding (webhook-processor.ts 31-174).
EventuallySettled == Webhooks!EventuallySettled

\* A badge that is earned and stays so is on the profile in the end, whatever failed,
\* was rolled back or revoked (badge-awarder.ts 108-115).
EarnedIsAwarded == part = "badges" => Awards!EarnedIsAwarded
=============================================================================
