------------------------------ MODULE HooksPage ------------------------------
(***************************************************************************)
(* The webhooks of the dashboard (app/dashboard/page.tsx) and their        *)
(* endpoints.  The page loads an empty list whatever the database holds:   *)
(* GET .../webhooks answers an array, and the page looks for its field     *)
(* "webhooks".  What it lists is what was added since.                     *)
(***************************************************************************)
EXTENDS Naturals, FiniteSets

CONSTANTS
  MaxHooks,        \* bound: webhooks ever made
  HookCap,         \* webhooks of a profile (10 in the code)
  MaxHookRequests  \* bound: requests of the page under way at once

Hooks     == 1 .. MaxHooks
HookSlots == 1 .. MaxHookRequests

HooksAssumption == MaxHooks \in Nat /\ HookCap \in Nat /\ MaxHookRequests \in Nat \ {0}

VARIABLES
  hookRows,           \* the webhooks in the database
  hooksMade,          \* the webhooks that have been created
  webhooks,           \* the list on the screen
  hookForm,           \* showWebhookForm, and the address is typed in
  webhookSubmitting,  \* the flag that disables the form's button
  newSecret,          \* newWebhookSecret: the webhook whose secret is shown, or 0
  expanded,           \* expandedDeliveries: the webhook that is unfolded, or 0
  deliveriesLoading,  \* the webhook that shows "Loading", or 0
  deliveries,         \* the webhooks whose deliveries have been fetched
  hookReqs            \* the requests under way, with the list their handlers remember

hookVars == <<hookRows, hooksMade, webhooks, hookForm, webhookSubmitting, newSecret,
              expanded, deliveriesLoading, deliveries, hookReqs>>

NoHookReq == [pc |-> "free", kind |-> "none", hook |-> 0, seen |-> {}]
HookInFlight == {q \in HookSlots : hookReqs[q].pc # "free"}

TypeOK ==
  /\ hookRows \subseteq Hooks /\ hooksMade \in 0 .. MaxHooks /\ webhooks \subseteq Hooks
  /\ hookForm \in BOOLEAN /\ webhookSubmitting \in BOOLEAN
  /\ {newSecret, expanded, deliveriesLoading} \subseteq Hooks \cup {0}
  /\ deliveries \subseteq Hooks
  /\ hookReqs \in [HookSlots -> [pc : {"free", "sent", "done"},
                                 kind : {"none", "add", "delete", "deliveries"},
                                 hook : Hooks \cup {0}, seen : SUBSET Hooks]]

\* The page has been loaded.
Init ==
  /\ hooksMade \in 0 .. MaxHooks /\ hookRows \in SUBSET (1 .. hooksMade) /\ webhooks = {}
  /\ hookForm = FALSE /\ webhookSubmitting = FALSE
  /\ newSecret = 0 /\ expanded = 0 /\ deliveriesLoading = 0 /\ deliveries = {}
  /\ hookReqs = [q \in HookSlots |-> NoHookReq]

-----------------------------------------------------------------------------
hookServerVars == <<hookRows, hooksMade>>
listVars       == <<webhooks, hookForm, webhookSubmitting, newSecret>>
deliveryVars   == <<expanded, deliveriesLoading, deliveries>>

HookRequest(q, kind, h) ==
  /\ hookReqs[q].pc = "free"
  /\ hookReqs' = [hookReqs EXCEPT ![q] =
                    [pc |-> "sent", kind |-> kind, hook |-> h, seen |-> webhooks]]

ToggleForm ==
  /\ hookForm' = ~hookForm
  /\ UNCHANGED <<hookServerVars, webhooks, webhookSubmitting, newSecret, deliveryVars, hookReqs>>

\* handleAddWebhook up to its fetch.
AddWebhook(q) ==
  /\ hookForm /\ ~webhookSubmitting
  /\ HookRequest(q, "add", 0) /\ webhookSubmitting' = TRUE
  /\ UNCHANGED <<hookServerVars, webhooks, hookForm, newSecret, deliveryVars>>

\* handleDeleteWebhook up to its fetch, after the bin and its "Confirm".
DeleteWebhook(q, h) ==
  /\ h \in webhooks /\ HookRequest(q, "delete", h)
  /\ UNCHANGED <<hookServerVars, listVars, deliveryVars>>

\* handleToggleDeliveries: folds the webhook, or unfolds it and asks.
FoldDeliveries(h) ==
  /\ h \in webhooks /\ expanded = h /\ expanded' = 0
  /\ UNCHANGED <<hookServerVars, listVars, deliveriesLoading, deliveries, hookReqs>>
UnfoldDeliveries(q, h) ==
  /\ h \in webhooks /\ expanded # h
  /\ expanded' = h /\ deliveriesLoading' = h
  /\ HookRequest(q, "deliveries", h)
  /\ UNCHANGED <<hookServerVars, listVars, deliveries>>

DismissSecret ==
  /\ newSecret # 0 /\ newSecret' = 0
  /\ UNCHANGED <<hookServerVars, webhooks, hookForm, webhookSubmitting, deliveryVars, hookReqs>>

-----------------------------------------------------------------------------
(* The endpoints.                                                           *)

HookAnswered(q, h) == hookReqs' = [hookReqs EXCEPT ![q].pc = "done", ![q].hook = h]

\* POST: counted and created in one Serializable transaction.
CreateHook(q) ==
  /\ hookReqs[q].pc = "sent" /\ hookReqs[q].kind = "add"
  /\ hooksMade < MaxHooks /\ Cardinality(hookRows) < HookCap
  /\ hooksMade' = hooksMade + 1 /\ hookRows' = hookRows \cup {hooksMade + 1}
  /\ HookAnswered(q, hooksMade + 1)
  /\ UNCHANGED <<listVars, deliveryVars>>

RemoveHook(q) ==
  /\ hookReqs[q].pc = "sent" /\ hookReqs[q].kind = "delete" /\ hookReqs[q].hook \in hookRows
  /\ hookRows' = hookRows \ {hookReqs[q].hook}
  /\ HookAnswered(q, hookReqs[q].hook)
  /\ UNCHANGED <<hooksMade, listVars, deliveryVars>>

ListDeliveries(q) ==
  /\ hookReqs[q].pc = "sent" /\ hookReqs[q].kind = "deliveries"
  /\ hookReqs[q].hook \in hookRows
  /\ HookAnswered(q, hookReqs[q].hook)
  /\ UNCHANGED <<hookServerVars, listVars, deliveryVars>>

-----------------------------------------------------------------------------
(* The answers.                                                             *)

HookFinish(q) == hookReqs' = [hookReqs EXCEPT ![q] = NoHookReq]

Added(q) ==
  /\ hookReqs[q].pc = "done" /\ hookReqs[q].kind = "add" /\ HookFinish(q)
  /\ webhooks' = hookReqs[q].seen \cup {hookReqs[q].hook}
  /\ newSecret' = hookReqs[q].hook /\ hookForm' = FALSE /\ webhookSubmitting' = FALSE
  /\ UNCHANGED <<hookServerVars, deliveryVars>>

Deleted(q) ==
  /\ hookReqs[q].pc = "done" /\ hookReqs[q].kind = "delete" /\ HookFinish(q)
  /\ webhooks' = hookReqs[q].seen \ {hookReqs[q].hook}
  /\ UNCHANGED <<hookServerVars, hookForm, webhookSubmitting, newSecret, deliveryVars>>

\* Fault seeded for the checks: the spinner is stopped by an answer that is ok only.
SpinUntilOk(q, ok) == deliveriesLoading' = IF ok THEN 0 ELSE deliveriesLoading
\* finally: whichever webhook it is for, an answer stops the spinner.
StopSpinner(q, ok) == deliveriesLoading' = 0

\* The answer goes to its own webhook, folded or not.
DeliveriesListed(q) ==
  /\ hookReqs[q].pc = "done" /\ hookReqs[q].kind = "deliveries" /\ HookFinish(q)
  /\ deliveries' = deliveries \cup {hookReqs[q].hook} /\ StopSpinner(q, TRUE)
  /\ UNCHANGED <<hookServerVars, listVars, expanded>>

\* Refused, or the answer is lost: a toast, but silence for deliveries.
HookFails(q) ==
  /\ hookReqs[q].pc # "free" /\ HookFinish(q)
  /\ webhookSubmitting' = (webhookSubmitting /\ hookReqs[q].kind # "add")
  /\ IF hookReqs[q].kind = "deliveries" THEN StopSpinner(q, FALSE)
     ELSE UNCHANGED deliveriesLoading
  /\ UNCHANGED <<hookServerVars, webhooks, hookForm, newSecret, expanded, deliveries>>

-----------------------------------------------------------------------------
Next ==
  \/ ToggleForm \/ DismissSecret
  \/ \E h \in Hooks : FoldDeliveries(h)
  \/ \E q \in HookSlots : \/ AddWebhook(q) \/ CreateHook(q) \/ RemoveHook(q)
                          \/ ListDeliveries(q) \/ Added(q) \/ Deleted(q)
                          \/ DeliveriesListed(q) \/ HookFails(q)
                          \/ \E h \in Hooks : DeleteWebhook(q, h) \/ UnfoldDeliveries(q, h)

Spec == Init /\ [][Next]_hookVars

-----------------------------------------------------------------------------
(* Properties.                                                              *)

\* The spinner of a webhook, and the disabled "Adding..." button, stand for a
\* request that is under way: none is left behind, however toggles, answers and
\* failures follow each other (page.tsx 359-424).  (The converse fails: the
\* first of two answers stops the spinner of the other webhook, which then
\* claims to have no deliveries.)
BusyMeansUnderWay ==
  /\ deliveriesLoading # 0 =>
       \E q \in HookInFlight : /\ hookReqs[q].kind = "deliveries"
                               /\ hookReqs[q].hook = deliveriesLoading
  /\ webhookSubmitting => \E q \in HookInFlight : hookReqs[q].kind = "add"
=============================================================================
