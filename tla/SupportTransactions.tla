------------------------ MODULE SupportTransactions ------------------------
(***************************************************************************)
(* Recording a payment to a profile and crediting its milestones (app.ts): *)
(* POST /support-transactions, which stores a verified transaction, marks  *)
(* the recurring execution it pays and adds its amount to the milestones   *)
(* in its asset, all in one database transaction, beside the handlers that *)
(* create, change and delete milestones.                                   *)
(*                                                                         *)
(* The database is Postgres at READ COMMITTED.  Each statement is a step   *)
(* and sees what is committed; a row a transaction has written is locked   *)
(* until it ends, and so is a unique key it has inserted.  What an open    *)
(* transaction has done is kept in the request's own variables until it    *)
(* commits.  All requests are for one profile, whose transactions Horizon  *)
(* has verified.                                                           *)
(***************************************************************************)
EXTENDS Integers, FiniteSets, Sequences

CONSTANTS
  Tx,               \* the hashes of payments to the profile
  AmountOf, AssetOf,\* what a transaction pays
  Execution,        \* recurring executions
  PayableBy,        \* the transactions whose details are an execution's
  Milestone, Asset, \* milestone ids; the assets the profile accepts
  Target,           \* target amounts that are tried
  NewTargets, NewAssets, \* what a PATCH may change them to
  Request, Owner,   \* concurrent POSTs; concurrent PATCHes
  MaxMilestones,    \* 20 milestones that are not reached, per profile
  None,
  MaxPatches,       \* bound: PATCH requests
  MaxFailures       \* bound: transactions that fail for a reason not modelled

ASSUME SupportAssumption ==
  /\ AmountOf \in [Tx -> Nat \ {0}] /\ AssetOf \in [Tx -> Asset]
  /\ PayableBy \in [Execution -> SUBSET Tx]
  /\ Target \subseteq Nat \ {0} /\ NewTargets \subseteq Target /\ NewAssets \subseteq Asset
  /\ None \notin Execution \cup Tx \cup Asset \cup Target
  /\ MaxMilestones \in Nat /\ MaxPatches \in Nat /\ MaxFailures \in Nat

VARIABLES
  rows,          \* SupportTransaction: the recorded <<txHash, execution>>
  status, target, asset, current,  \* the columns of a milestone
  credits,       \* the transactions added to current since it last was 0, in order
  stage,         \* where a POST is
  tx, execution, \* what it posts: a hash, and an execution or None
  todo, credited,\* the milestones its transaction read, and those it has updated
  patch,         \* a PATCH between its read and its write
  patches, failures

milestoneVars == <<status, target, asset, current, credits>>
postVars      == <<stage, tx, execution, todo, credited>>
patchVars     == <<patch, patches>>
vars          == <<rows, milestoneVars, postVars, patchVars, failures>>

NoPatch == [active |-> FALSE]
Patch   == [active : {TRUE}, id : Milestone, target : Target \cup {None}, asset : Asset \cup {None},
            resets : BOOLEAN, reaches : BOOLEAN]

TypeOK ==
  /\ rows \subseteq Tx \X (Execution \cup {None})
  /\ status \in [Milestone -> {"absent", "active", "reached", "deleted"}]
  /\ target \in [Milestone -> Target] /\ asset \in [Milestone -> Asset]
  /\ current \in [Milestone -> Nat]
  /\ credits \in [Milestone -> Seq(Tx)]
  /\ stage \in [Request -> {"idle", "inserting", "finding", "crediting"}]
  /\ tx \in [Request -> Tx \cup {None}] /\ execution \in [Request -> Execution \cup {None}]
  /\ todo \in [Request -> SUBSET Milestone] /\ credited \in [Request -> SUBSET Milestone]
  /\ \A r \in Request : stage[r] # "crediting" => todo[r] = {} /\ credited[r] = {}
  /\ \A r \in Request : stage[r] # "idle" => tx[r] # None
  /\ patch \in [Owner -> Patch \cup {NoPatch}]
  /\ patches \in 0..MaxPatches /\ failures \in 0..MaxFailures

Init ==
  /\ rows = {}
  /\ status = [m \in Milestone |-> "absent"]
  /\ target \in {[m \in Milestone |-> n] : n \in Target}
  /\ asset \in {[m \in Milestone |-> a] : a \in Asset}
  /\ current = [m \in Milestone |-> 0]
  /\ credits = [m \in Milestone |-> <<>>]
  /\ stage = [r \in Request |-> "idle"]
  /\ tx = [r \in Request |-> None] /\ execution = [r \in Request |-> None]
  /\ todo = [r \in Request |-> {}] /\ credited = [r \in Request |-> {}]
  /\ patch = [o \in Owner |-> NoPatch]
  /\ patches = 0 /\ failures = 0

Paid(x) == \E row \in rows : row[2] = x

\* An open transaction has written the milestone.
Locked(m) == \E r \in Request : m \in credited[r]

-----------------------------------------------------------------------------
(* POST /support-transactions.                                             *)

\* A request whose payment is verified, and whose execution, if it names one,
\* is still pending.
Post(r, t, x) ==
  /\ stage[r] = "idle"
  /\ x # None => t \in PayableBy[x] /\ ~Paid(x)
  /\ stage' = [stage EXCEPT ![r] = "inserting"]
  /\ tx' = [tx EXCEPT ![r] = t]
  /\ execution' = [execution EXCEPT ![r] = x]
  /\ UNCHANGED <<rows, milestoneVars, todo, credited, patchVars, failures>>

\* The request is answered; what its transaction had done is committed or gone.
Answer(r) ==
  /\ stage' = [stage EXCEPT ![r] = "idle"]
  /\ tx' = [tx EXCEPT ![r] = None]
  /\ execution' = [execution EXCEPT ![r] = None]
  /\ todo' = [todo EXCEPT ![r] = {}]
  /\ credited' = [credited EXCEPT ![r] = {}]

\* Fault seeded for the checks: an execution may be paid twice.
SameHash(t, x, row) == row[1] = t

\* txHash and recurringSupportExecutionId are unique.
Conflicts(t, x, row) == row[1] = t \/ (x # None /\ row[2] = x)

Open(r) == stage[r] \in {"finding", "crediting"}

\* The insert waits for an open transaction that has inserted the same key; a
\* committed one makes it fail, and the answer is DUPLICATE_TX.
Insert(r) ==
  /\ stage[r] = "inserting"
  /\ \A q \in Request : Open(q) => ~Conflicts(tx[r], execution[r], <<tx[q], execution[q]>>)
  /\ IF \E row \in rows : Conflicts(tx[r], execution[r], row)
     THEN Answer(r)
     ELSE /\ stage' = [stage EXCEPT ![r] = "finding"]
          /\ UNCHANGED <<tx, execution, todo, credited>>
  /\ UNCHANGED <<rows, milestoneVars, patchVars, failures>>

\* The milestones that are active and in the transaction's asset now.
FindMilestones(r) ==
  /\ stage[r] = "finding"
  /\ stage' = [stage EXCEPT ![r] = "crediting"]
  /\ todo' = [todo EXCEPT ![r] =
       {m \in Milestone : status[m] = "active" /\ asset[m] = AssetOf[tx[r]]}]
  /\ UNCHANGED <<rows, milestoneVars, tx, execution, credited, patchVars, failures>>

\* currentAmount is incremented, and the milestone perhaps reached, by id; the
\* rows come in no order.  Others see it when the transaction commits, and
\* until then the row cannot change.
Credit(r) ==
  /\ stage[r] = "crediting"
  /\ \E m \in todo[r] :
       /\ status[m] # "deleted" /\ ~Locked(m)
       /\ todo' = [todo EXCEPT ![r] = @ \ {m}]
       /\ credited' = [credited EXCEPT ![r] = @ \cup {m}]
  /\ UNCHANGED <<rows, milestoneVars, stage, tx, execution, patchVars, failures>>

\* Fault seeded for the checks: a milestone is reached when it is exceeded.
ReachedPast(amount, goal) == amount > goal

Reached(amount, goal) == amount >= goal

Commit(r) ==
  LET amount == [m \in Milestone |->
        IF m \in credited[r] THEN current[m] + AmountOf[tx[r]] ELSE current[m]] IN
  /\ stage[r] = "crediting" /\ todo[r] = {}
  /\ rows' = rows \cup {<<tx[r], execution[r]>>}
  /\ current' = amount
  /\ credits' = [m \in Milestone |->
       IF m \in credited[r] THEN Append(credits[m], tx[r]) ELSE credits[m]]
  /\ status' = [m \in Milestone |->
       IF m \in credited[r] /\ Reached(amount[m], target[m]) THEN "reached" ELSE status[m]]
  /\ Answer(r)
  /\ UNCHANGED <<target, asset, patchVars, failures>>

\* The transaction waits for locks of others: Postgres breaks a deadlock, and
\* Prisma ends a transaction that takes longer than its default of 5 s.
Blocked(r) == todo[r] # {} /\ \A m \in todo[r] : Locked(m)

\* A milestone it read has been deleted, and the update throws.
Missing(r) == \E m \in todo[r] : status[m] = "deleted"

\* Fault seeded for the checks: the transaction is tried again, without limit.
AbortAndRetry(r) ==
  /\ Missing(r) \/ Blocked(r)
  /\ stage' = [stage EXCEPT ![r] = "finding"]
  /\ todo' = [todo EXCEPT ![r] = {}]
  /\ credited' = [credited EXCEPT ![r] = {}]
  /\ UNCHANGED <<rows, milestoneVars, tx, execution, patchVars, failures>>

\* The transaction is rolled back and the answer is an internal error.
Abort(r) ==
  /\ Missing(r) \/ Blocked(r)
  /\ Answer(r)
  /\ UNCHANGED <<rows, milestoneVars, patchVars, failures>>

\* The connection is lost, or the process dies.
Fail(r) ==
  /\ stage[r] # "idle"
  /\ failures < MaxFailures /\ failures' = failures + 1
  /\ Answer(r)
  /\ UNCHANGED <<rows, milestoneVars, patchVars>>

-----------------------------------------------------------------------------
(* The handlers of milestones.                                             *)

Unreached == {m \in Milestone : status[m] = "active"}

HasRoom == Cardinality(Unreached) < MaxMilestones

\* POST /profiles/:username/milestones counts and creates in one Serializable
\* transaction.
CreateMilestone(m, n, a) ==
  /\ status[m] = "absent"
  /\ HasRoom
  /\ status' = [status EXCEPT ![m] = "active"]
  /\ target' = [target EXCEPT ![m] = n]
  /\ asset' = [asset EXCEPT ![m] = a]
  /\ UNCHANGED <<rows, current, credits, postVars, patchVars, failures>>

\* DELETE waits for the row's lock.
DeleteMilestone(m) ==
  /\ status[m] \in {"active", "reached"} /\ ~Locked(m)
  /\ status' = [status EXCEPT ![m] = "deleted"]
  /\ UNCHANGED <<rows, target, asset, current, credits, postVars, patchVars, failures>>

\* PATCH reads the milestone and decides from what it read: a new asset resets
\* the progress, a target that is met makes the milestone reached ...
PatchRead(o, m, n, a) ==
  LET resets == a # None /\ a # asset[m] IN
  /\ ~patch[o].active /\ patches < MaxPatches
  /\ status[m] \in {"active", "reached"}
  /\ status[m] = "reached" => n = None
  /\ patch' = [patch EXCEPT ![o] =
       [active |-> TRUE, id |-> m, target |-> n, asset |-> a, resets |-> resets,
        reaches |-> ~resets /\ n # None /\ Reached(current[m], n)]]
  /\ patches' = patches + 1
  /\ UNCHANGED <<rows, milestoneVars, postVars, failures>>

Progress(p, amount) == IF p.resets THEN 0 ELSE amount

\* ... and then writes the row by id, once it is not locked; of a deleted row
\* the update throws.
PatchWrite(o) ==
  LET p == patch[o]  m == p.id IN
  /\ p.active /\ ~Locked(m)
  /\ patch' = [patch EXCEPT ![o] = NoPatch]
  /\ IF status[m] = "deleted" THEN UNCHANGED milestoneVars
     ELSE /\ target' = [target EXCEPT ![m] = IF p.target = None THEN @ ELSE p.target]
          /\ asset' = [asset EXCEPT ![m] = IF p.asset = None THEN @ ELSE p.asset]
          /\ current' = [current EXCEPT ![m] = Progress(p, @)]
          /\ credits' = [credits EXCEPT ![m] = IF p.resets THEN <<>> ELSE @]
          /\ status' = [status EXCEPT ![m] =
               IF p.resets THEN "active" ELSE IF p.reaches THEN "reached" ELSE @]
  /\ UNCHANGED <<rows, postVars, patches, failures>>

Step(r) == Insert(r) \/ FindMilestones(r) \/ Credit(r) \/ Commit(r) \/ Abort(r)

Next ==
  \/ \E r \in Request :
       \/ \E t \in Tx, x \in Execution \cup {None} : Post(r, t, x)
       \/ Step(r) \/ Fail(r)
  \/ \E m \in Milestone :
       \/ \E n \in Target, a \in Asset : CreateMilestone(m, n, a)
       \/ DeleteMilestone(m)
       \/ \E o \in Owner, n \in NewTargets \cup {None}, a \in NewAssets \cup {None} : PatchRead(o, m, n, a)
  \/ \E o \in Owner : PatchWrite(o)

Spec == Init /\ [][Next]_vars

\* A handler that has started goes on to its answer.
FairSpec == Spec /\ \A r \in Request : WF_vars(Step(r))

-----------------------------------------------------------------------------
(* Properties.                                                             *)

\* A hash is recorded once, and an execution is paid by one transaction at
\* most, one with its details (3504-3523, 3601-3631), whatever requests pass
\* the check for "pending" together.
PaidOnce ==
  \A row, other \in rows :
    /\ row[2] # None => row[1] \in PayableBy[row[2]]
    /\ row[1] = other[1] \/ (row[2] # None /\ row[2] = other[2]) => row = other

\* The partial sums of the credits' amounts, up to the whole.
AddsUp(list, sum, whole) ==
  /\ sum[0] = 0 /\ sum[Len(list)] = whole
  /\ \A i \in 1..Len(list) : sum[i] = sum[i - 1] + AmountOf[list[i]]

\* A milestone's amount is the sum of what the recorded transactions credited
\* to it since it was last reset: no update is lost, none is counted twice or
\* for a transaction that was rolled back (3541-3556, 4584-4587).
CreditsAddUp ==
  \A m \in Milestone :
    /\ \E sum \in [0..Len(credits[m]) -> 0..current[m]] : AddsUp(credits[m], sum, current[m])
    /\ \A i, j \in 1..Len(credits[m]) : credits[m][i] = credits[m][j] => i = j
    /\ \A i \in 1..Len(credits[m]) : \E row \in rows : row[1] = credits[m][i]

\* While targets stay as they are a milestone is reached exactly when its
\* amount has come to its target, whichever of the concurrent transactions
\* completed it (3558-3565).
ReachedByAmount ==
  \A m \in Milestone : status[m] \in {"active", "reached"} =>
    (status[m] = "reached" <=> current[m] >= target[m])

\* What a milestone says of itself agrees with the recorded transactions (3541-3565).
Inv == TypeOK /\ CreditsAddUp /\ ReachedByAmount

\* Every request is answered, although transactions update the same milestones
\* in any order and may wait for each other.
EventuallyAnswered == \A r \in Request : stage[r] # "idle" ~> stage[r] = "idle"
=============================================================================
