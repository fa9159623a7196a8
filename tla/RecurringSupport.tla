-------------------------- MODULE RecurringSupport --------------------------
(***************************************************************************)
(* Recurring support: the subscriptions of one supporter to one profile,   *)
(* the handlers that create, change and cancel them (app.ts), and the drip *)
(* schedulers of several replicas that create an execution per due period  *)
(* (drip-scheduler.ts).                                                    *)
(*                                                                         *)
(* A scheduler's query, the transaction for each row of it and its next    *)
(* query are separate steps, and so are a PATCH's read and its write.  The *)
(* clock counts ticks long enough to hold a request, short enough to tell  *)
(* periods apart; a month is a fixed number of them.                       *)
(***************************************************************************)
EXTENDS Integers, Sequences, FiniteSets

CONSTANTS
  Sub,            \* subscription ids, numbers in the order of "id"
  Asset,          \* asset issuers the profile accepts for the asset code
  Scheduler,      \* replicas with DRIP_SCHEDULER_ENABLED
  Client,         \* concurrent PATCH requests
  Period,         \* frequency -> its length in ticks
  BatchSize,      \* DRIP_BATCH_SIZE
  Body,           \* PATCH bodies: the columns they change, "same" for the others
  MaxActive,      \* 20 subscriptions that are not cancelled, per profile
  MaxClock,       \* bound: the clock
  MaxFailures,    \* bound: transactions that fail and sweeps that die
  MaxPatches      \* bound: PATCH requests

Frequency == {"weekly", "monthly"}

Change == [status : {"same", "active", "paused", "cancelled"},
           frequency : {"same"} \cup Frequency,
           asset : {"same"} \cup Asset]

ASSUME RecurringAssumption ==
  /\ Body \subseteq Change /\ Asset # {}
  /\ Sub \subseteq Nat /\ IsFiniteSet(Sub)
  /\ Period \in [Frequency -> Nat \ {0}]
  /\ BatchSize \in Nat \ {0} /\ MaxActive \in Nat
  /\ MaxClock \in Nat /\ MaxFailures \in Nat /\ MaxPatches \in Nat

VARIABLES
  clock,
  status, frequency, nextRunAt, asset,  \* the columns of a subscription
  supporter,      \* the supporter's account exists
  executions,     \* per subscription, when each was due and the sweep's now
  pc, now, batch, last,  \* a sweep: stage, its now, the rows to do, the cursor
  patch, patches, \* the PATCH requests between their read and their write
  failures

rowVars   == <<status, frequency, nextRunAt, asset>>
sweepVars == <<pc, now, batch, last>>
patchVars == <<patch, patches>>
vars      == <<clock, rowVars, supporter, executions, sweepVars, patchVars, failures>>

Status   == {"absent", "active", "paused", "cancelled"}
Horizon  == MaxClock + Period["weekly"] + Period["monthly"]
Snapshot == [id : Sub, due : 0..Horizon, frequency : Frequency, supporter : BOOLEAN]
NoCursor == -1
NoPatch  == [active |-> FALSE]

TypeOK ==
  /\ clock \in 0..MaxClock
  /\ status \in [Sub -> Status]
  /\ frequency \in [Sub -> Frequency]
  /\ nextRunAt \in [Sub -> 0..Horizon]
  /\ asset \in [Sub -> Asset]
  /\ supporter \in BOOLEAN
  /\ \A s \in Sub : \A i \in 1..Len(executions[s]) :
       executions[s][i] \in [due : 0..MaxClock, at : 0..MaxClock]
  /\ pc \in [Scheduler -> {"idle", "batch"}]
  /\ now \in [Scheduler -> 0..MaxClock]
  /\ batch \in [Scheduler -> SUBSET Snapshot]
  /\ last \in [Scheduler -> Sub \cup {NoCursor}]
  /\ \A c \in Client : patch[c] = NoPatch \/
       patch[c] \in [active : {TRUE}, id : Sub, change : Change, runAt : 0..Horizon]
  /\ patches \in 0..MaxPatches
  /\ failures \in 0..MaxFailures

Init ==
  /\ clock = 0
  /\ status = [s \in Sub |-> "absent"]
  /\ frequency = [s \in Sub |-> "weekly"]
  /\ nextRunAt = [s \in Sub |-> 0]
  /\ asset = [s \in Sub |-> CHOOSE a \in Asset : TRUE]
  /\ supporter = TRUE
  /\ executions = [s \in Sub |-> <<>>]
  /\ pc = [k \in Scheduler |-> "idle"]
  /\ now = [k \in Scheduler |-> 0]
  /\ batch = [k \in Scheduler |-> {}]
  /\ last = [k \in Scheduler |-> NoCursor]
  /\ patch = [c \in Client |-> NoPatch]
  /\ patches = 0
  /\ failures = 0

Open == {s \in Sub : status[s] \in {"active", "paused"}}

\* Requests are shorter than a tick.
Tick ==
  /\ clock < MaxClock
  /\ \A c \in Client : ~patch[c].active
  /\ clock' = clock + 1
  /\ UNCHANGED <<rowVars, supporter, executions, sweepVars, patchVars, failures>>

-----------------------------------------------------------------------------
(* The handlers.                                                           *)

\* POST /recurring-support, in one Serializable transaction.
Create(s, a, f) ==
  /\ supporter
  /\ status[s] = "absent" /\ \A r \in Sub : r < s => status[r] # "absent"
  /\ \A r \in Open : asset[r] # a
  /\ Cardinality(Open) < MaxActive
  /\ status' = [status EXCEPT ![s] = "active"]
  /\ asset' = [asset EXCEPT ![s] = a]
  /\ frequency' = [frequency EXCEPT ![s] = f]
  /\ nextRunAt' = [nextRunAt EXCEPT ![s] = clock + Period[f]]
  /\ UNCHANGED <<clock, supporter, executions, sweepVars, patchVars, failures>>

\* DELETE /recurring-support/:id writes whatever the status is.
Delete(s) ==
  /\ supporter /\ status[s] # "absent"
  /\ status' = [status EXCEPT ![s] = "cancelled"]
  /\ UNCHANGED <<clock, frequency, nextRunAt, asset, supporter, executions, sweepVars,
                 patchVars, failures>>

\* PATCH /recurring-support/:id reads the subscription, refuses to reactivate a
\* cancelled one ...
PatchRead(c, s, change) ==
  /\ ~patch[c].active /\ patches < MaxPatches
  /\ supporter /\ status[s] # "absent"
  /\ status[s] = "cancelled" => change.status \in {"same", "cancelled"}
  /\ patch' = [patch EXCEPT ![c] =
       [active |-> TRUE, id |-> s, change |-> change,
        runAt |-> IF change.frequency = "same" THEN 0 ELSE clock + Period[change.frequency]]]
  /\ patches' = patches + 1
  /\ UNCHANGED <<clock, rowVars, supporter, executions, sweepVars, failures>>

Changed(column, s, value) == IF value = "same" THEN column ELSE [column EXCEPT ![s] = value]

\* ... and then writes the row by id.
PatchWrite(c) ==
  LET s == patch[c].id  change == patch[c].change IN
  /\ patch[c].active
  /\ status' = Changed(status, s, change.status)
  /\ frequency' = Changed(frequency, s, change.frequency)
  /\ asset' = Changed(asset, s, change.asset)
  /\ nextRunAt' = IF change.frequency = "same" THEN nextRunAt
                  ELSE [nextRunAt EXCEPT ![s] = patch[c].runAt]
  /\ patch' = [patch EXCEPT ![c] = NoPatch]
  /\ UNCHANGED <<clock, supporter, executions, sweepVars, patches, failures>>

\* The supporter's account is deleted: supporterId becomes NULL.
SupporterLeaves ==
  /\ supporter
  /\ supporter' = FALSE
  /\ UNCHANGED <<clock, rowVars, executions, sweepVars, patchVars, failures>>

-----------------------------------------------------------------------------
(* A sweep (processDueRecurringSupports).                                  *)

\* Fault seeded for the checks: a row due exactly now is not due.
DueBefore(t) == {s \in Sub : status[s] = "active" /\ nextRunAt[s] < t}

Due(t) == {s \in Sub : status[s] = "active" /\ nextRunAt[s] <= t}

FirstOf(rows, n) == {s \in rows : Cardinality({r \in rows : r < s}) < n}

\* findMany with take, and from the second page on cursor and skip: 1, which
\* passes over the first row at or after the cursor that still matches.
Query(t, cursor) ==
  LET matching == {s \in Due(t) : s >= cursor}
      skipped  == IF cursor = NoCursor THEN {} ELSE FirstOf(matching, 1)
  IN FirstOf(matching \ skipped, BatchSize)

Take(k, t, rows) ==
  /\ now' = [now EXCEPT ![k] = IF rows = {} THEN 0 ELSE t]
  /\ batch' = [batch EXCEPT ![k] =
       {[id |-> s, due |-> nextRunAt[s], frequency |-> frequency[s], supporter |-> supporter] :
          s \in rows}]
  /\ pc' = [pc EXCEPT ![k] = IF rows = {} THEN "idle" ELSE "batch"]
  /\ last' = [last EXCEPT ![k] =
       IF Cardinality(rows) = BatchSize THEN CHOOSE s \in rows : \A r \in rows : r <= s
       ELSE NoCursor]

StartSweep(k) ==
  /\ pc[k] = "idle"
  /\ Take(k, clock, Query(clock, NoCursor))
  /\ UNCHANGED <<clock, rowVars, supporter, executions, patchVars, failures>>

NextPage(k) ==
  /\ pc[k] = "batch" /\ batch[k] = {}
  /\ Take(k, now[k], IF last[k] = NoCursor THEN {} ELSE Query(now[k], last[k]))
  /\ UNCHANGED <<clock, rowVars, supporter, executions, patchVars, failures>>

\* Fault seeded for the checks: one period on, however late the sweep is.
AdvanceOnce(row, t) == row.due + Period[row.frequency]

\* The first time after now that is whole periods after the time that was due.
Advance(row, t) ==
  LET runs == {row.due + i * Period[row.frequency] : i \in 1..MaxClock + 1}
  IN CHOOSE n \in runs : n > t /\ \A m \in runs : m > t => n <= m

\* Faults seeded for the checks: the claim forgets the status, or the time.
ClaimInactive(k, row) == nextRunAt[row.id] <= now[k]
ClaimAgain(k, row)    == status[row.id] = "active"

\* UPDATE ... WHERE "nextRunAt" <= now AND "status" = 'active'
Claimable(k, row) == nextRunAt[row.id] <= now[k] /\ status[row.id] = "active"

\* One row of the batch: a subscription whose supporter is gone is cancelled;
\* another is claimed together with the execution, or the transaction fails.
ProcessRow(k) ==
  \E row \in batch[k] :
    /\ \A other \in batch[k] : row.id <= other.id
    /\ batch' = [batch EXCEPT ![k] = @ \ {row}]
    /\ IF ~row.supporter
       THEN /\ status' = [status EXCEPT ![row.id] = "cancelled"]
            /\ UNCHANGED <<nextRunAt, executions>>
       ELSE IF Claimable(k, row)
       THEN /\ executions' = [executions EXCEPT ![row.id] =
                 Append(@, [due |-> nextRunAt[row.id], at |-> now[k]])]
            /\ nextRunAt' = [nextRunAt EXCEPT ![row.id] = Advance(row, now[k])]
            /\ UNCHANGED status
       ELSE UNCHANGED <<status, nextRunAt, executions>>
    /\ UNCHANGED <<clock, frequency, asset, supporter, pc, now, last, patchVars, failures>>

\* A transaction fails, and only its row is passed over.
FailRow(k) ==
  /\ failures < MaxFailures
  /\ failures' = failures + 1
  /\ \E row \in batch[k] :
       /\ row.supporter
       /\ \A other \in batch[k] : row.id <= other.id
       /\ batch' = [batch EXCEPT ![k] = @ \ {row}]
  /\ UNCHANGED <<clock, rowVars, supporter, executions, pc, now, last, patchVars>>

\* The process dies, or a query throws: the sweep is over.
Crash(k) ==
  /\ pc[k] = "batch" /\ failures < MaxFailures
  /\ failures' = failures + 1
  /\ Take(k, 0, {})
  /\ UNCHANGED <<clock, rowVars, supporter, executions, patchVars>>

Sweep(k) == StartSweep(k) \/ NextPage(k) \/ ProcessRow(k)

Next ==
  \/ Tick \/ SupporterLeaves
  \/ \E s \in Sub :
       \/ \E a \in Asset, f \in Frequency : Create(s, a, f)
       \/ Delete(s)
       \/ \E c \in Client, change \in Body : PatchRead(c, s, change)
  \/ \E c \in Client : PatchWrite(c)
  \/ \E k \in Scheduler : Sweep(k) \/ FailRow(k) \/ Crash(k)

Spec == Init /\ [][Next]_vars

\* The interval starts sweeps for ever, and a started one goes on.
FairSpec == Spec /\ \A k \in Scheduler : WF_vars(Sweep(k))

-----------------------------------------------------------------------------
(* Properties.                                                             *)

\* One execution per period (70-95): of two executions of a subscription the
\* later one was due a whole period after the earlier, and after the sweep
\* that made the earlier, whatever schedulers overlap, however late they run
\* and however often the frequency is changed.
OnePerPeriod ==
  \A s \in Sub : \A i \in 1..Len(executions[s]) - 1 :
    LET this == executions[s][i]  next == executions[s][i + 1] IN
    /\ next.due > this.at
    /\ \E f \in Frequency : next.due >= this.due + Period[f]

\* The rows are well-formed, and their executions a period apart (70-95).
Inv == TypeOK /\ OnePerPeriod

\* drip-scheduler.test.ts:149: no execution is made when the claim is lost to a
\* cancel or a pause, however old the scheduler's snapshot is.
RunsOnlyWhenActive ==
  [][\A s \in Sub : executions'[s] # executions[s] =>
       status[s] = "active" /\ nextRunAt[s] <= clock]_vars

\* A due subscription is run, or stops being due: the row that a page's cursor
\* passes over, and the rows of a sweep that fails, are found by a later one.
EventuallyRun ==
  \A s \in Sub : (status[s] = "active" /\ nextRunAt[s] <= clock)
                   ~> (status[s] # "active" \/ nextRunAt[s] > clock)
=============================================================================
