--------------------------- MODULE CircuitBreaker ---------------------------
(***************************************************************************)
(* The circuit breaker around Horizon (circuit-breaker.ts) with its shared *)
(* row in the database (app.ts): replicas, each with a breaker in memory   *)
(* and callers whose execute() runs interleave at every await.             *)
(*                                                                         *)
(* In execute, a read of the row and the assignment of what it returned    *)
(* are two steps, and so are what a result does in memory and the write    *)
(* that persists it.                                                       *)
(***************************************************************************)
EXTENDS Integers, FiniteSets

CONSTANTS
  Replica, Caller,
  ReplicaOf,         \* Caller -> Replica
  FailureThreshold, ResetTimeout,
  MaxClock,          \* bound: the clock
  OutageEnd,         \* bound: from then on Horizon answers
  MaxErrors          \* bound: database errors and restarts of a replica

ASSUME BreakerAssumption ==
  /\ ReplicaOf \in [Caller -> Replica]
  /\ FailureThreshold \in Nat \ {0} /\ ResetTimeout \in Nat \ {0}
  /\ MaxClock \in Nat /\ OutageEnd \in Nat /\ MaxErrors \in Nat

State    == {"CLOSED", "OPEN", "HALF_OPEN"}
Snapshot == [state : State, failureCount : 0..FailureThreshold, nextAttempt : 0..MaxClock + ResetTimeout]
Closed   == [state |-> "CLOSED", failureCount |-> 0, nextAttempt |-> 0]

VARIABLES
  clock,
  row, hasRow,   \* the row of CircuitBreakerState, and whether it is there
  breaker,       \* a replica's state, failureCount and nextAttempt
  init,          \* its initialization: "none", "saving" or "done"
  canary,        \* the callers holding its halfOpenCanary, none or one
  stage,         \* where a caller is
  probe,         \* a caller's call was let through as a canary
  held,          \* what a caller's load returned, or what it passes to a write
  errors

vars == <<clock, row, hasRow, breaker, init, canary, stage, probe, held, errors>>

Stage == {"idle", "refresh", "refreshed", "claim", "claimed", "refused", "rejected", "calling", "saving"}

TypeOK ==
  /\ clock \in 0..MaxClock
  /\ row \in Snapshot /\ hasRow \in BOOLEAN
  /\ breaker \in [Replica -> Snapshot]
  /\ init \in [Replica -> {"none", "saving", "done"}]
  /\ canary \in [Replica -> SUBSET Caller]
  /\ stage \in [Caller -> Stage]
  /\ probe \in [Caller -> BOOLEAN]
  /\ held \in [Caller -> Snapshot]
  /\ errors \in 0..MaxErrors

Init ==
  /\ clock = 0 /\ row = Closed /\ hasRow = FALSE
  /\ breaker = [r \in Replica |-> Closed]
  /\ init = [r \in Replica |-> "none"]
  /\ canary = [r \in Replica |-> {}]
  /\ stage = [c \in Caller |-> "idle"]
  /\ probe = [c \in Caller |-> FALSE]
  /\ held = [c \in Caller |-> Closed]
  /\ errors = 0

\* The breaker of a caller's replica, in memory.
Own(c) == breaker[ReplicaOf[c]]

Tick ==
  /\ clock < MaxClock
  /\ clock' = clock + 1
  /\ UNCHANGED <<row, hasRow, breaker, init, canary, stage, probe, held, errors>>

-----------------------------------------------------------------------------
(* ensureInitialized.                                                      *)

\* The row is restored; an OPEN one whose time has come becomes HALF_OPEN,
\* which is then persisted, as is a first row.
Load(r) ==
  /\ init[r] = "none"
  /\ LET due == hasRow /\ row.state = "OPEN" /\ clock >= row.nextAttempt IN
     /\ breaker' = [breaker EXCEPT ![r] =
          IF due THEN [row EXCEPT !.state = "HALF_OPEN"] ELSE IF hasRow THEN row ELSE @]
     /\ init' = [init EXCEPT ![r] = IF due \/ ~hasRow THEN "saving" ELSE "done"]
  /\ UNCHANGED <<clock, row, hasRow, canary, stage, probe, held, errors>>

\* The row cannot be read, and the breaker starts CLOSED, or the first write
\* fails; neither is tried again.
LoadFails(r) ==
  /\ init[r] \in {"none", "saving"}
  /\ errors < MaxErrors /\ errors' = errors + 1
  /\ init' = [init EXCEPT ![r] = "done"]
  /\ UNCHANGED <<clock, row, hasRow, breaker, canary, stage, probe, held>>

SaveLoaded(r) ==
  /\ init[r] = "saving"
  /\ row' = breaker[r] /\ hasRow' = TRUE
  /\ init' = [init EXCEPT ![r] = "done"]
  /\ UNCHANGED <<clock, breaker, canary, stage, probe, held, errors>>

-----------------------------------------------------------------------------
(* execute.                                                                *)

\* The call is refused or over: it holds nothing any more.
Leave(c) ==
  /\ stage' = [stage EXCEPT ![c] = "idle"]
  /\ probe' = [probe EXCEPT ![c] = FALSE]
  /\ held' = [held EXCEPT ![c] = Closed]

Goto(c, s) == stage' = [stage EXCEPT ![c] = s] /\ UNCHANGED <<probe, held>>

\* The call to Horizon begins.
LetThrough(c, asCanary) ==
  /\ stage' = [stage EXCEPT ![c] = "calling"]
  /\ probe' = [probe EXCEPT ![c] = asCanary]
  /\ held' = [held EXCEPT ![c] = Closed]
  /\ canary' = [canary EXCEPT ![ReplicaOf[c]] = IF asCanary THEN {c} ELSE @]

\* Fault seeded for the checks: the canary's slot is not looked at.
AdmitAll(c, state) == LetThrough(c, state = "HALF_OPEN")

\* Past the OPEN checks: a call in HALF_OPEN takes the canary's slot or is
\* refused, one in CLOSED goes through.
Admit(c, state) ==
  IF state = "HALF_OPEN" /\ canary[ReplicaOf[c]] # {}
  THEN Leave(c) /\ UNCHANGED canary
  ELSE LetThrough(c, state = "HALF_OPEN")

\* An OPEN breaker refuses the call, or, its time having come, looks at the row.
Start(c) ==
  /\ stage[c] = "idle" /\ init[ReplicaOf[c]] = "done"
  /\ IF Own(c).state = "OPEN"
     THEN clock >= Own(c).nextAttempt /\ Goto(c, "refresh") /\ UNCHANGED canary
     ELSE Admit(c, Own(c).state)
  /\ UNCHANGED <<clock, row, hasRow, breaker, init, errors>>

\* The breaker is b, and the state is looked at again.
LookAgain(c, b) ==
  /\ breaker' = [breaker EXCEPT ![ReplicaOf[c]] = b]
  /\ CASE b.state # "OPEN" -> Admit(c, b.state)
       [] b.state = "OPEN" /\ clock >= b.nextAttempt ->
            /\ stage' = [stage EXCEPT ![c] = "claim"]
            /\ held' = [held EXCEPT ![c] = b]
            /\ UNCHANGED <<probe, canary>>
       [] OTHER -> Leave(c) /\ UNCHANGED canary
  /\ UNCHANGED <<clock, row, hasRow, init>>

\* storage.load() finds no row, or one ...
Refresh(c) ==
  /\ stage[c] = "refresh"
  /\ \/ ~hasRow /\ LookAgain(c, Own(c))
     \/ /\ hasRow
        /\ held' = [held EXCEPT ![c] = row]
        /\ stage' = [stage EXCEPT ![c] = "refreshed"]
        /\ UNCHANGED <<clock, row, hasRow, breaker, init, canary, probe>>
  /\ UNCHANGED errors

\* ... which is assigned.
Refreshed(c) == stage[c] = "refreshed" /\ LookAgain(c, held[c]) /\ UNCHANGED errors

\* updateMany where state = OPEN and nextAttemptAt <= the replica's.
Claims(c) == row.state = "OPEN" /\ row.nextAttempt <= held[c].nextAttempt

ClaimHalfOpen(c) ==
  /\ stage[c] = "claim"
  /\ row' = IF Claims(c) THEN [row EXCEPT !.state = "HALF_OPEN"] ELSE row
  /\ Goto(c, IF Claims(c) THEN "claimed" ELSE "refused")
  /\ UNCHANGED <<clock, hasRow, breaker, init, canary, errors>>

\* The claim was this caller's: HALF_OPEN, and the canary unless another
\* caller has taken the slot.
Claimed(c) ==
  /\ stage[c] = "claimed"
  /\ breaker' = [breaker EXCEPT ![ReplicaOf[c]].state = "HALF_OPEN"]
  /\ Admit(c, "HALF_OPEN")
  /\ UNCHANGED <<clock, row, hasRow, init, errors>>

\* The claim was another's: the row is read again ...
Refused(c) ==
  /\ stage[c] = "refused"
  /\ IF hasRow
     THEN held' = [held EXCEPT ![c] = row] /\ stage' = [stage EXCEPT ![c] = "rejected"] /\ UNCHANGED probe
     ELSE Leave(c)
  /\ UNCHANGED <<clock, row, hasRow, breaker, init, canary, errors>>

\* ... assigned, and the call refused.
Rejected(c) ==
  /\ stage[c] = "rejected"
  /\ breaker' = [breaker EXCEPT ![ReplicaOf[c]] = held[c]]
  /\ Leave(c)
  /\ UNCHANGED <<clock, row, hasRow, init, canary, errors>>

\* Fault seeded for the checks: the canary's slot stays taken.
ReleaseNothing(c) == Leave(c) /\ UNCHANGED canary

\* The canary, if the caller is it, has resolved.
Release(c) == Leave(c) /\ canary' = [canary EXCEPT ![ReplicaOf[c]] = @ \ {c}]

\* The breaker becomes b, whose value now is persisted before the call ends.
Answer(c, b, saves) ==
  /\ breaker' = [breaker EXCEPT ![ReplicaOf[c]] = b]
  /\ IF saves
     THEN /\ stage' = [stage EXCEPT ![c] = "saving"]
          /\ held' = [held EXCEPT ![c] = b]
          /\ UNCHANGED <<canary, probe>>
     ELSE Release(c)

\* onSuccess closes a HALF_OPEN breaker.
AfterSuccess(b) == IF b.state = "HALF_OPEN" THEN Closed ELSE [b EXCEPT !.failureCount = 0]

\* onSuccess, whatever the state has become since the call began.
Succeed(c) ==
  /\ stage[c] = "calling"
  /\ Answer(c, AfterSuccess(Own(c)), Own(c).failureCount # 0 \/ Own(c).state # "CLOSED")
  /\ UNCHANGED <<clock, row, hasRow, init, errors>>

\* onFailure opens a HALF_OPEN breaker, and one that has failed often enough.
\* The count matters up to the threshold only.
AfterFailure(b) ==
  LET count == IF b.failureCount < FailureThreshold THEN b.failureCount + 1 ELSE FailureThreshold IN
  IF b.state = "HALF_OPEN" \/ count >= FailureThreshold
  THEN [state |-> "OPEN", failureCount |-> count, nextAttempt |-> clock + ResetTimeout]
  ELSE [b EXCEPT !.failureCount = count]

\* onFailure, whatever the state has become since the call began.
Fail(c) ==
  /\ stage[c] = "calling" /\ clock < OutageEnd
  /\ Answer(c, AfterFailure(Own(c)), TRUE)
  /\ UNCHANGED <<clock, row, hasRow, init, errors>>

Save(c) ==
  /\ stage[c] = "saving"
  /\ row' = held[c] /\ hasRow' = TRUE
  /\ Release(c)
  /\ UNCHANGED <<clock, breaker, init, errors>>

\* A database call of a caller fails: a load is logged, a claim ends the call,
\* and so does a save, logged after a failure and thrown after a success.
DatabaseError(c) ==
  /\ errors < MaxErrors /\ errors' = errors + 1
  /\ \/ stage[c] = "refresh" /\ LookAgain(c, Own(c))
     \/ /\ stage[c] = "refused" /\ Leave(c)
        /\ UNCHANGED <<clock, row, hasRow, breaker, init, canary>>
     \/ /\ stage[c] \in {"claim", "saving"} /\ Release(c)
        /\ UNCHANGED <<clock, row, hasRow, breaker, init>>

\* A replica restarts: what it had in memory is gone.
Restart(r) ==
  LET mine == {c \in Caller : ReplicaOf[c] = r} IN
  /\ init[r] # "none"
  /\ errors < MaxErrors /\ errors' = errors + 1
  /\ breaker' = [breaker EXCEPT ![r] = Closed]
  /\ init' = [init EXCEPT ![r] = "none"]
  /\ canary' = [canary EXCEPT ![r] = {}]
  /\ stage' = [c \in Caller |-> IF c \in mine THEN "idle" ELSE stage[c]]
  /\ probe' = [c \in Caller |-> probe[c] /\ c \notin mine]
  /\ held' = [c \in Caller |-> IF c \in mine THEN Closed ELSE held[c]]
  /\ UNCHANGED <<clock, row, hasRow>>

Step(c) ==
  \/ Start(c) \/ Refresh(c) \/ Refreshed(c) \/ ClaimHalfOpen(c) \/ Claimed(c) \/ Refused(c) \/ Rejected(c)
  \/ Succeed(c) \/ Fail(c) \/ Save(c)

Next ==
  \/ Tick
  \/ \E r \in Replica : Load(r) \/ LoadFails(r) \/ SaveLoaded(r) \/ Restart(r)
  \/ \E c \in Caller : Step(c) \/ DatabaseError(c)

Spec == Init /\ [][Next]_vars

\* Requests keep coming to every replica and are answered; time passes.
FairSpec ==
  /\ Spec /\ WF_vars(Tick)
  /\ \A r \in Replica : WF_vars(Load(r) \/ SaveLoaded(r))
  /\ \A c \in Caller : WF_vars(Step(c))

-----------------------------------------------------------------------------
(* Properties.                                                             *)

Probing(c) == stage[c] \in {"calling", "saving"} /\ probe[c]

\* A replica has one canary at a time, and the slot is its (80-103): no
\* refresh, refused claim, late answer or restart frees it early.
OneCanaryPerReplica ==
  \A r \in Replica : canary[r] = {c \in Caller : ReplicaOf[c] = r /\ Probing(c)}
                     /\ Cardinality(canary[r]) <= 1

\* The breakers' state is well-formed, and no replica has two canaries (80-103).
Inv == TypeOK /\ OneCanaryPerReplica

\* The breakers never all refuse their callers for good: during an outage and
\* after it a call goes through again and again, whatever late answers, stale
\* reads, stale writes, lost writes and restarts there were.
KeepsCalling == []<>(\E c \in Caller : stage[c] = "calling")
=============================================================================
