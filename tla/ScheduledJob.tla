---------------------------- MODULE ScheduledJob ----------------------------
(***************************************************************************)
(* A recurring job of the backend's replicas, claimed through its row in   *)
(* scheduler_jobs (scheduler-claim.ts): the weekly digest                  *)
(* (weekly-digest.ts), which retries a failed run after a delay, and the   *)
(* badge sweep (badge-awarder.ts), which does not.                         *)
(*                                                                         *)
(* A replica checks whether the job is due when it starts, at every tick   *)
(* of its interval and when a retry timer fires.  A run pages through the  *)
(* profiles; the job is done for a profile or fails for it alone, and a    *)
(* page that cannot be read ends the run.                                  *)
(***************************************************************************)
EXTENDS Integers, FiniteSets

CONSTANTS
  Replica,
  Profiles,      \* profiles are 1..Profiles, in the order of their ids
  BatchSize,     \* profiles per page (100)
  Interval,      \* the job's interval; the period of the replicas' timers too
  RetryDelay,    \* DIGEST_RETRY_DELAY_MS, or 0: no retry
  MaxClock,      \* bound: the clock, which starts at Interval
  MaxErrors,     \* bound: failed claims, pages and releases
  MaxCrashes,    \* bound: deaths of a replica
  MaxChanges     \* bound: profiles opting in or out

Profile == 1..Profiles

ASSUME JobAssumption ==
  /\ Profiles \in Nat /\ BatchSize \in Nat \ {0}
  /\ Interval \in Nat \ {0} /\ RetryDelay \in Nat
  /\ MaxClock \in Nat /\ MaxErrors \in Nat /\ MaxCrashes \in Nat /\ MaxChanges \in Nat

VARIABLES
  clock,
  lastRunAt,     \* of the job's row; 0 is the epoch, and no row at all
  tickAt,        \* a replica's next interval tick; Never when it is down
  retryAt,       \* its retry timer; Never when none is set
  runs,          \* the runs under way
  opted,         \* the profiles the job is for
  doneBy,        \* the newest claim whose run has done the job for a profile
  completedBy,   \* the newest claim whose run has completed
  errors, crashes, changes

timerVars == <<tickAt, retryAt>>
boundVars == <<errors, crashes, changes>>
vars      == <<clock, lastRunAt, timerVars, runs, opted, doneBy, completedBy, boundVars>>

Never    == -1
NoCursor == 0

\* A run: who runs it, the time it claimed the job at, what it is doing, the
\* profiles of its page still to do, the cursor the page ended with, and, for the
\* properties only, the profiles it owes the job: those whose preference stays as it
\* was, with no error of their own and not passed over.
Run == [owner : Replica, claim : Nat, stage : {"new", "batch", "failed"},
        todo : SUBSET Profile, cursor : 0..Profiles, owed : SUBSET Profile]

NewRun(r) == [owner |-> r, claim |-> clock, stage |-> "new", todo |-> {},
              cursor |-> NoCursor, owed |-> Profile]

TypeOK ==
  /\ clock \in Nat /\ lastRunAt \in 0..clock
  /\ tickAt \in [Replica -> clock..clock + Interval \cup {Never}]
  /\ retryAt \in [Replica -> clock..clock + RetryDelay \cup {Never}]
  /\ runs \subseteq Run
  /\ opted \subseteq Profile
  /\ doneBy \in [Profile -> 0..clock]
  /\ completedBy \in 0..clock
  /\ errors \in 0..MaxErrors /\ crashes \in 0..MaxCrashes /\ changes \in 0..MaxChanges

Init ==
  /\ clock = Interval /\ lastRunAt = 0
  /\ tickAt = [r \in Replica |-> Never]
  /\ retryAt = [r \in Replica |-> Never]
  /\ runs = {}
  /\ opted = Profile
  /\ doneBy = [p \in Profile |-> 0]
  /\ completedBy = 0
  /\ errors = 0 /\ crashes = 0 /\ changes = 0

Error == errors < MaxErrors /\ errors' = errors + 1

\* Timers fire at their time.
Tick ==
  /\ clock < MaxClock
  /\ \A r \in Replica : tickAt[r] # clock /\ retryAt[r] # clock
  /\ clock' = clock + 1
  /\ UNCHANGED <<lastRunAt, timerVars, runs, opted, doneBy, completedBy, boundVars>>

\* A profile's owner changes the preference, or the address to be verified.
Opt(p) ==
  /\ changes < MaxChanges /\ changes' = changes + 1
  /\ opted' = IF p \in opted THEN opted \ {p} ELSE opted \cup {p}
  /\ runs' = {[x EXCEPT !.owed = @ \ {p}] : x \in runs}
  /\ UNCHANGED <<clock, lastRunAt, timerVars, doneBy, completedBy, errors, crashes>>

-----------------------------------------------------------------------------
(* The claim.                                                              *)

\* Faults seeded for the checks: a job due exactly now is not due, or always is.
DueBefore(now) == lastRunAt < now - Interval
DueAlways(now) == TRUE

\* WHERE "scheduler_jobs"."lastRunAt" <= now - interval
Due(now) == lastRunAt <= now - Interval

\* A retry in RetryDelay, unless one is already waiting.
RetryLater(waiting) ==
  IF RetryDelay = 0 \/ waiting # Never THEN waiting ELSE clock + RetryDelay

\* One statement claims a due job, and its run begins; when the statement
\* fails there is no run, and a retry.
Check(r, waiting) ==
  \/ /\ Due(clock)
     /\ lastRunAt' = clock
     /\ runs' = runs \cup {NewRun(r)}
     /\ retryAt' = [retryAt EXCEPT ![r] = waiting]
     /\ UNCHANGED errors
  \/ /\ ~Due(clock)
     /\ retryAt' = [retryAt EXCEPT ![r] = waiting]
     /\ UNCHANGED <<lastRunAt, runs, errors>>
  \/ /\ Error
     /\ retryAt' = [retryAt EXCEPT ![r] = RetryLater(waiting)]
     /\ UNCHANGED <<lastRunAt, runs>>

\* The process starts: a check, and the interval.
Start(r) ==
  /\ tickAt[r] = Never
  /\ tickAt' = [tickAt EXCEPT ![r] = clock + Interval]
  /\ Check(r, retryAt[r])
  /\ UNCHANGED <<clock, opted, doneBy, completedBy, crashes, changes>>

IntervalTick(r) ==
  /\ tickAt[r] = clock
  /\ tickAt' = [tickAt EXCEPT ![r] = clock + Interval]
  /\ Check(r, retryAt[r])
  /\ UNCHANGED <<clock, opted, doneBy, completedBy, crashes, changes>>

RetryTick(r) ==
  /\ retryAt[r] = clock
  /\ Check(r, Never)
  /\ UNCHANGED <<clock, tickAt, opted, doneBy, completedBy, crashes, changes>>

\* The process is gone, and its timers and runs with it; a claim is not.
Die(r) ==
  /\ tickAt[r] # Never
  /\ crashes < MaxCrashes /\ crashes' = crashes + 1
  /\ tickAt' = [tickAt EXCEPT ![r] = Never]
  /\ retryAt' = [retryAt EXCEPT ![r] = Never]
  /\ runs' = {x \in runs : x.owner # r}
  /\ UNCHANGED <<clock, lastRunAt, opted, doneBy, completedBy, errors, changes>>

-----------------------------------------------------------------------------
(* A run.                                                                  *)

Newer(a, b) == IF a < b THEN b ELSE a

Replace(x, y) == runs' = (runs \ {x}) \cup {y}

FirstOf(rows, n) == {p \in rows : Cardinality({q \in rows : q < p}) < n}
LastOf(rows)     == CHOOSE p \in rows : \A q \in rows : q <= p

Matching(cursor) == {p \in opted : p >= cursor}

\* The row skip: 1 leaves out: the first at or after the cursor that still matches.
Skipped(cursor) == IF cursor = NoCursor THEN {} ELSE FirstOf(Matching(cursor), 1)

\* That is not the cursor's own row when its profile has opted out since.
PassedOver(cursor) == IF cursor \in opted THEN {} ELSE Skipped(cursor)

\* findMany with take, and from the second page on cursor and skip: 1.
Page(cursor) == FirstOf(Matching(cursor) \ Skipped(cursor), BatchSize)

\* Fault seeded for the checks: no second page.
NoNextCursor(rows) == NoCursor

\* A full page is followed by another.
NextCursor(rows) == IF Cardinality(rows) = BatchSize THEN LastOf(rows) ELSE NoCursor

AtPageEnd(x) == x.stage = "new" \/ (x.stage = "batch" /\ x.todo = {})

Rows(x) == IF x.stage = "batch" /\ x.cursor = NoCursor THEN {} ELSE Page(x.cursor)

NextPage(x) ==
  /\ AtPageEnd(x) /\ Rows(x) # {}
  /\ Replace(x, [x EXCEPT !.stage = "batch", !.todo = Rows(x), !.cursor = NextCursor(Rows(x)),
                         !.owed = @ \ PassedOver(x.cursor)])
  /\ UNCHANGED <<clock, lastRunAt, timerVars, opted, doneBy, completedBy, boundVars>>

Complete(x) ==
  /\ AtPageEnd(x) /\ Rows(x) = {}
  /\ runs' = runs \ {x}
  /\ completedBy' = Newer(completedBy, x.claim)
  /\ UNCHANGED <<clock, lastRunAt, timerVars, opted, doneBy, boundVars>>

\* The page cannot be read, and the run throws.
Throw(x) ==
  /\ AtPageEnd(x) /\ Error
  /\ Replace(x, [x EXCEPT !.stage = "failed"])
  /\ UNCHANGED <<clock, lastRunAt, timerVars, opted, doneBy, completedBy, crashes, changes>>

\* The job for the page's next profile; its error is logged, and the run goes on.
DoNext(x) ==
  \E p \in FirstOf(x.todo, 1) :
    /\ \/ /\ Replace(x, [x EXCEPT !.todo = @ \ {p}])
          /\ doneBy' = [doneBy EXCEPT ![p] = Newer(@, x.claim)] /\ UNCHANGED errors
       \/ /\ Replace(x, [x EXCEPT !.todo = @ \ {p}, !.owed = @ \ {p}])
          /\ Error /\ UNCHANGED doneBy
    /\ UNCHANGED <<clock, lastRunAt, timerVars, opted, completedBy, crashes, changes>>

\* Fault seeded for the checks: whoever's claim it is.
ReleasedAny(x) == 0

\* updateMany where lastRunAt = claimedAt, to the epoch.
Released(x) == IF lastRunAt = x.claim THEN 0 ELSE lastRunAt

\* A failed run gives its claim back, or fails to, and is to be retried.
Release(x) ==
  /\ x.stage = "failed"
  /\ \/ lastRunAt' = Released(x) /\ UNCHANGED errors
     \/ Error /\ UNCHANGED lastRunAt
  /\ runs' = runs \ {x}
  /\ retryAt' = [retryAt EXCEPT ![x.owner] = RetryLater(@)]
  /\ UNCHANGED <<clock, tickAt, opted, doneBy, completedBy, crashes, changes>>

Next ==
  \/ Tick
  \/ \E p \in Profile : Opt(p)
  \/ \E r \in Replica : Start(r) \/ IntervalTick(r) \/ RetryTick(r) \/ Die(r)
  \/ \E x \in runs : NextPage(x) \/ Complete(x) \/ Throw(x) \/ DoNext(x) \/ Release(x)

Spec == Init /\ [][Next]_vars

-----------------------------------------------------------------------------
(* Properties.                                                             *)

\* Runs under way at once were claimed an interval apart, whichever replicas
\* check together, fail, retry and restart (claimScheduledJob): a run that is
\* over within its interval is alone.
RunsApart ==
  \A x, y \in runs :
    x # y => x.claim >= y.claim + Interval \/ y.claim >= x.claim + Interval

\* A run that outlives its interval and then fails takes nothing from the run
\* that has claimed the job since (releaseScheduledJobClaim).
NewerClaimStands ==
  [][\A x \in runs : x.claim = lastRunAt /\ x \in runs' /\ lastRunAt' # lastRunAt
                     => lastRunAt' >= lastRunAt + Interval]_vars

\* A completed run has done the job for everybody it was for all along, or a newer
\* one has, whoever opts in or out between its pages and whatever fails for others
\* (weekly-digest.ts, badge-awarder.ts).  Left out are only the profiles with an
\* error of their own, and the next behind a page whose last profile opted out.
EverybodyDone ==
  [][\A x \in runs : Complete(x) =>
       \A p \in (opted \cap x.owed) \ PassedOver(x.cursor) : doneBy[p] >= x.claim]_vars

\* Ticks one interval apart find the job due: with no run under way and nothing
\* gone wrong, the last claim is an interval back at most.
OnTime ==
  errors = 0 /\ crashes = 0 /\ completedBy # 0 /\ runs = {}
  => clock - completedBy <= Interval

\* One failure, wherever in a check or a run, costs one interval at most.
OneIntervalLost ==
  errors <= 1 /\ crashes = 0 /\ completedBy # 0 /\ runs = {}
  => clock - completedBy <= 2 * Interval

\* The job's row is well-formed, and how late a job can be is bounded by what failed
\* (claimScheduledJob, releaseScheduledJobClaim).
Inv == TypeOK /\ OnTime /\ OneIntervalLost

\* weekly-digest.ts:188: not "silently skipping the week's digest after a single
\* early failure": the failure costs the delay of its retry.
NoWeekSkipped ==
  errors <= 1 /\ crashes = 0 /\ completedBy # 0 /\ runs = {}
     /\ (\A r \in Replica : retryAt[r] = Never)
  => clock - completedBy <= Interval + RetryDelay
=============================================================================
