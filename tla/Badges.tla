------------------------------- MODULE Badges -------------------------------
(***************************************************************************)
(* The badges of one profile (backend/src/services/badge-awarder.ts, and   *)
(* the admin's routes of app.ts).                                          *)
(*                                                                         *)
(* A recorded payment starts a check that nobody waits for, and a sweep    *)
(* starts one every hour.  A check is one transaction at read committed:   *)
(* it takes the profile's advisory lock, reads what was awarded and then   *)
(* what was earned, and inserts the rows that are missing one by one.  The *)
(* admin's requests write the same rows and take no lock.                  *)
(*                                                                         *)
(* A badge is earned by a number of payments (the first, the tenth new     *)
(* supporter and the hundredth XLM alike) or by a reached milestone, which *)
(* its owner may change or delete again.                                   *)
(***************************************************************************)
EXTENDS Naturals, FiniteSets

CONSTANTS
  PaymentBadges, MilestoneBadges,
  Needs,        \* the payments a badge asks for
  Checks,       \* the checks started by payments
  HourlyCheck,        \* the check of the hourly sweep
  MaxPayments, MaxBadgeEvents  \* bounds of the checks

Badge   == PaymentBadges \cup MilestoneBadges
Checker == Checks \cup {HourlyCheck}

BadgesAssumption ==
  /\ PaymentBadges \cap MilestoneBadges = {} /\ HourlyCheck \notin Checks
  /\ Needs \in [PaymentBadges -> Nat \ {0}]
  /\ MaxPayments \in Nat /\ MaxBadgeEvents \in Nat

VARIABLES
  payments,  \* successful rows of the profile in SupportTransaction
  reached,   \* it has a milestone with status "reached"
  held,      \* its rows in ProfileBadge
  checks,    \* the checks under way
  deserved,  \* badges that were earned at some time, or given by the admin
  events     \* failures, changes of the milestone and requests of the admin

badgeVars == <<payments, reached, held, checks, deserved, events>>

\* A check: what it read, what it has yet to insert, what it inserted and has not
\* committed, and whether Postgres has aborted its transaction.
Check == [pc : {"idle", "lock", "awards", "payments", "milestones", "insert"},
          seen : SUBSET Badge, counted : 0..MaxPayments,
          missing : SUBSET Badge, inserted : SUBSET Badge, aborted : BOOLEAN]
Idle == [pc |-> "idle", seen |-> {}, counted |-> 0, missing |-> {}, inserted |-> {},
         aborted |-> FALSE]

TypeOK ==
  /\ payments \in 0..MaxPayments /\ reached \in BOOLEAN
  /\ held \subseteq Badge /\ deserved \subseteq Badge
  /\ checks \in [Checker -> Check]
  /\ events \in 0..MaxBadgeEvents

Init ==
  /\ payments = 0 /\ reached = FALSE /\ held = {} /\ deserved = {}
  /\ checks = [c \in Checker |-> Idle] /\ events = 0

-----------------------------------------------------------------------------
EarnedBy(n) == {b \in PaymentBadges : n >= Needs[b]}
Event == events < MaxBadgeEvents /\ events' = events + 1

\* A check takes its next step, with "with" of its record changed.
Go(c, with) == checks' = [checks EXCEPT ![c] = with]
At(c, pc) == checks[c].pc = pc

\* POST /support-transactions commits a row and starts a check; the indexer's rows
\* start none, nor does a process that dies.
Pay ==
  /\ payments < MaxPayments /\ payments' = payments + 1
  /\ deserved' = deserved \cup EarnedBy(payments')
  /\ \/ UNCHANGED checks
     \/ \E c \in Checks : At(c, "idle") /\ Go(c, [Idle EXCEPT !.pc = "lock"])
  /\ UNCHANGED <<reached, held, events>>

\* A payment reaches a milestone, or its owner changes or deletes it.
Milestone ==
  /\ Event /\ payments > 0
  /\ reached' = ~reached
  /\ deserved' = IF reached' THEN deserved \cup MilestoneBadges ELSE deserved
  /\ UNCHANGED <<payments, held, checks>>

\* sweepBadges comes to the profile: one with a successful payment.
Visit ==
  /\ At(HourlyCheck, "idle") /\ payments > 0
  /\ Go(HourlyCheck, [Idle EXCEPT !.pc = "lock"])
  /\ UNCHANGED <<payments, reached, held, deserved, events>>

-----------------------------------------------------------------------------
(* checkAndAwardBadges.                                                     *)

Lock(c) ==
  /\ At(c, "lock")
  /\ \A d \in Checker : checks[d].pc \in {"idle", "lock"}
  /\ Go(c, [checks[c] EXCEPT !.pc = "awards"])
  /\ UNCHANGED <<payments, reached, held, deserved, events>>

\* Fault seeded for the checks: a profile with some badge is taken to have them all.
HasAny(awarded) == awarded # {}

\* All badges are awarded, and there is nothing to do.
HasAll(awarded) == awarded = Badge

ReadAwards(c) ==
  /\ At(c, "awards")
  /\ Go(c, IF HasAll(held) THEN Idle ELSE [checks[c] EXCEPT !.pc = "payments", !.seen = held])
  /\ UNCHANGED <<payments, reached, held, deserved, events>>

CountPayments(c) ==
  /\ At(c, "payments")
  /\ Go(c, [checks[c] EXCEPT !.pc = "milestones", !.counted = payments])
  /\ UNCHANGED <<payments, reached, held, deserved, events>>

\* shouldAward, of the badges that were not awarded when the check looked.
Awardable(c) ==
  (EarnedBy(checks[c].counted) \cup IF reached THEN MilestoneBadges ELSE {}) \ checks[c].seen

CountMilestones(c) ==
  /\ At(c, "milestones")
  /\ Go(c, [checks[c] EXCEPT !.pc = "insert", !.missing = Awardable(c)])
  /\ UNCHANGED <<payments, reached, held, deserved, events>>

\* An insert.  A row that is there by now is P2002, which the check swallows and
\* which aborts its transaction; whatever it inserts then is an error, and ends it.
Insert(c, b) ==
  LET k == checks[c] IN
  /\ At(c, "insert") /\ b \in k.missing
  /\ Go(c, CASE k.aborted  -> Idle
             [] b \in held -> [k EXCEPT !.missing = @ \ {b}, !.aborted = TRUE]
             [] OTHER      -> [k EXCEPT !.missing = @ \ {b}, !.inserted = @ \cup {b}])
  /\ UNCHANGED <<payments, reached, held, deserved, events>>

\* The callback returns.  To commit an aborted transaction rolls it back.
Commit(c) ==
  /\ At(c, "insert") /\ checks[c].missing = {}
  /\ held' = IF checks[c].aborted THEN held ELSE held \cup checks[c].inserted
  /\ Go(c, Idle)
  /\ UNCHANGED <<payments, reached, deserved, events>>

\* A query fails, the 30 s are over or the process dies: logged at most.
CheckFails(c) ==
  /\ ~At(c, "idle") /\ Event
  /\ Go(c, Idle)
  /\ UNCHANGED <<payments, reached, held, deserved>>

-----------------------------------------------------------------------------
(* The admin.                                                               *)

\* POST /profiles/:username/badges: an insert that waits for a check's insert of the
\* same row; a badge that is held is 409.
Assign(b) ==
  /\ Event
  /\ b \notin held /\ \A c \in Checker : b \notin checks[c].inserted
  /\ held' = held \cup {b} /\ deserved' = deserved \cup {b}
  /\ UNCHANGED <<payments, reached, checks>>

\* DELETE /profiles/:username/badges/:badgeId; a badge that is not held is 404.
RevokeBadge(b) ==
  /\ Event
  /\ b \in held /\ held' = held \ {b}
  /\ UNCHANGED <<payments, reached, checks, deserved>>

CheckStep(c) ==
  \/ Lock(c) \/ ReadAwards(c) \/ CountPayments(c) \/ CountMilestones(c)
  \/ Commit(c) \/ \E b \in Badge : Insert(c, b)

Next ==
  \/ Pay \/ Milestone \/ Visit
  \/ \E c \in Checker : CheckStep(c) \/ CheckFails(c)
  \/ \E b \in Badge : Assign(b) \/ RevokeBadge(b)

-----------------------------------------------------------------------------
\* A badge on the profile was earned at some time, or given by the admin (45-95).
BadgesAreDeserved == held \subseteq deserved

Earned == EarnedBy(payments) \cup IF reached THEN MilestoneBadges ELSE {}

\* What a check lost the sweep makes good: a badge that is earned and stays so is on
\* the profile in the end, whatever failed, was rolled back or revoked (108-115: the
\* safety net that eventually grants it).
EarnedIsAwarded == \A b \in Badge : <>[](b \in Earned) => <>[](b \in held)
=============================================================================
