------------------------- MODULE ScheduledJobProofs -------------------------
(***************************************************************************)
(* Of ScheduledJob, for all values of its constants and however long runs  *)
(* take: runs under way at once were claimed an interval apart, and a run  *)
(* that fails cannot give back the claim of the run that followed it.      *)
(*                                                                         *)
(* Both because the claim of a run under way is the row's or is an         *)
(* interval old: a check that finds the job due finds every such run       *)
(* already old, and a release rewinds the row for the one run, if it is    *)
(* still under way, whose claim is fresh.                                  *)
(*                                                                         *)
(* And how late a job may be, by what has failed so far: nothing, a check, *)
(* a claim or a run; and that pages which start behind the last one leave  *)
(* nobody out.                                                             *)
(***************************************************************************)
EXTENDS ScheduledJob, FiniteSetTheorems, WellFoundedInduction, TLAPS

\* What the argument needs of the types, and a claim is the row's or is old.
ClaimsInv ==
  /\ clock \in Nat /\ lastRunAt \in Nat
  /\ \A x \in runs : x.claim \in Nat /\ x.claim <= clock
                     /\ (x.claim = lastRunAt \/ x.claim + Interval <= clock)
  /\ RunsApart

\* A run on its next page; with the next profile done; and with an error for it.
Paged(x) == [x EXCEPT !.stage = "batch", !.todo = Rows(x), !.cursor = NextCursor(Rows(x)),
                      !.owed = @ \ PassedOver(x.cursor)]
Did(x, p)    == [x EXCEPT !.todo = @ \ {p}]
Missed(x, p) == [x EXCEPT !.todo = @ \ {p}, !.owed = @ \ {p}]
\* One that owes a profile nothing any more.
Excused(x, p) == [x EXCEPT !.owed = @ \ {p}]

\* A step that does not touch the clock and the row, and replaces a run by one
\* with the same claim or takes runs away, changes nothing.
LEMMA ReplacedKeeps ==
  ASSUME ClaimsInv, UNCHANGED <<clock, lastRunAt>>,
         NEW x \in runs, NEW y, y.claim = x.claim,
         runs' = (runs \ {x}) \cup {y}
  PROVE  ClaimsInv'
<1>1. \A z \in runs' : z = y \/ (z \in runs /\ z # x)
  OBVIOUS
<1>2. \A z \in runs' : z.claim \in Nat /\ z.claim <= clock'
                      /\ (z.claim = lastRunAt' \/ z.claim + Interval <= clock')
  BY <1>1 DEF ClaimsInv
<1>3. ASSUME NEW u \in runs', NEW v \in runs', u # v
      PROVE  u.claim >= v.claim + Interval \/ v.claim >= u.claim + Interval
  BY <1>1, <1>3 DEF ClaimsInv, RunsApart
<1> QED BY <1>2, <1>3 DEF ClaimsInv, RunsApart

LEMMA FewerKeeps ==
  ASSUME ClaimsInv, UNCHANGED <<clock, lastRunAt>>, runs' \subseteq runs
  PROVE  ClaimsInv'
  BY DEF ClaimsInv, RunsApart

\* A changed preference leaves the runs their claims.
LEMMA OptKeeps ==
  ASSUME ClaimsInv, NEW p \in Profile, Opt(p)
  PROVE  ClaimsInv'
<1>1. runs' = {Excused(x, p) : x \in runs} /\ UNCHANGED <<clock, lastRunAt>>
  BY DEF Opt, Excused
<1>0. \A x \in runs : Excused(x, p).claim = x.claim
  BY DEF Excused
<1>2. \A z \in runs' : \E x \in runs : z = Excused(x, p) /\ z.claim = x.claim
  BY <1>0, <1>1
<1>3. \A z \in runs' : z.claim \in Nat /\ z.claim <= clock'
                      /\ (z.claim = lastRunAt' \/ z.claim + Interval <= clock')
  BY <1>1, <1>2 DEF ClaimsInv
<1>4. ASSUME NEW u \in runs', NEW v \in runs', u # v
      PROVE  u.claim >= v.claim + Interval \/ v.claim >= u.claim + Interval
  <2>1. PICK x \in runs : u = Excused(x, p) /\ u.claim = x.claim
    BY <1>2
  <2>2. PICK y \in runs : v = Excused(y, p) /\ v.claim = y.claim
    BY <1>2
  <2>3. x # y
    BY <1>4, <2>1, <2>2
  <2> QED BY <2>1, <2>2, <2>3 DEF ClaimsInv, RunsApart
<1> QED BY <1>1, <1>3, <1>4 DEF ClaimsInv, RunsApart

\* A check begins a run only when every other was claimed an interval ago.
LEMMA CheckKeepsClaims ==
  ASSUME ClaimsInv, NEW r \in Replica, NEW waiting, Check(r, waiting), UNCHANGED clock
  PROVE  ClaimsInv' /\ (lastRunAt' # lastRunAt => lastRunAt' >= lastRunAt + Interval)
<1>1. CASE Due(clock) /\ lastRunAt' = clock
           /\ runs' = runs \cup {NewRun(r)}
  <2> DEFINE new == NewRun(r)
  <2>1. clock \in Nat /\ lastRunAt \in Nat /\ Interval \in Nat \ {0} /\ clock' = clock
    BY JobAssumption DEF ClaimsInv
  <2>2. lastRunAt + Interval <= clock
    BY <1>1, <2>1 DEF Due
  <2>3. \A z \in runs : z.claim \in Nat /\ z.claim + Interval <= clock
    BY <2>1, <2>2 DEF ClaimsInv
  <2>4. runs' = runs \cup {new} /\ new.claim = clock
    BY <1>1 DEF NewRun
  <2> HIDE DEF new
  <2>5. \A z \in runs' : z.claim \in Nat /\ z.claim <= clock'
                        /\ (z.claim = lastRunAt' \/ z.claim + Interval <= clock')
    BY <1>1, <2>1, <2>3, <2>4
  <2>6. ASSUME NEW u \in runs', NEW v \in runs', u # v
        PROVE  u.claim >= v.claim + Interval \/ v.claim >= u.claim + Interval
    BY <2>1, <2>3, <2>4, <2>6 DEF ClaimsInv, RunsApart
  <2>7. lastRunAt' >= lastRunAt + Interval
    BY <1>1, <2>1, <2>2
  <2> QED BY <1>1, <2>1, <2>5, <2>6, <2>7 DEF ClaimsInv, RunsApart
<1>2. CASE UNCHANGED <<lastRunAt, runs>>
  BY <1>2, FewerKeeps
<1> QED BY <1>1, <1>2 DEF Check

\* A failed run leaves: the row is rewound only when it holds the run's claim,
\* and then every run that stays has an older one.
LEMMA ReleaseKeeps ==
  ASSUME ClaimsInv, NEW x \in runs, Release(x)
  PROVE  ClaimsInv' /\ \A y \in runs' : y.claim = lastRunAt => lastRunAt' = lastRunAt
<1>1. runs' = runs \ {x} /\ UNCHANGED clock
  BY DEF Release
<1>2. lastRunAt' = lastRunAt \/ (lastRunAt = x.claim /\ lastRunAt' = 0)
  BY DEF Release, Released
<1>3. Interval \in Nat \ {0} /\ x.claim \in Nat
  BY JobAssumption DEF ClaimsInv
<1>4. \A y \in runs' : y \in runs /\ y.claim \in Nat /\ y.claim # x.claim
  BY <1>1, <1>3 DEF ClaimsInv, RunsApart
<1>5. CASE lastRunAt' = lastRunAt
  BY <1>1, <1>5, FewerKeeps
<1>6. CASE lastRunAt = x.claim /\ lastRunAt' = 0
  <2>1. \A y \in runs' : y.claim \in Nat /\ y.claim <= clock /\ y.claim + Interval <= clock
    BY <1>4, <1>6 DEF ClaimsInv
  <2> QED BY <1>1, <1>4, <1>6, <2>1 DEF ClaimsInv, RunsApart
<1> QED BY <1>2, <1>5, <1>6

\* What a step does to the claims, and to the row when a run stays that holds it.
LEMMA ClaimsStep ==
  ASSUME ClaimsInv, [Next]_vars
  PROVE  /\ ClaimsInv'
         /\ \A x \in runs : x.claim = lastRunAt /\ x \in runs' /\ lastRunAt' # lastRunAt
                            => lastRunAt' >= lastRunAt + Interval
<1>1. CASE Tick
  <2>1. clock' = clock + 1 /\ UNCHANGED <<lastRunAt, runs>>
    BY <1>1 DEF Tick
  <2>2. Interval \in Nat
    BY JobAssumption
  <2>3. \A x \in runs : x.claim \in Nat /\ x.claim <= clock + 1
                       /\ (x.claim = lastRunAt \/ x.claim + Interval <= clock + 1)
    BY <2>2 DEF ClaimsInv
  <2> QED BY <2>1, <2>3 DEF ClaimsInv, RunsApart
<1>2. ASSUME NEW p \in Profile, Opt(p) PROVE ClaimsInv' /\ lastRunAt' = lastRunAt
  BY <1>2, OptKeeps DEF Opt
<1>3. ASSUME NEW r \in Replica, Start(r) \/ IntervalTick(r) \/ RetryTick(r)
      PROVE  ClaimsInv' /\ (lastRunAt' # lastRunAt => lastRunAt' >= lastRunAt + Interval)
  BY <1>3, CheckKeepsClaims DEF Start, IntervalTick, RetryTick
<1>4. ASSUME NEW r \in Replica, Die(r) PROVE ClaimsInv' /\ lastRunAt' = lastRunAt
  BY <1>4, FewerKeeps DEF Die
<1>5. ASSUME NEW x \in runs, NextPage(x) PROVE ClaimsInv' /\ lastRunAt' = lastRunAt
  <2> DEFINE y == Paged(x)
  <2>1. y.claim = x.claim
    BY DEF Paged
  <2>2. runs' = (runs \ {x}) \cup {y} /\ UNCHANGED <<clock, lastRunAt>>
    BY <1>5 DEF NextPage, Replace, Paged
  <2> QED BY <2>1, <2>2, ReplacedKeeps
<1>6. ASSUME NEW x \in runs, Complete(x) PROVE ClaimsInv' /\ lastRunAt' = lastRunAt
  BY <1>6, FewerKeeps DEF Complete
<1>7. ASSUME NEW x \in runs, Throw(x) PROVE ClaimsInv' /\ lastRunAt' = lastRunAt
  <2>1. [x EXCEPT !.stage = "failed"].claim = x.claim
    OBVIOUS
  <2> QED BY <1>7, <2>1, ReplacedKeeps DEF Throw, Replace
<1>8. ASSUME NEW x \in runs, DoNext(x) PROVE ClaimsInv' /\ lastRunAt' = lastRunAt
  <2>1. PICK y : runs' = (runs \ {x}) \cup {y} /\ y.claim = x.claim
    <3>1. PICK p \in FirstOf(x.todo, 1) : runs' = (runs \ {x}) \cup {Did(x, p)}
                                         \/ runs' = (runs \ {x}) \cup {Missed(x, p)}
      BY <1>8 DEF DoNext, Replace, Did, Missed
    <3>2. Did(x, p).claim = x.claim /\ Missed(x, p).claim = x.claim
      BY DEF Did, Missed
    <3> QED BY <3>1, <3>2
  <2> QED BY <1>8, <2>1, ReplacedKeeps DEF DoNext
<1>9. ASSUME NEW x \in runs, Release(x)
      PROVE  ClaimsInv' /\ \A y \in runs' : y.claim = lastRunAt => lastRunAt' = lastRunAt
  BY <1>9, ReleaseKeeps
<1>10. CASE UNCHANGED vars
  BY <1>10, FewerKeeps DEF vars
<1> QED BY <1>1, <1>2, <1>3, <1>4, <1>5, <1>6, <1>7, <1>8, <1>9, <1>10 DEF Next, Tick, vars

-----------------------------------------------------------------------------
(* The types.                                                              *)

\* Every non-empty set of naturals has a least element.
LEMMA LeastNat ==
  ASSUME NEW S \in SUBSET Nat, S # {}
  PROVE  \E e \in S : \A x \in S : e <= x
<1> DEFINE R == {ss \in Nat \X Nat : ss[1] < ss[2]}
<1>1. IsWellFoundedOn(R, Nat)
  BY NatLessThanWellFounded DEF OpToRel
<1>2. PICK e \in S : \A x \in S : ~(<<x, e>> \in R)
  <2> HIDE DEF R
  <2> QED BY <1>1, WFMin
<1>3. ASSUME NEW x \in S PROVE e <= x
  <2>1. x \in Nat /\ e \in Nat
    OBVIOUS
  <2>2. <<x, e>> \notin R
    BY <1>2
  <2> QED BY <2>1, <2>2
<1> QED BY <1>3

\* A page of profiles has a last one.
LEMMA LastIsOne ==
  ASSUME NEW S \in SUBSET Profile, S # {}
  PROVE  LastOf(S) \in S /\ \A q \in S : q <= LastOf(S)
<1> DEFINE T == {Profiles - q : q \in S}
<1>1. T \in SUBSET Nat /\ T # {}
  <2>1. \A q \in S : Profiles - q \in Nat
    BY JobAssumption DEF Profile
  <2> QED BY <2>1
<1>2. PICK e \in T : \A t \in T : e <= t
  <2> HIDE DEF T
  <2> QED BY <1>1, LeastNat
<1>3. PICK p \in S : e = Profiles - p
  OBVIOUS
<1>4. ASSUME NEW q \in S PROVE q <= p
  <2>1. Profiles - p <= Profiles - q
    BY <1>2, <1>3
  <2> QED BY <2>1, JobAssumption DEF Profile
<1> QED BY <1>3, <1>4 DEF LastOf

\* A page is of profiles, and its cursor is one of them, or none.
LEMMA PageTyped ==
  ASSUME TypeOK, NEW x \in runs
  PROVE  Rows(x) \subseteq Profile /\ NextCursor(Rows(x)) \in 0..Profiles
<1>1. Rows(x) \subseteq Profile
  BY DEF TypeOK, Rows, Page, Matching, FirstOf
<1>2. Cardinality(Rows(x)) = BatchSize => Rows(x) # {}
  BY JobAssumption, FS_EmptySet
<1>3. Cardinality(Rows(x)) = BatchSize => LastOf(Rows(x)) \in Profile
  BY <1>1, <1>2, LastIsOne
<1> QED BY <1>1, <1>3, JobAssumption DEF NextCursor, Profile, NoCursor

\* A changed preference leaves every run its owner, its claim and its stage.
LEMMA OptRuns ==
  ASSUME NEW p \in Profile, Opt(p)
  PROVE  /\ \A x \in runs : \E y \in runs' : y.owner = x.owner /\ y.claim = x.claim /\ y.stage = x.stage
         /\ \A y \in runs' : \E x \in runs : y.owner = x.owner /\ y.claim = x.claim /\ y.stage = x.stage
<1>1. runs' = {Excused(x, p) : x \in runs}
  BY DEF Opt, Excused
<1>2. \A x \in runs : /\ Excused(x, p).owner = x.owner /\ Excused(x, p).claim = x.claim
                      /\ Excused(x, p).stage = x.stage
  BY DEF Excused
<1> QED BY <1>1, <1>2

\* A run that goes on, or fails, is the same run.
LEMMA Goes ==
  ASSUME TypeOK, NEW x \in runs, NextPage(x) \/ Throw(x) \/ DoNext(x)
  PROVE  /\ UNCHANGED <<clock, lastRunAt, tickAt, retryAt, completedBy, crashes>>
         /\ \E y \in Run :
              /\ runs' = (runs \ {x}) \cup {y}
              /\ y.owner = x.owner /\ y.claim = x.claim
              /\ \/ (y.stage = "failed" <=> x.stage = "failed") /\ (UNCHANGED errors \/ Error)
                 \/ x.stage # "failed" /\ y.stage = "failed" /\ Error
<1>1. x \in Run
  BY DEF TypeOK
<1>2. CASE NextPage(x)
  <2> DEFINE y == Paged(x)
  <2>1. y \in Run /\ y.owner = x.owner /\ y.claim = x.claim /\ y.stage = "batch"
    BY <1>1, PageTyped DEF Run, Paged
  <2>2. runs' = (runs \ {x}) \cup {y} /\ x.stage # "failed"
    BY <1>2 DEF NextPage, Replace, AtPageEnd, Paged
  <2> HIDE DEF y
  <2> QED BY <1>2, <2>1, <2>2 DEF NextPage, timerVars, boundVars
<1>3. CASE Throw(x)
  <2> DEFINE y == [x EXCEPT !.stage = "failed"]
  <2>1. y \in Run /\ y.owner = x.owner /\ y.claim = x.claim /\ y.stage = "failed"
    BY <1>1 DEF Run
  <2>2. runs' = (runs \ {x}) \cup {y} /\ x.stage # "failed"
    BY <1>3 DEF Throw, Replace, AtPageEnd
  <2> HIDE DEF y
  <2> QED BY <1>3, <2>1, <2>2 DEF Throw, timerVars
<1>4. CASE DoNext(x)
  <2>1. PICK p \in FirstOf(x.todo, 1) : runs' = (runs \ {x}) \cup {Did(x, p)}
                                       \/ runs' = (runs \ {x}) \cup {Missed(x, p)}
    BY <1>4 DEF DoNext, Replace, Did, Missed
  <2>2. \A y \in {Did(x, p), Missed(x, p)} :
          y \in Run /\ y.owner = x.owner /\ y.claim = x.claim /\ y.stage = x.stage
    BY <1>1 DEF Run, Did, Missed
  <2>3. UNCHANGED errors \/ Error
    BY <1>4 DEF DoNext
  <2> QED BY <1>4, <2>1, <2>2, <2>3 DEF DoNext, timerVars
<1> QED BY <1>2, <1>3, <1>4

\* A check keeps the row, the runs, the retries and the count of errors well-formed.
LEMMA CheckTyped ==
  ASSUME TypeOK, NEW r \in Replica, NEW waiting \in clock..clock + RetryDelay \cup {Never},
         Check(r, waiting)
  PROVE  /\ lastRunAt' \in 0..clock /\ runs' \subseteq Run
         /\ retryAt' \in [Replica -> clock..clock + RetryDelay \cup {Never}]
         /\ errors' \in 0..MaxErrors
<1>1. clock \in Nat /\ RetryDelay \in Nat /\ MaxErrors \in Nat
  BY JobAssumption DEF TypeOK
<1>2. RetryLater(waiting) \in clock..clock + RetryDelay \cup {Never}
  BY <1>1 DEF RetryLater
<1>3. retryAt' \in [Replica -> clock..clock + RetryDelay \cup {Never}]
  BY <1>2 DEF Check, TypeOK
<1> DEFINE new == NewRun(r)
<1>4. new \in Run
  BY <1>1, JobAssumption DEF NewRun, Run, NoCursor
<1>5. /\ lastRunAt' = clock \/ lastRunAt' = lastRunAt
      /\ runs' = runs \cup {new} \/ runs' = runs
      /\ errors' = errors \/ Error
  BY DEF Check
<1> HIDE DEF new
<1>6. lastRunAt' \in 0..clock /\ errors' \in 0..MaxErrors
  BY <1>1, <1>5 DEF TypeOK, Error
<1>7. runs' \subseteq Run
  BY <1>4, <1>5 DEF TypeOK
<1> QED BY <1>3, <1>6, <1>7

\* Every step keeps the types.
LEMMA TypesStep == ASSUME TypeOK, ClaimsInv, [Next]_vars PROVE TypeOK'
<1>1. /\ clock \in Nat /\ Interval \in Nat \ {0} /\ RetryDelay \in Nat /\ Profiles \in Nat
      /\ MaxErrors \in Nat /\ MaxCrashes \in Nat /\ MaxChanges \in Nat
  BY JobAssumption DEF TypeOK
<1>2. CASE Tick
  <2>1. \A r \in Replica : tickAt[r] \in (clock + 1)..(clock + 1) + Interval \cup {Never}
    BY <1>1, <1>2 DEF Tick, TypeOK
  <2>2. \A r \in Replica : retryAt[r] \in (clock + 1)..(clock + 1) + RetryDelay \cup {Never}
    BY <1>1, <1>2 DEF Tick, TypeOK
  <2> QED BY <1>1, <1>2, <2>1, <2>2 DEF Tick, TypeOK, timerVars, boundVars
<1>3. ASSUME NEW p \in Profile, Opt(p) PROVE TypeOK'
  <2>1. \A x \in runs : Excused(x, p) \in Run
    BY DEF TypeOK, Run, Excused
  <2>2. runs' \subseteq Run
    BY <1>3, <2>1 DEF Opt, Excused
  <2> QED BY <1>1, <1>3, <2>2 DEF Opt, TypeOK, timerVars
<1>4. ASSUME NEW r \in Replica, Start(r) \/ IntervalTick(r) \/ RetryTick(r) PROVE TypeOK'
  <2>1. retryAt[r] \in clock..clock + RetryDelay \cup {Never}
    BY DEF TypeOK
  <2>2. PICK waiting \in clock..clock + RetryDelay \cup {Never} : Check(r, waiting)
    BY <1>4, <2>1 DEF Start, IntervalTick, RetryTick
  <2>3. /\ UNCHANGED <<clock, opted, doneBy, completedBy, crashes, changes>>
        /\ tickAt' \in [Replica -> clock..clock + Interval \cup {Never}]
    BY <1>1, <1>4 DEF Start, IntervalTick, RetryTick, TypeOK
  <2> QED BY <2>2, <2>3, CheckTyped DEF TypeOK
<1>5. ASSUME NEW r \in Replica, Die(r) PROVE TypeOK'
  BY <1>1, <1>5 DEF Die, TypeOK
<1>6. ASSUME NEW x \in runs, NextPage(x) PROVE TypeOK'
  <2> DEFINE y == Paged(x)
  <2>1. y \in Run
    BY PageTyped DEF TypeOK, Run, Paged
  <2>2. runs' = (runs \ {x}) \cup {y}
    BY <1>6 DEF NextPage, Replace, Paged
  <2> HIDE DEF y
  <2> QED BY <1>6, <2>1, <2>2 DEF NextPage, TypeOK, timerVars, boundVars
<1>7. ASSUME NEW x \in runs, Complete(x) PROVE TypeOK'
  BY <1>7 DEF Complete, TypeOK, ClaimsInv, Newer, timerVars, boundVars
<1>8. ASSUME NEW x \in runs, Throw(x) PROVE TypeOK'
  <2>1. [x EXCEPT !.stage = "failed"] \in Run
    BY DEF TypeOK, Run
  <2> QED BY <1>1, <1>8, <2>1 DEF Throw, Replace, Error, TypeOK, timerVars
<1>9. ASSUME NEW x \in runs, DoNext(x) PROVE TypeOK'
  <2>1. PICK p \in FirstOf(x.todo, 1) :
          /\ runs' = (runs \ {x}) \cup {Did(x, p)} \/ runs' = (runs \ {x}) \cup {Missed(x, p)}
          /\ \/ doneBy' = [doneBy EXCEPT ![p] = Newer(@, x.claim)] /\ UNCHANGED errors
             \/ Error /\ UNCHANGED doneBy
    BY <1>9 DEF DoNext, Replace, Did, Missed
  <2>2. x \in Run /\ p \in Profile /\ x.claim \in 0..clock
    BY DEF TypeOK, ClaimsInv, FirstOf, Run
  <2>3. Did(x, p) \in Run /\ Missed(x, p) \in Run
    BY <2>2 DEF Run, Did, Missed
  <2>4. runs' \subseteq Run
    BY <2>1, <2>3 DEF TypeOK
  <2>5. doneBy' \in [Profile -> 0..clock] /\ errors' \in 0..MaxErrors
    BY <1>1, <2>1, <2>2 DEF Newer, Error, TypeOK
  <2> QED BY <1>9, <2>4, <2>5 DEF DoNext, TypeOK, timerVars
<1>10. ASSUME NEW x \in runs, Release(x) PROVE TypeOK'
  <2>1. x.owner \in Replica
    BY DEF TypeOK, Run
  <2>2. RetryLater(retryAt[x.owner]) \in clock..clock + RetryDelay \cup {Never}
    BY <1>1, <2>1 DEF RetryLater, TypeOK
  <2>3. retryAt' \in [Replica -> clock..clock + RetryDelay \cup {Never}]
    BY <1>10, <2>2 DEF Release, TypeOK
  <2>4. lastRunAt' \in 0..clock /\ errors' \in 0..MaxErrors
    BY <1>1, <1>10 DEF Release, Released, Error, TypeOK
  <2> QED BY <1>10, <2>3, <2>4 DEF Release, TypeOK
<1>11. CASE UNCHANGED vars
  BY <1>11 DEF vars, timerVars, boundVars, TypeOK
<1> QED BY <1>2, <1>3, <1>4, <1>5, <1>6, <1>7, <1>8, <1>9, <1>10, <1>11 DEF Next

\* And so do the initial states.
LEMMA TypesInit == ASSUME Init PROVE TypeOK /\ ClaimsInv
<1>1. TypeOK
  BY JobAssumption DEF Init, TypeOK
<1>2. ClaimsInv
  BY JobAssumption DEF Init, ClaimsInv, RunsApart
<1> QED BY <1>1, <1>2

-----------------------------------------------------------------------------
(* A claim that was completed is like one under way: an interval from the others. *)

\* The row holds the newest claim, if it holds one.
DatedInv ==
  /\ Interval <= clock /\ lastRunAt <= clock
  /\ completedBy = lastRunAt \/ completedBy + Interval <= clock
  /\ \A x \in runs : x.claim >= completedBy + Interval \/ completedBy >= x.claim + Interval
  /\ lastRunAt # 0 => completedBy <= lastRunAt /\ \A x \in runs : x.claim <= lastRunAt

\* The numbers that are compared.
LEMMA Numbers ==
  ASSUME TypeOK, ClaimsInv
  PROVE  /\ clock \in Nat /\ lastRunAt \in Nat /\ completedBy \in Nat /\ Interval \in Nat \ {0}
         /\ \A x \in runs : x.claim \in Nat
  BY JobAssumption DEF TypeOK, ClaimsInv

\* A step without a claim, a completion or a release.
LEMMA DatedKept ==
  ASSUME TypeOK, ClaimsInv, DatedInv, clock' \in {clock, clock + 1},
         UNCHANGED <<lastRunAt, completedBy>>,
         \A y \in runs' : \E x \in runs : y.claim = x.claim
  PROVE  DatedInv'
<1>1. /\ Interval <= clock' /\ lastRunAt <= clock'
      /\ completedBy = lastRunAt \/ completedBy + Interval <= clock'
  BY Numbers DEF DatedInv
<1>2. /\ \A y \in runs' : y.claim >= completedBy + Interval \/ completedBy >= y.claim + Interval
      /\ lastRunAt # 0 => completedBy <= lastRunAt /\ \A y \in runs' : y.claim <= lastRunAt
  BY DEF DatedInv
<1> QED BY <1>1, <1>2 DEF DatedInv

\* A check that finds the job due finds every claim an interval old.
LEMMA DatedCheck ==
  ASSUME TypeOK, ClaimsInv, DatedInv, NEW r \in Replica, NEW waiting, Check(r, waiting),
         UNCHANGED <<clock, completedBy>>
  PROVE  DatedInv'
<1> DEFINE new == NewRun(r)
<1>1. \/ Due(clock) /\ lastRunAt' = clock /\ runs' = runs \cup {new} /\ new.claim = clock
      \/ UNCHANGED <<lastRunAt, runs>>
  BY DEF Check, NewRun
<1> HIDE DEF new
<1>2. CASE UNCHANGED <<lastRunAt, runs>>
  BY <1>2, DatedKept
<1>3. CASE Due(clock) /\ lastRunAt' = clock /\ runs' = runs \cup {new} /\ new.claim = clock
  <2>1. lastRunAt + Interval <= clock
    BY <1>3, Numbers DEF Due
  <2>2. completedBy + Interval <= clock
    BY <2>1, Numbers DEF DatedInv
  <2>3. \A y \in runs' :
          /\ y.claim >= completedBy + Interval \/ completedBy >= y.claim + Interval
          /\ y.claim <= clock
    BY <1>3, <2>2, Numbers DEF DatedInv, ClaimsInv
  <2> QED BY <1>3, <2>1, <2>2, <2>3, Numbers DEF DatedInv
<1> QED BY <1>1, <1>2, <1>3

\* Every step keeps the dates.
LEMMA DatedStep == ASSUME TypeOK, ClaimsInv, DatedInv, [Next]_vars PROVE DatedInv'
<1>1. ASSUME NEW p \in Profile, Opt(p) PROVE DatedInv'
  BY <1>1, OptRuns, DatedKept DEF Opt
<1>2. CASE Tick \/ (\E r \in Replica : Die(r)) \/ UNCHANGED vars
  BY <1>2, DatedKept DEF Tick, Die, vars
<1>3. ASSUME NEW r \in Replica, Start(r) \/ IntervalTick(r) \/ RetryTick(r) PROVE DatedInv'
  BY <1>3, DatedCheck DEF Start, IntervalTick, RetryTick
<1>4. ASSUME NEW x \in runs, NextPage(x) \/ Throw(x) \/ DoNext(x) PROVE DatedInv'
  BY <1>4, Goes, DatedKept
<1>5. ASSUME NEW x \in runs, Complete(x) PROVE DatedInv'
  <2>1. /\ runs' = runs \ {x} /\ UNCHANGED <<clock, lastRunAt>>
        /\ completedBy' = x.claim \/ completedBy' = completedBy
    BY <1>5 DEF Complete, Newer
  <2>2. \A y \in runs' : y.claim >= x.claim + Interval \/ x.claim >= y.claim + Interval
    BY <2>1 DEF ClaimsInv, RunsApart
  <2>3. x.claim = lastRunAt \/ x.claim + Interval <= clock
    BY DEF ClaimsInv
  <2>4. lastRunAt # 0 => x.claim <= lastRunAt
    BY DEF DatedInv
  <2> QED BY <2>1, <2>2, <2>3, <2>4 DEF DatedInv
<1>6. ASSUME NEW x \in runs, Release(x) PROVE DatedInv'
  <2>1. /\ runs' = runs \ {x} /\ UNCHANGED <<clock, completedBy>>
        /\ lastRunAt' = lastRunAt \/ (lastRunAt = x.claim /\ lastRunAt' = 0)
    BY <1>6 DEF Release, Released
  <2>2. CASE lastRunAt' = lastRunAt
    BY <2>1, <2>2, DatedKept
  <2>3. CASE lastRunAt = x.claim /\ lastRunAt' = 0
    <3>1. completedBy # lastRunAt
      BY <2>3, Numbers DEF DatedInv
    <3> QED BY <2>1, <2>3, <3>1, Numbers DEF DatedInv
  <2> QED BY <2>1, <2>2, <2>3
<1> QED BY <1>1, <1>2, <1>3, <1>4, <1>5, <1>6 DEF Next

-----------------------------------------------------------------------------
(* How late the job can be.                                                *)

\* A claim of p or later is completed, or under way and not failed.
Covered(p) == completedBy >= p \/ \E y \in runs : y.stage # "failed" /\ y.claim >= p

\* The row's claim is the first of all, or follows one an interval before it.
CoveredBefore ==
  \/ completedBy = 0 /\ \A y \in runs : y.claim = lastRunAt
  \/ completedBy >= lastRunAt - Interval
  \/ \E y \in runs : /\ y.stage # "failed"
                     /\ y.claim # lastRunAt /\ y.claim >= lastRunAt - Interval

TickOn(t) == \E r \in Replica : tickAt[r] = t
TickBy(t) == \E r \in Replica : tickAt[r] # Never /\ tickAt[r] <= t

\* Before the first error every claim is made by a tick, and the replica that made the
\* row's ticks an interval after it.
NoErrorYet ==
  /\ \A x \in runs : x.stage # "failed"
  /\ \A r \in Replica : retryAt[r] = Never
  /\ lastRunAt = 0 => runs = {} /\ completedBy = 0
  /\ lastRunAt # 0 => Covered(lastRunAt) /\ CoveredBefore /\ TickOn(lastRunAt + Interval)

\* The one error was a check's, or in a run that has not the row's claim.
CheckMissed == lastRunAt # 0 /\ Covered(lastRunAt) /\ TickBy(lastRunAt + 2 * Interval)

\* The run that has the row's claim failed.
ClaimFailed ==
  /\ lastRunAt # 0 /\ CoveredBefore /\ TickOn(lastRunAt + Interval)
  /\ \E x \in runs : x.stage = "failed" /\ x.claim = lastRunAt

\* Its claim was given back, or none was ever made.
ClaimReleased ==
  /\ lastRunAt = 0
  /\ \/ runs = {} /\ completedBy = 0
     \/ \E p \in Int : Covered(p) /\ TickBy(p + 2 * Interval)

\* Timers and runs are of replicas that are up.
OnlyUp ==
  /\ \A r \in Replica : retryAt[r] # Never => tickAt[r] # Never
  /\ \A x \in runs : tickAt[x.owner] # Never

LateInv ==
  /\ crashes = 0 /\ errors = 0 => NoErrorYet
  /\ crashes = 0 /\ errors = 1 => CheckMissed \/ ClaimFailed \/ ClaimReleased

\* A replica's next tick has not passed.
LEMMA Ticks ==
  ASSUME TypeOK, NEW r \in Replica, tickAt[r] # Never
  PROVE  tickAt[r] \in Int /\ clock <= tickAt[r] /\ tickAt[r] <= clock + Interval
  BY JobAssumption DEF TypeOK

\* A process that goes down takes its timers and runs along.
LEMMA UpStep == ASSUME TypeOK, OnlyUp, [Next]_vars PROVE OnlyUp'
<1>1. clock \in Nat /\ clock + Interval # Never
  BY JobAssumption DEF TypeOK, Never
<1>2. \A x \in runs : x.owner \in Replica
  BY DEF TypeOK, Run
<1>3. CASE Tick \/ UNCHANGED vars
  BY <1>3 DEF Tick, vars, timerVars, OnlyUp
<1>9. ASSUME NEW p \in Profile, Opt(p) PROVE OnlyUp'
  <2>1. \A y \in runs' : \E x \in runs : y.owner = x.owner
    BY <1>9, OptRuns
  <2>2. UNCHANGED <<tickAt, retryAt>>
    BY <1>9 DEF Opt, timerVars
  <2> QED BY <2>1, <2>2 DEF OnlyUp
<1>4. ASSUME NEW r \in Replica, Start(r) \/ IntervalTick(r) \/ RetryTick(r) PROVE OnlyUp'
  <2> DEFINE new == NewRun(r)
  <2>1. PICK waiting : Check(r, waiting)
    BY <1>4 DEF Start, IntervalTick, RetryTick
  <2>2. runs' \subseteq runs \cup {new} /\ new.owner = r
    BY <2>1 DEF Check, NewRun
  <2> HIDE DEF new
  <2>3. tickAt' = tickAt \/ tickAt' = [tickAt EXCEPT ![r] = clock + Interval]
    BY <1>4 DEF Start, IntervalTick, RetryTick
  <2>4. tickAt'[r] # Never /\ \A q \in Replica : tickAt[q] # Never => tickAt'[q] # Never
    <3>1. tickAt' = tickAt => retryAt[r] = clock \/ tickAt[r] # Never
      BY <1>1, <1>4 DEF Start, IntervalTick, RetryTick, TypeOK
    <3>2. tickAt' = tickAt => tickAt[r] # Never
      BY <1>1, <3>1 DEF OnlyUp, Never
    <3> QED BY <1>1, <2>3, <3>2 DEF TypeOK
  <2>5. \A q \in Replica : q # r => retryAt'[q] = retryAt[q]
    BY <2>1 DEF Check, TypeOK
  <2> QED BY <1>2, <2>2, <2>4, <2>5 DEF OnlyUp
<1>5. ASSUME NEW r \in Replica, Die(r) PROVE OnlyUp'
  BY <1>2, <1>5 DEF Die, OnlyUp, TypeOK
<1>6. ASSUME NEW x \in runs, NextPage(x) \/ Throw(x) \/ DoNext(x) PROVE OnlyUp'
  BY <1>6, Goes DEF OnlyUp
<1>7. ASSUME NEW x \in runs, Complete(x) PROVE OnlyUp'
  BY <1>7 DEF Complete, timerVars, OnlyUp
<1>8. ASSUME NEW x \in runs, Release(x) PROVE OnlyUp'
  <2>1. runs' = runs \ {x} /\ tickAt' = tickAt
    BY <1>8 DEF Release
  <2>2. \A q \in Replica : q # x.owner => retryAt'[q] = retryAt[q]
    BY <1>2, <1>8 DEF Release, TypeOK
  <2> QED BY <1>2, <2>1, <2>2 DEF OnlyUp
<1> QED BY <1>3, <1>4, <1>5, <1>6, <1>7, <1>8, <1>9 DEF Next

\* A step that only goes on with the runs, or lets time pass.
LEMMA QuietKeeps ==
  ASSUME LateInv, UNCHANGED <<lastRunAt, tickAt, retryAt, completedBy, errors, crashes>>,
         \A x \in runs : \E y \in runs' : y.claim = x.claim /\ (y.stage = "failed" <=> x.stage = "failed"),
         \A y \in runs' : \E x \in runs : y.claim = x.claim /\ (y.stage = "failed" <=> x.stage = "failed")
  PROVE  LateInv'
<1>1. \A p \in Int : Covered(p) => Covered(p)'
  BY DEF Covered
<1>2. CoveredBefore => CoveredBefore'
  BY DEF CoveredBefore
<1>3. \A t \in Int : (TickOn(t) => TickOn(t)') /\ (TickBy(t) => TickBy(t)')
  BY DEF TickOn, TickBy
<1>4. Covered(lastRunAt) => Covered(lastRunAt)'
  BY DEF Covered
<1>5. /\ TickOn(lastRunAt + Interval) => TickOn(lastRunAt + Interval)'
      /\ TickBy(lastRunAt + 2 * Interval) => TickBy(lastRunAt + 2 * Interval)'
  BY DEF TickOn, TickBy
<1>6. NoErrorYet => NoErrorYet'
  BY <1>2, <1>4, <1>5 DEF NoErrorYet
<1>7. CheckMissed => CheckMissed'
  BY <1>4, <1>5 DEF CheckMissed
<1>8. ClaimFailed => ClaimFailed'
  BY <1>2, <1>5 DEF ClaimFailed
<1>9. ClaimReleased => ClaimReleased'
  <2>1. runs = {} => runs' = {}
    OBVIOUS
  <2>2. \A p \in Int : Covered(p) /\ TickBy(p + 2 * Interval) =>
                       Covered(p)' /\ TickBy(p + 2 * Interval)'
    BY <1>1 DEF TickBy
  <2> QED BY <2>1, <2>2 DEF ClaimReleased
<1> QED BY <1>6, <1>7, <1>8, <1>9 DEF LateInv

\* The three outcomes of a check: a claim, none, and the error.
LEMMA CheckIsInTime ==
  ASSUME TypeOK, ClaimsInv, DatedInv, OnlyUp, LateInv, NEW r \in Replica,
         Start(r) \/ IntervalTick(r) \/ RetryTick(r)
  PROVE  LateInv'
<1> DEFINE new == NewRun(r)
<1>1. /\ clock \in Nat /\ lastRunAt \in Nat /\ completedBy \in Nat /\ Interval \in Nat \ {0}
      /\ \A x \in runs : x.claim \in Nat
      /\ Interval <= clock /\ errors \in Nat /\ clock # Never
  BY Numbers, JobAssumption DEF DatedInv, TypeOK, Never
<1>2. PICK waiting : /\ Check(r, waiting)
                     /\ \/ waiting = retryAt[r] /\ tickAt[r] \in {Never, clock}
                           /\ tickAt' = [tickAt EXCEPT ![r] = clock + Interval]
                        \/ waiting = Never /\ retryAt[r] = clock /\ tickAt' = tickAt
  BY DEF Start, IntervalTick, RetryTick
<1>3. UNCHANGED <<clock, completedBy, crashes>>
  BY DEF Start, IntervalTick, RetryTick
<1>4. \A q \in Replica : q # r => tickAt'[q] = tickAt[q]
  BY <1>2 DEF TypeOK
<1>5. tickAt'[r] \in Int /\ tickAt'[r] # Never /\ tickAt'[r] <= clock + Interval
  <2>1. CASE tickAt' = [tickAt EXCEPT ![r] = clock + Interval]
    BY <1>1, <2>1 DEF TypeOK, Never
  <2>2. CASE retryAt[r] = clock /\ tickAt' = tickAt
    BY <1>1, <2>2, Ticks DEF OnlyUp
  <2> QED BY <1>2, <2>1, <2>2
<1>6. crashes = 0 /\ errors = 0 =>
        /\ waiting = Never /\ tickAt'[r] = clock + Interval
        /\ lastRunAt # 0 => clock <= lastRunAt + Interval
  <2> SUFFICES ASSUME crashes = 0, errors = 0
               PROVE  /\ waiting = Never /\ tickAt'[r] = clock + Interval
                      /\ lastRunAt # 0 => clock <= lastRunAt + Interval
    OBVIOUS
  <2>1. NoErrorYet
    BY DEF LateInv
  <2>2. waiting = Never /\ tickAt' = [tickAt EXCEPT ![r] = clock + Interval]
    BY <1>1, <1>2, <2>1 DEF NoErrorYet
  <2>3. ASSUME lastRunAt # 0 PROVE clock <= lastRunAt + Interval
    <3>1. PICK w \in Replica : tickAt[w] = lastRunAt + Interval
      BY <2>1, <2>3 DEF NoErrorYet, TickOn
    <3>2. tickAt[w] # Never
      BY <1>1, <3>1 DEF Never
    <3> QED BY <3>1, <3>2, Ticks
  <2> QED BY <2>2, <2>3 DEF TypeOK
<1>7. CASE Due(clock) /\ lastRunAt' = clock /\ runs' = runs \cup {new}
           /\ retryAt' = [retryAt EXCEPT ![r] = waiting] /\ UNCHANGED errors
  <2>1. new.claim = clock /\ new.stage = "new"
    BY DEF NewRun
  <2> HIDE DEF new
  <2>2. lastRunAt + Interval <= clock
    BY <1>1, <1>7 DEF Due
  <2>3. lastRunAt' # 0 /\ Covered(lastRunAt)'
    BY <1>1, <1>7, <2>1 DEF Covered
  <2>4. TickBy(lastRunAt + 2 * Interval)'
    <3>1. tickAt'[r] <= lastRunAt' + 2 * Interval
      BY <1>1, <1>5, <1>7
    <3> QED BY <1>5, <3>1 DEF TickBy
  <2>5. ASSUME crashes = 0, errors = 0 PROVE NoErrorYet'
    <3>1. NoErrorYet
      BY <2>5 DEF LateInv
    <3>2. TickOn(lastRunAt + Interval)'
      BY <1>6, <1>7, <2>5 DEF TickOn
    <3>3. CoveredBefore'
      <4>1. CASE lastRunAt = 0
        BY <1>3, <1>7, <2>1, <3>1, <4>1 DEF NoErrorYet, CoveredBefore
      <4>2. CASE lastRunAt # 0
        <5>1. clock = lastRunAt + Interval
          BY <1>1, <1>6, <2>2, <2>5, <4>2
        <5>2. \A y \in runs : y.claim # clock
          BY <1>1, <4>2, <5>1 DEF DatedInv
        <5>3. CASE completedBy >= lastRunAt
          BY <1>1, <1>3, <1>7, <5>1, <5>3 DEF CoveredBefore
        <5>4. ASSUME NEW y \in runs, y.stage # "failed", y.claim >= lastRunAt
              PROVE  CoveredBefore'
          BY <1>1, <1>7, <5>1, <5>2, <5>4 DEF CoveredBefore
        <5> QED BY <3>1, <4>2, <5>3, <5>4 DEF NoErrorYet, Covered
      <4> QED BY <4>1, <4>2
    <3>4. /\ \A x \in runs' : x.stage # "failed"
          /\ \A q \in Replica : retryAt'[q] = Never
      BY <1>6, <1>7, <2>1, <2>5, <3>1 DEF NoErrorYet, TypeOK
    <3> QED BY <2>3, <3>2, <3>3, <3>4 DEF NoErrorYet
  <2> QED BY <1>3, <1>7, <2>3, <2>4, <2>5 DEF LateInv, CheckMissed
<1>8. CASE ~Due(clock) /\ retryAt' = [retryAt EXCEPT ![r] = waiting]
           /\ UNCHANGED <<lastRunAt, runs, errors>>
  <2>1. clock < lastRunAt + Interval /\ lastRunAt # 0
    BY <1>1, <1>8 DEF Due
  <2>2. TickOn(lastRunAt + Interval) => TickOn(lastRunAt + Interval)'
    <3> SUFFICES ASSUME NEW w \in Replica, tickAt[w] = lastRunAt + Interval
                 PROVE  tickAt'[w] = lastRunAt + Interval
      BY <1>8 DEF TickOn
    <3>1. tickAt[w] # clock /\ tickAt[w] # Never
      BY <1>1, <2>1 DEF Never
    <3> QED BY <1>2, <1>4, <3>1
  <2>3. TickBy(lastRunAt + 2 * Interval)'
    <3>1. tickAt'[r] <= lastRunAt' + 2 * Interval
      BY <1>1, <1>5, <1>8, <2>1
    <3> QED BY <1>5, <3>1 DEF TickBy
  <2>4. (Covered(lastRunAt) => Covered(lastRunAt)') /\ (CoveredBefore => CoveredBefore')
    BY <1>3, <1>8 DEF Covered, CoveredBefore
  <2>5. crashes = 0 /\ errors = 0 => \A q \in Replica : retryAt'[q] = Never
    BY <1>6, <1>8 DEF LateInv, NoErrorYet, TypeOK
  <2>6. crashes = 0 /\ errors = 0 => NoErrorYet'
    BY <1>8, <2>1, <2>2, <2>4, <2>5 DEF LateInv, NoErrorYet
  <2>7. /\ CheckMissed => CheckMissed'
        /\ ClaimFailed => ClaimFailed'
        /\ ~ClaimReleased
    BY <1>8, <2>1, <2>2, <2>3, <2>4 DEF CheckMissed, ClaimFailed, ClaimReleased
  <2> QED BY <1>3, <1>8, <2>6, <2>7 DEF LateInv
<1>9. CASE Error /\ UNCHANGED <<lastRunAt, runs>>
  <2> SUFFICES ASSUME crashes = 0, errors = 0 PROVE CheckMissed' \/ ClaimReleased'
    BY <1>1, <1>3, <1>9 DEF Error, LateInv
  <2>1. NoErrorYet
    BY DEF LateInv
  <2>2. CASE lastRunAt = 0
    BY <1>3, <1>9, <2>1, <2>2 DEF NoErrorYet, ClaimReleased
  <2>3. CASE lastRunAt # 0
    <3>1. tickAt'[r] # Never /\ tickAt'[r] <= lastRunAt + 2 * Interval
      BY <1>1, <1>5, <1>6, <2>3
    <3>2. TickBy(lastRunAt + 2 * Interval)'
      BY <1>9, <3>1 DEF TickBy
    <3>3. Covered(lastRunAt)'
      BY <1>3, <1>9, <2>1, <2>3 DEF NoErrorYet, Covered
    <3> QED BY <1>9, <2>3, <3>2, <3>3 DEF CheckMissed
  <2> QED BY <2>2, <2>3
<1> QED BY <1>2, <1>7, <1>8, <1>9 DEF Check

\* A run goes on, or fails with the error.
LEMMA GoesInTime ==
  ASSUME TypeOK, ClaimsInv, DatedInv, LateInv, NEW x \in runs, NextPage(x) \/ Throw(x) \/ DoNext(x)
  PROVE  LateInv'
<1>1. /\ UNCHANGED <<clock, lastRunAt, tickAt, retryAt, completedBy, crashes>>
      /\ errors \in Nat /\ Interval \in Nat
  BY Goes, JobAssumption DEF TypeOK
<1>2. PICK y \in Run :
        /\ runs' = (runs \ {x}) \cup {y} /\ y.claim = x.claim
        /\ \/ (y.stage = "failed" <=> x.stage = "failed") /\ (UNCHANGED errors \/ Error)
           \/ x.stage # "failed" /\ y.stage = "failed" /\ Error
  BY Goes
<1>3. CASE (y.stage = "failed" <=> x.stage = "failed") /\ UNCHANGED errors
  BY <1>1, <1>2, <1>3, QuietKeeps
<1>4. CASE Error
  <2> SUFFICES ASSUME crashes = 0, errors = 0 PROVE CheckMissed' \/ ClaimFailed'
    BY <1>1, <1>4 DEF Error, LateInv
  <2>1. NoErrorYet /\ lastRunAt \in Nat /\ lastRunAt # 0 /\ x.stage # "failed"
    BY Numbers DEF LateInv, NoErrorYet
  <2>2. TickOn(lastRunAt + Interval)' /\ TickBy(lastRunAt + 2 * Interval)'
    <3>1. PICK w \in Replica : tickAt'[w] = lastRunAt + Interval
      BY <1>1, <2>1 DEF NoErrorYet, TickOn
    <3>2. tickAt'[w] # Never /\ tickAt'[w] <= lastRunAt + 2 * Interval
      BY <1>1, <2>1, <3>1 DEF Never
    <3> QED BY <1>1, <3>1, <3>2 DEF TickOn, TickBy
  <2>3. CASE y.stage = "failed" /\ x.claim = lastRunAt
    <3>1. CoveredBefore'
      BY <1>1, <1>2, <2>1, <2>3 DEF NoErrorYet, CoveredBefore
    <3> QED BY <1>1, <1>2, <2>1, <2>2, <2>3, <3>1 DEF ClaimFailed
  <2>4. CASE y.stage # "failed" \/ x.claim # lastRunAt
    <3>1. ASSUME NEW z \in runs, z.stage # "failed", z.claim >= lastRunAt
          PROVE  \E u \in runs' : u.stage # "failed" /\ u.claim >= lastRunAt
      <4>1. z.claim = lastRunAt
        BY <2>1, <3>1, Numbers DEF DatedInv
      <4> QED BY <1>2, <2>4, <3>1, <4>1
    <3>2. Covered(lastRunAt)'
      BY <1>1, <2>1, <3>1 DEF NoErrorYet, Covered
    <3> QED BY <1>1, <2>1, <2>2, <3>2 DEF CheckMissed
  <2> QED BY <2>3, <2>4
<1> QED BY <1>2, <1>3, <1>4

\* A run that completes leaves its claim behind.
LEMMA CompleteInTime ==
  ASSUME TypeOK, ClaimsInv, DatedInv, LateInv, NEW x \in runs, Complete(x)
  PROVE  LateInv'
<1>1. /\ runs' = runs \ {x} /\ x.stage # "failed"
      /\ UNCHANGED <<lastRunAt, tickAt, retryAt, errors, crashes>>
  BY DEF Complete, AtPageEnd, timerVars, boundVars
<1>2. /\ completedBy' \in Nat /\ completedBy <= completedBy' /\ x.claim <= completedBy'
      /\ completedBy \in Nat /\ lastRunAt \in Nat /\ Interval \in Nat
      /\ \A y \in runs : y.claim \in Nat
  BY Numbers DEF Complete, Newer
<1>3. \A p \in Int : Covered(p) => Covered(p)'
  BY <1>1, <1>2 DEF Covered
<1>4. Covered(lastRunAt) => Covered(lastRunAt)'
  BY <1>1, <1>2 DEF Covered
<1>5. CoveredBefore => CoveredBefore' \/ (completedBy = 0 /\ x.claim = lastRunAt)
  BY <1>1, <1>2 DEF CoveredBefore
<1>6. x.claim = lastRunAt => CoveredBefore'
  <2> SUFFICES ASSUME x.claim = lastRunAt PROVE completedBy' >= lastRunAt' - Interval
    BY DEF CoveredBefore
  <2> QED BY <1>1, <1>2
<1>7. /\ TickOn(lastRunAt + Interval) => TickOn(lastRunAt + Interval)'
      /\ TickBy(lastRunAt + 2 * Interval) => TickBy(lastRunAt + 2 * Interval)'
      /\ \A p \in Int : TickBy(p + 2 * Interval) => TickBy(p + 2 * Interval)'
  BY <1>1 DEF TickOn, TickBy
<1>8. NoErrorYet => NoErrorYet'
  BY <1>1, <1>4, <1>5, <1>6, <1>7 DEF NoErrorYet
<1>9. CheckMissed => CheckMissed'
  BY <1>1, <1>4, <1>7 DEF CheckMissed
<1>10. ClaimFailed => ClaimFailed'
  BY <1>1, <1>5, <1>6, <1>7 DEF ClaimFailed
<1>11. ClaimReleased => ClaimReleased'
  BY <1>1, <1>3, <1>7 DEF ClaimReleased
<1> QED BY <1>1, <1>8, <1>9, <1>10, <1>11 DEF LateInv

\* A failed run leaves; what it gives back, the run before it covers.
LEMMA ReleaseInTime ==
  ASSUME TypeOK, ClaimsInv, DatedInv, LateInv, NEW x \in runs, Release(x)
  PROVE  LateInv'
<1>1. /\ runs' = runs \ {x} /\ x.stage = "failed" /\ UNCHANGED <<clock, tickAt, completedBy, crashes>>
      /\ lastRunAt' = lastRunAt \/ (lastRunAt = x.claim /\ lastRunAt' = 0)
      /\ lastRunAt = x.claim => lastRunAt' = 0 \/ Error
      /\ UNCHANGED errors \/ Error
  BY DEF Release, Released
<1>2. /\ clock \in Nat /\ lastRunAt \in Nat /\ completedBy \in Nat /\ Interval \in Nat \ {0}
      /\ (\A y \in runs : y.claim \in Nat) /\ errors \in Nat
  BY Numbers DEF TypeOK
<1>3. crashes # 0 \/ errors # 0
  BY <1>1 DEF LateInv, NoErrorYet
<1> SUFFICES ASSUME crashes = 0, errors = 1, UNCHANGED errors
             PROVE  CheckMissed' \/ ClaimFailed' \/ ClaimReleased'
  BY <1>1, <1>2, <1>3 DEF Error, LateInv
<1>4. errors' = 1 /\ ~Error
  BY <1>2 DEF Error
<1>5. CASE lastRunAt' = lastRunAt /\ (lastRunAt # x.claim \/ lastRunAt = 0)
  <2>1. \A p \in Int : Covered(p) => Covered(p)'
    BY <1>1 DEF Covered
  <2>2. Covered(lastRunAt) => Covered(lastRunAt)'
    BY <1>1, <1>5 DEF Covered
  <2>3. CoveredBefore => CoveredBefore'
    BY <1>1, <1>5 DEF CoveredBefore
  <2>4. /\ TickOn(lastRunAt + Interval) => TickOn(lastRunAt + Interval)'
        /\ TickBy(lastRunAt + 2 * Interval) => TickBy(lastRunAt + 2 * Interval)'
        /\ \A p \in Int : TickBy(p + 2 * Interval) => TickBy(p + 2 * Interval)'
    BY <1>1, <1>5 DEF TickOn, TickBy
  <2>5. CheckMissed => CheckMissed'
    BY <1>5, <2>2, <2>4 DEF CheckMissed
  <2>6. ClaimFailed => ClaimFailed'
    BY <1>1, <1>5, <2>3, <2>4 DEF ClaimFailed
  <2>7. ClaimReleased => ClaimReleased'
    BY <1>1, <1>5, <2>1, <2>4 DEF ClaimReleased
  <2> QED BY <2>5, <2>6, <2>7 DEF LateInv
<1>6. CASE lastRunAt = x.claim /\ lastRunAt # 0 /\ lastRunAt' = 0
  <2>1. ~Covered(lastRunAt)
    <3>1. ASSUME NEW y \in runs, y.stage # "failed", y.claim >= lastRunAt PROVE FALSE
      BY <1>1, <1>2, <1>6, <3>1 DEF DatedInv, ClaimsInv, RunsApart
    <3>2. ~(completedBy >= lastRunAt)
      BY <1>2, <1>6 DEF DatedInv
    <3> QED BY <3>1, <3>2 DEF Covered
  <2>2. CoveredBefore /\ TickOn(lastRunAt + Interval)
    BY <1>6, <2>1 DEF LateInv, CheckMissed, ClaimFailed, ClaimReleased
  <2>3. CASE completedBy = 0 /\ \A y \in runs : y.claim = lastRunAt
    <3>1. runs' = {}
      BY <1>1, <1>2, <2>3 DEF ClaimsInv, RunsApart
    <3> QED BY <1>1, <1>6, <2>3, <3>1 DEF ClaimReleased
  <2>4. CASE ~(completedBy = 0 /\ \A y \in runs : y.claim = lastRunAt)
    <3> DEFINE p == lastRunAt - Interval
    <3>1. p \in Int /\ p + 2 * Interval = lastRunAt + Interval
      BY <1>2
    <3>2. completedBy >= p \/ \E y \in runs' : y.stage # "failed" /\ y.claim >= p
      BY <1>1, <2>2, <2>4 DEF CoveredBefore
    <3>3. \E w \in Replica : tickAt[w] # Never /\ tickAt[w] <= p + 2 * Interval
      <4>1. PICK w \in Replica : tickAt[w] = lastRunAt + Interval
        BY <2>2 DEF TickOn
      <4>2. tickAt[w] # Never /\ tickAt[w] <= p + 2 * Interval
        BY <1>2, <3>1, <4>1 DEF Never
      <4> QED BY <4>2
    <3> HIDE DEF p
    <3>4. \E q \in Int : /\ completedBy' >= q \/ \E y \in runs' : y.stage # "failed" /\ y.claim >= q
                         /\ \E w \in Replica : tickAt'[w] # Never /\ tickAt'[w] <= q + 2 * Interval
      BY <1>1, <3>1, <3>2, <3>3
    <3> QED BY <1>6, <3>4 DEF ClaimReleased, Covered, TickBy
  <2> QED BY <2>3, <2>4
<1> QED BY <1>1, <1>4, <1>5, <1>6

\* Every step keeps how late the job can be.
LEMMA LateStep ==
  ASSUME TypeOK, ClaimsInv, DatedInv, OnlyUp, LateInv, [Next]_vars PROVE LateInv'
<1>1. CASE Tick \/ UNCHANGED vars
  <2>1. UNCHANGED <<lastRunAt, tickAt, retryAt, completedBy, errors, crashes, runs>>
    BY <1>1 DEF Tick, vars, timerVars, boundVars
  <2> QED BY <2>1, QuietKeeps
<1>3. ASSUME NEW p \in Profile, Opt(p) PROVE LateInv'
  <2>1. UNCHANGED <<lastRunAt, tickAt, retryAt, completedBy, errors, crashes>>
    BY <1>3 DEF Opt, timerVars
  <2>2. /\ \A x \in runs : \E y \in runs' : y.claim = x.claim /\ (y.stage = "failed" <=> x.stage = "failed")
        /\ \A y \in runs' : \E x \in runs : y.claim = x.claim /\ (y.stage = "failed" <=> x.stage = "failed")
    BY <1>3, OptRuns
  <2> QED BY <2>1, <2>2, QuietKeeps
<1>2. ASSUME NEW r \in Replica, Die(r) PROVE LateInv'
  <2>1. crashes \in Nat /\ crashes' = crashes + 1
    BY <1>2 DEF Die, TypeOK
  <2> QED BY <2>1 DEF LateInv
<1> QED BY <1>1, <1>2, <1>3, CheckIsInTime, GoesInTime, CompleteInTime, ReleaseInTime DEF Next

\* Where no run is under way, the job was completed an interval ago at most, or two
\* after one error.
LEMMA LateIsBounded ==
  ASSUME TypeOK, ClaimsInv, LateInv
  PROVE  OnTime /\ OneIntervalLost
<1>1. clock \in Nat /\ lastRunAt \in Nat /\ completedBy \in Nat /\ Interval \in Nat \ {0} /\ errors \in Nat
  BY Numbers DEF TypeOK
<1>2. ASSUME runs = {}, NEW p \in Int, Covered(p) PROVE completedBy >= p
  BY <1>2 DEF Covered
<1>3. ASSUME NEW t \in Int, TickBy(t) PROVE clock <= t
  BY <1>1, <1>3, Ticks DEF TickBy
<1>4. ASSUME errors = 0, crashes = 0, completedBy # 0, runs = {}
      PROVE  clock - completedBy <= Interval
  <2>1. lastRunAt # 0 /\ Covered(lastRunAt) /\ TickOn(lastRunAt + Interval)
    BY <1>4 DEF LateInv, NoErrorYet
  <2>2. TickBy(lastRunAt + Interval)
    BY <1>1, <2>1 DEF TickOn, TickBy, Never
  <2> QED BY <1>1, <1>2, <1>3, <1>4, <2>1, <2>2
<1>5. ASSUME errors = 1, crashes = 0, completedBy # 0, runs = {}
      PROVE  clock - completedBy <= 2 * Interval
  <2>1. \E p \in Int : Covered(p) /\ TickBy(p + 2 * Interval)
    BY <1>1, <1>5 DEF LateInv, CheckMissed, ClaimFailed, ClaimReleased
  <2> QED BY <1>1, <1>2, <1>3, <1>5, <2>1
<1>6. OnTime
  BY <1>4 DEF OnTime
<1>7. errors <= 1 => errors = 0 \/ errors = 1
  BY <1>1
<1> QED BY <1>1, <1>4, <1>5, <1>6, <1>7 DEF OneIntervalLost

-----------------------------------------------------------------------------
(* Page after page, everybody.                                             *)

\* A run has done the job for everybody it owes, before its cursor or at the last
\* page's end, who is not on its list.
AllDoneInv ==
  \A x \in runs :
    /\ x.stage = "new" => x.cursor = NoCursor
    /\ x.stage = "batch" =>
         \A p \in opted \cap x.owed : p \notin x.todo /\ (x.cursor = NoCursor \/ p <= x.cursor)
                                     => doneBy[p] >= x.claim

Before(S, e) == {q \in S : q < e}

\* Profiles are counted.
LEMMA ProfilesCounted ==
  ASSUME NEW S \in SUBSET Profile
  PROVE  /\ S \in SUBSET Nat /\ IsFiniteSet(S) /\ Cardinality(S) \in Nat
         /\ \A e : Before(S, e) \in SUBSET Profile
<1>1. Profile = 1..Profiles /\ Profiles \in Nat
  BY JobAssumption DEF Profile
<1>2. IsFiniteSet(Profile) /\ Profile \in SUBSET Nat
  BY <1>1, FS_Interval
<1>3. IsFiniteSet(S)
  BY <1>2, FS_Subset
<1> QED BY <1>2, <1>3, FS_CardinalityType DEF Before

\* Whoever is among the rows, but not among the first n, has n of them before.
LEMMA FirstAreFull ==
  ASSUME NEW S \in SUBSET Profile, NEW n \in Nat \ {0}, NEW p \in S, p \notin FirstOf(S, n)
  PROVE  Cardinality(FirstOf(S, n)) = n /\ \A q \in FirstOf(S, n) : q < p
<1> DEFINE T == FirstOf(S, n)
           L == {e \in S : ~(Cardinality(Before(S, e)) < n)}
<1>1. S \in SUBSET Nat
  BY ProfilesCounted
<1>2. \A e : IsFiniteSet(Before(S, e)) /\ Cardinality(Before(S, e)) \in Nat
  BY ProfilesCounted
<1>3. ASSUME NEW e \in S, NEW f \in S, e <= f
      PROVE  Cardinality(Before(S, e)) <= Cardinality(Before(S, f))
  <2>1. e \in Nat /\ f \in Nat
    BY <1>1
  <2>2. Before(S, e) \subseteq Before(S, f)
    <3>1. \A q \in S : q < e => q < f
      BY <1>1, <1>3, <2>1
    <3> QED BY <3>1 DEF Before
  <2> QED BY <1>2, <2>2, FS_Subset
<1>4. T = {e \in S : Cardinality(Before(S, e)) < n} /\ p \in L /\ L \in SUBSET Nat
  BY <1>1 DEF FirstOf, Before
<1>5. PICK m \in L : \A e \in L : m <= e
  <2> HIDE DEF L
  <2> QED BY <1>4, LeastNat
<1>a. m \in S /\ m \in Nat /\ ~(Cardinality(Before(S, m)) < n) /\ m <= p
  BY <1>1, <1>4, <1>5
<1>b. \A e \in S : ~(Cardinality(Before(S, e)) < n) => m <= e
  BY <1>5
<1> HIDE DEF L, T
<1>6. T = Before(S, m)
  <2>1. ASSUME NEW e \in S, Cardinality(Before(S, e)) < n PROVE e < m
    <3>1. ~(m <= e)
      BY <1>2, <1>3, <1>a, <2>1
    <3> QED BY <1>1, <1>a, <3>1
  <2>2. ASSUME NEW e \in S, e < m PROVE Cardinality(Before(S, e)) < n
    BY <1>1, <1>a, <1>b, <2>2
  <2> QED BY <1>4, <2>1, <2>2 DEF Before
<1>7. ASSUME NEW q \in T PROVE q < p
  <2>1. q \in Nat /\ p \in Nat /\ q < m
    BY <1>1, <1>6, <1>7 DEF Before
  <2> QED BY <1>a, <2>1
<1>8. Cardinality(T) \in Nat /\ Cardinality(T) >= n
  BY <1>2, <1>6, <1>a
<1>9. Cardinality(T) <= n
  <2>1. T # {} /\ T \in SUBSET Profile
    BY <1>6, <1>8, FS_EmptySet, ProfilesCounted
  <2>2. PICK l \in T : \A q \in T : q <= l
    BY <2>1, LastIsOne
  <2>3. l \in S /\ l \in Nat /\ l < m /\ \A q \in S : q < m => q <= l
    BY <1>1, <1>6, <2>2 DEF Before
  <2>4. T = Before(S, l) \cup {l} /\ l \notin Before(S, l)
    <3>1. ASSUME NEW q \in S PROVE q < m <=> (q < l \/ q = l)
      <4>1. q \in Nat /\ (q < m => q <= l)
        BY <1>1, <2>3
      <4> QED BY <1>a, <2>3, <4>1
    <3>2. l \notin Before(S, l)
      BY <2>3 DEF Before
    <3>3. Before(S, m) = Before(S, l) \cup {l}
      BY <2>3, <3>1 DEF Before
    <3> QED BY <1>6, <3>2, <3>3
  <2>5. Cardinality(T) = Cardinality(Before(S, l)) + 1
    BY <1>2, <2>4, FS_AddElement
  <2>6. Cardinality(Before(S, l)) < n
    BY <1>4, <2>2
  <2> QED BY <1>2, <2>5, <2>6
<1> QED BY <1>7, <1>8, <1>9 DEF T

\* Whoever still matches after the cursor and is neither on the page nor passed over
\* is after the next cursor, and there is one.
LEMMA NobodyBetween ==
  ASSUME TypeOK, NEW c \in 0..Profiles, NEW p \in opted, c < p,
         p \notin PassedOver(c), p \notin Page(c)
  PROVE  NextCursor(Page(c)) # NoCursor /\ NextCursor(Page(c)) < p
<1> DEFINE rows == Matching(c) \ Skipped(c)
<1>1. /\ Profiles \in Nat /\ BatchSize \in Nat \ {0} /\ opted \subseteq Profile
      /\ p \in Profile /\ p \in Nat /\ c \in Nat
  BY JobAssumption DEF TypeOK, Profile
<1>2. p \in Matching(c) /\ Matching(c) \in SUBSET Profile
  <2>1. p >= c
    BY <1>1
  <2>2. Matching(c) \subseteq opted
    BY DEF Matching
  <2> QED BY <1>1, <2>1, <2>2 DEF Matching
<1>3. p \notin Skipped(c)
  <2>1. CASE c = NoCursor
    BY <2>1 DEF Skipped
  <2>2. CASE c # NoCursor /\ c \in opted
    <3>1. c \in Before(Matching(c), p)
      BY <1>1, <2>2 DEF Matching, Before
    <3>2. Before(Matching(c), p) \in SUBSET Profile
      BY <1>2, ProfilesCounted
    <3>3. IsFiniteSet(Before(Matching(c), p)) /\ Cardinality(Before(Matching(c), p)) \in Nat
      BY <3>2, ProfilesCounted
    <3>4. ~(Cardinality(Before(Matching(c), p)) < 1)
      BY <3>1, <3>3, FS_EmptySet
    <3> QED BY <2>2, <3>4 DEF Skipped, FirstOf, Before
  <2>3. CASE c \notin opted
    BY <2>3 DEF PassedOver
  <2> QED BY <2>1, <2>2, <2>3
<1>4. rows \in SUBSET Profile /\ p \in rows /\ p \notin FirstOf(rows, BatchSize)
      /\ Page(c) = FirstOf(rows, BatchSize)
  BY <1>2, <1>3 DEF Page
<1> HIDE DEF rows
<1>5. Cardinality(Page(c)) = BatchSize /\ \A q \in Page(c) : q < p
  BY <1>1, <1>4, FirstAreFull
<1>6. Page(c) \in SUBSET Profile /\ Page(c) # {}
  BY <1>1, <1>4, <1>5, FS_EmptySet DEF FirstOf
<1>7. LastOf(Page(c)) \in Page(c) /\ LastOf(Page(c)) # 0
  BY <1>1, <1>6, LastIsOne DEF Profile
<1> QED BY <1>5, <1>7 DEF NextCursor, NoCursor

\* Whom a run that completes owes is before its cursor, and done.
LEMMA CompletedForAll ==
  ASSUME TypeOK, AllDoneInv, NEW x \in runs, Complete(x)
  PROVE  \A p \in (opted \cap x.owed) \ PassedOver(x.cursor) : doneBy[p] >= x.claim
<1> SUFFICES ASSUME NEW p \in opted, p \in x.owed, p \notin PassedOver(x.cursor)
             PROVE  doneBy[p] >= x.claim
  OBVIOUS
<1>1. /\ x.cursor \in 0..Profiles /\ x.stage \in {"new", "batch"} /\ Rows(x) = {}
      /\ x.stage = "batch" => x.todo = {}
      /\ Profiles \in Nat /\ BatchSize \in Nat \ {0} /\ p \in 1..Profiles
  BY JobAssumption DEF TypeOK, Run, Complete, AtPageEnd, Profile
<1>2. CASE Rows(x) = Page(x.cursor)
  <2>1. Page(x.cursor) = {} /\ NextCursor({}) = NoCursor
    BY <1>1, <1>2, FS_EmptySet DEF NextCursor
  <2>2. ~(x.cursor < p)
    BY <2>1, <1>1, NobodyBetween
  <2>3. x.stage = "batch" /\ x.todo = {}
    BY <1>1, <2>2 DEF AllDoneInv, NoCursor
  <2> QED BY <1>1, <2>2, <2>3 DEF AllDoneInv
<1>3. CASE x.stage = "batch" /\ x.cursor = NoCursor
  BY <1>1, <1>3 DEF AllDoneInv
<1> QED BY <1>2, <1>3 DEF Rows

\* Steps that do not touch what is done: runs go, or come new.
LEMMA AllDoneKept ==
  ASSUME AllDoneInv, UNCHANGED <<opted, doneBy>>,
         \A x \in runs' : x \in runs \/ (x.stage # "batch" /\ (x.stage = "new" => x.cursor = NoCursor))
  PROVE  AllDoneInv'
  BY DEF AllDoneInv

\* Every step keeps what is done.
LEMMA AllDoneStep == ASSUME TypeOK, ClaimsInv, AllDoneInv, [Next]_vars PROVE AllDoneInv'
<1>1. /\ \A x \in runs : x \in Run /\ x.claim \in Nat /\ x.cursor \in 0..Profiles
      /\ doneBy \in [Profile -> Nat] /\ opted \subseteq Profile
  BY DEF TypeOK, Run
<1>2. CASE Tick \/ UNCHANGED vars
  BY <1>2, AllDoneKept DEF Tick, vars
<1>3. ASSUME NEW p \in Profile, Opt(p) PROVE AllDoneInv'
  <2>1. /\ runs' = {Excused(x, p) : x \in runs} /\ doneBy' = doneBy
        /\ opted' \subseteq opted \cup {p}
    BY <1>3 DEF Opt, Excused
  <2>2. \A x \in runs :
          /\ Excused(x, p).claim = x.claim /\ Excused(x, p).stage = x.stage
          /\ Excused(x, p).todo = x.todo /\ Excused(x, p).cursor = x.cursor
          /\ Excused(x, p).owed = x.owed \ {p}
    BY <1>1 DEF Run, Excused
  <2> QED BY <2>1, <2>2 DEF AllDoneInv
<1>4. ASSUME NEW r \in Replica, Start(r) \/ IntervalTick(r) \/ RetryTick(r) PROVE AllDoneInv'
  <2>1. runs' \subseteq runs \cup {NewRun(r)} /\ UNCHANGED <<opted, doneBy>>
    BY <1>4 DEF Start, IntervalTick, RetryTick, Check
  <2>2. NewRun(r).stage = "new" /\ NewRun(r).cursor = NoCursor
    BY DEF NewRun
  <2> QED BY <2>1, <2>2, AllDoneKept
<1>5. ASSUME NEW r \in Replica, Die(r) PROVE AllDoneInv'
  BY <1>5, AllDoneKept DEF Die
<1>6. ASSUME NEW x \in runs, Complete(x) \/ Release(x) PROVE AllDoneInv'
  BY <1>6, AllDoneKept DEF Complete, Release
<1>7. ASSUME NEW x \in runs, Throw(x) PROVE AllDoneInv'
  <2> DEFINE y == [x EXCEPT !.stage = "failed"]
  <2>1. y.stage = "failed"
    BY <1>1 DEF Run
  <2>2. runs' = (runs \ {x}) \cup {y} /\ UNCHANGED <<opted, doneBy>>
    BY <1>7 DEF Throw, Replace
  <2> HIDE DEF y
  <2> QED BY <2>1, <2>2, AllDoneKept
<1>8. ASSUME NEW x \in runs, NextPage(x) PROVE AllDoneInv'
  <2>1. /\ Paged(x).stage = "batch" /\ Paged(x).todo = Rows(x) /\ Paged(x).claim = x.claim
        /\ Paged(x).cursor = NextCursor(Rows(x)) /\ Paged(x).owed = x.owed \ PassedOver(x.cursor)
    BY <1>1 DEF Run, Paged
  <2>2. runs' = (runs \ {x}) \cup {Paged(x)} /\ UNCHANGED <<opted, doneBy>>
    BY <1>8 DEF NextPage, Replace, Paged
  <2>3. /\ Rows(x) = Page(x.cursor)
        /\ \/ x.stage = "new" /\ x.cursor = NoCursor
           \/ x.stage = "batch" /\ x.todo = {} /\ x.cursor # NoCursor
    BY <1>8 DEF NextPage, Rows, AtPageEnd, AllDoneInv
  <2>4. ASSUME NEW p \in opted, p \in x.owed, p \notin PassedOver(x.cursor), p \notin Rows(x),
               NextCursor(Rows(x)) = NoCursor \/ p <= NextCursor(Rows(x))
        PROVE  doneBy[p] >= x.claim
    <3>1. Profiles \in Nat /\ p \in 1..Profiles
      BY <1>1, JobAssumption DEF Profile
    <3>2. NextCursor(Rows(x)) \in 0..Profiles
      BY PageTyped
    <3>3. ~(x.cursor < p)
      BY <1>1, <2>3, <2>4, <3>1, <3>2, NobodyBetween
    <3>4. p <= x.cursor /\ x.stage = "batch" /\ x.todo = {}
      BY <1>1, <2>3, <3>1, <3>3 DEF NoCursor
    <3> QED BY <2>4, <3>4 DEF AllDoneInv
  <2> QED BY <2>1, <2>2, <2>4 DEF AllDoneInv
<1>9. ASSUME NEW x \in runs, DoNext(x) PROVE AllDoneInv'
  <2>1. PICK p \in FirstOf(x.todo, 1) :
          \/ runs' = (runs \ {x}) \cup {Did(x, p)} /\ doneBy' = [doneBy EXCEPT ![p] = Newer(@, x.claim)]
          \/ runs' = (runs \ {x}) \cup {Missed(x, p)} /\ doneBy' = doneBy
    BY <1>9 DEF DoNext, Replace, Did, Missed
  <2>2. p \in Profile /\ opted' = opted
    BY <1>1, <1>9 DEF DoNext, FirstOf, Run
  <2>3. /\ Did(x, p).stage = x.stage /\ Did(x, p).todo = x.todo \ {p}
        /\ Did(x, p).cursor = x.cursor /\ Did(x, p).claim = x.claim /\ Did(x, p).owed = x.owed
    BY <1>1 DEF Run, Did
  <2>4. /\ Missed(x, p).stage = x.stage /\ Missed(x, p).todo = x.todo \ {p}
        /\ Missed(x, p).cursor = x.cursor /\ Missed(x, p).claim = x.claim
        /\ Missed(x, p).owed = x.owed \ {p}
    BY <1>1 DEF Run, Missed
  <2>5. CASE runs' = (runs \ {x}) \cup {Missed(x, p)} /\ doneBy' = doneBy
    BY <2>2, <2>4, <2>5 DEF AllDoneInv
  <2>6. CASE runs' = (runs \ {x}) \cup {Did(x, p)} /\ doneBy' = [doneBy EXCEPT ![p] = Newer(@, x.claim)]
    <3>1. doneBy'[p] >= x.claim /\ \A q \in Profile : doneBy'[q] \in Nat /\ doneBy'[q] >= doneBy[q]
      BY <1>1, <2>2, <2>6 DEF Newer
    <3>2. \A z \in runs, q \in Profile : doneBy[q] >= z.claim => doneBy'[q] >= z.claim
      BY <1>1, <3>1
    <3> QED BY <1>1, <2>2, <2>3, <2>6, <3>1, <3>2 DEF AllDoneInv
  <2> QED BY <2>1, <2>5, <2>6
<1> QED BY <1>2, <1>3, <1>4, <1>5, <1>6, <1>7, <1>8, <1>9 DEF Next

-----------------------------------------------------------------------------
\* The inductive invariant of the job.
JobInv == TypeOK /\ ClaimsInv /\ DatedInv /\ OnlyUp /\ LateInv /\ AllDoneInv

LEMMA JobInit == ASSUME Init PROVE JobInv
<1>1. Interval \in Nat \ {0}
  BY JobAssumption
<1>2. DatedInv /\ OnlyUp /\ LateInv /\ AllDoneInv
  BY <1>1 DEF Init, DatedInv, OnlyUp, LateInv, NoErrorYet, AllDoneInv
<1> QED BY <1>2, TypesInit DEF JobInv

LEMMA JobStep == ASSUME JobInv, [Next]_vars PROVE JobInv'
  BY TypesStep, ClaimsStep, DatedStep, UpStep, LateStep, AllDoneStep DEF JobInv

\* With nothing gone wrong the job completes every interval; a failure of a claim, of a
\* page or of a run's row costs one interval at most (scheduler-claim.ts:9-44): for any
\* replicas, profiles, interval and retry delay, and however long the runs take.
THEOREM InTime == Spec => []Inv
<1>1. Init => JobInv
  BY JobInit
<1>2. JobInv /\ [Next]_vars => JobInv'
  BY JobStep
<1>3. JobInv => Inv
  BY LateIsBounded DEF JobInv, Inv
<1> QED BY <1>1, <1>2, <1>3, PTL DEF Spec

\* A run that completes has done the job for everybody it was for all along, whatever
\* the page size, however many profiles opt in and out between its pages and whatever
\* fails for others: a full page is followed by the one after its cursor, which passes
\* over nobody unless the cursor's own profile opted out (weekly-digest.ts,
\* badge-awarder.ts).
THEOREM Everybody == Spec => EverybodyDone
<1>1. Init => JobInv
  BY JobInit
<1>2. JobInv /\ [Next]_vars => JobInv'
  BY JobStep
<1>3. JobInv /\ [Next]_vars
      => [\A x \in runs : Complete(x) =>
            \A p \in (opted \cap x.owed) \ PassedOver(x.cursor) : doneBy[p] >= x.claim]_vars
  BY CompletedForAll DEF JobInv
<1> QED BY <1>1, <1>2, <1>3, PTL DEF Spec, EverybodyDone

\* Two replicas that check at once, a retry racing another replica's tick, a
\* restart during a run: one of them has the claim (scheduler-claim.ts:9-11),
\* whatever the number of replicas, the interval and the retry delay.
THEOREM Apart == Spec => []RunsApart
<1>1. Init => ClaimsInv
  BY JobAssumption DEF Init, ClaimsInv, RunsApart
<1>2. ClaimsInv /\ [Next]_vars => ClaimsInv'
  BY ClaimsStep
<1>3. ClaimsInv => RunsApart
  BY DEF ClaimsInv
<1> QED BY <1>1, <1>2, <1>3, PTL DEF Spec

\* However long runs take: while a run is under way whose claim the row holds,
\* only a claim an interval later changes the row; a run that outlived its
\* interval and then fails does not (scheduler-claim.ts:37-38).
THEOREM NewerClaim == Spec => NewerClaimStands
<1>1. Init => ClaimsInv
  BY JobAssumption DEF Init, ClaimsInv, RunsApart
<1>2. ClaimsInv /\ [Next]_vars => ClaimsInv'
  BY ClaimsStep
<1>3. ClaimsInv /\ [Next]_vars
      => [\A x \in runs : x.claim = lastRunAt /\ x \in runs' /\ lastRunAt' # lastRunAt
                          => lastRunAt' >= lastRunAt + Interval]_vars
  BY ClaimsStep
<1> QED BY <1>1, <1>2, <1>3, PTL DEF Spec, NewerClaimStands
=============================================================================
