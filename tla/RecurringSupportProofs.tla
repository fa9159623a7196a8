----------------------- MODULE RecurringSupportProofs -----------------------
(***************************************************************************)
(* Of RecurringSupport, for any number of subscriptions, schedulers and    *)
(* PATCH requests, any periods and page sizes, and sweeps of any age: a    *)
(* subscription is run once per period, and only when it is active and due.*)
(*                                                                         *)
(* A sweep moves nextRunAt on from the time it read, not from the time     *)
(* that is in the row.  This is right because the row's time is later than *)
(* the sweep's now, and the claim is refused, or else it is still whole    *)
(* periods after the time that was read, and the period is the same:       *)
(* SnapshotsAgree.                                                         *)
(***************************************************************************)
EXTENDS RecurringSupport, FiniteSetTheorems, SequenceTheorems, WellFoundedInduction, TLAPS

Execution == [due : 0..MaxClock, at : 0..MaxClock]

\* The rows of a batch were due at the sweep's now; each has since been moved past it, or
\* has moved by whole periods, its frequency being what it was.
SnapshotsAgree ==
  \A k \in Scheduler : \A row \in batch[k] :
    /\ row.due <= now[k]
    /\ \/ nextRunAt[row.id] > now[k]
       \/ /\ frequency[row.id] = row.frequency
          /\ \E j \in Nat : nextRunAt[row.id] = row.due + j * Period[row.frequency]

NowHasCome == \A k \in Scheduler : now[k] <= clock

\* A PATCH of the frequency is about to set the time a period from now.
PatchedFromNow ==
  \A c \in Client : patch[c].active /\ patch[c].change.frequency # "same" =>
    patch[c].runAt = clock + Period[patch[c].change.frequency]

\* The next time is later than an execution, and a period later than it was due.
Follows(t, e) == t > e.at /\ \E f \in Frequency : t >= e.due + Period[f]

RunLater == \A s \in Sub : \A i \in 1..Len(executions[s]) :
  /\ executions[s][i].due <= executions[s][i].at /\ executions[s][i].at <= clock
  /\ i = Len(executions[s]) => Follows(nextRunAt[s], executions[s][i])

Typed ==
  /\ TypeOK
  /\ executions \in [Sub -> Seq(Execution)]
  /\ patch \in [Client -> {NoPatch} \cup
                  [active : {TRUE}, id : Sub, change : Change, runAt : 0..Horizon]]

\* The inductive invariant, beside the types.
PeriodsInv == SnapshotsAgree /\ NowHasCome /\ PatchedFromNow /\ RunLater /\ OnePerPeriod

-----------------------------------------------------------------------------
(* Sets of rows have a first and a last.                                   *)

\* Every non-empty set of naturals has a least element.
LEMMA LeastNat ==
  ASSUME NEW S \in SUBSET Nat, S # {}
  PROVE  \E e \in S : \A x \in S : e <= x
<1> DEFINE R == {ss \in Nat \X Nat : ss[1] < ss[2]}
<1>1. IsWellFoundedOn(R, Nat)
  BY NatLessThanWellFounded DEF OpToRel
<1>2. PICK e \in S : \A x \in S : ~(<<x, e>> \in R)
  <2> HIDE DEF R
  <2> QED BY <1>1, WFMin
<1>3. ASSUME NEW x \in S PROVE e <= x
  <2>1. x \in Nat /\ e \in Nat
    OBVIOUS
  <2>2. <<x, e>> \notin R
    BY <1>2
  <2>3. ~(x < e)
    BY <2>1, <2>2
  <2> QED BY <2>1, <2>3
<1> QED BY <1>3

\* Every non-empty finite set of naturals has a greatest element: the one with the
\* fewest others above it.
LEMMA GreatestNat ==
  ASSUME NEW S \in SUBSET Nat, S # {}, IsFiniteSet(S)
  PROVE  \E e \in S : \A x \in S : x <= e
<1> DEFINE Above(x) == {y \in S : y > x}
           Counts   == {Cardinality(Above(x)) : x \in S}
<1>1. \A x \in S : IsFiniteSet(Above(x)) /\ Cardinality(Above(x)) \in Nat
  BY FS_Subset, FS_CardinalityType
<1>2. Counts \in SUBSET Nat /\ Counts # {}
  BY <1>1
<1>3. PICK n \in Counts : \A m \in Counts : n <= m
  <2> HIDE DEF Counts
  <2> QED BY <1>2, LeastNat
<1>4. PICK e \in S : n = Cardinality(Above(e))
  OBVIOUS
<1>5. ASSUME NEW x \in S, x > e PROVE FALSE
  <2>1. Above(x) \in SUBSET Above(e) /\ x \in Above(e) /\ x \notin Above(x)
    <3>1. x \in Nat /\ e \in Nat /\ ~(x > x)
      OBVIOUS
    <3>2. \A y \in Above(x) : y \in S /\ y \in Nat /\ y > x
      OBVIOUS
    <3>3. \A y \in Above(x) : y \in S /\ y > e
      BY <1>5, <3>1, <3>2
    <3>4. \A y \in Above(x) : y \in Above(e)
      BY <3>3
    <3>5. x \notin Above(x)
      BY <3>1
    <3>6. x \in Above(e)
      BY <1>5
    <3> QED BY <3>4, <3>5, <3>6
  <2>2. Cardinality(Above(e)) <= Cardinality(Above(x))
    BY <1>3, <1>4
  <2>3. Cardinality(Above(x)) <= Cardinality(Above(e))
        /\ (Cardinality(Above(e)) = Cardinality(Above(x)) => Above(e) = Above(x))
    <3> HIDE DEF Above
    <3> QED BY <1>1, <2>1, FS_Subset
  <2>4. Cardinality(Above(x)) \in Nat /\ Cardinality(Above(e)) \in Nat
    BY <1>1
  <2> HIDE DEF Above
  <2> QED BY <2>1, <2>2, <2>3, <2>4
<1> QED BY <1>5

-----------------------------------------------------------------------------
(* Periods.                                                                *)

\* Whole periods after one time: of two such times the later is a period later.
LEMMA WholePeriods ==
  ASSUME NEW d \in Nat, NEW P \in Nat \ {0}, NEW i \in Nat, NEW j \in Nat,
         d + i * P > d + j * P
  PROVE  i - j \in Nat /\ i >= j + 1 /\ d + i * P >= d + j * P + P
<1>1. i > j
  <2>1. SUFFICES ASSUME i <= j PROVE FALSE
    OBVIOUS
  <2>2. PICK m \in Nat : j = i + m
    <3>1. j - i \in Nat /\ j = i + (j - i)
      BY <2>1
    <3> QED BY <3>1
  <2>3. j * P = i * P + m * P
    BY <2>2
  <2>4. m * P \in Nat /\ i * P \in Nat
    OBVIOUS
  <2> QED BY <2>3, <2>4
<1>2. PICK m \in Nat : i = j + 1 + m
  <2>1. i - (j + 1) \in Nat /\ i = j + 1 + (i - (j + 1))
    BY <1>1
  <2> QED BY <2>1
<1>3. i * P = j * P + P + m * P
  BY <1>2
<1>4. m * P \in Nat /\ j * P \in Nat
  OBVIOUS
<1> QED BY <1>1, <1>3, <1>4

\* A time that is whole periods after one stays so with one period more.
LEMMA OneMore ==
  ASSUME NEW d \in Nat, NEW P \in Nat, NEW i \in Nat, i - 1 \in Nat
  PROVE  d + i * P = (d + (i - 1) * P) + P
<1>1. PICK m \in Nat : i = m + 1
  <2>1. i = (i - 1) + 1
    OBVIOUS
  <2> QED BY <2>1
<1>2. i - 1 = m
  BY <1>1
<1>3. i * P = m * P + P
  BY <1>1
<1>4. m * P \in Nat
  OBVIOUS
<1> QED BY <1>2, <1>3, <1>4

\* The time a sweep sets is whole periods after the one it read, after its now and
\* not more than a period after it.
LEMMA AdvanceIs ==
  ASSUME NEW row, row.due \in Nat, row.frequency \in Frequency,
         NEW t \in 0..MaxClock, row.due <= t
  PROVE  /\ Advance(row, t) \in Nat /\ Advance(row, t) > t
         /\ Advance(row, t) <= t + Period[row.frequency]
         /\ \E i \in Nat : Advance(row, t) = row.due + i * Period[row.frequency]
<1> DEFINE P    == Period[row.frequency]
           runs == {row.due + i * P : i \in 1..MaxClock + 1}
           late == {n \in runs : n > t}
<1>1. P \in Nat \ {0} /\ MaxClock \in Nat /\ t \in Nat
  BY RecurringAssumption
<1>2. runs \in SUBSET Nat
  BY <1>1
<1>3. late # {}
  <2>1. row.due + (MaxClock + 1) * P \in runs
    BY <1>1
  <2>2. (MaxClock + 1) * P >= MaxClock + 1
    <3>1. PICK m \in Nat : P = m + 1
      <4>1. P - 1 \in Nat /\ P = (P - 1) + 1
        BY <1>1
      <4> QED BY <4>1
    <3>2. (MaxClock + 1) * P = (MaxClock + 1) * m + (MaxClock + 1)
      BY <1>1, <3>1
    <3>3. (MaxClock + 1) * m \in Nat
      BY <1>1
    <3> QED BY <1>1, <3>2, <3>3
  <2> HIDE DEF P
  <2>3. row.due + (MaxClock + 1) * P > t
    BY <1>1, <2>2
  <2> QED BY <2>1, <2>3
<1>4. PICK n \in late : \A m \in late : n <= m
  <2>1. late \in SUBSET Nat
    BY <1>2
  <2> HIDE DEF late
  <2> QED BY <1>3, <2>1, LeastNat
<1>5. n \in runs /\ n > t /\ \A m \in runs : m > t => n <= m
  BY <1>4
<1>6. Advance(row, t) \in runs /\ Advance(row, t) > t
      /\ \A m \in runs : m > t => Advance(row, t) <= m
  BY <1>5 DEF Advance
<1>7. PICK i \in 1..MaxClock + 1 : Advance(row, t) = row.due + i * P
  BY <1>6
<1>8. Advance(row, t) <= t + P
  <2>1. CASE i = 1
    BY <1>1, <1>7, <2>1
  <2>2. CASE i # 1
    <3> DEFINE before == row.due + (i - 1) * P
    <3>1. i - 1 \in 1..MaxClock + 1
      BY <1>1, <2>2
    <3>2. before \in runs
      BY <3>1
    <3>3. Advance(row, t) = before + P
      BY <1>1, <1>7, <3>1, OneMore
    <3>4. before \in Nat
      BY <1>2, <3>2
    <3>5. before > t => Advance(row, t) <= before
      BY <1>6, <3>2
    <3> HIDE DEF before, P, runs
    <3> QED BY <1>1, <3>3, <3>4, <3>5
  <2> QED BY <2>1, <2>2
<1>9. Advance(row, t) \in Nat
  BY <1>2, <1>6
<1>10. i \in Nat
  BY <1>1
<1> QED BY <1>6, <1>7, <1>8, <1>9, <1>10

-----------------------------------------------------------------------------
(* Types.                                                                  *)

\* The periods are positive, for every frequency.
LEMMA Lengths ==
  /\ Horizon \in Nat
  /\ \A f \in Frequency : Period[f] \in Nat \ {0}
  /\ \A f \in Frequency, t \in 0..MaxClock : t + Period[f] \in 0..Horizon
<1>1. "weekly" \in Frequency /\ "monthly" \in Frequency
  BY DEF Frequency
<1>2. Period["weekly"] \in Nat \ {0} /\ Period["monthly"] \in Nat \ {0} /\ MaxClock \in Nat
  BY <1>1, RecurringAssumption
<1>3. \A f \in Frequency : Period[f] \in Nat \ {0}
  BY RecurringAssumption
<1>4. \A f \in Frequency : f = "weekly" \/ f = "monthly"
  BY DEF Frequency
<1> QED BY <1>2, <1>3, <1>4 DEF Horizon

\* The supports and the schedulers start with their types.
LEMMA TypeInit == ASSUME Init PROVE Typed
<1>1. (CHOOSE a \in Asset : TRUE) \in Asset
  BY RecurringAssumption
<1>2. 0 \in 0..Horizon /\ 0 \in 0..MaxClock /\ 0 \in 0..MaxPatches /\ 0 \in 0..MaxFailures
  BY Lengths, RecurringAssumption
<1>3. <<>> \in Seq(Execution)
  OBVIOUS
<1>4. asset \in [Sub -> Asset]
  BY <1>1 DEF Init
<1> QED BY <1>2, <1>3, <1>4 DEF Init, Typed, TypeOK, Status, Frequency

\* What a page leaves in the sweep.
LEMMA TakeTypes ==
  ASSUME Typed, NEW k \in Scheduler, NEW t \in 0..MaxClock, NEW rows \in SUBSET Sub,
         Take(k, t, rows)
  PROVE  /\ now' \in [Scheduler -> 0..MaxClock]
         /\ batch' \in [Scheduler -> SUBSET Snapshot]
         /\ pc' \in [Scheduler -> {"idle", "batch"}]
         /\ last' \in [Scheduler -> Sub \cup {NoCursor}]
<1>1. 0 \in 0..MaxClock
  BY RecurringAssumption
<1>2. {[id |-> s, due |-> nextRunAt[s], frequency |-> frequency[s], supporter |-> supporter] :
         s \in rows} \in SUBSET Snapshot
  BY DEF Typed, TypeOK, Snapshot
<1>3. Cardinality(rows) = BatchSize => (CHOOSE s \in rows : \A r \in rows : r <= s) \in Sub
  <2>1. SUFFICES ASSUME Cardinality(rows) = BatchSize
                 PROVE  (CHOOSE s \in rows : \A r \in rows : r <= s) \in Sub
    OBVIOUS
  <2>2. IsFiniteSet(rows) /\ rows \in SUBSET Nat
    BY RecurringAssumption, FS_Subset
  <2>3. rows # {}
    BY <2>1, RecurringAssumption, FS_EmptySet
  <2>4. \E s \in rows : \A r \in rows : r <= s
    BY <2>2, <2>3, GreatestNat
  <2> QED BY <2>4
<1>4. now' \in [Scheduler -> 0..MaxClock]
  BY <1>1 DEF Take, Typed, TypeOK
<1>5. batch' \in [Scheduler -> SUBSET Snapshot]
  BY <1>2 DEF Take, Typed, TypeOK
<1>6. pc' \in [Scheduler -> {"idle", "batch"}]
  BY DEF Take, Typed, TypeOK
<1>7. last' \in [Scheduler -> Sub \cup {NoCursor}]
  BY <1>3 DEF Take, Typed, TypeOK
<1> QED BY <1>4, <1>5, <1>6, <1>7

\* A page holds supports that are due.
LEMMA QueryIs ==
  ASSUME NEW t, NEW cursor
  PROVE  Query(t, cursor) \in SUBSET Sub /\ \A s \in Query(t, cursor) : nextRunAt[s] <= t
  BY DEF Query, FirstOf, Due

\* A column changed by a PATCH keeps its type.
LEMMA ChangedTypes ==
  ASSUME NEW T, NEW column \in [Sub -> T], NEW s \in Sub, NEW value, value = "same" \/ value \in T
  PROVE  Changed(column, s, value) \in [Sub -> T]
  BY DEF Changed

\* What a scheduler does with the row it comes to.
LEMMA Claimed ==
  ASSUME Typed, SnapshotsAgree, NEW k \in Scheduler, NEW row \in batch[k],
         Claimable(k, row)
  PROVE  /\ row.id \in Sub /\ row.frequency \in Frequency /\ row.due \in Nat
         /\ now[k] \in 0..MaxClock
         /\ row.due <= now[k] /\ nextRunAt[row.id] <= now[k]
         /\ Advance(row, now[k]) \in 0..Horizon
<1>1. row \in Snapshot /\ now[k] \in 0..MaxClock
  BY DEF Typed, TypeOK
<1>2. row.id \in Sub /\ row.frequency \in Frequency /\ row.due \in Nat
  BY <1>1, Lengths DEF Snapshot
<1>3. row.due <= now[k] /\ nextRunAt[row.id] <= now[k]
  BY DEF SnapshotsAgree, Claimable
<1>4. /\ Advance(row, now[k]) \in Nat
      /\ Advance(row, now[k]) <= now[k] + Period[row.frequency]
  BY <1>1, <1>2, <1>3, AdvanceIs
<1>5. now[k] + Period[row.frequency] \in 0..Horizon
  BY <1>1, <1>2, Lengths
<1>6. Advance(row, now[k]) \in 0..Horizon
  BY <1>4, <1>5, Lengths
<1> QED BY <1>1, <1>2, <1>3, <1>6

\* A PATCH that has read its row.
LEMMA PatchOpen ==
  ASSUME Typed, NEW c \in Client, patch[c].active
  PROVE  patch[c] \in [active : {TRUE}, id : Sub, change : Change, runAt : 0..Horizon]
<1>1. ~NoPatch.active
  BY DEF NoPatch
<1>2. patch[c] = NoPatch
      \/ patch[c] \in [active : {TRUE}, id : Sub, change : Change, runAt : 0..Horizon]
  BY DEF Typed
<1> QED BY <1>1, <1>2, Zenon

\* Every step keeps the types.
LEMMA TypeStep ==
  ASSUME Typed, SnapshotsAgree, [Next]_vars
  PROVE  Typed'
<1> USE DEF rowVars, sweepVars, patchVars
<1>1. CASE Tick
  <2>1. clock' \in 0..MaxClock
    BY <1>1, RecurringAssumption DEF Tick, Typed, TypeOK
  <2> QED BY <1>1, <2>1 DEF Tick, Typed, TypeOK
<1>2. CASE SupporterLeaves
  BY <1>2 DEF SupporterLeaves, Typed, TypeOK
<1>3. ASSUME NEW s \in Sub, NEW a \in Asset, NEW f \in Frequency, Create(s, a, f) PROVE Typed'
  <2>1. clock + Period[f] \in 0..Horizon
    BY Lengths DEF Typed, TypeOK
  <2>2. nextRunAt' \in [Sub -> 0..Horizon]
    BY <1>3, <2>1 DEF Create, Typed, TypeOK
  <2> QED BY <1>3, <2>2 DEF Create, Typed, TypeOK, Status
<1>4. ASSUME NEW s \in Sub, Delete(s) PROVE Typed'
  BY <1>4 DEF Delete, Typed, TypeOK, Status
<1>5. ASSUME NEW s \in Sub, NEW c \in Client, NEW change \in Body, PatchRead(c, s, change)
      PROVE  Typed'
  <2> DEFINE runAt == IF change.frequency = "same" THEN 0 ELSE clock + Period[change.frequency]
             new   == [active |-> TRUE, id |-> s, change |-> change, runAt |-> runAt]
  <2>1. change \in Change
    BY RecurringAssumption
  <2>2. runAt \in 0..Horizon
    BY <2>1, Lengths DEF Change, Typed, TypeOK
  <2>3. new \in [active : {TRUE}, id : Sub, change : Change, runAt : 0..Horizon]
    BY <2>1, <2>2
  <2>4. patch' = [patch EXCEPT ![c] = new]
    BY <1>5 DEF PatchRead
  <2> HIDE DEF new, runAt
  <2>5. patch' \in [Client -> {NoPatch} \cup
                      [active : {TRUE}, id : Sub, change : Change, runAt : 0..Horizon]]
    BY <2>3, <2>4 DEF Typed
  <2>6. patches' \in 0..MaxPatches
    BY <1>5, RecurringAssumption DEF PatchRead, Typed, TypeOK
  <2> QED BY <1>5, <2>5, <2>6 DEF PatchRead, Typed, TypeOK
<1>6. ASSUME NEW c \in Client, PatchWrite(c) PROVE Typed'
  <2>1. patch[c] \in [active : {TRUE}, id : Sub, change : Change, runAt : 0..Horizon]
    BY <1>6, PatchOpen DEF PatchWrite
  <2>2. /\ patch[c].id \in Sub /\ patch[c].runAt \in 0..Horizon
        /\ patch[c].change \in Change
    BY <2>1
  <2>3. /\ patch[c].change.status = "same" \/ patch[c].change.status \in Status
        /\ patch[c].change.frequency = "same" \/ patch[c].change.frequency \in Frequency
        /\ patch[c].change.asset = "same" \/ patch[c].change.asset \in Asset
    BY <2>2 DEF Change, Status
  <2>4. /\ status' \in [Sub -> Status] /\ frequency' \in [Sub -> Frequency]
        /\ asset' \in [Sub -> Asset]
    BY <1>6, <2>2, <2>3, ChangedTypes DEF PatchWrite, Typed, TypeOK
  <2>5. nextRunAt' \in [Sub -> 0..Horizon]
    BY <1>6, <2>2 DEF PatchWrite, Typed, TypeOK
  <2>6. patch' \in [Client -> {NoPatch} \cup
                      [active : {TRUE}, id : Sub, change : Change, runAt : 0..Horizon]]
    BY <1>6 DEF PatchWrite, Typed
  <2> QED BY <1>6, <2>4, <2>5, <2>6 DEF PatchWrite, Typed, TypeOK
<1>7. ASSUME NEW k \in Scheduler, StartSweep(k) PROVE Typed'
  <2>1. clock \in 0..MaxClock
    BY DEF Typed, TypeOK
  <2> QED BY <1>7, <2>1, QueryIs, TakeTypes DEF StartSweep, Typed, TypeOK
<1>8. ASSUME NEW k \in Scheduler, NextPage(k) PROVE Typed'
  <2>1. now[k] \in 0..MaxClock
    BY DEF Typed, TypeOK
  <2>2. (IF last[k] = NoCursor THEN {} ELSE Query(now[k], last[k])) \in SUBSET Sub
    BY QueryIs
  <2> QED BY <1>8, <2>1, <2>2, TakeTypes DEF NextPage, Typed, TypeOK
<1>9. ASSUME NEW k \in Scheduler, ProcessRow(k) PROVE Typed'
  <2>1. PICK row \in batch[k] :
          /\ batch' = [batch EXCEPT ![k] = @ \ {row}]
          /\ IF ~row.supporter
             THEN /\ status' = [status EXCEPT ![row.id] = "cancelled"]
                  /\ UNCHANGED <<nextRunAt, executions>>
             ELSE IF Claimable(k, row)
             THEN /\ executions' = [executions EXCEPT ![row.id] =
                       Append(@, [due |-> nextRunAt[row.id], at |-> now[k]])]
                  /\ nextRunAt' = [nextRunAt EXCEPT ![row.id] = Advance(row, now[k])]
                  /\ UNCHANGED status
             ELSE UNCHANGED <<status, nextRunAt, executions>>
          /\ UNCHANGED <<clock, frequency, asset, supporter, pc, now, last, patchVars, failures>>
    BY <1>9 DEF ProcessRow
  <2>2. row.id \in Sub
    BY DEF Typed, TypeOK, Snapshot
  <2>3. batch' \in [Scheduler -> SUBSET Snapshot] /\ status' \in [Sub -> Status]
    BY <2>1, <2>2 DEF Typed, TypeOK, Status
  <2>4. nextRunAt' \in [Sub -> 0..Horizon] /\ executions' \in [Sub -> Seq(Execution)]
    <3>1. CASE UNCHANGED <<nextRunAt, executions>>
      BY <3>1 DEF Typed, TypeOK
    <3>2. CASE /\ Claimable(k, row)
               /\ executions' = [executions EXCEPT ![row.id] =
                    Append(@, [due |-> nextRunAt[row.id], at |-> now[k]])]
               /\ nextRunAt' = [nextRunAt EXCEPT ![row.id] = Advance(row, now[k])]
      <4>1. /\ now[k] \in 0..MaxClock /\ nextRunAt[row.id] <= now[k]
            /\ Advance(row, now[k]) \in 0..Horizon
        BY <3>2, Claimed
      <4>2. nextRunAt[row.id] \in 0..MaxClock
        <5>1. nextRunAt[row.id] \in 0..Horizon /\ Horizon \in Nat /\ MaxClock \in Nat
          BY <2>2, RecurringAssumption, Lengths DEF Typed, TypeOK
        <5> QED BY <4>1, <5>1
      <4>3. [due |-> nextRunAt[row.id], at |-> now[k]] \in Execution
        BY <4>1, <4>2 DEF Execution
      <4>4. Append(executions[row.id], [due |-> nextRunAt[row.id], at |-> now[k]]) \in Seq(Execution)
        BY <2>2, <4>3, AppendProperties DEF Typed
      <4> QED BY <3>2, <4>1, <4>4 DEF Typed, TypeOK
    <3> QED BY <2>1, <3>1, <3>2
  <2>5. UNCHANGED <<clock, frequency, asset, supporter, pc, now, last, patch, patches, failures>>
    BY <2>1
  <2>6. \A s \in Sub : \A i \in 1..Len(executions'[s]) : executions'[s][i] \in Execution
    BY <2>4, ElementOfSeq
  <2>7. patch' = patch /\ patch \in [Client -> {NoPatch} \cup
                  [active : {TRUE}, id : Sub, change : Change, runAt : 0..Horizon]]
    BY <2>5 DEF Typed
  <2> QED BY <2>3, <2>4, <2>5, <2>6, <2>7 DEF Typed, TypeOK, Execution
<1>10. ASSUME NEW k \in Scheduler, FailRow(k) PROVE Typed'
  <2>1. failures' \in 0..MaxFailures
    BY <1>10, RecurringAssumption DEF FailRow, Typed, TypeOK
  <2>2. batch' \in [Scheduler -> SUBSET Snapshot]
    BY <1>10 DEF FailRow, Typed, TypeOK
  <2> QED BY <1>10, <2>1, <2>2 DEF FailRow, Typed, TypeOK
<1>11. ASSUME NEW k \in Scheduler, Crash(k) PROVE Typed'
  <2>1. failures' \in 0..MaxFailures
    BY <1>11, RecurringAssumption DEF Crash, Typed, TypeOK
  <2>2. 0 \in 0..MaxClock /\ {} \in SUBSET Sub
    BY RecurringAssumption
  <2> QED BY <1>11, <2>1, <2>2, TakeTypes DEF Crash, Typed, TypeOK
<1>12. CASE UNCHANGED vars
  BY <1>12 DEF vars, Typed, TypeOK
<1> QED BY <1>1, <1>2, <1>3, <1>4, <1>5, <1>6, <1>7, <1>8, <1>9, <1>10, <1>11, <1>12
        DEF Next, Sweep

-----------------------------------------------------------------------------
(* Periods are kept.                                                       *)

\* At the start nothing has run and nothing was read.
LEMMA PeriodsInit == ASSUME Init PROVE PeriodsInv
<1>1. \A s \in Sub : Len(executions[s]) = 0
  BY DEF Init
<1>2. SnapshotsAgree /\ NowHasCome
  BY DEF Init, SnapshotsAgree, NowHasCome
<1>3. PatchedFromNow
  BY DEF Init, PatchedFromNow, NoPatch
<1>4. RunLater /\ OnePerPeriod
  BY <1>1 DEF RunLater, OnePerPeriod
<1> QED BY <1>2, <1>3, <1>4 DEF PeriodsInv

\* A step of a handler or of the clock: batches, sweeps and executions stay, and a row
\* whose time or frequency changes gets a time a period from now.
LEMMA RowsChanged ==
  ASSUME Typed, PeriodsInv, UNCHANGED <<sweepVars, executions>>,
         clock' \in Nat, clock' >= clock, PatchedFromNow',
         \A s \in Sub : \/ nextRunAt'[s] = nextRunAt[s] /\ frequency'[s] = frequency[s]
                        \/ \E f \in Frequency : nextRunAt'[s] = clock + Period[f]
  PROVE  PeriodsInv'
<1>1. clock \in Nat /\ \A f \in Frequency : Period[f] \in Nat \ {0}
  BY Lengths, RecurringAssumption DEF Typed, TypeOK
<1>2. \A k \in Scheduler : now[k] \in Nat /\ now[k] <= clock
  BY RecurringAssumption DEF Typed, TypeOK, PeriodsInv, NowHasCome
<1>3. SnapshotsAgree'
  <2>1. ASSUME NEW k \in Scheduler, NEW row \in batch'[k]
        PROVE  /\ row.due <= now'[k]
               /\ \/ nextRunAt'[row.id] > now'[k]
                  \/ /\ frequency'[row.id] = row.frequency
                     /\ \E j \in Nat : nextRunAt'[row.id] = row.due + j * Period[row.frequency]
    <3>1. now'[k] = now[k] /\ row \in batch[k]
      BY <2>1 DEF sweepVars
    <3>2. row.id \in Sub
      BY <3>1 DEF Typed, TypeOK, Snapshot
    <3>3. row.due <= now[k] /\ \/ nextRunAt[row.id] > now[k]
                               \/ /\ frequency[row.id] = row.frequency
                                  /\ \E j \in Nat : nextRunAt[row.id] = row.due + j * Period[row.frequency]
      BY <3>1 DEF PeriodsInv, SnapshotsAgree
    <3>4. CASE nextRunAt'[row.id] = nextRunAt[row.id] /\ frequency'[row.id] = frequency[row.id]
      BY <3>1, <3>3, <3>4
    <3>5. CASE \E f \in Frequency : nextRunAt'[row.id] = clock + Period[f]
      <4>1. PICK f \in Frequency : nextRunAt'[row.id] = clock + Period[f]
        BY <3>5
      <4>2. clock + Period[f] > now[k]
        BY <1>1, <1>2
      <4> QED BY <3>1, <3>3, <4>1, <4>2
    <3> QED BY <3>2, <3>4, <3>5
  <2> QED BY <2>1 DEF SnapshotsAgree
<1>4. NowHasCome'
  BY <1>1, <1>2 DEF NowHasCome, sweepVars
<1>5. RunLater'
  <2>1. ASSUME NEW s \in Sub, NEW i \in 1..Len(executions[s])
        PROVE  /\ executions[s][i].due <= executions[s][i].at /\ executions[s][i].at <= clock'
               /\ i = Len(executions[s]) => Follows(nextRunAt'[s], executions[s][i])
    <3> DEFINE e == executions[s][i]
    <3>1. e \in Execution
      BY ElementOfSeq DEF Typed
    <3>2. e.due \in Nat /\ e.at \in Nat
      BY <3>1, RecurringAssumption DEF Execution
    <3>3. /\ e.due <= e.at /\ e.at <= clock
          /\ i = Len(executions[s]) => Follows(nextRunAt[s], e)
      BY DEF PeriodsInv, RunLater
    <3> HIDE DEF e
    <3>4. ASSUME NEW f \in Frequency, nextRunAt'[s] = clock + Period[f]
          PROVE  Follows(nextRunAt'[s], e)
      <4>1. nextRunAt'[s] > e.at /\ nextRunAt'[s] >= e.due + Period[f]
        BY <1>1, <3>2, <3>3, <3>4
      <4> QED BY <4>1 DEF Follows
    <3>5. i = Len(executions[s]) => Follows(nextRunAt'[s], e)
      BY <3>3, <3>4
    <3>6. e.at <= clock'
      BY <1>1, <3>2, <3>3
    <3> QED BY <3>3, <3>5, <3>6 DEF e
  <2> QED BY <2>1 DEF RunLater
<1>6. OnePerPeriod'
  BY DEF PeriodsInv, OnePerPeriod
<1> QED BY <1>3, <1>4, <1>5, <1>6 DEF PeriodsInv

\* A step of a scheduler that takes a page, or ends its sweep.
LEMMA PageTaken ==
  ASSUME Typed, PeriodsInv, NEW k \in Scheduler, NEW t \in 0..MaxClock, t <= clock,
         NEW rows \in SUBSET Sub, \A s \in rows : nextRunAt[s] <= t, Take(k, t, rows),
         UNCHANGED <<clock, rowVars, executions, patchVars>>
  PROVE  PeriodsInv'
<1>1. SnapshotsAgree'
  <2>1. ASSUME NEW l \in Scheduler, NEW row \in batch'[l]
        PROVE  /\ row.due <= now'[l]
               /\ \/ nextRunAt'[row.id] > now'[l]
                  \/ /\ frequency'[row.id] = row.frequency
                     /\ \E j \in Nat : nextRunAt'[row.id] = row.due + j * Period[row.frequency]
    <3>1. nextRunAt' = nextRunAt /\ frequency' = frequency
      BY DEF rowVars
    <3>2. CASE l # k
      <4>1. now'[l] = now[l] /\ row \in batch[l]
        BY <2>1, <3>2 DEF Take, Typed, TypeOK
      <4> QED BY <3>1, <4>1 DEF PeriodsInv, SnapshotsAgree
    <3>3. CASE l = k
      <4>1. PICK s \in rows : row = [id |-> s, due |-> nextRunAt[s], frequency |-> frequency[s],
                                     supporter |-> supporter]
        BY <2>1, <3>3 DEF Take, Typed, TypeOK
      <4>2. now'[l] = t
        BY <3>3, <4>1 DEF Take, Typed, TypeOK
      <4>3. row.due = nextRunAt[s] /\ row.frequency = frequency[s] /\ row.id = s
        BY <4>1
      <4>4. nextRunAt[s] \in Nat /\ Period[frequency[s]] \in Nat
        <5>1. nextRunAt[s] \in 0..Horizon /\ frequency[s] \in Frequency
          BY DEF Typed, TypeOK
        <5> QED BY <5>1, Lengths
      <4>5. nextRunAt[s] = nextRunAt[s] + 0 * Period[frequency[s]]
        BY <4>4
      <4> QED BY <3>1, <4>2, <4>3, <4>5
    <3> QED BY <3>2, <3>3
  <2> QED BY <2>1 DEF SnapshotsAgree
<1>2. NowHasCome'
  <2>1. 0 <= clock
    BY RecurringAssumption DEF Typed, TypeOK
  <2> QED BY <2>1 DEF PeriodsInv, NowHasCome, Take, Typed, TypeOK
<1>3. PatchedFromNow' /\ RunLater' /\ OnePerPeriod'
  BY DEF PeriodsInv, PatchedFromNow, RunLater, OnePerPeriod, patchVars, rowVars
<1> QED BY <1>1, <1>2, <1>3 DEF PeriodsInv

\* The claim of a row: the time it sets is a period after the time that was due, though
\* it is computed from the time that was read.
LEMMA ClaimIsAPeriodOn ==
  ASSUME Typed, PeriodsInv, NEW k \in Scheduler, NEW row \in batch[k], Claimable(k, row)
  PROVE  /\ frequency[row.id] = row.frequency
         /\ Advance(row, now[k]) > now[k]
         /\ Advance(row, now[k]) >= nextRunAt[row.id] + Period[row.frequency]
         /\ \E i \in Nat : Advance(row, now[k]) = nextRunAt[row.id] + i * Period[row.frequency]
<1> DEFINE P == Period[row.frequency]
           n == Advance(row, now[k])
           r == nextRunAt[row.id]
<1>1. /\ row.id \in Sub /\ row.frequency \in Frequency /\ row.due \in Nat
      /\ now[k] \in 0..MaxClock /\ row.due <= now[k] /\ r <= now[k]
  BY Claimed DEF PeriodsInv
<1>2. n \in Nat /\ n > now[k] /\ \E i \in Nat : n = row.due + i * P
  BY <1>1, AdvanceIs
<1>3. PICK i \in Nat : n = row.due + i * P
  BY <1>2
<1>4. r \in Nat /\ P \in Nat \ {0} /\ now[k] \in Nat
  <2>1. r \in 0..Horizon
    BY <1>1 DEF Typed, TypeOK
  <2> QED BY <1>1, <2>1, Lengths, RecurringAssumption
<1>5. ~(r > now[k])
  BY <1>1, <1>4
<1>6. frequency[row.id] = row.frequency /\ \E j \in Nat : r = row.due + j * P
  BY <1>5 DEF PeriodsInv, SnapshotsAgree
<1>7. PICK j \in Nat : r = row.due + j * P
  BY <1>6
<1> HIDE DEF P, n, r
<1>8. row.due + i * P > row.due + j * P
  BY <1>1, <1>2, <1>3, <1>4, <1>7
<1>9. i - j \in Nat /\ row.due + i * P >= row.due + j * P + P
  BY <1>1, <1>4, <1>8, WholePeriods
<1>10. n >= r + P
  BY <1>3, <1>7, <1>9
<1>11. n = r + (i - j) * P
  <2>1. PICK m \in Nat : i = j + m
    <3>1. i = j + (i - j)
      OBVIOUS
    <3> QED BY <1>9, <3>1
  <2>2. i - j = m
    BY <2>1
  <2>3. i * P = j * P + m * P
    BY <1>4, <2>1
  <2>4. j * P \in Nat /\ m * P \in Nat
    BY <1>4
  <2> QED BY <1>1, <1>3, <1>7, <2>2, <2>3, <2>4
<1> QED BY <1>2, <1>6, <1>9, <1>10, <1>11 DEF P, n, r

\* A claim of a row, which runs it, keeps the periods.
LEMMA RowClaimed ==
  ASSUME Typed, PeriodsInv, NEW k \in Scheduler, NEW row \in batch[k], Claimable(k, row),
         batch' = [batch EXCEPT ![k] = @ \ {row}],
         executions' = [executions EXCEPT ![row.id] =
                          Append(@, [due |-> nextRunAt[row.id], at |-> now[k]])],
         nextRunAt' = [nextRunAt EXCEPT ![row.id] = Advance(row, now[k])],
         UNCHANGED <<clock, frequency, now, patchVars>>
  PROVE  PeriodsInv'
<1> DEFINE P == Period[row.frequency]
           n == Advance(row, now[k])
           r == nextRunAt[row.id]
           e == [due |-> r, at |-> now[k]]
<1>1. /\ row.id \in Sub /\ row.frequency \in Frequency
      /\ now[k] \in 0..MaxClock /\ r <= now[k] /\ n \in 0..Horizon
  BY Claimed DEF PeriodsInv
<1>2. r \in Nat /\ n \in Nat /\ now[k] \in Nat /\ P \in Nat \ {0} /\ clock \in Nat
  <2>1. r \in 0..Horizon /\ clock \in 0..MaxClock
    BY <1>1 DEF Typed, TypeOK
  <2> QED BY <1>1, <2>1, Lengths, RecurringAssumption
<1>3. frequency[row.id] = row.frequency /\ n > now[k] /\ n >= r + P /\ n > r
      /\ \E i \in Nat : n = r + i * P
  <2>1. frequency[row.id] = row.frequency /\ n > now[k] /\ n >= r + P
        /\ \E i \in Nat : n = r + i * P
    BY ClaimIsAPeriodOn
  <2> HIDE DEF P, n, r
  <2> QED BY <1>1, <1>2, <2>1
<1>4. now[k] <= clock
  BY DEF PeriodsInv, NowHasCome
<1>5. nextRunAt'[row.id] = n /\ \A s \in Sub \ {row.id} : nextRunAt'[s] = nextRunAt[s]
  BY <1>1 DEF Typed, TypeOK
<1>6. SnapshotsAgree'
  <2>1. ASSUME NEW l \in Scheduler, NEW other \in batch'[l]
        PROVE  /\ other.due <= now'[l]
               /\ \/ nextRunAt'[other.id] > now'[l]
                  \/ /\ frequency'[other.id] = other.frequency
                     /\ \E j \in Nat : nextRunAt'[other.id] = other.due + j * Period[other.frequency]
    <3>1. other \in batch[l]
      BY <2>1 DEF Typed, TypeOK
    <3>2. other \in Snapshot /\ now[l] \in 0..MaxClock
      BY <3>1 DEF Typed, TypeOK
    <3>3. other.id \in Sub /\ other.due \in Nat /\ now[l] \in Nat
      BY <3>2, Lengths, RecurringAssumption DEF Snapshot
    <3>4. other.due <= now[l] /\ \/ nextRunAt[other.id] > now[l]
                                 \/ /\ frequency[other.id] = other.frequency
                                    /\ \E j \in Nat : nextRunAt[other.id] = other.due + j * Period[other.frequency]
      BY <3>1 DEF PeriodsInv, SnapshotsAgree
    <3>5. CASE other.id # row.id
      BY <1>5, <3>3, <3>4, <3>5
    <3>6. CASE other.id = row.id
      <4> HIDE DEF P, n, r
      <4>1. CASE r > now[l]
        <5>1. n > now[l]
          BY <1>2, <1>3, <3>3, <4>1
        <5> QED BY <1>5, <3>4, <3>6, <5>1
      <4>2. CASE /\ frequency[other.id] = other.frequency
                 /\ \E j \in Nat : r = other.due + j * P
        <5>1. PICK j \in Nat : r = other.due + j * P
          BY <4>2
        <5>2. PICK i \in Nat : n = r + i * P
          BY <1>3
        <5>3. n = other.due + (j + i) * P
          <6>1. (j + i) * P = j * P + i * P
            BY <1>2
          <6>2. j * P \in Nat /\ i * P \in Nat
            BY <1>2
          <6> QED BY <3>3, <5>1, <5>2, <6>1, <6>2
        <5>4. j + i \in Nat
          OBVIOUS
        <5>5. other.frequency = row.frequency
          BY <1>3, <3>6, <4>2
        <5> QED BY <1>5, <3>4, <3>6, <4>2, <5>3, <5>4, <5>5 DEF P
      <4> QED BY <1>3, <3>4, <3>6, <4>1, <4>2 DEF P, r
    <3> QED BY <3>5, <3>6
  <2> QED BY <2>1 DEF SnapshotsAgree
<1>7. executions[row.id] \in Seq(Execution) /\ e \in Execution
  <2>1. r \in 0..MaxClock
    <3> HIDE DEF r
    <3> QED BY <1>1, <1>2, RecurringAssumption
  <2> QED BY <1>1, <2>1 DEF Typed, Execution
<1>8. /\ executions'[row.id] = Append(executions[row.id], e)
      /\ \A s \in Sub \ {row.id} : executions'[s] = executions[s]
  BY <1>1 DEF Typed
<1>9. /\ Len(executions'[row.id]) = Len(executions[row.id]) + 1
      /\ executions'[row.id][Len(executions[row.id]) + 1] = e
      /\ \A i \in 1..Len(executions[row.id]) : executions'[row.id][i] = executions[row.id][i]
      /\ Len(executions[row.id]) \in Nat
  <2> HIDE DEF e
  <2> QED BY <1>7, <1>8, AppendProperties
<1>10. e.due = r /\ e.at = now[k]
  OBVIOUS
<1>11. RunLater'
  <2>1. ASSUME NEW i \in 1..Len(executions'[row.id])
        PROVE  /\ executions'[row.id][i].due <= executions'[row.id][i].at
               /\ executions'[row.id][i].at <= clock'
               /\ i = Len(executions'[row.id]) => Follows(nextRunAt'[row.id], executions'[row.id][i])
    <3>1. CASE i = Len(executions[row.id]) + 1
      <4>1. executions'[row.id][i] = e
        BY <1>9, <3>1
      <4>2. Follows(n, e)
        <5> HIDE DEF e, n, r
        <5> QED BY <1>1, <1>3, <1>10 DEF Follows, P
      <4> HIDE DEF e, n, r
      <4> QED BY <1>1, <1>4, <1>5, <1>10, <4>1, <4>2
    <3>2. CASE i # Len(executions[row.id]) + 1
      <4>1. i \in 1..Len(executions[row.id])
        BY <1>9, <3>2
      <4> QED BY <1>1, <1>9, <3>2, <4>1 DEF PeriodsInv, RunLater
    <3> QED BY <3>1, <3>2
  <2>2. ASSUME NEW s \in Sub \ {row.id}, NEW i \in 1..Len(executions'[s])
        PROVE  /\ executions'[s][i].due <= executions'[s][i].at /\ executions'[s][i].at <= clock'
               /\ i = Len(executions'[s]) => Follows(nextRunAt'[s], executions'[s][i])
    BY <1>5, <1>8, <2>2 DEF PeriodsInv, RunLater
  <2> QED BY <2>1, <2>2 DEF RunLater
<1>12. OnePerPeriod'
  <2>1. ASSUME NEW i \in 1..Len(executions'[row.id]) - 1
        PROVE  /\ executions'[row.id][i + 1].due > executions'[row.id][i].at
               /\ \E f \in Frequency :
                    executions'[row.id][i + 1].due >= executions'[row.id][i].due + Period[f]
    <3>1. CASE i = Len(executions[row.id])
      <4>1. executions'[row.id][i + 1] = e /\ executions'[row.id][i] = executions[row.id][i]
        BY <1>9, <2>1, <3>1
      <4>2. Follows(r, executions[row.id][i])
        BY <1>1, <1>9, <2>1, <3>1 DEF PeriodsInv, RunLater
      <4> HIDE DEF e, r
      <4> QED BY <1>10, <4>1, <4>2 DEF Follows
    <3>2. CASE i # Len(executions[row.id])
      <4>1. i \in 1..Len(executions[row.id]) - 1 /\ i \in 1..Len(executions[row.id])
            /\ i + 1 \in 1..Len(executions[row.id])
        BY <1>9, <2>1, <3>2
      <4> QED BY <1>1, <1>9, <4>1 DEF PeriodsInv, OnePerPeriod
    <3> QED BY <3>1, <3>2
  <2>2. ASSUME NEW s \in Sub \ {row.id}, NEW i \in 1..Len(executions'[s]) - 1
        PROVE  /\ executions'[s][i + 1].due > executions'[s][i].at
               /\ \E f \in Frequency : executions'[s][i + 1].due >= executions'[s][i].due + Period[f]
    BY <1>8, <2>2 DEF PeriodsInv, OnePerPeriod
  <2> QED BY <2>1, <2>2 DEF OnePerPeriod
<1>13. NowHasCome' /\ PatchedFromNow'
  BY DEF PeriodsInv, NowHasCome, PatchedFromNow, patchVars
<1> QED BY <1>6, <1>11, <1>12, <1>13 DEF PeriodsInv

\* A row that is passed over.
LEMMA RowPassed ==
  ASSUME Typed, PeriodsInv, NEW k \in Scheduler, NEW row \in batch[k],
         batch' = [batch EXCEPT ![k] = @ \ {row}],
         UNCHANGED <<clock, nextRunAt, frequency, executions, now, patchVars>>
  PROVE  PeriodsInv'
<1>1. \A l \in Scheduler : \A other \in batch'[l] : other \in batch[l]
  BY DEF Typed, TypeOK
<1>2. SnapshotsAgree'
  BY <1>1 DEF PeriodsInv, SnapshotsAgree
<1> QED BY <1>2 DEF PeriodsInv, NowHasCome, PatchedFromNow, RunLater, OnePerPeriod, patchVars

\* Every step keeps the periods.
LEMMA PeriodsStep ==
  ASSUME Typed, PeriodsInv, [Next]_vars
  PROVE  PeriodsInv'
<1> USE DEF rowVars, sweepVars, patchVars
<1>1. clock \in Nat /\ clock \in 0..MaxClock
  BY RecurringAssumption DEF Typed, TypeOK
<1>2. CASE Tick
  <2>1. PatchedFromNow'
    BY <1>2 DEF Tick, PatchedFromNow
  <2>2. clock' \in Nat /\ clock' >= clock
    BY <1>1, <1>2 DEF Tick
  <2> QED BY <1>2, <2>1, <2>2, RowsChanged DEF Tick
<1>3. CASE SupporterLeaves
  <2>1. PatchedFromNow' /\ UNCHANGED <<clock, nextRunAt, frequency, sweepVars, executions>>
    BY <1>3 DEF SupporterLeaves, PatchedFromNow, PeriodsInv
  <2> QED BY <1>1, <2>1, RowsChanged
<1>4. ASSUME NEW s \in Sub, NEW a \in Asset, NEW f \in Frequency, Create(s, a, f)
      PROVE  PeriodsInv'
  <2>1. PatchedFromNow' /\ UNCHANGED <<clock, sweepVars, executions>>
    BY <1>4 DEF Create, PatchedFromNow, PeriodsInv
  <2>2. \A r \in Sub : \/ nextRunAt'[r] = nextRunAt[r] /\ frequency'[r] = frequency[r]
                       \/ nextRunAt'[r] = clock + Period[f]
    BY <1>4 DEF Create, Typed, TypeOK
  <2> QED BY <1>1, <2>1, <2>2, RowsChanged
<1>5. ASSUME NEW s \in Sub, Delete(s) PROVE PeriodsInv'
  <2>1. PatchedFromNow' /\ UNCHANGED <<clock, nextRunAt, frequency, sweepVars, executions>>
    BY <1>5 DEF Delete, PatchedFromNow, PeriodsInv
  <2> QED BY <1>1, <2>1, RowsChanged
<1>6. ASSUME NEW s \in Sub, NEW c \in Client, NEW change \in Body, PatchRead(c, s, change)
      PROVE  PeriodsInv'
  <2> DEFINE runAt == IF change.frequency = "same" THEN 0 ELSE clock + Period[change.frequency]
             new   == [active |-> TRUE, id |-> s, change |-> change, runAt |-> runAt]
  <2>1. patch' = [patch EXCEPT ![c] = new]
        /\ UNCHANGED <<clock, nextRunAt, frequency, sweepVars, executions>>
    BY <1>6 DEF PatchRead
  <2>2. new.change = change /\ new.runAt = runAt
    OBVIOUS
  <2>3. change.frequency # "same" => new.runAt = clock + Period[new.change.frequency]
    BY <2>2
  <2> HIDE DEF new, runAt
  <2>4. ASSUME NEW d \in Client, patch'[d].active, patch'[d].change.frequency # "same"
        PROVE  patch'[d].runAt = clock' + Period[patch'[d].change.frequency]
    <3>1. CASE d = c
      <4>1. patch'[d] = new
        BY <2>1, <3>1 DEF Typed
      <4> QED BY <2>1, <2>2, <2>3, <2>4, <4>1
    <3>2. CASE d # c
      <4>1. patch'[d] = patch[d]
        BY <2>1, <3>2 DEF Typed
      <4> QED BY <2>1, <2>4, <4>1 DEF PeriodsInv, PatchedFromNow
    <3> QED BY <3>1, <3>2
  <2>5. PatchedFromNow'
    BY <2>4 DEF PatchedFromNow
  <2> QED BY <1>1, <2>1, <2>5, RowsChanged
<1>7. ASSUME NEW c \in Client, PatchWrite(c) PROVE PeriodsInv'
  <2>1. patch[c] \in [active : {TRUE}, id : Sub, change : Change, runAt : 0..Horizon]
    BY <1>7, PatchOpen DEF PatchWrite
  <2>2. patch[c].id \in Sub /\ patch[c].change \in Change /\ patch[c].active
    BY <1>7, <2>1 DEF PatchWrite
  <2>3. UNCHANGED <<clock, sweepVars, executions>>
    BY <1>7 DEF PatchWrite
  <2>4. ~NoPatch.active
    BY DEF NoPatch
  <2>5. ASSUME NEW d \in Client, patch'[d].active PROVE patch'[d] = patch[d]
    BY <1>7, <2>4, <2>5 DEF PatchWrite, Typed
  <2>6. PatchedFromNow'
    BY <2>3, <2>5 DEF PatchedFromNow, PeriodsInv
  <2>7. CASE patch[c].change.frequency = "same"
    <3>1. nextRunAt' = nextRunAt /\ frequency' = frequency
      BY <1>7, <2>7 DEF PatchWrite, Changed
    <3> QED BY <1>1, <2>3, <2>6, <3>1, RowsChanged
  <2>8. CASE patch[c].change.frequency # "same"
    <3>1. patch[c].change.frequency \in Frequency
      BY <2>2, <2>8 DEF Change
    <3>2. patch[c].runAt = clock + Period[patch[c].change.frequency]
      BY <2>2, <2>8 DEF PeriodsInv, PatchedFromNow
    <3>3. \A r \in Sub : \/ nextRunAt'[r] = nextRunAt[r] /\ frequency'[r] = frequency[r]
                         \/ nextRunAt'[r] = patch[c].runAt
      BY <1>7, <2>2, <2>8 DEF PatchWrite, Changed, Typed, TypeOK
    <3> QED BY <1>1, <2>3, <2>6, <3>1, <3>2, <3>3, RowsChanged
  <2> QED BY <2>7, <2>8
<1>8. ASSUME NEW k \in Scheduler, StartSweep(k) PROVE PeriodsInv'
  BY <1>1, <1>8, QueryIs, PageTaken DEF StartSweep
<1>9. ASSUME NEW k \in Scheduler, NextPage(k) PROVE PeriodsInv'
  <2>1. now[k] \in 0..MaxClock /\ now[k] <= clock
    BY DEF Typed, TypeOK, PeriodsInv, NowHasCome
  <2>2. (IF last[k] = NoCursor THEN {} ELSE Query(now[k], last[k])) \in SUBSET Sub
        /\ \A s \in (IF last[k] = NoCursor THEN {} ELSE Query(now[k], last[k])) : nextRunAt[s] <= now[k]
    BY QueryIs
  <2> QED BY <1>9, <2>1, <2>2, PageTaken DEF NextPage
<1>10. ASSUME NEW k \in Scheduler, Crash(k) PROVE PeriodsInv'
  <2>1. 0 \in 0..MaxClock /\ 0 <= clock
    BY <1>1, RecurringAssumption
  <2> QED BY <1>10, <2>1, PageTaken DEF Crash
<1>11. ASSUME NEW k \in Scheduler, FailRow(k) PROVE PeriodsInv'
  <2>1. PICK row \in batch[k] : batch' = [batch EXCEPT ![k] = @ \ {row}]
    BY <1>11 DEF FailRow
  <2> QED BY <1>11, <2>1, RowPassed DEF FailRow
<1>12. ASSUME NEW k \in Scheduler, ProcessRow(k) PROVE PeriodsInv'
  <2>1. PICK row \in batch[k] :
          /\ batch' = [batch EXCEPT ![k] = @ \ {row}]
          /\ \/ UNCHANGED <<nextRunAt, executions>>
             \/ /\ Claimable(k, row)
                /\ executions' = [executions EXCEPT ![row.id] =
                     Append(@, [due |-> nextRunAt[row.id], at |-> now[k]])]
                /\ nextRunAt' = [nextRunAt EXCEPT ![row.id] = Advance(row, now[k])]
          /\ UNCHANGED <<clock, frequency, now, patchVars>>
    BY <1>12 DEF ProcessRow
  <2> QED BY <2>1, RowPassed, RowClaimed
<1>13. CASE UNCHANGED vars
  <2>1. PatchedFromNow' /\ UNCHANGED <<clock, nextRunAt, frequency, sweepVars, executions>>
    BY <1>13 DEF vars, PatchedFromNow, PeriodsInv
  <2> QED BY <1>1, <2>1, RowsChanged
<1> QED BY <1>2, <1>3, <1>4, <1>5, <1>6, <1>7, <1>8, <1>9, <1>10, <1>11, <1>12, <1>13
        DEF Next, Sweep

-----------------------------------------------------------------------------
(* The theorems.                                                           *)

\* The rows are well-formed, and a subscription is run once per period (drip-scheduler.ts
\* 70-95): of two executions the later was due after the sweep that made the earlier, and
\* a whole period after the earlier was due.
THEOREM RunOncePerPeriod == Spec => []Inv
<1>1. Init => Typed /\ PeriodsInv
  BY TypeInit, PeriodsInit
<1>2. Typed /\ PeriodsInv /\ [Next]_vars => Typed' /\ PeriodsInv'
  BY TypeStep, PeriodsStep DEF PeriodsInv
<1>3. Typed /\ PeriodsInv => Inv
  BY DEF Typed, PeriodsInv, Inv
<1> QED BY <1>1, <1>2, <1>3, PTL DEF Spec

\* What a step adds to the executions of a subscription, it adds to an active one that
\* is due, whatever the scheduler had read of it.
LEMMA RunsAreClaimed ==
  ASSUME Typed, PeriodsInv, [Next]_vars, NEW s \in Sub, executions'[s] # executions[s]
  PROVE  status[s] = "active" /\ nextRunAt[s] <= clock
<1>1. PICK k \in Scheduler : ProcessRow(k)
  BY DEF Next, Sweep, vars, Tick, SupporterLeaves, Create, Delete, PatchRead, PatchWrite,
         StartSweep, NextPage, FailRow, Crash
<1>2. PICK row \in batch[k] :
        Claimable(k, row) /\ executions' = [executions EXCEPT ![row.id] =
                               Append(@, [due |-> nextRunAt[row.id], at |-> now[k]])]
  BY <1>1 DEF ProcessRow
<1>3. s = row.id
  BY <1>2 DEF Typed
<1>4. nextRunAt[s] \in Nat /\ now[k] \in Nat /\ clock \in Nat /\ now[k] <= clock
  <2>1. nextRunAt[s] \in 0..Horizon /\ now[k] \in 0..MaxClock /\ clock \in 0..MaxClock
    BY DEF Typed, TypeOK
  <2> QED BY <2>1, Lengths, RecurringAssumption DEF PeriodsInv, NowHasCome
<1> QED BY <1>2, <1>3, <1>4 DEF Claimable

\* No execution is made for a claim that is lost to a cancel, a pause or another
\* scheduler (drip-scheduler.test.ts:149).
THEOREM ActiveAndDue == Spec => RunsOnlyWhenActive
<1>1. Init => Typed /\ PeriodsInv
  BY TypeInit, PeriodsInit
<1>2. Typed /\ PeriodsInv /\ [Next]_vars => Typed' /\ PeriodsInv'
  BY TypeStep, PeriodsStep DEF PeriodsInv
<1>3. Typed /\ PeriodsInv /\ [Next]_vars
      => [\A s \in Sub : executions'[s] # executions[s] =>
            status[s] = "active" /\ nextRunAt[s] <= clock]_vars
  BY RunsAreClaimed
<1> QED BY <1>1, <1>2, <1>3, PTL DEF Spec, RunsOnlyWhenActive
=============================================================================
