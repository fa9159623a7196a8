----------------------- MODULE CircuitBreakerProofs -----------------------
(***************************************************************************)
(* Of CircuitBreaker, for any number of replicas and callers, any          *)
(* threshold, timeout, outage and number of errors: a replica has one      *)
(* canary at a time.                                                       *)
(*                                                                         *)
(* A slot is taken only when it is free and given back only by the caller  *)
(* that has it, although the state that sent a caller for it may be read   *)
(* from the row, assigned later, and be another's by then: a caller gives  *)
(* up its slot exactly when its call is answered and its write is done.    *)
(***************************************************************************)
EXTENDS CircuitBreaker, FiniteSetTheorems, TLAPS

\* The slot of a replica is held by those of its callers that probe, and by one of them.
SlotsHeld ==
  \A r \in Replica :
    /\ canary[r] = {c \in Caller : ReplicaOf[c] = r /\ Probing(c)}
    /\ \A c, d \in canary[r] : c = d

\* A set of callers has at most one member when any two are the same.
LEMMA AtMostOne ==
  ASSUME NEW S, \A x, y \in S : x = y
  PROVE  Cardinality(S) <= 1
<1>1. CASE S = {}
  BY <1>1, FS_EmptySet
<1>2. CASE S # {}
  <2>1. PICK x \in S : TRUE
    BY <1>2
  <2>2. S = {x}
    BY <2>1
  <2>3. Cardinality({x}) = 1
    BY FS_Singleton
  <2> QED BY <2>2, <2>3
<1> QED BY <1>1, <1>2

-----------------------------------------------------------------------------
(* Types.                                                                  *)

\* The closed state is a state of a breaker.
LEMMA ClosedIs == Closed \in Snapshot
  BY BreakerAssumption DEF Closed, Snapshot, State

\* A breaker whose state is replaced is a breaker.
LEMMA WithState ==
  ASSUME NEW b \in Snapshot, NEW s \in State
  PROVE  [b EXCEPT !.state = s] \in Snapshot
  BY DEF Snapshot

\* The breakers, the store and the callers start with their types.
LEMMA TypeInit == ASSUME Init PROVE TypeOK
<1>1. probe \in [Caller -> BOOLEAN] /\ hasRow \in BOOLEAN
  BY Zenon DEF Init
<1>2. clock \in 0..MaxClock /\ errors \in 0..MaxErrors
  BY BreakerAssumption DEF Init
<1>3. /\ row \in Snapshot /\ breaker \in [Replica -> Snapshot] /\ held \in [Caller -> Snapshot]
      /\ init \in [Replica -> {"none", "saving", "done"}]
      /\ canary \in [Replica -> SUBSET Caller] /\ stage \in [Caller -> Stage]
  BY ClosedIs DEF Init, Stage
<1> QED BY <1>1, <1>2, <1>3 DEF TypeOK

\* What a caller knows of the breaker has its type.
LEMMA OwnType == ASSUME TypeOK, NEW c \in Caller
                 PROVE  ReplicaOf[c] \in Replica /\ Own(c) \in Snapshot /\ held[c] \in Snapshot
  BY BreakerAssumption DEF TypeOK, Own

\* What callers keep, and the slots.
CallersTyped ==
  /\ stage \in [Caller -> Stage] /\ probe \in [Caller -> BOOLEAN]
  /\ held \in [Caller -> Snapshot]

\* A caller that leaves keeps the callers typed.
LEMMA LeaveTypes == ASSUME TypeOK, NEW c \in Caller, Leave(c) PROVE CallersTyped'
  BY ClosedIs DEF TypeOK, Leave, CallersTyped, Stage

\* A caller that is let through, or refused, keeps the types.
LEMMA AdmitTypes ==
  ASSUME TypeOK, NEW c \in Caller, NEW s \in State, Admit(c, s)
  PROVE  CallersTyped' /\ canary' \in [Replica -> SUBSET Caller]
<1>1. CASE Leave(c) /\ UNCHANGED canary
  BY <1>1, LeaveTypes DEF TypeOK
<1>2. CASE LetThrough(c, s = "HALF_OPEN")
  <2>1. (s = "HALF_OPEN") \in BOOLEAN
    OBVIOUS
  <2>2. probe' \in [Caller -> BOOLEAN]
    BY <1>2, <2>1, Zenon DEF LetThrough, TypeOK
  <2>3. stage' \in [Caller -> Stage] /\ held' \in [Caller -> Snapshot]
    BY <1>2, ClosedIs DEF LetThrough, TypeOK, Stage
  <2>4. canary' \in [Replica -> SUBSET Caller]
    BY <1>2 DEF LetThrough, TypeOK
  <2> QED BY <2>2, <2>3, <2>4 DEF CallersTyped
<1> QED BY <1>1, <1>2 DEF Admit

\* A caller that looks at the breaker again keeps the types.
LEMMA LookAgainTypes ==
  ASSUME TypeOK, NEW c \in Caller, NEW b \in Snapshot, LookAgain(c, b), errors' \in 0..MaxErrors
  PROVE  TypeOK'
<1>1. ReplicaOf[c] \in Replica /\ b.state \in State
  BY BreakerAssumption DEF Snapshot
<1>2. breaker' \in [Replica -> Snapshot] /\ UNCHANGED <<clock, row, hasRow, init>>
  BY <1>1 DEF LookAgain, TypeOK
<1>3. CASE Admit(c, b.state)
  <2>1. CallersTyped' /\ canary' \in [Replica -> SUBSET Caller]
    BY <1>1, <1>3, AdmitTypes
  <2> QED BY <1>2, <2>1 DEF TypeOK, CallersTyped
<1>4. CASE /\ stage' = [stage EXCEPT ![c] = "claim"]
           /\ held' = [held EXCEPT ![c] = b]
           /\ UNCHANGED <<probe, canary>>
  BY <1>2, <1>4 DEF TypeOK, Stage
<1>5. CASE Leave(c) /\ UNCHANGED canary
  BY <1>2, <1>5, LeaveTypes DEF TypeOK, CallersTyped
<1> QED BY <1>3, <1>4, <1>5 DEF LookAgain

\* An answer of Horizon keeps the types.
LEMMA AnswerTypes ==
  ASSUME TypeOK, NEW c \in Caller, NEW b \in Snapshot, NEW saves, Answer(c, b, saves)
  PROVE  /\ breaker' \in [Replica -> Snapshot]
         /\ CallersTyped' /\ canary' \in [Replica -> SUBSET Caller]
<1>1. ReplicaOf[c] \in Replica
  BY BreakerAssumption
<1>2. breaker' \in [Replica -> Snapshot]
  BY <1>1 DEF Answer, TypeOK
<1>3. CASE Release(c)
  BY <1>1, <1>2, <1>3, LeaveTypes DEF Release, TypeOK
<1>4. CASE /\ stage' = [stage EXCEPT ![c] = "saving"]
           /\ held' = [held EXCEPT ![c] = b]
           /\ UNCHANGED <<canary, probe>>
  BY <1>2, <1>4 DEF CallersTyped, TypeOK, Stage
<1> QED BY <1>2, <1>3, <1>4 DEF Answer

\* Every step keeps the types.
LEMMA TypeStep == ASSUME TypeOK, [Next]_vars PROVE TypeOK'
<1>1. CASE Tick
  BY <1>1, BreakerAssumption DEF Tick, TypeOK
<1>2. ASSUME NEW r \in Replica, Load(r) PROVE TypeOK'
  <2>1. [row EXCEPT !.state = "HALF_OPEN"] \in Snapshot /\ row \in Snapshot /\ breaker[r] \in Snapshot
    BY WithState DEF TypeOK, State
  <2>2. breaker' \in [Replica -> Snapshot]
    BY <1>2, <2>1 DEF Load, TypeOK
  <2>3. init' \in [Replica -> {"none", "saving", "done"}]
    BY <1>2 DEF Load, TypeOK
  <2> QED BY <1>2, <2>2, <2>3 DEF Load, TypeOK
<1>3. ASSUME NEW r \in Replica, LoadFails(r) PROVE TypeOK'
  BY <1>3, BreakerAssumption DEF LoadFails, TypeOK
<1>4. ASSUME NEW r \in Replica, SaveLoaded(r) PROVE TypeOK'
  BY <1>4 DEF SaveLoaded, TypeOK
<1>5. ASSUME NEW r \in Replica, Restart(r) PROVE TypeOK'
  <2>1. errors' \in 0..MaxErrors
    BY <1>5, BreakerAssumption DEF Restart, TypeOK
  <2>2. probe' \in [Caller -> BOOLEAN]
    BY <1>5, Zenon DEF Restart, TypeOK
  <2>3. held' \in [Caller -> Snapshot] /\ stage' \in [Caller -> Stage]
    BY <1>5, ClosedIs DEF Restart, TypeOK, Stage
  <2>4. breaker' \in [Replica -> Snapshot] /\ canary' \in [Replica -> SUBSET Caller]
        /\ init' \in [Replica -> {"none", "saving", "done"}]
    BY <1>5, ClosedIs DEF Restart, TypeOK
  <2> QED BY <1>5, <2>1, <2>2, <2>3, <2>4 DEF Restart, TypeOK
<1>6. ASSUME NEW c \in Caller, Start(c) PROVE TypeOK'
  <2>1. Own(c).state \in State
    BY OwnType DEF Snapshot
  <2>2. CASE Admit(c, Own(c).state)
    <3>1. CallersTyped' /\ canary' \in [Replica -> SUBSET Caller]
      BY <2>1, <2>2, AdmitTypes
    <3> QED BY <1>6, <3>1 DEF Start, TypeOK, CallersTyped
  <2>3. CASE Goto(c, "refresh") /\ UNCHANGED canary
    BY <1>6, <2>3 DEF Start, Goto, TypeOK, Stage
  <2> QED BY <1>6, <2>2, <2>3 DEF Start
<1>7. ASSUME NEW c \in Caller, Refresh(c) PROVE TypeOK'
  <2>1. errors' \in 0..MaxErrors
    BY <1>7 DEF Refresh, TypeOK
  <2>2. CASE LookAgain(c, Own(c))
    BY <2>1, <2>2, OwnType, LookAgainTypes
  <2>3. CASE /\ held' = [held EXCEPT ![c] = row]
             /\ stage' = [stage EXCEPT ![c] = "refreshed"]
             /\ UNCHANGED <<clock, row, hasRow, breaker, init, canary, probe>>
    BY <2>1, <2>3 DEF TypeOK, Stage
  <2> QED BY <1>7, <2>2, <2>3 DEF Refresh
<1>8. ASSUME NEW c \in Caller, Refreshed(c) PROVE TypeOK'
  <2>1. errors' \in 0..MaxErrors /\ LookAgain(c, held[c])
    BY <1>8 DEF Refreshed, TypeOK
  <2> QED BY <2>1, OwnType, LookAgainTypes
<1>9. ASSUME NEW c \in Caller, ClaimHalfOpen(c) PROVE TypeOK'
  <2>1. [row EXCEPT !.state = "HALF_OPEN"] \in Snapshot /\ row \in Snapshot
    BY WithState DEF TypeOK, State
  <2>2. row' \in Snapshot
    BY <1>9, <2>1 DEF ClaimHalfOpen
  <2> QED BY <1>9, <2>2 DEF ClaimHalfOpen, Goto, TypeOK, Stage
<1>10. ASSUME NEW c \in Caller, Claimed(c) PROVE TypeOK'
  <2>1. "HALF_OPEN" \in State
    BY DEF State
  <2>2. [breaker[ReplicaOf[c]] EXCEPT !.state = "HALF_OPEN"] \in Snapshot
    BY <2>1, WithState, OwnType DEF Own
  <2>3. breaker' \in [Replica -> Snapshot]
    BY <1>10, <2>2, OwnType DEF Claimed, TypeOK
  <2>4. CallersTyped' /\ canary' \in [Replica -> SUBSET Caller]
    BY <1>10, <2>1, AdmitTypes DEF Claimed
  <2> QED BY <1>10, <2>3, <2>4 DEF Claimed, TypeOK, CallersTyped
<1>11. ASSUME NEW c \in Caller, Refused(c) PROVE TypeOK'
  BY <1>11, LeaveTypes DEF Refused, TypeOK, CallersTyped, Stage
<1>12. ASSUME NEW c \in Caller, Rejected(c) PROVE TypeOK'
  <2>1. breaker' \in [Replica -> Snapshot]
    BY <1>12, OwnType DEF Rejected, TypeOK
  <2>2. CallersTyped'
    BY <1>12, LeaveTypes DEF Rejected
  <2> QED BY <1>12, <2>1, <2>2 DEF Rejected, TypeOK, CallersTyped
<1>13. ASSUME NEW c \in Caller, Succeed(c) PROVE TypeOK'
  <2>1. AfterSuccess(Own(c)) \in Snapshot
    BY OwnType, ClosedIs, BreakerAssumption DEF AfterSuccess, Snapshot
  <2>2. /\ breaker' \in [Replica -> Snapshot]
        /\ CallersTyped' /\ canary' \in [Replica -> SUBSET Caller]
    BY <1>13, <2>1, AnswerTypes DEF Succeed
  <2> QED BY <1>13, <2>2 DEF Succeed, TypeOK, CallersTyped
<1>14. ASSUME NEW c \in Caller, Fail(c) PROVE TypeOK'
  <2> DEFINE b == Own(c)
             count == IF b.failureCount < FailureThreshold THEN b.failureCount + 1 ELSE FailureThreshold
  <2>1. b \in Snapshot
    BY OwnType
  <2>2. count \in 0..FailureThreshold
    BY <2>1, BreakerAssumption DEF Snapshot
  <2>3. clock + ResetTimeout \in 0..MaxClock + ResetTimeout
    BY BreakerAssumption DEF TypeOK
  <2>4. [state |-> "OPEN", failureCount |-> count, nextAttempt |-> clock + ResetTimeout] \in Snapshot
    BY <2>2, <2>3 DEF Snapshot, State
  <2>5. [b EXCEPT !.failureCount = count] \in Snapshot
    BY <2>1, <2>2 DEF Snapshot
  <2>6. AfterFailure(b) \in Snapshot
    BY <2>4, <2>5 DEF AfterFailure
  <2>7. /\ breaker' \in [Replica -> Snapshot]
        /\ CallersTyped' /\ canary' \in [Replica -> SUBSET Caller]
    BY <1>14, <2>6, AnswerTypes DEF Fail
  <2> QED BY <1>14, <2>7 DEF Fail, TypeOK, CallersTyped
<1>15. ASSUME NEW c \in Caller, Save(c) PROVE TypeOK'
  <2>1. row' \in Snapshot /\ CallersTyped' /\ canary' \in [Replica -> SUBSET Caller]
    BY <1>15, OwnType, LeaveTypes DEF Save, Release, TypeOK
  <2> QED BY <1>15, <2>1 DEF Save, TypeOK, CallersTyped
<1>16. ASSUME NEW c \in Caller, DatabaseError(c) PROVE TypeOK'
  <2>1. errors' \in 0..MaxErrors
    BY <1>16, BreakerAssumption DEF DatabaseError, TypeOK
  <2>2. CASE LookAgain(c, Own(c))
    BY <2>1, <2>2, OwnType, LookAgainTypes
  <2>3. CASE Leave(c) /\ UNCHANGED <<clock, row, hasRow, breaker, init, canary>>
    BY <2>1, <2>3, LeaveTypes DEF TypeOK, CallersTyped
  <2>4. CASE Release(c) /\ UNCHANGED <<clock, row, hasRow, breaker, init>>
    BY <2>1, <2>4, LeaveTypes, OwnType DEF Release, TypeOK, CallersTyped
  <2> QED BY <1>16, <2>2, <2>3, <2>4 DEF DatabaseError
<1>17. CASE UNCHANGED vars
  BY <1>17 DEF vars, TypeOK
<1> QED BY <1>1, <1>2, <1>3, <1>4, <1>5, <1>6, <1>7, <1>8, <1>9, <1>10, <1>11, <1>12, <1>13,
           <1>14, <1>15, <1>16, <1>17 DEF Next, Step

-----------------------------------------------------------------------------
(* Slots.                                                                  *)

\* A step after which the same callers probe.
LEMMA SameProbes ==
  ASSUME SlotsHeld, UNCHANGED canary,
         \A c \in Caller : stage'[c] \in {"calling", "saving"} /\ probe'[c] <=> Probing(c)
  PROVE  SlotsHeld'
  BY DEF SlotsHeld, Probing

\* A caller that does not probe and moves elsewhere than to its call.
LEMMA Elsewhere ==
  ASSUME TypeOK, SlotsHeld, UNCHANGED canary, NEW c \in Caller, ~Probing(c),
         stage'[c] \notin {"calling", "saving"},
         \A d \in Caller \ {c} : stage'[d] = stage[d] /\ probe'[d] = probe[d]
  PROVE  SlotsHeld'
<1>1. \A d \in Caller : stage'[d] \in {"calling", "saving"} /\ probe'[d] <=> Probing(d)
  BY DEF Probing
<1> QED BY <1>1, SameProbes

\* A caller that leaves has no call any more.
LEMMA LeaveMoves ==
  ASSUME TypeOK, NEW c \in Caller, Leave(c)
  PROVE  stage'[c] = "idle" /\ \A d \in Caller \ {c} : stage'[d] = stage[d] /\ probe'[d] = probe[d]
  BY DEF TypeOK, Leave

\* A caller is let through as the canary only when its replica has none.
LEMMA AdmitKeepsSlots ==
  ASSUME TypeOK, SlotsHeld, NEW c \in Caller, ~Probing(c), NEW s, Admit(c, s)
  PROVE  SlotsHeld'
<1>1. CASE Leave(c) /\ UNCHANGED canary
  BY <1>1, LeaveMoves, Elsewhere
<1>2. CASE s = "HALF_OPEN" /\ canary[ReplicaOf[c]] = {} /\ LetThrough(c, s = "HALF_OPEN")
  <2>1. /\ stage'[c] = "calling" /\ probe'[c]
        /\ \A d \in Caller \ {c} : stage'[d] = stage[d] /\ probe'[d] = probe[d]
    BY <1>2 DEF LetThrough, TypeOK
  <2>2. canary'[ReplicaOf[c]] = {c} /\ \A r \in Replica \ {ReplicaOf[c]} : canary'[r] = canary[r]
    BY <1>2, BreakerAssumption DEF LetThrough, TypeOK
  <2>3. \A d \in Caller : stage'[d] \in {"calling", "saving"} /\ probe'[d] <=> d = c \/ Probing(d)
    BY <2>1 DEF Probing
  <2>4. \A d \in Caller : ReplicaOf[d] = ReplicaOf[c] => ~Probing(d)
    BY <1>2, BreakerAssumption DEF SlotsHeld
  <2>5. ASSUME NEW r \in Replica
        PROVE  /\ canary'[r] = {d \in Caller : ReplicaOf[d] = r /\
                                  stage'[d] \in {"calling", "saving"} /\ probe'[d]}
               /\ \A d, e \in canary'[r] : d = e
    <3>1. CASE r = ReplicaOf[c]
      BY <2>2, <2>3, <2>4, <3>1
    <3>2. CASE r # ReplicaOf[c]
      BY <2>2, <2>3, <3>2 DEF SlotsHeld
    <3> QED BY <3>1, <3>2
  <2> QED BY <2>5 DEF SlotsHeld, Probing
<1>3. CASE s # "HALF_OPEN" /\ LetThrough(c, s = "HALF_OPEN")
  <2>1. ~probe'[c] /\ \A d \in Caller \ {c} : stage'[d] = stage[d] /\ probe'[d] = probe[d]
    BY <1>3 DEF LetThrough, TypeOK
  <2>2. canary' = canary
    BY <1>3, BreakerAssumption DEF LetThrough, TypeOK
  <2>3. \A d \in Caller : stage'[d] \in {"calling", "saving"} /\ probe'[d] <=> Probing(d)
    BY <2>1 DEF Probing
  <2> QED BY <2>2, <2>3, SameProbes
<1> QED BY <1>1, <1>2, <1>3 DEF Admit

\* A caller that looks at the breaker again is let through as above.
LEMMA LookAgainKeepsSlots ==
  ASSUME TypeOK, SlotsHeld, NEW c \in Caller, ~Probing(c), NEW b, LookAgain(c, b)
  PROVE  SlotsHeld'
<1>1. CASE Admit(c, b.state)
  BY <1>1, AdmitKeepsSlots
<1>2. CASE /\ stage' = [stage EXCEPT ![c] = "claim"]
           /\ UNCHANGED <<probe, canary>>
  <2>1. /\ stage'[c] = "claim"
        /\ \A d \in Caller \ {c} : stage'[d] = stage[d] /\ probe'[d] = probe[d]
    BY <1>2 DEF TypeOK
  <2> QED BY <1>2, <2>1, Elsewhere
<1>3. CASE Leave(c) /\ UNCHANGED canary
  BY <1>3, LeaveMoves, Elsewhere
<1> QED BY <1>1, <1>2, <1>3 DEF LookAgain

\* A caller that leaves gives back its slot, if it has one, and nobody else's.
LEMMA ReleaseKeepsSlots ==
  ASSUME TypeOK, SlotsHeld, NEW c \in Caller, Release(c)
  PROVE  SlotsHeld'
<1>1. stage'[c] = "idle" /\ \A d \in Caller \ {c} : stage'[d] = stage[d] /\ probe'[d] = probe[d]
  BY LeaveMoves DEF Release
<1>2. /\ canary'[ReplicaOf[c]] = canary[ReplicaOf[c]] \ {c}
      /\ \A r \in Replica \ {ReplicaOf[c]} : canary'[r] = canary[r]
  BY BreakerAssumption DEF Release, TypeOK
<1>3. \A d \in Caller : stage'[d] \in {"calling", "saving"} /\ probe'[d] <=> d # c /\ Probing(d)
  BY <1>1 DEF Probing
<1>4. ASSUME NEW r \in Replica
      PROVE  /\ canary'[r] = {d \in Caller : ReplicaOf[d] = r /\
                                stage'[d] \in {"calling", "saving"} /\ probe'[d]}
             /\ \A d, e \in canary'[r] : d = e
  BY <1>2, <1>3 DEF SlotsHeld
<1> QED BY <1>4 DEF SlotsHeld, Probing

\* A caller that is answered gives its slot back, or keeps it until it has saved.
LEMMA AnswerKeepsSlots ==
  ASSUME TypeOK, SlotsHeld, NEW c \in Caller, stage[c] = "calling", NEW b, NEW saves,
         Answer(c, b, saves)
  PROVE  SlotsHeld'
<1>1. CASE Release(c)
  BY <1>1, ReleaseKeepsSlots
<1>2. CASE stage' = [stage EXCEPT ![c] = "saving"] /\ UNCHANGED <<canary, probe>>
  <2>1. \A d \in Caller : stage'[d] \in {"calling", "saving"} /\ probe'[d] <=> Probing(d)
    BY <1>2 DEF TypeOK, Probing
  <2> QED BY <1>2, <2>1, SameProbes
<1> QED BY <1>1, <1>2 DEF Answer

\* Every step keeps the slots held.
LEMMA SlotsStep == ASSUME TypeOK, SlotsHeld, [Next]_vars PROVE SlotsHeld'
<1>1. ASSUME UNCHANGED <<stage, probe, canary>> PROVE SlotsHeld'
  BY <1>1 DEF SlotsHeld, Probing
<1>2. CASE Tick
  BY <1>1, <1>2 DEF Tick
<1>3. ASSUME NEW r \in Replica, Load(r) \/ LoadFails(r) \/ SaveLoaded(r) PROVE SlotsHeld'
  BY <1>1, <1>3 DEF Load, LoadFails, SaveLoaded
<1>4. ASSUME NEW r \in Replica, Restart(r) PROVE SlotsHeld'
  <2>1. \A d \in Caller : stage'[d] \in {"calling", "saving"} /\ probe'[d]
                          <=> ReplicaOf[d] # r /\ Probing(d)
    BY <1>4 DEF Restart, Probing
  <2>2. canary'[r] = {} /\ \A q \in Replica \ {r} : canary'[q] = canary[q]
    BY <1>4 DEF Restart, TypeOK
  <2>3. ASSUME NEW q \in Replica
        PROVE  /\ canary'[q] = {d \in Caller : ReplicaOf[d] = q /\
                                  stage'[d] \in {"calling", "saving"} /\ probe'[d]}
               /\ \A d, e \in canary'[q] : d = e
    BY <2>1, <2>2 DEF SlotsHeld
  <2> QED BY <2>3 DEF SlotsHeld, Probing
<1>5. ASSUME NEW c \in Caller, Start(c) PROVE SlotsHeld'
  <2>1. ~Probing(c)
    BY <1>5 DEF Start, Probing
  <2>2. CASE Goto(c, "refresh") /\ UNCHANGED canary
    <3>1. /\ stage'[c] = "refresh"
          /\ \A d \in Caller \ {c} : stage'[d] = stage[d] /\ probe'[d] = probe[d]
      BY <2>2 DEF Goto, TypeOK
    <3> QED BY <2>1, <2>2, <3>1, Elsewhere
  <2> QED BY <1>5, <2>1, <2>2, AdmitKeepsSlots DEF Start
<1>6. ASSUME NEW c \in Caller, Refresh(c) PROVE SlotsHeld'
  <2>1. ~Probing(c)
    BY <1>6 DEF Refresh, Probing
  <2>2. CASE stage' = [stage EXCEPT ![c] = "refreshed"] /\ UNCHANGED <<probe, canary>>
    <3>1. /\ stage'[c] = "refreshed"
          /\ \A d \in Caller \ {c} : stage'[d] = stage[d] /\ probe'[d] = probe[d]
      BY <2>2 DEF TypeOK
    <3> QED BY <2>1, <2>2, <3>1, Elsewhere
  <2> QED BY <1>6, <2>1, <2>2, LookAgainKeepsSlots DEF Refresh
<1>7. ASSUME NEW c \in Caller, Refreshed(c) PROVE SlotsHeld'
  BY <1>7, LookAgainKeepsSlots DEF Refreshed, Probing
<1>8. ASSUME NEW c \in Caller, ClaimHalfOpen(c) PROVE SlotsHeld'
  <2>1. ~Probing(c) /\ UNCHANGED canary
    BY <1>8 DEF ClaimHalfOpen, Probing
  <2>2. /\ stage'[c] \in {"claimed", "refused"}
        /\ \A d \in Caller \ {c} : stage'[d] = stage[d] /\ probe'[d] = probe[d]
    BY <1>8 DEF ClaimHalfOpen, Goto, TypeOK
  <2> QED BY <2>1, <2>2, Elsewhere
<1>9. ASSUME NEW c \in Caller, Claimed(c) PROVE SlotsHeld'
  BY <1>9, AdmitKeepsSlots DEF Claimed, Probing
<1>10. ASSUME NEW c \in Caller, Refused(c) PROVE SlotsHeld'
  <2>1. ~Probing(c) /\ UNCHANGED canary
    BY <1>10 DEF Refused, Probing
  <2>2. /\ stage'[c] \in {"rejected", "idle"}
        /\ \A d \in Caller \ {c} : stage'[d] = stage[d] /\ probe'[d] = probe[d]
    BY <1>10 DEF Refused, Leave, TypeOK
  <2> QED BY <2>1, <2>2, Elsewhere
<1>11. ASSUME NEW c \in Caller, Rejected(c) PROVE SlotsHeld'
  <2>1. ~Probing(c) /\ UNCHANGED canary /\ Leave(c)
    BY <1>11 DEF Rejected, Probing
  <2> QED BY <2>1, LeaveMoves, Elsewhere
<1>12. ASSUME NEW c \in Caller, Succeed(c) \/ Fail(c) PROVE SlotsHeld'
  BY <1>12, AnswerKeepsSlots DEF Succeed, Fail
<1>13. ASSUME NEW c \in Caller, Save(c) PROVE SlotsHeld'
  BY <1>13, ReleaseKeepsSlots DEF Save
<1>14. ASSUME NEW c \in Caller, DatabaseError(c) PROVE SlotsHeld'
  <2>1. CASE stage[c] = "refresh" /\ LookAgain(c, Own(c))
    BY <2>1, LookAgainKeepsSlots DEF Probing
  <2>2. CASE stage[c] = "refused" /\ Leave(c) /\ UNCHANGED canary
    BY <2>2, LeaveMoves, Elsewhere DEF Probing
  <2>3. CASE Release(c)
    BY <2>3, ReleaseKeepsSlots
  <2> QED BY <1>14, <2>1, <2>2, <2>3 DEF DatabaseError
<1>15. CASE UNCHANGED vars
  BY <1>1, <1>15 DEF vars
<1> QED BY <1>2, <1>3, <1>4, <1>5, <1>6, <1>7, <1>8, <1>9, <1>10, <1>11, <1>12, <1>13, <1>14,
           <1>15 DEF Next, Step

\* The breakers' state is well-formed, and a replica has one canary at a time
\* (circuit-breaker.ts 80-103), however many callers wait in whatever order, and
\* whatever is read late, refused, lost or restarted.
THEOREM OneCanary == Spec => []Inv
<1>1. Init => TypeOK /\ SlotsHeld
  <2>1. Init => SlotsHeld
    BY DEF Init, SlotsHeld, Probing
  <2> QED BY <2>1, TypeInit
<1>2. TypeOK /\ SlotsHeld /\ [Next]_vars => TypeOK' /\ SlotsHeld'
  BY TypeStep, SlotsStep
<1>3. TypeOK /\ SlotsHeld => Inv
  <2>1. SlotsHeld => \A r \in Replica : Cardinality(canary[r]) <= 1
    BY AtMostOne DEF SlotsHeld
  <2> QED BY <2>1 DEF SlotsHeld, Inv, OneCanaryPerReplica
<1> QED BY <1>1, <1>2, <1>3, PTL DEF Spec
=============================================================================
