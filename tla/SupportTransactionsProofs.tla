--------------------- MODULE SupportTransactionsProofs ---------------------
(***************************************************************************)
(* Of SupportTransactions, for any number of payments, requests and        *)
(* milestones: its types, that nothing is paid for twice, that amounts are *)
(* the sums of what was credited, and when a milestone is reached.         *)
(*                                                                         *)
(* Of LeaderboardCache, whose entries a recorded payment invalidates, for  *)
(* any replicas, readers, writers and lifetimes: that no answer is older   *)
(* than its lifetime, which rests on ticks being longer than requests, and *)
(* that the lifetimes are needed for failures and overtaken readers only.  *)
(***************************************************************************)
EXTENDS SupportTransactions, LeaderboardCache, TLAPS

\* An answered request leaves types as they are.
LEMMA AnswerTypes ==
  ASSUME TypeOK, NEW r \in Request, Answer(r)
  PROVE  /\ stage' \in [Request -> {"idle", "inserting", "finding", "crediting"}]
         /\ tx' \in [Request -> Tx \cup {None}]
         /\ execution' \in [Request -> Execution \cup {None}]
         /\ todo' \in [Request -> SUBSET Milestone]
         /\ credited' \in [Request -> SUBSET Milestone]
         /\ \A q \in Request : stage'[q] # "crediting" => todo'[q] = {} /\ credited'[q] = {}
         /\ \A q \in Request : stage'[q] # "idle" => tx'[q] # None
  BY DEF TypeOK, Answer

LEMMA StepTypes ==
  ASSUME TypeOK, NEW r \in Request, Step(r)
  PROVE  TypeOK'
<1> USE SupportAssumption DEF TypeOK
<1>1. CASE Insert(r)
  <2>1. CASE Answer(r)
    BY <1>1, <2>1, AnswerTypes DEF Insert, milestoneVars, patchVars
  <2>2. CASE ~Answer(r)
    BY <1>1, <2>2 DEF Insert, milestoneVars, patchVars
  <2> QED BY <2>1, <2>2
<1>2. CASE FindMilestones(r)
  BY <1>2 DEF FindMilestones, milestoneVars, patchVars
<1>3. CASE Credit(r)
  BY <1>3 DEF Credit, milestoneVars, patchVars
<1>4. CASE Commit(r)
  <2>1. stage[r] = "crediting" /\ Answer(r) /\ UNCHANGED <<target, asset, patch, patches, failures>>
    BY <1>4 DEF Commit, patchVars
  <2>2. tx[r] \in Tx /\ rows' \subseteq Tx \X (Execution \cup {None})
    BY <1>4, <2>1 DEF Commit
  <2>3. current' \in [Milestone -> Nat]
    BY <1>4, <2>2 DEF Commit
  <2>4. credits' \in [Milestone -> Seq(Tx)]
    BY <1>4, <2>2 DEF Commit
  <2>5. status' \in [Milestone -> {"absent", "active", "reached", "deleted"}]
    BY <1>4 DEF Commit
  <2> QED BY <2>1, <2>2, <2>3, <2>4, <2>5, AnswerTypes
<1>5. CASE Abort(r)
  BY <1>5, AnswerTypes DEF Abort, milestoneVars, patchVars
<1> QED BY <1>1, <1>2, <1>3, <1>4, <1>5 DEF Step

\* A PATCH that has read is about a milestone.
LEMMA ActivePatch ==
  ASSUME TypeOK, NEW o \in Owner, patch[o].active
  PROVE  patch[o] \in Patch /\ patch[o].id \in Milestone
<1>1. patch[o] # NoPatch
  BY DEF NoPatch
<1>2. patch[o] \in Patch
  BY <1>1 DEF TypeOK
<1> QED BY <1>2 DEF Patch

LEMMA PatchTypes ==
  ASSUME TypeOK, NEW o \in Owner, PatchWrite(o)
  PROVE  TypeOK'
<1> DEFINE p == patch[o]
<1>1. patch[o] \in Patch /\ p.id \in Milestone
  BY ActivePatch DEF PatchWrite
<1>2. CASE status[p.id] = "deleted"
  BY <1>2 DEF PatchWrite, TypeOK, milestoneVars, postVars
<1>3. CASE status[p.id] # "deleted"
  <2>1. target' \in [Milestone -> Target] /\ asset' \in [Milestone -> Asset]
    <3>1. /\ target \in [Milestone -> Target] /\ asset \in [Milestone -> Asset]
          /\ p.target \in Target \cup {None} /\ p.asset \in Asset \cup {None}
      BY <1>1 DEF TypeOK, Patch
    <3> QED BY <1>3, <3>1 DEF PatchWrite
  <2>2. current' \in [Milestone -> Nat] /\ credits' \in [Milestone -> Seq(Tx)]
    <3>1. current \in [Milestone -> Nat] /\ credits \in [Milestone -> Seq(Tx)]
      BY DEF TypeOK
    <3>2. <<>> \in Seq(Tx)
      OBVIOUS
    <3>3. /\ current' = [current EXCEPT ![p.id] = Progress(p, @)]
          /\ credits' = [credits EXCEPT ![p.id] = IF p.resets THEN <<>> ELSE @]
      BY <1>3 DEF PatchWrite
    <3>4. Progress(p, current[p.id]) \in Nat
      BY <1>1, <3>1 DEF Progress
    <3>5. (IF p.resets THEN <<>> ELSE credits[p.id]) \in Seq(Tx)
      BY <1>1, <3>1, <3>2
    <3>6. current' \in [Milestone -> Nat]
      BY <3>1, <3>3, <3>4
    <3>7. credits' \in [Milestone -> Seq(Tx)]
      BY <3>1, <3>3, <3>5
    <3> QED BY <3>6, <3>7
  <2>3. status' \in [Milestone -> {"absent", "active", "reached", "deleted"}]
    BY <1>1, <1>3 DEF PatchWrite, TypeOK
  <2>4. /\ patch' \in [Owner -> Patch \cup {NoPatch}]
        /\ UNCHANGED <<rows, postVars, patches, failures>>
    BY <1>3 DEF PatchWrite, TypeOK
  <2> QED BY <2>1, <2>2, <2>3, <2>4 DEF TypeOK, postVars
<1> QED BY <1>2, <1>3

\* Every reachable state has its type: whatever happens to the milestones
\* while requests are under way, what is read from them later is defined.
THEOREM TypeCorrect == Spec => []TypeOK
<1>1. Init => TypeOK
  BY SupportAssumption DEF Init, TypeOK
<1>2. TypeOK /\ [Next]_vars => TypeOK'
  <2> SUFFICES ASSUME TypeOK, [Next]_vars PROVE TypeOK'
    OBVIOUS
  <2>1. CASE UNCHANGED vars
    BY <2>1 DEF TypeOK, vars, milestoneVars, postVars, patchVars
  <2>2. ASSUME NEW r \in Request, Step(r) PROVE TypeOK'
    BY <2>2, StepTypes
  <2>3. ASSUME NEW r \in Request, NEW t \in Tx, NEW e \in Execution \cup {None}, Post(r, t, e)
        PROVE  TypeOK'
    BY <2>3, SupportAssumption DEF Post, TypeOK, milestoneVars, patchVars
  <2>4. ASSUME NEW r \in Request, Fail(r) PROVE TypeOK'
    BY <2>4, AnswerTypes, SupportAssumption DEF Fail, TypeOK, milestoneVars, patchVars
  <2>5. ASSUME NEW id \in Milestone, NEW n \in Target, NEW a \in Asset, CreateMilestone(id, n, a)
        PROVE  TypeOK'
    BY <2>5 DEF CreateMilestone, TypeOK, postVars, patchVars
  <2>6. ASSUME NEW id \in Milestone, DeleteMilestone(id) PROVE TypeOK'
    BY <2>6 DEF DeleteMilestone, TypeOK, postVars, patchVars
  <2>7. ASSUME NEW id \in Milestone, NEW o \in Owner, NEW n \in NewTargets \cup {None},
               NEW a \in NewAssets \cup {None}, PatchRead(o, id, n, a)
        PROVE  TypeOK'
    <3>1. patch' \in [Owner -> Patch \cup {NoPatch}]
      BY <2>7, SupportAssumption DEF PatchRead, TypeOK, Patch
    <3> QED BY <2>7, <3>1, SupportAssumption DEF PatchRead, TypeOK, milestoneVars, postVars
  <2>8. ASSUME NEW o \in Owner, PatchWrite(o) PROVE TypeOK'
    BY <2>8, PatchTypes
  <2> QED BY <2>1, <2>2, <2>3, <2>4, <2>5, <2>6, <2>7, <2>8 DEF Next
<1> QED BY <1>1, <1>2, PTL DEF Spec

-----------------------------------------------------------------------------
(* Nothing is paid for twice.                                              *)

\* What a request posts is a payment of the execution it names.
PostsPayable == \A r \in Request :
  stage[r] # "idle" /\ execution[r] # None => tx[r] \in PayableBy[execution[r]]

\* An open transaction holds its keys: no row and no other open one has them.
KeysHeld == \A r \in Request : Open(r) =>
  /\ \A row \in rows : ~Conflicts(tx[r], execution[r], row)
  /\ \A q \in Request : Open(q) /\ q # r => ~Conflicts(tx[r], execution[r], <<tx[q], execution[q]>>)

PaymentInv == TypeOK /\ PaidOnce /\ PostsPayable /\ KeysHeld

\* An answered request holds nothing any more, and nobody gets anything new.
LEMMA AnswerKeys ==
  ASSUME PaymentInv, NEW r \in Request, Answer(r)
  PROVE  PostsPayable' /\ (rows' = rows => KeysHeld' /\ PaidOnce')
<1>1. \A q \in Request : q # r => stage'[q] = stage[q] /\ tx'[q] = tx[q] /\ execution'[q] = execution[q]
  BY DEF PaymentInv, TypeOK, Answer
<1>2. stage'[r] = "idle"
  BY DEF PaymentInv, TypeOK, Answer
<1>3. PostsPayable'
  BY <1>1, <1>2 DEF PaymentInv, PostsPayable
<1>4. ASSUME rows' = rows PROVE KeysHeld' /\ PaidOnce'
  BY <1>1, <1>2, <1>4 DEF PaymentInv, KeysHeld, Open, Conflicts, PaidOnce
<1> QED BY <1>3, <1>4

\* A step that touches neither rows, keys nor stages, or moves an open
\* transaction on, keeps who holds what.
LEMMA SameKeys ==
  ASSUME PaymentInv, UNCHANGED <<rows, tx, execution>>,
         \A q \in Request : stage'[q] = stage[q] \/ (Open(q) /\ stage'[q] = "crediting")
  PROVE  PaidOnce' /\ PostsPayable' /\ KeysHeld'
<1>1. \A q \in Request : (stage'[q] # "idle" <=> stage[q] # "idle") /\ (Open(q)' <=> Open(q))
  BY DEF Open
<1>2. PaidOnce' /\ PostsPayable'
  BY <1>1 DEF PaymentInv, PaidOnce, PostsPayable
<1>3. KeysHeld'
  BY <1>1 DEF PaymentInv, KeysHeld, Conflicts
<1> QED BY <1>2, <1>3

\* An insert that finds no conflict takes keys that nobody holds.
LEMMA InsertKeys ==
  ASSUME PaymentInv, NEW r \in Request, Insert(r)
  PROVE  PaidOnce' /\ PostsPayable' /\ KeysHeld'
<1>1. CASE Answer(r)
  BY <1>1, AnswerKeys DEF Insert
<1>2. CASE ~Answer(r)
  <2>1. /\ \A row \in rows : ~Conflicts(tx[r], execution[r], row)
        /\ \A q \in Request : Open(q) => ~Conflicts(tx[r], execution[r], <<tx[q], execution[q]>>)
        /\ stage[r] = "inserting"
        /\ stage' = [stage EXCEPT ![r] = "finding"]
        /\ UNCHANGED <<rows, tx, execution>>
    BY <1>2 DEF Insert
  <2>2. \A q \in Request : q # r => (Open(q)' <=> Open(q)) /\ stage'[q] = stage[q]
    BY <2>1 DEF PaymentInv, TypeOK, Open
  <2>3. PaidOnce' /\ PostsPayable'
    BY <2>1, <2>2 DEF PaymentInv, PaidOnce, PostsPayable
  <2>4. KeysHeld'
    <3> SUFFICES ASSUME NEW o \in Request, Open(o)'
                 PROVE  /\ \A row \in rows : ~Conflicts(tx[o], execution[o], row)
                        /\ \A q \in Request : Open(q)' /\ q # o
                              => ~Conflicts(tx[o], execution[o], <<tx[q], execution[q]>>)
      BY <2>1 DEF KeysHeld, Conflicts
    <3>1. CASE o = r
      BY <2>1, <2>2, <3>1
    <3>2. CASE o # r
      BY <2>1, <2>2, <3>2 DEF PaymentInv, KeysHeld, Conflicts
    <3> QED BY <3>1, <3>2
  <2> QED BY <2>3, <2>4
<1> QED BY <1>1, <1>2

\* A commit turns the keys of an open transaction into a row.
LEMMA CommitKeys ==
  ASSUME PaymentInv, NEW r \in Request, Commit(r)
  PROVE  PaidOnce' /\ PostsPayable' /\ KeysHeld'
<1> DEFINE new == <<tx[r], execution[r]>>
<1>1. Open(r) /\ Answer(r) /\ rows' = rows \cup {new}
  BY DEF Commit, Open
<1>2. PostsPayable'
  BY <1>1, AnswerKeys
<1>3. PaidOnce'
  <2>1. execution[r] # None => tx[r] \in PayableBy[execution[r]]
    BY <1>1 DEF PaymentInv, PostsPayable, Open
  <2>2. \A row \in rows : row[1] # new[1] /\ ~(new[2] # None /\ row[2] = new[2])
    BY <1>1 DEF PaymentInv, KeysHeld, Conflicts
  <2> QED BY <1>1, <2>1, <2>2 DEF PaymentInv, PaidOnce
<1>4. KeysHeld'
  <2>1. \A q \in Request : q # r => stage'[q] = stage[q] /\ tx'[q] = tx[q] /\ execution'[q] = execution[q]
    BY <1>1 DEF PaymentInv, TypeOK, Answer
  <2>2. ~Open(r)'
    BY <1>1 DEF PaymentInv, TypeOK, Answer, Open
  <2>3. \A q \in Request : Open(q)' => q # r /\ Open(q)
    BY <2>1, <2>2 DEF Open
  <2> QED BY <1>1, <2>1, <2>3 DEF PaymentInv, KeysHeld, Conflicts
<1> QED BY <1>2, <1>3, <1>4

LEMMA KeysKept == Spec => []PaymentInv
<1>1. Init => PaymentInv
  BY SupportAssumption DEF Init, PaymentInv, TypeOK, PaidOnce, PostsPayable, KeysHeld, Open
<1>2. PaymentInv /\ TypeOK' /\ [Next]_vars => PaymentInv'
  <2> SUFFICES ASSUME PaymentInv, TypeOK', [Next]_vars PROVE PaidOnce' /\ PostsPayable' /\ KeysHeld'
    BY DEF PaymentInv
  <2>1. CASE UNCHANGED vars
    BY <2>1, SameKeys DEF vars, postVars
  <2>2. ASSUME NEW r \in Request, Step(r) PROVE PaidOnce' /\ PostsPayable' /\ KeysHeld'
    <3>1. CASE FindMilestones(r)
      BY <3>1, SameKeys DEF FindMilestones, PaymentInv, TypeOK, Open
    <3>2. CASE Credit(r)
      BY <3>2, SameKeys DEF Credit
    <3>3. CASE Abort(r)
      BY <3>3, AnswerKeys DEF Abort
    <3> QED BY <2>2, <3>1, <3>2, <3>3, InsertKeys, CommitKeys DEF Step
  <2>3. ASSUME NEW r \in Request, NEW t \in Tx, NEW e \in Execution \cup {None}, Post(r, t, e)
        PROVE  PaidOnce' /\ PostsPayable' /\ KeysHeld'
    <3>1. /\ stage'[r] = "inserting" /\ tx'[r] = t /\ execution'[r] = e
          /\ \A q \in Request : q # r =>
               stage'[q] = stage[q] /\ tx'[q] = tx[q] /\ execution'[q] = execution[q]
          /\ rows' = rows
      BY <2>3 DEF Post, PaymentInv, TypeOK
    <3>2. PaidOnce'
      BY <3>1 DEF PaymentInv, PaidOnce
    <3>3. PostsPayable'
      BY <2>3, <3>1 DEF PaymentInv, PostsPayable, Post
    <3>4. KeysHeld'
      BY <3>1 DEF PaymentInv, KeysHeld, Conflicts, Open
    <3> QED BY <3>2, <3>3, <3>4
  <2>4. ASSUME NEW r \in Request, Fail(r) PROVE PaidOnce' /\ PostsPayable' /\ KeysHeld'
    BY <2>4, AnswerKeys DEF Fail
  <2>5. ASSUME NEW id \in Milestone, NEW n \in Target, NEW a \in Asset, CreateMilestone(id, n, a)
        PROVE  PaidOnce' /\ PostsPayable' /\ KeysHeld'
    BY <2>5, SameKeys DEF CreateMilestone, postVars
  <2>6. ASSUME NEW id \in Milestone, DeleteMilestone(id) PROVE PaidOnce' /\ PostsPayable' /\ KeysHeld'
    BY <2>6, SameKeys DEF DeleteMilestone, postVars
  <2>7. ASSUME NEW id \in Milestone, NEW o \in Owner, NEW n \in NewTargets \cup {None},
               NEW a \in NewAssets \cup {None}, PatchRead(o, id, n, a)
        PROVE  PaidOnce' /\ PostsPayable' /\ KeysHeld'
    BY <2>7, SameKeys DEF PatchRead, postVars
  <2>8. ASSUME NEW o \in Owner, PatchWrite(o) PROVE PaidOnce' /\ PostsPayable' /\ KeysHeld'
    BY <2>8, SameKeys DEF PatchWrite, postVars
  <2> QED BY <2>1, <2>2, <2>3, <2>4, <2>5, <2>6, <2>7, <2>8 DEF Next
<1> QED BY <1>1, <1>2, TypeCorrect, PTL DEF Spec

\* However many requests carry the same transaction, or pay the same execution
\* having all seen it pending, one row is stored for it: the two unique
\* constraints, and the locks an insert takes on them, are enough.
THEOREM Payments == Spec => []PaidOnce
<1>1. PaymentInv => PaidOnce
  BY DEF PaymentInv
<1> QED BY <1>1, KeysKept, PTL

-----------------------------------------------------------------------------
(* Milestones have what was credited to them.                              *)

\* What is true of a list of credits, their amount and the recorded rows.
Credited(list, amount, recorded) ==
  /\ \E sum \in [0..Len(list) -> 0..amount] : AddsUp(list, sum, amount)
  /\ \A i, j \in 1..Len(list) : list[i] = list[j] => i = j
  /\ \A i \in 1..Len(list) : \E row \in recorded : row[1] = list[i]

\* One more credit adds its amount, and is in no list before it is recorded.
LEMMA CreditAdded ==
  ASSUME NEW list \in Seq(Tx), NEW amount \in Nat, NEW recorded, NEW t \in Tx, NEW e,
         Credited(list, amount, recorded), \A row \in recorded : row[1] # t
  PROVE  Credited(Append(list, t), amount + AmountOf[t], recorded \cup {<<t, e>>})
<1> DEFINE longer == Append(list, t)
           n == Len(list)
           whole == amount + AmountOf[t]
<1>1. AmountOf[t] \in Nat /\ n \in Nat
  BY SupportAssumption
<1>2. /\ Len(longer) = n + 1 /\ longer[n + 1] = t
      /\ \A i \in 1..n : longer[i] = list[i]
  OBVIOUS
<1> HIDE DEF longer
<1>3. \E sum \in [0..Len(longer) -> 0..whole] : AddsUp(longer, sum, whole)
  <2>1. PICK sum \in [0..n -> 0..amount] : AddsUp(list, sum, amount)
    BY DEF Credited
  <2> DEFINE more == [i \in 0..n + 1 |-> IF i = n + 1 THEN whole ELSE sum[i]]
  <2>2. more \in [0..Len(longer) -> 0..whole]
    <3>1. \A i \in 0..n : sum[i] \in 0..whole
      BY <1>1
    <3>2. \A i \in 0..n + 1 : i # n + 1 => i \in 0..n
      BY <1>1
    <3>3. whole \in 0..whole
      BY <1>1
    <3> QED BY <1>2, <3>1, <3>2, <3>3
  <2>3. more[0] = 0 /\ more[n] = amount /\ more[n + 1] = whole
    BY <1>1, <2>1 DEF AddsUp
  <2>4. ASSUME NEW i \in 1..n + 1 PROVE more[i] = more[i - 1] + AmountOf[longer[i]]
    <3>1. CASE i = n + 1
      <4>1. i - 1 = n
        BY <1>1, <3>1
      <4> QED BY <1>2, <2>3, <3>1, <4>1
    <3>2. CASE i \in 1..n
      <4>1. i \in 0..n /\ i - 1 \in 0..n /\ i # n + 1 /\ i - 1 # n + 1
        BY <1>1, <3>2
      <4>2. more[i] = sum[i] /\ more[i - 1] = sum[i - 1]
        BY <4>1, <1>1
      <4> QED BY <1>2, <2>1, <3>2, <4>2 DEF AddsUp
    <3> QED BY <1>1, <3>1, <3>2
  <2> HIDE DEF more
  <2> QED BY <1>2, <2>2, <2>3, <2>4 DEF AddsUp
<1>4. ASSUME NEW i \in 1..n + 1, NEW j \in 1..n + 1, longer[i] = longer[j] PROVE i = j
  <2>1. \A k \in 1..n : longer[k] # t
    BY <1>2 DEF Credited
  <2>2. \A k \in 1..n + 1 : k = n + 1 \/ k \in 1..n
    BY <1>1
  <2> QED BY <1>2, <1>4, <2>1, <2>2 DEF Credited
<1>5. ASSUME NEW i \in 1..n + 1 PROVE \E row \in recorded \cup {<<t, e>>} : row[1] = longer[i]
  <2>1. CASE i = n + 1
    <3>1. <<t, e>>[1] = longer[i]
      BY <1>2, <2>1
    <3> QED BY <3>1
  <2>2. CASE i \in 1..n
    <3>1. PICK row \in recorded : row[1] = list[i]
      BY <2>2 DEF Credited
    <3> QED BY <1>2, <2>2, <3>1
  <2> QED BY <1>1, <2>1, <2>2
<1>6. Credited(longer, whole, recorded \cup {<<t, e>>})
  BY <1>2, <1>3, <1>4, <1>5 DEF Credited
<1> QED BY <1>6 DEF longer

\* A commit adds its payment, which no row has yet, to each milestone it has updated.
LEMMA CommitAdds ==
  ASSUME PaymentInv, CreditsAddUp, NEW r \in Request, Commit(r)
  PROVE  CreditsAddUp'
<1>1. /\ tx[r] \in Tx /\ rows' = rows \cup {<<tx[r], execution[r]>>}
      /\ \A row \in rows : row[1] # tx[r]
  BY DEF Commit, PaymentInv, TypeOK, KeysHeld, Conflicts, Open
<1>2. ASSUME NEW m \in Milestone PROVE Credited(credits'[m], current'[m], rows')
  <2>1. /\ credits[m] \in Seq(Tx) /\ current[m] \in Nat
        /\ Credited(credits[m], current[m], rows)
    BY DEF PaymentInv, TypeOK, CreditsAddUp, Credited
  <2>2. CASE m \in credited[r]
    <3>1. credits'[m] = Append(credits[m], tx[r]) /\ current'[m] = current[m] + AmountOf[tx[r]]
      BY <2>2 DEF Commit
    <3>2. Credited(Append(credits[m], tx[r]), current[m] + AmountOf[tx[r]],
                   rows \cup {<<tx[r], execution[r]>>})
      BY <1>1, <2>1, CreditAdded
    <3> QED BY <1>1, <3>1, <3>2
  <2>3. CASE m \notin credited[r]
    <3>1. credits'[m] = credits[m] /\ current'[m] = current[m]
      BY <2>3 DEF Commit
    <3> QED BY <1>1, <2>1, <3>1 DEF Credited
  <2> QED BY <2>2, <2>3
<1> QED BY <1>2 DEF CreditsAddUp, Credited

\* A PATCH starts a milestone's progress and its credits anew, or leaves both.
LEMMA PatchAdds ==
  ASSUME PaymentInv, CreditsAddUp, NEW o \in Owner, PatchWrite(o)
  PROVE  CreditsAddUp'
<1>1. rows' = rows /\ patch[o].active
  BY DEF PatchWrite
<1>2. patch[o].id \in Milestone
  BY <1>1, ActivePatch DEF PaymentInv
<1>3. ASSUME NEW m \in Milestone PROVE Credited(credits'[m], current'[m], rows)
  <2>1. Credited(credits[m], current[m], rows)
    BY DEF CreditsAddUp, Credited
  <2>2. CASE credits'[m] = credits[m] /\ current'[m] = current[m]
    BY <2>1, <2>2
  <2>3. CASE credits'[m] = <<>> /\ current'[m] = 0
    <3>1. Len(<<>>) = 0 /\ 0 \in 0..0
      OBVIOUS
    <3>2. [i \in 0..0 |-> 0] \in [0..0 -> 0..0] /\ [i \in 0..0 |-> 0][0] = 0
      BY <3>1
    <3>3. 1..0 = {}
      OBVIOUS
    <3>4. AddsUp(<<>>, [i \in 0..0 |-> 0], 0)
      BY <3>1, <3>2, <3>3 DEF AddsUp
    <3> QED BY <2>3, <3>1, <3>2, <3>3, <3>4 DEF Credited
  <2>4. (credits'[m] = credits[m] /\ current'[m] = current[m]) \/ (credits'[m] = <<>> /\ current'[m] = 0)
    <3>1. CASE status[patch[o].id] = "deleted"
      BY <3>1 DEF PatchWrite, milestoneVars
    <3>2. CASE status[patch[o].id] # "deleted"
      <4>1. /\ current' = [current EXCEPT ![patch[o].id] = Progress(patch[o], @)]
            /\ credits' = [credits EXCEPT ![patch[o].id] = IF patch[o].resets THEN <<>> ELSE @]
        BY <3>2 DEF PatchWrite
      <4> QED BY <1>2, <4>1 DEF PaymentInv, TypeOK, Progress
    <3> QED BY <3>1, <3>2
  <2> QED BY <2>2, <2>3, <2>4
<1> QED BY <1>1, <1>3 DEF CreditsAddUp, Credited

\* A milestone's amount is the sum of what the recorded transactions credited to it
\* since it was last reset, each once (3541-3556, 4584-4587), whatever overlaps, is
\* rolled back, reset or deleted.
THEOREM NoCreditLost == Spec => []CreditsAddUp
<1>1. Init => CreditsAddUp
  <2> SUFFICES ASSUME Init, NEW m \in Milestone PROVE Credited(<<>>, 0, {})
    BY DEF Init, CreditsAddUp, Credited
  <2>1. Len(<<>>) = 0 /\ 1..0 = {}
    OBVIOUS
  <2>2. [i \in 0..0 |-> 0] \in [0..0 -> 0..0] /\ [i \in 0..0 |-> 0][0] = 0
    OBVIOUS
  <2>3. AddsUp(<<>>, [i \in 0..0 |-> 0], 0)
    BY <2>1, <2>2 DEF AddsUp
  <2> QED BY <2>1, <2>2, <2>3 DEF Credited
<1>2. PaymentInv /\ CreditsAddUp /\ [Next]_vars => CreditsAddUp'
  <2> SUFFICES ASSUME PaymentInv, CreditsAddUp, [Next]_vars PROVE CreditsAddUp'
    OBVIOUS
  <2>1. CASE UNCHANGED <<rows, current, credits>>
    BY <2>1 DEF CreditsAddUp, AddsUp
  <2>2. CASE UNCHANGED vars
    BY <2>1, <2>2 DEF vars, milestoneVars
  <2>3. ASSUME NEW r \in Request, Step(r) \/ Fail(r) PROVE CreditsAddUp'
    <3>1. CASE Insert(r) \/ FindMilestones(r) \/ Credit(r) \/ Abort(r) \/ Fail(r)
      BY <2>1, <3>1 DEF Insert, FindMilestones, Credit, Abort, Fail, milestoneVars
    <3> QED BY <2>3, <3>1, CommitAdds DEF Step
  <2>4. ASSUME NEW r \in Request, NEW t \in Tx, NEW e \in Execution \cup {None}, Post(r, t, e)
        PROVE  CreditsAddUp'
    BY <2>1, <2>4 DEF Post, milestoneVars
  <2>5. ASSUME NEW m \in Milestone, NEW n \in Target, NEW a \in Asset,
               CreateMilestone(m, n, a) \/ DeleteMilestone(m)
        PROVE  CreditsAddUp'
    BY <2>1, <2>5 DEF CreateMilestone, DeleteMilestone
  <2>6. ASSUME NEW m \in Milestone, NEW o \in Owner, NEW n \in NewTargets \cup {None},
               NEW a \in NewAssets \cup {None}, PatchRead(o, m, n, a)
        PROVE  CreditsAddUp'
    BY <2>1, <2>6 DEF PatchRead, milestoneVars
  <2>7. \A m \in Milestone : DeleteMilestone(m) => CreditsAddUp'
    BY <2>1 DEF DeleteMilestone
  <2> QED BY <2>2, <2>3, <2>4, <2>5, <2>6, <2>7, PatchAdds DEF Next
<1> QED BY <1>1, <1>2, KeysKept, PTL DEF Spec

-----------------------------------------------------------------------------
(* Milestones are reached when their amount is.                            *)

\* Milestones that an open transaction has read or updated exist, one it has updated has
\* not been deleted since; what is not created yet has no progress; and while targets
\* stay as they are, no PATCH makes a milestone reached.
ReachedInv ==
  /\ TypeOK /\ ReachedByAmount
  /\ \A r \in Request : \A m \in todo[r] : status[m] # "absent"
  /\ \A r \in Request : \A m \in credited[r] : status[m] \in {"active", "reached"}
  /\ \A m \in Milestone : status[m] = "absent" => current[m] = 0
  /\ \A o \in Owner : patch[o].active =>
       patch[o].target = None /\ ~patch[o].reaches /\ status[patch[o].id] # "absent"

\* A request's answer, or a step that leaves the milestones alone.
LEMMA ReachedStays ==
  ASSUME ReachedInv, TypeOK', UNCHANGED <<milestoneVars, patch>>,
         \A r \in Request : \A m \in todo'[r] : status[m] # "absent",
         \A r \in Request : \A m \in credited'[r] : status[m] \in {"active", "reached"}
  PROVE  ReachedInv'
  BY DEF ReachedInv, ReachedByAmount, milestoneVars

\* A step of one request reads milestones that exist, and locks one that is not deleted.
LEMMA ReachedStep ==
  ASSUME ReachedInv, TypeOK', NEW r \in Request,
         Insert(r) \/ FindMilestones(r) \/ Credit(r) \/ Abort(r) \/ Fail(r)
  PROVE  ReachedInv'
<1> USE DEF ReachedInv, TypeOK
<1>1. UNCHANGED <<milestoneVars, patch>>
  BY DEF Insert, FindMilestones, Credit, Abort, Fail, patchVars
<1>2. \A q \in Request : q # r => todo'[q] = todo[q] /\ credited'[q] = credited[q]
  BY DEF Insert, FindMilestones, Credit, Abort, Fail, Answer
<1>3. CASE Answer(r) \/ Insert(r)
  <2>1. todo'[r] \in {{}, todo[r]} /\ credited'[r] \in {{}, credited[r]}
    BY <1>3 DEF Answer, Insert
  <2> QED BY <1>1, <1>2, <2>1, ReachedStays
<1>4. CASE FindMilestones(r)
  <2>1. credited'[r] = credited[r] /\ \A m \in todo'[r] : status[m] = "active"
    BY <1>4 DEF FindMilestones
  <2> QED BY <1>1, <1>2, <2>1, ReachedStays
<1>5. CASE Credit(r)
  <2>1. PICK m \in todo[r] : /\ status[m] # "deleted"
                             /\ todo'[r] = todo[r] \ {m} /\ credited'[r] = credited[r] \cup {m}
    BY <1>5 DEF Credit
  <2>2. m \in Milestone /\ status[m] \in {"active", "reached"}
    BY <2>1
  <2>3. \A q \in Request : \A d \in todo'[q] : status[d] # "absent"
    <3>1. todo'[r] \subseteq todo[r]
      BY <2>1
    <3> QED BY <1>2, <3>1
  <2>4. \A q \in Request : \A d \in credited'[q] : status[d] \in {"active", "reached"}
    <3>1. \A d \in credited'[r] : status[d] \in {"active", "reached"}
      BY <2>1, <2>2
    <3> QED BY <1>2, <3>1
  <2> QED BY <1>1, <2>3, <2>4, ReachedStays
<1> QED BY <1>3, <1>4, <1>5 DEF Abort, Fail

\* A commit compares each amount it has added to with the target.
LEMMA ReachedCommit ==
  ASSUME ReachedInv, TypeOK', NEW r \in Request, Commit(r)
  PROVE  ReachedInv'
<1> USE DEF ReachedInv, TypeOK
<1>1. tx[r] \in Tx /\ AmountOf[tx[r]] \in Nat
  BY SupportAssumption DEF Commit
<1>2. /\ Answer(r) /\ UNCHANGED <<target, asset, patch>>
      /\ \A m \in Milestone :
           /\ m \in credited[r] => /\ current'[m] = current[m] + AmountOf[tx[r]]
                                   /\ status'[m] = IF current'[m] >= target[m] THEN "reached" ELSE status[m]
           /\ m \notin credited[r] => current'[m] = current[m] /\ status'[m] = status[m]
  BY <1>1 DEF Commit, Reached, patchVars
<1>3. \A m \in Milestone : current[m] \in Nat /\ target[m] \in Nat
  BY SupportAssumption
<1>4. ASSUME NEW m \in Milestone, status'[m] \in {"active", "reached"}
      PROVE  status'[m] = "reached" <=> current'[m] >= target'[m]
  <2>1. CASE m \in credited[r]
    <3>1. status[m] \in {"active", "reached"} /\ (status[m] = "reached" <=> current[m] >= target[m])
      BY <2>1 DEF ReachedByAmount
    <3> QED BY <1>1, <1>2, <1>3, <2>1, <3>1
  <2>2. CASE m \notin credited[r]
    BY <1>2, <1>4, <2>2 DEF ReachedByAmount
  <2> QED BY <2>1, <2>2
<1>5. \A m \in Milestone : /\ status'[m] = "absent" <=> status[m] = "absent"
                           /\ status[m] \in {"active", "reached"} <=> status'[m] \in {"active", "reached"}
                           /\ status[m] = "absent" => current'[m] = current[m]
  BY <1>2
<1>6. \A q \in Request : todo'[q] \subseteq todo[q] /\ credited'[q] \subseteq credited[q]
  BY <1>2 DEF Answer
<1>7. ReachedByAmount'
  BY <1>4 DEF ReachedByAmount
<1>8. \A o \in Owner : patch[o].active => patch[o].id \in Milestone
  BY ActivePatch
<1> QED BY <1>2, <1>5, <1>6, <1>7, <1>8

\* A PATCH resets progress and state together, or leaves both.
LEMMA ReachedPatch ==
  ASSUME ReachedInv, TypeOK', NEW o \in Owner, PatchWrite(o)
  PROVE  ReachedInv'
<1> USE DEF ReachedInv
<1> DEFINE p == patch[o]
           m == p.id
<1>1. /\ p.active /\ p.target = None /\ ~p.reaches /\ status[m] # "absent"
      /\ \A r \in Request : m \notin credited[r]
      /\ UNCHANGED <<todo, credited>>
  BY DEF PatchWrite, Locked, postVars
<1>a. /\ status \in [Milestone -> {"absent", "active", "reached", "deleted"}]
      /\ target \in [Milestone -> Target] /\ current \in [Milestone -> Nat]
      /\ patch \in [Owner -> Patch \cup {NoPatch}]
      /\ \A r \in Request : todo[r] \subseteq Milestone /\ credited[r] \subseteq Milestone
  BY DEF TypeOK
<1>2. p \in Patch /\ m \in Milestone
  BY <1>1, ActivePatch
<1>3. \A q \in Owner : patch'[q].active => patch'[q] = patch[q] /\ patch[q].active /\ patch[q].id \in Milestone
  <2>1. patch' = [patch EXCEPT ![o] = NoPatch] /\ ~NoPatch.active
    BY DEF PatchWrite, NoPatch
  <2>2. \A q \in Owner : patch'[q].active => q # o /\ patch'[q] = patch[q]
    BY <1>a, <2>1
  <2> QED BY <2>2, ActivePatch
<1>4. \A d \in Milestone : target[d] \in Nat \ {0}
  BY <1>a, SupportAssumption
<1>5. CASE status[m] = "deleted"
  <2>1. UNCHANGED milestoneVars
    BY <1>5 DEF PatchWrite
  <2> QED BY <1>1, <1>3, <2>1 DEF milestoneVars, ReachedByAmount
<1>6. CASE status[m] # "deleted"
  <2>1. /\ target' = target
        /\ \A d \in Milestone : d # m => current'[d] = current[d] /\ status'[d] = status[d]
        /\ current'[m] = (IF p.resets THEN 0 ELSE current[m])
        /\ status'[m] = (IF p.resets THEN "active" ELSE status[m])
    <3>1. target' = [target EXCEPT ![m] = target[m]]
      BY <1>1, <1>6 DEF PatchWrite
    <3>2. target' = target
      BY <1>a, <3>1
    <3> QED BY <1>a, <1>1, <1>2, <1>6, <3>2 DEF PatchWrite, Progress
  <2>2. ReachedByAmount'
    BY <1>1, <1>2, <1>4, <1>6, <2>1 DEF ReachedByAmount
  <2>3. \A d \in Milestone : status'[d] = "absent" <=> status[d] = "absent"
    BY <1>1, <1>2, <1>6, <2>1
  <2> QED BY <1>a, <1>1, <1>2, <1>3, <2>1, <2>2, <2>3
<1> QED BY <1>5, <1>6

\* While targets stay as they are a milestone is reached exactly when its amount has come
\* to its target (3558-3565, 4584-4600), whichever of the concurrent transactions
\* completed it, and whatever was reset, rolled back or deleted meanwhile.
THEOREM ReachedWhenDue ==
  ASSUME NewTargets = {}
  PROVE  Spec => []ReachedByAmount
<1>1. Init => ReachedInv
  BY SupportAssumption DEF Init, ReachedInv, TypeOK, ReachedByAmount, NoPatch
<1>2. ReachedInv /\ TypeOK' /\ [Next]_vars => ReachedInv'
  <2> SUFFICES ASSUME ReachedInv, TypeOK', [Next]_vars PROVE ReachedInv'
    OBVIOUS
  <2> USE DEF ReachedInv
  <2>1. CASE UNCHANGED vars
    BY <2>1, ReachedStays DEF vars, postVars, patchVars
  <2>2. ASSUME NEW r \in Request, Step(r) \/ Fail(r) PROVE ReachedInv'
    BY <2>2, ReachedStep, ReachedCommit DEF Step
  <2>3. ASSUME NEW r \in Request, NEW t \in Tx, NEW e \in Execution \cup {None}, Post(r, t, e)
        PROVE  ReachedInv'
    BY <2>3, ReachedStays DEF Post, patchVars
  <2>4. ASSUME NEW m \in Milestone, NEW n \in Target, NEW a \in Asset, CreateMilestone(m, n, a)
        PROVE  ReachedInv'
    <3>1. /\ UNCHANGED <<current, todo, credited, patch>> /\ current[m] = 0
          /\ status[m] = "absent" /\ status'[m] = "active" /\ target'[m] = n /\ n \in Nat \ {0}
          /\ \A d \in Milestone : d # m => status'[d] = status[d] /\ target'[d] = target[d]
      BY <2>4, SupportAssumption DEF CreateMilestone, TypeOK, postVars, patchVars
    <3>2. \A d \in Milestone : status[d] # "absent" => d # m /\ status'[d] = status[d]
      BY <3>1
    <3>3. ReachedByAmount'
      BY <3>1 DEF ReachedByAmount
    <3>4. \A o \in Owner : patch[o].active => patch[o].id \in Milestone
      BY ActivePatch
    <3>5. \A r \in Request : todo[r] \subseteq Milestone /\ credited[r] \subseteq Milestone
      BY DEF TypeOK
    <3> QED BY <3>1, <3>2, <3>3, <3>4, <3>5
  <2>5. ASSUME NEW m \in Milestone, DeleteMilestone(m) PROVE ReachedInv'
    <3>1. /\ UNCHANGED <<current, target, todo, credited, patch>>
          /\ status[m] # "absent" /\ status'[m] = "deleted" /\ \A r \in Request : m \notin credited[r]
          /\ \A d \in Milestone : d # m => status'[d] = status[d]
      BY <2>5 DEF DeleteMilestone, Locked, TypeOK, postVars, patchVars
    <3>5. \A r \in Request : todo[r] \subseteq Milestone /\ credited[r] \subseteq Milestone
      BY DEF TypeOK
    <3>2. ReachedByAmount'
      BY <3>1 DEF ReachedByAmount
    <3>3. \A o \in Owner : patch[o].active => patch[o].id \in Milestone
      BY ActivePatch
    <3> QED BY <3>1, <3>2, <3>3, <3>5
  <2>6. ASSUME NEW m \in Milestone, NEW o \in Owner, NEW n \in NewTargets \cup {None},
               NEW a \in NewAssets \cup {None}, PatchRead(o, m, n, a)
        PROVE  ReachedInv'
    <3>1. /\ UNCHANGED <<milestoneVars, todo, credited>> /\ n = None /\ status[m] # "absent"
          /\ patch'[o].id = m /\ patch'[o].target = None /\ ~patch'[o].reaches
          /\ \A q \in Owner : q # o => patch'[q] = patch[q]
      BY <2>6 DEF PatchRead, TypeOK, postVars
    <3> QED BY <3>1 DEF ReachedByAmount, milestoneVars
  <2>7. ASSUME NEW o \in Owner, PatchWrite(o) PROVE ReachedInv'
    BY <2>7, ReachedPatch
  <2> QED BY <2>1, <2>2, <2>3, <2>4, <2>5, <2>6, <2>7 DEF Next
<1>3. ReachedInv => ReachedByAmount
  BY DEF ReachedInv
<1> QED BY <1>1, <1>2, <1>3, TypeCorrect, PTL DEF Spec

\* What a milestone says of itself agrees with the recorded transactions (3541-3565),
\* while targets stay as they are.
THEOREM MilestonesAgree ==
  ASSUME NewTargets = {}
  PROVE  Spec => []Inv
<1>1. TypeOK /\ CreditsAddUp /\ ReachedByAmount => Inv
  BY DEF Inv
<1> QED BY <1>1, TypeCorrect, NoCreditLost, ReachedWhenDue, PTL

-----------------------------------------------------------------------------
(* The leaderboard: the types, and the ages of the rows.                   *)

\* Rows that are not stored have no age, and a tick does not come between a reader's
\* query and what it stores.
AgesInv ==
  /\ \A n \in 1..MaxRows : n > stored => age[n] = 0
  /\ \A q \in Reader : at[q] = "set" => \A n \in seen[q] + 1..stored : age[n] = 0

\* The lifetimes are those of entries.
LEMMA EntryTypes ==
  /\ NoEntry \in Entry /\ NoEntry \in [rows : 0..MaxRows, left : 0..FallbackTTL]
  /\ ~Live(NoEntry)
  BY CacheAssumption DEF NoEntry, Entry, Live

\* A tick takes from an entry a tick of its life.
LEMMA OlderEntry ==
  ASSUME NEW ttl \in Nat, NEW entry \in [rows : 0..MaxRows, left : 0..ttl]
  PROVE  /\ Older(entry) \in [rows : 0..MaxRows, left : 0..ttl]
         /\ Live(Older(entry)) => /\ Live(entry) /\ Older(entry).rows = entry.rows
                                  /\ Older(entry).left = entry.left - 1
<1>1. CASE entry.left > 1
  <2>1. Older(entry) = [rows |-> entry.rows, left |-> entry.left - 1]
    BY <1>1 DEF Older
  <2> QED BY <1>1, <2>1 DEF Live
<1>2. CASE ~(entry.left > 1)
  BY <1>2, CacheAssumption DEF Older, NoEntry, Live
<1> QED BY <1>1, <1>2

\* The caches start empty.
LEMMA BoardTypesInit == ASSUME BoardInit PROVE BoardTypes
<1>1. up \in [Replica -> BOOLEAN] /\ inbox \in [Replica -> BOOLEAN] /\ overtaken \in BOOLEAN
  BY CacheAssumption, Zenon DEF BoardInit
<1>2. stored = 0 /\ invalidated = 0 /\ errors = 0 /\ 0 \in 0..MaxRows /\ 0 \in 0..MaxErrors
  BY CacheAssumption DEF BoardInit
<1>3. redis \in Entry /\ local \in [Replica -> [rows : 0..MaxRows, left : 0..FallbackTTL]]
  BY EntryTypes DEF BoardInit
<1>4. age \in [1..MaxRows -> 0..CacheTTL] /\ keys \in [Writer -> BOOLEAN]
  BY CacheAssumption DEF BoardInit
<1>5. /\ at \in [Reader \cup Writer -> {"idle", "get", "query", "set", "scan", "del", "clear", "publish"}]
      /\ seen \in [Reader \cup Writer -> 0..stored]
  BY <1>2 DEF BoardInit
<1> QED BY <1>1, <1>2, <1>3, <1>4, <1>5 DEF BoardTypes

LEMMA BoardTypesTick == ASSUME BoardTypes, Tick PROVE BoardTypes'
<1>1. age' \in [1..MaxRows -> 0..CacheTTL]
  BY CacheAssumption DEF BoardTypes, Tick
<1>2. redis' \in Entry
  BY OlderEntry, CacheAssumption DEF BoardTypes, Tick, Entry
<1>3. local' \in [Replica -> [rows : 0..MaxRows, left : 0..FallbackTTL]]
  BY OlderEntry, CacheAssumption DEF BoardTypes, Tick
<1> QED BY <1>1, <1>2, <1>3 DEF BoardTypes, Tick, procVars, ghostVars

\* Every step keeps the types.
LEMMA BoardTypesStep == ASSUME BoardTypes, [BoardNext]_boardVars PROVE BoardTypes'
<1> USE CacheAssumption DEF BoardTypes
<1>1. CASE Tick
  BY <1>1, BoardTypesTick
<1>2. CASE Ingest
  BY <1>2 DEF Ingest, cacheVars, procVars, ghostVars
<1>3. ASSUME NEW r \in Replica, Disconnect(r) \/ Connect(r) PROVE BoardTypes'
  <2>0. /\ up' = [up EXCEPT ![r] = FALSE] \/ up' = [up EXCEPT ![r] = TRUE]
        /\ errors' = errors \/ (errors < MaxErrors /\ errors' = errors + 1)
    BY <1>3 DEF Disconnect, Connect, Error
  <2>1. up' \in [Replica -> BOOLEAN] /\ errors' \in 0..MaxErrors
    <3>1. up' \in [Replica -> BOOLEAN]
      BY <2>0, Zenon
    <3> QED BY <2>0, <3>1
  <2>2. UNCHANGED <<stored, age, redis, local, inbox, at, seen, keys, invalidated, overtaken>>
    BY <1>3 DEF Disconnect, Connect, cacheVars, procVars, ghostVars
  <2> QED BY <2>1, <2>2
<1>4. ASSUME NEW r \in Replica, Receive(r) PROVE BoardTypes'
  BY <1>4, EntryTypes DEF Receive, ClearLocal, procVars, ghostVars
<1>5. ASSUME NEW q \in Reader, Look(q) \/ Get(q) \/ Query(q) PROVE BoardTypes'
  <2>1. at' \in [Reader \cup Writer -> {"idle", "get", "query", "set", "scan", "del", "clear", "publish"}]
    BY <1>5 DEF Look, Get, Query, Found, Goto
  <2>2. seen' \in [Reader \cup Writer -> 0..stored]
    BY <1>5 DEF Look, Get, Query
  <2>3. errors' \in 0..MaxErrors
    BY <1>5 DEF Look, Get, Query, Error
  <2>4. UNCHANGED <<stored, age, redis, local, up, inbox, keys, invalidated, overtaken>>
    BY <1>5 DEF Look, Get, Query, cacheVars, ghostVars
  <2> QED BY <2>1, <2>2, <2>3, <2>4
<1>6. ASSUME NEW q \in Reader, Set(q) PROVE BoardTypes'
  <2>1. Home(q) \in Replica /\ seen[q] \in 0..MaxRows
    BY DEF Home
  <2>2. /\ [rows |-> seen[q], left |-> CacheTTL] \in Entry
        /\ [rows |-> seen[q], left |-> FallbackTTL] \in [rows : 0..MaxRows, left : 0..FallbackTTL]
    BY <2>1 DEF Entry
  <2>3. redis' \in Entry /\ errors' \in 0..MaxErrors
    BY <1>6, <2>2 DEF Set, InRedis, InProcess, Error
  <2>4. local' \in [Replica -> [rows : 0..MaxRows, left : 0..FallbackTTL]]
    BY <1>6, <2>2 DEF Set, InRedis, InProcess
  <2>5. at' \in [Reader \cup Writer -> {"idle", "get", "query", "set", "scan", "del", "clear", "publish"}]
    BY <1>6 DEF Set, Goto
  <2>6. overtaken' \in BOOLEAN /\ seen' \in [Reader \cup Writer -> 0..stored]
    BY <1>6 DEF Set
  <2> QED BY <1>6, <2>3, <2>4, <2>5, <2>6 DEF Set
<1>7. ASSUME NEW w \in Writer, Record(w) \/ Scan(w) PROVE BoardTypes'
  <2>1. at' \in [Reader \cup Writer -> {"idle", "get", "query", "set", "scan", "del", "clear", "publish"}]
    BY <1>7 DEF Record, Scan, Goto
  <2>2. stored' \in {stored, stored + 1} /\ stored' <= MaxRows /\ stored' \in 0..MaxRows
    BY <1>7 DEF Record, Scan
  <2>3. seen' \in [Reader \cup Writer -> 0..stored']
    <3>1. CASE Scan(w)
      BY <3>1 DEF Scan
    <3>2. CASE Record(w)
      <4>1. stored' = stored + 1 /\ seen' = [seen EXCEPT ![w] = stored + 1]
        BY <3>2 DEF Record
      <4>2. 0..stored \subseteq 0..stored' /\ stored + 1 \in 0..stored'
        BY <4>1
      <4> QED BY <4>1, <4>2
    <3> QED BY <1>7, <3>1, <3>2
  <2>4. keys' \in [Writer -> BOOLEAN] /\ errors' \in 0..MaxErrors
    <3>1. Live(redis) \in BOOLEAN
      BY DEF Live
    <3>2. /\ keys' = keys \/ keys' = [keys EXCEPT ![w] = Live(redis)]
          /\ errors' = errors \/ (errors < MaxErrors /\ errors' = errors + 1)
      BY <1>7 DEF Record, Scan, Error
    <3>3. keys' \in [Writer -> BOOLEAN]
      BY <3>1, <3>2, Zenon
    <3> QED BY <3>2, <3>3
  <2>5. UNCHANGED <<age, redis, local, up, inbox, invalidated, overtaken>>
    BY <1>7 DEF Record, Scan, cacheVars, ghostVars
  <2> QED BY <2>1, <2>2, <2>3, <2>4, <2>5
<1>8. ASSUME NEW w \in Writer, Delete(w) PROVE BoardTypes'
  BY <1>8, EntryTypes DEF Delete, DeleteKeys, Goto, Error, ghostVars
<1>9. ASSUME NEW w \in Writer, Clear(w) PROVE BoardTypes'
  BY <1>9, EntryTypes DEF Clear, ClearLocal, Goto, ghostVars
<1>10. ASSUME NEW w \in Writer, Publish(w) PROVE BoardTypes'
  <2>1. inbox' \in [Replica -> BOOLEAN]
    BY <1>10 DEF Publish
  <2> QED BY <1>10, <2>1 DEF Publish, Goto, cacheVars
<1>11. CASE UNCHANGED boardVars
  BY <1>11 DEF boardVars, cacheVars, procVars, ghostVars
<1> QED BY <1>1, <1>2, <1>3, <1>4, <1>5, <1>6, <1>7, <1>8, <1>9, <1>10, <1>11
        DEF BoardNext, Read, Invalidate

\* Every step keeps the ages: a row is new when it is stored, a query is answered with all
\* rows, and a tick waits for the readers to store what they got.
LEMMA AgesStep ==
  ASSUME BoardTypes, AgesInv, [BoardNext]_boardVars
  PROVE  AgesInv'
<1> USE CacheAssumption DEF AgesInv, BoardTypes
<1>1. CASE Tick
  BY <1>1 DEF Tick, procVars
<1>2. CASE Ingest
  <2>1. stored' = stored + 1 /\ UNCHANGED <<age, at, seen>> /\ stored < MaxRows
    BY <1>2 DEF Ingest, procVars
  <2>2. age[stored + 1] = 0
    BY <2>1
  <2> QED BY <2>1, <2>2
<1>3. ASSUME NEW w \in Writer, Record(w) PROVE AgesInv'
  <2>1. /\ stored' = stored + 1 /\ age' = age /\ stored < MaxRows
        /\ \A q \in Reader : at'[q] = at[q] /\ seen'[q] = seen[q]
    BY <1>3 DEF Record, Goto
  <2>2. age[stored + 1] = 0
    BY <2>1
  <2> QED BY <2>1, <2>2
<1>4. ASSUME NEW q \in Reader, Look(q) \/ Get(q) \/ Set(q) PROVE AgesInv'
  <2>1. /\ UNCHANGED <<stored, age>> /\ at'[q] # "set"
        /\ \A o \in Reader : o # q => at'[o] = at[o] /\ seen'[o] = seen[o]
    BY <1>4 DEF Look, Get, Found, Set, Goto
  <2> QED BY <2>1
<1>5. ASSUME NEW q \in Reader, Query(q) PROVE AgesInv'
  <2>1. /\ UNCHANGED <<stored, age>> /\ seen'[q] = stored
        /\ \A o \in Reader : o # q => at'[o] = at[o] /\ seen'[o] = seen[o]
    BY <1>5 DEF Query, Goto
  <2>2. \A n \in seen'[q] + 1..stored : FALSE
    BY <2>1
  <2> QED BY <2>1, <2>2
<1>6. ASSUME NEW w \in Writer, Invalidate(w) PROVE AgesInv'
  <2>1. /\ UNCHANGED <<stored, age>>
        /\ \A o \in Reader : at'[o] = at[o] /\ seen'[o] = seen[o]
    BY <1>6 DEF Invalidate, Scan, Delete, Clear, Publish, Goto
  <2> QED BY <2>1
<1>7. ASSUME NEW r \in Replica, Disconnect(r) \/ Connect(r) \/ Receive(r) PROVE AgesInv'
  BY <1>7 DEF Disconnect, Connect, Receive, procVars
<1>8. CASE UNCHANGED boardVars
  BY <1>8 DEF boardVars, procVars
<1> QED BY <1>1, <1>2, <1>3, <1>4, <1>5, <1>6, <1>7, <1>8 DEF BoardNext, Read

\* What no step but a tick and a new row changes about the age of an entry.
LEMMA StillYoung ==
  ASSUME BoardTypes, AgesInv, NEW ttl \in Nat, ttl <= CacheTTL,
         NEW entry \in [rows : 0..MaxRows, left : 0..ttl], YoungEnough(entry, ttl),
         age' = age, stored' \in {stored, stored + 1}, stored' <= MaxRows
  PROVE  YoungEnough(entry, ttl)'
<1> SUFFICES ASSUME Live(entry), NEW n \in entry.rows + 1..stored' PROVE age[n] <= ttl - entry.left
  BY DEF YoungEnough
<1>1. CASE n \in entry.rows + 1..stored
  BY <1>1 DEF YoungEnough
<1>2. CASE n > stored
  <2>1. n \in 1..MaxRows
    BY CacheAssumption DEF BoardTypes
  <2>2. age[n] = 0
    BY <1>2, <2>1 DEF AgesInv
  <2> QED BY <2>2
<1> QED BY <1>1, <1>2 DEF BoardTypes

\* A tick ages the rows and the entry alike.
LEMMA YoungAfterTick ==
  ASSUME BoardTypes, NEW ttl \in Nat, ttl <= CacheTTL,
         NEW entry \in [rows : 0..MaxRows, left : 0..ttl], YoungEnough(entry, ttl), Tick,
         NEW older, older = Older(entry)
  PROVE  Live(older) => \A n \in older.rows + 1..stored : age'[n] <= ttl - older.left
<1> SUFFICES ASSUME Live(older), NEW n \in older.rows + 1..stored
             PROVE  age'[n] <= ttl - older.left
  OBVIOUS
<1>1. Live(entry) /\ older.rows = entry.rows /\ older.left = entry.left - 1
  BY OlderEntry
<1>2. n \in 1..MaxRows
  BY <1>1, CacheAssumption DEF BoardTypes
<1>3. age[n] <= ttl - entry.left
  BY <1>1 DEF YoungEnough
<1>4. age'[n] <= age[n] + 1
  BY <1>2, CacheAssumption DEF Tick, BoardTypes
<1>5. age[n] \in Int /\ age'[n] \in Int
  BY <1>2, CacheAssumption DEF Tick, BoardTypes
<1> QED BY <1>1, <1>3, <1>4, <1>5

-----------------------------------------------------------------------------
(* The leaderboard: how old an answer may be.                              *)

\* What the types say of both kinds of entries.
LEMMA EntriesTyped ==
  ASSUME BoardTypes
  PROVE  /\ redis \in [rows : 0..MaxRows, left : 0..CacheTTL]
         /\ \A r \in Replica : local[r] \in [rows : 0..MaxRows, left : 0..FallbackTTL]
         /\ CacheTTL \in Nat /\ FallbackTTL \in Nat /\ FallbackTTL <= CacheTTL
         /\ MaxRows \in Nat /\ stored \in 0..MaxRows
  BY CacheAssumption DEF BoardTypes, Entry

\* What a reader stores is as old as its query, which no tick has followed.
LEMMA FreshlyStored ==
  ASSUME BoardTypes, AgesInv, NEW q \in Reader, at[q] = "set", age' = age, stored' = stored,
         NEW ttl \in Nat, NEW entry, entry = [rows |-> seen[q], left |-> ttl]
  PROVE  Live(entry) => \A n \in entry.rows + 1..stored' : age'[n] <= ttl - entry.left
  BY DEF AgesInv

\* Every step keeps the answers young.
LEMMA StalenessStep ==
  ASSUME BoardTypes, AgesInv, BoundedStaleness, [BoardNext]_boardVars
  PROVE  BoundedStaleness'
<1> USE EntriesTyped
<1> DEFINE Young(entry, ttl) == Live(entry) => \A n \in entry.rows + 1..stored' : age'[n] <= ttl - entry.left
<1>1. ~Live(NoEntry)
  BY EntryTypes
<1>2. Young(redis', CacheTTL) /\ (\A r \in Replica : Young(local'[r], FallbackTTL)) => BoundedStaleness'
  BY DEF BoundedStaleness, YoungEnough, Live
<1>3. CASE Tick
  <2>1. Young(redis', CacheTTL)
    <3>1. redis' = Older(redis) /\ stored' = stored
      BY <1>3 DEF Tick
    <3>2. YoungEnough(redis, CacheTTL)
      BY DEF BoundedStaleness
    <3> QED BY <1>3, <3>1, <3>2, YoungAfterTick
  <2>2. ASSUME NEW r \in Replica PROVE Young(local'[r], FallbackTTL)
    <3>1. local'[r] = Older(local[r]) /\ stored' = stored
      BY <1>3 DEF Tick
    <3>2. YoungEnough(local[r], FallbackTTL)
      BY DEF BoundedStaleness
    <3> QED BY <1>3, <3>1, <3>2, YoungAfterTick
  <2> QED BY <1>2, <2>1, <2>2
<1>4. ASSUME age' = age, stored' \in {stored, stored + 1}, stored' <= MaxRows
      PROVE  /\ Young(redis, CacheTTL)
             /\ \A r \in Replica : Young(local[r], FallbackTTL)
  <2>1. ASSUME NEW ttl \in Nat, ttl <= CacheTTL,
               NEW entry \in [rows : 0..MaxRows, left : 0..ttl], YoungEnough(entry, ttl)
        PROVE  Young(entry, ttl)
    BY <1>4, <2>1, StillYoung DEF YoungEnough
  <2>2. Young(redis, CacheTTL)
    BY <2>1 DEF BoundedStaleness
  <2>3. ASSUME NEW r \in Replica PROVE Young(local[r], FallbackTTL)
    BY <2>1 DEF BoundedStaleness
  <2> QED BY <2>2, <2>3
<1>14. ASSUME NEW q \in Reader, at[q] = "set", age' = age, stored' = stored
      PROVE  /\ Young([rows |-> seen[q], left |-> CacheTTL], CacheTTL)
             /\ Young([rows |-> seen[q], left |-> FallbackTTL], FallbackTTL)
  BY <1>14, FreshlyStored
<1>15. Young(NoEntry, CacheTTL) /\ Young(NoEntry, FallbackTTL)
  BY <1>1
<1> HIDE DEF Young
<1>5. CASE Ingest \/ UNCHANGED boardVars
  <2>1. UNCHANGED <<age, redis, local>> /\ stored' \in {stored, stored + 1} /\ stored' <= MaxRows
    BY <1>5 DEF Ingest, boardVars, cacheVars
  <2> QED BY <1>2, <1>4, <2>1
<1>6. ASSUME NEW r \in Replica, Disconnect(r) \/ Connect(r) PROVE BoundedStaleness'
  <2>1. UNCHANGED <<age, redis, local, stored>>
    BY <1>6 DEF Disconnect, Connect, cacheVars
  <2> QED BY <1>2, <1>4, <2>1
<1>7. ASSUME NEW r \in Replica, UNCHANGED <<age, redis, stored>>, ClearLocal(r) PROVE BoundedStaleness'
  <2>1. \A o \in Replica : local'[o] \in {local[o], NoEntry}
    BY <1>7 DEF ClearLocal, BoardTypes
  <2> QED BY <1>15, <1>2, <1>4, <1>7, <2>1
<1>8. ASSUME NEW q \in Reader, Look(q) \/ Get(q) \/ Query(q) PROVE BoundedStaleness'
  <2>1. UNCHANGED <<age, redis, local, stored>>
    BY <1>8 DEF Look, Get, Query, cacheVars
  <2> QED BY <1>2, <1>4, <2>1
<1>9. ASSUME NEW q \in Reader, Set(q) PROVE BoundedStaleness'
  <2>1. at[q] = "set" /\ UNCHANGED <<age, stored>> /\ (local' = local \/ InProcess(q))
        /\ (redis' = redis \/ InRedis(q))
    BY <1>9 DEF Set
  <2>2. Young(redis', CacheTTL)
    <3>1. redis' = redis \/ redis' = [rows |-> seen[q], left |-> CacheTTL]
      BY <2>1 DEF InRedis
    <3>2. Young(redis, CacheTTL)
      BY <1>4, <2>1
    <3>3. Young([rows |-> seen[q], left |-> CacheTTL], CacheTTL)
      BY <1>14, <2>1
    <3> QED BY <3>1, <3>2, <3>3
  <2>3. ASSUME NEW r \in Replica PROVE Young(local'[r], FallbackTTL)
    <3>1. local'[r] = local[r] \/ local'[r] = [rows |-> seen[q], left |-> FallbackTTL]
      BY <2>1 DEF InProcess, BoardTypes
    <3>2. Young(local[r], FallbackTTL)
      BY <1>4, <2>1
    <3>3. Young([rows |-> seen[q], left |-> FallbackTTL], FallbackTTL)
      BY <1>14, <2>1
    <3> QED BY <3>1, <3>2, <3>3
  <2> QED BY <1>2, <2>2, <2>3
<1>10. ASSUME NEW w \in Writer, Record(w) \/ Scan(w) \/ Publish(w) PROVE BoundedStaleness'
  <2>1. UNCHANGED <<age, redis, local>> /\ stored' \in {stored, stored + 1} /\ stored' <= MaxRows
    BY <1>10 DEF Record, Scan, Publish, cacheVars
  <2> QED BY <1>2, <1>4, <2>1
<1>11. ASSUME NEW w \in Writer, Delete(w) PROVE BoundedStaleness'
  <2>1. UNCHANGED <<age, local, stored>> /\ redis' \in {redis, NoEntry}
    BY <1>11 DEF Delete, DeleteKeys
  <2> QED BY <1>15, <1>2, <1>4, <2>1
<1>12. ASSUME NEW w \in Writer, Clear(w) PROVE BoundedStaleness'
  <2>1. UNCHANGED <<age, redis, stored>> /\ ClearLocal(Home(w)) /\ Home(w) \in Replica
    BY <1>12, CacheAssumption DEF Clear, Home
  <2> QED BY <1>7, <2>1
<1>13. ASSUME NEW r \in Replica, Receive(r) PROVE BoundedStaleness'
  BY <1>7, <1>13 DEF Receive
<1> QED BY <1>2, <1>3, <1>5, <1>6, <1>8, <1>9, <1>10, <1>11, <1>12, <1>13
        DEF BoardNext, Read, Invalidate

\* Nobody is answered with a leaderboard that lacks a row older than the lifetime of its
\* entry, however replicas lose Redis, broadcasts and races
\* (profile-leaderboard-cache.ts 28-31, 85-183): for any replicas, readers, writers,
\* payments and lifetimes.
THEOREM NeverTooOld == BoardSpec => []BoardInv
<1> DEFINE BoardIInv == BoardTypes /\ AgesInv /\ BoundedStaleness
<1>1. BoardInit => BoardIInv
  <2> SUFFICES ASSUME BoardInit PROVE BoardIInv
    OBVIOUS
  <2>1. BoardTypes
    BY BoardTypesInit
  <2>2. AgesInv /\ BoundedStaleness
    BY CacheAssumption, EntryTypes DEF BoardInit, AgesInv, BoundedStaleness, YoungEnough
  <2> QED BY <2>1, <2>2
<1>2. BoardIInv /\ [BoardNext]_boardVars => BoardIInv'
  BY BoardTypesStep, AgesStep, StalenessStep
<1>3. BoardIInv => BoardInv
  BY DEF BoardInv
<1> QED BY <1>1, <1>2, <1>3, PTL DEF BoardSpec

-----------------------------------------------------------------------------
(* The leaderboard: what is served while nothing fails.                    *)

\* The entry in Redis, if it can be served, has the first n rows.
Fresh(n) == Live(redis) => redis.rows >= n

\* The same of the next state.
FreshNext(n) == Live(redis') => redis'.rows >= n

\* As long as nothing fails and no stored result was overtaken: an invalidation that has
\* yet to delete the entry has found it when it must, and one that is past it leaves
\* nothing older behind.
FreshInv ==
  errors = 0 /\ ~overtaken /\ UseRedis =>
    /\ \A r \in Replica : up[r]
    /\ Fresh(invalidated)
    /\ \A w \in Writer : /\ at[w] = "del" /\ ~keys[w] => Fresh(seen[w])
                         /\ at[w] \in {"clear", "publish"} => Fresh(seen[w])

\* A step that leaves the entry, or puts a newer one in its place, or nothing, and after
\* which no writer is where it was not.
LEMMA FreshStays ==
  ASSUME BoardTypes, FreshInv,
         errors' = 0 /\ ~overtaken' => errors = 0 /\ ~overtaken,
         up' = up, invalidated' = invalidated,
         \A n \in 0..stored : ~overtaken' /\ Fresh(n) => FreshNext(n),
         \A w \in Writer : at'[w] = at[w] /\ seen'[w] = seen[w] /\ keys'[w] = keys[w]
  PROVE  FreshInv'
<1>1. ASSUME NEW n \in 0..stored, ~overtaken', Fresh(n) PROVE FreshNext(n)
  BY <1>1
<1>2. invalidated \in 0..stored /\ \A w \in Writer : seen[w] \in 0..stored
  BY DEF BoardTypes
<1> SUFFICES ASSUME errors' = 0, ~overtaken', UseRedis
             PROVE  /\ \A r \in Replica : up[r]
                    /\ FreshNext(invalidated)
                    /\ \A w \in Writer : /\ at[w] = "del" /\ ~keys[w] => FreshNext(seen[w])
                                         /\ at[w] \in {"clear", "publish"} => FreshNext(seen[w])
  BY DEF FreshInv, Fresh, FreshNext, Live
<1> QED BY <1>1, <1>2 DEF FreshInv

\* A step of an invalidation which leaves the others where they are.
LEMMA WriterStays ==
  ASSUME BoardTypes, FreshInv, NEW w \in Writer,
         errors' = 0 /\ ~overtaken' /\ UseRedis =>
           /\ errors = 0 /\ ~overtaken
           /\ FreshNext(invalidated') /\ \A n \in 0..stored : Fresh(n) => FreshNext(n)
           /\ at'[w] = "del" /\ ~keys'[w] => FreshNext(seen'[w])
           /\ at'[w] \in {"clear", "publish"} => FreshNext(seen'[w]),
         up' = up,
         \A o \in Writer : o # w => at'[o] = at[o] /\ seen'[o] = seen[o] /\ keys'[o] = keys[o]
  PROVE  FreshInv'
<1> SUFFICES ASSUME errors' = 0, ~overtaken', UseRedis
             PROVE  /\ \A r \in Replica : up'[r]
                    /\ FreshNext(invalidated')
                    /\ \A o \in Writer : /\ at'[o] = "del" /\ ~keys'[o] => FreshNext(seen'[o])
                                         /\ at'[o] \in {"clear", "publish"} => FreshNext(seen'[o])
  BY DEF FreshInv, Fresh, FreshNext, Live
<1>1. ASSUME NEW o \in Writer, o # w
      PROVE  /\ at'[o] = "del" /\ ~keys'[o] => FreshNext(seen'[o])
             /\ at'[o] \in {"clear", "publish"} => FreshNext(seen'[o])
  BY <1>1 DEF FreshInv, BoardTypes
<1> QED BY <1>1 DEF FreshInv

LEMMA FreshStep ==
  ASSUME BoardTypes, FreshInv, [BoardNext]_boardVars
  PROVE  FreshInv'
<1>1. errors \in Nat /\ ~Live(NoEntry)
  BY EntryTypes, CacheAssumption DEF BoardTypes
<1>2. ASSUME redis' = redis \/ redis' = NoEntry PROVE \A n \in 0..stored : Fresh(n) => FreshNext(n)
  BY <1>1, <1>2 DEF Fresh, FreshNext
<1>3. CASE Tick
  <2>1. \A n \in 0..stored : Fresh(n) => FreshNext(n)
    BY <1>3, OlderEntry, EntriesTyped DEF Tick, Fresh, FreshNext
  <2>2. UNCHANGED <<errors, overtaken, up, invalidated, at, seen, keys>>
    BY <1>3 DEF Tick, procVars, ghostVars
  <2> QED BY <2>1, <2>2, FreshStays
<1>4. CASE Ingest \/ UNCHANGED boardVars
  <2>1. UNCHANGED <<redis, errors, overtaken, up, invalidated, at, seen, keys>>
    BY <1>4 DEF Ingest, boardVars, cacheVars, procVars, ghostVars
  <2> QED BY <1>2, <2>1, FreshStays
<1>5. ASSUME NEW r \in Replica, Disconnect(r) PROVE FreshInv'
  <2>1. errors' # 0
    BY <1>1, <1>5 DEF Disconnect, Error
  <2> QED BY <2>1 DEF FreshInv
<1>6. ASSUME NEW r \in Replica, Connect(r) PROVE FreshInv'
  <2>1. UseRedis /\ ~up[r] /\ UNCHANGED <<errors, overtaken>>
    BY <1>6 DEF Connect, ghostVars
  <2> QED BY <2>1 DEF FreshInv
<1>7. ASSUME NEW r \in Replica, Receive(r) PROVE FreshInv'
  <2>1. UNCHANGED <<redis, errors, overtaken, up, invalidated, at, seen, keys>>
    BY <1>7 DEF Receive, procVars, ghostVars
  <2> QED BY <1>2, <2>1, FreshStays
<1>8. ASSUME NEW q \in Reader, Look(q) \/ Get(q) \/ Query(q) PROVE FreshInv'
  <2>1. q \notin Writer
    BY CacheAssumption
  <2>2. /\ UNCHANGED <<redis, overtaken, up, invalidated, keys>>
        /\ errors' = errors \/ errors' = errors + 1
    BY <1>8 DEF Look, Get, Query, Error, cacheVars, ghostVars
  <2>3. \A w \in Writer : at'[w] = at[w] /\ seen'[w] = seen[w]
    BY <1>8, <2>1 DEF Look, Get, Query, Found, Goto, BoardTypes
  <2> QED BY <1>1, <1>2, <2>2, <2>3, FreshStays
<1>9. ASSUME NEW q \in Reader, Set(q) PROVE FreshInv'
  <2>1. q \notin Writer
    BY CacheAssumption
  <2>2. /\ UNCHANGED <<up, invalidated, keys>>
        /\ errors' = errors \/ errors' = errors + 1
        /\ redis' = redis \/ redis' = [rows |-> seen[q], left |-> CacheTTL]
        /\ ~overtaken' => ~overtaken /\ ~(seen[q] < stored)
    BY <1>9 DEF Set, InRedis, Error
  <2>3. \A w \in Writer : at'[w] = at[w] /\ seen'[w] = seen[w]
    BY <1>9, <2>1 DEF Set, Goto, BoardTypes
  <2>4. ASSUME NEW n \in 0..stored, ~overtaken', Fresh(n) PROVE FreshNext(n)
    <3>1. seen[q] = stored /\ stored \in Nat
      BY <2>2, <2>4, CacheAssumption DEF BoardTypes
    <3> QED BY <2>2, <2>4, <3>1 DEF Fresh, FreshNext
  <2> QED BY <1>1, <2>2, <2>3, <2>4, FreshStays
<1>10. ASSUME NEW w \in Writer, Record(w) PROVE FreshInv'
  <2>1. /\ UNCHANGED <<redis, overtaken, up, invalidated, keys, errors>>
        /\ at'[w] = (IF up[Home(w)] THEN "scan" ELSE "clear")
        /\ \A o \in Writer : o # w => at'[o] = at[o] /\ seen'[o] = seen[o]
    BY <1>10 DEF Record, Goto, cacheVars, ghostVars, BoardTypes
  <2>2. errors = 0 /\ ~overtaken /\ UseRedis => at'[w] = "scan" /\ FreshNext(invalidated')
    BY <2>1, CacheAssumption DEF FreshInv, Home, Fresh, FreshNext
  <2> QED BY <1>2, <2>1, <2>2, WriterStays
<1>11. ASSUME NEW w \in Writer, Scan(w) PROVE FreshInv'
  <2>1. /\ UNCHANGED <<redis, overtaken, up, invalidated, seen>>
        /\ errors' = 0 => errors = 0 /\ at'[w] = "del" /\ keys'[w] = Live(redis)
        /\ \A o \in Writer : o # w => at'[o] = at[o] /\ keys'[o] = keys[o]
    BY <1>1, <1>11 DEF Scan, Error, Goto, cacheVars, ghostVars, BoardTypes
  <2>2. errors' = 0 /\ ~overtaken /\ UseRedis =>
          FreshNext(invalidated') /\ (~keys'[w] => FreshNext(seen'[w]))
    BY <2>1 DEF FreshInv, Fresh, FreshNext
  <2> QED BY <1>2, <2>1, <2>2, WriterStays
<1>12. ASSUME NEW w \in Writer, Delete(w) PROVE FreshInv'
  <2>1. /\ UNCHANGED <<overtaken, up, invalidated, seen>> /\ at[w] = "del" /\ at'[w] = "clear"
        /\ errors' = 0 => errors = 0 /\ redis' = IF keys[w] THEN NoEntry ELSE redis
        /\ redis' = redis \/ redis' = NoEntry
        /\ \A o \in Writer : o # w => at'[o] = at[o] /\ keys'[o] = keys[o]
    BY <1>1, <1>12 DEF Delete, DeleteKeys, Error, Goto, ghostVars, BoardTypes
  <2>2. errors' = 0 /\ ~overtaken /\ UseRedis => FreshNext(invalidated') /\ FreshNext(seen'[w])
    BY <1>1, <2>1 DEF FreshInv, Fresh, FreshNext
  <2> QED BY <1>2, <2>1, <2>2, WriterStays
<1>13. ASSUME NEW w \in Writer, Clear(w) PROVE FreshInv'
  <2>1. /\ UNCHANGED <<redis, overtaken, up, invalidated, seen, keys, errors>>
        /\ at[w] = "clear" /\ at'[w] = "publish"
        /\ \A o \in Writer : o # w => at'[o] = at[o]
    BY <1>13 DEF Clear, Goto, ghostVars, BoardTypes
  <2>2. errors = 0 /\ ~overtaken /\ UseRedis => FreshNext(invalidated') /\ FreshNext(seen'[w])
    BY <2>1 DEF FreshInv, Fresh, FreshNext
  <2> QED BY <1>2, <2>1, <2>2, WriterStays
<1>14. ASSUME NEW w \in Writer, Publish(w) PROVE FreshInv'
  <2>1. /\ UNCHANGED <<redis, overtaken, up, keys, errors>>
        /\ at[w] = "publish" /\ at'[w] = "idle" /\ invalidated' \in {seen[w], invalidated}
        /\ \A o \in Writer : o # w => at'[o] = at[o] /\ seen'[o] = seen[o]
    BY <1>14 DEF Publish, Goto, cacheVars, BoardTypes
  <2>2. errors = 0 /\ ~overtaken /\ UseRedis => FreshNext(invalidated')
    BY <2>1 DEF FreshInv, Fresh, FreshNext
  <2> QED BY <1>2, <2>1, <2>2, WriterStays
<1> QED BY <1>3, <1>4, <1>5, <1>6, <1>7, <1>8, <1>9, <1>10, <1>11, <1>12, <1>13, <1>14
        DEF BoardNext, Read, Invalidate

\* Without errors, and unless a reader stored a result that a row had overtaken, an entry
\* that can be served has every row whose invalidation has returned
\* (profile-leaderboard-cache.ts 150-183), however invalidations and readers interleave:
\* the lifetimes are there for failures and for overtaken readers only.
THEOREM Invalidated == BoardSpec => []StaleOnlyIfOvertaken
<1> DEFINE Both == BoardTypes /\ FreshInv
<1>1. BoardInit => Both
  <2> SUFFICES ASSUME BoardInit PROVE Both
    OBVIOUS
  <2>1. BoardTypes
    BY BoardTypesInit
  <2>2. FreshInv
    BY EntryTypes DEF BoardInit, FreshInv, Fresh
  <2> QED BY <2>1, <2>2
<1>2. Both /\ [BoardNext]_boardVars => Both'
  BY BoardTypesStep, FreshStep
<1>3. Both => StaleOnlyIfOvertaken
  BY DEF FreshInv, Fresh, StaleOnlyIfOvertaken
<1> QED BY <1>1, <1>2, <1>3, PTL DEF BoardSpec
=============================================================================
