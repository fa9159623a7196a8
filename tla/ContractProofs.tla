--------------------------- MODULE ContractProofs ---------------------------
(***************************************************************************)
(* Of the support_page contract, for any number of accounts and assets and *)
(* any counter and amount widths: its types, that it holds what it owes,   *)
(* and that it is a vault.                                                 *)
(*                                                                         *)
(* Of the indexer of its events, for any events, profiles, replicas and    *)
(* page sizes: its types, that a linked row is its wallet's, and that the  *)
(* cursor passes no event that was not stored.                             *)
(***************************************************************************)
EXTENDS SupportPage, EventIndexer, WellFoundedInduction, TLAPS

LEMMA ContractIsAddress == Contract \in Address /\ Account \subseteq Address
  BY ConstantsAssumption DEF Contract, Address, Account

\* The contract's storage and the token balances stay within their types: no
\* counter or amount passes its width, no total goes below zero.
THEOREM TypeCorrect == Spec => []TypeOK
<1>1. Init => TypeOK
  <2>1. 0 \in 0..MaxU32 /\ 0 \in Amount /\ 0 \in 0..MaxClawed
    BY ConstantsAssumption DEF Amount
  <2> SUFFICES ASSUME Init PROVE TypeOK
    OBVIOUS
  <2>2. recipientCount \in [Address -> 0..MaxU32] /\ supportCount \in 0..MaxU32
    BY <2>1 DEF Init
  <2>3. recipientTotal \in [Pair -> Amount] /\ balance \in [Pair -> Amount]
    BY <2>1 DEF Init
  <2>4. given \in [Asset -> Nat] /\ clawed \in [Asset -> 0..MaxClawed]
    BY <2>1 DEF Init
  <2>5. admin \in Address \cup {NoAdmin} /\ paused \in BOOLEAN /\ known \subseteq Pair
    BY DEF Init
  <2> QED
    BY <2>2, <2>3, <2>4, <2>5 DEF TypeOK
<1>2. TypeOK /\ [Next]_vars => TypeOK'
  <2> SUFFICES ASSUME TypeOK, [Next]_vars PROVE TypeOK'
    OBVIOUS
  <2> USE ConstantsAssumption, ContractIsAddress
  <2>1. ASSUME NEW who \in Account, Initialize(who) \/ Pause(who) \/ Unpause(who)
        PROVE  TypeOK'
    BY <2>1 DEF TypeOK, Initialize, Pause, Unpause, tokenVars
  <2>2. ASSUME NEW s \in Account, NEW r \in Address, NEW a \in Asset,
               NEW n \in -1..MaxI128, NEW message, NEW code,
               Support(s, r, a, n, message, code)
        PROVE  TypeOK'
    <3>1. <<s, a>> \in Pair /\ <<r, a>> \in Pair /\ <<Contract, a>> \in Pair
      BY DEF Pair
    <3>2. /\ n >= 1 /\ n <= balance[<<s, a>>]
          /\ supportCount + 1 <= MaxU32
          /\ recipientCount[r] + 1 <= MaxU32
          /\ recipientTotal[<<r, a>>] + n <= MaxI128
          /\ CanMove(a, s, Contract, n)
      BY <2>2, <3>1, SMTT(30) DEF Support, CountSupport, Credit, SupportOutcome, Overflows, TypeOK, Amount
    <3>3. balance' \in [Pair -> Amount]
      BY <2>2, <3>1, <3>2, SMTT(30) DEF Support, CountSupport, Credit, Move, CanMove, TypeOK, Amount
    <3>4. supportCount' \in 0..MaxU32 /\ recipientCount' \in [Address -> 0..MaxU32]
      BY <2>2, <3>2 DEF Support, CountSupport, Credit, TypeOK
    <3>5. known' \subseteq Pair /\ recipientTotal' \in [Pair -> Amount]
      BY <2>2, <3>1, <3>2 DEF Support, CountSupport, Credit, TypeOK, Amount
    <3> QED
      BY <2>2, <3>3, <3>4, <3>5 DEF Support, CountSupport, Credit, TypeOK
  <2>3. ASSUME NEW caller \in Account, NEW r \in Address, NEW a \in Asset,
               NEW n \in -1..MaxI128, Withdraw(caller, r, a, n)
        PROVE  TypeOK'
    <3>1. <<r, a>> \in Pair /\ <<Contract, a>> \in Pair
      BY DEF Pair
    <3>2. /\ n >= 1 /\ n <= recipientTotal[<<r, a>>]
          /\ n <= balance[<<Contract, a>>]
          /\ CanMove(a, Contract, r, n)
      BY <2>3, <3>1, SMTT(30) DEF Withdraw, Debit, WithdrawOutcome, TypeOK, Amount
    <3>3. balance' \in [Pair -> Amount]
      BY <2>3, <3>1, <3>2, SMTT(30) DEF Withdraw, Debit, Move, CanMove, TypeOK, Amount
    <3>4. recipientTotal' \in [Pair -> Amount]
      BY <2>3, <3>1, <3>2 DEF Withdraw, Debit, TypeOK, Amount
    <3> QED
      BY <2>3, <3>3, <3>4 DEF Withdraw, Debit, TypeOK
  <2>4. ASSUME NEW a \in Asset, NEW to \in Address, NEW n \in 1..MaxI128, Mint(a, to, n)
        PROVE  TypeOK'
    <3>1. balance' \in [Pair -> Amount] /\ given' \in [Asset -> Nat]
      BY <2>4 DEF Mint, ReceiveOutside, TypeOK, Amount, Pair
    <3> QED
      BY <2>4, <3>1 DEF Mint, TypeOK, contractVars
  <2>5. ASSUME NEW a \in Asset, NEW payer \in Account, NEW to \in Address,
               NEW n \in 1..MaxI128, Pay(a, payer, to, n)
        PROVE  TypeOK'
    <3>1. given' \in [Asset -> Nat]
      BY <2>5 DEF Pay, ReceiveOutside, TypeOK
    <3>2. balance' \in [Pair -> Amount]
      BY <2>5, SMTT(30) DEF Pay, CanMove, Move, TypeOK, Amount, Pair
    <3> QED
      BY <2>5, <3>1, <3>2 DEF Pay, TypeOK, contractVars
  <2>6. ASSUME NEW a \in Asset, NEW payer \in Address, NEW n \in 1..MaxI128,
               Clawback(a, payer, n)
        PROVE  TypeOK'
    <3>1. balance' \in [Pair -> Amount] /\ clawed' \in [Asset -> 0..MaxClawed]
      BY <2>6 DEF Clawback, TypeOK, Amount, Pair
    <3> QED
      BY <2>6, <3>1 DEF Clawback, TypeOK, contractVars
  <2>7. CASE UNCHANGED vars
    BY <2>7 DEF TypeOK, vars, contractVars, tokenVars
  <2> QED
    BY <2>1, <2>2, <2>3, <2>4, <2>5, <2>6, <2>7 DEF Next
<1> QED
  BY <1>1, <1>2, PTL DEF Spec

-----------------------------------------------------------------------------
(***************************************************************************)
(* Sums.  No induction is needed: partial sums are given by a witness, and *)
(* changing one summand changes the witness from there on.                 *)
(***************************************************************************)
Bump(sum, k, d) == [i \in 0..NumAccounts + 1 |-> IF i <= k THEN sum[i] ELSE sum[i] + d]

LEMMA BumpSums ==
  ASSUME NEW top \in Nat, NEW newTop \in Nat,
         NEW sum \in [0..NumAccounts + 1 -> 0..top],
         NEW f \in [Address -> Nat], PartialSums(sum, f),
         NEW k \in Address, NEW d \in Int, f[k] + d >= 0,
         sum[NumAccounts + 1] + d <= newTop
  PROVE  /\ Bump(sum, k, d) \in [0..NumAccounts + 1 -> 0..newTop]
         /\ PartialSums(Bump(sum, k, d), [f EXCEPT ![k] = @ + d])
         /\ Bump(sum, k, d)[NumAccounts + 1] = sum[NumAccounts + 1] + d
<1> DEFINE S == Bump(sum, k, d)
           D == 0..NumAccounts + 1
<1> USE ConstantsAssumption
<1>1. /\ k \in D /\ k + 1 \in D /\ NumAccounts + 1 \in D /\ 0 \in D
      /\ NumAccounts \in Nat /\ k \in Nat /\ k <= NumAccounts
  BY DEF Address
<1>2. \A i \in D : sum[i] \in Nat
  OBVIOUS
<1>3. sum[k + 1] = sum[k] + f[k]
  BY DEF PartialSums
<1>4. \A i, j \in D : i <= j => sum[i] <= sum[j]
  BY DEF PartialSums
<1>5. \A i \in D : S[i] = IF i <= k THEN sum[i] ELSE sum[i] + d
  BY DEF Bump
<1>6. \A i, j \in D : i <= j => S[i] <= S[j]
  <2> SUFFICES ASSUME NEW i \in D, NEW j \in D, i <= j PROVE S[i] <= S[j]
    OBVIOUS
  <2>1. CASE j <= k
    BY <2>1, <1>1, <1>4, <1>5
  <2>2. CASE i > k
    BY <2>2, <1>1, <1>2, <1>4, <1>5
  <2>3. CASE i <= k /\ j > k
    <3>1. sum[i] <= sum[k] /\ sum[k + 1] <= sum[j]
      BY <2>3, <1>1, <1>4
    <3>2. S[i] = sum[i] /\ S[j] = sum[j] + d
      BY <2>3, <1>1, <1>5
    <3>3. f[k] \in Nat /\ sum[i] \in Nat /\ sum[j] \in Nat /\ sum[k] \in Nat
      BY <1>1, <1>2
    <3> HIDE DEF S
    <3> QED
      BY <3>1, <3>2, <3>3, <1>3
  <2> QED
    BY <2>1, <2>2, <2>3, <1>1
<1>7. S[0] = 0 /\ S[NumAccounts + 1] = sum[NumAccounts + 1] + d
  BY <1>1, <1>5 DEF PartialSums
<1>8. \A i \in D : S[i] \in Int
  BY <1>2, <1>5
<1>9. \A i \in D : S[i] \in 0..newTop
  <2> SUFFICES ASSUME NEW i \in D PROVE S[i] \in 0..newTop
    OBVIOUS
  <2>1. S[0] <= S[i] /\ S[i] <= S[NumAccounts + 1]
    <3> HIDE DEF S
    <3> QED BY <1>1, <1>6
  <2> HIDE DEF S
  <2> QED
    BY <2>1, <1>7, <1>8
<1>10. \A r \in Address : S[r + 1] = S[r] + [f EXCEPT ![k] = @ + d][r]
  <2> SUFFICES ASSUME NEW r \in Address
               PROVE  S[r + 1] = S[r] + [f EXCEPT ![k] = @ + d][r]
    OBVIOUS
  <2>1. r \in D /\ r + 1 \in D /\ r \in Nat
    BY DEF Address
  <2>2. sum[r + 1] = sum[r] + f[r] /\ sum[r] \in Nat /\ f[r] \in Nat
    BY <2>1, <1>2 DEF PartialSums
  <2>3. S[r] = (IF r <= k THEN sum[r] ELSE sum[r] + d)
    BY <2>1, <1>5
  <2>4. S[r + 1] = (IF r + 1 <= k THEN sum[r + 1] ELSE sum[r + 1] + d)
    BY <2>1, <1>5
  <2>5. [f EXCEPT ![k] = @ + d][r] = IF r = k THEN f[r] + d ELSE f[r]
    OBVIOUS
  <2> HIDE DEF S
  <2> QED
    BY <2>1, <2>2, <2>3, <2>4, <2>5, <1>1
<1>11. S \in [D -> 0..newTop]
  <2>1. S = [i \in D |-> S[i]]
    BY DEF Bump
  <2> QED
    BY <2>1, <1>9
<1> HIDE DEF S
<1> QED
  BY <1>6, <1>7, <1>10, <1>11 DEF PartialSums, S

LEMMA ZeroSums ==
  ASSUME NEW top \in Nat, NEW f \in [Address -> {0}]
  PROVE  \E sum \in [0..NumAccounts + 1 -> 0..top] :
            PartialSums(sum, f) /\ sum[NumAccounts + 1] = 0
<1> DEFINE S == [i \in 0..NumAccounts + 1 |-> 0]
<1>1. S \in [0..NumAccounts + 1 -> 0..top] /\ S[NumAccounts + 1] = 0
  BY ConstantsAssumption
<1>2. \A r \in Address : r \in 0..NumAccounts + 1 /\ r + 1 \in 0..NumAccounts + 1
  BY ConstantsAssumption DEF Address
<1>3. PartialSums(S, f)
  BY <1>2, ConstantsAssumption DEF PartialSums
<1> QED
  BY <1>1, <1>3

-----------------------------------------------------------------------------
(* The counters.                                                           *)

\* What a step of support() does to the counters, and that no other step
\* touches them.
LEMMA CounterSteps ==
  ASSUME TypeOK, [Next]_vars
  PROVE  \/ UNCHANGED <<supportCount, recipientCount>>
         \/ /\ supportCount' = supportCount + 1
            /\ supportCount + 1 <= MaxU32
            /\ \E r \in Address : recipientCount' = [recipientCount EXCEPT ![r] = @ + 1]
<1>1. ASSUME NEW s \in Account, NEW r \in Address, NEW a \in Asset,
             NEW n \in -1..MaxI128, NEW message, NEW code,
             Support(s, r, a, n, message, code)
      PROVE  supportCount' = supportCount + 1 /\ supportCount + 1 <= MaxU32
             /\ recipientCount' = [recipientCount EXCEPT ![r] = @ + 1]
  BY <1>1, ConstantsAssumption, SMTT(30) DEF Support, CountSupport, Credit, SupportOutcome, Overflows, TypeOK
<1> QED
  BY <1>1 DEF Next, vars, contractVars, tokenVars, Initialize, Pause, Unpause,
              Withdraw, Debit, Mint, Pay, Clawback

\* The global support counter is the sum of the recipients' counters.
THEOREM CountersAgree == Spec => []CountsAgree
<1>1. Init => CountsAgree
  <2> SUFFICES ASSUME Init PROVE CountsAgree
    OBVIOUS
  <2>1. recipientCount \in [Address -> {0}] /\ supportCount = 0
    BY DEF Init
  <2> QED
    BY <2>1, ZeroSums, ConstantsAssumption DEF CountsAgree
<1>2. TypeOK /\ CountsAgree /\ [Next]_vars => CountsAgree'
  <2> SUFFICES ASSUME TypeOK, CountsAgree, [Next]_vars PROVE CountsAgree'
    OBVIOUS
  <2>1. CASE UNCHANGED <<supportCount, recipientCount>>
    BY <2>1 DEF CountsAgree
  <2>2. ASSUME supportCount' = supportCount + 1, supportCount + 1 <= MaxU32,
               NEW r \in Address, recipientCount' = [recipientCount EXCEPT ![r] = @ + 1]
        PROVE  CountsAgree'
    <3>1. PICK sum \in [0..NumAccounts + 1 -> 0..MaxU32] :
             PartialSums(sum, recipientCount) /\ supportCount = sum[NumAccounts + 1]
      BY DEF CountsAgree
    <3>2. recipientCount \in [Address -> Nat] /\ recipientCount[r] + 1 >= 0
      BY ConstantsAssumption DEF TypeOK
    <3>3. /\ Bump(sum, r, 1) \in [0..NumAccounts + 1 -> 0..MaxU32]
          /\ PartialSums(Bump(sum, r, 1), [recipientCount EXCEPT ![r] = @ + 1])
          /\ Bump(sum, r, 1)[NumAccounts + 1] = sum[NumAccounts + 1] + 1
      <4>1. sum[NumAccounts + 1] + 1 <= MaxU32 /\ MaxU32 \in Nat /\ 1 \in Int
        BY <2>2, <3>1, ConstantsAssumption
      <4> QED
        BY <4>1, <3>1, <3>2, BumpSums
    <3> QED
      BY <2>2, <3>1, <3>3 DEF CountsAgree
  <2> QED
    BY <2>1, <2>2, CounterSteps
<1> QED
  BY <1>1, <1>2, TypeCorrect, PTL DEF Spec

\* Both together: what SupportPage asks of the contract's own storage, for any
\* accounts, assets and widths (support 124-219).
THEOREM WellKept == Spec => []Inv
<1>1. TypeOK /\ CountsAgree => Inv
  BY DEF Inv
<1> QED
  BY <1>1, TypeCorrect, CountersAgree, PTL

-----------------------------------------------------------------------------
(* Custody.                                                                *)

\* What the contract's account holds in `a` by way of support and withdraw.
Held(a) == balance[<<Contract, a>>] + clawed[a] - given[a]

\* Whatever the step, the totals in an asset and the tokens held for them
\* change together, one recipient at a time.
CustodyStep(a) ==
  \/ /\ \A r \in Address : recipientTotal'[<<r, a>>] = recipientTotal[<<r, a>>]
     /\ Held(a)' = Held(a)
  \/ \E r \in Address, d \in Int :
        /\ recipientTotal[<<r, a>>] + d >= 0
        /\ recipientTotal'[<<r, a>>] = recipientTotal[<<r, a>>] + d
        /\ \A q \in Address \ {r} : recipientTotal'[<<q, a>>] = recipientTotal[<<q, a>>]
        /\ Held(a)' = Held(a) + d

LEMMA CustodySteps ==
  ASSUME TypeOK, [Next]_vars, NEW a \in Asset
  PROVE  CustodyStep(a)
<1> USE ConstantsAssumption, ContractIsAddress
<1>0. \A r \in Address, b \in Asset : <<r, b>> \in Pair
  BY DEF Pair
<1>a. /\ \A p \in Pair : recipientTotal[p] \in Int /\ balance[p] \in Int
      /\ \A b \in Asset : given[b] \in Int /\ clawed[b] \in Int
  BY DEF TypeOK, Amount
<1>b. Account \cap {Contract} = {}
  BY DEF Account, Contract
<1>1. ASSUME UNCHANGED <<recipientTotal, tokenVars>> PROVE CustodyStep(a)
  BY <1>1 DEF CustodyStep, Held, tokenVars
<1>2. ASSUME NEW who \in Account, Initialize(who) \/ Pause(who) \/ Unpause(who)
      PROVE  CustodyStep(a)
  BY <1>1, <1>2 DEF Initialize, Pause, Unpause
<1>3. ASSUME NEW s \in Account, NEW r \in Address, NEW b \in Asset,
             NEW n \in -1..MaxI128, NEW message, NEW code,
             Support(s, r, b, n, message, code)
      PROVE  CustodyStep(a)
  <2>1. n >= 1
    BY <1>3, SMTT(30) DEF Support, CountSupport, Credit, SupportOutcome, Overflows
  <2>2. /\ recipientTotal' = [recipientTotal EXCEPT ![<<r, b>>] = @ + n]
        /\ given' = given /\ clawed' = clawed
        /\ balance' = [balance EXCEPT ![<<s, b>>] = @ - n, ![<<Contract, b>>] = @ + n]
    BY <1>3, <1>b DEF Support, CountSupport, Credit, Move
  <2>3. balance'[<<Contract, a>>] = balance[<<Contract, a>>] + (IF a = b THEN n ELSE 0)
    BY <1>0, <1>a, <1>b, <2>2 DEF TypeOK
  <2>4. CASE a = b
    <3>1. Held(a)' = Held(a) + n
      BY <2>2, <2>3, <2>4, <1>0, <1>a DEF Held
    <3>2. recipientTotal'[<<r, a>>] = recipientTotal[<<r, a>>] + n
      BY <2>2, <2>4, <1>0 DEF TypeOK
    <3>3. \A q \in Address \ {r} : recipientTotal'[<<q, a>>] = recipientTotal[<<q, a>>]
      BY <2>2, <2>4, <1>0 DEF TypeOK
    <3>4. recipientTotal[<<r, a>>] + n >= 0 /\ n \in Int
      BY <2>1, <1>0 DEF TypeOK, Amount
    <3> QED
      BY <3>1, <3>2, <3>3, <3>4 DEF CustodyStep
  <2>5. CASE a # b
    <3>1. Held(a)' = Held(a)
      BY <2>2, <2>3, <2>5, <1>0, <1>a DEF Held
    <3>2. \A q \in Address : recipientTotal'[<<q, a>>] = recipientTotal[<<q, a>>]
      BY <2>2, <2>5, <1>0 DEF TypeOK
    <3> QED
      BY <3>1, <3>2 DEF CustodyStep
  <2> QED
    BY <2>4, <2>5
<1>4. ASSUME NEW caller \in Account, NEW r \in Address, NEW b \in Asset,
             NEW n \in -1..MaxI128, Withdraw(caller, r, b, n)
      PROVE  CustodyStep(a)
  <2>1. r = caller /\ n >= 1 /\ n <= recipientTotal[<<r, b>>]
    BY <1>4, <1>0, SMTT(30) DEF Withdraw, Debit, WithdrawOutcome, TypeOK, Amount
  <2>2. /\ recipientTotal' = [recipientTotal EXCEPT ![<<r, b>>] = @ - n]
        /\ given' = given /\ clawed' = clawed
        /\ balance' = [balance EXCEPT ![<<Contract, b>>] = @ - n, ![<<r, b>>] = @ + n]
    BY <1>4, <2>1, <1>b DEF Withdraw, Debit, Move
  <2>3. balance'[<<Contract, a>>] = balance[<<Contract, a>>] - (IF a = b THEN n ELSE 0)
    BY <1>0, <1>a, <1>b, <2>1, <2>2 DEF TypeOK
  <2>4. CASE a = b
    <3>1. Held(a)' = Held(a) + (-n)
      BY <2>2, <2>3, <2>4, <1>0, <1>a DEF Held
    <3>2. recipientTotal'[<<r, a>>] = recipientTotal[<<r, a>>] + (-n)
      BY <2>2, <2>4, <1>0, <1>a DEF TypeOK
    <3>3. \A q \in Address \ {r} : recipientTotal'[<<q, a>>] = recipientTotal[<<q, a>>]
      BY <2>2, <2>4, <1>0 DEF TypeOK
    <3>4. recipientTotal[<<r, a>>] + (-n) >= 0 /\ -n \in Int
      BY <2>1, <2>4, <1>0, <1>a
    <3> QED
      BY <3>1, <3>2, <3>3, <3>4 DEF CustodyStep
  <2>5. CASE a # b
    <3>1. Held(a)' = Held(a)
      BY <2>2, <2>3, <2>5, <1>0, <1>a DEF Held
    <3>2. \A q \in Address : recipientTotal'[<<q, a>>] = recipientTotal[<<q, a>>]
      BY <2>2, <2>5, <1>0 DEF TypeOK
    <3> QED
      BY <3>1, <3>2 DEF CustodyStep
  <2> QED
    BY <2>4, <2>5
<1>5. ASSUME UNCHANGED recipientTotal, Held(a)' = Held(a) PROVE CustodyStep(a)
  BY <1>5 DEF CustodyStep
<1>6. ASSUME NEW b \in Asset, NEW to \in Address, NEW n \in 1..MaxI128, Mint(b, to, n)
      PROVE  CustodyStep(a)
  <2>1. Held(a)' = Held(a)
    BY <1>6, <1>0, <1>a DEF Mint, ReceiveOutside, Held, TypeOK
  <2> QED
    BY <1>5, <1>6, <2>1 DEF Mint, contractVars
<1>7. ASSUME NEW b \in Asset, NEW payer \in Account, NEW to \in Address,
             NEW n \in 1..MaxI128, Pay(b, payer, to, n)
      PROVE  CustodyStep(a)
  <2>1. Held(a)' = Held(a)
    <3>1. payer # Contract
      BY <1>b
    <3>2. CASE to = Contract
      <4>1. balance' = [balance EXCEPT ![<<payer, b>>] = @ - n, ![<<Contract, b>>] = @ + n]
        BY <1>7, <3>1, <3>2 DEF Pay, Move
      <4>2. balance'[<<Contract, a>>] = balance[<<Contract, a>>] + (IF a = b THEN n ELSE 0)
        BY <1>0, <1>a, <3>1, <4>1 DEF TypeOK
      <4> QED
        BY <1>7, <1>0, <1>a, <3>2, <4>2 DEF Pay, ReceiveOutside, Held, TypeOK
    <3>3. CASE to # Contract
      BY <1>7, <1>0, <1>a, <3>1, <3>3 DEF Pay, Move, ReceiveOutside, Held, TypeOK
    <3> QED
      BY <3>2, <3>3
  <2> QED
    BY <1>5, <1>7, <2>1 DEF Pay, contractVars
<1>8. ASSUME NEW b \in Asset, NEW payer \in Address, NEW n \in 1..MaxI128,
             Clawback(b, payer, n)
      PROVE  CustodyStep(a)
  <2>1. Held(a)' = Held(a)
    BY <1>8, <1>0, <1>a DEF Clawback, Held, TypeOK
  <2> QED
    BY <1>5, <1>8, <2>1 DEF Clawback, contractVars
<1>9. CASE UNCHANGED vars
  BY <1>1, <1>9 DEF vars, contractVars
<1> QED
  BY <1>2, <1>3, <1>4, <1>6, <1>7, <1>8, <1>9 DEF Next

\* The totals recorded for the recipients of an asset add up to what the
\* contract's account holds of it, apart from gifts and clawbacks.
THEOREM Custody == Spec => []Solvent
<1> USE ConstantsAssumption, ContractIsAddress
<1>1. Init => Solvent
  <2> SUFFICES ASSUME Init, NEW a \in Asset
               PROVE  \E sum \in [0..NumAccounts + 1 -> 0..MaxI128 + MaxClawed] :
                        /\ PartialSums(sum, TotalsOf(a))
                        /\ balance[<<Contract, a>>] + clawed[a] = sum[NumAccounts + 1] + given[a]
    BY DEF Solvent
  <2>1. TotalsOf(a) \in [Address -> {0}]
    BY DEF Init, TotalsOf, Pair
  <2>2. balance[<<Contract, a>>] = 0 /\ clawed[a] = 0 /\ given[a] = 0
    BY DEF Init, Pair
  <2>3. MaxI128 + MaxClawed \in Nat
    OBVIOUS
  <2>4. PICK sum \in [0..NumAccounts + 1 -> 0..MaxI128 + MaxClawed] :
           PartialSums(sum, TotalsOf(a)) /\ sum[NumAccounts + 1] = 0
    BY <2>1, <2>3, ZeroSums
  <2> QED
    BY <2>2, <2>4
<1>2. TypeOK /\ TypeOK' /\ Solvent /\ [Next]_vars => Solvent'
  <2> SUFFICES ASSUME TypeOK, TypeOK', Solvent, [Next]_vars, NEW a \in Asset
               PROVE  \E sum \in [0..NumAccounts + 1 -> 0..MaxI128 + MaxClawed] :
                        /\ PartialSums(sum, TotalsOf(a)')
                        /\ balance'[<<Contract, a>>] + clawed'[a] = sum[NumAccounts + 1] + given'[a]
    BY DEF Solvent
  <2> DEFINE top == MaxI128 + MaxClawed
             F   == TotalsOf(a)
  <2>0. <<Contract, a>> \in Pair
    BY DEF Pair
  <2>1. /\ balance[<<Contract, a>>] \in 0..MaxI128 /\ balance'[<<Contract, a>>] \in 0..MaxI128
        /\ clawed[a] \in 0..MaxClawed /\ clawed'[a] \in 0..MaxClawed
        /\ given[a] \in Nat /\ given'[a] \in Nat /\ top \in Nat
    BY <2>0 DEF TypeOK, Amount
  <2>1a. \A x \in Int : /\ Held(a) = x <=> balance[<<Contract, a>>] + clawed[a] = x + given[a]
                        /\ Held(a)' = x <=> balance'[<<Contract, a>>] + clawed'[a] = x + given'[a]
    BY <2>1 DEF Held
  <2>2. PICK sum \in [0..NumAccounts + 1 -> 0..top] :
           /\ PartialSums(sum, F)
           /\ balance[<<Contract, a>>] + clawed[a] = sum[NumAccounts + 1] + given[a]
    BY DEF Solvent
  <2>3. NumAccounts + 1 \in 0..NumAccounts + 1 /\ sum[NumAccounts + 1] \in Nat
    BY <2>1
  <2>4. F \in [Address -> Nat]
    BY DEF TotalsOf, TypeOK, Pair, Amount
  <2>5. CASE /\ \A r \in Address : recipientTotal'[<<r, a>>] = recipientTotal[<<r, a>>]
             /\ Held(a)' = Held(a)
    <3>1. TotalsOf(a)' = F
      BY <2>5 DEF TotalsOf
    <3>2. balance'[<<Contract, a>>] + clawed'[a] = sum[NumAccounts + 1] + given'[a]
      <4>1. Held(a) = sum[NumAccounts + 1] /\ sum[NumAccounts + 1] \in Int
        BY <2>1a, <2>2, <2>3
      <4> QED BY <2>1a, <2>5, <4>1
    <3> HIDE DEF F
    <3> QED
      BY <2>2, <3>1, <3>2
  <2>6. ASSUME NEW r \in Address, NEW d \in Int,
               recipientTotal[<<r, a>>] + d >= 0,
               recipientTotal'[<<r, a>>] = recipientTotal[<<r, a>>] + d,
               \A q \in Address \ {r} : recipientTotal'[<<q, a>>] = recipientTotal[<<q, a>>],
               Held(a)' = Held(a) + d
        PROVE  \E s \in [0..NumAccounts + 1 -> 0..top] :
                 /\ PartialSums(s, TotalsOf(a)')
                 /\ balance'[<<Contract, a>>] + clawed'[a] = s[NumAccounts + 1] + given'[a]
    <3>1. TotalsOf(a)' = [F EXCEPT ![r] = F[r] + d] /\ F[r] + d >= 0
      BY <2>6 DEF TotalsOf
    <3>2. balance'[<<Contract, a>>] + clawed'[a] = sum[NumAccounts + 1] + d + given'[a]
      <4>1. Held(a) = sum[NumAccounts + 1] /\ sum[NumAccounts + 1] + d \in Int
        BY <2>1a, <2>2, <2>3
      <4> QED BY <2>1a, <2>6, <4>1
    <3>3. sum[NumAccounts + 1] + d <= top
      BY <2>1, <2>3, <3>2
    <3> HIDE DEF top, F
    <3>4. /\ Bump(sum, r, d) \in [0..NumAccounts + 1 -> 0..top]
          /\ PartialSums(Bump(sum, r, d), [F EXCEPT ![r] = F[r] + d])
          /\ Bump(sum, r, d)[NumAccounts + 1] = sum[NumAccounts + 1] + d
      <4>1. /\ top \in Nat /\ sum \in [0..NumAccounts + 1 -> 0..top]
            /\ F \in [Address -> Nat] /\ PartialSums(sum, F)
            /\ F[r] + d >= 0 /\ sum[NumAccounts + 1] + d <= top
        BY <2>1, <2>2, <2>4, <3>1, <3>3
      <4> QED
        BY ONLY <4>1, r \in Address, d \in Int, BumpSums, Zenon
    <3> QED
      BY <3>1, <3>2, <3>4
  <2> QED
    BY <2>5, <2>6, CustodySteps DEF CustodyStep
<1> QED
  BY <1>1, <1>2, TypeCorrect, PTL DEF Spec

-----------------------------------------------------------------------------
(* A recipient is never short.                                             *)

KnownWhenPositive == \A p \in Pair : recipientTotal[p] > 0 => p \in known

LEMMA PositiveIsKnown == Spec => []KnownWhenPositive
<1>1. Init => KnownWhenPositive
  BY DEF Init, KnownWhenPositive
<1>2. TypeOK /\ KnownWhenPositive /\ [Next]_vars => KnownWhenPositive'
  <2> SUFFICES ASSUME TypeOK, KnownWhenPositive, [Next]_vars, NEW p \in Pair,
                      recipientTotal'[p] > 0
               PROVE  p \in known'
    BY DEF KnownWhenPositive
  <2> USE ConstantsAssumption
  <2>0. recipientTotal[p] \in Nat /\ (recipientTotal[p] > 0 => p \in known)
    BY DEF TypeOK, Amount, KnownWhenPositive
  <2>1. ASSUME NEW s \in Account, NEW r \in Address, NEW a \in Asset,
               NEW n \in -1..MaxI128, NEW message, NEW code,
               Support(s, r, a, n, message, code)
        PROVE  p \in known'
    <3>1. CASE p = <<r, a>>
      BY <2>1, <3>1 DEF Support, CountSupport, Credit
    <3>2. CASE p # <<r, a>>
      BY <2>0, <2>1, <3>2 DEF Support, CountSupport, Credit, TypeOK
    <3> QED
      BY <3>1, <3>2
  <2>2. ASSUME NEW caller \in Account, NEW r \in Address, NEW a \in Asset,
               NEW n \in -1..MaxI128, Withdraw(caller, r, a, n)
        PROVE  p \in known'
    <3>1. CASE p = <<r, a>>
      <4>1. <<r, a>> \in known
        BY <2>2, SMTT(30) DEF Withdraw, Debit, WithdrawOutcome
      <4> QED
        BY <2>2, <3>1, <4>1 DEF Withdraw, Debit
    <3>2. CASE p # <<r, a>>
      BY <2>0, <2>2, <3>2 DEF Withdraw, Debit, TypeOK
    <3> QED
      BY <3>1, <3>2
  <2>3. CASE UNCHANGED <<known, recipientTotal>>
    BY <2>0, <2>3
  <2> QED
    BY <2>1, <2>2, <2>3 DEF Next, Initialize, Pause, Unpause, Mint, Pay, Clawback,
                            vars, contractVars
<1> QED
  BY <1>1, <1>2, TypeCorrect, PTL DEF Spec

\* Unless tokens were clawed back beyond what was given, an unpaused contract
\* answers a withdrawal of any part of a recorded total with Ok (or the token
\* contract stops it because the recipient's account is full).
THEOREM NeverShort == Spec => []WithdrawAlwaysPossible
<1>1. TypeOK /\ Solvent /\ KnownWhenPositive => WithdrawAlwaysPossible
  <2> SUFFICES ASSUME TypeOK, Solvent, KnownWhenPositive,
                      NEW r \in Account, NEW a \in Asset,
                      admin # NoAdmin, ~paused, clawed[a] <= given[a],
                      NEW n \in 1..recipientTotal[<<r, a>>]
               PROVE  WithdrawOutcome(r, r, a, n) \in {"Ok", "TransferTrap"}
    BY DEF WithdrawAlwaysPossible
  <2> USE ConstantsAssumption, ContractIsAddress
  <2>1. r \in Address /\ <<r, a>> \in Pair /\ <<Contract, a>> \in Pair
    BY DEF Pair
  <2>2. /\ recipientTotal[<<r, a>>] \in Nat /\ balance[<<Contract, a>>] \in Nat
        /\ clawed[a] \in Nat /\ given[a] \in Nat
    BY <2>1 DEF TypeOK, Amount
  <2>3. /\ n >= 1 /\ n <= recipientTotal[<<r, a>>] /\ n \in Nat
        /\ <<r, a>> \in known /\ recipientTotal[<<r, a>>] > 0
    BY <2>1, <2>2 DEF KnownWhenPositive
  <2>4. PICK sum \in [0..NumAccounts + 1 -> 0..MaxI128 + MaxClawed] :
           /\ PartialSums(sum, TotalsOf(a))
           /\ balance[<<Contract, a>>] + clawed[a] = sum[NumAccounts + 1] + given[a]
    BY DEF Solvent
  <2>5. r \in 0..NumAccounts + 1 /\ r + 1 \in 0..NumAccounts + 1
        /\ NumAccounts + 1 \in 0..NumAccounts + 1 /\ r + 1 <= NumAccounts + 1
    BY <2>1 DEF Address
  <2>6. sum[r + 1] <= sum[NumAccounts + 1] /\ sum[r + 1] = sum[r] + recipientTotal[<<r, a>>]
    BY <2>1, <2>4, <2>5 DEF PartialSums, TotalsOf
  <2>7. sum[r] \in Nat /\ sum[r + 1] \in Nat /\ sum[NumAccounts + 1] \in Nat
    BY <2>5
  <2>8. n <= balance[<<Contract, a>>]
    <3>1. recipientTotal[<<r, a>>] <= sum[NumAccounts + 1]
      BY <2>2, <2>6, <2>7
    <3>2. sum[NumAccounts + 1] <= balance[<<Contract, a>>]
      BY <2>2, <2>4, <2>7
    <3> QED
      BY <2>2, <2>3, <2>7, <3>1, <3>2
  <2> QED
    BY <2>2, <2>3, <2>8, SMTT(30) DEF WithdrawOutcome
<1> QED
  BY <1>1, TypeCorrect, Custody, PositiveIsKnown, PTL

-----------------------------------------------------------------------------
(* The contract is a vault.                                                *)

\* An amount that passed the checks of support() is one a vault may take in.
LEMMA SupportDeposits ==
  ASSUME TypeOK, NEW s \in Account, NEW r \in Address, NEW a \in Asset,
         NEW n \in -1..MaxI128, NEW message, NEW code,
         Support(s, r, a, n, message, code)
  PROVE  n \in 1..MaxI128 /\ Custodian!Deposit(s, r, a, n)
<1> USE ConstantsAssumption, ContractIsAddress
<1>1. s # Contract
  BY DEF Account, Contract
<1>2. n >= 1 /\ n <= balance[<<s, a>>] /\ admin # NoAdmin /\ ~paused
  <2>1. <<s, a>> \in Pair
    BY DEF Pair
  <2> QED
    BY <2>1, SMTT(30) DEF Support, SupportOutcome, CountSupport, Credit, TypeOK, Amount
<1>3. Custodian!Moved(a, s, Contract, n)
  BY <1>1 DEF Support, Move, Custodian!Moved
<1>4. /\ recipientTotal' = [recipientTotal EXCEPT ![<<r, a>>] = @ + n]
      /\ supportCount' = supportCount + 1 /\ UNCHANGED <<admin, paused>>
  BY DEF Support, CountSupport, Credit
<1> QED
  BY <1>2, <1>3, <1>4 DEF Custodian!Deposit, Custodian!Open

\* An amount that passed the checks of withdraw() is one a vault may pay out.
LEMMA WithdrawPays ==
  ASSUME TypeOK, NEW caller \in Account, NEW r \in Address, NEW a \in Asset,
         NEW n \in -1..MaxI128, Withdraw(caller, r, a, n)
  PROVE  r \in Address \ {Contract} /\ n \in 1..MaxI128 /\ Custodian!PayOut(r, a, n)
<1> USE ConstantsAssumption, ContractIsAddress
<1>1. <<r, a>> \in Pair /\ <<Contract, a>> \in Pair
  BY DEF Pair
<1>2. /\ r = caller /\ n >= 1 /\ admin # NoAdmin /\ ~paused
      /\ n <= recipientTotal[<<r, a>>] /\ n <= balance[<<Contract, a>>]
  BY <1>1, SMTT(30) DEF Withdraw, Debit, WithdrawOutcome, TypeOK, Amount
<1>3. r # Contract
  BY <1>2 DEF Account, Contract
<1>4. Custodian!Moved(a, Contract, r, n)
  BY <1>3 DEF Withdraw, Debit, Move, Custodian!Moved
<1>5. /\ recipientTotal' = [recipientTotal EXCEPT ![<<r, a>>] = @ - n]
      /\ UNCHANGED <<admin, paused, supportCount>>
  BY DEF Withdraw, Debit
<1> QED
  BY <1>2, <1>3, <1>4, <1>5 DEF Custodian!PayOut, Custodian!Open

\* Every behaviour of the contract is one of a vault: its initial states are, and
\* each of its steps is a step of the vault or changes nothing the vault shows.
THEOREM KeepsVault == Spec => IsVault
<1> USE ConstantsAssumption, ContractIsAddress
<1>1. Init => Custodian!Init
  <2> SUFFICES ASSUME Init PROVE Custodian!Init
    OBVIOUS
  <2>1. balance \in [Pair -> Nat]
    BY DEF Init
  <2> QED
    BY <2>1 DEF Init, Custodian!Init, Custodian!Accounts, Pair
<1>2. TypeOK /\ TypeOK' /\ [Next]_vars => [Custodian!Next]_(Custodian!vars)
  <2> SUFFICES ASSUME TypeOK, TypeOK', [Next]_vars
               PROVE  Custodian!Next \/ UNCHANGED Custodian!vars
    OBVIOUS
  <2>1. ASSUME NEW who \in Account, Initialize(who) PROVE Custodian!Appoint
    BY <2>1 DEF Initialize, tokenVars, Custodian!Appoint
  <2>2. ASSUME NEW who \in Account, Pause(who) \/ Unpause(who) PROVE Custodian!FreezeOrThaw
    BY <2>2 DEF Pause, Unpause, tokenVars, Custodian!FreezeOrThaw
  <2>3. ASSUME NEW s \in Account, NEW r \in Address, NEW a \in Asset,
               NEW n \in -1..MaxI128, NEW message \in MessageLen, NEW code \in CodeLen,
               Support(s, r, a, n, message, code)
        PROVE  Custodian!Next
    <3>1. s \in Address \ {Contract}
      BY DEF Account, Contract
    <3> QED
      BY <2>3, <3>1, SupportDeposits DEF Custodian!Next
  <2>4. ASSUME NEW caller \in Account, NEW r \in Address, NEW a \in Asset,
               NEW n \in -1..MaxI128, Withdraw(caller, r, a, n)
        PROVE  Custodian!Next
    BY <2>4, WithdrawPays DEF Custodian!Next
  <2>5. ASSUME UNCHANGED contractVars PROVE Custodian!Elsewhere
    <3>1. balance' \in [Pair -> Nat]
      BY DEF TypeOK, Amount
    <3> QED
      BY <2>5, <3>1 DEF contractVars, Custodian!Elsewhere, Custodian!Accounts, Pair
  <2>6. CASE UNCHANGED vars
    BY <2>6 DEF vars, contractVars, tokenVars, Custodian!vars
  <2> QED
    BY <2>1, <2>2, <2>3, <2>4, <2>5, <2>6 DEF Next, Mint, Pay, Clawback, Custodian!Next
<1> QED
  BY <1>1, <1>2, TypeCorrect, PTL DEF Spec, IsVault, Custodian!Spec

-----------------------------------------------------------------------------
(* The indexer.                                                            *)

\* Every event has a transaction of its own.
TxIsUnique == \A d, e \in Event : TxOf[d] = TxOf[e] => d = e

-----------------------------------------------------------------------------
(* The first and the last event of a part of a page exist.                 *)

\* Every non-empty set of naturals has a least element.
LEMMA LeastNat ==
  ASSUME NEW S \in SUBSET Nat, S # {}
  PROVE  \E e \in S : \A x \in S : e <= x
<1> DEFINE R == {ss \in Nat \X Nat : ss[1] < ss[2]}
<1>1. IsWellFoundedOn(R, Nat)
  BY NatLessThanWellFounded DEF OpToRel
<1>2. PICK e \in S : \A x \in S : ~(<<x, e>> \in R)
  <2> HIDE DEF R
  <2> QED BY <1>1, WFMin
<1>3. ASSUME NEW x \in S PROVE e <= x
  <2>1. x \in Nat /\ e \in Nat
    OBVIOUS
  <2>2. <<x, e>> \notin R
    BY <1>2
  <2>3. ~(x < e)
    BY <2>1, <2>2
  <2> QED BY <2>1, <2>3
<1> QED BY <1>3

\* Every non-empty set of events has a first event.
LEMMA FirstExists ==
  ASSUME NEW S \in SUBSET Event, S # {}
  PROVE  (CHOOSE e \in S : IsFirst(e, S)) \in S
<1>1. S \in SUBSET Nat
  BY IndexerAssumption DEF Event
<1>2. \E e \in S : IsFirst(e, S)
  BY <1>1, LeastNat DEF IsFirst
<1> QED BY <1>2

\* Every non-empty set of events has a last event.
LEMMA LastExists ==
  ASSUME NEW S \in SUBSET Event, S # {}
  PROVE  (CHOOSE e \in S : IsLast(e, S)) \in S
<1> DEFINE T == {MaxEvents - e : e \in S}
<1>1. T \in SUBSET Nat /\ T # {}
  <2>1. MaxEvents \in Nat /\ S \subseteq 1 .. MaxEvents
    BY IndexerAssumption DEF Event
  <2>2. \A e \in S : MaxEvents - e \in Nat
    BY <2>1
  <2> QED BY <2>2
<1>2. PICK m \in T : \A x \in T : m <= x
  <2> HIDE DEF T
  <2> QED BY <1>1, LeastNat
<1>3. PICK e \in S : m = MaxEvents - e
  OBVIOUS
<1>4. \A x \in S : x <= e
  <2>1. \A x \in S : MaxEvents - e <= MaxEvents - x
    BY <1>2, <1>3
  <2> QED BY <2>1, IndexerAssumption DEF Event
<1>5. \E x \in S : IsLast(x, S)
  BY <1>4 DEF IsLast
<1> QED BY <1>5

-----------------------------------------------------------------------------
(* What the operators of a tick return.                                    *)

\* The owner of an event is a profile of its wallet, or the orphan.
LEMMA OwnerIsOfWallet ==
  ASSUME IndexerTypes, NEW r \in Replica, NEW e \in Event
  PROVE  /\ Owner(r, e) \in Profile \cup {Orphan}
         /\ Owner(r, e) # Orphan => WalletOf[Owner(r, e)] = RecipientOf[e]
<1>1. found[r] \subseteq Profile
  BY DEF IndexerTypes
<1>2. CASE \E p \in found[r] : WalletOf[p] = RecipientOf[e]
  BY <1>1, <1>2 DEF Owner
<1>3. CASE ~\E p \in found[r] : WalletOf[p] = RecipientOf[e]
  BY <1>3 DEF Owner
<1> QED BY <1>2, <1>3

\* A page holds decodable events only.
LEMMA PageIsDecodable ==
  ASSUME IndexerTypes, NEW r \in Replica
  PROVE  /\ Page(r) \subseteq Decodable
         /\ Page(r) \subseteq Event
         /\ \A e \in Page(r) : from[r] < e /\ e <= upTo[r] /\ e <= emitted
<1>1. /\ emitted \in 0..MaxEvents /\ from[r] \in 0..emitted /\ upTo[r] \in 0..emitted
  BY DEF IndexerTypes
<1> QED BY <1>1, IndexerAssumption DEF Page, Event

\* An upsert leaves a row alone or makes it that of an event of the page with
\* the row's hash.
LEMMA UpsertedRow ==
  ASSUME IndexerTypes, NEW r \in Replica, NEW t \in Tx
  PROVE  \/ /\ Upserted(r, t) = rows[t]
            /\ \A e \in Page(r) : TxOf[e] # t
         \/ \E first, last \in Page(r) :
              /\ TxOf[first] = t /\ TxOf[last] = t
              /\ Upserted(r, t) = [event |-> IF rows[t] = NoRow THEN first ELSE rows[t].event,
                                   recipient |-> RecipientOf[last],
                                   profile |-> Owner(r, last)]
<1> DEFINE of == {e \in Page(r) : TxOf[e] = t}
           first == CHOOSE e \in of : IsFirst(e, of)
           last == CHOOSE e \in of : IsLast(e, of)
<1>1. CASE of = {}
  <2>1. \A e \in Page(r) : TxOf[e] # t
    BY <1>1
  <2> QED BY <1>1, <2>1 DEF Upserted
<1>2. CASE of # {}
  <2>1. of \in SUBSET Event
    BY PageIsDecodable
  <2>2. first \in of /\ last \in of
    <3> HIDE DEF of
    <3> QED BY <1>2, <2>1, FirstExists, LastExists
  <2>3. Upserted(r, t) = [event |-> IF rows[t] = NoRow THEN first ELSE rows[t].event,
                          recipient |-> RecipientOf[last],
                          profile |-> Owner(r, last)]
    BY <1>2 DEF Upserted
  <2>4. first \in Page(r) /\ last \in Page(r) /\ TxOf[first] = t /\ TxOf[last] = t
    BY <2>2
  <2> HIDE DEF first, last
  <2> QED BY <2>3, <2>4
<1> QED BY <1>1, <1>2

-----------------------------------------------------------------------------
(* Types.                                                                  *)

\* Saving a page stores rows, whatever the page.
LEMMA SavedRowsType ==
  ASSUME IndexerTypes, NEW r \in Replica
  PROVE  [t \in Tx |-> Upserted(r, t)] \in [Tx -> Row \cup {NoRow}]
<1> SUFFICES ASSUME NEW t \in Tx
             PROVE  Upserted(r, t) \in Row \cup {NoRow}
  OBVIOUS
<1>1. rows[t] \in Row \cup {NoRow}
  BY DEF IndexerTypes
<1>2. CASE Upserted(r, t) = rows[t]
  BY <1>1, <1>2
<1>3. ASSUME NEW first \in Page(r), NEW last \in Page(r),
             Upserted(r, t) = [event |-> IF rows[t] = NoRow THEN first ELSE rows[t].event,
                               recipient |-> RecipientOf[last],
                               profile |-> Owner(r, last)]
      PROVE  Upserted(r, t) \in Row
  <2>1. first \in Event /\ last \in Event
    BY PageIsDecodable
  <2>2. RecipientOf[last] \in Recipient /\ Owner(r, last) \in Profile \cup {Orphan}
    BY <2>1, OwnerIsOfWallet, IndexerAssumption
  <2>3. (IF rows[t] = NoRow THEN first ELSE rows[t].event) \in Event
    BY <1>1, <2>1 DEF Row
  <2> QED BY <1>3, <2>2, <2>3 DEF Row
<1> QED BY <1>2, <1>3, UpsertedRow

\* Linking orphans keeps rows rows.
LEMMA LinkedRowsType ==
  ASSUME IndexerTypes, NEW p \in Profile, LinkOrphans(p)
  PROVE  rows' \in [Tx -> Row \cup {NoRow}]
<1>1. ASSUME NEW t \in Tx, t \in OrphanRows
      PROVE  [rows[t] EXCEPT !.profile = p] \in Row
  BY <1>1 DEF IndexerTypes, Row, OrphanRows
<1>2. ASSUME NEW t \in Tx
      PROVE  rows[t] \in Row \cup {NoRow}
  BY DEF IndexerTypes
<1> QED BY <1>1, <1>2 DEF LinkOrphans

\* Every step keeps the types.
LEMMA TypeStep == IndexerTypes /\ [IndexerNext]_indexerVars => IndexerTypes'
<1> SUFFICES ASSUME IndexerTypes, [IndexerNext]_indexerVars PROVE IndexerTypes'
  OBVIOUS
<1> USE IndexerAssumption
<1>1. CASE Emit
  BY <1>1 DEF IndexerTypes, Emit, tickVars, NoCursor
<1>2. ASSUME NEW p \in Profile, Register(p) PROVE IndexerTypes'
  BY <1>2 DEF IndexerTypes, Register, chainVars, tickVars
<1>3. ASSUME NEW p \in Profile, Unregister(p) PROVE IndexerTypes'
  BY <1>3 DEF IndexerTypes, Unregister, chainVars, tickVars
<1>4. ASSUME NEW r \in Replica, Tick(r) PROVE IndexerTypes'
  <2>1. CASE ReadCursor(r)
    <3>1. PICK start \in IF cursor # NoCursor THEN {cursor}
                         ELSE IF Backfill THEN {0} ELSE {emitted, emitted - 1} \cap Nat :
            /\ from' = [from EXCEPT ![r] = start]
            /\ origin' = IF origin = NoCursor THEN start ELSE origin
      BY <2>1 DEF ReadCursor
    <3>2. start \in 0..emitted
      BY <3>1 DEF IndexerTypes, NoCursor
    <3> QED BY <2>1, <3>1, <3>2 DEF IndexerTypes, ReadCursor, Goto, Stage, NoCursor
  <2>2. CASE Fetch(r)
    BY <2>2 DEF IndexerTypes, Fetch, Goto, Stage, chainVars
  <2>3. CASE SkipPage(r)
    BY <2>3 DEF IndexerTypes, SkipPage, EmptyPage, ForgetPage, Goto, Stage, chainVars, NoCursor
  <2>4. CASE Lookup(r)
    BY <2>4 DEF IndexerTypes, Lookup, Goto, Stage, chainVars, Live
  <2>5. CASE Save(r)
    <3>1. PICK last \in Page(r) : IsLast(last, Page(r)) /\ SavePage(r, last)
      BY <2>5 DEF Save
    <3>2. rows' \in [Tx -> Row \cup {NoRow}]
      <4>1. [t \in Tx |-> Upserted(r, t)] \in [Tx -> Row \cup {NoRow}]
        BY SavedRowsType
      <4>2. rows' = rows \/ rows' = [t \in Tx |-> Upserted(r, t)]
        BY <3>1 DEF SavePage
      <4> QED BY <4>1, <4>2 DEF IndexerTypes
    <3>3. cursor' \in NoCursor..emitted
      <4>1. last \in 0..emitted
        BY PageIsDecodable DEF Event, IndexerTypes
      <4> QED BY <3>1, <4>1 DEF IndexerTypes, SavePage, NextCursor, NoCursor
    <3>4. stage' \in [Replica -> Stage]
      BY <3>1 DEF SavePage, IndexerTypes, Goto, Stage
    <3>5. /\ from' \in [Replica -> 0..emitted] /\ upTo' \in [Replica -> 0..emitted]
          /\ found' \in [Replica -> SUBSET Profile]
      BY <2>5 DEF IndexerTypes, Save, ForgetPage
    <3>6. UNCHANGED <<emitted, origin, profile, orphans, failures>>
      BY <2>5 DEF Save, chainVars
    <3> QED BY <3>2, <3>3, <3>4, <3>5, <3>6 DEF IndexerTypes
  <2>6. CASE ReadOrphans(r)
    <3>1. PICK some \in SUBSET OrphanRows :
            /\ orphans' = [orphans EXCEPT ![r] = {rows[t].recipient : t \in some}]
            /\ Goto(r, IF some = {} THEN "idle" ELSE "matching")
      BY <2>6 DEF ReadOrphans
    <3>2. {rows[t].recipient : t \in some} \subseteq Recipient
      BY DEF IndexerTypes, OrphanRows, Row
    <3>3. orphans' \in [Replica -> SUBSET Recipient]
      BY <3>1, <3>2 DEF IndexerTypes
    <3>4. stage' \in [Replica -> Stage]
      BY <3>1 DEF IndexerTypes, Goto, Stage
    <3> QED BY <2>6, <3>3, <3>4 DEF IndexerTypes, ReadOrphans, chainVars
  <2>7. CASE MatchOrphans(r)
    BY <2>7 DEF IndexerTypes, MatchOrphans, Goto, Stage, chainVars, Live
  <2>8. CASE Link(r)
    <3>1. PICK p \in found[r] :
            \/ /\ LinkOrphans(p)
               /\ found' = [found EXCEPT ![r] = @ \ {p}]
               /\ UNCHANGED stage
            \/ /\ found' = [found EXCEPT ![r] = {}]
               /\ Goto(r, "idle")
               /\ UNCHANGED rows
      BY <2>8 DEF Link
    <3>2. p \in Profile
      BY DEF IndexerTypes
    <3>3. rows' \in [Tx -> Row \cup {NoRow}]
      BY <3>1, <3>2, LinkedRowsType DEF IndexerTypes
    <3> QED BY <2>8, <3>1, <3>3 DEF IndexerTypes, Link, Goto, Stage, chainVars
  <2>9. CASE EndTick(r)
    BY <2>9 DEF IndexerTypes, EndTick, Goto, Stage, chainVars
  <2> QED BY <1>4, <2>1, <2>2, <2>3, <2>4, <2>5, <2>6, <2>7, <2>8, <2>9 DEF Tick
<1>5. ASSUME NEW r \in Replica, Fail(r) PROVE IndexerTypes'
  BY <1>5 DEF IndexerTypes, Fail, ForgetPage, Goto, Stage, chainVars
<1>6. CASE UNCHANGED indexerVars
  BY <1>6 DEF IndexerTypes, indexerVars, chainVars, tickVars
<1> QED BY <1>1, <1>2, <1>3, <1>4, <1>5, <1>6 DEF IndexerNext

\* The initial values have their types.
LEMMA TypeInit == IndexerInit => IndexerTypes
  BY IndexerAssumption DEF IndexerInit, IndexerTypes, NoCursor, Stage, Row

\* Every reachable state has the declared types, and the cursor never passes
\* the chain's end (event-indexer.ts: nextPagingToken, 143 and 156).
THEOREM IndexerTypeCorrect == IndexerSpec => []IndexerTypes
  BY TypeInit, TypeStep, PTL DEF IndexerSpec

-----------------------------------------------------------------------------
(* A linked row is its wallet's.                                           *)

\* A row saved with a page is an orphan or belongs to a profile of its wallet.
LEMMA SavedRowsLinked ==
  ASSUME IndexerTypes, LinkedToWallet, NEW r \in Replica, NEW t \in Tx,
         \A e \in Page(r) : Referable(Owner(r, e)),
         Upserted(r, t) # NoRow, Upserted(r, t).profile # Orphan
  PROVE  /\ WalletOf[Upserted(r, t).profile] = Upserted(r, t).recipient
         /\ profile[Upserted(r, t).profile] = "live"
<1>1. CASE Upserted(r, t) = rows[t]
  BY <1>1 DEF LinkedToWallet
<1>2. ASSUME NEW first \in Page(r), NEW last \in Page(r),
             Upserted(r, t) = [event |-> IF rows[t] = NoRow THEN first ELSE rows[t].event,
                               recipient |-> RecipientOf[last],
                               profile |-> Owner(r, last)]
      PROVE  /\ WalletOf[Upserted(r, t).profile] = Upserted(r, t).recipient
             /\ profile[Upserted(r, t).profile] = "live"
  <2>1. Upserted(r, t).profile = Owner(r, last) /\ Upserted(r, t).recipient = RecipientOf[last]
    BY <1>2
  <2>2. last \in Event
    BY PageIsDecodable
  <2>3. WalletOf[Owner(r, last)] = RecipientOf[last]
    BY <2>1, <2>2, OwnerIsOfWallet
  <2>4. Owner(r, last) \in Live
    BY <2>1 DEF Referable
  <2> QED BY <2>1, <2>3, <2>4 DEF Live
<1> QED BY <1>1, <1>2, UpsertedRow

\* Every step keeps linked rows with their wallet.
LEMMA LinkedStep == IndexerTypes /\ LinkedToWallet /\ [IndexerNext]_indexerVars => LinkedToWallet'
<1> SUFFICES ASSUME IndexerTypes, LinkedToWallet, [IndexerNext]_indexerVars PROVE LinkedToWallet'
  OBVIOUS
<1>1. CASE UNCHANGED <<rows, profile>>
  BY <1>1 DEF LinkedToWallet
<1>2. ASSUME NEW p \in Profile, Register(p) PROVE LinkedToWallet'
  <2>1. \A q \in Profile : profile[q] = "live" => profile'[q] = "live"
    BY <1>2 DEF Register, IndexerTypes
  <2>2. \A t \in Tx : rows[t] # NoRow /\ rows[t].profile # Orphan => rows[t].profile \in Profile
    BY DEF IndexerTypes, Row
  <2> QED BY <1>2, <2>1, <2>2 DEF Register, LinkedToWallet
<1>3. ASSUME NEW p \in Profile, Unregister(p) PROVE LinkedToWallet'
  <2>1. \A q \in Profile \ {p} : profile'[q] = profile[q]
    BY <1>3 DEF Unregister, IndexerTypes
  <2>2. \A t \in Tx : rows[t] # NoRow /\ rows[t].profile # Orphan => rows[t].profile \in Profile \ {p}
    BY <1>3 DEF IndexerTypes, Row, Unregister
  <2> QED BY <1>3, <2>1, <2>2 DEF Unregister, LinkedToWallet
<1>4. ASSUME NEW r \in Replica, Save(r) PROVE LinkedToWallet'
  <2>1. PICK last \in Page(r) : SavePage(r, last)
    BY <1>4 DEF Save
  <2>2. profile' = profile
    BY <1>4 DEF Save
  <2>3. CASE \A e \in Page(r) : Referable(Owner(r, e))
    <3>1. \A t \in Tx : rows'[t] = Upserted(r, t)
      BY <2>1, <2>3 DEF SavePage
    <3>2. \A t \in Tx : Upserted(r, t) # NoRow /\ Upserted(r, t).profile # Orphan =>
            /\ WalletOf[Upserted(r, t).profile] = Upserted(r, t).recipient
            /\ profile[Upserted(r, t).profile] = "live"
      BY <2>3, SavedRowsLinked
    <3> QED BY <2>2, <3>1, <3>2 DEF LinkedToWallet
  <2>4. CASE ~\A e \in Page(r) : Referable(Owner(r, e))
    BY <1>1, <2>1, <2>2, <2>4 DEF SavePage
  <2> QED BY <2>3, <2>4
<1>5. ASSUME NEW r \in Replica, Link(r) PROVE LinkedToWallet'
  <2>1. PICK p \in found[r] :
          IF p \in Live \/ \A t \in OrphanRows : rows[t].recipient # WalletOf[p]
          THEN LinkOrphans(p) ELSE UNCHANGED rows
    BY <1>5 DEF Link
  <2>2. p \in Profile /\ profile' = profile
    BY <1>5 DEF Link, IndexerTypes
  <2>3. CASE p \in Live /\ LinkOrphans(p)
    <3>1. \A t \in Tx : \/ rows'[t] = rows[t]
                        \/ /\ rows'[t] = [rows[t] EXCEPT !.profile = p]
                           /\ rows[t] \in Row
                           /\ rows[t].recipient = WalletOf[p]
      BY <2>3 DEF LinkOrphans, OrphanRows, IndexerTypes
    <3>2. \A t \in Tx : \/ rows'[t] = rows[t]
                        \/ rows'[t].profile = p /\ rows'[t].recipient = WalletOf[p]
      BY <3>1 DEF Row
    <3> QED BY <2>2, <2>3, <3>2 DEF LinkedToWallet, Live
  <2>4. CASE LinkOrphans(p) /\ \A t \in OrphanRows : rows[t].recipient # WalletOf[p]
    <3>1. \A t \in Tx : rows'[t] = rows[t]
      BY <2>4 DEF LinkOrphans
    <3> QED BY <2>2, <3>1 DEF LinkedToWallet
  <2>5. CASE UNCHANGED rows
    BY <1>1, <2>2, <2>5
  <2> QED BY <2>1, <2>3, <2>4, <2>5
<1>6. CASE Emit
  BY <1>1, <1>6 DEF Emit
<1>7. ASSUME NEW r \in Replica, Fail(r) \/ (Tick(r) /\ ~Save(r) /\ ~Link(r)) PROVE LinkedToWallet'
  BY <1>1, <1>7 DEF Fail, Tick, ReadCursor, Fetch, SkipPage, Lookup, ReadOrphans, MatchOrphans, EndTick
<1>8. CASE UNCHANGED indexerVars
  BY <1>1, <1>8 DEF indexerVars
<1> QED BY <1>2, <1>3, <1>4, <1>5, <1>6, <1>7, <1>8 DEF IndexerNext

\* A row that is linked is linked to a live profile of its recipient's wallet
\* (event-indexer.ts 158-174, 254-262; the delete of app.ts 5211).
THEOREM RightlyLinked == IndexerSpec => []LinkedToWallet
<1>1. IndexerInit => LinkedToWallet
  BY DEF IndexerInit, LinkedToWallet
<1> QED BY <1>1, LinkedStep, TypeInit, TypeStep, PTL DEF IndexerSpec

-----------------------------------------------------------------------------
(* The cursor passes nothing that was not stored.                          *)

\* The row of an event's hash is there and carries the event.
Kept(e) == rows[TxOf[e]] # NoRow /\ rows[TxOf[e]].event = e

KeptThrough(n) == \A e \in Decodable : e <= n => Kept(e)

\* A row was made from an event of its own hash.
RowsOwnHash == \A t \in Tx : rows[t] # NoRow => TxOf[rows[t].event] = t

\* A tick in progress began with some first poll, and the cursor is one a
\* tick wrote; every first poll starts before the first event.
BegunOK ==
  /\ origin \in {NoCursor, 0}
  /\ cursor # NoCursor => origin # NoCursor
  /\ \A r \in Replica : stage[r] # "idle" => origin # NoCursor

\* What lies behind the cursor, behind the start of every page in work, and in
\* an empty page is stored already: so a page may be saved, and the cursor set
\* back or forward, in any order.
PagesKept ==
  /\ KeptThrough(cursor)
  /\ \A r \in Replica :
       /\ stage[r] # "idle" => KeptThrough(from[r])
       /\ stage[r] = "empty" => KeptThrough(upTo[r])

KeptInv == RowsOwnHash /\ BegunOK /\ PagesKept

\* Saving a page keeps what was kept, and keeps the page.
LEMMA SavedPageKept ==
  ASSUME IndexerTypes, RowsOwnHash, TxIsUnique, NEW r \in Replica,
         rows' = [t \in Tx |-> Upserted(r, t)]
  PROVE  /\ RowsOwnHash'
         /\ \A e \in Decodable : Kept(e) => Kept(e)'
         /\ \A e \in Page(r) : Kept(e)'
<1>1. ASSUME NEW t \in Tx
      PROVE  \/ rows'[t] = rows[t] /\ \A e \in Page(r) : TxOf[e] # t
             \/ \E first \in Page(r) :
                  /\ TxOf[first] = t
                  /\ rows'[t] # NoRow
                  /\ rows'[t].event = IF rows[t] = NoRow THEN first ELSE rows[t].event
  <2>1. rows'[t] = Upserted(r, t)
    OBVIOUS
  <2>2. CASE Upserted(r, t) = rows[t] /\ \A e \in Page(r) : TxOf[e] # t
    BY <2>1, <2>2
  <2>3. ASSUME NEW first \in Page(r), NEW last \in Page(r), TxOf[first] = t,
               Upserted(r, t) = [event |-> IF rows[t] = NoRow THEN first ELSE rows[t].event,
                                 recipient |-> RecipientOf[last],
                                 profile |-> Owner(r, last)]
        PROVE  \E f \in Page(r) :
                  /\ TxOf[f] = t
                  /\ rows'[t] # NoRow
                  /\ rows'[t].event = IF rows[t] = NoRow THEN f ELSE rows[t].event
    <3>1. first \in Event /\ last \in Event
      BY PageIsDecodable
    <3>2. Upserted(r, t) \in Row
      <4>1. RecipientOf[last] \in Recipient /\ Owner(r, last) \in Profile \cup {Orphan}
        BY <3>1, OwnerIsOfWallet, IndexerAssumption
      <4>2. (IF rows[t] = NoRow THEN first ELSE rows[t].event) \in Event
        BY <3>1 DEF Row, IndexerTypes
      <4> QED BY <2>3, <4>1, <4>2 DEF Row
    <3>3. Upserted(r, t) # NoRow
      BY <3>2, IndexerAssumption DEF Row
    <3>4. Upserted(r, t).event = IF rows[t] = NoRow THEN first ELSE rows[t].event
      BY <2>3
    <3> QED BY <2>1, <2>3, <3>3, <3>4
  <2> QED BY <2>2, <2>3, UpsertedRow
<1>2. RowsOwnHash'
  BY <1>1 DEF RowsOwnHash
<1>3. ASSUME NEW e \in Decodable, Kept(e)
      PROVE  Kept(e)'
  <2>1. TxOf[e] \in Tx
    BY IndexerAssumption
  <2> QED BY <1>1, <1>3, <2>1 DEF Kept
<1>4. ASSUME NEW e \in Page(r)
      PROVE  Kept(e)'
  <2>1. e \in Event /\ TxOf[e] \in Tx
    BY PageIsDecodable, IndexerAssumption
  <2>2. PICK first \in Page(r) :
          /\ TxOf[first] = TxOf[e]
          /\ rows'[TxOf[e]] # NoRow
          /\ rows'[TxOf[e]].event = IF rows[TxOf[e]] = NoRow THEN first ELSE rows[TxOf[e]].event
    BY <1>1, <2>1
  <2>3. first = e
    BY <2>1, <2>2, PageIsDecodable DEF TxIsUnique
  <2>4. rows[TxOf[e]] # NoRow => rows[TxOf[e]].event = e
    <3>1. rows[TxOf[e]] # NoRow => /\ rows[TxOf[e]].event \in Event
                                   /\ TxOf[rows[TxOf[e]].event] = TxOf[e]
      BY <2>1 DEF IndexerTypes, Row, RowsOwnHash
    <3> QED BY <2>1, <3>1 DEF TxIsUnique
  <2> QED BY <2>2, <2>3, <2>4 DEF Kept
<1> QED BY <1>2, <1>3, <1>4

\* No other step touches what the rows were made from.
LEMMA KeptStays ==
  ASSUME IndexerTypes, [IndexerNext]_indexerVars, \A r \in Replica : ~Save(r)
  PROVE  /\ RowsOwnHash => RowsOwnHash'
         /\ \A e \in Decodable : Kept(e) => Kept(e)'
<1>1. CASE UNCHANGED rows
  BY <1>1 DEF RowsOwnHash, Kept
<1>2. ASSUME NEW r \in Replica, NEW p \in Profile, LinkOrphans(p)
      PROVE  /\ RowsOwnHash => RowsOwnHash'
             /\ \A e \in Decodable : Kept(e) => Kept(e)'
  <2>1. ASSUME NEW t \in Tx
        PROVE  \/ rows'[t] = rows[t]
               \/ /\ rows[t] # NoRow /\ rows'[t] # NoRow
                  /\ rows'[t].event = rows[t].event
    <3>1. CASE rows'[t] = [rows[t] EXCEPT !.profile = p] /\ rows[t] \in Row
      <4>1. rows'[t] \in Row /\ rows'[t].event = rows[t].event
        BY <3>1 DEF Row
      <4> QED BY <3>1, <4>1, IndexerAssumption DEF Row
    <3>2. CASE rows'[t] = rows[t]
      BY <3>2
    <3>3. \/ rows'[t] = rows[t]
          \/ rows'[t] = [rows[t] EXCEPT !.profile = p] /\ rows[t] \in Row
      BY <1>2 DEF LinkOrphans, OrphanRows, IndexerTypes
    <3> QED BY <3>1, <3>2, <3>3
  <2>2. \A e \in Decodable : TxOf[e] \in Tx
    BY IndexerAssumption
  <2> QED BY <2>1, <2>2 DEF RowsOwnHash, Kept
<1>3. ASSUME NEW r \in Replica, Link(r)
      PROVE  UNCHANGED rows \/ \E p \in Profile : LinkOrphans(p)
  BY <1>3 DEF Link, IndexerTypes
<1>4. UNCHANGED rows \/ \E r \in Replica : Link(r)
  BY DEF IndexerNext, Tick, indexerVars, Emit, Register, Unregister, ReadCursor, Fetch, SkipPage, Lookup,
         ReadOrphans, MatchOrphans, EndTick, Fail
<1> QED BY <1>1, <1>2, <1>3, <1>4

\* Pages that stay as they are or are forgotten stay kept.
LEMMA PagesStay ==
  ASSUME PagesKept,
         \A e \in Decodable : Kept(e) => Kept(e)',
         \A e \in Decodable : e <= cursor' => Kept(e)',
         \A q \in Replica : /\ stage'[q] # "idle" => stage[q] # "idle"
                            /\ stage'[q] = "empty" => stage[q] = "empty"
                            /\ from'[q] \in {from[q], 0} /\ upTo'[q] \in {upTo[q], 0}
  PROVE  PagesKept'
<1>1. \A e \in Decodable : ~(e <= 0)
  BY IndexerAssumption DEF Event
<1>2. ASSUME NEW q \in Replica, stage'[q] # "idle", NEW e \in Decodable, e <= from'[q]
      PROVE  Kept(e)'
  BY <1>1, <1>2 DEF PagesKept, KeptThrough
<1>3. ASSUME NEW q \in Replica, stage'[q] = "empty", NEW e \in Decodable, e <= upTo'[q]
      PROVE  Kept(e)'
  BY <1>1, <1>3 DEF PagesKept, KeptThrough
<1> QED BY <1>2, <1>3 DEF PagesKept, KeptThrough

\* ForgetPage forgets the page of one replica.
LEMMA Forgotten ==
  ASSUME IndexerTypes, NEW r \in Replica, ForgetPage(r)
  PROVE  \A q \in Replica : from'[q] \in {from[q], 0} /\ upTo'[q] \in {upTo[q], 0}
  BY DEF ForgetPage, IndexerTypes

\* Every step keeps the invariant.
LEMMA KeptStep ==
  ASSUME Backfill, TxIsUnique
  PROVE  IndexerTypes /\ KeptInv /\ [IndexerNext]_indexerVars => KeptInv'
<1> SUFFICES ASSUME IndexerTypes, KeptInv, [IndexerNext]_indexerVars PROVE KeptInv'
  OBVIOUS
<1>1. ASSUME NEW r \in Replica, Save(r) PROVE KeptInv'
  <2>1. PICK last \in Page(r) : IsLast(last, Page(r)) /\ SavePage(r, last)
    BY <1>1 DEF Save
  <2>2. UNCHANGED origin /\ stage[r] = "saving"
        /\ \A q \in Replica : from'[q] \in {from[q], 0} /\ upTo'[q] \in {upTo[q], 0}
    BY <1>1, Forgotten DEF Save, chainVars
  <2>3. CASE \A e \in Page(r) : Referable(Owner(r, e))
    <3>1. /\ rows' = [t \in Tx |-> Upserted(r, t)]
          /\ cursor' = NextCursor(r, last)
          /\ stage' = [stage EXCEPT ![r] = "orphans"]
      BY <2>1, <2>3 DEF SavePage, Goto
    <3>2. /\ RowsOwnHash'
          /\ \A e \in Decodable : Kept(e) => Kept(e)'
          /\ \A e \in Page(r) : Kept(e)'
      BY <3>1, SavedPageKept DEF KeptInv
    <3>3. ASSUME NEW e \in Decodable, e <= cursor' PROVE Kept(e)'
      <4>1. cursor' = upTo[r] \/ cursor' = last
        BY <3>1 DEF NextCursor
      <4>2. e \in Int /\ last \in Int /\ upTo[r] \in Int /\ from[r] \in Int /\ last <= upTo[r]
        BY IndexerAssumption, PageIsDecodable DEF Event, IndexerTypes
      <4>3. e <= upTo[r]
        BY <3>3, <4>1, <4>2
      <4>4. CASE e <= from[r]
        BY <2>2, <3>2, <4>4 DEF KeptInv, PagesKept, KeptThrough
      <4>5. CASE ~(e <= from[r])
        <5>1. e \in Page(r)
          BY <4>2, <4>3, <4>5 DEF Page, IndexerTypes
        <5> QED BY <3>2, <5>1
      <4> QED BY <4>4, <4>5
    <3>4. \A q \in Replica : /\ stage'[q] # "idle" => stage[q] # "idle"
                             /\ stage'[q] = "empty" => stage[q] = "empty"
      BY <2>2, <3>1 DEF IndexerTypes
    <3>5. PagesKept'
      BY <2>2, <3>2, <3>3, <3>4, PagesStay DEF KeptInv
    <3>6. BegunOK'
      BY <2>2, <3>4 DEF KeptInv, BegunOK
    <3> QED BY <3>2, <3>5, <3>6 DEF KeptInv
  <2>4. CASE ~\A e \in Page(r) : Referable(Owner(r, e))
    <3>1. UNCHANGED <<rows, cursor>> /\ stage' = [stage EXCEPT ![r] = "idle"]
      BY <2>1, <2>4 DEF SavePage, Goto
    <3>2. \A q \in Replica : /\ stage'[q] # "idle" => stage[q] # "idle"
                             /\ stage'[q] = "empty" => stage[q] = "empty"
      BY <3>1 DEF IndexerTypes
    <3>3. /\ \A e \in Decodable : Kept(e) => Kept(e)'
          /\ \A e \in Decodable : e <= cursor' => Kept(e)'
      BY <3>1 DEF KeptInv, PagesKept, KeptThrough, Kept
    <3>4. PagesKept'
      BY <2>2, <3>2, <3>3, PagesStay DEF KeptInv
    <3> QED BY <2>2, <3>1, <3>2, <3>4 DEF KeptInv, RowsOwnHash, BegunOK
  <2> QED BY <2>3, <2>4
<1>2. ASSUME \A r \in Replica : ~Save(r) PROVE KeptInv'
  <2>1. RowsOwnHash' /\ \A e \in Decodable : Kept(e) => Kept(e)'
    BY <1>2, KeptStays DEF KeptInv
  <2>2. ASSUME NEW n, KeptThrough(n) PROVE \A e \in Decodable : e <= n => Kept(e)'
    BY <2>1, <2>2 DEF KeptThrough
  <2>3. ASSUME NEW r \in Replica, ReadCursor(r) PROVE BegunOK' /\ PagesKept'
    <3>1. PICK start \in {cursor, 0} :
            /\ cursor = NoCursor => start = 0
            /\ cursor # NoCursor => start = cursor
            /\ from' = [from EXCEPT ![r] = start]
            /\ origin' = IF origin = NoCursor THEN start ELSE origin
      BY <2>3 DEF ReadCursor
    <3>2. stage' = [stage EXCEPT ![r] = "fetching"] /\ UNCHANGED <<cursor, upTo>>
      BY <2>3 DEF ReadCursor, Goto
    <3>3. BegunOK'
      BY <3>1, <3>2 DEF KeptInv, BegunOK, IndexerTypes, NoCursor
    <3>4. ASSUME NEW e \in Decodable, e <= start PROVE Kept(e)
      <4>1. CASE start = 0
        BY <3>4, <4>1, IndexerAssumption DEF Event
      <4>2. CASE start = cursor
        BY <3>4, <4>2 DEF KeptInv, PagesKept, KeptThrough
      <4> QED BY <4>1, <4>2
    <3>5. \A e \in Decodable : e <= cursor' => Kept(e)'
      BY <2>2, <3>2 DEF KeptInv, PagesKept
    <3>6. ASSUME NEW q \in Replica
          PROVE  /\ stage'[q] # "idle" => \A e \in Decodable : e <= from'[q] => Kept(e)'
                 /\ stage'[q] = "empty" => \A e \in Decodable : e <= upTo'[q] => Kept(e)'
      <4>1. CASE q = r
        <5>1. from'[q] = start /\ stage'[q] = "fetching"
          BY <3>1, <3>2, <4>1 DEF IndexerTypes
        <5> QED BY <2>1, <3>4, <5>1
      <4>2. CASE q # r
        <5>1. from'[q] = from[q] /\ stage'[q] = stage[q] /\ upTo'[q] = upTo[q]
          BY <3>1, <3>2, <4>2 DEF IndexerTypes
        <5> QED BY <2>2, <5>1 DEF KeptInv, PagesKept
      <4> QED BY <4>1, <4>2
    <3> QED BY <3>3, <3>5, <3>6 DEF PagesKept, KeptThrough
  <2>4. ASSUME NEW r \in Replica, Fetch(r) PROVE BegunOK' /\ PagesKept'
    <3>1. /\ stage[r] = "fetching"
          /\ UNCHANGED <<cursor, origin, from>>
      BY <2>4 DEF Fetch, chainVars
    <3>2. PICK hi \in 0..emitted :
            /\ upTo' = [upTo EXCEPT ![r] = hi]
            /\ stage' = [stage EXCEPT ![r] =
                  IF \E e \in from[r] + 1..hi : e \in Decodable THEN "looking" ELSE "empty"]
      <4>1. (IF from[r] + PageSize <= emitted THEN from[r] + PageSize ELSE emitted) \in 0..emitted
        BY IndexerAssumption DEF IndexerTypes
      <4> QED BY <2>4, <4>1 DEF Fetch, Goto
    <3>3. BegunOK'
      BY <3>1, <3>2 DEF KeptInv, BegunOK, IndexerTypes
    <3>4. \A e \in Decodable : e <= cursor' => Kept(e)'
      BY <2>2, <3>1 DEF KeptInv, PagesKept
    <3>5. ASSUME NEW q \in Replica
          PROVE  /\ stage'[q] # "idle" => \A e \in Decodable : e <= from'[q] => Kept(e)'
                 /\ stage'[q] = "empty" => \A e \in Decodable : e <= upTo'[q] => Kept(e)'
      <4>1. CASE q # r
        <5>1. from'[q] = from[q] /\ stage'[q] = stage[q] /\ upTo'[q] = upTo[q]
          BY <3>1, <3>2, <4>1 DEF IndexerTypes
        <5> QED BY <2>2, <5>1 DEF KeptInv, PagesKept
      <4>2. CASE q = r
        <5>1. \A e \in Decodable : e <= from[r] => Kept(e)'
          BY <2>2, <3>1 DEF KeptInv, PagesKept
        <5>2. from'[q] = from[r] /\ upTo'[q] = hi
          BY <3>1, <3>2, <4>2 DEF IndexerTypes
        <5>3. stage'[q] = "empty" => \A e \in Decodable : ~(e \in from[r] + 1..hi)
          BY <3>2, <4>2 DEF IndexerTypes
        <5>4. \A e \in Decodable : e \in Int /\ from[r] \in Int /\ hi \in Int
          BY IndexerAssumption DEF Event, IndexerTypes
        <5>5. ASSUME stage'[q] = "empty", NEW e \in Decodable, e <= hi PROVE Kept(e)'
          <6>1. e <= from[r]
            BY <5>3, <5>4, <5>5
          <6> QED BY <5>1, <6>1
        <5> QED BY <5>1, <5>2, <5>5
      <4> QED BY <4>1, <4>2
    <3> QED BY <3>3, <3>4, <3>5 DEF PagesKept, KeptThrough
  <2>5. ASSUME NEW r \in Replica, SkipPage(r) PROVE BegunOK' /\ PagesKept'
    <3>1. /\ stage[r] = "empty"
          /\ UNCHANGED origin
          /\ \A q \in Replica : from'[q] \in {from[q], 0} /\ upTo'[q] \in {upTo[q], 0}
          /\ cursor' = upTo[r] \/ cursor' = cursor
          /\ stage' = [stage EXCEPT ![r] = "orphans"]
      BY <2>5, Forgotten DEF SkipPage, EmptyPage, chainVars, Goto
    <3>2. \A q \in Replica : /\ stage'[q] # "idle" => stage[q] # "idle"
                             /\ stage'[q] = "empty" => stage[q] = "empty"
      BY <3>1 DEF IndexerTypes
    <3>3. \A e \in Decodable : e <= cursor' => Kept(e)'
      BY <2>2, <3>1 DEF KeptInv, PagesKept
    <3>4. PagesKept'
      BY <2>1, <3>1, <3>2, <3>3, PagesStay DEF KeptInv
    <3>5. BegunOK'
      BY <3>1, <3>2 DEF KeptInv, BegunOK
    <3> QED BY <3>4, <3>5
  <2>6. ASSUME UNCHANGED <<origin, cursor>>,
               \A q \in Replica : /\ stage'[q] # "idle" => stage[q] # "idle"
                                  /\ stage'[q] = "empty" => stage[q] = "empty"
                                  /\ from'[q] \in {from[q], 0} /\ upTo'[q] \in {upTo[q], 0}
        PROVE  BegunOK' /\ PagesKept'
    <3>1. BegunOK'
      BY <2>6 DEF KeptInv, BegunOK
    <3>2. \A e \in Decodable : e <= cursor' => Kept(e)'
      BY <2>2, <2>6 DEF KeptInv, PagesKept
    <3>3. PagesKept'
      BY <2>1, <2>6, <3>2, PagesStay DEF KeptInv
    <3> QED BY <3>1, <3>3
  <2>7. ASSUME NEW r \in Replica,
               Fail(r) \/ Lookup(r) \/ ReadOrphans(r) \/ MatchOrphans(r) \/ Link(r) \/ EndTick(r)
        PROVE  BegunOK' /\ PagesKept'
    <3>1. /\ UNCHANGED <<origin, cursor>> /\ stage[r] # "idle"
          /\ \A q \in Replica : from'[q] \in {from[q], 0} /\ upTo'[q] \in {upTo[q], 0}
      BY <2>7, Forgotten DEF Fail, Lookup, ReadOrphans, MatchOrphans, Link, EndTick, chainVars
    <3>2. \E s \in {"idle", "saving", "matching", "linking"} :
            stage' = stage \/ stage' = [stage EXCEPT ![r] = s]
      BY <2>7 DEF Fail, Lookup, ReadOrphans, MatchOrphans, Link, EndTick, Goto
    <3>3. \A q \in Replica : /\ stage'[q] # "idle" => stage[q] # "idle"
                             /\ stage'[q] = "empty" => stage[q] = "empty"
      BY <3>1, <3>2 DEF IndexerTypes
    <3> QED BY <2>6, <3>1, <3>3
  <2>8. ASSUME Emit \/ (\E p \in Profile : Register(p) \/ Unregister(p)) \/ UNCHANGED indexerVars
        PROVE  BegunOK' /\ PagesKept'
    BY <2>6, <2>8 DEF Emit, Register, Unregister, indexerVars, chainVars, tickVars
  <2> QED BY <1>2, <2>1, <2>3, <2>4, <2>5, <2>7, <2>8 DEF IndexerNext, Tick, KeptInv
<1> QED BY <1>1, <1>2

\* Every reachable state satisfies KeptUpToCursor, for a deployment that
\* names its first ledger and transactions of one event each
\* (event-indexer.ts 143-151, 171-217).
THEOREM NothingSkipped ==
  ASSUME Backfill, TxIsUnique
  PROVE  IndexerSpec => []KeptUpToCursor
<1>1. IndexerInit => KeptInv
  <2>1. IndexerInit => \A e \in Decodable : ~(e <= cursor)
    BY IndexerAssumption DEF IndexerInit, Event, NoCursor
  <2> QED BY <2>1 DEF IndexerInit, KeptInv, RowsOwnHash, BegunOK, PagesKept, KeptThrough, NoCursor
<1>2. IndexerTypes /\ KeptInv /\ [IndexerNext]_indexerVars => KeptInv'
  BY KeptStep
<1>3. KeptInv => KeptUpToCursor
  BY DEF KeptInv, PagesKept, KeptThrough, KeptUpToCursor, Kept
<1> QED BY <1>1, <1>2, <1>3, TypeInit, TypeStep, PTL DEF IndexerSpec
=============================================================================
