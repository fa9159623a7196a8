---------------------------- MODULE SupportPage ----------------------------
(***************************************************************************)
(* The Soroban contract contracts/support_page: custody of the tokens that *)
(* supporters send to recipients, with an admin who may pause it.          *)
(*                                                                         *)
(* An invocation that returns Err (or traps in the token contract) is      *)
(* rolled back by the host, so a rejected call is a stuttering step; what  *)
(* it answers is given by SupportOutcome and WithdrawOutcome, which list   *)
(* the checks in the order the code makes them.                            *)
(*                                                                         *)
(* The token contract is external.  It is modelled from the two calls the  *)
(* contract makes (balance, transfer) and from what its holders and issuer *)
(* can do beside them: mint, transfer, claw back.                          *)
(***************************************************************************)
EXTENDS Integers, FiniteSets

CONSTANTS
  NumAccounts,   \* accounts other than the contract's own
  Asset,         \* token contracts
  MaxU32,        \* largest support counter   (u32::MAX in the code)
  MaxI128,       \* largest token amount      (i128::MAX in the code)
  MaxClawed,     \* bound: tokens ever clawed back from the contract
  MessageLen,    \* message lengths that are tried
  CodeLen,       \* asset-code lengths that are tried
  NoAdmin        \* DataKey::Admin absent

Contract == 0
Account  == 1..NumAccounts
Address  == 0..NumAccounts
Amount   == 0..MaxI128
Pair     == Address \X Asset

ASSUME ConstantsAssumption ==
  /\ NumAccounts \in Nat
  /\ MaxU32 \in Nat
  /\ MaxI128 \in Nat
  /\ MaxClawed \in Nat
  /\ NoAdmin \notin Address

VARIABLES
  admin,           \* DataKey::Admin
  paused,          \* DataKey::Paused (unwrap_or(false))
  supportCount,    \* DataKey::SupportCount
  recipientCount,  \* DataKey::RecipientCount(r), 0 when absent
  known,           \* the pairs whose DataKey::RecipientTotal(r, a) exists
  recipientTotal,  \* DataKey::RecipientTotal(r, a), 0 when absent
  balance,         \* the token contracts' balances
  given,           \* tokens the contract's account got other than by support
  clawed           \* tokens the contract's account lost other than by withdraw

contractVars == <<admin, paused, supportCount, recipientCount, known, recipientTotal>>
tokenVars    == <<balance, given, clawed>>
vars         == <<contractVars, tokenVars>>

TypeOK ==
  /\ admin \in Address \cup {NoAdmin}
  /\ paused \in BOOLEAN
  /\ supportCount \in 0..MaxU32
  /\ recipientCount \in [Address -> 0..MaxU32]
  /\ known \subseteq Pair
  /\ recipientTotal \in [Pair -> Amount]
  /\ balance \in [Pair -> Amount]
  /\ given \in [Asset -> Nat]
  /\ clawed \in [Asset -> 0..MaxClawed]

Init ==
  /\ admin = NoAdmin
  /\ paused = FALSE
  /\ supportCount = 0
  /\ recipientCount = [r \in Address |-> 0]
  /\ known = {}
  /\ recipientTotal = [p \in Pair |-> 0]
  /\ balance = [p \in Pair |-> 0]
  /\ given = [a \in Asset |-> 0]
  /\ clawed = [a \in Asset |-> 0]

-----------------------------------------------------------------------------
(* The token contract.                                                     *)

\* transfer fails when the payer lacks the amount or the payee would overflow.
CanMove(a, from, to, n) ==
  /\ n <= balance[<<from, a>>]
  /\ from # to => balance[<<to, a>>] + n <= MaxI128

Move(a, from, to, n) ==
  balance' = IF from = to THEN balance
             ELSE [balance EXCEPT ![<<from, a>>] = @ - n, ![<<to, a>>] = @ + n]

ReceiveOutside(a, to, n) ==
  given' = IF to = Contract THEN [given EXCEPT ![a] = @ + n] ELSE given

\* The issuer mints to any address, the contract's included.
Mint(a, to, n) ==
  /\ balance[<<to, a>>] + n <= MaxI128
  /\ balance' = [balance EXCEPT ![<<to, a>>] = @ + n]
  /\ ReceiveOutside(a, to, n)
  /\ UNCHANGED <<contractVars, clawed>>

\* A holder pays another address, perhaps the contract, without support().
Pay(a, from, to, n) ==
  /\ CanMove(a, from, to, n)
  /\ Move(a, from, to, n)
  /\ ReceiveOutside(a, to, n)
  /\ UNCHANGED <<contractVars, clawed>>

\* An issuer with clawback enabled takes tokens back from an address.
Clawback(a, from, n) ==
  /\ n <= balance[<<from, a>>]
  /\ balance' = [balance EXCEPT ![<<from, a>>] = @ - n]
  /\ IF from = Contract
     THEN /\ clawed[a] + n <= MaxClawed
          /\ clawed' = [clawed EXCEPT ![a] = @ + n]
     ELSE UNCHANGED clawed
  /\ UNCHANGED <<contractVars, given>>

-----------------------------------------------------------------------------
(* The contract's entry points.                                            *)

Initialize(who) ==
  /\ admin = NoAdmin
  /\ admin' = who
  /\ paused' = FALSE
  /\ UNCHANGED <<supportCount, recipientCount, known, recipientTotal, tokenVars>>

\* admin.require_auth(): only the stored admin's signature gets through.
Pause(who) ==
  /\ admin # NoAdmin /\ who = admin
  /\ paused' = TRUE
  /\ UNCHANGED <<admin, supportCount, recipientCount, known, recipientTotal, tokenVars>>

Unpause(who) ==
  /\ admin # NoAdmin /\ who = admin
  /\ paused' = FALSE
  /\ UNCHANGED <<admin, supportCount, recipientCount, known, recipientTotal, tokenVars>>

\* One of the three checked_add calls fails.
Overflows(r, a, n) ==
  \/ supportCount + 1 > MaxU32
  \/ recipientCount[r] + 1 > MaxU32
  \/ recipientTotal[<<r, a>>] + n > MaxI128

\* What support() answers: the first check that fails decides.
SupportOutcome(s, r, a, n, message, code) ==
  IF admin = NoAdmin THEN "ContractNotInitialized"
  ELSE IF paused THEN "ContractPaused"
  ELSE IF n < 0 THEN "NegativeAmount"
  ELSE IF n = 0 THEN "ZeroAmount"
  ELSE IF message = 0 THEN "EmptyMessage"
  ELSE IF message > 280 THEN "MessageTooLong"
  ELSE IF code = 0 \/ code > 12 THEN "InvalidAssetCode"
  ELSE IF balance[<<s, a>>] < n THEN "InsufficientBalance"
  ELSE IF Overflows(r, a, n) THEN "Overflow"
  ELSE IF ~CanMove(a, s, Contract, n) THEN "TransferTrap"
  ELSE "Ok"

\* Fault seeded for the checks: the recipient's counter is written, not raised.
CountOnce(r) ==
  /\ supportCount' = supportCount + 1
  /\ recipientCount' = [recipientCount EXCEPT ![r] = 1]

CountSupport(r) ==
  /\ supportCount' = supportCount + 1
  /\ recipientCount' = [recipientCount EXCEPT ![r] = @ + 1]

\* Fault seeded for the checks: support for a second asset replaces the entry
\* kept for the first, as if the key were the recipient alone.
CreditByRecipient(r, a, n) ==
  /\ known' = known \cup {<<r, a>>}
  /\ recipientTotal' = [p \in Pair |-> IF p = <<r, a>> THEN recipientTotal[p] + n
                                      ELSE IF p[1] = r THEN 0 ELSE recipientTotal[p]]

Credit(r, a, n) ==
  /\ known' = known \cup {<<r, a>>}
  /\ recipientTotal' = [recipientTotal EXCEPT ![<<r, a>>] = @ + n]

Support(s, r, a, n, message, code) ==
  /\ SupportOutcome(s, r, a, n, message, code) = "Ok"
  /\ CountSupport(r)
  /\ Credit(r, a, n)
  /\ Move(a, s, Contract, n)
  /\ UNCHANGED <<admin, paused, given, clawed>>

\* What withdraw() answers: the contract's own funds are checked before the
\* recipient's entry.
WithdrawOutcome(caller, r, a, n) ==
  IF admin = NoAdmin THEN "ContractNotInitialized"
  ELSE IF paused THEN "ContractPaused"
  ELSE IF caller # r THEN "NotRecipient"
  ELSE IF n < 0 THEN "NegativeAmount"
  ELSE IF n = 0 THEN "ZeroAmount"
  ELSE IF balance[<<Contract, a>>] < n THEN "InsufficientContractBalance"
  ELSE IF <<r, a>> \notin known THEN "RecipientNotFound"
  ELSE IF recipientTotal[<<r, a>>] = 0 THEN "ZeroBalance"
  ELSE IF n > recipientTotal[<<r, a>>] THEN "WithdrawAmountExceedsBalance"
  ELSE IF ~CanMove(a, Contract, r, n) THEN "TransferTrap"
  ELSE "Ok"

\* Faults seeded for the checks: the total is left as it was, or is cleared
\* whatever the amount.
DebitNothing(r, a, n) ==
  UNCHANGED <<known, recipientTotal>>
DebitAll(r, a, n) ==
  UNCHANGED known /\ recipientTotal' = [recipientTotal EXCEPT ![<<r, a>>] = 0]

Debit(r, a, n) ==
  UNCHANGED known /\ recipientTotal' = [recipientTotal EXCEPT ![<<r, a>>] = @ - n]

Withdraw(caller, r, a, n) ==
  /\ WithdrawOutcome(caller, r, a, n) = "Ok"
  /\ Debit(r, a, n)
  /\ Move(a, Contract, r, n)
  /\ UNCHANGED <<admin, paused, supportCount, recipientCount, given, clawed>>

\* The contract never signs for itself, so callers are accounts; a recipient
\* may be any address, the contract's own included.
Next ==
  \/ \E who \in Account : Initialize(who) \/ Pause(who) \/ Unpause(who)
  \/ \E s \in Account, r \in Address, a \in Asset, n \in -1..MaxI128,
        message \in MessageLen, code \in CodeLen : Support(s, r, a, n, message, code)
  \/ \E caller \in Account, r \in Address, a \in Asset, n \in -1..MaxI128 :
        Withdraw(caller, r, a, n)
  \/ \E a \in Asset, to \in Address, n \in 1..MaxI128 : Mint(a, to, n)
  \/ \E a \in Asset, from \in Account, to \in Address, n \in 1..MaxI128 : Pay(a, from, to, n)
  \/ \E a \in Asset, from \in Address, n \in 1..MaxI128 : Clawback(a, from, n)

Spec == Init /\ [][Next]_vars

-----------------------------------------------------------------------------
(* Properties.                                                             *)

\* sum is the sequence of partial sums of f over the addresses: sum[i] adds
\* the values of the addresses below i.  (That it grows follows from f >= 0.)
PartialSums(sum, f) ==
  /\ sum[0] = 0
  /\ \A r \in Address : sum[r + 1] = sum[r] + f[r]
  /\ \A i, j \in 0..NumAccounts + 1 : i <= j => sum[i] <= sum[j]

TotalsOf(a) == [r \in Address |-> recipientTotal[<<r, a>>]]

\* Custody (support 124-219, withdraw 221-297): what the contract owes its
\* recipients in an asset, all together, is exactly what its account holds,
\* once what reached or left that account by other ways is set apart.  The
\* recipients draw on one pool, so a wrong total pays one of them with the
\* money of another.
Solvent ==
  \A a \in Asset : \E sum \in [0..NumAccounts + 1 -> 0..MaxI128 + MaxClawed] :
    /\ PartialSums(sum, TotalsOf(a))
    /\ balance[<<Contract, a>>] + clawed[a] = sum[NumAccounts + 1] + given[a]

\* The global counter is the sum of the recipients' counters, whatever path
\* (overflow, trap in the transfer) a call of support() leaves by.
CountsAgree ==
  \E sum \in [0..NumAccounts + 1 -> 0..MaxU32] :
    /\ PartialSums(sum, recipientCount)
    /\ supportCount = sum[NumAccounts + 1]

\* No counter or amount leaves the range of its integer, whatever call overflows one
\* of them (checked_add, support 176-211), and the counters agree.
Inv == TypeOK /\ CountsAgree

\* Unless the issuer claws back more than the contract was given, a recipient may take
\* any part of the recorded total at any time the contract is not paused:
\* the only obstacle left is the recipient's own account being full.
WithdrawAlwaysPossible ==
  \A r \in Account, a \in Asset :
    (admin # NoAdmin /\ ~paused /\ clawed[a] <= given[a]) =>
      \A n \in 1..recipientTotal[<<r, a>>] :
        WithdrawOutcome(r, r, a, n) \in {"Ok", "TransferTrap"}

\* The contract keeps the promise of a vault (initialize, pause and unpause 67-122,
\* support 124-219, withdraw 221-297): a recipient's total only falls by a payment of
\* as much to that recipient and only rises by a supporter's payment, no other total
\* with it; nothing is taken in or paid out while paused; the first admin stays.
Custodian == INSTANCE Vault WITH
  Holders <- Address, Safe <- Contract, Tokens <- Asset, Sums <- 1..MaxI128,
  Nobody <- NoAdmin, keeper <- admin, frozen <- paused, deposits <- supportCount,
  credit <- recipientTotal, purse <- balance

IsVault == Custodian!Spec
=============================================================================
