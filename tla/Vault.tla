------------------------------- MODULE Vault -------------------------------
(***************************************************************************)
(* What the support_page contract promises to those who pay into it: a     *)
(* vault that keeps an account for every pair of a recipient and an asset. *)
(* A deposit moves tokens from a payer into the vault and raises one       *)
(* account by as much; a payment moves tokens out of the vault to the      *)
(* owner of the account it lowers; nothing else changes an account.  The   *)
(* vault has at most one keeper for ever, and a frozen vault does neither. *)
(*                                                                         *)
(* There are no counters to overflow here, no messages, no list of known   *)
(* recipients and no order of checks: how the contract keeps the promise   *)
(* is SupportPage, which implements this specification.                    *)
(***************************************************************************)
EXTENDS Naturals

CONSTANTS
  Holders,  \* everybody who may hold tokens, the vault included
  Safe,     \* the vault's own account with the tokens
  Tokens,
  Sums,     \* the amounts that can be moved
  Nobody

VARIABLES
  keeper,
  frozen,
  deposits,  \* how many there were
  credit,    \* what the vault owes the holder in the token
  purse      \* what the holder has of the token

vars == <<keeper, frozen, deposits, credit, purse>>

Accounts == Holders \X Tokens

Init ==
  /\ keeper = Nobody /\ frozen = FALSE /\ deposits = 0
  /\ credit = [p \in Accounts |-> 0]
  /\ purse \in [Accounts -> Nat]

Open == keeper # Nobody /\ ~frozen

Moved(t, from, to, n) ==
  purse' = [purse EXCEPT ![<<from, t>>] = @ - n, ![<<to, t>>] = @ + n]

Appoint ==
  /\ keeper = Nobody /\ keeper' \in Holders /\ frozen' = FALSE
  /\ UNCHANGED <<deposits, credit, purse>>

FreezeOrThaw ==
  /\ keeper # Nobody /\ frozen' \in BOOLEAN
  /\ UNCHANGED <<keeper, deposits, credit, purse>>

Deposit(payer, owner, t, n) ==
  /\ Open
  /\ n <= purse[<<payer, t>>] /\ Moved(t, payer, Safe, n)
  /\ credit' = [credit EXCEPT ![<<owner, t>>] = @ + n]
  /\ deposits' = deposits + 1
  /\ UNCHANGED <<keeper, frozen>>

PayOut(owner, t, n) ==
  /\ Open
  /\ n <= credit[<<owner, t>>] /\ n <= purse[<<Safe, t>>] /\ Moved(t, Safe, owner, n)
  /\ credit' = [credit EXCEPT ![<<owner, t>>] = @ - n]
  /\ UNCHANGED <<keeper, frozen, deposits>>

\* Tokens move without the vault.
Elsewhere ==
  /\ purse' \in [Accounts -> Nat]
  /\ UNCHANGED <<keeper, frozen, deposits, credit>>

Next ==
  \/ Appoint \/ FreezeOrThaw \/ Elsewhere
  \/ \E payer \in Holders \ {Safe}, owner \in Holders, t \in Tokens, n \in Sums :
       Deposit(payer, owner, t, n)
  \/ \E owner \in Holders \ {Safe}, t \in Tokens, n \in Sums : PayOut(owner, t, n)

Spec == Init /\ [][Next]_vars
=============================================================================
