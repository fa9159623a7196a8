----------------------------- MODULE SupportPanel -----------------------------
(***************************************************************************)
(* One payment in the browser: the wallet buttons of the page header and   *)
(* of the support panel (components/wallet-connect.tsx), the panel that    *)
(* builds, signs and submits a Stellar payment (support-panel.tsx,         *)
(* lib/stellar.ts, lib/wallet-adapters.ts) and the dialog that watches the *)
(* submitted transaction (transaction-result-modal.tsx).                   *)
(*                                                                         *)
(* A balance is abstracted to the set of assets it covers the amount in,   *)
(* so "whose balances are on the screen" is all that is kept of an answer. *)
(* The ledger is external: a transaction is included when its sequence     *)
(* number is the next one of its source, the source signed it and its      *)
(* asset is covered.                                                       *)
(***************************************************************************)
EXTENDS Naturals, FiniteSets

CONSTANTS
  Wallets,      \* the visitor's wallets
  XLM,          \* the native asset
  OtherAssets,  \* the other assets: paid by a path payment
  Covers,       \* wallet -> the assets its balance covers
  Accepted,     \* acceptedAssets of the creator; {} accepts everything
  Amounts, Notes,
  None,         \* null, and the empty form field
  Testnet,      \* IS_TESTNET
  Unfunded,     \* wallets whose account does not exist on the network
  MaxSends,     \* bound: clicks on "Send Support"
  MaxConnects,  \* bound: wallet connections
  MaxTicks,     \* bound: ticks of the polling interval before its deadline
  MaxAttempts   \* maxAttempts of withStellarRetry

Assets == {XLM} \cup OtherAssets
Sends  == 1 .. MaxSends

PanelAssumption ==
  /\ XLM \notin OtherAssets /\ None \notin Wallets \cup Amounts \cup Notes
  /\ Covers \in [Wallets -> SUBSET Assets] /\ Unfunded \subseteq Wallets
  /\ MaxSends \in Nat \ {0} /\ MaxConnects \in Nat /\ MaxTicks \in Nat \ {0} /\ MaxAttempts \in Nat \ {0}

VARIABLES
  stored,     \* localStorage: walletAddress and walletId
  shell,      \* address of the header's WalletConnect
  visitor,    \* visitorAddress of the panel
  connects,
  form,       \* amount, note, asset, again (isRecurring) of the panel
  loads,      \* accounts being loaded: "xlm" by loadBalance, "all" by fetchBalances
  balance,    \* whose XLM balance the panel shows, and its error
  balances,   \* whose visitorBalances the panel holds
  sending,    \* the flag that disables the button
  jobs,       \* the runs of handleSend
  txs, seqNo, \* the ledger: transactions and sequence numbers of the accounts
  recurring,  \* recurring supports created by the backend
  hash,       \* txHash: the transaction of the open dialog
  receipt,    \* submittedAmount and submittedMessage
  status,     \* txStatus of the dialog
  done,       \* pollingDoneRef
  ticks,      \* ticks of the interval; the deadline is MaxTicks
  checks,     \* the running lookups by the tick that started them: their attempt
  finalizing  \* the timer that sets "finalized"

walletVars == <<stored, shell, visitor, connects>>
formVars   == <<form, balance, balances, loads>>
ledgerVars == <<txs, seqNo, recurring>>
dialogVars == <<hash, receipt, status, done, ticks, checks, finalizing>>
vars == <<walletVars, formVars, sending, jobs, ledgerVars, dialogVars>>

Holder == Wallets \cup {None}
Job == [pc : {"idle", "build", "sign", "submit", "wait", "recur", "reload", "over"},
        src : Holder, asset : Assets, amount : Amounts \cup {None},
        note : Notes \cup {None}, again : BOOLEAN, seq : Nat]
Tx  == [src : Holder, signer : Holder, asset : Assets, amount : Amounts \cup {None},
        note : Notes \cup {None}, seq : Nat,
        state : {"none", "pooled", "included", "dropped"}]
NoJob == [pc |-> "idle", src |-> None, asset |-> XLM, amount |-> None,
          note |-> None, again |-> FALSE, seq |-> 0]
NoTx  == [src |-> None, signer |-> None, asset |-> XLM, amount |-> None,
          note |-> None, seq |-> 0, state |-> "none"]
NoReceipt == [amount |-> None, note |-> None]
NoChecks == [t \in 0 .. MaxTicks |-> 0]

TypeOK ==
  /\ stored \in Holder /\ shell \in Holder /\ visitor \in Holder
  /\ connects \in 0 .. MaxConnects
  /\ form \in [amount : Amounts \cup {None}, note : Notes \cup {None},
               asset : Assets, again : BOOLEAN]
  /\ loads \subseteq {"xlm", "all"} \X Wallets
  /\ balance \in [of : Holder, error : {"none", "missing", "failed"}]
  /\ balances \in Holder
  /\ sending \in BOOLEAN /\ jobs \in [Sends -> Job]
  /\ txs \in [Sends -> Tx] /\ seqNo \in [Wallets -> Nat] /\ recurring \subseteq Sends
  /\ hash \in 0 .. MaxSends
  /\ receipt \in [amount : Amounts \cup {None}, note : Notes \cup {None}]
  /\ status \in {"confirming", "confirmed", "finalized", "failed"}
  /\ done \in BOOLEAN /\ finalizing \in BOOLEAN /\ ticks \in 0 .. MaxTicks + 1
  /\ checks \in [0 .. MaxTicks -> 0 .. MaxAttempts]

\* The page is loaded: both wallet buttons read the stored address.
Init ==
  /\ stored \in Holder /\ shell = stored /\ visitor = stored /\ connects = 0
  /\ form = [amount |-> None, note |-> None, asset |-> XLM, again |-> FALSE]
  /\ loads = IF visitor = None THEN {} ELSE {"xlm", "all"} \X {visitor}
  /\ balance = [of |-> None, error |-> "none"] /\ balances = None
  /\ sending = FALSE /\ jobs = [s \in Sends |-> NoJob]
  /\ txs = [s \in Sends |-> NoTx] /\ seqNo = [w \in Wallets |-> 0] /\ recurring = {}
  /\ hash = 0 /\ receipt = NoReceipt
  /\ status = "confirming" /\ done = FALSE /\ ticks = 0
  /\ checks = NoChecks /\ finalizing = FALSE

-----------------------------------------------------------------------------
(* Wallets.  The header and the panel each hold a WalletConnect of their    *)
(* own; only a disconnection is announced from one to the other.            *)

\* The dialog is open; it covers the page.  It is part of the connected panel.
Rendered == hash # 0 /\ visitor # None

\* visitorAddress changes to w: both effects load its account.
Visit(w) == visitor' = w /\ loads' = loads \cup ({"xlm", "all"} \X {w})

\* A wallet button connects: the adapter grants its address.
Connect(w) ==
  /\ ~Rendered /\ connects < MaxConnects /\ connects' = connects + 1
  /\ stored' = w
  /\ \/ visitor = None /\ Visit(w) /\ UNCHANGED shell
     \/ shell = None /\ shell' = w /\ UNCHANGED <<visitor, loads>>
  /\ UNCHANGED <<form, balance, balances, sending, jobs, ledgerVars, dialogVars>>

\* The header disconnects; the panel hears of it and shows its own button.
Disconnect ==
  /\ ~Rendered /\ shell # None
  /\ stored' = None /\ shell' = None /\ visitor' = None
  /\ UNCHANGED <<connects, formVars, sending, jobs, ledgerVars, dialogVars>>

-----------------------------------------------------------------------------
(* Balances and the form.                                                   *)

Held(of)    == IF of = None THEN {} ELSE IF of \in Unfunded THEN {} ELSE Covers[of]
Payable(of) == IF Accepted = {} THEN Held(of) ELSE Held(of) \cap Accepted

\* The selected asset is kept within the payable ones.
Kept(asset, of) ==
  IF Payable(of) = {} \/ asset \in Payable(of) THEN {asset} ELSE Payable(of)

\* loadBalance answers for the address it was called with.
BalanceLoaded(w) ==
  /\ <<"xlm", w>> \in loads /\ loads' = loads \ {<<"xlm", w>>}
  /\ \/ balance' = [of |-> w, error |-> IF w \in Unfunded THEN "missing" ELSE "none"]
     \/ balance' = [balance EXCEPT !.error = "failed"]
  /\ UNCHANGED <<walletVars, form, balances, sending, jobs, ledgerVars, dialogVars>>

\* fetchBalances answers, or fails and leaves no balances.
BalancesLoaded(w) ==
  /\ <<"all", w>> \in loads /\ loads' = loads \ {<<"all", w>>}
  /\ balances' \in {IF w \in Unfunded THEN None ELSE w, None}
  /\ \E a \in Kept(form.asset, balances') : form' = [form EXCEPT !.asset = a]
  /\ UNCHANGED <<walletVars, balance, sending, jobs, ledgerVars, dialogVars>>

\* "Refresh balance", offered while the account is missing or failed to load.
Refresh ==
  /\ visitor # None /\ ~Rendered
  /\ balance.error = "failed" \/ (balance.error = "missing" /\ Testnet)
  /\ \A w \in Wallets : <<"xlm", w>> \notin loads
  /\ loads' = loads \cup {<<"xlm", visitor>>}
  /\ balance' = [balance EXCEPT !.error = "none"]
  /\ UNCHANGED <<walletVars, form, balances, sending, jobs, ledgerVars, dialogVars>>

\* The fields stay open while a payment is being sent; the dialog covers them.
EditForm ==
  /\ visitor # None /\ hash = 0
  /\ \/ \E a \in Payable(balances) \ {form.asset} : form' = [form EXCEPT !.asset = a]
     \/ \E v \in Amounts \ {form.amount} : form' = [form EXCEPT !.amount = v]
     \/ \E n \in Notes \ {form.note} : form' = [form EXCEPT !.note = n]
     \/ form' = [form EXCEPT !.again = ~@]
  /\ UNCHANGED <<walletVars, loads, balance, balances, sending, jobs, ledgerVars,
                 dialogVars>>

-----------------------------------------------------------------------------
(* handleSend, from the click to the end of its finally block.              *)

\* The balance check; XLM falls back on the answer of loadBalance.
Enough ==
  \/ form.asset \in Held(balances)
  \/ /\ form.asset = XLM /\ XLM \notin Held(balances) /\ balances = None
     /\ XLM \in Held(balance.of)

\* The button is enabled and handleSend gets past its early returns.
CanSend ==
  /\ visitor # None /\ hash = 0 /\ ~sending
  /\ form.amount # None /\ Enough
  /\ form.asset = XLM \/ XLM \in Held(balances)
  /\ form.asset \in Payable(balances)

Send(s) ==
  /\ CanSend
  /\ jobs[s].pc = "idle" /\ \A r \in Sends : r < s => jobs[r].pc # "idle"
  /\ stored # None    \* otherwise "Wallet not connected"
  /\ sending' = TRUE
  /\ jobs' = [jobs EXCEPT ![s] =
                [pc |-> "build", src |-> visitor, asset |-> form.asset,
                 amount |-> form.amount, note |-> form.note,
                 again |-> form.again, seq |-> 0]]
  /\ UNCHANGED <<walletVars, formVars, ledgerVars, dialogVars>>

Goto(s, pc) == jobs' = [jobs EXCEPT ![s].pc = pc]

\* catch and finally: a toast, and the button is enabled again.
GiveUp(s) ==
  jobs' = [jobs EXCEPT ![s] = [NoJob EXCEPT !.pc = "over"]] /\ sending' = FALSE

\* buildSupportIntent loads the source and takes its next sequence number;
\* buildPathPaymentIntent does so too.
NextSeq(src) == seqNo[src] + 1

\* A payment of XLM, or a path payment from another asset.
Build(s) ==
  /\ jobs[s].pc = "build"
  /\ jobs' = [jobs EXCEPT ![s].pc = "sign", ![s].seq = NextSeq(jobs[s].src)]
  /\ UNCHANGED <<walletVars, formVars, sending, ledgerVars, dialogVars>>

\* The adapters hand the transaction as it is to the wallet, which signs with
\* the account it holds; only Freighter is told which one was meant.
Signed(s, w) ==
  [src |-> jobs[s].src, signer |-> w, asset |-> jobs[s].asset,
   amount |-> jobs[s].amount, note |-> jobs[s].note, seq |-> jobs[s].seq,
   state |-> "none"]

\* The wallet that was stored at the click signs, whichever address it holds.
Sign(s, w) ==
  /\ jobs[s].pc = "sign"
  /\ Goto(s, "submit")
  /\ txs' = [txs EXCEPT ![s] = Signed(s, w)]
  /\ UNCHANGED <<walletVars, formVars, sending, seqNo, recurring, dialogVars>>

Submit(s) ==
  /\ jobs[s].pc = "submit"
  /\ Goto(s, "wait")
  /\ txs' = [txs EXCEPT ![s].state = "pooled"]
  /\ UNCHANGED <<walletVars, formVars, sending, seqNo, recurring, dialogVars>>

\* Building finds no account or no path, the wallet refuses, Horizon rejects
\* the transaction, or its answer is lost.
SendFails(s) ==
  /\ jobs[s].pc \in {"build", "sign", "submit", "wait"}
  /\ GiveUp(s)
  /\ UNCHANGED <<walletVars, formVars, ledgerVars, dialogVars>>

\* The dialog's effect runs for a new hash: one lookup at once, then the interval.
\* (With the wallet gone meanwhile, it waits for the panel to be connected again.)
Watch(s) ==
  /\ hash' = s /\ status' = "confirming" /\ done' = FALSE /\ ticks' = 0
  /\ checks' = [NoChecks EXCEPT ![0] = 1] /\ finalizing' = FALSE

\* Fault seeded for the checks: the receipt is read from the fields.
ReceiptFromForm(s) == [amount |-> form.amount, note |-> form.note]
\* The amount and the message that were captured by the click.
ReceiptOf(s) == [amount |-> jobs[s].amount, note |-> jobs[s].note]

\* Horizon answers: the receipt is taken and the fields are cleared.
Sent(s) ==
  /\ jobs[s].pc = "wait" /\ txs[s].state = "included"
  /\ Watch(s)
  /\ receipt' = ReceiptOf(s)
  /\ form' = [form EXCEPT !.amount = None, !.note = None]
  /\ Goto(s, IF jobs[s].again THEN "recur" ELSE "reload")
  /\ UNCHANGED <<walletVars, loads, balance, balances, sending, ledgerVars>>

\* POST /v1/recurring-support: accepted, or refused with a toast.  A request that
\* throws goes to the catch, whether or not the backend took it, and the balance is
\* not read again.
EnableRecurring(s) ==
  /\ jobs[s].pc = "recur"
  /\ recurring' \in {recurring, recurring \cup {s}}
  /\ \/ Goto(s, "reload") /\ UNCHANGED sending
     \/ GiveUp(s)
  /\ UNCHANGED <<walletVars, formVars, txs, seqNo, dialogVars>>

\* loadBalance(visitorAddress) of the address that was captured by the click.
Reload(s) ==
  /\ jobs[s].pc = "reload"
  /\ balance' \in {[of |-> jobs[s].src, error |-> "none"],
                   [balance EXCEPT !.error = "failed"]}
  /\ GiveUp(s)
  /\ UNCHANGED <<walletVars, form, loads, balances, ledgerVars, dialogVars>>

-----------------------------------------------------------------------------
(* The ledger.                                                              *)

Include(s) ==
  /\ txs[s].state = "pooled"
  /\ txs[s].signer = txs[s].src /\ txs[s].seq = seqNo[txs[s].src] + 1
  /\ txs[s].asset \in Held(txs[s].src)
  /\ txs' = [txs EXCEPT ![s].state = "included"]
  /\ seqNo' = [seqNo EXCEPT ![txs[s].src] = @ + 1]
  /\ UNCHANGED <<walletVars, formVars, sending, jobs, recurring, dialogVars>>

\* Rejected, or not included within the 30 s of its time bound.
Drop(s) ==
  /\ txs[s].state = "pooled"
  /\ txs' = [txs EXCEPT ![s] = [NoTx EXCEPT !.state = "dropped"]]
  /\ UNCHANGED <<walletVars, formVars, sending, jobs, seqNo, recurring, dialogVars>>

-----------------------------------------------------------------------------
(* The dialog.                                                              *)

Polling  == Rendered /\ ticks <= MaxTicks
NotDialog == <<walletVars, formVars, sending, jobs, ledgerVars>>

\* The lookup t is answered 404: not yet known to Horizon.
LookupPending(t) ==
  /\ Rendered /\ checks[t] # 0
  /\ checks' = [checks EXCEPT ![t] = 0]
  /\ UNCHANGED <<NotDialog, hash, receipt, status, done, ticks, finalizing>>

\* The lookup t finds the transaction.
LookupFound(t) ==
  /\ Rendered /\ checks[t] # 0
  /\ checks' = [checks EXCEPT ![t] = 0]
  /\ done' = TRUE
  /\ IF txs[hash].state = "included"
     THEN status' = "confirmed" /\ finalizing' = TRUE
     ELSE status' = "failed" /\ UNCHANGED finalizing
  /\ UNCHANGED <<NotDialog, hash, receipt, ticks>>

\* withStellarRetry tries a lookup again after a retryable error.
LookupRetried(t) ==
  /\ Rendered /\ checks[t] \in 1 .. MaxAttempts - 1
  /\ checks' = [checks EXCEPT ![t] = @ + 1]
  /\ UNCHANGED <<NotDialog, hash, receipt, status, done, ticks, finalizing>>

\* Fault seeded for the checks: a lookup that fails does not look at pollingDoneRef.
LookupFailedLate(t) ==
  /\ Rendered /\ checks[t] # 0
  /\ checks' = [checks EXCEPT ![t] = 0]
  /\ status' = "failed" /\ done' = TRUE
  /\ UNCHANGED <<NotDialog, hash, receipt, ticks, finalizing>>

\* The lookup t fails for good: its last attempt, or an error not retried.
LookupFailed(t) ==
  /\ Rendered /\ checks[t] # 0
  /\ checks' = [checks EXCEPT ![t] = 0]
  /\ IF done THEN UNCHANGED <<status, done>> ELSE status' = "failed" /\ done' = TRUE
  /\ UNCHANGED <<NotDialog, hash, receipt, ticks, finalizing>>

\* Fault seeded for the checks: the interval ends without a verdict.
TickSilent ==
  /\ Polling
  /\ IF ticks = MaxTicks \/ done
     THEN ticks' = MaxTicks + 1 /\ UNCHANGED checks
     ELSE ticks' = ticks + 1 /\ checks' = [checks EXCEPT ![ticks + 1] = 1]
  /\ UNCHANGED <<NotDialog, hash, receipt, status, done, finalizing>>

\* The interval: past its deadline it gives up, otherwise it looks again.
Tick ==
  /\ Polling
  /\ IF ticks = MaxTicks
     THEN /\ ticks' = MaxTicks + 1
          /\ status' = IF done THEN status ELSE "failed"
          /\ UNCHANGED checks
     ELSE IF done
     THEN ticks' = MaxTicks + 1 /\ UNCHANGED <<status, checks>>
     ELSE /\ ticks' = ticks + 1
          /\ checks' = [checks EXCEPT ![ticks + 1] = 1] /\ UNCHANGED status
  /\ UNCHANGED <<NotDialog, hash, receipt, done, finalizing>>

Finalize ==
  /\ finalizing /\ finalizing' = FALSE /\ status' = "finalized"
  /\ UNCHANGED <<NotDialog, hash, receipt, done, ticks, checks>>

\* Escape, the backdrop or "Done": the effect is cleaned up.  What the closed
\* dialog holds is not read again: Watch and Sent set it anew.
CloseDialog ==
  /\ Rendered
  /\ hash' = 0 /\ checks' = NoChecks /\ finalizing' = FALSE
  /\ status' = "confirming" /\ done' = FALSE /\ ticks' = 0 /\ receipt' = NoReceipt
  /\ UNCHANGED NotDialog

-----------------------------------------------------------------------------
Lookup(t) == LookupPending(t) \/ LookupFound(t) \/ LookupRetried(t) \/ LookupFailed(t)

Next ==
  \/ \E w \in Wallets : Connect(w) \/ BalanceLoaded(w) \/ BalancesLoaded(w)
  \/ Disconnect \/ Refresh \/ EditForm
  \/ \E s \in Sends : \/ Send(s) \/ Build(s) \/ Submit(s) \/ SendFails(s)
                      \/ Sent(s) \/ EnableRecurring(s) \/ Reload(s)
                      \/ Include(s) \/ Drop(s)
                      \/ \E w \in Wallets : Sign(s, w)
  \/ \E t \in 0 .. MaxTicks : Lookup(t)
  \/ Tick \/ Finalize \/ CloseDialog

\* The browser runs its timers; the user, the wallet, Horizon and the ledger
\* need not do anything.
Spec == Init /\ [][Next]_vars /\ WF_vars(Tick) /\ WF_vars(Finalize)

-----------------------------------------------------------------------------
(* Properties.                                                             *)

\* What the page reports as paid was paid (support-panel 233-271, 829-837): the
\* dialog is about a transaction of the ledger and shows the amount and the
\* message that went with it, however the fields were edited while the wallet
\* was asked, and no recurring support is made for a payment that failed.
ReportedIsPaid ==
  /\ hash # 0 => /\ txs[hash].state = "included"
                 /\ receipt = [amount |-> txs[hash].amount, note |-> txs[hash].note]
  /\ \A s \in recurring : txs[s].state = "included"

\* Lookups overlap, since the interval does not wait for the last one
\* (transaction-result-modal 105-120): one that fails late, or the deadline,
\* never turns a confirmed payment into a failed one.
VerdictStands ==
  [][hash' = hash /\ status \in {"confirmed", "finalized"} => status' # "failed"]_vars

\* The dialog does not show "confirming" for ever, whatever Horizon answers.
VerdictComes == Rendered ~> (~Rendered \/ status \in {"finalized", "failed"})
=============================================================================
