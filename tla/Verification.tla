---------------------------- MODULE Verification ----------------------------
(***************************************************************************)
(* The verification of payments in one process (backend/src/services/      *)
(* verify-transaction.ts): verifyTransaction asks Horizon for a            *)
(* transaction and looks through its operations, up to three times, and    *)
(* keeps verdicts in a map, the bad ones for a short time.                 *)
(*                                                                         *)
(* What is verified is a claim: a transaction with the payment it is said  *)
(* to hold, which is on one of the pages of its operations or on none.     *)
(* Horizon shows a transaction from some moment on, and for good.  Its     *)
(* pages never end: after the last one come empty ones (the page object of *)
(* stellar-sdk always has a next()).                                       *)
(*                                                                         *)
(* Asking Horizon and taking its answer are two steps; a tick is longer    *)
(* than an answer is under way.                                            *)
(***************************************************************************)
EXTENDS Naturals, Sequences, SequencesExt

CONSTANTS
  Claims,
  TxOf,          \* the transaction of a claim
  PageOf,        \* the page that holds the payment, 0: none does
  LastPage,      \* the last page with operations
  Verifiers,     \* concurrent calls
  PositiveTTL,   \* VERIFICATION_CACHE_TTL (1 hour)
  NegativeTTL,   \* NEGATIVE_CACHE_TTL (30 s)
  CacheSize,     \* VERIFICATION_CACHE_MAX_SIZE (5000)
  Retries,       \* 3, as the app calls it
  MaxTime        \* bound of the checks

Txs == {TxOf[k] : k \in Claims}

VerificationAssumption ==
  /\ DOMAIN TxOf = Claims /\ LastPage \in Nat \ {0} /\ PageOf \in [Claims -> 0..LastPage]
  /\ NegativeTTL \in Nat \ {0} /\ PositiveTTL \in Nat /\ NegativeTTL <= PositiveTTL
  /\ CacheSize \in Nat \ {0} /\ Retries \in Nat \ {0} /\ MaxTime \in Nat

VARIABLES
  time,
  shown,  \* what Horizon knows of a transaction
  since,  \* the time since when
  cache,  \* verificationCache, in the order its keys were first set
  asks    \* the calls

verificationVars == <<time, shown, since, cache, asks>>

Outcome == {"absent", "failed", "successful"}
Verdict == {"true", "false", "error"}
NoAsk   == [pc |-> "idle"]

TypeOK ==
  /\ time \in 0..MaxTime
  /\ shown \in [Txs -> Outcome] /\ since \in [Txs -> 0..MaxTime]
  /\ cache \in Seq([claim : Claims, result : BOOLEAN, timestamp : 0..MaxTime])
  /\ Len(cache) <= CacheSize
  /\ \A v \in Verifiers : asks[v] # NoAsk =>
       /\ asks[v].pc \in {"request", "answer", "scan", "wait", "done"}
       /\ asks[v].claim \in Claims /\ asks[v].attempt \in 1..Retries
       /\ asks[v].page \in 1..LastPage + 1
       /\ asks[v].got \in Outcome /\ asks[v].verdict \in Verdict

Init ==
  /\ time = 0
  /\ shown = [t \in Txs |-> "absent"] /\ since = [t \in Txs |-> 0]
  /\ cache = <<>>
  /\ asks = [v \in Verifiers |-> NoAsk]

-----------------------------------------------------------------------------
\* A transaction enters a ledger, and Horizon.
Show(t) ==
  /\ shown[t] = "absent"
  /\ shown' = [shown EXCEPT ![t] = "successful"] \/ shown' = [shown EXCEPT ![t] = "failed"]
  /\ since' = [since EXCEPT ![t] = time]
  /\ UNCHANGED <<time, cache, asks>>

Pass ==
  /\ time < MaxTime /\ time' = time + 1
  /\ \A v \in Verifiers : asks[v].pc # "answer"
  /\ UNCHANGED <<shown, since, cache, asks>>

-----------------------------------------------------------------------------
Asked(k) == [pc |-> "request", claim |-> k, attempt |-> 1, page |-> 1, got |-> "absent",
             verdict |-> "error"]
Waits(v, pc) == asks[v].pc = pc
Becomes(v, ask) == asks' = [asks EXCEPT ![v] = ask]

\* The call returns, or throws Horizon's last error.
Ends(v, verdict) == Becomes(v, [Asked(asks[v].claim) EXCEPT !.pc = "done", !.verdict = verdict])

\* Fault seeded for the checks: a verdict is found by its transaction alone.
SameTransaction(entry, k) == TxOf[entry.claim] = TxOf[k]

\* makeCacheKey: the transaction and every detail that is expected of it.
SameKey(entry, k) == entry.claim = k

Live(entry) == time - entry.timestamp < IF entry.result THEN PositiveTTL ELSE NegativeTTL

Cached(k) == {entry \in ToSet(cache) : SameKey(entry, k) /\ Live(entry)}

\* A call starts: a verdict that is cached and young enough is the answer.
Verify(v, k) ==
  /\ Waits(v, "idle") \/ Waits(v, "done")
  /\ \/ Cached(k) = {} /\ Becomes(v, Asked(k))
     \/ \E entry \in Cached(k) :
          Becomes(v, [Asked(k) EXCEPT !.pc = "done", !.verdict = IF entry.result THEN "true" ELSE "false"])
  /\ UNCHANGED <<time, shown, since, cache>>

\* setCacheEntry: a key that is there keeps its place, a new one goes to the end, and
\* of too many the first one goes.
SetEntry(k, result) ==
  LET entry  == [claim |-> k, result |-> result, timestamp |-> time]
      places == {i \in 1..Len(cache) : cache[i].claim = k}
      longer == IF places = {} THEN Append(cache, entry)
                ELSE [i \in 1..Len(cache) |-> IF i \in places THEN entry ELSE cache[i]]
  IN cache' = IF Len(longer) > CacheSize THEN Tail(longer) ELSE longer

\* Horizon looks the transaction up ...
Request(v) ==
  /\ Waits(v, "request")
  /\ Becomes(v, [asks[v] EXCEPT !.pc = "answer", !.got = shown[TxOf[asks[v].claim]]])
  /\ UNCHANGED <<time, shown, since, cache>>

\* ... and the answer arrives: 404, a transaction that failed, or one whose operations
\* are to be looked through.
TakeAnswer(v) ==
  /\ Waits(v, "answer")
  /\ IF asks[v].got = "successful"
     THEN Becomes(v, [asks[v] EXCEPT !.pc = "scan", !.got = "absent"]) /\ UNCHANGED cache
     ELSE SetEntry(asks[v].claim, FALSE) /\ Ends(v, "false")
  /\ UNCHANGED <<time, shown, since>>

\* validatePaymentDetails: the payment is on this page, or the next page is fetched.
Scan(v) ==
  LET k == asks[v].claim
      n == asks[v].page
  IN
  /\ Waits(v, "scan")
  /\ IF n = PageOf[k]
     THEN SetEntry(k, TRUE) /\ Ends(v, "true")
     ELSE Becomes(v, [asks[v] EXCEPT !.page = IF n <= LastPage THEN n + 1 ELSE n]) /\ UNCHANGED cache
  /\ UNCHANGED <<time, shown, since>>

\* Any other error of Horizon: it is asked again after a while, and the last time
\* its error is thrown.
HorizonFails(v) ==
  /\ Waits(v, "answer") \/ Waits(v, "scan")
  /\ IF asks[v].attempt < Retries
     THEN Becomes(v, [asks[v] EXCEPT !.pc = "wait", !.attempt = @ + 1, !.page = 1, !.got = "absent"])
     ELSE Ends(v, "error")
  /\ UNCHANGED <<time, shown, since, cache>>

AskAgain(v) ==
  /\ Waits(v, "wait")
  /\ Becomes(v, [asks[v] EXCEPT !.pc = "request"])
  /\ UNCHANGED <<time, shown, since, cache>>

\* The process starts again, its cache empty and its callers gone.
Restart ==
  /\ cache' = <<>> /\ asks' = [v \in Verifiers |-> NoAsk]
  /\ UNCHANGED <<time, shown, since>>

Next ==
  \/ Pass \/ Restart \/ \E t \in Txs : Show(t)
  \/ \E v \in Verifiers :
       \/ \E k \in Claims : Verify(v, k)
       \/ Request(v) \/ TakeAnswer(v) \/ Scan(v) \/ HorizonFails(v) \/ AskAgain(v)

-----------------------------------------------------------------------------
Paid(k) == shown[TxOf[k]] = "successful" /\ PageOf[k] # 0

\* A verdict that is given now is right, whatever calls overlapped and whatever is in
\* the cache: a payment that is confirmed was made as claimed, and one that is denied
\* had not been made NegativeTTL ago (verify-transaction.ts 10-11, 167-201).
VerdictIsRight ==
  [][\A v \in Verifiers : asks'[v] # asks[v] /\ asks'[v].pc = "done" =>
       LET k == asks'[v].claim IN
       /\ asks'[v].verdict = "true"  => Paid(k)
       /\ asks'[v].verdict = "false" /\ Paid(k) => time - since[TxOf[k]] < NegativeTTL]_verificationVars
=============================================================================
