---------------------------- MODULE EventIndexer ----------------------------
(***************************************************************************)
(* The contract event indexer (event-indexer.ts, soroban-rpc-client.ts):   *)
(* replicas read one cursor, fetch a page of contract events after it,     *)
(* store the page as SupportTransaction rows together with the new cursor, *)
(* and then link the rows no profile was found for.                        *)
(*                                                                         *)
(* The chain is the events 1..emitted in order, and a paging token is the  *)
(* number of the event it follows.  Every await of a tick is a step        *)
(* boundary.  What a row says besides its link is the event it was made    *)
(* from.  The specification and its types are named for the indexer: their *)
(* theorems stand beside those of the contract.                            *)
(***************************************************************************)
EXTENDS Integers, FiniteSets

CONSTANTS
  Replica,          \* processes running the indexer
  Tx, Recipient,    \* transaction hashes; recipient addresses
  Profile,          \* ids of profiles, each used once
  WalletOf,         \* the wallet a profile is created with; it cannot be changed
  MaxEvents,        \* events the chain ever holds
  TxOf, RecipientOf,\* of an event
  Decodable,        \* events decodeSupportEvent accepts; the others are dropped
  PageSize,         \* events per getEvents call
  TakeLimit,        \* orphans one resolveOrphans reads (100)
  ReportsCursor,    \* the RPC server answers with a cursor
  Backfill,         \* INDEXER_START_LEDGER is set, to before the first event
  OrphanProfile,    \* a Profile row with the id "__orphan__" has been made by hand
  Orphan, NoRow,
  MaxFailures       \* bound: ticks cut short by an error or a crash

Event == 1..MaxEvents

ASSUME IndexerAssumption ==
  /\ MaxEvents \in Nat /\ PageSize \in Nat \ {0} /\ TakeLimit \in Nat \ {0}
  /\ TxOf \in [Event -> Tx] /\ RecipientOf \in [Event -> Recipient]
  /\ WalletOf \in [Profile -> Recipient]
  /\ Decodable \subseteq Event
  /\ Orphan \notin Profile
  /\ NoRow \notin [event : Event, recipient : Recipient, profile : Profile \cup {Orphan}]
  /\ MaxFailures \in Nat

VARIABLES
  emitted,       \* events on the chain so far
  cursor,        \* IndexerCursor.lastPagingToken, NoCursor when there is no row
  origin,        \* where the first poll of all started; NoCursor before it
  rows,          \* SupportTransaction, by txHash
  profile,       \* "new", "live" or "gone"
  stage,         \* where a replica's tick is
  from, upTo,    \* the page it asked for and got: events from+1..upTo
  found,         \* the profiles its last lookup returned
  orphans,       \* the recipients of the orphans it read
  failures

chainVars   == <<emitted, origin>>
tickVars    == <<stage, from, upTo, found, orphans>>
indexerVars == <<chainVars, cursor, rows, profile, tickVars, failures>>

NoCursor == -1
Row      == [event : Event, recipient : Recipient, profile : Profile \cup {Orphan}]
Stage    == {"idle", "fetching", "empty", "looking", "saving", "orphans", "matching", "linking"}

IndexerTypes ==
  /\ emitted \in 0..MaxEvents
  /\ cursor \in NoCursor..emitted
  /\ origin \in NoCursor..emitted
  /\ rows \in [Tx -> Row \cup {NoRow}]
  /\ profile \in [Profile -> {"new", "live", "gone"}]
  /\ stage \in [Replica -> Stage]
  /\ from \in [Replica -> 0..emitted]
  /\ upTo \in [Replica -> 0..emitted]
  /\ found \in [Replica -> SUBSET Profile]
  /\ orphans \in [Replica -> SUBSET Recipient]
  /\ failures \in 0..MaxFailures

IndexerInit ==
  /\ emitted = 0 /\ cursor = NoCursor /\ origin = NoCursor
  /\ rows = [t \in Tx |-> NoRow]
  /\ profile = [p \in Profile |-> "new"]
  /\ stage = [r \in Replica |-> "idle"]
  /\ from = [r \in Replica |-> 0] /\ upTo = [r \in Replica |-> 0]
  /\ found = [r \in Replica |-> {}]
  /\ orphans = [r \in Replica |-> {}]
  /\ failures = 0

Live == {p \in Profile : profile[p] = "live"}
OrphanRows == {t \in Tx : rows[t] # NoRow /\ rows[t].profile = Orphan}

\* The foreign key SupportTransaction.profileId -> Profile.id.
Referable(id) == id \in Live \/ (id = Orphan /\ OrphanProfile)

Goto(r, s) == stage' = [stage EXCEPT ![r] = s]

-----------------------------------------------------------------------------
(* The chain and the profile registry.                                     *)

\* The contract emits its next event.
Emit ==
  /\ emitted < MaxEvents
  /\ emitted' = emitted + 1
  /\ UNCHANGED <<cursor, origin, rows, profile, tickVars, failures>>

\* POST /profiles; walletAddress is unique.
Register(p) ==
  /\ profile[p] = "new"
  /\ \A q \in Live : WalletOf[q] # WalletOf[p]
  /\ profile' = [profile EXCEPT ![p] = "live"]
  /\ UNCHANGED <<chainVars, cursor, rows, tickVars, failures>>

\* DELETE /profiles/:username is refused while a row refers to the profile.
Unregister(p) ==
  /\ profile[p] = "live"
  /\ \A t \in Tx : rows[t] # NoRow => rows[t].profile # p
  /\ profile' = [profile EXCEPT ![p] = "gone"]
  /\ UNCHANGED <<chainVars, cursor, rows, tickVars, failures>>

-----------------------------------------------------------------------------
(* pollOnce.                                                               *)

\* Without a cursor the page starts at the configured ledger, or else at the
\* latest one, whose own event may or may not have been in it yet.
ReadCursor(r) ==
  /\ stage[r] = "idle"
  /\ \E start \in IF cursor # NoCursor THEN {cursor}
                  ELSE IF Backfill THEN {0}
                  ELSE {emitted, emitted - 1} \cap Nat :
       /\ from' = [from EXCEPT ![r] = start]
       /\ origin' = IF origin = NoCursor THEN start ELSE origin
  /\ Goto(r, "fetching")
  /\ UNCHANGED <<emitted, cursor, rows, profile, upTo, found, orphans, failures>>

Page(r) == {e \in from[r] + 1..upTo[r] : e \in Decodable}

\* fetchEvents answers with the next events, the undecodable ones left out.
Fetch(r) ==
  LET last == IF from[r] + PageSize <= emitted THEN from[r] + PageSize ELSE emitted IN
  /\ stage[r] = "fetching"
  /\ upTo' = [upTo EXCEPT ![r] = last]
  /\ Goto(r, IF \E e \in from[r] + 1..last : e \in Decodable THEN "looking" ELSE "empty")
  /\ UNCHANGED <<chainVars, cursor, rows, profile, from, found, orphans, failures>>

\* What a tick was given is gone with it.
ForgetPage(r) ==
  /\ from' = [from EXCEPT ![r] = 0] /\ upTo' = [upTo EXCEPT ![r] = 0]
  /\ found' = [found EXCEPT ![r] = {}]

\* Fault seeded for the checks: an empty page never moves the cursor.
EmptyPageIgnored(r) == UNCHANGED cursor

\* An empty page moves the cursor when the server reported one.
EmptyPage(r) == cursor' = IF ReportsCursor THEN upTo[r] ELSE cursor

SkipPage(r) ==
  /\ stage[r] = "empty"
  /\ EmptyPage(r)
  /\ ForgetPage(r)
  /\ Goto(r, "orphans")
  /\ UNCHANGED <<chainVars, rows, profile, orphans, failures>>

\* The profiles of the page's recipients, read outside the transaction.
Lookup(r) ==
  /\ stage[r] = "looking"
  /\ found' = [found EXCEPT ![r] = {p \in Live : \E e \in Page(r) : RecipientOf[e] = WalletOf[p]}]
  /\ Goto(r, "saving")
  /\ UNCHANGED <<chainVars, cursor, rows, profile, from, upTo, orphans, failures>>

\* profileByAddress.get(recipient) ?? "__orphan__"
Owner(r, e) ==
  IF \E p \in found[r] : WalletOf[p] = RecipientOf[e]
  THEN CHOOSE p \in found[r] : WalletOf[p] = RecipientOf[e]
  ELSE Orphan

IsFirst(e, S) == e \in S /\ \A x \in S : e <= x
IsLast(e, S)  == e \in S /\ \A x \in S : x <= e

\* upsert by txHash, event after event: the first event of a hash creates the
\* row, every later one overwrites its recipient and its link.
Upserted(r, t) ==
  LET of    == {e \in Page(r) : TxOf[e] = t}
      first == CHOOSE e \in of : IsFirst(e, of)
      last  == CHOOSE e \in of : IsLast(e, of)
  IN IF of = {} THEN rows[t]
     ELSE [event |-> IF rows[t] = NoRow THEN first ELSE rows[t].event,
           recipient |-> RecipientOf[last],
           profile |-> Owner(r, last)]

\* nextPagingToken ?? lastEvent.pagingToken
NextCursor(r, last) == IF ReportsCursor THEN upTo[r] ELSE last

\* Fault seeded for the checks: the cursor is written in no transaction.
SavePageApart(r, last) ==
  /\ rows' = IF \A e \in Page(r) : Referable(Owner(r, e))
             THEN [t \in Tx |-> Upserted(r, t)] ELSE rows
  /\ cursor' = NextCursor(r, last)
  /\ Goto(r, "orphans")

\* The transaction commits the rows and the cursor, or, when a link refers to
\* no profile, neither; an error ends the tick.
SavePage(r, last) ==
  IF \A e \in Page(r) : Referable(Owner(r, e))
  THEN /\ rows' = [t \in Tx |-> Upserted(r, t)]
       /\ cursor' = NextCursor(r, last)
       /\ Goto(r, "orphans")
  ELSE /\ UNCHANGED <<rows, cursor>>
       /\ Goto(r, "idle")

Save(r) ==
  /\ stage[r] = "saving"
  /\ \E last \in Page(r) : IsLast(last, Page(r)) /\ SavePage(r, last)
  /\ ForgetPage(r)
  /\ UNCHANGED <<chainVars, profile, orphans, failures>>

-----------------------------------------------------------------------------
(* resolveOrphans, which a tick runs once its poll has succeeded.          *)

\* findMany ... take: some of the orphans, in no order.
ReadOrphans(r) ==
  /\ stage[r] = "orphans"
  /\ \E some \in SUBSET OrphanRows :
       /\ Cardinality(some) = IF Cardinality(OrphanRows) <= TakeLimit
                              THEN Cardinality(OrphanRows) ELSE TakeLimit
       /\ orphans' = [orphans EXCEPT ![r] = {rows[t].recipient : t \in some}]
       /\ Goto(r, IF some = {} THEN "idle" ELSE "matching")
  /\ UNCHANGED <<chainVars, cursor, rows, profile, from, upTo, found, failures>>

MatchOrphans(r) ==
  /\ stage[r] = "matching"
  /\ found' = [found EXCEPT ![r] = {p \in Live : WalletOf[p] \in orphans[r]}]
  /\ orphans' = [orphans EXCEPT ![r] = {}]
  /\ Goto(r, "linking")
  /\ UNCHANGED <<chainVars, cursor, rows, profile, from, upTo, failures>>

\* Faults seeded for the checks: the update forgets the recipient, or links nothing.
LinkAnyOrphan(p) ==
  rows' = [t \in Tx |-> IF t \in OrphanRows THEN [rows[t] EXCEPT !.profile = p] ELSE rows[t]]
LinkNothing(p) == UNCHANGED rows

\* updateMany where profileId = "__orphan__" and recipientAddress = the wallet.
LinkOrphans(p) ==
  rows' = [t \in Tx |-> IF t \in OrphanRows /\ rows[t].recipient = WalletOf[p]
                        THEN [rows[t] EXCEPT !.profile = p] ELSE rows[t]]

\* One updateMany; it throws, and the tick ends, when it would link a row to a
\* profile that is gone.
Link(r) ==
  /\ stage[r] = "linking"
  /\ \E p \in found[r] :
       IF p \in Live \/ \A t \in OrphanRows : rows[t].recipient # WalletOf[p]
       THEN /\ LinkOrphans(p)
            /\ found' = [found EXCEPT ![r] = @ \ {p}]
            /\ UNCHANGED stage
       ELSE /\ found' = [found EXCEPT ![r] = {}]
            /\ Goto(r, "idle")
            /\ UNCHANGED rows
  /\ UNCHANGED <<chainVars, cursor, profile, from, upTo, orphans, failures>>

EndTick(r) ==
  /\ stage[r] = "linking" /\ found[r] = {}
  /\ Goto(r, "idle")
  /\ UNCHANGED <<chainVars, cursor, rows, profile, from, upTo, found, orphans, failures>>

\* An RPC or database error, or the death of the process, cuts a tick short.
Fail(r) ==
  /\ stage[r] # "idle"
  /\ failures < MaxFailures
  /\ failures' = failures + 1
  /\ ForgetPage(r)
  /\ orphans' = [orphans EXCEPT ![r] = {}]
  /\ Goto(r, "idle")
  /\ UNCHANGED <<chainVars, cursor, rows, profile>>

Tick(r) ==
  \/ ReadCursor(r) \/ Fetch(r) \/ SkipPage(r) \/ Lookup(r) \/ Save(r)
  \/ ReadOrphans(r) \/ MatchOrphans(r) \/ Link(r) \/ EndTick(r)

IndexerNext ==
  \/ Emit
  \/ \E p \in Profile : Register(p) \/ Unregister(p)
  \/ \E r \in Replica : Tick(r) \/ Fail(r)

IndexerSpec == IndexerInit /\ [][IndexerNext]_indexerVars

\* tick always schedules the next tick; every request ends.
FairIndexerSpec == IndexerSpec /\ \A r \in Replica : WF_indexerVars(Tick(r))

-----------------------------------------------------------------------------
(* Properties.                                                             *)

\* The cursor never passes an event that was not stored: every decodable event
\* from where the first poll started to the cursor has a row that carries it,
\* with replicas overlapping, cursors moving back (143-151, 217) and ticks
\* failing between any two awaits.
KeptUpToCursor ==
  origin # NoCursor =>
    \A e \in Decodable : origin < e /\ e <= cursor =>
      rows[TxOf[e]] # NoRow /\ rows[TxOf[e]].event = e

\* A linked row belongs to the profile whose wallet received the payment,
\* whichever of a page's lookup (158-169) and a later resolution (254-262),
\* by whichever replica, linked it.
LinkedToWallet ==
  \A t \in Tx : rows[t] # NoRow /\ rows[t].profile # Orphan =>
    /\ WalletOf[rows[t].profile] = rows[t].recipient
    /\ profile[rows[t].profile] = "live"

\* event-indexer.ts:4: the backend "stays in sync with on-chain state": every
\* decodable event on the chain is eventually stored.
EventuallyIngested ==
  \A e \in Event :
    (origin # NoCursor /\ origin < e /\ e <= emitted /\ e \in Decodable)
      ~> (rows[TxOf[e]] # NoRow)

\* event-indexer.ts:16: "eventually consistent with the profile registry": an
\* orphan whose recipient has a profile is eventually linked to it.
EventuallyLinked ==
  \A t \in Tx, p \in Profile :
    (t \in OrphanRows /\ rows[t].recipient = WalletOf[p] /\ p \in Live)
      ~> (t \notin OrphanRows \/ p \notin Live)
=============================================================================
