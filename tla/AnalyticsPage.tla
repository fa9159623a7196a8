---------------------------- MODULE AnalyticsPage ----------------------------
(***************************************************************************)
(* The analytics of one profile (app/dashboard/[username]/page.tsx) with   *)
(* the endpoints it reads.  The page is anybody's to open; what only the   *)
(* owner may see depends on the wallet in localStorage, which this tab's   *)
(* wallet button and other tabs change, and which the page copies when it  *)
(* is told of a change.                                                    *)
(***************************************************************************)
EXTENDS Naturals, FiniteSets

CONSTANTS
  Viewers,  \* wallets
  Owner,    \* the wallet of the profile
  Periods,  \* the ranges of the chart
  None      \* no wallet, no chart

AnalyticsAssumption == Owner \in Viewers /\ None \notin Viewers \cup Periods

VARIABLES
  session,          \* the wallet of the session cookie
  wallet,           \* localStorage: walletAddress
  told,             \* a storage event of another tab is on its way
  connectedWallet,  \* the page's copy of wallet
  button,           \* the address the wallet button of this tab shows
  data,             \* loading, ready, or failed (error is set)
  settings,         \* the profile's settings have been kept
  selectedPeriod, chart, chartLoading,
  chartReqs,        \* chart requests under way: period, and whether its effect was cleaned up
  dripsLoading,
  dripReqs,         \* requests for the recurring supports: whether cleaned up
  csvLoading        \* the flag that disables the download

analyticsVars == <<session, wallet, told, connectedWallet, button, data, settings,
                   selectedPeriod, chart, chartLoading, chartReqs, dripsLoading, dripReqs, csvLoading>>

Holders == Viewers \cup {None}

TypeOK ==
  /\ session \in Holders /\ wallet \in Holders /\ told \in BOOLEAN
  /\ connectedWallet \in Holders /\ button \in Holders
  /\ data \in {"loading", "ready", "failed"} /\ settings \in BOOLEAN
  /\ selectedPeriod \in Periods /\ chart \in Periods \cup {None} /\ chartLoading \in BOOLEAN
  /\ chartReqs \subseteq Periods \X BOOLEAN
  /\ dripsLoading \in BOOLEAN /\ dripReqs \subseteq BOOLEAN
  /\ csvLoading \in BOOLEAN

\* The effects of the first render have run.
Init ==
  /\ session \in Holders /\ wallet \in Holders /\ told = FALSE
  /\ connectedWallet = wallet /\ button = wallet
  /\ data = "loading" /\ settings = FALSE
  /\ selectedPeriod \in Periods /\ chart = None /\ chartLoading = TRUE
  /\ chartReqs = {<<selectedPeriod, FALSE>>}
  /\ dripsLoading = FALSE /\ dripReqs = {} /\ csvLoading = FALSE

walletSide == <<session, wallet, told, connectedWallet>>
chartSide  == <<selectedPeriod, chart, chartLoading, chartReqs>>
dripSide   == <<dripsLoading, dripReqs>>

\* The page is a tree of its own while it loads, when it failed and when it is
\* ready: changing between them mounts the wallet button anew, which reads the
\* stored address.
Rendering == button' = IF data' = data THEN button ELSE wallet

-----------------------------------------------------------------------------
(* Ownership.                                                               *)

\* The profile's wallet is known once the settings are there.
IsOwner == settings /\ connectedWallet = Owner

\* The drips' effect runs again when isOwner changes: the last request is
\* disowned, and the owner's is made.
OwnerEffect ==
  IF IsOwner' = IsOwner THEN UNCHANGED dripSide
  ELSE /\ dripReqs' = {TRUE : r \in dripReqs} \cup (IF IsOwner' THEN {FALSE} ELSE {})
       /\ dripsLoading' = IsOwner'

\* GET /analytics/:username answers its owner only, and may fail.
AnalyticsAnswers == {FALSE, session = Owner}

\* fetchData: neither the analytics nor the profile, which is anybody's, is kept
\* without the other; the assets may still fail.  (GET /profiles/:username
\* selects no e-mail, so the settings offer neither the verification banner nor
\* the notification switch.)
DataLoaded ==
  /\ data = "loading"
  /\ settings' \in AnalyticsAnswers
  /\ data' \in (IF settings' THEN {"ready", "failed"} ELSE {"failed"})
  /\ Rendering
  /\ UNCHANGED <<walletSide, chartSide, csvLoading>>
  /\ OwnerEffect

Sync(w) == connectedWallet' = w /\ UNCHANGED settings /\ OwnerEffect

\* connectWallet: stored first, announced then.
ConnectWallet(w) ==
  /\ button = None /\ button' = w /\ wallet' = w /\ Sync(w)
  /\ UNCHANGED <<session, told, data, chartSide, csvLoading>>

\* Fault seeded for the checks: announced before the address is removed.
DisconnectLate == wallet' = None /\ Sync(wallet)
\* disconnectWallet: removed first, announced then.
DisconnectFirst == wallet' = None /\ Sync(None)

DisconnectWallet ==
  /\ button # None /\ button' = None /\ DisconnectFirst
  /\ UNCHANGED <<session, told, data, chartSide, csvLoading>>

\* Another tab connects or disconnects; the storage event comes later.
OtherTab(w) ==
  /\ w # wallet /\ wallet' = w /\ told' = TRUE
  /\ UNCHANGED <<session, connectedWallet, button, data, settings, chartSide, dripSide, csvLoading>>

StorageEvent ==
  /\ told /\ told' = FALSE /\ Sync(wallet)
  /\ UNCHANGED <<session, wallet, button, data, chartSide, csvLoading>>

-----------------------------------------------------------------------------
(* The chart.                                                               *)

\* Another range: the effect of the last one is cleaned up, and the new one asks.
SelectPeriod(p) ==
  /\ data = "ready" /\ p # selectedPeriod
  /\ selectedPeriod' = p /\ chartLoading' = TRUE
  /\ chartReqs' = {<<r[1], TRUE>> : r \in chartReqs} \cup {<<p, FALSE>>}
  /\ UNCHANGED <<walletSide, button, data, settings, chart, dripSide, csvLoading>>

\* What becomes of an answer.
ShowOwn(r, answer) ==
  IF r[2] THEN UNCHANGED <<chart, chartLoading>>
  ELSE chart' = answer /\ chartLoading' = FALSE

\* GET .../analytics/timeseries: the days from the range's first on, or an error,
\* which empties the chart.
Timeseries(period) == {period, None}

ChartAnswered(r) ==
  /\ r \in chartReqs /\ chartReqs' = chartReqs \ {r}
  /\ \E answer \in Timeseries(r[1]) : ShowOwn(r, answer)
  /\ UNCHANGED <<walletSide, button, data, settings, selectedPeriod, dripSide, csvLoading>>

-----------------------------------------------------------------------------
(* What only the owner sees.                                                *)

\* GET /v1/recurring-support?profileId=<username>: no profile has that id, so
\* the list is empty whatever the answer; the spinner stops.
DripsAnswered(cancelled) ==
  /\ cancelled \in dripReqs /\ dripReqs' = dripReqs \ {cancelled}
  /\ dripsLoading' = (dripsLoading /\ cancelled)
  /\ UNCHANGED <<walletSide, button, data, settings, chartSide, csvLoading>>

\* handleDownloadCsv, the owner's; the button is disabled while it runs.
DownloadCsv ==
  /\ data = "ready" /\ IsOwner /\ ~csvLoading /\ csvLoading' = TRUE
  /\ UNCHANGED <<walletSide, button, data, settings, chartSide, dripSide>>

\* A download that fails sets error, and the whole page is gone for good.
CsvAnswered ==
  /\ csvLoading /\ csvLoading' = FALSE
  /\ data' \in {data, "failed"}
  /\ Rendering
  /\ UNCHANGED <<walletSide, settings, chartSide, dripSide>>

-----------------------------------------------------------------------------
(* What is rendered.                                                        *)

\* The card of the chart: bars that pulse, "No earnings data yet", or the days.
ShownChart == IF chartLoading THEN "skeleton" ELSE chart

\* The owner's sections: the download, the settings, the recurring supports.
OwnerSections == data = "ready" /\ IsOwner

-----------------------------------------------------------------------------
Next ==
  \/ DataLoaded \/ DisconnectWallet \/ StorageEvent
  \/ \E w \in Viewers : ConnectWallet(w)
  \/ \E w \in Holders : OtherTab(w)
  \/ \E p \in Periods : SelectPeriod(p)
  \/ \E r \in Periods \X BOOLEAN : ChartAnswered(r)
  \/ \E c \in BOOLEAN : DripsAnswered(c)
  \/ DownloadCsv \/ CsvAnswered

Spec == Init /\ [][Next]_analyticsVars

-----------------------------------------------------------------------------
(* Properties.                                                              *)

\* What the page shows is current.  The chart without a spinner is that of the
\* selected range, or empty after an error, in whatever order the answers come
\* (page.tsx 317-353); and the page takes for the visitor's wallet the one that
\* is stored, and shows the owner's sections to nobody else, unless another
\* tab's storage event is still to come (355-378, 456-503).
ShownIsCurrent ==
  /\ ShownChart \in {selectedPeriod, None, "skeleton"}
  /\ connectedWallet = wallet \/ told
  /\ OwnerSections => wallet = Owner \/ told
  /\ dripsLoading => FALSE \in dripReqs
=============================================================================
