------------------------------ MODULE Frontend ------------------------------
(***************************************************************************)
(* A tab of the browser with one view of the application open in it.       *)
(*                                                                         *)
(* A view keeps its state in its own components, and the router unmounts   *)
(* it: what it holds is dropped, its requests are aborted or their answers *)
(* ignored.  What outlives a view is localStorage and the database, which  *)
(* the initial states of every view choose freely, so one view in a tab is *)
(* every view in turn.                                                     *)
(***************************************************************************)
EXTENDS Naturals, FiniteSets, Sequences

CONSTANTS
  Views,  \* the views that may be open
  None, Empty,
  Wallets, XLM, OtherAssets, Covers, Accepted, Amounts, Notes, Testnet, Unfunded,
  MaxSends, MaxConnects, MaxTicks, MaxAttempts,
  MaxGoals, Titles, MaxRequests,
  MaxHooks, HookCap, MaxHookRequests,
  Viewers, Owner, Periods,
  SortFilters, AssetFilters, FullPages,
  Texts,
  Usernames, Malformed, Presets, KnownIssuers, SameOrigin

VARIABLES
  view,
  stored, shell, visitor, connects, form, loads, balance, balances, sending,
  jobs, txs, seqNo, recurring, hash, receipt, status, done, ticks, checks,
  finalizing,
  goalRows, goalsMade, goalsView, milestones, goalForm, submitting, goalReqs,
  excused,
  hookRows, hooksMade, webhooks, hookForm, webhookSubmitting, newSecret,
  expanded, deliveriesLoading, deliveries, hookReqs,
  session, wallet, told, connectedWallet, button, data, settings,
  selectedPeriod, chart, chartLoading, chartReqs, dripsLoading, dripReqs,
  csvLoading,
  filter, options, profiles, offset, hasMore, exploreLoading, exploreError,
  pageReqs, failedPages,
  activeTab, search, debouncedSearch, debounce, transactions, tabLoading,
  tabReqs,
  searchQuery, searchResults, showDropdown, isSearching, searchTimer, lookups,
  broken,
  step, displayName, username, walletAddress, assets, issuers, email, usernameError,
  emailError, loading, rateLimited, post, redirects, left, profileRows, signedIn

panelVars     == <<stored, shell, visitor, connects, form, loads, balance, balances,
                   sending, jobs, txs, seqNo, recurring, hash, receipt, status,
                   done, ticks, checks, finalizing>>
goalVars      == <<goalRows, goalsMade, goalsView, milestones, goalForm, submitting,
                   goalReqs, excused>>
hookVars      == <<hookRows, hooksMade, webhooks, hookForm, webhookSubmitting,
                   newSecret, expanded, deliveriesLoading, deliveries, hookReqs>>
analyticsVars == <<session, wallet, told, connectedWallet, button, data, settings,
                   selectedPeriod, chart, chartLoading, chartReqs, dripsLoading,
                   dripReqs, csvLoading>>
exploreVars   == <<filter, options, profiles, offset, hasMore, exploreLoading,
                   exploreError, pageReqs, failedPages>>
historyVars   == <<activeTab, search, debouncedSearch, debounce, transactions,
                   tabLoading, tabReqs>>
headerVars    == <<searchQuery, searchResults, showDropdown, isSearching,
                   searchTimer, lookups, broken>>
createVars    == <<step, displayName, username, walletAddress, assets, issuers, email,
                   usernameError, emailError, loading, rateLimited, post, redirects,
                   left, profileRows, signedIn>>

Panel     == INSTANCE SupportPanel   \* on a profile
Goals     == INSTANCE GoalsPage      \* on the dashboard
Hooks     == INSTANCE HooksPage      \* on the dashboard
Analytics == INSTANCE AnalyticsPage
Explore   == INSTANCE ExplorePage
History   == INSTANCE ProfileTabs    \* on a profile
Header    == INSTANCE HeaderSearch   \* on every page
Creation  == INSTANCE CreatePage

ASSUME FrontendAssumption ==
  /\ Views \subseteq {"panel", "goals", "hooks", "analytics", "explore", "history", "header",
                 "create"}
  /\ Panel!PanelAssumption /\ Goals!GoalsAssumption /\ Hooks!HooksAssumption
  /\ Analytics!AnalyticsAssumption /\ Explore!ExploreAssumption
  /\ History!TabsAssumption /\ Header!SearchAssumption
  /\ Creation!CreateAssumption

vars == <<view, panelVars, goalVars, hookVars, analyticsVars,
          exploreVars, historyVars, headerVars, createVars>>

TypeOK ==
  /\ view \in Views
  /\ view = "panel"     => Panel!TypeOK
  /\ view = "goals"     => Goals!TypeOK
  /\ view = "hooks"     => Hooks!TypeOK
  /\ view = "analytics" => Analytics!TypeOK
  /\ view = "explore"   => Explore!TypeOK
  /\ view = "history"   => History!TypeOK
  /\ view = "header"    => Header!TypeOK
  /\ view = "create"    => Creation!TypeOK

-----------------------------------------------------------------------------
\* A view that is not open stays in one of its initial states.
Closed(v) == view # v

Init ==
  /\ view \in Views
  /\ Panel!Init /\ (Closed("panel") => stored = None)
  /\ Goals!Init /\ (Closed("goals") => goalsMade = 0)
  /\ Hooks!Init /\ (Closed("hooks") => hooksMade = 0)
  /\ Analytics!Init
  /\ Closed("analytics") => /\ session = None /\ wallet = None
                            /\ selectedPeriod = CHOOSE p \in Periods : TRUE
  /\ Explore!Init /\ (Closed("explore") => filter = CHOOSE f \in SortFilters : TRUE)
  /\ History!Init /\ (Closed("history") => activeTab = "history")
  /\ Header!Init
  /\ Creation!Init
  /\ Closed("create") => profileRows = {} /\ signedIn = None

PanelStep == view = "panel" /\ Panel!Next /\ UNCHANGED
  <<view, goalVars, hookVars, analyticsVars,
    exploreVars, historyVars, headerVars, createVars>>
GoalsStep == view = "goals" /\ Goals!Next /\ UNCHANGED
  <<view, panelVars, hookVars, analyticsVars,
    exploreVars, historyVars, headerVars, createVars>>
HooksStep == view = "hooks" /\ Hooks!Next /\ UNCHANGED
  <<view, panelVars, goalVars, analyticsVars,
    exploreVars, historyVars, headerVars, createVars>>
AnalyticsStep == view = "analytics" /\ Analytics!Next /\ UNCHANGED
  <<view, panelVars, goalVars, hookVars,
    exploreVars, historyVars, headerVars, createVars>>
ExploreStep == view = "explore" /\ Explore!Next /\ UNCHANGED
  <<view, panelVars, goalVars, hookVars, analyticsVars,
    historyVars, headerVars, createVars>>
HistoryStep == view = "history" /\ History!Next /\ UNCHANGED
  <<view, panelVars, goalVars, hookVars, analyticsVars,
    exploreVars, headerVars, createVars>>
HeaderStep == view = "header" /\ Header!Next /\ UNCHANGED
  <<view, panelVars, goalVars, hookVars, analyticsVars,
    exploreVars, historyVars, createVars>>

CreateStep == view = "create" /\ Creation!Next /\ UNCHANGED
  <<view, panelVars, goalVars, hookVars, analyticsVars,
    exploreVars, historyVars, headerVars>>

Next ==
  \/ PanelStep \/ GoalsStep \/ HooksStep \/ AnalyticsStep
  \/ ExploreStep \/ HistoryStep \/ HeaderStep \/ CreateStep

\* The browser runs the timers of the payment's dialog; nothing is assumed of
\* the visitor, the wallet, the network or the servers.
Spec ==
  /\ Init /\ [][Next]_vars
  /\ WF_panelVars(view = "panel" /\ Panel!Tick)
  /\ WF_panelVars(view = "panel" /\ Panel!Finalize)

-----------------------------------------------------------------------------
(* Properties: those of the views, each stated where its view is modelled.  *)

\* The dialog reports the amount and message the ledger holds (support-panel 233-271).
ReportedIsPaid == Panel!ReportedIsPaid
\* A payment shown as confirmed is never shown as failed (transaction-result-modal 105-120).
VerdictStands == Panel!VerdictStands
\* The dialog comes to a verdict (transaction-result-modal 105-120).
VerdictComes == Panel!VerdictComes
\* The dashboard's goals are those of the database, but for those an answer put back,
\* written twice with no answer between, or whose answer was lost (dashboard/page.tsx
\* 299-345).
ListIsRight == Goals!ListIsRight
\* What the page says of the chart and of the wallet is current
\* (dashboard/[username]/page.tsx 317-378).
ShownIsCurrent == Analytics!ShownIsCurrent
\* The list of creators is of one choice, in order, without holes (explore/page.tsx 87-141).
PagesInOrder == Explore!PagesInOrder
\* A late answer never replaces the rows of a newer search (profile-tabs.tsx 151-152).
RowsAreAnswers == History!RowsAreAnswers
\* A spinner and a disabled button stand for a request that will end them: of a
\* webhook (dashboard/page.tsx 359-424), a tab (profile-tabs.tsx 154-262), the
\* header's search (app-shell.tsx 58-117) and the making of a profile, whose steps
\* are complete (create/page.tsx 80-281).
BusyMeansUnderWay ==
  /\ Hooks!BusyMeansUnderWay /\ History!TabBusy /\ Header!SearchBusy
  /\ Creation!CreateBusy
\* The open view's state is well-formed, its spinners' included.
Inv == TypeOK /\ BusyMeansUnderWay
=============================================================================
