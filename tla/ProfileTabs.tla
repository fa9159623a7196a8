----------------------------- MODULE ProfileTabs -----------------------------
(***************************************************************************)
(* The history and the badges of a profile (components/profile-tabs.tsx):  *)
(* a search box whose text is taken over after a pause, and an effect that *)
(* asks again whenever the tab or that text changes.  The rows of an       *)
(* answer are abstracted to the text they were searched for.               *)
(***************************************************************************)
EXTENDS Naturals

CONSTANTS
  Texts,  \* what may be typed
  Empty,  \* the empty box
  None    \* no timer; no rows

TabsAssumption == Empty \notin Texts /\ None \notin Texts \cup {Empty}

Queries == Texts \cup {Empty}
Tabs    == {"history", "badges"}

VARIABLES
  activeTab,
  search, debouncedSearch,
  debounce,      \* debounceRef: the text the timer will take over
  transactions,  \* the text whose rows are shown
  tabLoading,    \* loading of the history, badgesLoading of the badges
  tabReqs        \* the requests under way: tab, text, and whether it is aborted

tabVars == <<activeTab, search, debouncedSearch, debounce, transactions, tabLoading, tabReqs>>

TabReq == [tab : Tabs, text : Queries, stale : BOOLEAN]

TypeOK ==
  /\ activeTab \in Tabs /\ search \in Queries /\ debouncedSearch \in Queries
  /\ debounce \in Queries \cup {None} /\ transactions \in Queries \cup {None}
  /\ tabLoading \in [Tabs -> BOOLEAN] /\ tabReqs \subseteq TabReq

\* The profile is opened; its address may name the badges.
Init ==
  /\ activeTab \in Tabs
  /\ search = Empty /\ debouncedSearch = Empty /\ debounce = None
  /\ transactions = None
  /\ tabLoading = [t \in Tabs |-> t = activeTab]
  /\ tabReqs = {[tab |-> activeTab, text |-> Empty, stale |-> FALSE]}

-----------------------------------------------------------------------------
\* The effect of a tab and a text: the last request is aborted, a new one made.
Fetch(tab, text) ==
  IF tab = activeTab /\ text = debouncedSearch THEN UNCHANGED <<tabLoading, tabReqs>>
  ELSE /\ tabReqs' = {[r EXCEPT !.stale = TRUE] : r \in tabReqs}
                     \cup {[tab |-> tab, text |-> text, stale |-> FALSE]}
       /\ tabLoading' = [tabLoading EXCEPT ![tab] = TRUE]

\* A tab's button, or another hash in the address.
HandleTabChange(tab) ==
  /\ tab # activeTab /\ activeTab' = tab /\ Fetch(tab, debouncedSearch)
  /\ UNCHANGED <<search, debouncedSearch, debounce, transactions>>

\* handleSearchChange: the timer is started anew.
HandleSearchChange(text) ==
  /\ activeTab = "history" /\ text # search
  /\ search' = text /\ debounce' = text
  /\ UNCHANGED <<activeTab, debouncedSearch, transactions, tabLoading, tabReqs>>

DebounceFires ==
  /\ debounce # None /\ debounce' = None
  /\ debouncedSearch' = debounce /\ Fetch(activeTab, debounce)
  /\ UNCHANGED <<activeTab, search, transactions>>

\* The cross in the box, or "Clear filters", which is offered for a range of dates
\* too: a timer that is running goes on, and takes the cleared text over in the end.
ClearSearch ==
  /\ activeTab = "history"
  /\ search' = Empty /\ debouncedSearch' = Empty /\ Fetch(activeTab, Empty)
  /\ UNCHANGED <<activeTab, debounce, transactions>>

\* Fault seeded for the checks: the answer does not ask whether it is stale.
TakeAny(r, rows) ==
  /\ transactions' = IF r.tab = "history" THEN rows ELSE transactions
  /\ tabLoading' = [tabLoading EXCEPT ![r.tab] = FALSE]
\* What becomes of an answer: a stale one changes nothing.
Take(r, rows) ==
  IF r.stale THEN UNCHANGED <<transactions, tabLoading>>
  ELSE /\ transactions' = IF r.tab = "history" THEN rows ELSE transactions
       /\ tabLoading' = [tabLoading EXCEPT ![r.tab] = FALSE]

\* GET .../transactions?q=: the rows that match, or an error, whose body has none.
TransactionsOf(text) == {text, None}

\* An answer of either tab; a request that fails leaves the rows of the last one.
TabAnswered(r) ==
  /\ r \in tabReqs /\ tabReqs' = tabReqs \ {r}
  /\ \E rows \in TransactionsOf(r.text) \cup {transactions} : Take(r, rows)
  /\ UNCHANGED <<activeTab, search, debouncedSearch, debounce>>

Next ==
  \/ DebounceFires \/ ClearSearch
  \/ \E t \in Tabs : HandleTabChange(t)
  \/ \E text \in Queries : HandleSearchChange(text)
  \/ \E r \in TabReq : TabAnswered(r)

Spec == Init /\ [][Next]_tabVars

-----------------------------------------------------------------------------
(* Properties.                                                              *)

\* "A slower earlier response can never overwrite the results of a newer one"
\* (profile-tabs.tsx 151-152): rows only change to those of the current text.
RowsAreAnswers == [][transactions' # transactions =>
                       transactions' \in {debouncedSearch, None}]_tabVars

\* The spinner of the tab on the screen stands for a request that will stop it.
TabBusy ==
  tabLoading[activeTab] => \E r \in tabReqs : ~r.stale /\ r.tab = activeTab
=============================================================================
