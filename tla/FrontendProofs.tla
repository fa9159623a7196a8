--------------------------- MODULE FrontendProofs ---------------------------
(***************************************************************************)
(* Of Frontend, for any lists, texts, wallets and bounds.  A step is one   *)
(* of the open view, and leaves the variables of the others as they are:   *)
(* so each view has an inductive invariant of its own, which holds whether *)
(* it is open or not.                                                      *)
(*                                                                         *)
(* What they have in common is a request that is under way: whose it is,   *)
(* what its handler closed over, and that the flag on the screen is its.   *)
(***************************************************************************)
EXTENDS Frontend, TLAPS

\* A step of the tab is a step of each view, or leaves that view alone.
LEMMA EachView ==
  ASSUME [Next]_vars
  PROVE  /\ view' = view
         /\ [Panel!Next]_panelVars /\ [Goals!Next]_goalVars /\ [Hooks!Next]_hookVars
         /\ [Analytics!Next]_analyticsVars /\ [Explore!Next]_exploreVars
         /\ [History!Next]_historyVars /\ [Header!Next]_headerVars
         /\ [Creation!Next]_createVars
<1>1. CASE UNCHANGED vars
  BY <1>1 DEF vars
<1>2. CASE PanelStep \/ GoalsStep \/ HooksStep \/ AnalyticsStep
  BY <1>2 DEF PanelStep, GoalsStep, HooksStep, AnalyticsStep
<1>3. CASE ExploreStep \/ HistoryStep \/ HeaderStep \/ CreateStep
  BY <1>3 DEF ExploreStep, HistoryStep, HeaderStep, CreateStep
<1> QED BY <1>1, <1>2, <1>3 DEF Next

-----------------------------------------------------------------------------
(* The header's search.                                                    *)

\* The timer runs for a text, never for the empty box.
HeaderInv ==
  /\ Header!TypeOK /\ Header!SearchBusy
  /\ searchTimer => searchQuery # Empty

LEMMA HeaderStarts ==
  ASSUME Header!Init PROVE HeaderInv
BY DEF Header!Init, HeaderInv, Header!TypeOK, Header!SearchBusy

LEMMA HeaderKept ==
  ASSUME HeaderInv, [Header!Next]_headerVars
  PROVE  HeaderInv'
<1> USE DEF HeaderInv, Header!TypeOK, Header!SearchBusy
<1>1. CASE UNCHANGED headerVars
  BY <1>1 DEF headerVars
<1>2. CASE Header!SearchTimer
  BY <1>2 DEF Header!SearchTimer
<1>3. CASE Header!CloseDropdown
  BY <1>3 DEF Header!CloseDropdown
<1>4. ASSUME NEW text \in Texts \cup {Empty}, Header!Type(text)
      PROVE  HeaderInv'
  BY <1>4 DEF Header!Type, Header!Abort
<1>5. ASSUME NEW text \in Texts, Header!SearchAnswered(text)
      PROVE  HeaderInv'
  BY <1>5 DEF Header!SearchAnswered, Header!FoundFor, Header!Rendered
<1>6. ASSUME NEW text \in Texts, Header!SearchFailed(text)
      PROVE  HeaderInv'
  BY <1>6 DEF Header!SearchFailed
<1> QED BY <1>1, <1>2, <1>3, <1>4, <1>5, <1>6 DEF Header!Next

-----------------------------------------------------------------------------
(* The tabs of a profile.                                                  *)

\* The one request whose answer is taken is for the tab and the text on the screen.
OneFetch ==
  \A r \in tabReqs : ~r.stale => r.tab = activeTab /\ r.text = debouncedSearch

HistoryInv == History!TypeOK /\ History!TabBusy /\ OneFetch

LEMMA HistoryStarts ==
  ASSUME History!Init PROVE HistoryInv
BY DEF History!Init, HistoryInv, History!TypeOK, History!TabBusy, OneFetch,
       History!Tabs, History!Queries, History!TabReq

\* The effect leaves one request that is not stale, for the new tab and text.
LEMMA FetchIsOne ==
  ASSUME HistoryInv, NEW tab \in History!Tabs, NEW text \in History!Queries,
         activeTab' = tab, debouncedSearch' = text, History!Fetch(tab, text)
  PROVE  /\ tabLoading' \in [History!Tabs -> BOOLEAN] /\ tabReqs' \subseteq History!TabReq
         /\ OneFetch' /\ History!TabBusy'
<1>1. CASE tab = activeTab /\ text = debouncedSearch
  BY <1>1 DEF History!Fetch, HistoryInv, History!TypeOK, OneFetch, History!TabBusy
<1>2. CASE ~(tab = activeTab /\ text = debouncedSearch)
  <2> DEFINE new == [tab |-> tab, text |-> text, stale |-> FALSE]
  <2>1. /\ tabReqs' = {[r EXCEPT !.stale = TRUE] : r \in tabReqs} \cup {new}
        /\ tabLoading' = [tabLoading EXCEPT ![tab] = TRUE]
    BY <1>2 DEF History!Fetch
  <2>2. new \in History!TabReq /\ ~new.stale /\ new.tab = tab /\ new.text = text
    BY DEF History!TabReq
  <2>3. \A r \in tabReqs : /\ [r EXCEPT !.stale = TRUE] \in History!TabReq
                           /\ [r EXCEPT !.stale = TRUE].stale
    BY DEF HistoryInv, History!TypeOK, History!TabReq
  <2> HIDE DEF new
  <2>4. tabReqs' \subseteq History!TabReq /\ OneFetch'
    BY <2>1, <2>2, <2>3 DEF OneFetch
  <2>5. new \in tabReqs'
    BY <2>1
  <2>6. History!TabBusy'
    BY <2>2, <2>5 DEF History!TabBusy
  <2> QED BY <2>1, <2>4, <2>6 DEF HistoryInv, History!TypeOK
<1> QED BY <1>1, <1>2

LEMMA HistoryKept ==
  ASSUME HistoryInv, [History!Next]_historyVars
  PROVE  /\ HistoryInv'
         /\ transactions' # transactions => transactions' \in {debouncedSearch, None}
<1>0. History!TypeOK /\ History!TabBusy /\ OneFetch
  BY DEF HistoryInv
<1>1. CASE UNCHANGED historyVars
  BY <1>1 DEF historyVars, HistoryInv, History!TypeOK, History!TabBusy, OneFetch
<1>2. CASE History!DebounceFires
  <2>1. debounce \in History!Queries /\ activeTab \in History!Tabs
    BY <1>0, <1>2 DEF History!DebounceFires, History!TypeOK
  <2>2. History!TypeOK' /\ History!TabBusy' /\ OneFetch'
    BY <1>0, <1>2, <2>1, FetchIsOne DEF History!DebounceFires, History!TypeOK
  <2> QED BY <1>2, <2>2 DEF HistoryInv, History!DebounceFires
<1>3. CASE History!ClearSearch
  <2>1. Empty \in History!Queries /\ activeTab \in History!Tabs
    BY <1>0 DEF History!TypeOK, History!Queries
  <2>2. History!TypeOK' /\ History!TabBusy' /\ OneFetch'
    BY <1>0, <1>3, <2>1, FetchIsOne DEF History!ClearSearch, History!TypeOK
  <2> QED BY <1>3, <2>2 DEF HistoryInv, History!ClearSearch
<1>4. ASSUME NEW t \in History!Tabs, History!HandleTabChange(t)
      PROVE  HistoryInv' /\ UNCHANGED transactions
  <2>1. History!TypeOK' /\ History!TabBusy' /\ OneFetch'
    BY <1>0, <1>4, FetchIsOne DEF History!HandleTabChange, History!TypeOK
  <2> QED BY <1>4, <2>1 DEF HistoryInv, History!HandleTabChange
<1>5. ASSUME NEW text \in History!Queries, History!HandleSearchChange(text)
      PROVE  HistoryInv' /\ UNCHANGED transactions
  BY <1>0, <1>5 DEF HistoryInv, History!HandleSearchChange, History!TypeOK, OneFetch,
                    History!TabBusy
<1>6. ASSUME NEW r \in History!TabReq, History!TabAnswered(r)
      PROVE  /\ HistoryInv'
             /\ transactions' # transactions => transactions' \in {debouncedSearch, None}
  <2>1. r.tab \in History!Tabs /\ r.text \in History!Queries
    BY DEF History!TabReq
  <2>2. PICK rows \in History!TransactionsOf(r.text) \cup {transactions} : History!Take(r, rows)
    BY <1>6 DEF History!TabAnswered
  <2>3. rows \in {r.text, None, transactions}
    BY <2>2 DEF History!TransactionsOf
  <2>4. tabReqs' = tabReqs \ {r} /\ r \in tabReqs
        /\ UNCHANGED <<activeTab, search, debouncedSearch, debounce>>
    BY <1>6 DEF History!TabAnswered
  <2>5. CASE r.stale
    BY <1>0, <2>2, <2>4, <2>5 DEF HistoryInv, History!Take, History!TypeOK, OneFetch,
                                  History!TabBusy
  <2>6. CASE ~r.stale
    <3>1. r.tab = activeTab /\ r.text = debouncedSearch
      BY <1>0, <2>4, <2>6 DEF OneFetch
    <3>2. tabLoading' = [tabLoading EXCEPT ![activeTab] = FALSE]
          /\ transactions' \in {rows, transactions}
      BY <2>2, <2>6, <3>1 DEF History!Take
    <3>3. ~tabLoading'[activeTab'] /\ tabLoading' \in [History!Tabs -> BOOLEAN]
      BY <1>0, <2>4, <3>2 DEF History!TypeOK
    <3>4. History!TypeOK' /\ OneFetch'
      BY <1>0, <2>1, <2>3, <2>4, <3>2, <3>3 DEF History!TypeOK, OneFetch
    <3> QED BY <2>3, <3>1, <3>2, <3>3, <3>4 DEF HistoryInv, History!TabBusy
  <2> QED BY <2>5, <2>6
<1> QED BY <1>1, <1>2, <1>3, <1>4, <1>5, <1>6 DEF History!Next

-----------------------------------------------------------------------------
(* The webhooks of the dashboard.                                          *)

HookReq == [pc : {"free", "sent", "done"}, kind : {"none", "add", "delete", "deliveries"},
            hook : Hooks!Hooks \cup {0}, seen : SUBSET Hooks!Hooks]

\* An answer that is ok names a webhook.
HooksInv ==
  /\ Hooks!TypeOK /\ Hooks!BusyMeansUnderWay
  /\ \A q \in Hooks!HookSlots : hookReqs[q].pc = "done" => hookReqs[q].hook \in Hooks!Hooks

LEMMA HooksStarts ==
  ASSUME Hooks!Init PROVE HooksInv
<1>1. MaxHooks \in Nat /\ MaxHookRequests \in Nat \ {0}
  BY FrontendAssumption DEF FrontendAssumption, Hooks!HooksAssumption
<1>2. hooksMade \in 0 .. MaxHooks /\ hookRows \subseteq Hooks!Hooks
  BY <1>1 DEF Hooks!Init, Hooks!Hooks
<1>3. hookReqs \in [Hooks!HookSlots -> HookReq]
  BY DEF Hooks!Init, Hooks!NoHookReq, HookReq
<1>4. \A q \in Hooks!HookSlots : hookReqs[q].pc = "free"
  BY DEF Hooks!Init, Hooks!NoHookReq
<1> QED BY <1>2, <1>3, <1>4 DEF Hooks!Init, HooksInv, Hooks!TypeOK, Hooks!BusyMeansUnderWay, HookReq

\* A request that is made, answered or over.
LEMMA HookMade ==
  ASSUME HooksInv, NEW q \in Hooks!HookSlots, NEW kind \in {"add", "delete", "deliveries"},
         NEW h \in Hooks!Hooks \cup {0}, Hooks!HookRequest(q, kind, h)
  PROVE  /\ hookReqs' \in [Hooks!HookSlots -> HookReq]
         /\ hookReqs[q].pc = "free" /\ hookReqs'[q].pc = "sent"
         /\ hookReqs'[q].kind = kind /\ hookReqs'[q].hook = h
         /\ \A p \in Hooks!HookSlots \ {q} : hookReqs'[p] = hookReqs[p]
BY DEF HooksInv, Hooks!TypeOK, Hooks!HookRequest, HookReq

LEMMA HookDone ==
  ASSUME HooksInv, NEW q \in Hooks!HookSlots, NEW h \in Hooks!Hooks, Hooks!HookAnswered(q, h)
  PROVE  /\ hookReqs' \in [Hooks!HookSlots -> HookReq]
         /\ hookReqs'[q].pc = "done" /\ hookReqs'[q].hook = h
         /\ hookReqs'[q].kind = hookReqs[q].kind
         /\ \A p \in Hooks!HookSlots \ {q} : hookReqs'[p] = hookReqs[p]
BY DEF HooksInv, Hooks!TypeOK, Hooks!HookAnswered, HookReq

LEMMA HookOver ==
  ASSUME HooksInv, NEW q \in Hooks!HookSlots, Hooks!HookFinish(q)
  PROVE  /\ hookReqs' \in [Hooks!HookSlots -> HookReq] /\ hookReqs'[q].pc = "free"
         /\ \A p \in Hooks!HookSlots \ {q} : hookReqs'[p] = hookReqs[p]
BY DEF HooksInv, Hooks!TypeOK, Hooks!HookFinish, Hooks!NoHookReq, HookReq

\* The buttons.
LEMMA HookButtons ==
  ASSUME HooksInv, NEW q \in Hooks!HookSlots,
         \/ Hooks!AddWebhook(q)
         \/ \E h \in Hooks!Hooks : Hooks!DeleteWebhook(q, h) \/ Hooks!UnfoldDeliveries(q, h)
  PROVE  HooksInv'
<1> USE DEF Hooks!listVars, Hooks!hookServerVars, Hooks!deliveryVars
<1>1. PICK kind \in {"add", "delete", "deliveries"}, h \in Hooks!Hooks \cup {0} :
        /\ Hooks!HookRequest(q, kind, h)
        /\ UNCHANGED <<hookRows, hooksMade, webhooks, hookForm, newSecret, deliveries>>
        /\ \/ kind = "add" /\ webhookSubmitting' = TRUE /\ UNCHANGED <<expanded, deliveriesLoading>>
           \/ kind = "delete" /\ UNCHANGED <<webhookSubmitting, expanded, deliveriesLoading>>
           \/ /\ kind = "deliveries" /\ expanded' = h /\ deliveriesLoading' = h
              /\ UNCHANGED webhookSubmitting
  <2>1. CASE Hooks!AddWebhook(q)
    BY <2>1 DEF Hooks!AddWebhook
  <2>2. ASSUME NEW h \in Hooks!Hooks, Hooks!DeleteWebhook(q, h) \/ Hooks!UnfoldDeliveries(q, h)
        PROVE  \E kind \in {"delete", "deliveries"} :
                 /\ Hooks!HookRequest(q, kind, h)
                 /\ UNCHANGED <<hookRows, hooksMade, webhooks, hookForm, newSecret, deliveries,
                                webhookSubmitting>>
                 /\ \/ kind = "delete" /\ UNCHANGED <<expanded, deliveriesLoading>>
                    \/ kind = "deliveries" /\ expanded' = h /\ deliveriesLoading' = h
    BY <2>2 DEF Hooks!DeleteWebhook, Hooks!UnfoldDeliveries
  <2> QED BY <2>1, <2>2
<1>2. /\ hookReqs' \in [Hooks!HookSlots -> HookReq]
      /\ hookReqs[q].pc = "free" /\ hookReqs'[q].pc = "sent"
      /\ hookReqs'[q].kind = kind /\ hookReqs'[q].hook = h
      /\ \A p \in Hooks!HookSlots \ {q} : hookReqs'[p] = hookReqs[p]
  BY <1>1, HookMade
<1>3. Hooks!TypeOK'
  BY <1>1, <1>2 DEF HooksInv, Hooks!TypeOK, HookReq
<1>4. Hooks!BusyMeansUnderWay'
  BY <1>1, <1>2 DEF HooksInv, Hooks!BusyMeansUnderWay, Hooks!HookInFlight
<1> QED BY <1>2, <1>3, <1>4 DEF HooksInv

\* The endpoints.
LEMMA HookEndpoints ==
  ASSUME HooksInv, NEW q \in Hooks!HookSlots,
         Hooks!CreateHook(q) \/ Hooks!RemoveHook(q) \/ Hooks!ListDeliveries(q)
  PROVE  HooksInv'
<1> USE DEF Hooks!listVars, Hooks!hookServerVars, Hooks!deliveryVars
<1>1. MaxHooks \in Nat
  BY FrontendAssumption DEF FrontendAssumption, Hooks!HooksAssumption
<1>2. PICK h \in Hooks!Hooks :
        /\ Hooks!HookAnswered(q, h)
        /\ hookReqs[q].pc = "sent" /\ (hookReqs[q].kind = "deliveries" => hookReqs[q].hook = h)
        /\ hooksMade' \in 0 .. MaxHooks /\ hookRows' \subseteq Hooks!Hooks
        /\ UNCHANGED <<webhooks, hookForm, webhookSubmitting, newSecret, expanded,
                       deliveriesLoading, deliveries>>
  <2>1. CASE Hooks!CreateHook(q)
    <3>1. hooksMade + 1 \in 1 .. MaxHooks
      BY <1>1, <2>1 DEF HooksInv, Hooks!TypeOK, Hooks!CreateHook
    <3> QED BY <2>1, <3>1 DEF HooksInv, Hooks!TypeOK, Hooks!CreateHook, Hooks!Hooks
  <2>2. CASE Hooks!RemoveHook(q)
    BY <2>2 DEF HooksInv, Hooks!TypeOK, Hooks!RemoveHook
  <2>3. CASE Hooks!ListDeliveries(q)
    BY <2>3 DEF HooksInv, Hooks!TypeOK, Hooks!ListDeliveries
  <2> QED BY <2>1, <2>2, <2>3
<1>3. /\ hookReqs' \in [Hooks!HookSlots -> HookReq]
      /\ hookReqs'[q].pc = "done" /\ hookReqs'[q].hook = h
      /\ hookReqs'[q].kind = hookReqs[q].kind
      /\ \A p \in Hooks!HookSlots \ {q} : hookReqs'[p] = hookReqs[p]
  BY <1>2, HookDone
<1>4. Hooks!TypeOK'
  BY <1>2, <1>3 DEF HooksInv, Hooks!TypeOK, HookReq
<1>5. Hooks!BusyMeansUnderWay'
  BY <1>2, <1>3 DEF HooksInv, Hooks!BusyMeansUnderWay, Hooks!HookInFlight
<1> QED BY <1>2, <1>3, <1>4, <1>5 DEF HooksInv

\* The answers.
LEMMA HookAnswers ==
  ASSUME HooksInv, NEW q \in Hooks!HookSlots,
         \/ Hooks!Added(q) \/ Hooks!Deleted(q)
         \/ Hooks!DeliveriesListed(q) \/ Hooks!HookFails(q)
  PROVE  HooksInv'
<1> USE DEF Hooks!listVars, Hooks!hookServerVars, Hooks!deliveryVars, Hooks!StopSpinner
<1>1. /\ Hooks!TypeOK /\ hookReqs[q] \in HookReq
      /\ hookReqs[q].pc = "done" => hookReqs[q].hook \in Hooks!Hooks
  BY DEF HooksInv, Hooks!TypeOK, HookReq
<1>2. /\ Hooks!HookFinish(q)
      /\ hookReqs[q].kind = "deliveries" => deliveriesLoading' = 0
      /\ hookReqs[q].kind = "add" => ~webhookSubmitting'
      /\ deliveriesLoading' \in {0, deliveriesLoading}
      /\ webhookSubmitting' => webhookSubmitting
  <2>1. CASE Hooks!Added(q) \/ Hooks!Deleted(q)
    BY <1>1, <2>1 DEF Hooks!Added, Hooks!Deleted, Hooks!TypeOK
  <2>2. CASE Hooks!DeliveriesListed(q)
    BY <1>1, <2>2 DEF Hooks!DeliveriesListed, Hooks!TypeOK
  <2>3. CASE Hooks!HookFails(q)
    <3>1. webhookSubmitting' = (webhookSubmitting /\ hookReqs[q].kind # "add")
      BY <2>3 DEF Hooks!HookFails
    <3>2. /\ hookReqs[q].kind = "add" => ~webhookSubmitting'
          /\ webhookSubmitting' => webhookSubmitting
      BY <3>1, Zenon
    <3>3. /\ Hooks!HookFinish(q)
          /\ hookReqs[q].kind = "deliveries" => deliveriesLoading' = 0
          /\ deliveriesLoading' \in {0, deliveriesLoading}
      BY <2>3 DEF Hooks!HookFails
    <3> QED BY <3>2, <3>3
  <2> QED BY <2>1, <2>2, <2>3
<1>3. /\ hookReqs' \in [Hooks!HookSlots -> HookReq] /\ hookReqs'[q].pc = "free"
      /\ \A p \in Hooks!HookSlots \ {q} : hookReqs'[p] = hookReqs[p]
  BY <1>2, HookOver
<1>4. /\ hookRows' \subseteq Hooks!Hooks /\ hooksMade' \in 0 .. MaxHooks
      /\ webhooks' \subseteq Hooks!Hooks /\ hookForm' \in BOOLEAN
  BY <1>1 DEF Hooks!Added, Hooks!Deleted, Hooks!DeliveriesListed, Hooks!HookFails, Hooks!TypeOK,
              HookReq
<1>5. /\ webhookSubmitting' \in BOOLEAN /\ deliveries' \subseteq Hooks!Hooks
      /\ {newSecret', expanded', deliveriesLoading'} \subseteq Hooks!Hooks \cup {0}
  <2>1. CASE Hooks!Added(q) \/ Hooks!Deleted(q)
    BY <1>1, <2>1 DEF Hooks!Added, Hooks!Deleted, Hooks!TypeOK
  <2>2. CASE Hooks!DeliveriesListed(q) \/ Hooks!HookFails(q)
    BY <1>1, <2>2 DEF Hooks!DeliveriesListed, Hooks!HookFails, Hooks!TypeOK
  <2> QED BY <2>1, <2>2
<1>6. Hooks!TypeOK'
  BY <1>3, <1>4, <1>5 DEF Hooks!TypeOK, HookReq
<1>7. Hooks!BusyMeansUnderWay'
  BY <1>2, <1>3 DEF HooksInv, Hooks!BusyMeansUnderWay, Hooks!HookInFlight
<1> QED BY <1>3, <1>6, <1>7 DEF HooksInv

LEMMA HooksKept ==
  ASSUME HooksInv, [Hooks!Next]_hookVars
  PROVE  HooksInv'
<1> USE DEF Hooks!listVars, Hooks!hookServerVars, Hooks!deliveryVars
<1>1. CASE UNCHANGED <<deliveriesLoading, webhookSubmitting, hookReqs>> /\ Hooks!TypeOK'
  BY <1>1 DEF HooksInv, Hooks!BusyMeansUnderWay, Hooks!HookInFlight
<1>2. CASE UNCHANGED hookVars
  BY <1>1, <1>2 DEF hookVars, HooksInv, Hooks!TypeOK
<1>3. CASE Hooks!ToggleForm
  BY <1>1, <1>3 DEF HooksInv, Hooks!TypeOK, Hooks!ToggleForm
<1>4. CASE Hooks!DismissSecret
  BY <1>1, <1>4 DEF HooksInv, Hooks!TypeOK, Hooks!DismissSecret
<1>5. ASSUME NEW h \in Hooks!Hooks, Hooks!FoldDeliveries(h) PROVE HooksInv'
  BY <1>1, <1>5 DEF HooksInv, Hooks!TypeOK, Hooks!FoldDeliveries
<1> QED BY <1>2, <1>3, <1>4, <1>5, HookButtons, HookEndpoints, HookAnswers DEF Hooks!Next

-----------------------------------------------------------------------------
(* The making of a profile.                                                *)

CreationInv == Creation!TypeOK /\ Creation!CreateBusy

LEMMA CreationStarts ==
  ASSUME Creation!Init PROVE CreationInv
<1>1. XLM \in Presets
  BY FrontendAssumption DEF FrontendAssumption, Creation!CreateAssumption
<1>2. /\ step = 1 /\ ~loading /\ ~usernameError /\ post = None
  BY DEF Creation!Init
<1>3. Creation!CreateBusy
  BY <1>2 DEF Creation!CreateBusy
<1>4. displayName \in BOOLEAN
      /\ {usernameError, emailError, loading, rateLimited, left} \subseteq BOOLEAN
  BY Zenon DEF Creation!Init
<1>5. /\ step \in 1 .. 3 /\ post \in Creation!Posts \cup {None}
      /\ username \in Usernames \cup {Empty, Malformed}
      /\ walletAddress \in Wallets \cup {Empty, Malformed}
  BY DEF Creation!Init
<1>6. /\ assets \subseteq Presets /\ issuers \subseteq assets
      /\ email \in {"none", "malformed", "typed"}
  BY <1>1 DEF Creation!Init
<1>7. /\ redirects \subseteq Usernames /\ profileRows \subseteq Usernames
      /\ signedIn \in Wallets \cup {None}
  BY DEF Creation!Init
<1>8. Creation!TypeOK
  BY <1>4, <1>5, <1>6, <1>7 DEF Creation!TypeOK
<1> QED BY <1>3, <1>8 DEF CreationInv

\* The fields, each on its own step.
LEMMA CreationFields ==
  ASSUME CreationInv,
         \/ \E named \in BOOLEAN, text \in Usernames \cup {Empty, Malformed} :
              Creation!TypeNames(named, text)
         \/ \E text \in Wallets \cup {Empty, Malformed} : Creation!TypeWallet(text)
         \/ \E a \in Presets :
              Creation!ToggleAsset(a) \/ \E given \in BOOLEAN : Creation!TypeIssuer(a, given)
         \/ \E text \in {"none", "malformed", "typed"} : Creation!TypeEmail(text)
  PROVE  CreationInv'
<1> USE DEF Creation!requestVars, CreationInv, Creation!TypeOK, Creation!CreateBusy,
            Creation!NamesOk, Creation!WalletOk, Creation!AssetsOk
<1>1. ASSUME NEW named \in BOOLEAN, NEW text \in Usernames \cup {Empty, Malformed},
             Creation!TypeNames(named, text)
      PROVE  CreationInv'
  BY <1>1 DEF Creation!TypeNames
<1>2. ASSUME NEW text \in Wallets \cup {Empty, Malformed}, Creation!TypeWallet(text)
      PROVE  CreationInv'
  BY <1>2 DEF Creation!TypeWallet
<1>3. ASSUME NEW a \in Presets, Creation!ToggleAsset(a)
      PROVE  CreationInv'
  BY <1>3 DEF Creation!ToggleAsset
<1>4. ASSUME NEW a \in Presets, NEW given \in BOOLEAN, Creation!TypeIssuer(a, given)
      PROVE  CreationInv'
  BY <1>4 DEF Creation!TypeIssuer
<1>5. ASSUME NEW text \in {"none", "malformed", "typed"}, Creation!TypeEmail(text)
      PROVE  CreationInv'
  BY <1>5 DEF Creation!TypeEmail
<1> QED BY <1>1, <1>2, <1>3, <1>4, <1>5

\* The buttons.  A request that is sent is a record, and not None.
LEMMA CreationButtons ==
  ASSUME CreationInv, Creation!Continue \/ Creation!Back \/ Creation!Submit
  PROVE  CreationInv'
<1> USE DEF Creation!requestVars, Creation!formVars, CreationInv, Creation!TypeOK,
            Creation!CreateBusy, Creation!NamesOk, Creation!WalletOk, Creation!AssetsOk
<1>1. CASE Creation!Continue
  <2>1. /\ step' = IF Creation!StepValid THEN step + 1 ELSE step
        /\ step \in 1 .. 2 /\ ~usernameError' /\ usernameError' = FALSE /\ emailError' = FALSE
    BY <1>1 DEF Creation!Continue, Creation!Pressed
  <2>2. /\ step' \in 1 .. 3
        /\ step' > 1 => displayName /\ username \in Usernames
        /\ step' = 3 => /\ walletAddress \in Wallets
                        /\ assets # {} /\ assets \subseteq issuers \cup {XLM}
    BY <2>1 DEF Creation!StepValid
  <2> QED BY <1>1, <2>1, <2>2 DEF Creation!Continue
<1>2. CASE Creation!Back
  BY <1>2 DEF Creation!Back
<1>3. CASE Creation!Submit
  <2>1. CASE UNCHANGED <<loading, post>>
    BY <1>3, <2>1 DEF Creation!Submit, Creation!Pressed
  <2>2. CASE ~UNCHANGED <<loading, post>>
    <3> DEFINE sent == [pc |-> "sent", username |-> username, wallet |-> walletAddress,
                        email |-> email = "typed"]
    <3>1. loading' = TRUE /\ post' = sent
      BY <1>3, <2>2 DEF Creation!Submit
    <3>2. sent \in Creation!Posts
      <4>1. username \in Usernames /\ walletAddress \in Wallets
        BY <1>3, <2>2 DEF Creation!Submit
      <4>2. (email = "typed") \in BOOLEAN
        OBVIOUS
      <4> QED BY <4>1, <4>2 DEF Creation!Posts
    <3>3. post' \in Creation!Posts /\ post' # None
      BY <3>1, <3>2, FrontendAssumption DEF FrontendAssumption, Creation!CreateAssumption
    <3> HIDE DEF sent
    <3> QED BY <1>3, <3>1, <3>3 DEF Creation!Submit, Creation!Pressed
  <2> QED BY <2>1, <2>2
<1> QED BY <1>1, <1>2, <1>3

\* The server only changes what a request has come to.
LEMMA CreationServed ==
  ASSUME CreationInv,
         \/ Creation!Unauthorized \/ Creation!Created \/ Creation!UsernameTaken
         \/ Creation!EmailTaken \/ Creation!NotServed
  PROVE  CreationInv'
<1>1. PICK pc \in {"created", "usernameTaken", "emailTaken", "limited", "unauthorized", "failed"} :
        Creation!Outcome(pc)
  BY DEF Creation!Unauthorized, Creation!Created, Creation!UsernameTaken, Creation!EmailTaken,
         Creation!NotServed
<1>2. post \in Creation!Posts
  BY <1>1 DEF CreationInv, Creation!TypeOK, Creation!Outcome
<1>3. post' \in Creation!Posts /\ post' # None
  <2>1. post' \in Creation!Posts
    BY <1>1, <1>2 DEF Creation!Outcome, Creation!Posts
  <2> QED BY <2>1, FrontendAssumption DEF FrontendAssumption, Creation!CreateAssumption
<1>4. profileRows' \subseteq Usernames
  <2>1. post.username \in Usernames
    BY <1>2 DEF Creation!Posts
  <2> QED BY <2>1 DEF CreationInv, Creation!TypeOK, Creation!Unauthorized, Creation!Created,
                      Creation!UsernameTaken, Creation!EmailTaken, Creation!NotServed
<1> QED BY <1>1, <1>3, <1>4 DEF Creation!Outcome, Creation!formVars, CreationInv, Creation!TypeOK,
           Creation!CreateBusy, Creation!NamesOk, Creation!WalletOk, Creation!AssetsOk

\* The answers, the countdown and the redirect.
LEMMA CreationAnswers ==
  ASSUME CreationInv,
         \/ Creation!Answered \/ Creation!PostLost \/ Creation!CountdownOver \/ Creation!Redirect
  PROVE  CreationInv'
<1> USE DEF Creation!formVars, CreationInv, Creation!TypeOK, Creation!CreateBusy,
            Creation!NamesOk, Creation!WalletOk, Creation!AssetsOk
<1>1. CASE Creation!Answered
  <2>1. post.username \in Usernames
    BY <1>1 DEF Creation!Answered, Creation!Posts
  <2>2. rateLimited' \in BOOLEAN /\ redirects' \subseteq Usernames
    BY <1>1, <2>1 DEF Creation!Answered
  <2>3. CASE post.pc = "usernameTaken"
    <3>1. /\ step' = 1 /\ usernameError' = TRUE /\ emailError' = FALSE
      BY <1>1, <2>3 DEF Creation!Answered
    <3>2. /\ UNCHANGED <<Creation!formVars, left, profileRows, signedIn>>
          /\ post' = None /\ loading' = FALSE
      BY <1>1 DEF Creation!Answered
    <3>3. {usernameError', emailError', loading', rateLimited', left'} \subseteq BOOLEAN
      BY <2>2, <3>1, <3>2
    <3>4. Creation!TypeOK'
      BY <2>2, <3>1, <3>2, <3>3
    <3>5. Creation!CreateBusy'
      BY <3>1, <3>2
    <3> QED BY <3>4, <3>5
  <2>4. CASE post.pc = "emailTaken"
    BY <1>1, <2>2, <2>4 DEF Creation!Answered
  <2>5. CASE post.pc \notin {"usernameTaken", "emailTaken"}
    BY <1>1, <2>2, <2>5 DEF Creation!Answered
  <2> QED BY <2>3, <2>4, <2>5
<1>2. CASE Creation!PostLost
  BY <1>2 DEF Creation!PostLost
<1>3. CASE Creation!CountdownOver
  BY <1>3 DEF Creation!CountdownOver
<1>4. CASE Creation!Redirect
  BY <1>4 DEF Creation!Redirect
<1> QED BY <1>1, <1>2, <1>3, <1>4

LEMMA CreationKept ==
  ASSUME CreationInv, [Creation!Next]_createVars
  PROVE  CreationInv'
<1>1. CASE UNCHANGED createVars
  BY <1>1 DEF createVars, CreationInv, Creation!TypeOK, Creation!CreateBusy, Creation!NamesOk,
              Creation!WalletOk, Creation!AssetsOk
<1> QED BY <1>1, CreationFields, CreationButtons, CreationServed, CreationAnswers DEF Creation!Next

-----------------------------------------------------------------------------
(* The analytics of a profile.                                             *)

\* The wallet: the page's copy is right, or an event is on its way.
WalletCopied == connectedWallet = wallet \/ told

\* The drips: a spinner has a request of its own.
DripsAwaited == dripsLoading => FALSE \in dripReqs

\* The chart: the request whose effect was not cleaned up is of the selected range.
ChartAwaited ==
  /\ \A r \in chartReqs : ~r[2] => r[1] = selectedPeriod
  /\ ~chartLoading => chart \in {selectedPeriod, None}

AnalyticsInv == Analytics!TypeOK /\ WalletCopied /\ DripsAwaited /\ ChartAwaited

LEMMA AnalyticsStarts ==
  ASSUME Analytics!Init PROVE AnalyticsInv
<1>1. /\ told \in BOOLEAN /\ settings \in BOOLEAN /\ chartLoading \in BOOLEAN
      /\ dripsLoading \in BOOLEAN /\ csvLoading \in BOOLEAN
  BY Zenon DEF Analytics!Init
<1>2. /\ session \in Analytics!Holders /\ wallet \in Analytics!Holders
      /\ connectedWallet \in Analytics!Holders /\ button \in Analytics!Holders
      /\ data \in {"loading", "ready", "failed"}
  BY DEF Analytics!Init
<1>3. /\ selectedPeriod \in Periods /\ chart = None /\ chartReqs = {<<selectedPeriod, FALSE>>}
      /\ dripReqs = {}
  BY DEF Analytics!Init
<1>4. chartReqs \subseteq Periods \X BOOLEAN
  <2>1. <<selectedPeriod, FALSE>> \in Periods \X BOOLEAN
    BY <1>3
  <2> QED BY <1>3, <2>1
<1>5. Analytics!TypeOK
  BY <1>1, <1>2, <1>3, <1>4 DEF Analytics!TypeOK
<1>6. WalletCopied /\ DripsAwaited /\ ChartAwaited
  BY <1>3 DEF Analytics!Init, WalletCopied, DripsAwaited, ChartAwaited
<1> QED BY <1>5, <1>6 DEF AnalyticsInv

\* The effect of a change of ownership leaves a spinner with its request.
LEMMA DripsFollow ==
  ASSUME AnalyticsInv, Analytics!OwnerEffect
  PROVE  dripsLoading' \in BOOLEAN /\ dripReqs' \subseteq BOOLEAN /\ DripsAwaited'
<1>1. CASE UNCHANGED <<dripsLoading, dripReqs>>
  BY <1>1 DEF AnalyticsInv, Analytics!TypeOK, DripsAwaited
<1>2. CASE Analytics!IsOwner' # Analytics!IsOwner
  <2>1. /\ dripReqs' = {TRUE : r \in dripReqs} \cup (IF Analytics!IsOwner' THEN {FALSE} ELSE {})
        /\ dripsLoading' = Analytics!IsOwner'
    BY <1>2 DEF Analytics!OwnerEffect
  <2>2. Analytics!IsOwner' \in BOOLEAN
    BY DEF Analytics!IsOwner
  <2> QED BY <2>1, <2>2 DEF DripsAwaited
<1> QED BY <1>1, <1>2 DEF Analytics!OwnerEffect, Analytics!dripSide

\* The wallets: the page takes over an address.
LEMMA WalletSteps ==
  ASSUME AnalyticsInv,
         \/ \E w \in Viewers : Analytics!ConnectWallet(w)
         \/ Analytics!DisconnectWallet \/ Analytics!StorageEvent
         \/ \E w \in Analytics!Holders : Analytics!OtherTab(w)
  PROVE  AnalyticsInv'
<1> USE DEF Analytics!chartSide, Analytics!dripSide, AnalyticsInv, Analytics!TypeOK, WalletCopied,
            ChartAwaited, Analytics!Holders
<1>1. ASSUME NEW w \in Analytics!Holders, Analytics!Sync(w),
             UNCHANGED <<session, data, selectedPeriod, chart, chartLoading, chartReqs, csvLoading>>,
             wallet' \in Analytics!Holders, told' \in BOOLEAN, button' \in Analytics!Holders,
             wallet' = w \/ told'
      PROVE  AnalyticsInv'
  <2>1. dripsLoading' \in BOOLEAN /\ dripReqs' \subseteq BOOLEAN /\ DripsAwaited'
    BY <1>1, DripsFollow DEF Analytics!Sync
  <2> QED BY <1>1, <2>1 DEF Analytics!Sync
<1>2. ASSUME NEW w \in Viewers, Analytics!ConnectWallet(w)
      PROVE  AnalyticsInv'
  <2>1. told' \in BOOLEAN /\ wallet' = w /\ button' = w
    BY <1>2 DEF Analytics!ConnectWallet
  <2> QED BY <1>1, <1>2, <2>1 DEF Analytics!ConnectWallet
<1>3. CASE Analytics!DisconnectWallet
  BY <1>1, <1>3 DEF Analytics!DisconnectWallet, Analytics!DisconnectFirst
<1>4. CASE Analytics!StorageEvent
  <2>1. told' \in BOOLEAN
    BY <1>4, Zenon DEF Analytics!StorageEvent
  <2> QED BY <1>1, <1>4, <2>1 DEF Analytics!StorageEvent
<1>5. ASSUME NEW w \in Analytics!Holders, Analytics!OtherTab(w)
      PROVE  AnalyticsInv'
  <2>1. told' \in BOOLEAN
    BY <1>5, Zenon DEF Analytics!OtherTab
  <2> QED BY <1>5, <2>1 DEF Analytics!OtherTab, DripsAwaited
<1> QED BY <1>2, <1>3, <1>4, <1>5

\* The chart: another range, or an answer.
LEMMA ChartSteps ==
  ASSUME AnalyticsInv,
         \/ \E p \in Periods : Analytics!SelectPeriod(p)
         \/ \E r \in Periods \X BOOLEAN : Analytics!ChartAnswered(r)
  PROVE  AnalyticsInv'
<1> USE DEF Analytics!walletSide, Analytics!dripSide, AnalyticsInv, Analytics!TypeOK, WalletCopied,
            DripsAwaited
<1>1. ASSUME NEW p \in Periods, Analytics!SelectPeriod(p)
      PROVE  AnalyticsInv'
  <2>1. /\ selectedPeriod' = p /\ chartLoading' /\ UNCHANGED chart
        /\ chartReqs' = {<<r[1], TRUE>> : r \in chartReqs} \cup {<<p, FALSE>>}
    BY <1>1 DEF Analytics!SelectPeriod
  <2>2. chartLoading' \in BOOLEAN
    BY <1>1, Zenon DEF Analytics!SelectPeriod
  <2>3. /\ <<p, FALSE>> \in Periods \X BOOLEAN /\ <<p, FALSE>>[1] = p
        /\ \A r \in chartReqs : <<r[1], TRUE>> \in Periods \X BOOLEAN /\ <<r[1], TRUE>>[2]
    OBVIOUS
  <2>4. chartReqs' \subseteq Periods \X BOOLEAN
    BY <2>1, <2>3
  <2>5. \A r \in chartReqs' : ~r[2] => r[1] = p
    BY <2>1, <2>3
  <2>6. ChartAwaited'
    BY <2>1, <2>5 DEF ChartAwaited
  <2> QED BY <1>1, <2>1, <2>2, <2>4, <2>6 DEF Analytics!SelectPeriod
<1>2. ASSUME NEW r \in Periods \X BOOLEAN, Analytics!ChartAnswered(r)
      PROVE  AnalyticsInv'
  <2>1. PICK answer \in {r[1], None} : Analytics!ShowOwn(r, answer)
    BY <1>2 DEF Analytics!ChartAnswered, Analytics!Timeseries
  <2>2. r \in chartReqs /\ chartReqs' = chartReqs \ {r} /\ UNCHANGED selectedPeriod
    BY <1>2 DEF Analytics!ChartAnswered
  <2>3. CASE r[2]
    BY <1>2, <2>1, <2>2, <2>3 DEF Analytics!ChartAnswered, Analytics!ShowOwn, ChartAwaited
  <2>4. CASE ~r[2]
    <3>1. chart' = answer /\ answer \in {selectedPeriod, None}
      BY <2>1, <2>2, <2>4 DEF Analytics!ShowOwn, ChartAwaited
    <3>2. chartLoading' \in BOOLEAN
      BY <2>1, <2>4, Zenon DEF Analytics!ShowOwn
    <3> QED BY <1>2, <2>2, <3>1, <3>2 DEF Analytics!ChartAnswered, ChartAwaited
  <2> QED BY <2>3, <2>4
<1> QED BY <1>1, <1>2

\* What only the owner sees.
LEMMA OwnerSteps ==
  ASSUME AnalyticsInv,
         \/ Analytics!DataLoaded \/ \E c \in BOOLEAN : Analytics!DripsAnswered(c)
         \/ Analytics!DownloadCsv \/ Analytics!CsvAnswered
  PROVE  AnalyticsInv'
<1> USE DEF Analytics!walletSide, Analytics!chartSide, Analytics!dripSide, AnalyticsInv,
            Analytics!TypeOK, WalletCopied, ChartAwaited
<1>1. CASE Analytics!DataLoaded
  <2>1. settings' \in BOOLEAN
    BY <1>1 DEF Analytics!DataLoaded, Analytics!AnalyticsAnswers
  <2>2. data' \in {"loading", "ready", "failed"}
    BY <1>1 DEF Analytics!DataLoaded
  <2>3. dripsLoading' \in BOOLEAN /\ dripReqs' \subseteq BOOLEAN /\ DripsAwaited'
    BY <1>1, DripsFollow DEF Analytics!DataLoaded
  <2>4. button' \in Analytics!Holders
    BY <1>1 DEF Analytics!DataLoaded, Analytics!Rendering
  <2> QED BY <1>1, <2>1, <2>2, <2>3, <2>4 DEF Analytics!DataLoaded
<1>2. ASSUME NEW c \in BOOLEAN, Analytics!DripsAnswered(c)
      PROVE  AnalyticsInv'
  <2>1. dripsLoading' \in BOOLEAN /\ dripReqs' \subseteq BOOLEAN
    BY <1>2 DEF Analytics!DripsAnswered
  <2>2. DripsAwaited'
    BY <1>2 DEF Analytics!DripsAnswered, DripsAwaited
  <2> QED BY <1>2, <2>1, <2>2 DEF Analytics!DripsAnswered
<1>3. CASE Analytics!DownloadCsv \/ Analytics!CsvAnswered
  <2>1. csvLoading' \in BOOLEAN
    BY <1>3, Zenon DEF Analytics!DownloadCsv, Analytics!CsvAnswered
  <2>2. data' \in {data, "failed"}
    BY <1>3 DEF Analytics!DownloadCsv, Analytics!CsvAnswered
  <2>3. UNCHANGED <<Analytics!walletSide, settings, Analytics!chartSide, Analytics!dripSide>>
    BY <1>3 DEF Analytics!DownloadCsv, Analytics!CsvAnswered
  <2>4. button' \in Analytics!Holders
    BY <1>3 DEF Analytics!DownloadCsv, Analytics!CsvAnswered, Analytics!Rendering
  <2> QED BY <2>1, <2>2, <2>3, <2>4 DEF DripsAwaited
<1> QED BY <1>1, <1>2, <1>3

LEMMA AnalyticsKept ==
  ASSUME AnalyticsInv, [Analytics!Next]_analyticsVars
  PROVE  AnalyticsInv'
<1>1. CASE UNCHANGED analyticsVars
  BY <1>1 DEF analyticsVars, AnalyticsInv, Analytics!TypeOK, WalletCopied, DripsAwaited, ChartAwaited
<1> QED BY <1>1, WalletSteps, ChartSteps, OwnerSteps DEF Analytics!Next

-----------------------------------------------------------------------------
(* The list of creators.                                                   *)

Shown == DOMAIN profiles

\* The pages up to the offset are on the screen, in order, or failed to load; the
\* page of the offset is the one that is being loaded.
ListGrows ==
  /\ \A i \in Shown : profiles[i][1] = filter /\ profiles[i][2] <= offset
  /\ exploreLoading => \A i \in Shown : profiles[i][2] < offset
  /\ \A i, j \in Shown : i < j => profiles[i][2] < profiles[j][2]
  /\ \A p \in Explore!Pages : p < offset \/ (p = offset /\ ~exploreLoading) =>
       p \in failedPages \/ \E i \in Shown : profiles[i][2] = p

\* One request is under way at most, for what the screen waits for; one that starts
\* the list finds it empty.
OnePage ==
  /\ \A r \in pageReqs : /\ exploreLoading /\ r.filter = filter /\ r.page = offset
                         /\ r.reset => offset = 0
  /\ \A r, s \in pageReqs : r = s

\* The offset stays where a further page may be asked for.
WithinList ==
  /\ Len(profiles) <= IF exploreLoading THEN offset ELSE offset + 1
  /\ hasMore /\ ~exploreLoading => offset <= Explore!MaxPage

ExploreInv == Explore!TypeOK /\ ListGrows /\ OnePage /\ WithinList

\* The longest of the lists.
LEMMA LongestList ==
  /\ Explore!MaxPage \in Nat
  /\ \A f \in Explore!Filters : FullPages[f] \in Nat /\ FullPages[f] <= Explore!MaxPage
<1> DEFINE lengths == {FullPages[f] : f \in Explore!Filters}
<1>1. /\ FullPages \in [Explore!Filters -> Nat]
      /\ \E n \in lengths : \A f \in Explore!Filters : FullPages[f] <= n
  BY FrontendAssumption DEF FrontendAssumption, Explore!ExploreAssumption
<1>2. /\ Explore!MaxPage \in lengths
      /\ \A f \in Explore!Filters : FullPages[f] <= Explore!MaxPage
  BY <1>1 DEF Explore!MaxPage
<1> QED BY <1>1, <1>2

\* A new request: the state while a page is being loaded.
LEMMA PageAsked ==
  ASSUME NEW f \in Explore!Filters, NEW p \in Explore!Pages, NEW reset \in BOOLEAN,
         Explore!FetchProfiles(f, p, reset), filter' = f, offset' = p, reset => p = 0
  PROVE  /\ pageReqs' \subseteq Explore!PageReq /\ OnePage'
         /\ exploreLoading' = TRUE /\ exploreLoading' \in BOOLEAN /\ exploreError' \in BOOLEAN
<1> DEFINE new == [filter |-> f, page |-> p, reset |-> reset]
<1>1. pageReqs' = {new} /\ exploreLoading'
  BY DEF Explore!FetchProfiles, Explore!AbortPrevious
<1>2. new \in Explore!PageReq /\ new.filter = f /\ new.page = p /\ new.reset = reset
  BY DEF Explore!PageReq
<1>3. exploreLoading' = TRUE /\ exploreLoading' \in BOOLEAN /\ exploreError' \in BOOLEAN
  BY Zenon DEF Explore!FetchProfiles
<1> HIDE DEF new
<1>4. OnePage'
  BY <1>1, <1>2 DEF OnePage
<1> QED BY <1>1, <1>2, <1>3, <1>4

LEMMA ExploreStarts ==
  ASSUME Explore!Init PROVE ExploreInv
<1>1. 0 \in Explore!Pages /\ filter \in Explore!Filters
  BY LongestList DEF Explore!Pages, Explore!Filters, Explore!Init
<1>2. /\ options \in BOOLEAN /\ hasMore \in BOOLEAN /\ exploreLoading \in BOOLEAN
      /\ exploreError \in BOOLEAN
  BY Zenon DEF Explore!Init
<1> DEFINE new == [filter |-> filter, page |-> 0, reset |-> TRUE]
<1>3. new \in Explore!PageReq /\ new.filter = filter /\ new.page = 0
  BY <1>1 DEF Explore!PageReq
<1>4. /\ pageReqs = {new} /\ profiles = <<>> /\ offset = 0 /\ failedPages = {} /\ exploreLoading
  BY DEF Explore!Init
<1> HIDE DEF new
<1>5. profiles \in Seq(Explore!Filters \X Explore!Pages) /\ Len(profiles) = 0 /\ Shown = {}
  BY <1>4 DEF Shown
<1>6. Explore!TypeOK
  BY <1>1, <1>2, <1>3, <1>4, <1>5, LongestList DEF Explore!TypeOK
<1>7. ListGrows
  BY <1>1, <1>4, <1>5, LongestList DEF ListGrows, Explore!Pages
<1> QED BY <1>3, <1>4, <1>5, <1>6, <1>7 DEF ExploreInv, OnePage, WithinList

\* What the invariant says of the pages, without the definitions of the view.
LEMMA PagesTyped ==
  ASSUME ExploreInv
  PROVE  /\ offset \in Nat /\ Explore!MaxPage \in Nat /\ Len(profiles) \in Nat
         /\ Shown = 1 .. Len(profiles)
         /\ \A i \in Shown : profiles[i] \in Explore!Filters \X Explore!Pages /\ profiles[i][2] \in Nat
  BY LongestList DEF ExploreInv, Explore!TypeOK, Shown, Explore!Pages

LEMMA Choosing ==
  ASSUME ExploreInv, NEW f \in Explore!Filters, Explore!ChooseFilter(f)
  PROVE  ExploreInv'
<1>1. 0 \in Explore!Pages /\ Explore!MaxPage \in Nat
  BY LongestList DEF Explore!Pages
<1>2. /\ filter' = f /\ offset' = 0 /\ profiles' = <<>> /\ failedPages' = {} /\ UNCHANGED options
      /\ Explore!FetchProfiles(f, 0, TRUE)
  BY DEF Explore!ChooseFilter
<1>3. hasMore' \in BOOLEAN
  BY Zenon DEF Explore!ChooseFilter
<1>4. /\ pageReqs' \subseteq Explore!PageReq /\ OnePage'
      /\ exploreLoading' = TRUE /\ exploreLoading' \in BOOLEAN /\ exploreError' \in BOOLEAN
  BY <1>1, <1>2, PageAsked
<1>5. profiles' \in Seq(Explore!Filters \X Explore!Pages) /\ Len(profiles') = 0 /\ Shown' = {}
  BY <1>2 DEF Shown
<1>6. Explore!TypeOK'
  BY <1>1, <1>2, <1>3, <1>4, <1>5 DEF ExploreInv, Explore!TypeOK
<1>7. ListGrows'
  BY <1>1, <1>2, <1>4, <1>5 DEF ListGrows, Explore!Pages
<1>8. WithinList'
  BY <1>2, <1>4, <1>5 DEF WithinList
<1> QED BY <1>4, <1>6, <1>7, <1>8 DEF ExploreInv

LEMMA LoadingMore ==
  ASSUME ExploreInv, Explore!HandleLoadMore
  PROVE  ExploreInv'
<1>1. /\ offset' = offset + 1 /\ ~exploreLoading /\ hasMore
      /\ Explore!FetchProfiles(filter, offset + 1, FALSE)
      /\ UNCHANGED <<filter, options, profiles, hasMore, failedPages>>
  BY DEF Explore!HandleLoadMore
<1>2. offset \in Nat /\ offset + 1 \in Explore!Pages /\ filter \in Explore!Filters
  BY <1>1, PagesTyped DEF ExploreInv, WithinList, Explore!Pages, Explore!TypeOK
<1>3. /\ pageReqs' \subseteq Explore!PageReq /\ OnePage'
      /\ exploreLoading' = TRUE /\ exploreLoading' \in BOOLEAN /\ exploreError' \in BOOLEAN
  BY <1>1, <1>2, PageAsked
<1>4. Explore!TypeOK'
  BY <1>1, <1>2, <1>3 DEF ExploreInv, Explore!TypeOK
<1>5. ListGrows'
  BY <1>1, <1>2, <1>3, PagesTyped DEF ExploreInv, ListGrows, Shown, Explore!Pages
<1>6. WithinList'
  BY <1>1, <1>2, <1>3, PagesTyped DEF ExploreInv, WithinList
<1> QED BY <1>3, <1>4, <1>5, <1>6 DEF ExploreInv

LEMMA PageComes ==
  ASSUME ExploreInv, NEW r \in pageReqs, Explore!PageAnswered(r)
  PROVE  ExploreInv'
<1>1. /\ pageReqs' = pageReqs \ {r} /\ ~exploreLoading'
      /\ profiles' = IF r.reset THEN <<<<r.filter, r.page>>>>
                     ELSE Append(profiles, <<r.filter, r.page>>)
      /\ hasMore' = (r.page < FullPages[r.filter])
      /\ UNCHANGED <<filter, options, offset, exploreError, failedPages>>
  BY DEF Explore!PageAnswered, Explore!IsFull
<1>2. exploreLoading' \in BOOLEAN /\ hasMore' \in BOOLEAN
  <2>1. exploreLoading' = FALSE
    BY Zenon DEF Explore!PageAnswered
  <2>2. hasMore' \in BOOLEAN
    BY DEF Explore!PageAnswered, Explore!IsFull
  <2> QED BY <2>1, <2>2
<1>3. /\ filter \in Explore!Filters /\ offset \in Explore!Pages
      /\ exploreLoading /\ r.filter = filter /\ r.page = offset
      /\ r.reset => offset = 0
  BY DEF ExploreInv, OnePage, Explore!TypeOK
<1>4. pageReqs' = {}
  BY <1>1 DEF ExploreInv, OnePage
<1> DEFINE new == <<filter, offset>>
<1>5. /\ new \in Explore!Filters \X Explore!Pages /\ new[1] = filter /\ new[2] = offset
      /\ <<r.filter, r.page>> = new
  BY <1>3
<1>6. hasMore' => offset <= Explore!MaxPage
  <2>1. hasMore' => r.page < FullPages[r.filter]
    BY <1>1, Zenon
  <2> QED BY <1>3, <2>1, LongestList, PagesTyped
<1>7. CASE r.reset
  <2> HIDE DEF new
  <2>1. profiles' = <<new>> /\ offset = 0
    BY <1>1, <1>3, <1>5, <1>7
  <2>2. /\ profiles' \in Seq(Explore!Filters \X Explore!Pages) /\ Len(profiles') = 1
        /\ Shown' = {1} /\ profiles'[1] = new
    BY <1>5, <2>1 DEF Shown
  <2>3. Explore!TypeOK'
    BY <1>1, <1>2, <1>4, <2>2, LongestList DEF ExploreInv, Explore!TypeOK
  <2>4. ListGrows'
    BY <1>1, <1>5, <2>1, <2>2 DEF ListGrows, Explore!Pages
  <2> QED BY <1>1, <1>4, <1>6, <2>1, <2>2, <2>3, <2>4 DEF ExploreInv, OnePage, WithinList
<1>8. CASE ~r.reset
  <2> HIDE DEF new
  <2>1. profiles' = Append(profiles, new)
    BY <1>1, <1>5, <1>8
  <2>2. /\ profiles' \in Seq(Explore!Filters \X Explore!Pages)
        /\ Len(profiles') = Len(profiles) + 1 /\ Shown' = Shown \cup {Len(profiles) + 1}
        /\ profiles'[Len(profiles) + 1] = new /\ \A i \in Shown : profiles'[i] = profiles[i]
    BY <1>5, <2>1, PagesTyped DEF Shown, ExploreInv, Explore!TypeOK
  <2>7. Len(profiles') <= Explore!MaxPage + 2 /\ Len(profiles') <= offset + 1
    BY <1>3, <2>2, PagesTyped DEF ExploreInv, WithinList, Explore!Pages
  <2>3. Explore!TypeOK'
    BY <1>1, <1>2, <1>4, <2>2, <2>7 DEF ExploreInv, Explore!TypeOK
  <2>8. /\ \A i \in Shown : /\ profiles'[i][1] = filter /\ profiles'[i][2] < offset
                          /\ i <= Len(profiles) /\ i \in Nat /\ i # Len(profiles) + 1
        /\ \A i, j \in Shown : i < j => profiles'[i][2] < profiles'[j][2]
    BY <1>3, <2>2, PagesTyped DEF ExploreInv, ListGrows
  <2>4. /\ \A i \in Shown' : profiles'[i][1] = filter /\ profiles'[i][2] <= offset
        /\ \A i, j \in Shown' : i < j => profiles'[i][2] < profiles'[j][2]
    <3>1. \A i \in Shown' : profiles'[i][1] = filter /\ profiles'[i][2] <= offset
      BY <1>5, <2>2, <2>8, PagesTyped
    <3>2. ASSUME NEW i \in Shown', NEW j \in Shown', i < j PROVE profiles'[i][2] < profiles'[j][2]
      <4>1. i \in Shown
        BY <2>2, <2>8, <3>2, PagesTyped
      <4> QED BY <1>5, <2>2, <2>8, <3>2, <4>1
    <3> QED BY <3>1, <3>2
  <2>5. \A p \in Explore!Pages : p <= offset =>
          p \in failedPages \/ \E i \in Shown' : profiles'[i][2] = p
    <3> SUFFICES ASSUME NEW p \in Explore!Pages, p <= offset, p \notin failedPages
                 PROVE  \E i \in Shown' : profiles'[i][2] = p
      OBVIOUS
    <3>1. CASE p = offset
      BY <1>5, <2>2, <3>1
    <3>2. CASE p # offset
      <4>1. p < offset
        BY <3>2, PagesTyped DEF Explore!Pages
      <4>2. PICK i \in Shown : profiles[i][2] = p
        BY <4>1 DEF ExploreInv, ListGrows
      <4> QED BY <2>2, <4>2
    <3> QED BY <3>1, <3>2
  <2>6. ListGrows'
    <3>1. \A p \in Explore!Pages : p < offset \/ p = offset => p <= offset
      BY PagesTyped DEF Explore!Pages
    <3> QED BY <1>1, <2>4, <2>5, <3>1 DEF ListGrows
  <2> QED BY <1>1, <1>4, <1>6, <2>3, <2>6, <2>7 DEF ExploreInv, OnePage, WithinList
<1> QED BY <1>7, <1>8

LEMMA PageLost ==
  ASSUME ExploreInv, NEW r \in pageReqs, Explore!PageFailed(r)
  PROVE  ExploreInv'
<1>1. /\ pageReqs' = pageReqs \ {r} /\ ~exploreLoading' /\ r.page <= Explore!MaxPage
      /\ failedPages' = failedPages \cup {r.page}
      /\ UNCHANGED <<filter, options, profiles, offset, hasMore>>
  BY DEF Explore!PageFailed
<1>2. exploreLoading' \in BOOLEAN /\ exploreError' \in BOOLEAN
  BY Zenon DEF Explore!PageFailed
<1>3. /\ offset \in Explore!Pages /\ exploreLoading /\ r.page = offset
  BY DEF ExploreInv, OnePage, Explore!TypeOK
<1>4. pageReqs' = {}
  BY <1>1 DEF ExploreInv, OnePage
<1>5. Explore!TypeOK'
  BY <1>1, <1>2, <1>3, <1>4 DEF ExploreInv, Explore!TypeOK
<1>6. ListGrows'
  BY <1>1, <1>3, PagesTyped DEF ExploreInv, ListGrows, Shown, Explore!Pages
<1>7. OnePage' /\ WithinList'
  BY <1>1, <1>3, <1>4, PagesTyped DEF ExploreInv, OnePage, WithinList
<1> QED BY <1>5, <1>6, <1>7 DEF ExploreInv

LEMMA ExploreKept ==
  ASSUME ExploreInv, [Explore!Next]_exploreVars
  PROVE  ExploreInv'
<1> USE DEF ExploreInv, Explore!TypeOK, ListGrows, OnePage, WithinList, Shown
<1>1. CASE UNCHANGED exploreVars
  BY <1>1 DEF exploreVars
<1>2. CASE Explore!OptionsLoaded
  <2>1. options' \in BOOLEAN
    BY <1>2, Zenon DEF Explore!OptionsLoaded
  <2> QED BY <1>2, <2>1 DEF Explore!OptionsLoaded
<1> QED BY <1>1, <1>2, Choosing, LoadingMore, PageComes, PageLost DEF Explore!Next

-----------------------------------------------------------------------------
(* The goals of the dashboard.                                             *)

GoalReq == [pc : {"free", "sent", "done"}, kind : {"none", "add", "edit", "delete"},
            goal : Goals!Goals \cup {0}, title : Titles \cup {None}, seen : Goals!List]

\* The requests that have changed a goal and whose answer is to come.
DoneOn(g) == {q \in Goals!Slots : goalReqs[q].pc = "done" /\ goalReqs[q].goal = g}

\* A request is made by a page that is loaded; a slot without one is of no kind; an
\* answer that is ok names a goal; a deleted goal has no title.
GoalsAsked ==
  /\ goalsView # "ready" => Goals!InFlight = {}
  /\ \A q \in Goals!Slots :
       /\ goalReqs[q].pc = "free" => goalReqs[q].kind = "none"
       /\ goalReqs[q].pc = "done" => goalReqs[q].goal \in Goals!Goals
       /\ goalReqs[q].kind = "delete" => goalReqs[q].title = None

\* Only goals that were made are in the database, in a list, in the form or asked about.
OnlyMade ==
  /\ goalForm.editing <= goalsMade
  /\ \A q \in Goals!Slots : goalReqs[q].goal <= goalsMade
  /\ \A g \in Goals!Goals : g > goalsMade =>
       /\ goalRows[g] = None /\ milestones[g] = None
       /\ \A q \in Goals!Slots : goalReqs[q].seen[g] = None

\* The screen has what the database has of a goal, unless an answer is to come: then it
\* is the only one, and has what was written.  A goal that is edited is in the list
\* whose edit it is, or deleted for good.
Right(g) ==
  /\ DoneOn(g) = {} => milestones[g] = goalRows[g]
  /\ \A q \in DoneOn(g) : goalReqs[q].title = goalRows[g] /\ DoneOn(g) = {q}
  /\ \A q \in Goals!Slots : goalReqs[q].kind = "edit" /\ goalReqs[q].goal = g =>
       goalReqs[q].seen[g] # None \/ goalRows[g] = None
  /\ goalForm.editing = g => milestones[g] # None \/ goalRows[g] = None

GoalsFollowed == goalsView = "ready" => \A g \in Goals!Goals \ excused : Right(g)

GoalsInv == Goals!TypeOK /\ GoalsAsked /\ OnlyMade /\ GoalsFollowed

LEMMA GoalsTyped ==
  ASSUME GoalsInv
  PROVE  /\ MaxGoals \in Nat /\ goalReqs \in [Goals!Slots -> GoalReq]
         /\ \A q \in Goals!Slots : /\ goalReqs[q] \in GoalReq /\ goalReqs[q].seen \in Goals!List
                                  /\ goalReqs[q].title \in Titles \cup {None}
                                  /\ goalReqs[q].goal \in Nat
         /\ goalRows \in Goals!List /\ milestones \in Goals!List
         /\ goalsMade \in Nat /\ goalForm.editing \in Nat
         /\ \A g \in Goals!Goals : g \in Nat /\ g # 0
<1>1. MaxGoals \in Nat /\ goalReqs \in [Goals!Slots -> GoalReq]
  BY FrontendAssumption DEF FrontendAssumption, Goals!GoalsAssumption, GoalsInv, Goals!TypeOK, GoalReq
<1>2. \A g \in Goals!Goals : g \in Nat /\ g # 0
  BY <1>1 DEF Goals!Goals
<1> QED BY <1>1, <1>2 DEF GoalsInv, Goals!TypeOK, GoalReq

LEMMA GoalsStarts ==
  ASSUME Goals!Init PROVE GoalsInv
<1>1. MaxGoals \in Nat /\ submitting \in BOOLEAN
  <2>1. submitting = FALSE
    BY Zenon DEF Goals!Init
  <2> QED BY <2>1, FrontendAssumption DEF FrontendAssumption, Goals!GoalsAssumption
<1>2. Goals!NoGoals \in Goals!List /\ \A g \in Goals!Goals : Goals!NoGoals[g] = None
  BY DEF Goals!NoGoals, Goals!List
<1>3. /\ goalForm \in [open : BOOLEAN, editing : Goals!Goals \cup {0}, title : Titles \cup {None}]
      /\ goalForm.editing = 0
  BY DEF Goals!Init, Goals!NoForm
<1>4. /\ goalReqs \in [Goals!Slots -> GoalReq]
      /\ \A q \in Goals!Slots : /\ goalReqs[q].pc = "free" /\ goalReqs[q].kind = "none"
                                /\ goalReqs[q].goal = 0 /\ goalReqs[q].seen = Goals!NoGoals
  BY <1>2 DEF Goals!Init, Goals!NoReq, GoalReq
<1>5. Goals!TypeOK
  BY <1>1, <1>2, <1>3, <1>4 DEF Goals!Init, Goals!TypeOK, GoalReq
<1>6. GoalsAsked /\ GoalsFollowed
  BY <1>4 DEF Goals!Init, GoalsAsked, GoalsFollowed, Goals!InFlight
<1>7. OnlyMade
  <2>1. \A g \in Goals!Goals : g \in Nat /\ (goalRows[g] # None => g \in 1 .. goalsMade)
    BY <1>1 DEF Goals!Init, Goals!Present, Goals!Goals
  <2>2. goalsMade \in Nat /\ milestones = Goals!NoGoals
    BY <1>1 DEF Goals!Init
  <2> QED BY <1>2, <1>3, <1>4, <2>1, <2>2 DEF OnlyMade
<1> QED BY <1>5, <1>6, <1>7 DEF GoalsInv

\* The page is loaded, and the form.
LEMMA GoalsScreen ==
  ASSUME GoalsInv,
         \/ Goals!Loaded \/ Goals!Redirected \/ Goals!OpenForm \/ Goals!CancelForm
         \/ \E g \in Goals!Goals : Goals!EditGoal(g)
         \/ \E t \in Titles : Goals!TypeTitle(t)
  PROVE  GoalsInv'
<1> USE DEF Goals!serverVars
<1>1. ASSUME UNCHANGED <<goalRows, goalsMade, goalsView, milestones, submitting, goalReqs, excused>>,
             goalForm' \in [open : BOOLEAN, editing : Goals!Goals \cup {0},
                            title : Titles \cup {None}],
             goalForm'.editing \in {0, goalForm.editing} \cup Goals!Present(milestones)
      PROVE  GoalsInv'
  <2>1. Goals!TypeOK' /\ GoalsAsked'
    BY <1>1 DEF GoalsInv, Goals!TypeOK, GoalsAsked, Goals!InFlight
  <2>2. goalForm'.editing <= goalsMade
    BY <1>1, GoalsTyped DEF GoalsInv, OnlyMade, Goals!Present
  <2>3. OnlyMade'
    BY <1>1, <2>2 DEF GoalsInv, OnlyMade
  <2>4. ASSUME NEW g \in Goals!Goals, Right(g) PROVE Right(g)'
    <3>1. DoneOn(g)' = DoneOn(g)
      BY <1>1 DEF DoneOn
    <3>2. goalForm'.editing = g => milestones[g] # None \/ goalRows[g] = None
      BY <1>1, <2>4, GoalsTyped DEF Right, Goals!Present
    <3> QED BY <1>1, <2>4, <3>1, <3>2 DEF Right
  <2> QED BY <1>1, <2>1, <2>3, <2>4 DEF GoalsInv, GoalsFollowed
<1>2. CASE Goals!Loaded
  <2>1. /\ \A q \in Goals!Slots : goalReqs[q].pc = "free"
        /\ UNCHANGED <<goalRows, goalsMade, goalForm, submitting, goalReqs>>
        /\ goalsView' = "ready"
    BY <1>2 DEF Goals!Loaded, GoalsInv, GoalsAsked, Goals!InFlight
  <2>2. /\ milestones' \in Goals!List /\ excused' \subseteq Goals!Goals
        /\ milestones' \in {goalRows, milestones}
        /\ \A g \in Goals!Goals \ excused' : milestones'[g] = goalRows[g]
    BY <1>2 DEF Goals!Loaded, GoalsInv, Goals!TypeOK
  <2>3. Goals!TypeOK'
    BY <2>1, <2>2 DEF GoalsInv, Goals!TypeOK
  <2>4. GoalsAsked'
    BY <2>1 DEF GoalsInv, GoalsAsked
  <2>5. OnlyMade'
    BY <2>1, <2>2 DEF GoalsInv, OnlyMade
  <2>6. ASSUME NEW g \in Goals!Goals, g \notin excused' PROVE Right(g)'
    <3>1. DoneOn(g)' = {} /\ milestones'[g] = goalRows[g]
      BY <2>1, <2>2, <2>6 DEF DoneOn
    <3>2. goalReqs' = goalReqs /\ \A q \in Goals!Slots : goalReqs[q].kind # "edit"
      BY <2>1 DEF GoalsInv, GoalsAsked
    <3> QED BY <2>1, <3>1, <3>2 DEF Right
  <2> QED BY <2>3, <2>4, <2>5, <2>6 DEF GoalsInv, GoalsFollowed
<1>3. CASE Goals!Redirected
  <2>1. /\ goalsView = "loading" /\ goalsView' = "away"
        /\ UNCHANGED <<goalRows, goalsMade, milestones, goalForm, submitting, goalReqs, excused>>
    BY <1>3 DEF Goals!Redirected
  <2> QED BY <2>1 DEF GoalsInv, Goals!TypeOK, GoalsAsked, OnlyMade, GoalsFollowed, Goals!InFlight
<1>4. CASE Goals!OpenForm \/ Goals!CancelForm
  <2>1. goalForm' \in {[goalForm EXCEPT !.open = TRUE], Goals!NoForm}
    BY <1>4 DEF Goals!OpenForm, Goals!CancelForm
  <2>2. /\ goalForm' \in [open : BOOLEAN, editing : Goals!Goals \cup {0}, title : Titles \cup {None}]
        /\ goalForm'.editing \in {0, goalForm.editing}
    <3>1. /\ Goals!NoForm \in [open : BOOLEAN, editing : Goals!Goals \cup {0},
                              title : Titles \cup {None}]
          /\ Goals!NoForm.editing = 0
          /\ goalForm \in [open : BOOLEAN, editing : Goals!Goals \cup {0}, title : Titles \cup {None}]
      BY DEF Goals!NoForm, GoalsInv, Goals!TypeOK
    <3> QED BY <2>1, <3>1
  <2> QED BY <1>1, <1>4, <2>2 DEF Goals!OpenForm, Goals!CancelForm
<1>5. ASSUME NEW g \in Goals!Goals, Goals!EditGoal(g)
      PROVE  GoalsInv'
  BY <1>1, <1>5 DEF Goals!EditGoal, GoalsInv, Goals!TypeOK, Goals!List
<1>6. ASSUME NEW t \in Titles, Goals!TypeTitle(t)
      PROVE  GoalsInv'
  BY <1>1, <1>6 DEF Goals!TypeTitle, GoalsInv, Goals!TypeOK
<1> QED BY <1>2, <1>3, <1>4, <1>5, <1>6

\* A request is made: its handler remembers the screen.
LEMMA GoalsRequested ==
  ASSUME GoalsInv, NEW q \in Goals!Slots,
         Goals!Submit(q) \/ \E g \in Goals!Goals : Goals!Delete(q, g)
  PROVE  GoalsInv'
<1> USE DEF Goals!serverVars, Goals!screenVars
<1>1. PICK kind \in {"add", "edit", "delete"}, g \in Goals!Goals \cup {0}, t \in Titles \cup {None} :
        /\ Goals!Request(q, kind, g, t) /\ (kind = "delete" => t = None)
        /\ (kind = "edit" => g = goalForm.editing) /\ g <= goalsMade
        /\ goalsView = "ready" /\ submitting' \in BOOLEAN
        /\ UNCHANGED <<goalRows, goalsMade, goalsView, milestones, goalForm, excused>>
  <2>1. ASSUME NEW g \in Goals!Goals, Goals!Delete(q, g)
        PROVE  /\ Goals!Request(q, "delete", g, None) /\ goalsView = "ready"
               /\ submitting' \in BOOLEAN /\ g <= goalsMade
               /\ UNCHANGED <<goalRows, goalsMade, goalsView, milestones, goalForm, excused>>
    <3>1. g <= goalsMade
      BY <2>1, GoalsTyped DEF Goals!Delete, Goals!Present, GoalsInv, OnlyMade
    <3> QED BY <2>1, <3>1 DEF Goals!Delete, GoalsInv, Goals!TypeOK
  <2>2. ASSUME Goals!Submit(q)
        PROVE  \E kind \in {"add", "edit"} :
                 /\ Goals!Request(q, kind, goalForm.editing, goalForm.title) /\ goalsView = "ready"
                 /\ goalForm.editing \in Goals!Goals \cup {0} /\ goalForm.title \in Titles \cup {None}
                 /\ submitting' \in BOOLEAN /\ goalForm.editing <= goalsMade
                 /\ UNCHANGED <<goalRows, goalsMade, goalsView, milestones, goalForm, excused>>
    <3>1. submitting' \in BOOLEAN
      BY <2>2, Zenon DEF Goals!Submit
    <3>2. /\ goalForm.editing \in Goals!Goals \cup {0} /\ goalForm.title \in Titles \cup {None}
          /\ goalForm.editing <= goalsMade
      BY DEF GoalsInv, Goals!TypeOK, OnlyMade
    <3> QED BY <2>2, <3>1, <3>2 DEF Goals!Submit
  <2> QED BY <2>1, <2>2
<1> DEFINE new == [pc |-> "sent", kind |-> kind, goal |-> g, title |-> t, seen |-> milestones]
<1>2. /\ new \in GoalReq /\ new.pc = "sent" /\ new.kind = kind /\ new.title = t
      /\ new.seen = milestones /\ new.goal = g
  BY GoalsTyped DEF GoalReq
<1>3. goalReqs[q].pc = "free" /\ goalReqs' = [goalReqs EXCEPT ![q] = new]
  BY <1>1 DEF Goals!Request
<1> HIDE DEF new
<1>4. /\ goalReqs' \in [Goals!Slots -> GoalReq] /\ goalReqs'[q] = new
      /\ \A p \in Goals!Slots \ {q} : goalReqs'[p] = goalReqs[p]
  BY <1>2, <1>3, GoalsTyped
<1>5. Goals!TypeOK'
  BY <1>1, <1>4 DEF GoalsInv, Goals!TypeOK, GoalReq
<1>6. GoalsAsked'
  BY <1>1, <1>2, <1>4 DEF GoalsInv, GoalsAsked
<1>7. OnlyMade'
  BY <1>1, <1>2, <1>4 DEF GoalsInv, OnlyMade
<1>8. ASSUME NEW h \in Goals!Goals, Right(h) PROVE Right(h)'
  <2>1. DoneOn(h)' = DoneOn(h) /\ q \notin DoneOn(h)
    BY <1>2, <1>3, <1>4 DEF DoneOn
  <2>2. \A p \in DoneOn(h) : goalReqs'[p].title = goalRows[h] /\ DoneOn(h) = {p}
    BY <1>4, <1>8, <2>1 DEF Right, DoneOn
  <2>3. kind = "edit" /\ g = h => milestones[h] # None \/ goalRows[h] = None
    BY <1>1, <1>8 DEF Right
  <2>4. \A p \in Goals!Slots : goalReqs'[p].kind = "edit" /\ goalReqs'[p].goal = h =>
          goalReqs'[p].seen[h] # None \/ goalRows[h] = None
    BY <1>2, <1>4, <1>8, <2>3 DEF Right
  <2> QED BY <1>1, <1>8, <2>1, <2>2, <2>4 DEF Right
<1>9. GoalsFollowed'
  BY <1>1, <1>8 DEF GoalsInv, GoalsFollowed
<1> QED BY <1>5, <1>6, <1>7, <1>9 DEF GoalsInv

\* The server changes one goal, and its answer is to come: alone, or the goal is excused.
LEMMA GoalsServed ==
  ASSUME GoalsInv, NEW q \in Goals!Slots,
         Goals!Create(q) \/ Goals!Update(q) \/ Goals!Remove(q)
  PROVE  GoalsInv'
<1> USE DEF Goals!screenVars
<1>1. PICK g \in Goals!Goals :
        /\ Goals!Answered(q, g) /\ goalReqs[q].pc = "sent"
        /\ goalRows' = [goalRows EXCEPT ![g] = goalReqs[q].title]
        /\ \/ goalRows[g] # None /\ goalsMade' = goalsMade /\ goalReqs[q].goal = g
           \/ g = goalsMade + 1 /\ goalsMade' = g /\ goalReqs[q].kind = "add"
        /\ goalsMade' \in 0 .. MaxGoals
        /\ excused \subseteq excused' /\ excused' \subseteq Goals!Goals
        /\ g \notin excused' => DoneOn(g) = {}
        /\ UNCHANGED <<goalsView, milestones, goalForm, submitting>>
  <2>1. CASE Goals!Create(q)
    <3>1. goalsMade + 1 \in Goals!Goals /\ goalsMade + 1 \in 0 .. MaxGoals
      BY <2>1, GoalsTyped DEF Goals!Create, GoalsInv, Goals!TypeOK, Goals!Goals
    <3>2. DoneOn(goalsMade + 1) = {}
      BY GoalsTyped DEF DoneOn, GoalsInv, OnlyMade
    <3>3. excused' = excused /\ excused \subseteq Goals!Goals
      BY <2>1 DEF Goals!Create, GoalsInv, Goals!TypeOK
    <3> QED BY <2>1, <3>1, <3>2, <3>3 DEF Goals!Create
  <2>2. ASSUME NEW h \in Goals!Goals, Goals!WrittenTwice(h)
        PROVE  /\ excused \subseteq excused' /\ excused' \subseteq Goals!Goals
               /\ h \notin excused' => DoneOn(h) = {}
    BY <2>2 DEF Goals!WrittenTwice, DoneOn, GoalsInv, Goals!TypeOK
  <2>3. goalsMade \in 0 .. MaxGoals
    BY DEF GoalsInv, Goals!TypeOK
  <2>4. CASE Goals!Update(q)
    BY <2>2, <2>3, <2>4 DEF Goals!Update, Goals!Present
  <2>5. CASE Goals!Remove(q)
    <3>1. goalReqs[q].title = None
      BY <2>5 DEF Goals!Remove, GoalsInv, GoalsAsked
    <3> QED BY <2>2, <2>3, <2>5, <3>1 DEF Goals!Remove, Goals!Present
  <2> QED BY <2>1, <2>4, <2>5
<1> DEFINE new == [goalReqs[q] EXCEPT !.pc = "done", !.goal = g]
<1>2. /\ new \in GoalReq /\ new.pc = "done" /\ new.goal = g /\ new.kind = goalReqs[q].kind
      /\ new.title = goalReqs[q].title /\ new.seen = goalReqs[q].seen
  BY GoalsTyped DEF GoalReq
<1>3. goalReqs' = [goalReqs EXCEPT ![q] = new]
  BY <1>1, GoalsTyped DEF Goals!Answered
<1> HIDE DEF new
<1>4. /\ goalReqs' \in [Goals!Slots -> GoalReq] /\ goalReqs'[q] = new
      /\ \A p \in Goals!Slots \ {q} : goalReqs'[p] = goalReqs[p]
  BY <1>2, <1>3, GoalsTyped
<1>5. /\ goalRows' \in Goals!List /\ goalRows'[g] = goalReqs[q].title
      /\ \A h \in Goals!Goals \ {g} : goalRows'[h] = goalRows[h]
  BY <1>1, GoalsTyped DEF Goals!List
<1>6. Goals!TypeOK'
  BY <1>1, <1>4, <1>5 DEF GoalsInv, Goals!TypeOK, GoalReq
<1>7. goalsView = "ready"
  BY <1>1 DEF GoalsInv, GoalsAsked, Goals!InFlight
<1>8. GoalsAsked'
  BY <1>1, <1>2, <1>4, <1>7 DEF GoalsInv, GoalsAsked
<1>9. /\ DoneOn(g)' = DoneOn(g) \cup {q} /\ q \notin DoneOn(g)
      /\ \A h \in Goals!Goals \ {g} : DoneOn(h)' = DoneOn(h)
  <2>1. DoneOn(g)' = DoneOn(g) \cup {q} /\ q \notin DoneOn(g)
    BY <1>1, <1>2, <1>4 DEF DoneOn
  <2>2. \A h \in Goals!Goals \ {g} : DoneOn(h)' = DoneOn(h)
    BY <1>1, <1>2, <1>4 DEF DoneOn
  <2> QED BY <2>1, <2>2
<1>10. \A p \in Goals!Slots : /\ goalReqs'[p].seen = goalReqs[p].seen
                              /\ goalReqs'[p].kind = goalReqs[p].kind
                              /\ goalReqs'[p].title = goalReqs[p].title
                              /\ goalReqs'[p].goal \in {g, goalReqs[p].goal}
                              /\ p # q => goalReqs'[p].goal = goalReqs[p].goal
  BY <1>2, <1>4
<1>11. goalsMade <= goalsMade' /\ g <= goalsMade' /\ goalsMade' \in Nat
  BY <1>1, GoalsTyped DEF GoalsInv, OnlyMade
<1>12. OnlyMade'
  <2>1. \A p \in Goals!Slots : goalReqs'[p].goal <= goalsMade'
    BY <1>10, <1>11, GoalsTyped DEF GoalsInv, OnlyMade
  <2>2. goalForm.editing <= goalsMade'
    BY <1>11, GoalsTyped DEF GoalsInv, OnlyMade
  <2>3. ASSUME NEW h \in Goals!Goals, h > goalsMade'
        PROVE  /\ goalRows'[h] = None /\ milestones[h] = None
               /\ \A p \in Goals!Slots : goalReqs'[p].seen[h] = None
    <3>1. h > goalsMade /\ h # g
      BY <1>11, <2>3, GoalsTyped
    <3> QED BY <1>5, <1>10, <3>1 DEF GoalsInv, OnlyMade
  <2> QED BY <1>1, <2>1, <2>2, <2>3 DEF OnlyMade
<1>13. ASSUME NEW h \in Goals!Goals, h # g, Right(h) PROVE Right(h)'
  <2>1. DoneOn(h)' = DoneOn(h) /\ goalRows'[h] = goalRows[h]
    BY <1>5, <1>9, <1>13
  <2>2. \A p \in DoneOn(h) : goalReqs'[p].title = goalRows[h] /\ DoneOn(h) = {p}
    BY <1>10, <1>13 DEF Right, DoneOn
  <2>3. \A p \in Goals!Slots : goalReqs'[p].kind = "edit" /\ goalReqs'[p].goal = h =>
          goalReqs'[p].seen[h] # None \/ goalRows[h] = None
    BY <1>10, <1>13 DEF Right
  <2> QED BY <1>1, <1>13, <2>1, <2>2, <2>3 DEF Right
<1>14. ASSUME g \notin excused', Right(g) PROVE Right(g)'
  <2>1. DoneOn(g)' = {q} /\ goalReqs'[q].title = goalRows'[g]
    BY <1>1, <1>5, <1>9, <1>10, <1>14
  <2>2. ASSUME NEW p \in Goals!Slots, goalReqs'[p].kind = "edit", goalReqs'[p].goal = g
        PROVE  goalReqs'[p].seen[g] # None
    <3>1. goalRows[g] # None /\ goalReqs[p].goal = g
      <4>1. CASE p = q
        BY <1>1, <1>10, <2>2, <4>1
      <4>2. CASE p # q
        <5>1. goalReqs[p].goal = g /\ goalReqs[p].goal <= goalsMade
          BY <1>10, <2>2, <4>2 DEF GoalsInv, OnlyMade
        <5>2. g # goalsMade + 1
          BY <5>1, GoalsTyped
        <5> QED BY <1>1, <5>1, <5>2
      <4> QED BY <4>1, <4>2
    <3> QED BY <1>10, <1>14, <2>2, <3>1 DEF Right
  <2>3. goalForm.editing = g => milestones[g] # None
    <3>1. goalForm.editing <= goalsMade
      BY DEF GoalsInv, OnlyMade
    <3>2. goalForm.editing = g => goalRows[g] # None
      BY <1>1, <3>1, GoalsTyped
    <3> QED BY <1>14, <3>2 DEF Right
  <2> QED BY <1>1, <2>1, <2>2, <2>3 DEF Right
<1>15. GoalsFollowed'
  BY <1>1, <1>7, <1>13, <1>14 DEF GoalsInv, GoalsFollowed
<1> QED BY <1>6, <1>8, <1>12, <1>15 DEF GoalsInv

\* An answer: the goal is excused if it is lost, the others if the list that the handler
\* remembers has them otherwise; else that list is right.
LEMMA GoalsAnswered ==
  ASSUME GoalsInv, NEW q \in Goals!Slots, Goals!Succeed(q) \/ Goals!Fail(q)
  PROVE  GoalsInv'
<1> USE DEF Goals!serverVars
<1>1. /\ Goals!NoReq \in GoalReq /\ Goals!NoReq.pc = "free" /\ Goals!NoReq.kind = "none"
      /\ Goals!NoReq.goal = 0 /\ \A g \in Goals!Goals : Goals!NoReq.seen[g] = None
  BY DEF Goals!NoReq, GoalReq, Goals!NoGoals, Goals!List
<1>2. /\ goalReqs' \in [Goals!Slots -> GoalReq] /\ goalReqs'[q] = Goals!NoReq
      /\ \A p \in Goals!Slots \ {q} : goalReqs'[p] = goalReqs[p]
  BY <1>1, GoalsTyped DEF Goals!Succeed, Goals!Fail, Goals!Finish
<1>3. /\ goalReqs[q].pc # "free" /\ goalsView = "ready"
      /\ goalReqs[q].pc = "done" => goalReqs[q].goal \in Goals!Goals
      /\ UNCHANGED <<goalRows, goalsMade, goalsView>>
  <2>1. goalReqs[q].pc # "free" /\ UNCHANGED <<goalRows, goalsMade, goalsView>>
    BY DEF Goals!Succeed, Goals!Fail
  <2> QED BY <2>1 DEF GoalsInv, GoalsAsked, Goals!InFlight
<1>4. \A g : /\ DoneOn(g)' = DoneOn(g) \ {q}
             /\ ~(goalReqs[q].pc = "done" /\ goalReqs[q].goal = g) => q \notin DoneOn(g)
  <2> TAKE g
  <2>1. DoneOn(g)' = DoneOn(g) \ {q}
    BY <1>1, <1>2 DEF DoneOn
  <2> QED BY <2>1 DEF DoneOn
<1>5. GoalsAsked'
  BY <1>1, <1>2, <1>3 DEF GoalsInv, GoalsAsked
<1>6. /\ submitting' \in BOOLEAN
      /\ goalForm' \in [open : BOOLEAN, editing : Goals!Goals \cup {0}, title : Titles \cup {None}]
      /\ goalForm'.editing \in {0, goalForm.editing}
  <2>1. /\ Goals!NoForm \in [open : BOOLEAN, editing : Goals!Goals \cup {0}, title : Titles \cup {None}]
        /\ Goals!NoForm.editing = 0
    BY DEF Goals!NoForm
  <2>2. goalForm' \in {goalForm, Goals!NoForm}
    BY DEF Goals!Succeed, Goals!Fail
  <2>3. submitting' \in BOOLEAN
    <3>1. CASE Goals!Succeed(q)
      <4>1. submitting' = submitting \/ submitting' = FALSE
        BY <3>1, Zenon DEF Goals!Succeed
      <4> QED BY <4>1 DEF GoalsInv, Goals!TypeOK
    <3>2. CASE Goals!Fail(q)
      BY <3>2 DEF Goals!Fail
    <3> QED BY <3>1, <3>2
  <2> QED BY <2>1, <2>2, <2>3 DEF GoalsInv, Goals!TypeOK
\* What the answer leaves as it is.
<1>7. ASSUME \A g \in Goals!Goals : g > goalsMade => milestones'[g] = None
      PROVE  OnlyMade'
  <2>1. goalForm'.editing <= goalsMade /\ \A p \in Goals!Slots : goalReqs'[p].goal <= goalsMade
    BY <1>1, <1>2, <1>6, GoalsTyped DEF GoalsInv, OnlyMade
  <2>2. \A g \in Goals!Goals : g > goalsMade => \A p \in Goals!Slots : goalReqs'[p].seen[g] = None
    BY <1>1, <1>2 DEF GoalsInv, OnlyMade
  <2> QED BY <1>3, <1>7, <2>1, <2>2 DEF GoalsInv, OnlyMade
<1>8. ASSUME NEW g \in Goals!Goals, Right(g), milestones'[g] = milestones[g], q \notin DoneOn(g)
      PROVE  Right(g)'
  <2>1. DoneOn(g)' = DoneOn(g)
    BY <1>4, <1>8
  <2>2. \A p \in DoneOn(g) : goalReqs'[p].title = goalRows[g] /\ DoneOn(g) = {p}
    BY <1>2, <1>8 DEF Right, DoneOn
  <2>3. \A p \in Goals!Slots : goalReqs'[p].kind = "edit" /\ goalReqs'[p].goal = g =>
          goalReqs'[p].seen[g] # None \/ goalRows[g] = None
    BY <1>1, <1>2, <1>8 DEF Right
  <2>4. goalForm'.editing = g => milestones[g] # None \/ goalRows[g] = None
    BY <1>6, <1>8, GoalsTyped DEF Right
  <2> QED BY <1>3, <1>8, <2>1, <2>2, <2>3, <2>4 DEF Right
<1>9. CASE Goals!Fail(q)
  <2>1. /\ UNCHANGED milestones
        /\ excused' = IF goalReqs[q].pc = "done" THEN excused \cup {goalReqs[q].goal} ELSE excused
    BY <1>9 DEF Goals!Fail
  <2>2. Goals!TypeOK'
    BY <1>2, <1>3, <1>6, <2>1 DEF GoalsInv, Goals!TypeOK, GoalReq
  <2>3. ASSUME NEW g \in Goals!Goals \ excused' PROVE Right(g)'
    <3>1. g \notin excused /\ q \notin DoneOn(g)
      BY <1>4, <2>1, <2>3
    <3> QED BY <1>3, <1>8, <2>1, <3>1 DEF GoalsInv, GoalsFollowed
  <2>4. OnlyMade'
    BY <1>7, <2>1 DEF GoalsInv, OnlyMade
  <2> QED BY <1>5, <2>2, <2>3, <2>4 DEF GoalsInv, GoalsFollowed
<1>10. CASE Goals!Succeed(q)
  <2>1. goalReqs[q].pc = "done"
    BY <1>10 DEF Goals!Succeed
  <2>2. PICK own \in Goals!Goals : own = goalReqs[q].goal
    BY <1>3, <2>1
  <2>3. milestones' = Goals!ListWith(q) /\ excused' = excused \cup Goals!Undone(q)
    BY <1>10 DEF Goals!Succeed
  <2>4. /\ milestones' \in Goals!List
        /\ \A g \in Goals!Goals \ {own} : milestones'[g] = goalReqs[q].seen[g]
        /\ milestones'[own] =
             IF goalReqs[q].kind = "edit" /\ goalReqs[q].seen[own] = None
             THEN goalReqs[q].seen[own] ELSE goalReqs[q].title
    BY <2>2, <2>3, GoalsTyped DEF Goals!ListWith, Goals!List, Goals!Present
  <2>5. Goals!TypeOK'
    BY <1>2, <1>3, <1>6, <2>3, <2>4 DEF GoalsInv, Goals!TypeOK, GoalReq, Goals!Undone
  <2>6. OnlyMade'
    <3>1. own <= goalsMade
      BY <2>2 DEF GoalsInv, OnlyMade
    <3>2. ASSUME NEW g \in Goals!Goals, g > goalsMade PROVE milestones'[g] = None
      <4>1. g # own
        BY <3>1, <3>2, GoalsTyped
      <4> QED BY <2>4, <3>2, <4>1 DEF GoalsInv, OnlyMade
    <3> QED BY <1>7, <3>2
  <2>7. ASSUME NEW g \in Goals!Goals, g \notin excused', g # own PROVE Right(g)'
    <3>1. g \notin excused /\ goalReqs[q].seen[g] = milestones[g]
      BY <2>2, <2>3, <2>7 DEF Goals!Undone
    <3>2. q \notin DoneOn(g)
      BY <1>4, <2>2, <2>7
    <3> QED BY <1>3, <1>8, <2>4, <2>7, <3>1, <3>2 DEF GoalsInv, GoalsFollowed
  <2>8. ASSUME own \notin excused' PROVE Right(own)'
    <3>1. Right(own)
      BY <1>3, <2>3, <2>8 DEF GoalsInv, GoalsFollowed
    <3>2. DoneOn(own)' = {} /\ goalReqs[q].title = goalRows[own]
      BY <1>4, <2>1, <2>2, <3>1 DEF Right, DoneOn
    <3>3. milestones'[own] = goalRows[own]
      BY <2>2, <2>4, <3>1, <3>2 DEF Right
    <3>4. \A p \in Goals!Slots : goalReqs'[p].kind = "edit" /\ goalReqs'[p].goal = own =>
            goalReqs'[p].seen[own] # None \/ goalRows[own] = None
      BY <1>1, <1>2, <3>1 DEF Right
    <3> QED BY <1>3, <3>2, <3>3, <3>4 DEF Right
  <2> QED BY <1>5, <2>5, <2>6, <2>7, <2>8 DEF GoalsInv, GoalsFollowed
<1> QED BY <1>9, <1>10

LEMMA GoalsKept ==
  ASSUME GoalsInv, [Goals!Next]_goalVars
  PROVE  GoalsInv'
<1>1. CASE UNCHANGED goalVars
  <2>1. UNCHANGED <<goalRows, goalsMade, goalsView, milestones, goalForm, submitting, goalReqs, excused>>
    BY <1>1 DEF goalVars
  <2>2. \A g \in Goals!Goals : Right(g) => Right(g)'
    BY <2>1 DEF Right, DoneOn
  <2> QED BY <2>1, <2>2 DEF GoalsInv, Goals!TypeOK, GoalsAsked, OnlyMade, GoalsFollowed, Goals!InFlight
<1> QED BY <1>1, GoalsScreen, GoalsRequested, GoalsServed, GoalsAnswered DEF Goals!Next

-----------------------------------------------------------------------------
(* The payment.                                                            *)

\* The wallets, the form and the balances are well-formed.
ScreenOK ==
  /\ stored \in Panel!Holder /\ shell \in Panel!Holder /\ visitor \in Panel!Holder
  /\ connects \in 0 .. MaxConnects
  /\ form \in [amount : Amounts \cup {None}, note : Notes \cup {None},
               asset : Panel!Assets, again : BOOLEAN]
  /\ loads \subseteq {"xlm", "all"} \X Wallets
  /\ balance \in [of : Panel!Holder, error : {"none", "missing", "failed"}]
  /\ balances \in Panel!Holder

\* A run of handleSend (j) and its transaction (x): there is none until it is signed,
\* what is signed is what was asked for, it is submitted once, and what follows the
\* wait follows its inclusion.
InStep(j, x) ==
  /\ j.pc \notin {"idle", "over"} => j.src \in Wallets
  /\ j.pc \in {"idle", "build", "sign", "submit"} => x.state = "none"
  /\ (j.pc = "submit" \/ (j.pc = "wait" /\ x.state # "dropped")) =>
       x.amount = j.amount /\ x.note = j.note
  /\ j.pc \in {"recur", "reload"} => x.state = "included"

PaymentsOK ==
  /\ sending \in BOOLEAN /\ jobs \in [Panel!Sends -> Panel!Job] /\ txs \in [Panel!Sends -> Panel!Tx]
  /\ seqNo \in [Wallets -> Nat] /\ recurring \subseteq Panel!Sends
  /\ \A s \in Panel!Sends : InStep(jobs[s], txs[s])
  /\ \A s \in recurring : txs[s].state = "included"

\* The dialog: it is about an included transaction, and a good verdict ends the polling.
DialogOK ==
  /\ hash \in 0 .. MaxSends
  /\ receipt \in [amount : Amounts \cup {None}, note : Notes \cup {None}]
  /\ status \in {"confirming", "confirmed", "finalized", "failed"}
  /\ done \in BOOLEAN /\ finalizing \in BOOLEAN /\ ticks \in 0 .. MaxTicks + 1
  /\ checks \in [0 .. MaxTicks -> 0 .. MaxAttempts]
  /\ hash # 0 => /\ txs[hash].state = "included"
                 /\ receipt = [amount |-> txs[hash].amount, note |-> txs[hash].note]
  /\ status \in {"confirmed", "finalized"} \/ finalizing => done

PanelInv == ScreenOK /\ PaymentsOK /\ DialogOK

\* The bounds, and what a balance covers.
LEMMA PanelBounds ==
  /\ MaxSends \in Nat \ {0} /\ MaxConnects \in Nat /\ MaxTicks \in Nat \ {0}
  /\ MaxAttempts \in Nat \ {0} /\ None \notin Wallets /\ XLM \in Panel!Assets
  /\ \A w \in Panel!Holder :
       Panel!Held(w) \subseteq Panel!Assets /\ Panel!Payable(w) \subseteq Panel!Assets
<1>1. /\ MaxSends \in Nat \ {0} /\ MaxConnects \in Nat /\ MaxTicks \in Nat \ {0}
      /\ MaxAttempts \in Nat \ {0} /\ None \notin Wallets
      /\ Covers \in [Wallets -> SUBSET Panel!Assets]
  BY FrontendAssumption DEF FrontendAssumption, Panel!PanelAssumption
<1>2. \A w \in Panel!Holder : Panel!Held(w) \subseteq Panel!Assets
  BY <1>1 DEF Panel!Holder, Panel!Held
<1>3. \A w \in Panel!Holder : Panel!Payable(w) \subseteq Panel!Assets
  BY <1>2 DEF Panel!Payable
<1> QED BY <1>1, <1>2, <1>3 DEF Panel!Assets

LEMMA PanelStarts ==
  ASSUME Panel!Init PROVE PanelInv
<1>1. ScreenOK
  <2>1. form \in [amount : Amounts \cup {None}, note : Notes \cup {None},
                 asset : Panel!Assets, again : BOOLEAN]
    BY PanelBounds DEF Panel!Init
  <2>2. loads \subseteq {"xlm", "all"} \X Wallets
    <3>1. CASE visitor = None
      BY <3>1 DEF Panel!Init
    <3>2. CASE visitor \in Wallets
      BY <3>2, PanelBounds DEF Panel!Init
    <3> QED BY <3>1, <3>2 DEF Panel!Init, Panel!Holder
  <2>3. balance \in [of : Panel!Holder, error : {"none", "missing", "failed"}]
    BY DEF Panel!Init, Panel!Holder
  <2> QED BY <2>1, <2>2, <2>3, PanelBounds DEF Panel!Init, ScreenOK, Panel!Holder
<1>2. PaymentsOK
  <2>1. /\ Panel!NoJob \in Panel!Job /\ Panel!NoJob.pc = "idle"
        /\ Panel!NoTx \in Panel!Tx /\ Panel!NoTx.state = "none"
    BY PanelBounds DEF Panel!NoJob, Panel!Job, Panel!NoTx, Panel!Tx, Panel!Holder
  <2>2. /\ \A s \in Panel!Sends : jobs[s] = Panel!NoJob /\ txs[s] = Panel!NoTx
        /\ jobs \in [Panel!Sends -> Panel!Job] /\ txs \in [Panel!Sends -> Panel!Tx]
        /\ seqNo \in [Wallets -> Nat] /\ recurring = {}
    BY <2>1 DEF Panel!Init
  <2>3. \A s \in Panel!Sends : InStep(jobs[s], txs[s])
    BY <2>1, <2>2 DEF InStep
  <2>4. sending \in BOOLEAN
    BY Zenon DEF Panel!Init
  <2> QED BY <2>2, <2>3, <2>4 DEF PaymentsOK
<1>3. DialogOK
  <2>1. done \in BOOLEAN /\ finalizing \in BOOLEAN
    BY Zenon DEF Panel!Init
  <2>2. /\ hash = 0 /\ status = "confirming" /\ ~finalizing /\ ticks = 0
        /\ receipt \in [amount : Amounts \cup {None}, note : Notes \cup {None}]
        /\ checks \in [0 .. MaxTicks -> 0 .. MaxAttempts]
    BY PanelBounds DEF Panel!Init, Panel!NoReceipt, Panel!NoChecks
  <2> QED BY <2>1, <2>2, PanelBounds DEF DialogOK
<1> QED BY <1>1, <1>2, <1>3 DEF PanelInv

\* The wallets, the balances and the fields.
LEMMA ScreenSteps ==
  ASSUME PanelInv,
         \/ \E w \in Wallets : \/ Panel!Connect(w) \/ Panel!BalanceLoaded(w)
                             \/ Panel!BalancesLoaded(w)
         \/ Panel!Disconnect \/ Panel!Refresh \/ Panel!EditForm
  PROVE  ScreenOK' /\ UNCHANGED <<sending, jobs, Panel!ledgerVars, Panel!dialogVars>>
<1> USE PanelBounds DEF Panel!walletVars, Panel!formVars
<1>0. ScreenOK /\ \A w \in Wallets : w \in Panel!Holder
  BY DEF PanelInv, Panel!Holder
<1>1. ASSUME NEW w \in Wallets, Panel!Connect(w)
      PROVE  ScreenOK'
  BY <1>0, <1>1 DEF Panel!Connect, Panel!Visit, ScreenOK
<1>2. ASSUME NEW w \in Wallets, Panel!BalanceLoaded(w)
      PROVE  ScreenOK'
  <2>1. balance' \in [of : Panel!Holder, error : {"none", "missing", "failed"}]
    BY <1>0, <1>2 DEF Panel!BalanceLoaded, ScreenOK
  <2> QED BY <1>0, <1>2, <2>1 DEF Panel!BalanceLoaded, ScreenOK
<1>3. ASSUME NEW w \in Wallets, Panel!BalancesLoaded(w)
      PROVE  ScreenOK'
  <2>1. balances' \in Panel!Holder
    BY <1>0, <1>3 DEF Panel!BalancesLoaded, Panel!Holder
  <2>2. PICK a \in Panel!Kept(form.asset, balances') : form' = [form EXCEPT !.asset = a]
    BY <1>3 DEF Panel!BalancesLoaded
  <2>3. a \in Panel!Assets
    BY <1>0, <2>1, <2>2 DEF Panel!Kept, ScreenOK
  <2>4. form' \in [amount : Amounts \cup {None}, note : Notes \cup {None},
                  asset : Panel!Assets, again : BOOLEAN]
    BY <1>0, <2>2, <2>3 DEF ScreenOK
  <2> QED BY <1>0, <1>3, <2>1, <2>4 DEF Panel!BalancesLoaded, ScreenOK
<1>4. CASE Panel!Disconnect
  BY <1>0, <1>4 DEF Panel!Disconnect, ScreenOK, Panel!Holder
<1>5. CASE Panel!Refresh
  <2>1. balance' \in [of : Panel!Holder, error : {"none", "missing", "failed"}]
    BY <1>0, <1>5 DEF Panel!Refresh, ScreenOK
  <2>2. loads' \subseteq {"xlm", "all"} \X Wallets
    BY <1>0, <1>5 DEF Panel!Refresh, ScreenOK, Panel!Holder
  <2> QED BY <1>0, <1>5, <2>1, <2>2 DEF Panel!Refresh, ScreenOK
<1>6. CASE Panel!EditForm
  <2>1. form' \in [amount : Amounts \cup {None}, note : Notes \cup {None},
                  asset : Panel!Assets, again : BOOLEAN]
    <3>1. CASE \E a \in Panel!Payable(balances) \ {form.asset} : form' = [form EXCEPT !.asset = a]
      BY <1>0, <3>1 DEF ScreenOK
    <3>2. CASE \/ \E v \in Amounts \ {form.amount} : form' = [form EXCEPT !.amount = v]
               \/ \E n \in Notes \ {form.note} : form' = [form EXCEPT !.note = n]
      BY <1>0, <3>2 DEF ScreenOK
    <3>3. CASE form' = [form EXCEPT !.again = ~@]
      BY <1>0, <3>3 DEF ScreenOK
    <3> QED BY <1>6, <3>1, <3>2, <3>3 DEF Panel!EditForm
  <2> QED BY <1>0, <1>6, <2>1 DEF Panel!EditForm, ScreenOK
<1>7. UNCHANGED <<sending, jobs, Panel!ledgerVars, Panel!dialogVars>>
  BY DEF Panel!Connect, Panel!BalanceLoaded, Panel!BalancesLoaded, Panel!Disconnect,
         Panel!Refresh, Panel!EditForm
<1> QED BY <1>1, <1>2, <1>3, <1>4, <1>5, <1>6, <1>7

\* Included transactions stay as they are.
Settled == \A r \in Panel!Sends : txs[r].state = "included" => txs'[r] = txs[r]

\* One run moves, and its transaction with it.
LEMMA RunMoves ==
  ASSUME PaymentsOK, NEW s \in Panel!Sends, NEW j \in Panel!Job, NEW x \in Panel!Tx,
         jobs' = [jobs EXCEPT ![s] = j], txs' = [txs EXCEPT ![s] = x], InStep(j, x),
         txs[s].state = "included" => x = txs[s],
         sending' \in BOOLEAN, seqNo' \in [Wallets -> Nat], recurring' \subseteq recurring \cup {s},
         s \in recurring' \ recurring => x.state = "included"
  PROVE  PaymentsOK' /\ Settled
<1>1. /\ jobs' \in [Panel!Sends -> Panel!Job] /\ jobs'[s] = j
      /\ txs' \in [Panel!Sends -> Panel!Tx] /\ txs'[s] = x
      /\ \A r \in Panel!Sends \ {s} : jobs'[r] = jobs[r] /\ txs'[r] = txs[r]
  BY DEF PaymentsOK
<1>2. Settled
  BY <1>1 DEF Settled
<1>3. \A r \in Panel!Sends : InStep(jobs'[r], txs'[r])
  BY <1>1 DEF PaymentsOK
<1>4. /\ recurring' \subseteq Panel!Sends
      /\ \A r \in recurring' : txs'[r].state = "included"
  BY <1>1 DEF PaymentsOK
<1> QED BY <1>1, <1>2, <1>3, <1>4 DEF PaymentsOK

\* The dialog reads nothing but included transactions.
LEMMA DialogStays ==
  ASSUME PanelInv, Settled, UNCHANGED Panel!dialogVars
  PROVE  DialogOK'
<1>1. hash # 0 => hash \in Panel!Sends
  BY PanelBounds DEF PanelInv, DialogOK, Panel!Sends
<1>2. hash # 0 => txs'[hash] = txs[hash]
  BY <1>1 DEF PanelInv, DialogOK, Settled
<1> QED BY <1>2 DEF PanelInv, DialogOK, Panel!dialogVars

LEMMA ScreenStays ==
  ASSUME PanelInv, UNCHANGED <<Panel!walletVars, Panel!formVars>>
  PROVE  ScreenOK'
BY DEF PanelInv, ScreenOK, Panel!walletVars, Panel!formVars

\* handleSend up to the answer of Horizon, and the runs that end.
LEMMA SendSteps ==
  ASSUME PanelInv, NEW s \in Panel!Sends,
         \/ Panel!Send(s) \/ Panel!Build(s) \/ \E w \in Wallets : Panel!Sign(s, w)
         \/ Panel!Submit(s) \/ Panel!SendFails(s)
  PROVE  PanelInv' /\ UNCHANGED Panel!dialogVars
<1>0. /\ PaymentsOK /\ ScreenOK /\ jobs[s] \in Panel!Job /\ txs[s] \in Panel!Tx
      /\ InStep(jobs[s], txs[s]) /\ txs = [txs EXCEPT ![s] = txs[s]]
      /\ jobs \in [Panel!Sends -> Panel!Job]
  BY DEF PanelInv, PaymentsOK
<1>1. /\ UNCHANGED <<Panel!walletVars, Panel!formVars, seqNo, recurring, Panel!dialogVars>>
      /\ seqNo' \in [Wallets -> Nat] /\ recurring' = recurring
  BY DEF Panel!Send, Panel!Build, Panel!Sign, Panel!Submit, Panel!SendFails, Panel!ledgerVars,
         PanelInv, PaymentsOK
<1>2. CASE Panel!Send(s)
  <2> DEFINE j == [pc |-> "build", src |-> visitor, asset |-> form.asset,
                   amount |-> form.amount, note |-> form.note, again |-> form.again, seq |-> 0]
  <2>1. /\ jobs[s].pc = "idle" /\ visitor \in Wallets /\ UNCHANGED txs
        /\ jobs' = [jobs EXCEPT ![s] = j]
    BY <1>0, <1>2 DEF Panel!Send, Panel!CanSend, Panel!ledgerVars, ScreenOK, Panel!Holder
  <2>2. j \in Panel!Job /\ j.pc = "build" /\ j.src = visitor
    BY <1>0 DEF Panel!Job, ScreenOK
  <2>3. sending' \in BOOLEAN
    BY <1>2, Zenon DEF Panel!Send
  <2> HIDE DEF j
  <2>4. InStep(j, txs[s])
    BY <1>0, <2>1, <2>2 DEF InStep
  <2>5. PaymentsOK' /\ Settled
    BY <1>0, <1>1, <2>1, <2>2, <2>3, <2>4, RunMoves
  <2> QED BY <1>1, <2>5, DialogStays, ScreenStays DEF PanelInv
<1>3. CASE Panel!Build(s)
  <2>1. seqNo[jobs[s].src] + 1 \in Nat
    BY <1>0, <1>3 DEF Panel!Build, InStep, PaymentsOK
  <2> DEFINE j == [jobs[s] EXCEPT !.pc = "sign", !.seq = seqNo[jobs[s].src] + 1]
  <2>2. j \in Panel!Job /\ j.pc = "sign" /\ j.src = jobs[s].src
    BY <1>0, <2>1 DEF Panel!Job
  <2>3. /\ jobs[s].pc = "build" /\ UNCHANGED <<sending, txs>> /\ jobs' = [jobs EXCEPT ![s] = j]
    BY <1>0, <1>3 DEF Panel!Build, Panel!ledgerVars, Panel!NextSeq
  <2> HIDE DEF j
  <2>4. InStep(j, txs[s])
    BY <1>0, <2>2, <2>3 DEF InStep
  <2>5. sending' \in BOOLEAN
    BY <1>0, <2>3 DEF PaymentsOK
  <2>6. PaymentsOK' /\ Settled
    BY <1>0, <1>1, <2>2, <2>3, <2>4, <2>5, RunMoves
  <2> QED BY <1>1, <2>6, DialogStays, ScreenStays DEF PanelInv
<1>4. ASSUME NEW w \in Wallets, Panel!Sign(s, w)
      PROVE  PanelInv' /\ UNCHANGED Panel!dialogVars
  <2> DEFINE j == [jobs[s] EXCEPT !.pc = "submit"]
  <2> DEFINE x == Panel!Signed(s, w)
  <2>1. j \in Panel!Job /\ j.pc = "submit" /\ j.src = jobs[s].src
        /\ j.amount = jobs[s].amount /\ j.note = jobs[s].note
    BY <1>0 DEF Panel!Job
  <2>2. x \in Panel!Tx /\ x.state = "none" /\ x.amount = jobs[s].amount /\ x.note = jobs[s].note
    BY <1>0 DEF Panel!Job, Panel!Tx, Panel!Signed, Panel!Holder
  <2>3. /\ jobs[s].pc = "sign" /\ UNCHANGED sending
        /\ jobs' = [jobs EXCEPT ![s] = j] /\ txs' = [txs EXCEPT ![s] = x]
    BY <1>0, <1>4 DEF Panel!Sign, Panel!Goto
  <2> HIDE DEF j, x
  <2>4. InStep(j, x) /\ txs[s].state # "included"
    BY <1>0, <2>1, <2>2, <2>3 DEF InStep
  <2>5. sending' \in BOOLEAN
    BY <1>0, <2>3 DEF PaymentsOK
  <2>6. PaymentsOK' /\ Settled
    BY <1>0, <1>1, <2>1, <2>2, <2>3, <2>4, <2>5, RunMoves
  <2> QED BY <1>1, <2>6, DialogStays, ScreenStays DEF PanelInv
<1>5. CASE Panel!Submit(s)
  <2> DEFINE j == [jobs[s] EXCEPT !.pc = "wait"]
  <2> DEFINE x == [txs[s] EXCEPT !.state = "pooled"]
  <2>1. j \in Panel!Job /\ j.pc = "wait" /\ j.src = jobs[s].src
        /\ j.amount = jobs[s].amount /\ j.note = jobs[s].note
    BY <1>0 DEF Panel!Job
  <2>2. x \in Panel!Tx /\ x.state = "pooled" /\ x.amount = txs[s].amount /\ x.note = txs[s].note
    BY <1>0 DEF Panel!Tx
  <2>3. /\ jobs[s].pc = "submit" /\ UNCHANGED sending
        /\ jobs' = [jobs EXCEPT ![s] = j] /\ txs' = [txs EXCEPT ![s] = x]
    BY <1>0, <1>5 DEF Panel!Submit, Panel!Goto
  <2> HIDE DEF j, x
  <2>4. InStep(j, x) /\ txs[s].state # "included"
    BY <1>0, <2>1, <2>2, <2>3 DEF InStep
  <2>5. sending' \in BOOLEAN
    BY <1>0, <2>3 DEF PaymentsOK
  <2>6. PaymentsOK' /\ Settled
    BY <1>0, <1>1, <2>1, <2>2, <2>3, <2>4, <2>5, RunMoves
  <2> QED BY <1>1, <2>6, DialogStays, ScreenStays DEF PanelInv
<1>6. CASE Panel!SendFails(s)
  <2> DEFINE j == [Panel!NoJob EXCEPT !.pc = "over"]
  <2>1. j \in Panel!Job /\ j.pc = "over"
    BY PanelBounds DEF Panel!Job, Panel!NoJob, Panel!Holder
  <2>2. jobs' = [jobs EXCEPT ![s] = j] /\ UNCHANGED txs
    BY <1>6 DEF Panel!SendFails, Panel!GiveUp, Panel!ledgerVars
  <2>3. sending' \in BOOLEAN
    BY <1>6, Zenon DEF Panel!SendFails, Panel!GiveUp
  <2> HIDE DEF j
  <2>4. InStep(j, txs[s])
    BY <2>1 DEF InStep
  <2>5. PaymentsOK' /\ Settled
    BY <1>0, <1>1, <2>1, <2>2, <2>3, <2>4, RunMoves
  <2> QED BY <1>1, <2>5, DialogStays, ScreenStays DEF PanelInv
<1> QED BY <1>1, <1>2, <1>3, <1>4, <1>5, <1>6

\* Horizon's answer opens the dialog on a transaction that is included.
LEMMA SentStep ==
  ASSUME PanelInv, NEW s \in Panel!Sends, Panel!Sent(s)
  PROVE  PanelInv' /\ status' = "confirming"
<1>0. /\ PaymentsOK /\ ScreenOK /\ jobs[s] \in Panel!Job /\ txs[s] \in Panel!Tx
      /\ InStep(jobs[s], txs[s]) /\ txs = [txs EXCEPT ![s] = txs[s]]
      /\ s # 0 /\ s \in 0 .. MaxSends /\ jobs[s].pc = "wait" /\ txs[s].state = "included"
  BY PanelBounds DEF PanelInv, PaymentsOK, Panel!Sent, Panel!Sends
<1>1. UNCHANGED <<Panel!walletVars, loads, balance, balances, sending, txs, seqNo, recurring>>
  BY DEF Panel!Sent, Panel!ledgerVars
<1>2. ScreenOK'
  <2>1. form' = [form EXCEPT !.amount = None, !.note = None]
    BY DEF Panel!Sent
  <2>2. form' \in [amount : Amounts \cup {None}, note : Notes \cup {None},
                  asset : Panel!Assets, again : BOOLEAN]
    BY <1>0, <2>1 DEF ScreenOK
  <2> QED BY <1>0, <1>1, <2>2 DEF ScreenOK, Panel!walletVars
<1>3. PaymentsOK'
  <2>1. PICK pc \in {"recur", "reload"} : jobs' = [jobs EXCEPT ![s].pc = pc]
    BY DEF Panel!Sent, Panel!Goto
  <2> DEFINE j == [jobs[s] EXCEPT !.pc = pc]
  <2>2. j \in Panel!Job /\ j.pc = pc /\ j.src = jobs[s].src /\ jobs' = [jobs EXCEPT ![s] = j]
    BY <1>0, <2>1 DEF Panel!Job, PaymentsOK
  <2> HIDE DEF j
  <2>3. InStep(j, txs[s])
    BY <1>0, <2>2 DEF InStep
  <2> QED BY <1>0, <1>1, <2>2, <2>3, RunMoves DEF PaymentsOK
<1>4. /\ hash' = s /\ status' = "confirming" /\ ticks' = 0
      /\ receipt' = [amount |-> jobs[s].amount, note |-> jobs[s].note]
      /\ checks' = [Panel!NoChecks EXCEPT ![0] = 1]
  BY DEF Panel!Sent, Panel!Watch, Panel!ReceiptOf
<1>5. done' \in BOOLEAN /\ finalizing' \in BOOLEAN /\ ~finalizing'
  BY Zenon DEF Panel!Sent, Panel!Watch
<1>6. checks' \in [0 .. MaxTicks -> 0 .. MaxAttempts]
  BY <1>4, PanelBounds DEF Panel!NoChecks
<1>7. /\ receipt' \in [amount : Amounts \cup {None}, note : Notes \cup {None}]
      /\ receipt' = [amount |-> txs'[s].amount, note |-> txs'[s].note] /\ txs'[s].state = "included"
  BY <1>0, <1>1, <1>4 DEF InStep, Panel!Job
<1>8. DialogOK'
  BY <1>0, <1>4, <1>5, <1>6, <1>7, PanelBounds DEF DialogOK
<1> QED BY <1>2, <1>3, <1>4, <1>8 DEF PanelInv

\* What handleSend does after the answer.
LEMMA AfterSteps ==
  ASSUME PanelInv, NEW s \in Panel!Sends, Panel!EnableRecurring(s) \/ Panel!Reload(s)
  PROVE  PanelInv' /\ UNCHANGED Panel!dialogVars
<1>0. /\ PaymentsOK /\ ScreenOK /\ jobs[s] \in Panel!Job /\ txs[s] \in Panel!Tx
      /\ InStep(jobs[s], txs[s]) /\ txs = [txs EXCEPT ![s] = txs[s]]
      /\ seqNo \in [Wallets -> Nat] /\ recurring \subseteq Panel!Sends
  BY DEF PanelInv, PaymentsOK
<1>1. /\ UNCHANGED <<Panel!walletVars, txs, seqNo, Panel!dialogVars>>
      /\ jobs[s].pc \in {"recur", "reload"} /\ txs[s].state = "included"
  BY <1>0 DEF Panel!EnableRecurring, Panel!Reload, Panel!ledgerVars, InStep
<1>2. CASE Panel!EnableRecurring(s)
  <2>0. recurring' \subseteq recurring \cup {s} /\ UNCHANGED Panel!formVars /\ jobs[s].pc = "recur"
    BY <1>2 DEF Panel!EnableRecurring
  <2>1. sending' \in BOOLEAN
    <3>1. sending' = sending \/ sending' = FALSE
      BY <1>2, Zenon DEF Panel!EnableRecurring, Panel!GiveUp
    <3> QED BY <1>0, <3>1, Zenon DEF PaymentsOK
  <2>2. PICK j : /\ j \in Panel!Job /\ jobs' = [jobs EXCEPT ![s] = j]
                 /\ j.pc = "over" \/ (j.pc = "reload" /\ j.src = jobs[s].src)
    <3>1. CASE Panel!GiveUp(s)
      <4>1. [Panel!NoJob EXCEPT !.pc = "over"] \in Panel!Job /\ [Panel!NoJob EXCEPT !.pc = "over"].pc = "over"
        BY PanelBounds DEF Panel!Job, Panel!NoJob, Panel!Holder
      <4> QED BY <3>1, <4>1 DEF Panel!GiveUp
    <3>2. CASE Panel!Goto(s, "reload")
      <4>1. /\ [jobs[s] EXCEPT !.pc = "reload"] \in Panel!Job
            /\ [jobs[s] EXCEPT !.pc = "reload"].pc = "reload"
            /\ [jobs[s] EXCEPT !.pc = "reload"].src = jobs[s].src
        BY <1>0 DEF Panel!Job
      <4>2. jobs' = [jobs EXCEPT ![s] = [jobs[s] EXCEPT !.pc = "reload"]]
        BY <1>0, <3>2 DEF Panel!Goto, Panel!Job, PaymentsOK
      <4> QED BY <4>1, <4>2
    <3> QED BY <1>2, <3>1, <3>2 DEF Panel!EnableRecurring
  <2>3. InStep(j, txs[s])
    BY <1>0, <1>1, <2>0, <2>2 DEF InStep, PaymentsOK
  <2>4. PaymentsOK' /\ Settled
    BY <1>0, <1>1, <2>0, <2>1, <2>2, <2>3, RunMoves
  <2> QED BY <1>1, <2>0, <2>4, DialogStays, ScreenStays DEF PanelInv
<1>3. CASE Panel!Reload(s)
  <2> DEFINE j == [Panel!NoJob EXCEPT !.pc = "over"]
  <2>1. /\ j \in Panel!Job /\ j.pc = "over"
    BY PanelBounds DEF Panel!Job, Panel!NoJob, Panel!Holder
  <2>2. jobs' = [jobs EXCEPT ![s] = j] /\ UNCHANGED recurring
    BY <1>3 DEF Panel!Reload, Panel!GiveUp, Panel!ledgerVars
  <2>3. sending' \in BOOLEAN
    BY <1>3, Zenon DEF Panel!Reload, Panel!GiveUp
  <2> HIDE DEF j
  <2>4. InStep(j, txs[s])
    BY <2>1 DEF InStep
  <2>5. PaymentsOK' /\ Settled
    BY <1>0, <1>1, <2>1, <2>2, <2>3, <2>4, RunMoves
  <2>6. balance' \in [of : Panel!Holder, error : {"none", "missing", "failed"}]
    <3>1. jobs[s].src \in Panel!Holder
      BY <1>0 DEF Panel!Job
    <3> QED BY <1>0, <1>3, <3>1 DEF Panel!Reload, ScreenOK
  <2>7. ScreenOK'
    BY <1>0, <1>1, <1>3, <2>6 DEF Panel!Reload, ScreenOK, Panel!walletVars
  <2> QED BY <1>1, <2>5, <2>7, DialogStays DEF PanelInv
<1> QED BY <1>1, <1>2, <1>3

\* The ledger: a pooled transaction is included, or dropped.
LEMMA LedgerSteps ==
  ASSUME PanelInv, NEW s \in Panel!Sends, Panel!Include(s) \/ Panel!Drop(s)
  PROVE  PanelInv' /\ UNCHANGED Panel!dialogVars
<1>0. /\ PaymentsOK /\ jobs[s] \in Panel!Job /\ txs[s] \in Panel!Tx
      /\ InStep(jobs[s], txs[s]) /\ jobs = [jobs EXCEPT ![s] = jobs[s]]
      /\ seqNo \in [Wallets -> Nat] /\ sending \in BOOLEAN /\ recurring \subseteq Panel!Sends
  BY DEF PanelInv, PaymentsOK
<1>1. /\ UNCHANGED <<Panel!walletVars, Panel!formVars, sending, jobs, recurring, Panel!dialogVars>>
      /\ txs[s].state = "pooled"
  BY DEF Panel!Include, Panel!Drop
<1>2. CASE Panel!Include(s)
  <2> DEFINE x == [txs[s] EXCEPT !.state = "included"]
  <2>1. /\ x \in Panel!Tx /\ x.state = "included" /\ x.amount = txs[s].amount
        /\ x.note = txs[s].note
    BY <1>0 DEF Panel!Tx
  <2>2. txs' = [txs EXCEPT ![s] = x]
    BY <1>2 DEF Panel!Include
  <2>3. seqNo' \in [Wallets -> Nat]
    <3>1. seqNo' = [seqNo EXCEPT ![txs[s].src] = seqNo[txs[s].src] + 1]
      BY <1>2 DEF Panel!Include
    <3>2. CASE txs[s].src \in Wallets
      <4>1. seqNo[txs[s].src] + 1 \in Nat
        BY <1>0, <3>2
      <4> QED BY <1>0, <3>1, <4>1
    <3>3. CASE txs[s].src \notin Wallets
      <4>1. seqNo' = seqNo
        BY <1>0, <3>1, <3>3
      <4> QED BY <1>0, <4>1
    <3> QED BY <3>2, <3>3
  <2> HIDE DEF x
  <2>4. InStep(jobs[s], x)
    BY <1>0, <1>1, <2>1 DEF InStep
  <2>5. PaymentsOK' /\ Settled
    BY <1>0, <1>1, <2>1, <2>2, <2>3, <2>4, RunMoves
  <2> QED BY <1>1, <2>5, DialogStays, ScreenStays DEF PanelInv
<1>3. CASE Panel!Drop(s)
  <2> DEFINE x == [Panel!NoTx EXCEPT !.state = "dropped"]
  <2>1. x \in Panel!Tx /\ x.state = "dropped"
    BY PanelBounds DEF Panel!Tx, Panel!NoTx, Panel!Holder
  <2>2. txs' = [txs EXCEPT ![s] = x] /\ UNCHANGED seqNo
    BY <1>3 DEF Panel!Drop
  <2> HIDE DEF x
  <2>3. InStep(jobs[s], x)
    BY <1>0, <1>1, <2>1 DEF InStep
  <2>4. PaymentsOK' /\ Settled
    BY <1>0, <1>1, <2>1, <2>2, <2>3, RunMoves
  <2> QED BY <1>1, <2>4, DialogStays, ScreenStays DEF PanelInv
<1> QED BY <1>1, <1>2, <1>3

\* The dialog: a lookup, the interval, the timer, and the end of it.
LEMMA DialogSteps ==
  ASSUME PanelInv,
         \/ \E t \in 0 .. MaxTicks : Panel!Lookup(t)
         \/ Panel!Tick \/ Panel!Finalize \/ Panel!CloseDialog
  PROVE  /\ PanelInv'
         /\ hash' = hash /\ status \in {"confirmed", "finalized"} => status' # "failed"
<1>0. DialogOK /\ PaymentsOK
  BY DEF PanelInv
<1>1. UNCHANGED Panel!NotDialog
  BY DEF Panel!Lookup, Panel!LookupPending, Panel!LookupFound, Panel!LookupRetried,
         Panel!LookupFailed, Panel!Tick, Panel!Finalize, Panel!CloseDialog
<1>2. UNCHANGED <<txs, jobs, seqNo, recurring, sending, Panel!walletVars, Panel!formVars>>
  BY <1>1 DEF Panel!NotDialog, Panel!ledgerVars
<1>3. ScreenOK' /\ PaymentsOK'
  BY <1>0, <1>2, ScreenStays DEF PaymentsOK
<1>4. ASSUME UNCHANGED <<hash, receipt>>,
             status' \in {"confirming", "confirmed", "finalized", "failed"},
             done' \in BOOLEAN, finalizing' \in BOOLEAN, ticks' \in 0 .. MaxTicks + 1,
             checks' \in [0 .. MaxTicks -> 0 .. MaxAttempts],
             status' \in {"confirmed", "finalized"} \/ finalizing' => done',
             status \in {"confirmed", "finalized"} => status' # "failed"
      PROVE  /\ PanelInv'
             /\ hash' = hash /\ status \in {"confirmed", "finalized"} => status' # "failed"
  BY <1>0, <1>2, <1>3, <1>4 DEF DialogOK, PanelInv
<1>5. ASSUME NEW t \in 0 .. MaxTicks, Panel!LookupPending(t) \/ Panel!LookupRetried(t)
      PROVE  PanelInv' /\ (hash' = hash /\ status \in {"confirmed", "finalized"} => status' # "failed")
  <2>1. checks' \in [0 .. MaxTicks -> 0 .. MaxAttempts]
    <3>1. CASE Panel!LookupPending(t)
      BY <1>0, <3>1, PanelBounds DEF Panel!LookupPending, DialogOK
    <3>2. CASE Panel!LookupRetried(t)
      <4>1. /\ checks[t] \in 1 .. MaxAttempts - 1
            /\ checks' = [checks EXCEPT ![t] = checks[t] + 1]
        BY <3>2 DEF Panel!LookupRetried
      <4>2. checks[t] + 1 \in 0 .. MaxAttempts
        BY <4>1, PanelBounds
      <4> QED BY <1>0, <4>1, <4>2 DEF DialogOK
    <3> QED BY <1>5, <3>1, <3>2
  <2>2. UNCHANGED <<hash, receipt, status, done, ticks, finalizing>>
    BY <1>5 DEF Panel!LookupPending, Panel!LookupRetried
  <2> QED BY <1>0, <1>4, <2>1, <2>2 DEF DialogOK
<1>6. ASSUME NEW t \in 0 .. MaxTicks, Panel!LookupFound(t)
      PROVE  PanelInv' /\ (hash' = hash /\ status \in {"confirmed", "finalized"} => status' # "failed")
  <2>1. checks' \in [0 .. MaxTicks -> 0 .. MaxAttempts]
    BY <1>0, <1>6, PanelBounds DEF Panel!LookupFound, DialogOK
  <2>2. txs[hash].state = "included"
    BY <1>0, <1>6 DEF Panel!LookupFound, Panel!Rendered, DialogOK
  <2>3. UNCHANGED <<hash, receipt, ticks>> /\ status' = "confirmed" /\ done' /\ finalizing'
    BY <1>6, <2>2 DEF Panel!LookupFound
  <2>4. done' \in BOOLEAN /\ finalizing' \in BOOLEAN
    BY <1>6, <2>2, Zenon DEF Panel!LookupFound
  <2> QED BY <1>0, <1>4, <2>1, <2>3, <2>4 DEF DialogOK
<1>7. ASSUME NEW t \in 0 .. MaxTicks, Panel!LookupFailed(t)
      PROVE  PanelInv' /\ (hash' = hash /\ status \in {"confirmed", "finalized"} => status' # "failed")
  <2>1. checks' \in [0 .. MaxTicks -> 0 .. MaxAttempts]
    BY <1>0, <1>7, PanelBounds DEF Panel!LookupFailed, DialogOK
  <2>2. UNCHANGED <<hash, receipt, ticks, finalizing>>
    BY <1>7 DEF Panel!LookupFailed
  <2>3. CASE done
    <3>1. UNCHANGED <<status, done>>
      BY <1>7, <2>3 DEF Panel!LookupFailed
    <3> QED BY <1>0, <1>4, <2>1, <2>2, <3>1 DEF DialogOK
  <2>4. CASE ~done
    <3>1. status' = "failed" /\ status \notin {"confirmed", "finalized"} /\ ~finalizing
      BY <1>0, <1>7, <2>4 DEF Panel!LookupFailed, DialogOK
    <3>2. done' \in BOOLEAN
      BY <1>7, <2>4, Zenon DEF Panel!LookupFailed
    <3> QED BY <1>0, <1>4, <2>1, <2>2, <3>1, <3>2 DEF DialogOK
  <2> QED BY <2>3, <2>4
<1>8. CASE Panel!Tick
  <2>1. UNCHANGED <<hash, receipt, done, finalizing>> /\ ticks \in 0 .. MaxTicks
    BY <1>0, <1>8, PanelBounds DEF Panel!Tick, Panel!Polling, DialogOK
  <2>2. ticks' \in 0 .. MaxTicks + 1 /\ checks' \in [0 .. MaxTicks -> 0 .. MaxAttempts]
    BY <1>0, <1>8, <2>1, PanelBounds DEF Panel!Tick, DialogOK
  <2>3. status' = status \/ (status' = "failed" /\ ~done)
    BY <1>8 DEF Panel!Tick
  <2> QED BY <1>0, <1>4, <2>1, <2>2, <2>3 DEF DialogOK
<1>9. CASE Panel!Finalize
  <2>1. UNCHANGED <<hash, receipt, done, ticks, checks>> /\ status' = "finalized" /\ finalizing
    BY <1>9 DEF Panel!Finalize
  <2>2. finalizing' \in BOOLEAN /\ ~finalizing'
    BY <1>9, Zenon DEF Panel!Finalize
  <2> QED BY <1>0, <1>4, <2>1, <2>2 DEF DialogOK
<1>10. CASE Panel!CloseDialog
  <2>1. hash' = 0 /\ status' = "confirming" /\ ticks' = 0
    BY <1>10 DEF Panel!CloseDialog
  <2>2. done' \in BOOLEAN /\ finalizing' \in BOOLEAN /\ ~finalizing'
    BY <1>10, Zenon DEF Panel!CloseDialog
  <2>3. /\ receipt' \in [amount : Amounts \cup {None}, note : Notes \cup {None}]
        /\ checks' \in [0 .. MaxTicks -> 0 .. MaxAttempts]
    BY <1>10, PanelBounds DEF Panel!CloseDialog, Panel!NoReceipt, Panel!NoChecks
  <2>4. DialogOK'
    BY <2>1, <2>2, <2>3, PanelBounds DEF DialogOK
  <2> QED BY <1>3, <2>1, <2>4 DEF PanelInv
<1> QED BY <1>5, <1>6, <1>7, <1>8, <1>9, <1>10 DEF Panel!Lookup

LEMMA PanelKept ==
  ASSUME PanelInv, [Panel!Next]_panelVars
  PROVE  /\ PanelInv'
         /\ hash' = hash /\ status \in {"confirmed", "finalized"} => status' # "failed"
<1>0. status \in {"confirmed", "finalized"} => status # "failed"
  OBVIOUS
<1>1. CASE UNCHANGED panelVars
  BY <1>0, <1>1 DEF panelVars, PanelInv, ScreenOK, PaymentsOK, DialogOK
<1>2. CASE \/ \E w \in Wallets : \/ Panel!Connect(w) \/ Panel!BalanceLoaded(w)
                               \/ Panel!BalancesLoaded(w)
           \/ Panel!Disconnect \/ Panel!Refresh \/ Panel!EditForm
  <2>1. ScreenOK' /\ UNCHANGED <<sending, jobs, txs, seqNo, recurring, Panel!dialogVars>>
    BY <1>2, ScreenSteps DEF Panel!ledgerVars
  <2>2. PaymentsOK' /\ Settled
    BY <2>1 DEF PanelInv, PaymentsOK, Settled
  <2> QED BY <1>0, <2>1, <2>2, DialogStays DEF PanelInv, Panel!dialogVars
<1>3. ASSUME NEW s \in Panel!Sends, Panel!Sent(s)
      PROVE  PanelInv' /\ (hash' = hash /\ status \in {"confirmed", "finalized"} => status' # "failed")
  BY <1>3, SentStep
<1>4. ASSUME NEW s \in Panel!Sends,
             \/ Panel!Send(s) \/ Panel!Build(s) \/ \E w \in Wallets : Panel!Sign(s, w)
             \/ Panel!Submit(s) \/ Panel!SendFails(s)
             \/ Panel!EnableRecurring(s) \/ Panel!Reload(s) \/ Panel!Include(s) \/ Panel!Drop(s)
      PROVE  PanelInv' /\ (hash' = hash /\ status \in {"confirmed", "finalized"} => status' # "failed")
  <2>1. PanelInv' /\ UNCHANGED Panel!dialogVars
    BY <1>4, SendSteps, AfterSteps, LedgerSteps
  <2> QED BY <1>0, <2>1 DEF Panel!dialogVars
<1>5. CASE \/ \E t \in 0 .. MaxTicks : Panel!Lookup(t)
           \/ Panel!Tick \/ Panel!Finalize \/ Panel!CloseDialog
  BY <1>5, DialogSteps
<1> QED BY <1>1, <1>2, <1>3, <1>4, <1>5 DEF Panel!Next

-----------------------------------------------------------------------------
(* The tab.                                                                *)

\* Every view's invariant, open or not.
AllViews ==
  /\ view \in Views
  /\ PanelInv /\ GoalsInv /\ HooksInv /\ AnalyticsInv
  /\ ExploreInv /\ HistoryInv /\ HeaderInv /\ CreationInv

LEMMA AllStart ==
  ASSUME Init PROVE AllViews
<1>1. /\ view \in Views /\ Panel!Init /\ Goals!Init /\ Hooks!Init /\ Analytics!Init
      /\ Explore!Init /\ History!Init /\ Header!Init /\ Creation!Init
  BY DEF Init
<1> QED BY <1>1, PanelStarts, GoalsStarts, HooksStarts, AnalyticsStarts, ExploreStarts,
           HistoryStarts, HeaderStarts, CreationStarts DEF AllViews

\* A step keeps every view's invariant, and the two action properties.
LEMMA AllKept ==
  ASSUME AllViews, [Next]_vars
  PROVE  /\ AllViews'
         /\ hash' = hash /\ status \in {"confirmed", "finalized"} => status' # "failed"
         /\ transactions' # transactions => transactions' \in {debouncedSearch, None}
<1>1. PanelInv' /\ (hash' = hash /\ status \in {"confirmed", "finalized"} => status' # "failed")
  BY EachView, PanelKept DEF AllViews
<1>2. HistoryInv' /\ (transactions' # transactions => transactions' \in {debouncedSearch, None})
  BY EachView, HistoryKept DEF AllViews
<1>3. view' \in Views /\ GoalsInv' /\ HooksInv' /\ AnalyticsInv'
  BY EachView, GoalsKept, HooksKept, AnalyticsKept DEF AllViews
<1>4. ExploreInv' /\ HeaderInv' /\ CreationInv'
  BY EachView, ExploreKept, HeaderKept, CreationKept DEF AllViews
<1> QED BY <1>1, <1>2, <1>3, <1>4 DEF AllViews

LEMMA Always == Spec => []AllViews
<1>1. Init => AllViews
  BY AllStart
<1>2. AllViews /\ [Next]_vars => AllViews'
  BY AllKept
<1> QED BY <1>1, <1>2, PTL DEF Spec

\* The open view is well-formed, and whatever is disabled or says that it is loading
\* waits for a request that will end it (dashboard/page.tsx 359-424, profile-tabs.tsx
\* 154-262, app-shell.tsx 58-117, create/page.tsx 80-281).
THEOREM BusyIsUnderWay == Spec => []Inv
<1>1. AllViews => Inv
  <2> SUFFICES ASSUME AllViews PROVE Inv
    OBVIOUS
  <2>1. Panel!TypeOK
    BY DEF AllViews, PanelInv, ScreenOK, PaymentsOK, DialogOK, Panel!TypeOK
  <2>2. TypeOK
    BY <2>1 DEF AllViews, TypeOK, GoalsInv, HooksInv, AnalyticsInv, ExploreInv, HistoryInv,
                HeaderInv, CreationInv
  <2>3. BusyMeansUnderWay
    BY DEF AllViews, BusyMeansUnderWay, HooksInv, HistoryInv, HeaderInv, CreationInv
  <2> QED BY <2>2, <2>3 DEF Inv
<1> QED BY <1>1, Always, PTL

\* The dialog is about an included transaction, with the amount and the message that
\* went with it, however many payments, wallets and edits overlap (support-panel
\* 233-271, 829-837).
THEOREM PaidAsReported == Spec => []ReportedIsPaid
<1>1. AllViews => ReportedIsPaid
  BY DEF AllViews, PanelInv, PaymentsOK, DialogOK, ReportedIsPaid, Panel!ReportedIsPaid
<1> QED BY <1>1, Always, PTL

\* No late lookup and no deadline turns a good verdict into a failure, however many
\* lookups overlap (transaction-result-modal 105-120).
THEOREM VerdictKept == Spec => VerdictStands
<1>1. AllViews /\ [Next]_vars =>
        (hash' = hash /\ status \in {"confirmed", "finalized"} => status' # "failed")
  BY AllKept
<1> QED BY <1>1, Always, PTL DEF Spec, VerdictStands, Panel!VerdictStands

\* When nothing is under way, the list of goals is the database's but for the goals
\* of which an answer was lost, that two requests wrote before either was answered, or
\* that the answer about another goal put back (dashboard/page.tsx 299-345).
THEOREM GoalsAgree == Spec => []ListIsRight
<1>1. AllViews => ListIsRight
  <2> SUFFICES ASSUME AllViews, goalsView = "ready", Goals!InFlight = {},
                      NEW g \in Goals!Goals \ excused
               PROVE  milestones[g] = goalRows[g]
    BY DEF ListIsRight, Goals!ListIsRight
  <2>1. DoneOn(g) = {}
    BY DEF DoneOn, Goals!InFlight
  <2> QED BY <2>1 DEF AllViews, GoalsInv, GoalsFollowed, Right
<1> QED BY <1>1, Always, PTL

\* The chart is that of the selected range, and the owner's sections are shown to the
\* wallet that is stored, unless a storage event is to come (dashboard/[username]/
\* page.tsx 317-378, 456-503).
THEOREM AnalyticsCurrent == Spec => []ShownIsCurrent
<1>1. AllViews => ShownIsCurrent
  BY DEF AllViews, AnalyticsInv, WalletCopied, DripsAwaited, ChartAwaited, ShownIsCurrent,
         Analytics!ShownIsCurrent, Analytics!ShownChart, Analytics!OwnerSections, Analytics!IsOwner
<1> QED BY <1>1, Always, PTL

\* The list of creators is of the choice on the screen, ascending and without holes but
\* the pages that failed (explore/page.tsx 87-141).
THEOREM ListInOrder == Spec => []PagesInOrder
<1>1. AllViews => PagesInOrder
  <2> SUFFICES ASSUME AllViews PROVE PagesInOrder
    OBVIOUS
  <2>1. ExploreInv
    BY DEF AllViews
  <2>2. /\ \A i \in DOMAIN profiles : profiles[i][1] = filter
        /\ \A i, j \in DOMAIN profiles : i < j => profiles[i][2] < profiles[j][2]
    BY <2>1 DEF ExploreInv, ListGrows, Shown
  <2>3. ASSUME NEW p \in Explore!Pages, NEW i \in DOMAIN profiles, p < profiles[i][2]
        PROVE  p \in {profiles[k][2] : k \in DOMAIN profiles} \cup failedPages
    <3>1. p \in Nat /\ offset \in Nat /\ profiles[i][2] \in Nat /\ profiles[i][2] <= offset
      BY <2>1, LongestList, PagesTyped DEF ExploreInv, ListGrows, Shown, Explore!Pages
    <3>2. p < offset
      BY <2>3, <3>1
    <3> QED BY <2>1, <3>2 DEF ExploreInv, ListGrows, Shown
  <2> QED BY <2>2, <2>3 DEF PagesInOrder, Explore!PagesInOrder
<1> QED BY <1>1, Always, PTL

\* "A slower earlier response can never overwrite the results of a newer one"
\* (profile-tabs.tsx 151-152), whatever is typed, cleared and switched meanwhile.
THEOREM NoLateRows == Spec => RowsAreAnswers
<1>1. AllViews /\ [Next]_vars =>
        (transactions' # transactions => transactions' \in {debouncedSearch, None})
  BY AllKept
<1> QED BY <1>1, Always, PTL DEF Spec, RowsAreAnswers, History!RowsAreAnswers
=============================================================================
