----------------------------- MODULE ExplorePage -----------------------------
(***************************************************************************)
(* The list of creators (app/explore/page.tsx), grown page by page as its  *)
(* end comes into view (hooks/use-infinite-scroll.ts), for a choice of     *)
(* order and asset.  A page of the list is abstracted to its number.       *)
(***************************************************************************)
EXTENDS Naturals, Sequences

CONSTANTS
  SortFilters,   \* choices of an order alone
  AssetFilters,  \* choices with an asset, or an asset and its issuer
  FullPages      \* choice -> full pages of the list (the next one is short)

Filters == SortFilters \cup AssetFilters
MaxPage == CHOOSE n \in {FullPages[f] : f \in Filters} :
             \A f \in Filters : FullPages[f] <= n
Pages == 0 .. MaxPage + 1

ExploreAssumption ==
  /\ FullPages \in [Filters -> Nat] /\ SortFilters # {} /\ SortFilters \cap AssetFilters = {}
  /\ \E longest \in Filters : \A f \in Filters : FullPages[f] <= FullPages[longest]

VARIABLES
  filter,         \* sort, asset and assetIssuer
  options,        \* the assets on offer have been loaded
  profiles,       \* the pages on the screen, in order
  offset,         \* in pages
  hasMore, exploreLoading, exploreError,
  pageReqs,       \* the requests not aborted: choice, page, and whether it starts the list
  failedPages     \* the pages of this choice that could not be loaded

exploreVars == <<filter, options, profiles, offset, hasMore, exploreLoading, exploreError,
                 pageReqs, failedPages>>

PageReq == [filter : Filters, page : Pages, reset : BOOLEAN]

TypeOK ==
  /\ filter \in Filters /\ options \in BOOLEAN
  /\ profiles \in Seq(Filters \X Pages) /\ Len(profiles) <= MaxPage + 2
  /\ offset \in Pages /\ hasMore \in BOOLEAN
  /\ exploreLoading \in BOOLEAN /\ exploreError \in BOOLEAN
  /\ pageReqs \subseteq PageReq /\ failedPages \subseteq Pages

\* Fault seeded for the checks: an earlier request is left to answer.
LeavePrevious == pageReqs
\* abortControllerRef.current?.abort(): an aborted request has no effect.
AbortPrevious == {}

FetchProfiles(f, p, reset) ==
  /\ pageReqs' = AbortPrevious \cup {[filter |-> f, page |-> p, reset |-> reset]}
  /\ exploreLoading' = TRUE /\ exploreError' = FALSE

\* The page is opened: the newest creators.
Init ==
  /\ filter \in SortFilters /\ options = FALSE
  /\ profiles = <<>> /\ offset = 0 /\ hasMore = TRUE
  /\ exploreLoading = TRUE /\ exploreError = FALSE
  /\ pageReqs = {[filter |-> filter, page |-> 0, reset |-> TRUE]} /\ failedPages = {}

-----------------------------------------------------------------------------
\* The first hundred creators give the assets to choose from.
OptionsLoaded ==
  /\ ~options /\ options' = TRUE
  /\ UNCHANGED <<filter, profiles, offset, hasMore, exploreLoading, exploreError,
                 pageReqs, failedPages>>

\* Another order, asset or issuer: the list starts anew.
ChooseFilter(f) ==
  /\ f # filter /\ f \in AssetFilters => options
  /\ filter' = f /\ offset' = 0 /\ profiles' = <<>> /\ hasMore' = TRUE
  /\ FetchProfiles(f, 0, TRUE) /\ failedPages' = {}
  /\ UNCHANGED options

\* The end of the list comes into view, or "Load More" is pressed; both are on
\* the page only below a list that has something and may have more.
HandleLoadMore ==
  /\ hasMore /\ profiles # <<>> /\ ~exploreLoading
  /\ offset' = offset + 1
  /\ FetchProfiles(filter, offset + 1, FALSE)
  /\ UNCHANGED <<filter, options, profiles, hasMore, failedPages>>

\* GET /profiles: a slice of the list in the chosen order, short at its end and
\* empty after it.
IsFull(r) == r.page < FullPages[r.filter]

PageAnswered(r) ==
  /\ r \in pageReqs /\ pageReqs' = pageReqs \ {r}
  /\ profiles' = IF r.reset THEN <<<<r.filter, r.page>>>>
                 ELSE Append(profiles, <<r.filter, r.page>>)
  /\ hasMore' = IsFull(r)
  /\ exploreLoading' = FALSE
  /\ UNCHANGED <<filter, options, offset, exploreError, failedPages>>

\* An error is shown, and hasMore and the offset stay: the next page is asked
\* for, even past the end of the list (the bound is on that).
PageFailed(r) ==
  /\ r \in pageReqs /\ r.page <= MaxPage
  /\ pageReqs' = pageReqs \ {r}
  /\ exploreError' = TRUE /\ exploreLoading' = FALSE
  /\ failedPages' = failedPages \cup {r.page}
  /\ UNCHANGED <<filter, options, profiles, offset, hasMore>>

Next ==
  \/ OptionsLoaded \/ HandleLoadMore
  \/ \E f \in Filters : ChooseFilter(f)
  \/ \E r \in pageReqs : PageAnswered(r) \/ PageFailed(r)

Spec == Init /\ [][Next]_exploreVars

-----------------------------------------------------------------------------
(* Properties.                                                              *)

\* The list is that of the choice on the screen, whatever was chosen and asked
\* for before (explore/page.tsx 87-141): its pages ascend, none comes twice, and
\* none is missing but those that failed to load, which are passed over.
PagesInOrder ==
  LET numbers == {profiles[i][2] : i \in DOMAIN profiles} IN
  /\ \A i \in DOMAIN profiles : profiles[i][1] = filter
  /\ \A i, j \in DOMAIN profiles : i < j => profiles[i][2] < profiles[j][2]
  /\ \A p \in Pages : (\E n \in numbers : p < n) => p \in numbers \cup failedPages
=============================================================================
