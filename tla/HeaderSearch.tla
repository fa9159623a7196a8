---------------------------- MODULE HeaderSearch ----------------------------
(***************************************************************************)
(* The creator search in the header of every page (components/             *)
(* app-shell.tsx) over GET /profiles/search.                               *)
(*                                                                         *)
(* The endpoint answers an object {profiles, suggestions}; the component   *)
(* keeps it as its array of results and maps over it, which throws once    *)
(* the dropdown renders it.  An array it has only for an empty box or      *)
(* after an error, and that one is empty: there is never a result to move  *)
(* to with the arrow keys, or to click.                                    *)
(***************************************************************************)
EXTENDS Naturals

CONSTANTS
  Texts,  \* what may be typed
  Empty   \* the empty box

SearchAssumption == Empty \notin Texts

VARIABLES
  searchQuery,
  searchResults,  \* Empty: the empty array; a text: the object answered for it
  showDropdown, isSearching,
  searchTimer,    \* timeoutRef is running
  lookups,        \* the requests not aborted, by their text
  broken          \* rendering has thrown

searchVars == <<searchQuery, searchResults, showDropdown, isSearching, searchTimer,
                lookups, broken>>

TypeOK ==
  /\ searchQuery \in Texts \cup {Empty} /\ searchResults \in Texts \cup {Empty}
  /\ showDropdown \in BOOLEAN /\ isSearching \in BOOLEAN /\ searchTimer \in BOOLEAN
  /\ lookups \subseteq Texts /\ broken \in BOOLEAN

Init ==
  /\ searchQuery = Empty /\ searchResults = Empty
  /\ showDropdown = FALSE /\ isSearching = FALSE
  /\ searchTimer = FALSE /\ lookups = {} /\ broken = FALSE

-----------------------------------------------------------------------------
\* What the dropdown renders: nothing is mapped while it says "Searching...".
Rendered(results, shown, searching) ==
  broken' = (shown /\ ~searching /\ results # Empty)

\* A new text stops the timer and aborts the request of the last one: the
\* aborted request has no effect, its finally block included.
Abort(text) == {}

\* The effect of a new text: an empty one closes the dropdown, any other opens
\* it on "Searching..." at once and looks it up after 300 ms.
Type(text) ==
  /\ ~broken /\ text # searchQuery
  /\ searchQuery' = text /\ lookups' = Abort(text)
  /\ searchTimer' = (text # Empty) /\ showDropdown' = (text # Empty)
  /\ IF text = Empty THEN searchResults' = Empty /\ UNCHANGED isSearching
     ELSE isSearching' = TRUE /\ UNCHANGED searchResults
  /\ UNCHANGED broken

SearchTimer ==
  /\ ~broken /\ searchTimer /\ searchTimer' = FALSE
  /\ lookups' = lookups \cup {searchQuery}
  /\ UNCHANGED <<searchQuery, searchResults, showDropdown, isSearching, broken>>

\* GET /profiles/search: {profiles, suggestions}, with or without profiles.
FoundFor(text) == text

SearchAnswered(text) ==
  /\ ~broken /\ text \in lookups /\ lookups' = lookups \ {text}
  /\ searchResults' = FoundFor(text) /\ isSearching' = FALSE
  /\ Rendered(FoundFor(text), showDropdown, FALSE)
  /\ UNCHANGED <<searchQuery, showDropdown, searchTimer>>

\* An error, 400 and 429 included, closes the dropdown.
SearchFailed(text) ==
  /\ ~broken /\ text \in lookups /\ lookups' = lookups \ {text}
  /\ searchResults' = Empty /\ isSearching' = FALSE /\ showDropdown' = FALSE
  /\ UNCHANGED <<searchQuery, searchTimer, broken>>

\* Escape, or a click outside.
CloseDropdown ==
  /\ ~broken /\ showDropdown /\ showDropdown' = FALSE
  /\ UNCHANGED <<searchQuery, searchResults, isSearching, searchTimer, lookups, broken>>

Next ==
  \/ SearchTimer \/ CloseDropdown
  \/ \E text \in Texts \cup {Empty} : Type(text)
  \/ \E text \in Texts : SearchAnswered(text) \/ SearchFailed(text)

Spec == Init /\ [][Next]_searchVars

-----------------------------------------------------------------------------
(* Properties.                                                              *)

\* "Searching..." in the open dropdown stands for a lookup of the text in the box
\* that is about to be made or under way, and none is under way for another text
\* or an empty box (app-shell.tsx 58-117).
SearchBusy ==
  /\ showDropdown /\ isSearching => searchTimer \/ searchQuery \in lookups
  /\ lookups \subseteq {searchQuery}
=============================================================================
