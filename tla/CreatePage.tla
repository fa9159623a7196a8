----------------------------- MODULE CreatePage -----------------------------
(***************************************************************************)
(* The form that makes a profile (app/create/page.tsx) and POST /profiles: *)
(* three steps behind one button, a request, and a redirect two seconds    *)
(* after it has succeeded, during which the button is free again.          *)
(*                                                                         *)
(* The request is a plain fetch, not the one of lib/api-client.ts: it has  *)
(* no Authorization header, and the browser adds the session's cookie only *)
(* when the API has the origin of the page: with any other, the default    *)
(* among them, every visitor is answered as a stranger.                    *)
(*                                                                         *)
(* Left out: the message line, the length of a countdown, and the links of *)
(* the third step, whose check the button never reaches (handleSubmit      *)
(* calls handleNext on the first two).                                     *)
(***************************************************************************)
EXTENDS Naturals

CONSTANTS
  Usernames,      \* the well-formed user names that may be typed
  Wallets, None,
  Empty,          \* an empty box
  Malformed,      \* a text the page's own checks reject
  XLM,
  Presets,        \* the assets that are offered
  KnownIssuers,   \* those the page knows the issuer of
  SameOrigin      \* the API is served from the page's origin

Posts == [pc : {"sent", "created", "usernameTaken", "emailTaken", "limited",
                "unauthorized", "failed"},
          username : Usernames, wallet : Wallets, email : BOOLEAN]

CreateAssumption ==
  /\ XLM \in Presets /\ KnownIssuers \subseteq Presets /\ SameOrigin \in BOOLEAN
  /\ Empty # Malformed /\ {Empty, Malformed} \cap (Usernames \cup Wallets) = {}
  /\ None \notin Wallets \cup Posts

VARIABLES
  step, displayName, username, walletAddress, assets,
  issuers,        \* the assets with an issuer typed or known
  email, usernameError, emailError, loading,
  rateLimited,    \* rateLimitRetryAt is set
  post,           \* the request under way, or None
  redirects,      \* the redirects that are due
  left,           \* the router has left the page
  profileRows,    \* the user names in the database
  signedIn        \* the wallet of the browser's session, or None

formVars   == <<displayName, username, walletAddress, assets, issuers, email>>
createVars == <<step, formVars, usernameError, emailError, loading, rateLimited, post,
                redirects, left, profileRows, signedIn>>

TypeOK ==
  /\ step \in 1 .. 3 /\ displayName \in BOOLEAN
  /\ username \in Usernames \cup {Empty, Malformed}
  /\ walletAddress \in Wallets \cup {Empty, Malformed}
  /\ assets \subseteq Presets /\ issuers \subseteq assets
  /\ email \in {"none", "malformed", "typed"}
  /\ {usernameError, emailError, loading, rateLimited, left} \subseteq BOOLEAN
  /\ post \in Posts \cup {None}
  /\ redirects \subseteq Usernames /\ profileRows \subseteq Usernames
  /\ signedIn \in Wallets \cup {None}

Init ==
  /\ step = 1 /\ displayName = FALSE /\ username = Empty /\ walletAddress = Empty
  /\ assets = {XLM} /\ issuers = {} /\ email = "none"
  /\ usernameError = FALSE /\ emailError = FALSE
  /\ loading = FALSE /\ rateLimited = FALSE /\ post = None
  /\ redirects = {} /\ left = FALSE
  /\ profileRows \in SUBSET Usernames /\ signedIn \in Wallets \cup {None}

-----------------------------------------------------------------------------
(* The fields, each on its step.  Back works while a request is under way,  *)
(* and so do they.                                                          *)

requestVars == <<loading, rateLimited, post, redirects, left, profileRows, signedIn>>

TypeNames(named, text) ==
  /\ ~left /\ step = 1 /\ displayName' = named /\ username' = text
  /\ usernameError' = (usernameError /\ text = username)
  /\ UNCHANGED <<step, walletAddress, assets, issuers, email, emailError, requestVars>>

TypeWallet(text) ==
  /\ ~left /\ step = 2 /\ walletAddress' = text
  /\ UNCHANGED <<step, displayName, username, assets, issuers, email, usernameError,
                 emailError, requestVars>>

\* A selected asset brings the issuer the page knows, if any.
ToggleAsset(a) ==
  /\ ~left /\ step = 2
  /\ IF a \in assets THEN assets' = assets \ {a} /\ issuers' = issuers \ {a}
     ELSE assets' = assets \cup {a} /\ issuers' = issuers \cup ({a} \cap KnownIssuers)
  /\ UNCHANGED <<step, displayName, username, walletAddress, email, usernameError,
                 emailError, requestVars>>

TypeIssuer(a, given) ==
  /\ ~left /\ step = 2 /\ a \in assets \ {XLM}
  /\ issuers' = IF given THEN issuers \cup {a} ELSE issuers \ {a}
  /\ UNCHANGED <<step, displayName, username, walletAddress, assets, email,
                 usernameError, emailError, requestVars>>

TypeEmail(text) ==
  /\ ~left /\ step = 3 /\ email' = text /\ emailError' = FALSE
  /\ UNCHANGED <<step, displayName, username, walletAddress, assets, issuers,
                 usernameError, requestVars>>

-----------------------------------------------------------------------------
(* The buttons.                                                             *)

NamesOk  == displayName /\ username \in Usernames
WalletOk == walletAddress \in Wallets
AssetsOk == assets # {} /\ assets \subseteq issuers \cup {XLM}

StepValid == (step = 1 => NamesOk) /\ (step = 2 => WalletOk /\ AssetsOk)

\* The button is neither disabled nor busy; its handler clears the fields' errors.
Pressed == /\ ~left /\ ~loading /\ ~rateLimited
           /\ usernameError' = FALSE /\ emailError' = FALSE

\* handleNext, on the first two steps.
Continue ==
  /\ step < 3 /\ Pressed
  /\ step' = IF StepValid THEN step + 1 ELSE step
  /\ UNCHANGED <<formVars, requestVars>>

Back ==
  /\ ~left /\ step > 1 /\ step' = step - 1
  /\ UNCHANGED <<formVars, usernameError, emailError, requestVars>>

\* handleSubmit on the last step, up to its fetch; a malformed address stops it.
Submit ==
  /\ step = 3 /\ Pressed
  /\ IF WalletOk /\ email # "malformed"
     THEN /\ loading' = TRUE
          /\ post' = [pc |-> "sent", username |-> username, wallet |-> walletAddress,
                      email |-> email = "typed"]
     ELSE UNCHANGED <<loading, post>>
  /\ UNCHANGED <<step, formVars, rateLimited, redirects, left, profileRows, signedIn>>

-----------------------------------------------------------------------------
(* POST /profiles.                                                          *)

Outcome(pc) ==
  /\ post # None /\ post.pc = "sent" /\ post' = [post EXCEPT !.pc = pc]
  /\ UNCHANGED <<step, formVars, usernameError, emailError, loading, rateLimited,
                 redirects, left, signedIn>>

\* The wallet requireAuth finds: a cookie that does not come is no session.
Seen == IF SameOrigin THEN signedIn ELSE None

Unauthorized == /\ post # None /\ Seen # post.wallet
                /\ Outcome("unauthorized") /\ UNCHANGED profileRows
Created == /\ post # None /\ Seen = post.wallet /\ post.username \notin profileRows
           /\ Outcome("created") /\ profileRows' = profileRows \cup {post.username}
UsernameTaken == /\ post # None /\ Seen = post.wallet /\ post.username \in profileRows
                 /\ Outcome("usernameTaken") /\ UNCHANGED profileRows
EmailTaken == /\ post # None /\ Seen = post.wallet /\ post.email
              /\ Outcome("emailTaken") /\ UNCHANGED profileRows
\* A limiter (behind requireAuth, or the global one before it), a field the
\* server does not accept, or its database.
NotServed == /\ Outcome("limited") \/ Outcome("failed")
             /\ UNCHANGED profileRows

-----------------------------------------------------------------------------
(* The answer, whatever the visitor has done since.                         *)

Answered ==
  /\ ~left /\ post # None /\ post.pc # "sent"
  /\ post' = None /\ loading' = FALSE
  /\ step' = IF post.pc = "usernameTaken" THEN 1 ELSE step
  /\ CASE post.pc = "usernameTaken" -> usernameError' = TRUE /\ emailError' = FALSE
       [] post.pc = "emailTaken"    -> usernameError' = FALSE /\ emailError' = TRUE
       [] OTHER                     -> UNCHANGED <<usernameError, emailError>>
  /\ rateLimited' = IF post.pc = "created" THEN FALSE ELSE rateLimited \/ post.pc = "limited"
  /\ redirects' = redirects \cup (IF post.pc = "created" THEN {post.username} ELSE {})
  /\ UNCHANGED <<formVars, left, profileRows, signedIn>>

\* catch: the request or its answer is lost.
PostLost ==
  /\ ~left /\ post # None /\ post' = None /\ loading' = FALSE
  /\ UNCHANGED <<step, formVars, usernameError, emailError, rateLimited, redirects,
                 left, profileRows, signedIn>>

\* The countdown has ended.
CountdownOver ==
  /\ ~left /\ rateLimited /\ rateLimited' = FALSE /\ loading' = FALSE
  /\ UNCHANGED <<step, formVars, usernameError, emailError, post, redirects, left,
                 profileRows, signedIn>>

\* router.push, two seconds after a success.
Redirect ==
  /\ ~left /\ redirects # {} /\ left' = TRUE
  /\ UNCHANGED <<step, formVars, usernameError, emailError, loading, rateLimited, post,
                 redirects, profileRows, signedIn>>

Next ==
  \/ \E named \in BOOLEAN, text \in Usernames \cup {Empty, Malformed} : TypeNames(named, text)
  \/ \E text \in Wallets \cup {Empty, Malformed} : TypeWallet(text)
  \/ \E a \in Presets : ToggleAsset(a) \/ \E given \in BOOLEAN : TypeIssuer(a, given)
  \/ \E text \in {"none", "malformed", "typed"} : TypeEmail(text)
  \/ Continue \/ Back \/ Submit
  \/ Unauthorized \/ Created \/ UsernameTaken \/ EmailTaken \/ NotServed
  \/ Answered \/ PostLost \/ CountdownOver \/ Redirect

Spec == Init /\ [][Next]_createVars

-----------------------------------------------------------------------------
(* Properties.                                                              *)

\* The spinner stands for the one request that is under way, which the end of a
\* countdown never hides; no step is reached past one that is not filled in,
\* whatever was changed after going back or while an answer was awaited, so what
\* is sent is complete; and "already taken" is said where the name can be changed
\* (page.tsx 80-96, 144-281).
CreateBusy ==
  /\ loading <=> post # None
  /\ ~(loading /\ rateLimited)
  /\ (step > 1 => NamesOk) /\ (step = 3 => WalletOk /\ AssetsOk)
  /\ usernameError => step = 1
=============================================================================
