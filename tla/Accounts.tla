------------------------------ MODULE Accounts ------------------------------
(***************************************************************************)
(* The accounts of the backend: the sessions of wallets (Sessions), a      *)
(* profile with the requests about it (Profiles), and the reports that     *)
(* visitors file against it (Reports).                                     *)
(*                                                                         *)
(* requireAuth is where the two meet.  It looks at the token once, before  *)
(* the handler, and a request it let in goes on whatever becomes of the    *)
(* session; a wallet can always sign in again.  So any caller may make any *)
(* request at any time as far as a profile can tell, and no request of a   *)
(* profile touches a session; a report asks of the profile only that it is *)
(* there.  A state of all is a state of each beside the others', and each  *)
(* is examined beside the others' beginning.                               *)
(***************************************************************************)
EXTENDS Integers, Sequences, FiniteSets

CONSTANTS
  None,
  Wallets, ChallengeLife, TokenLife, MaxChallenges, MaxVerifies, MaxTime,
  Keep, Emails, TakenEmails, XLM, OtherAssets, AssetLists,
  MaxProfileRequests, MaxMailTokens,
  Filings, Threshold

VARIABLES
  part,  \* the one that is examined
  now, challenges, made, verifies, users, tokens, arrivals, logouts, revoked,
  loggedOut,
  profile, rows, requests, tokensMade, mails, proof, mixed,
  filing, reports, ips, expired, alerts, mishaps

Session == INSTANCE Sessions
Account == INSTANCE Profiles WITH Callers <- Wallets
Report  == INSTANCE Reports

ASSUME AccountsAssumption ==
  Session!SessionsAssumption /\ Account!ProfilesAssumption /\ Report!ReportsAssumption

sessionVars == <<now, challenges, made, verifies, users, tokens, arrivals,
                 logouts, revoked, loggedOut>>
profileVars == <<profile, rows, requests, tokensMade, mails, proof, mixed>>
reportVars  == <<filing, reports, ips, expired, alerts, mishaps>>
vars == <<part, sessionVars, profileVars, reportVars>>

Parts == {"sessions", "profile", "reports"}

TypeOK ==
  /\ part \in Parts
  /\ part = "sessions" => Session!TypeOK
  /\ part = "profile"  => Account!TypeOK
  /\ part = "reports"  => Report!TypeOK

Init ==
  /\ part \in Parts
  /\ Session!Init /\ Report!Init
  /\ Account!Init /\ (part # "profile" => profile = None)

SessionStep ==
  part = "sessions" /\ Session!Next /\ UNCHANGED <<part, profileVars, reportVars>>

\* The callers are the wallets that requireAuth admitted.
ProfileStep ==
  part = "profile" /\ Account!Next /\ UNCHANGED <<part, sessionVars, reportVars>>

\* Anybody may file a report.
ReportStep ==
  part = "reports" /\ Report!Next /\ UNCHANGED <<part, sessionVars, profileVars>>

Next == SessionStep \/ ProfileStep \/ ReportStep

Spec == Init /\ [][Next]_vars

-----------------------------------------------------------------------------
\* Every token was paid for with a challenge row of its own: of two verifies that
\* read one row, one is refused, unless a new challenge came in between and is used
\* up in its place (app.ts 918-1005).
TokensPaidFor == Session!TokensPaidFor

\* The admin is alerted of the third report, and of it alone: twice only if the third
\* came in between another's insert and its count, never only if the fourth did or who
\* was to mail broke off (app.ts 4696-4710).
AlertedOnce == Report!AlertedOnce

\* The tables are well-formed, no session was given away, and no alert is missed or
\* repeated but by the two overlaps and the break-off that AlertedOnce names (app.ts 918-1005, 4696-4710).
Inv == TypeOK /\ TokensPaidFor /\ AlertedOnce

\* A session that was logged out is admitted no more while its token lasts, the
\* revoked row staying as long (auth.ts 70-112, ip-retention-purge.ts 31-41).
LoggedOutStaysOut == Session!LoggedOutStaysOut

\* A profile is as its owner asked, whatever requests overlap: its verified address was
\* proved, its owner wrote its fields, and its assets are of one list, each unless a
\* request wrote on what another had changed in just that (app.ts 2116-2210, 2347-2440,
\* 2565-2625).
AsAsked == Account!AsAsked
=============================================================================
