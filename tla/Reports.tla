------------------------------ MODULE Reports ------------------------------
(***************************************************************************)
(* Reports about one profile (POST /profiles/:username/report of app.ts):  *)
(* a request inserts its report, counts the profile's reports and, if they *)
(* are three, mails the admin.  The addresses of the reporters are deleted *)
(* in time (ip-retention-purge.ts), the reports are kept.                  *)
(***************************************************************************)
EXTENDS Naturals, FiniteSets

CONSTANTS
  Filings,    \* the requests
  Threshold   \* of the alert: 3

ReportsAssumption == IsFiniteSet(Filings) /\ Threshold \in Nat \ {0}

VARIABLES
  filing,      \* where a request is
  reports,     \* table profile_reports: whose report it is
  ips,         \* those whose reporterIp is still there
  expired,     \* those whose expiresAt (90 days) has passed
  alerts,      \* mails sent to the admin
  mishaps      \* history: what can have made the alert come twice, or never

reportVars == <<filing, reports, ips, expired, alerts, mishaps>>

TypeOK ==
  /\ filing \in [Filings -> {"none", "insert", "count", "mail", "done"}]
  /\ expired \subseteq reports /\ ips \subseteq reports /\ reports \subseteq Filings
  /\ alerts \in 0..Cardinality(Filings)
  /\ mishaps \subseteq {"twice", "never"}

Init ==
  /\ filing = [f \in Filings |-> "none"]
  /\ reports = {} /\ ips = {} /\ expired = {} /\ alerts = 0 /\ mishaps = {}

Goes(f, from, to) == filing[f] = from /\ filing' = [filing EXCEPT ![f] = to]
UnderWay == {f \in Filings : filing[f] \in {"insert", "count", "mail"}}

\* A valid report of a profile that is there; the others are answered and gone.
File(f) ==
  /\ Goes(f, "none", "insert")
  /\ UNCHANGED <<reports, ips, expired, alerts, mishaps>>

\* "Alert only when the threshold is first reached, not on every later report".
FirstReached == Cardinality(reports) = Threshold

\* Another request has inserted its report and has not counted yet: it will count this
\* one too, and find three as the third does, or four and not three.
Overtaken ==
  IF \A g \in Filings : filing[g] # "count" THEN {}
  ELSE IF Cardinality(reports') = Threshold THEN {"twice"}
  ELSE IF FirstReached THEN {"never"} ELSE {}

InsertReport(f) ==
  /\ Goes(f, "insert", "count")
  /\ reports' = reports \cup {f} /\ ips' = ips \cup {f}
  /\ mishaps' = mishaps \cup Overtaken
  /\ UNCHANGED <<expired, alerts>>

CountReports(f) ==
  /\ Goes(f, "count", IF FirstReached THEN "mail" ELSE "done")
  /\ UNCHANGED <<reports, ips, expired, alerts, mishaps>>

Alert(f) ==
  /\ Goes(f, "mail", "done")
  /\ alerts' = alerts + 1
  /\ UNCHANGED <<reports, ips, expired, mishaps>>

\* Who would have mailed.
ToMail(f) == filing[f] = "mail" \/ (filing[f] = "count" /\ FirstReached)

\* A query or the mail fails, or the process dies: nobody comes back to it.
BreaksOff(f) ==
  /\ f \in UnderWay /\ filing' = [filing EXCEPT ![f] = "done"]
  /\ mishaps' = IF ToMail(f) THEN mishaps \cup {"never"} ELSE mishaps
  /\ UNCHANGED <<reports, ips, expired, alerts>>

Expire(f) ==
  /\ f \in reports \ expired /\ expired' = expired \cup {f}
  /\ UNCHANGED <<filing, reports, ips, alerts, mishaps>>

\* purgeExpiredReporterIps.
PurgeIps ==
  /\ ips \cap expired # {} /\ ips' = ips \ expired
  /\ UNCHANGED <<filing, reports, expired, alerts, mishaps>>

Next ==
  \/ PurgeIps
  \/ \E f \in Filings :
       File(f) \/ InsertReport(f) \/ CountReports(f) \/ Alert(f) \/ BreaksOff(f) \/ Expire(f)

-----------------------------------------------------------------------------
\* The admin is alerted when the third report is in, and of no later one.  Twice only
\* if the third came in between another's insert and its count, and then no more often
\* than there are reports up to the third; never only if the fourth came in so, or who
\* was to mail broke off.  Requests that overlap or break off in any other way neither
\* repeat nor lose it (app.ts 4696-4710).
AlertedOnce ==
  /\ alerts <= IF "twice" \in mishaps THEN Threshold ELSE 1
  /\ alerts > 0 => Cardinality(reports) >= Threshold
  /\ UnderWay = {} /\ Cardinality(reports) >= Threshold /\ "never" \notin mishaps =>
       alerts > 0
=============================================================================
