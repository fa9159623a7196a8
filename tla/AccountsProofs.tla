--------------------------- MODULE AccountsProofs ---------------------------
(***************************************************************************)
(* Of Accounts, for any wallets, requests and reporters.                   *)
(*                                                                         *)
(* Sessions: a token was a challenge's row before, and a request of its    *)
(* own; its jti is its place among the tokens, so that a revoked row is of *)
(* one token and expires with it.                                          *)
(*                                                                         *)
(* Reports: whoever mails the admin has counted three reports, and its own *)
(* is one of them; one request is due to mail, unless it can come to two,  *)
(* and until the mail is sent, unless it can be lost.                      *)
(*                                                                         *)
(* The profile: what a request has read is what is there, or the request   *)
(* mixes; a token was sent to one address, and that is the profile's.      *)
(***************************************************************************)
EXTENDS Accounts, FiniteSetTheorems, SequenceTheorems, TLAPS

\* The parts count as the module does: of each, its copy of the library's definitions.
LEMMA SameCounts ==
  /\ \A S : Report!IsFiniteSet(S) = IsFiniteSet(S) /\ Session!IsFiniteSet(S) = IsFiniteSet(S)
  /\ \A S : Report!Cardinality(S) = Cardinality(S) /\ Session!Cardinality(S) = Cardinality(S)
<1>1. \A S : Report!IsFiniteSet(S) = IsFiniteSet(S) /\ Session!IsFiniteSet(S) = IsFiniteSet(S)
  BY DEF Report!IsFiniteSet, Session!IsFiniteSet, IsFiniteSet
<1>2. \A S : Report!Cardinality(S) = Cardinality(S) /\ Session!Cardinality(S) = Cardinality(S)
  BY <1>1 DEF Report!Cardinality, Session!Cardinality, Cardinality
<1> QED BY <1>1, <1>2

-----------------------------------------------------------------------------
(* Reports.                                                                *)

\* The reports whose request has passed its count, and the requests that mail.
Counted == {f \in reports : filing[f] \in {"mail", "done"}}
Mailing == {f \in Filings : filing[f] = "mail"}

\* Those who will mail unless something happens to them.
Due == {f \in Filings : filing[f] = "mail" \/ (filing[f] = "count" /\ Cardinality(reports) = Threshold)}

\* Nobody mails before the third report.  Unless the alert can come twice, one request
\* is due at most and none after the alert; unless it can be lost, one is due until then.
InTurn ==
  /\ Cardinality(reports) < Threshold => Mailing = {} /\ alerts = 0
  /\ "twice" \notin mishaps =>
       alerts <= 1 /\ (alerts = 1 => Due = {}) /\ \A f, g \in Due : f = g
  /\ "never" \notin mishaps /\ Cardinality(reports) >= Threshold => alerts > 0 \/ Due # {}

\* The inductive invariant of the reports.
ReportsInv ==
  /\ Report!TypeOK
  /\ \A f \in Filings : filing[f] \in {"none", "insert"} => f \notin reports
  /\ \A f \in Filings : filing[f] \in {"count", "mail"} => f \in reports
  /\ alerts + Cardinality(Mailing) <= Cardinality(Counted)
  /\ alerts + Cardinality(Mailing) <= Threshold
  /\ InTurn

\* The sets that are counted are finite.
LEMMA ReportsFinite ==
  ASSUME Report!TypeOK
  PROVE  /\ IsFiniteSet(reports) /\ IsFiniteSet(Mailing) /\ IsFiniteSet(Counted)
         /\ Cardinality(reports) \in Nat /\ Cardinality(Mailing) \in Nat
         /\ Cardinality(Counted) \in Nat /\ Cardinality(Filings) \in Nat
         /\ Cardinality(Counted) <= Cardinality(reports)
         /\ Cardinality(reports) <= Cardinality(Filings)
         /\ Threshold \in Nat \ {0} /\ alerts \in Nat
<1>1. IsFiniteSet(Filings) /\ Threshold \in Nat \ {0}
  BY AccountsAssumption, SameCounts DEF AccountsAssumption, Report!ReportsAssumption
<1>2. IsFiniteSet(reports) /\ Cardinality(reports) <= Cardinality(Filings)
  BY <1>1, FS_Subset DEF Report!TypeOK
<1>3. IsFiniteSet(Mailing)
  BY <1>1, FS_Subset DEF Mailing
<1>4. IsFiniteSet(Counted) /\ Cardinality(Counted) <= Cardinality(reports)
  BY <1>2, FS_Subset DEF Counted
<1>5. alerts \in Nat
  BY <1>1, FS_CardinalityType DEF Report!TypeOK
<1> QED BY <1>1, <1>2, <1>3, <1>4, <1>5, FS_CardinalityType

\* No report, no alert.
LEMMA ReportsInit == ASSUME Report!Init PROVE ReportsInv
<1>1. Threshold \in Nat \ {0} /\ Cardinality(Filings) \in Nat
  BY AccountsAssumption, SameCounts, FS_CardinalityType DEF AccountsAssumption, Report!ReportsAssumption
<1>2. Mailing = {} /\ Counted = {} /\ reports = {} /\ Due = {}
  BY DEF Report!Init, Mailing, Counted, Due
<1>3. Cardinality({}) = 0
  BY FS_EmptySet
<1>4. Report!TypeOK
  <2>1. filing \in [Filings -> {"none", "insert", "count", "mail", "done"}]
    BY DEF Report!Init
  <2>2. alerts \in 0..Report!Cardinality(Filings)
    BY <1>1, SameCounts DEF Report!Init
  <2>3. mishaps \subseteq {"twice", "never"}
    BY DEF Report!Init
  <2> QED BY <2>1, <2>2, <2>3 DEF Report!Init, Report!TypeOK
<1>5. InTurn
  BY <1>1, <1>2, <1>3 DEF Report!Init, InTurn
<1> QED BY <1>1, <1>2, <1>3, <1>4, <1>5 DEF ReportsInv, Report!Init

\* A report is filed.
LEMMA FileKeeps ==
  ASSUME ReportsInv, NEW f \in Filings, Report!File(f)
  PROVE  ReportsInv'
<1> USE DEF ReportsInv
<1>1. /\ filing' \in [Filings -> {"none", "insert", "count", "mail", "done"}]
      /\ filing'[f] = "insert" /\ \A g \in Filings \ {f} : filing'[g] = filing[g]
      /\ UNCHANGED <<reports, ips, expired, alerts, mishaps>> /\ filing[f] = "none"
  BY DEF Report!TypeOK, Report!File, Report!Goes
<1>2. Mailing' = Mailing /\ Due' = Due
  BY <1>1 DEF Mailing, Due
<1>3. Counted' = Counted
  BY <1>1 DEF Counted, Report!TypeOK
<1>4. Report!TypeOK'
  BY <1>1 DEF Report!TypeOK
<1>5. InTurn'
  BY <1>1, <1>2 DEF InTurn
<1> QED BY <1>1, <1>2, <1>3, <1>4, <1>5

\* A report is inserted.
LEMMA InsertKeeps ==
  ASSUME ReportsInv, NEW f \in Filings, Report!InsertReport(f)
  PROVE  ReportsInv'
<1> USE DEF ReportsInv
<1>1. /\ filing' \in [Filings -> {"none", "insert", "count", "mail", "done"}]
      /\ filing'[f] = "count" /\ \A g \in Filings \ {f} : filing'[g] = filing[g]
      /\ UNCHANGED <<expired, alerts>> /\ filing[f] = "insert"
      /\ f \notin reports /\ reports' = reports \cup {f}
      /\ ips' = ips \cup {f} /\ mishaps' = mishaps \cup Report!Overtaken
  BY DEF Report!TypeOK, Report!InsertReport, Report!Goes
<1>2. Mailing' = Mailing
  BY <1>1 DEF Mailing
<1>3. Counted' = Counted
  BY <1>1 DEF Counted, Report!TypeOK
<1>4. /\ Report!Overtaken \subseteq {"twice", "never"}
      /\ (\E g \in Filings : filing[g] = "count") /\ Cardinality(reports') = Threshold =>
           "twice" \in mishaps'
      /\ (\E g \in Filings : filing[g] = "count") /\ Cardinality(reports) = Threshold
           /\ Cardinality(reports') # Threshold => "never" \in mishaps'
  <2>1. Report!Overtaken \subseteq {"twice", "never"}
    BY DEF Report!Overtaken
  <2>2. ASSUME \E g \in Filings : filing[g] = "count", Cardinality(reports') = Threshold
        PROVE  "twice" \in Report!Overtaken
    <3>1. Report!Cardinality(reports') = Threshold
      BY <2>2, SameCounts
    <3> QED BY <2>2, <3>1 DEF Report!Overtaken
  <2>3. ASSUME \E g \in Filings : filing[g] = "count",
               Cardinality(reports) = Threshold, Cardinality(reports') # Threshold
        PROVE  "never" \in Report!Overtaken
    <3>1. Report!Cardinality(reports') # Threshold /\ Report!FirstReached
      BY <2>3, SameCounts DEF Report!FirstReached
    <3> QED BY <2>3, <3>1 DEF Report!Overtaken
  <2> QED BY <1>1, <2>1, <2>2, <2>3
<1>5. Report!TypeOK'
  BY <1>1, <1>4 DEF Report!TypeOK
<1>6. Cardinality(reports') = Cardinality(reports) + 1
  BY <1>1, ReportsFinite, FS_AddElement
<1>7. mishaps \subseteq mishaps'
  BY <1>1
<1>8. CASE Cardinality(reports) + 1 < Threshold
  <2>1. Mailing = {} /\ alerts = 0
    BY <1>8, ReportsFinite DEF InTurn
  <2>2. Due' = {}
    BY <1>2, <1>6, <1>8, <2>1, ReportsFinite DEF Due, Mailing
  <2>3. InTurn'
    BY <1>1, <1>2, <1>6, <1>8, <2>1, <2>2, ReportsFinite DEF InTurn
  <2> QED BY <1>1, <1>2, <1>3, <1>5, <2>3
<1>9. CASE Cardinality(reports) + 1 = Threshold
  <2>1. Mailing = {} /\ alerts = 0
    BY <1>9, ReportsFinite DEF InTurn
  <2>2. f \in Due'
    BY <1>1, <1>6, <1>9 DEF Due
  <2>3. ASSUME "twice" \notin mishaps' PROVE \A g \in Due' : g = f
    <3>1. \A g \in Filings : filing[g] # "count" /\ filing[g] # "mail"
      BY <1>4, <1>6, <1>9, <2>1, <2>3 DEF Mailing
    <3> QED BY <1>1, <3>1 DEF Due
  <2>4. InTurn'
    BY <1>1, <1>6, <1>9, <2>1, <2>2, <2>3, ReportsFinite DEF InTurn
  <2> QED BY <1>1, <1>2, <1>3, <1>5, <2>4
<1>10. CASE Cardinality(reports) >= Threshold
  <2>1. Cardinality(reports') > Threshold
    BY <1>6, <1>10, ReportsFinite
  <2>2. Due' = Mailing /\ Mailing \subseteq Due
    BY <1>2, <2>1, ReportsFinite DEF Due, Mailing
  <2>3. ASSUME "never" \notin mishaps' PROVE Due = Mailing
    <3>1. CASE Cardinality(reports) = Threshold
      <4>1. Cardinality(reports') # Threshold
        BY <2>1, ReportsFinite
      <4>2. \A g \in Filings : filing[g] # "count"
        BY <1>4, <2>3, <3>1, <4>1
      <4> QED BY <4>2 DEF Due, Mailing
    <3>2. CASE Cardinality(reports) # Threshold
      BY <3>2 DEF Due, Mailing
    <3> QED BY <3>1, <3>2
  <2>4. InTurn'
    <3>1. ~(Cardinality(reports') < Threshold)
      BY <1>6, <1>10, ReportsFinite
    <3>2. ASSUME "twice" \notin mishaps'
          PROVE  alerts' <= 1 /\ (alerts' = 1 => Due' = {}) /\ \A g, h \in Due' : g = h
      <4>1. alerts <= 1 /\ (alerts = 1 => Due = {}) /\ \A g, h \in Due : g = h
        BY <1>7, <3>2 DEF InTurn
      <4> QED BY <1>1, <2>2, <4>1
    <3>3. ASSUME "never" \notin mishaps' PROVE alerts' > 0 \/ Due' # {}
      <4>1. alerts > 0 \/ Due # {}
        BY <1>7, <1>10, <3>3 DEF InTurn
      <4> QED BY <1>1, <2>2, <2>3, <3>3, <4>1
    <3> QED BY <3>1, <3>2, <3>3 DEF InTurn
  <2> QED BY <1>1, <1>2, <1>3, <1>5, <2>4
<1> QED BY <1>8, <1>9, <1>10, ReportsFinite

\* The reports are counted.
LEMMA CountKeeps ==
  ASSUME ReportsInv, NEW f \in Filings, Report!CountReports(f)
  PROVE  ReportsInv'
<1> USE DEF ReportsInv
<1> DEFINE to == IF Report!FirstReached THEN "mail" ELSE "done"
<1>1. /\ filing' \in [Filings -> {"none", "insert", "count", "mail", "done"}]
      /\ filing'[f] = to /\ \A g \in Filings \ {f} : filing'[g] = filing[g]
      /\ UNCHANGED <<reports, ips, expired, alerts, mishaps>> /\ filing[f] = "count"
      /\ f \in reports
  BY DEF Report!TypeOK, Report!CountReports, Report!Goes
<1>2. to \in {"mail", "done"} /\ (to = "mail" <=> Cardinality(reports) = Threshold)
  BY SameCounts DEF Report!FirstReached
<1> HIDE DEF to
<1>3. Counted' = Counted \cup {f} /\ f \notin Counted
  BY <1>1, <1>2 DEF Counted, Report!TypeOK
<1>4. Cardinality(Counted') = Cardinality(Counted) + 1
  BY <1>3, ReportsFinite, FS_AddElement
<1>5. Report!TypeOK'
  BY <1>1 DEF Report!TypeOK
<1>6. Cardinality(Counted') <= Cardinality(reports)
  BY <1>1, <1>5, ReportsFinite, FS_Subset DEF Counted
<1>7. Due' = Due
  BY <1>1, <1>2 DEF Due
<1>8. CASE to = "mail"
  <2>1. Mailing' = Mailing \cup {f} /\ f \notin Mailing
    BY <1>1, <1>8 DEF Mailing
  <2>2. Cardinality(Mailing') = Cardinality(Mailing) + 1
    BY <2>1, ReportsFinite, FS_AddElement
  <2>3. alerts' + Cardinality(Mailing') <= Cardinality(Counted')
    BY <1>1, <1>4, <2>2, ReportsFinite
  <2>4. alerts' + Cardinality(Mailing') <= Threshold
    BY <1>1, <1>2, <1>4, <1>6, <1>8, <2>2, ReportsFinite
  <2>5. InTurn'
    BY <1>1, <1>2, <1>7, <1>8, ReportsFinite DEF InTurn
  <2> QED BY <1>1, <1>5, <1>8, <2>3, <2>4, <2>5
<1>9. CASE to = "done"
  <2>1. Mailing' = Mailing
    BY <1>1, <1>9 DEF Mailing
  <2>2. alerts' + Cardinality(Mailing') <= Cardinality(Counted')
    BY <1>1, <1>4, <2>1, ReportsFinite
  <2>3. InTurn'
    BY <1>1, <1>7, <2>1 DEF InTurn
  <2> QED BY <1>1, <1>5, <1>9, <2>1, <2>2, <2>3
<1> QED BY <1>2, <1>8, <1>9

\* The admin is mailed, or a request that was to mail breaks off.
LEMMA MailKeeps ==
  ASSUME ReportsInv, NEW f \in Filings,
         Report!Alert(f) \/ (filing[f] = "mail" /\ Report!BreaksOff(f))
  PROVE  ReportsInv'
<1> USE DEF ReportsInv
<1>1. /\ filing' \in [Filings -> {"none", "insert", "count", "mail", "done"}]
      /\ filing'[f] = "done" /\ \A g \in Filings \ {f} : filing'[g] = filing[g]
      /\ UNCHANGED <<reports, ips, expired>> /\ filing[f] = "mail" /\ f \in reports
      /\ \/ alerts' = alerts + 1 /\ mishaps' = mishaps
         \/ alerts' = alerts /\ mishaps' = mishaps \cup {"never"}
  BY DEF Report!TypeOK, Report!Alert, Report!Goes, Report!BreaksOff, Report!ToMail
<1>2. Mailing' = Mailing \ {f} /\ f \in Mailing
  BY <1>1 DEF Mailing
<1>3. Cardinality(Mailing') = Cardinality(Mailing) - 1 /\ Cardinality(Mailing') \in Nat
  BY <1>2, ReportsFinite, FS_RemoveElement, FS_CardinalityType
<1>4. Counted' = Counted
  BY <1>1 DEF Counted, Report!TypeOK
<1>5. /\ alerts' + Cardinality(Mailing') <= Cardinality(Counted')
      /\ alerts' + Cardinality(Mailing') <= Threshold
      /\ alerts' \in 0..Cardinality(Filings)
  BY <1>1, <1>3, <1>4, ReportsFinite
<1>6. Report!TypeOK'
  BY <1>1, <1>5, SameCounts DEF Report!TypeOK
<1>7. Due' = Due \ {f} /\ f \in Due
  BY <1>1 DEF Due
<1>8. Cardinality(reports) >= Threshold
  BY <1>2, ReportsFinite DEF InTurn
<1>9. InTurn'
  BY <1>1, <1>7, <1>8, ReportsFinite DEF InTurn
<1> QED BY <1>1, <1>5, <1>6, <1>9

\* A request breaks off before its mail.
LEMMA BreakKeeps ==
  ASSUME ReportsInv, NEW f \in Filings, filing[f] # "mail", Report!BreaksOff(f)
  PROVE  ReportsInv'
<1> USE DEF ReportsInv
<1>1. /\ filing' \in [Filings -> {"none", "insert", "count", "mail", "done"}]
      /\ filing'[f] = "done" /\ \A g \in Filings \ {f} : filing'[g] = filing[g]
      /\ UNCHANGED <<reports, ips, expired, alerts>> /\ filing[f] \in {"insert", "count"}
  BY DEF Report!TypeOK, Report!BreaksOff, Report!UnderWay
<1>2. Mailing' = Mailing
  BY <1>1 DEF Mailing
<1>3. Counted \subseteq Counted'
  BY <1>1 DEF Counted, Report!TypeOK
<1>4. /\ mishaps \subseteq mishaps' /\ mishaps' \subseteq {"twice", "never"}
      /\ filing[f] = "count" /\ Cardinality(reports) = Threshold => "never" \in mishaps'
  BY SameCounts DEF Report!TypeOK, Report!BreaksOff, Report!ToMail, Report!FirstReached
<1>5. Report!TypeOK'
  BY <1>1, <1>4 DEF Report!TypeOK
<1>6. IsFiniteSet(Counted') /\ Cardinality(Counted') \in Nat
  <2>1. Counted' \subseteq reports
    BY <1>1 DEF Counted
  <2> QED BY <2>1, ReportsFinite, FS_Subset, FS_CardinalityType
<1>7. Cardinality(Counted) <= Cardinality(Counted')
  BY <1>3, <1>6, FS_Subset
<1>8. /\ alerts' + Cardinality(Mailing') <= Cardinality(Counted')
      /\ alerts' + Cardinality(Mailing') <= Threshold
  BY <1>1, <1>2, <1>6, <1>7, ReportsFinite
<1>9. Due' \subseteq Due /\ ("never" \notin mishaps' => Due' = Due)
  BY <1>1, <1>4 DEF Due
<1>10. InTurn'
  BY <1>1, <1>2, <1>4, <1>9, ReportsFinite DEF InTurn
<1> QED BY <1>1, <1>5, <1>8, <1>10

\* Every step of the reports keeps the invariant.
LEMMA ReportsStep == ASSUME ReportsInv, Report!Next PROVE ReportsInv'
<1>1. ASSUME UNCHANGED <<filing, reports, alerts, mishaps>>,
             ips' \subseteq ips, expired' \subseteq reports
      PROVE  ReportsInv'
  BY <1>1 DEF ReportsInv, Report!TypeOK, InTurn, Mailing, Counted, Due
<1>2. CASE Report!PurgeIps
  BY <1>1, <1>2 DEF Report!PurgeIps, ReportsInv, Report!TypeOK
<1>3. ASSUME NEW f \in Filings, Report!Expire(f) PROVE ReportsInv'
  BY <1>1, <1>3 DEF Report!Expire, ReportsInv, Report!TypeOK
<1> QED BY <1>2, <1>3, FileKeeps, InsertKeeps, CountKeeps, MailKeeps, BreakKeeps DEF Report!Next

\* The invariant says that the admin is alerted once.
LEMMA ReportsAlert == ASSUME ReportsInv PROVE AlertedOnce
<1>1. alerts <= Threshold /\ 1 \in Nat /\ ("twice" \notin mishaps => alerts <= 1)
  BY ReportsFinite DEF ReportsInv, InTurn
<1>2. alerts > 0 => Cardinality(reports) >= Threshold
  BY ReportsFinite DEF ReportsInv, InTurn
<1>3. Report!UnderWay = {} => Due = {}
  BY DEF Due, Report!UnderWay
<1>4. /\ Report!UnderWay = {} /\ Cardinality(reports) >= Threshold /\ "never" \notin mishaps =>
         alerts > 0
  BY <1>3 DEF ReportsInv, InTurn
<1> QED BY <1>1, <1>2, <1>4, SameCounts DEF AlertedOnce, Report!AlertedOnce

-----------------------------------------------------------------------------
(* The profile.                                                            *)

Addresses == Emails \cup {None}
Argument  == Addresses \cup {Keep} \cup (1..MaxMailTokens) \cup AssetLists
Request   == [by : Wallets, kind : Account!Kinds, arg : Argument,
              seen : Account!Profile \cup {None}, old : SUBSET Account!Row,
              pc : {"read", "write", "commit", "done"}]

ProfileTyped ==
  /\ profile \in Account!Profile \cup {None} /\ rows \subseteq Account!Row
  /\ requests \in Seq(Request) /\ Len(requests) <= MaxProfileRequests
  /\ tokensMade \in 0..MaxMailTokens
  /\ mails \subseteq [token : 1..MaxMailTokens, to : Emails]
  /\ proof \in Addresses /\ mixed \subseteq Account!Mixes

\* A token is sent to one address, and none before it is made.
MailsRight ==
  /\ \A m \in mails : m.token <= tokensMade
  /\ \A m, n \in mails : m.token = n.token => m.to = n.to

\* The token of a row was made; the mails with it went to the row's address, if it has
\* one and addresses were not mixed.
TokenRight(p) ==
  /\ p.token <= tokensMade
  /\ "address" \notin mixed /\ p.email # None => \A m \in mails : m.token = p.token => m.to = p.email

\* A row is the one that was there, or comes from a create that is done.
IdRight(p) == p.id = 0 \/ (p.id \in 1..Len(requests) /\ requests[p.id].pc = "done")

\* What a handler has read and will write on: a row of the caller, who is still the owner
\* if it is still the row.
SeenRight(r) ==
  /\ r.seen \in Account!Profile /\ r.seen.owner = r.by
  /\ TokenRight(r.seen) /\ IdRight(r.seen)
  /\ profile # None /\ profile.id = r.seen.id => profile.owner = r.seen.owner
  /\ r.kind = "verify" => r.seen.token = r.arg
  /\ r.kind = "resend" => r.seen.email # None

RequestRight(r) ==
  /\ r.kind = "create" => r.arg \in Addresses
  /\ r.kind = "patch"  => r.arg \in Addresses \cup {Keep}
  /\ r.kind = "verify" => \E m \in mails : m.token = r.arg
  /\ r.kind = "assets" => r.arg \in AssetLists
  /\ r.pc = "commit" => r.kind = "assets"
  /\ r.pc = "write" /\ r.kind # "create" => SeenRight(r)

\* The inductive invariant of the profile.
ProfileInv ==
  /\ ProfileTyped /\ MailsRight /\ AsAsked
  /\ profile # None => TokenRight(profile) /\ IdRight(profile)
  /\ \A i \in 1..Len(requests) : RequestRight(requests[i])

\* Tokens and mails stay, or one token is made and its mail sent or lost.
MailsGrow == UNCHANGED <<tokensMade, mails>> \/ \E e \in Emails : Account!MakeToken(e)

\* The bounds are numbers, and no address is none.
LEMMA ProfileBounds ==
  /\ MaxProfileRequests \in Nat /\ MaxMailTokens \in Nat \ {0}
  /\ None \notin Emails /\ Keep \notin Emails
  /\ AssetLists \subseteq SUBSET ({XLM} \cup OtherAssets)
  BY AccountsAssumption DEF AccountsAssumption, Account!ProfilesAssumption

\* A request is a request, an unfinished one not the creator of a row.
LEMMA RequestIs ==
  ASSUME ProfileTyped, NEW i \in 1..Len(requests)
  PROVE  requests[i] \in Request
  BY DEF ProfileTyped

\* What is there was read, or made: no row is of a request that is not done.
LEMMA MailsKeep ==
  ASSUME ProfileTyped, MailsRight, MailsGrow
  PROVE  /\ MailsRight' /\ tokensMade <= tokensMade' /\ tokensMade' \in 0..MaxMailTokens
         /\ mails \subseteq mails' /\ mails' \subseteq [token : 1..MaxMailTokens, to : Emails]
         /\ \A m \in mails' \ mails : m.token > tokensMade
<1> USE ProfileBounds
<1>1. CASE UNCHANGED <<tokensMade, mails>>
  BY <1>1 DEF ProfileTyped, MailsRight
<1>2. ASSUME NEW e \in Emails, Account!MakeToken(e)
      PROVE  /\ MailsRight' /\ tokensMade <= tokensMade' /\ tokensMade' \in 0..MaxMailTokens
             /\ mails \subseteq mails' /\ mails' \subseteq [token : 1..MaxMailTokens, to : Emails]
             /\ \A m \in mails' \ mails : m.token > tokensMade
  <2> DEFINE sent == [token |-> tokensMade', to |-> e]
  <2>1. /\ tokensMade' = tokensMade + 1 /\ tokensMade' \in 1..MaxMailTokens
        /\ tokensMade \in Nat /\ mails' \in {mails, mails \cup {sent}}
    BY <1>2 DEF Account!MakeToken, ProfileTyped
  <2>2. sent.token = tokensMade' /\ sent.to = e /\ sent \in [token : 1..MaxMailTokens, to : Emails]
    BY <2>1
  <2>3. \A m \in mails : m.token \in 1..MaxMailTokens /\ m.token <= tokensMade
    BY DEF ProfileTyped, MailsRight
  <2> HIDE DEF sent
  <2> QED BY <2>1, <2>2, <2>3 DEF ProfileTyped, MailsRight
<1> QED BY <1>1, <1>2 DEF MailsGrow

\* A row's token stays right while mails are added.
LEMMA TokenKeeps ==
  ASSUME ProfileTyped, MailsRight, MailsGrow, mixed \subseteq mixed',
         NEW p \in Account!Profile, TokenRight(p)
  PROVE  p.token <= tokensMade'
         /\ ("address" \notin mixed' /\ p.email # None => \A m \in mails' : m.token = p.token => m.to = p.email)
<1>1. p.token \in Nat /\ tokensMade \in Nat /\ tokensMade' \in Nat /\ tokensMade <= tokensMade'
  BY MailsKeep, ProfileBounds DEF Account!Profile, ProfileTyped
<1>2. \A m \in mails' \ mails : m.token > tokensMade /\ m.token \in Nat
  BY MailsKeep, ProfileBounds
<1> QED BY <1>1, <1>2 DEF TokenRight

\* What a request that is done is: nothing but what was asked.
LEMMA DoneIs ==
  ASSUME NEW r \in Request
  PROVE  LET d == [r EXCEPT !.pc = "done", !.seen = None, !.old = {}] IN
         d \in Request /\ d.pc = "done" /\ d.kind = r.kind /\ d.arg = r.arg
<1> DEFINE b == [r EXCEPT !.pc = "done"]
           c == [b EXCEPT !.seen = None]
           d == [c EXCEPT !.old = {}]
<1>1. b \in Request /\ b.pc = "done" /\ b.kind = r.kind /\ b.arg = r.arg
  BY DEF Request
<1>2. c \in Request /\ c.pc = "done" /\ c.kind = r.kind /\ c.arg = r.arg
  <2> HIDE DEF b
  <2> QED BY <1>1 DEF Request
<1>3. d \in Request /\ d.pc = "done" /\ d.kind = r.kind /\ d.arg = r.arg
  <2> HIDE DEF c
  <2> QED BY <1>2 DEF Request
<1>4. [r EXCEPT !.pc = "done", !.seen = None, !.old = {}] = d
  OBVIOUS
<1> QED BY <1>3, <1>4, Zenon

\* A request that ends leaves the others as they are, if what it wrote is right: the row
\* that was there, for its owner, or a new one of its own.
LEMMA EndKeeps ==
  ASSUME ProfileInv, NEW i \in 1..Len(requests), requests[i].pc # "done", Account!Done(i),
         mixed \subseteq mixed', mixed' \subseteq Account!Mixes, MailsGrow,
         proof' \in Addresses, rows' \subseteq Account!Row,
         profile' \in Account!Profile \cup {None},
         profile' # None =>
           /\ \/ profile # None /\ profile'.id = profile.id /\ profile'.owner = profile.owner
              \/ profile'.id = i
           /\ TokenRight(profile)',
         AsAsked'
  PROVE  ProfileInv'
<1> DEFINE ended == [requests[i] EXCEPT !.pc = "done", !.seen = None, !.old = {}]
<1>1. requests[i] \in Request /\ requests \in Seq(Request) /\ Len(requests) \in Nat
  BY RequestIs DEF ProfileInv, ProfileTyped
<1>2. ended \in Request /\ ended.pc = "done" /\ ended.kind = requests[i].kind /\ ended.arg = requests[i].arg
  BY <1>1, DoneIs, Zenon
<1>3. requests' = [requests EXCEPT ![i] = ended]
  BY DEF Account!Done
<1> HIDE DEF ended
<1>4. /\ requests' \in Seq(Request) /\ Len(requests') = Len(requests) /\ requests'[i] = ended
      /\ \A j \in 1..Len(requests) : j # i => requests'[j] = requests[j]
  BY <1>1, <1>2, <1>3
<1>5. MailsRight' /\ ProfileTyped'
  BY <1>4, MailsKeep DEF ProfileInv, ProfileTyped
<1>6. mails \subseteq mails'
  BY MailsKeep DEF ProfileInv
<1>7. \A p : IdRight(p) => IdRight(p)' /\ p.id # i
  BY <1>2, <1>4 DEF IdRight
<1>8. ASSUME NEW r, SeenRight(r) PROVE SeenRight(r)'
  <2>1. r.seen \in Account!Profile /\ TokenRight(r.seen)
    BY <1>8 DEF SeenRight
  <2>2. IdRight(r.seen)' /\ r.seen.id # i
    BY <1>7, <1>8 DEF SeenRight
  <2>3. TokenRight(r.seen)'
    BY <2>1, TokenKeeps DEF ProfileInv, TokenRight
  <2>4. (profile # None /\ profile.id = r.seen.id => profile.owner = r.seen.owner)'
    BY <1>8, <2>2 DEF SeenRight
  <2> QED BY <1>8, <2>1, <2>2, <2>3, <2>4 DEF SeenRight
<1>9. \A r : RequestRight(r) => RequestRight(r)'
  BY <1>6, <1>8 DEF RequestRight
<1>10. ASSUME NEW j \in 1..Len(requests) PROVE RequestRight(requests[j])'
  <2>1. RequestRight(requests[j])
    BY DEF ProfileInv
  <2>2. CASE j = i
    BY <1>2, <1>4, <1>6, <2>1, <2>2 DEF RequestRight
  <2>3. CASE j # i
    <3>1. PICK r : r = requests[j]
      OBVIOUS
    <3>2. requests'[j] = r /\ RequestRight(r)'
      BY <1>4, <1>9, <2>1, <2>3, <3>1
    <3> QED BY <3>2 DEF RequestRight, SeenRight, TokenRight, IdRight
  <2> QED BY <2>2, <2>3
<1>11. profile' # None => IdRight(profile)'
  <2>1. profile # None => IdRight(profile)
    BY DEF ProfileInv
  <2>2. CASE profile # None /\ profile'.id = profile.id
    BY <1>2, <1>4, <2>1, <2>2 DEF IdRight
  <2>3. CASE profile'.id = i
    BY <1>2, <1>4, <2>3 DEF IdRight
  <2> QED BY <2>2, <2>3
<1> QED BY <1>4, <1>5, <1>10, <1>11 DEF ProfileInv

\* A request that goes on alone, right in what it has read, leaves the others right.
LEMMA MoveKeeps ==
  ASSUME ProfileInv, NEW i \in 1..Len(requests), requests[i].pc # "done",
         NEW q \in Request, RequestRight(q), requests' = [requests EXCEPT ![i] = q],
         UNCHANGED <<profile, rows, tokensMade, mails, proof, mixed>>
  PROVE  ProfileInv'
<1>1. /\ requests' \in Seq(Request) /\ Len(requests') = Len(requests) /\ requests'[i] = q
      /\ \A j \in 1..Len(requests) : j # i => requests'[j] = requests[j]
  BY DEF ProfileInv, ProfileTyped
<1>2. \A p : IdRight(p) => IdRight(p)'
  BY <1>1 DEF IdRight
<1>3. \A r : RequestRight(r) => RequestRight(r)'
  BY <1>2 DEF RequestRight, SeenRight, TokenRight
<1>4. ASSUME NEW j \in 1..Len(requests) PROVE RequestRight(requests[j])'
  <2>1. PICK r : r = requests'[j] /\ RequestRight(r)
    BY <1>1 DEF ProfileInv
  <2>2. RequestRight(r)'
    BY <1>3, <2>1
  <2> QED BY <2>1, <2>2 DEF RequestRight, SeenRight, TokenRight, IdRight
<1>5. ProfileTyped' /\ MailsRight' /\ AsAsked'
  BY <1>1 DEF ProfileInv, ProfileTyped, MailsRight, AsAsked, Account!AsAsked,
     Account!VerifiedIsProved, Account!WrittenByOwner, Account!AssetsOfOneRequest
<1>6. (profile # None => TokenRight(profile) /\ IdRight(profile))'
  <2>1. profile # None => TokenRight(profile) /\ IdRight(profile)
    BY DEF ProfileInv
  <2> QED BY <1>1, <2>1 DEF TokenRight, IdRight
<1> QED BY <1>1, <1>4, <1>5, <1>6 DEF ProfileInv

\* A request arrives.
LEMMA BeginKeeps ==
  ASSUME ProfileInv, NEW who \in Wallets, Account!BeginSome(who)
  PROVE  ProfileInv'
<1>1. PICK kind \in Account!Kinds, arg \in Argument :
        /\ Account!Begin(who, kind, arg)
        /\ kind = "create" => arg \in Addresses
        /\ kind = "patch"  => arg \in Addresses \cup {Keep}
        /\ kind = "verify" => \E m \in mails : m.token = arg
        /\ kind = "assets" => arg \in AssetLists
  <2>1. \A m \in mails : m.token \in 1..MaxMailTokens
    BY DEF ProfileInv, ProfileTyped
  <2> QED BY <2>1 DEF Account!BeginSome, Account!Kinds, Argument, Addresses
<1> DEFINE new == [by |-> who, kind |-> kind, arg |-> arg, seen |-> None, old |-> {},
                   pc |-> IF kind = "create" THEN "write" ELSE "read"]
<1>2. /\ Len(requests) < MaxProfileRequests /\ requests' = Append(requests, new)
      /\ UNCHANGED <<profile, rows, tokensMade, mails, proof, mixed>>
  BY <1>1 DEF Account!Begin
<1>3. new \in Request /\ RequestRight(new)
  BY <1>1 DEF Request, RequestRight
<1> HIDE DEF new
<1>4. /\ requests' \in Seq(Request) /\ Len(requests') = Len(requests) + 1
      /\ requests'[Len(requests) + 1] = new /\ Len(requests) \in Nat
      /\ \A j \in 1..Len(requests) : requests'[j] = requests[j]
  BY <1>2, <1>3 DEF ProfileInv, ProfileTyped
<1>5. \A p : IdRight(p) => IdRight(p)'
  BY <1>4 DEF IdRight
<1>6. \A r : RequestRight(r) => RequestRight(r)'
  BY <1>2, <1>5 DEF RequestRight, SeenRight, TokenRight
<1>7. ASSUME NEW j \in 1..Len(requests) + 1 PROVE RequestRight(requests[j])'
  <2>1. PICK r : r = requests'[j] /\ RequestRight(r)
    BY <1>3, <1>4 DEF ProfileInv
  <2>2. RequestRight(r)'
    BY <1>6, <2>1
  <2> QED BY <2>1, <2>2 DEF RequestRight, SeenRight, TokenRight, IdRight
<1>8. ProfileTyped' /\ MailsRight' /\ AsAsked'
  BY <1>2, <1>4, ProfileBounds
     DEF ProfileInv, ProfileTyped, MailsRight, AsAsked, Account!AsAsked,
         Account!VerifiedIsProved, Account!WrittenByOwner, Account!AssetsOfOneRequest
<1>9. (profile # None => TokenRight(profile) /\ IdRight(profile))'
  <2>1. profile # None => TokenRight(profile) /\ IdRight(profile)
    BY DEF ProfileInv
  <2> QED BY <1>2, <1>4, <2>1 DEF TokenRight, IdRight
<1> QED BY <1>4, <1>7, <1>8, <1>9 DEF ProfileInv

\* A request reads the row, or its transaction deletes the assets.
LEMMA ReadKeeps ==
  ASSUME ProfileInv, NEW i \in 1..Len(requests), Account!Read(i) \/ Account!DeleteAssets(i)
  PROVE  ProfileInv'
<1>1. requests[i] \in Request /\ RequestRight(requests[i]) /\ profile \in Account!Profile \cup {None}
  BY RequestIs DEF ProfileInv, ProfileTyped
<1>2. CASE Account!Read(i)
  <2> DEFINE r == requests[i]
             q == [r EXCEPT !.pc = "write", !.seen = profile]
  <2>1. /\ requests' = [requests EXCEPT ![i] = q] /\ r.pc = "read"
        /\ UNCHANGED <<profile, rows, tokensMade, mails, proof, mixed>>
    BY <1>2, <1>1 DEF Account!Read, ProfileInv, ProfileTyped
  <2>2. profile # None /\ profile.owner = r.by
        /\ (r.kind = "verify" => profile.token = r.arg)
        /\ (r.kind = "resend" => profile.email # None)
    BY <1>2 DEF Account!Read, Account!GoesOn, Account!IsProfileOwner
  <2>3. /\ q \in Request /\ q.pc = "write" /\ q.seen = profile /\ q.kind = r.kind /\ q.arg = r.arg
        /\ q.by = r.by
    BY <1>1 DEF Request
  <2>4. r.pc # "done" /\ RequestRight(r) /\ TokenRight(profile) /\ IdRight(profile)
    BY <1>1, <2>1, <2>2 DEF ProfileInv
  <2> HIDE DEF q, r
  <2>5. SeenRight(q)
    BY <1>1, <2>2, <2>3, <2>4 DEF SeenRight
  <2>6. RequestRight(q)
    BY <2>3, <2>4, <2>5 DEF RequestRight
  <2> QED BY <2>1, <2>3, <2>4, <2>6, MoveKeeps DEF r
<1>3. CASE Account!DeleteAssets(i)
  <2> DEFINE r == requests[i]
             q == [r EXCEPT !.pc = "commit", !.old = rows]
  <2>1. /\ requests' = [requests EXCEPT ![i] = q] /\ r.pc = "write" /\ r.kind = "assets"
        /\ UNCHANGED <<profile, rows, tokensMade, mails, proof, mixed>>
    BY <1>3, <1>1 DEF Account!DeleteAssets, Account!Writing, ProfileInv, ProfileTyped
  <2>2. q \in Request /\ q.pc = "commit" /\ q.kind = r.kind /\ q.arg = r.arg
    BY <1>1 DEF Request, ProfileInv, ProfileTyped
  <2>3. r.pc # "done" /\ RequestRight(r)
    BY <1>1, <2>1
  <2> HIDE DEF q, r
  <2>4. RequestRight(q)
    BY <2>1, <2>2, <2>3 DEF RequestRight
  <2> QED BY <2>1, <2>2, <2>3, <2>4, MoveKeeps DEF r
<1> QED BY <1>2, <1>3

\* A fresh token's mail goes to the address it was made for.
LEMMA FreshToken ==
  ASSUME ProfileTyped, MailsRight, NEW e \in Emails, Account!MakeToken(e)
  PROVE  tokensMade' \in 1..MaxMailTokens /\ \A m \in mails' : m.token = tokensMade' => m.to = e
<1>1. tokensMade' = tokensMade + 1 /\ tokensMade \in Nat /\ tokensMade' \in 1..MaxMailTokens
  BY ProfileBounds DEF Account!MakeToken, ProfileTyped
<1>2. mails' \in {mails, mails \cup {[token |-> tokensMade', to |-> e]}}
  BY DEF Account!MakeToken
<1>3. \A m \in mails : m.token # tokensMade'
  BY <1>1 DEF MailsRight, ProfileTyped
<1> QED BY <1>1, <1>2, <1>3

\* A row as a write leaves it.
Rewritten(p, e, w, v, t, l) ==
  [p EXCEPT !.email = e, !.writer = w, !.emailVerified = v, !.token = t, !.lapsed = l]

\* What a write of the row may change.
LEMMA WrittenIs ==
  ASSUME NEW p \in Account!Profile, NEW e \in Addresses, NEW w \in Wallets, NEW v \in BOOLEAN,
         NEW t \in 0..MaxMailTokens, NEW l \in BOOLEAN
  PROVE  /\ Rewritten(p, e, w, v, t, l) \in Account!Profile
         /\ Rewritten(p, e, w, v, t, l).id = p.id
         /\ Rewritten(p, e, w, v, t, l).owner = p.owner
         /\ Rewritten(p, e, w, v, t, l).email = e
         /\ Rewritten(p, e, w, v, t, l).writer = w
         /\ Rewritten(p, e, w, v, t, l).emailVerified = v
         /\ Rewritten(p, e, w, v, t, l).token = t
<1> DEFINE a == [p EXCEPT !.email = e]
           b == [a EXCEPT !.writer = w]
           c == [b EXCEPT !.emailVerified = v]
           d == [c EXCEPT !.token = t]
           f == [d EXCEPT !.lapsed = l]
<1>1. a \in Account!Profile /\ a.id = p.id /\ a.owner = p.owner /\ a.email = e
  BY DEF Account!Profile, Addresses
<1>2. /\ b \in Account!Profile /\ b.id = p.id /\ b.owner = p.owner /\ b.email = e
      /\ b.writer = w
  <2> HIDE DEF a
  <2> QED BY <1>1 DEF Account!Profile
<1>3. /\ c \in Account!Profile /\ c.id = p.id /\ c.owner = p.owner /\ c.email = e
      /\ c.writer = w /\ c.emailVerified = v
  <2> HIDE DEF b
  <2> QED BY <1>2 DEF Account!Profile
<1>4. /\ d \in Account!Profile /\ d.id = p.id /\ d.owner = p.owner /\ d.email = e
      /\ d.writer = w /\ d.emailVerified = v /\ d.token = t
  <2> HIDE DEF c
  <2> QED BY <1>3 DEF Account!Profile
<1>5. /\ f \in Account!Profile /\ f.id = p.id /\ f.owner = p.owner /\ f.email = e
      /\ f.writer = w /\ f.emailVerified = v /\ f.token = t
  <2> HIDE DEF d
  <2> QED BY <1>4 DEF Account!Profile
<1>6. Rewritten(p, e, w, v, t, l) = f
  BY DEF Rewritten
<1> QED BY <1>5, <1>6, Zenon

\* A row with the address verified or not, its token as given.
Stamped(p, v, t) == [p EXCEPT !.emailVerified = v, !.token = t, !.lapsed = FALSE]

\* It is the same row, for the same address.
LEMMA StampedIs ==
  ASSUME NEW p \in Account!Profile, NEW v \in BOOLEAN, NEW t \in 0..MaxMailTokens
  PROVE  /\ Stamped(p, v, t) \in Account!Profile
         /\ Stamped(p, v, t).id = p.id /\ Stamped(p, v, t).owner = p.owner
         /\ Stamped(p, v, t).email = p.email /\ Stamped(p, v, t).writer = p.writer
         /\ Stamped(p, v, t).token = t
<1> DEFINE a == [p EXCEPT !.emailVerified = v]
           b == [a EXCEPT !.token = t]
           c == [b EXCEPT !.lapsed = FALSE]
<1>1. /\ a \in Account!Profile /\ a.id = p.id /\ a.owner = p.owner /\ a.email = p.email
      /\ a.writer = p.writer
  BY DEF Account!Profile
<1>2. /\ b \in Account!Profile /\ b.id = p.id /\ b.owner = p.owner /\ b.email = p.email
      /\ b.writer = p.writer /\ b.token = t
  <2> HIDE DEF a
  <2> QED BY <1>1 DEF Account!Profile
<1>3. /\ c \in Account!Profile /\ c.id = p.id /\ c.owner = p.owner /\ c.email = p.email
      /\ c.writer = p.writer /\ c.token = t
  <2> HIDE DEF b
  <2> QED BY <1>2 DEF Account!Profile
<1>4. Stamped(p, v, t) = c
  BY DEF Stamped
<1> QED BY <1>3, <1>4, Zenon

\* A handler that writes has read a row of the caller's.
LEMMA WritingIs ==
  ASSUME ProfileInv, NEW i \in 1..Len(requests), NEW kind, Account!Writing(i, kind)
  PROVE  /\ requests[i] \in Request /\ requests[i].pc = "write" /\ requests[i].kind = kind
         /\ RequestRight(requests[i])
         /\ kind # "create" => SeenRight(requests[i])
  BY RequestIs DEF ProfileInv, Account!Writing, RequestRight

\* POST /profiles.
LEMMA CreateKeeps ==
  ASSUME ProfileInv, NEW i \in 1..Len(requests), Account!Create(i) PROVE ProfileInv'
<1> DEFINE e == requests[i].arg
           t == IF e = None THEN 0 ELSE tokensMade'
           w == requests[i].by
           new == [id |-> i, owner |-> w, email |-> e, emailVerified |-> FALSE, token |-> t,
                   lapsed |-> FALSE, writer |-> w]
<1>1. /\ requests[i] \in Request /\ requests[i].pc = "write" /\ e \in Addresses
      /\ w \in Wallets /\ i \in 0..MaxProfileRequests
  BY WritingIs, ProfileBounds DEF Account!Create, RequestRight, Request, ProfileInv, ProfileTyped
<1>2. /\ IF e = None THEN UNCHANGED <<tokensMade, mails>> ELSE Account!MakeToken(e)
      /\ profile' = new /\ rows' = {[asset |-> XLM, by |-> i]} /\ proof' = None
      /\ Account!Done(i) /\ UNCHANGED mixed
  BY DEF Account!Create, Account!NoToken
<1> HIDE DEF e, w
<1>3. MailsGrow
  BY <1>1, <1>2 DEF MailsGrow, Addresses
<1>4. t \in 0..MaxMailTokens
  BY <1>1, <1>2, FreshToken, ProfileBounds DEF ProfileInv, Addresses
<1>5. new \in Account!Profile /\ new.id = i /\ new.owner = w /\ new.writer = w
      /\ new.emailVerified = FALSE /\ new.token = t /\ new.email = e
  BY <1>1, <1>4 DEF Account!Profile, Addresses
<1>6. TokenRight(profile)'
  <2>1. CASE e = None
    BY <1>2, <1>5, <2>1 DEF TokenRight, ProfileInv, ProfileTyped
  <2>2. CASE e # None
    <3>1. tokensMade' \in 1..MaxMailTokens /\ \A m \in mails' : m.token = tokensMade' => m.to = e
      BY <1>1, <1>2, <2>2, FreshToken DEF ProfileInv, Addresses
    <3> QED BY <1>2, <1>5, <2>2, <3>1, ProfileBounds DEF TokenRight
  <2> QED BY <2>1, <2>2
<1> HIDE DEF new
<1>7. AsAsked'
  BY <1>2, <1>5 DEF AsAsked, Account!AsAsked, Account!VerifiedIsProved, Account!WrittenByOwner,
     Account!AssetsOfOneRequest
<1>8. rows' \subseteq Account!Row /\ proof' \in Addresses /\ mixed' \subseteq Account!Mixes
  BY <1>1, <1>2 DEF Account!Row, Addresses, ProfileInv, ProfileTyped
<1> QED BY <1>1, <1>2, <1>3, <1>5, <1>6, <1>7, <1>8, EndKeeps

\* The row is still as asked where its writer is its owner and a verified address proved.
LEMMA AskedStill ==
  ASSUME ProfileInv, mixed \subseteq mixed', UNCHANGED rows,
         "fields" \notin mixed' => profile'.writer = profile'.owner,
         "address" \notin mixed' /\ Account!VerifiedIsProved =>
           (profile'.emailVerified /\ profile'.email # None => proof' = profile'.email)
  PROVE  AsAsked'
<1>1. /\ "address" \notin mixed => Account!VerifiedIsProved
      /\ "assets" \notin mixed => Account!AssetsOfOneRequest
  BY DEF ProfileInv, AsAsked, Account!AsAsked
<1>2. "address" \notin mixed' => Account!VerifiedIsProved'
  BY <1>1 DEF Account!VerifiedIsProved
<1>3. "fields" \notin mixed' => Account!WrittenByOwner'
  BY DEF Account!WrittenByOwner
<1>4. "assets" \notin mixed' => Account!AssetsOfOneRequest'
  BY <1>1 DEF Account!AssetsOfOneRequest
<1> QED BY <1>2, <1>3, <1>4 DEF AsAsked, Account!AsAsked

\* PATCH /profiles/:username.
LEMMA PatchKeeps ==
  ASSUME ProfileInv, NEW i \in 1..Len(requests), Account!Patch(i) PROVE ProfileInv'
<1> DEFINE r == requests[i]
           e == IF r.arg = Keep THEN profile.email ELSE r.arg
           changed == r.arg # Keep /\ r.arg # r.seen.email
           v == profile.emailVerified /\ ~changed
           t == IF changed /\ e # None THEN tokensMade' ELSE profile.token
           l == profile.lapsed /\ ~(changed /\ e # None)
           new == [profile EXCEPT !.email = e, !.writer = r.by, !.emailVerified = v, !.token = t,
                                  !.lapsed = l]
<1>1. /\ r \in Request /\ r.pc = "write" /\ r.arg \in Addresses \cup {Keep} /\ SeenRight(r)
      /\ profile \in Account!Profile /\ profile # None
      /\ TokenRight(profile) /\ mixed \subseteq Account!Mixes
  BY WritingIs DEF Account!Patch, RequestRight, ProfileInv, ProfileTyped
<1>2. /\ IF changed /\ e # None THEN Account!MakeToken(e) ELSE UNCHANGED <<tokensMade, mails>>
      /\ profile' = Account!Patched(profile, r, e, changed)
      /\ mixed' = mixed \cup {m \in Account!Mixes :
           \/ m = "fields" /\ r.seen.id # profile.id
           \/ m = "address" /\ ~changed /\ e \notin {None, profile.email}}
      /\ Account!Done(i) /\ UNCHANGED <<rows, proof>>
  BY DEF Account!Patch
<1>3. profile' = new
  BY <1>2, Zenon DEF Account!Patched
<1>4. e \in Addresses /\ r.by \in Wallets /\ changed \in BOOLEAN /\ v \in BOOLEAN /\ l \in BOOLEAN
  BY <1>1 DEF Account!Profile, Request, Addresses
<1>5. /\ mixed' \subseteq Account!Mixes /\ mixed \subseteq mixed'
      /\ "fields" \notin mixed' => r.seen.id = profile.id
      /\ "address" \notin mixed' /\ ~changed => e \in {None, profile.email}
  BY <1>1, <1>2 DEF Account!Mixes
<1>6. r.seen.id = profile.id => profile.owner = r.by
  BY <1>1 DEF SeenRight
<1>7. "address" \notin mixed' /\ ~changed /\ e # None => e = profile.email
  BY <1>5
<1> HIDE DEF r, e, v, l, changed
<1>8. MailsGrow /\ t \in 0..MaxMailTokens
  <2>1. profile.token \in 0..MaxMailTokens
    BY <1>1 DEF Account!Profile
  <2> QED BY <1>2, <1>4, <2>1, FreshToken, ProfileBounds DEF MailsGrow, ProfileInv, Addresses
<1>9. TokenRight(profile)' /\ profile' \in Account!Profile
      /\ profile'.id = profile.id /\ profile'.owner = profile.owner
      /\ profile'.email = e /\ profile'.writer = r.by /\ profile'.emailVerified = v
  <2>1. /\ new \in Account!Profile /\ new.id = profile.id /\ new.owner = profile.owner
        /\ new.email = e /\ new.writer = r.by /\ new.emailVerified = v /\ new.token = t
    <3>1. profile \in Account!Profile /\ t \in 0..MaxMailTokens
      BY <1>1, <1>8
    <3> HIDE DEF t
    <3>2. r.by \in Wallets /\ e \in Addresses /\ v \in BOOLEAN /\ l \in BOOLEAN
      BY <1>4
    <3>3. new = Rewritten(profile, e, r.by, v, t, l)
      BY Zenon DEF Rewritten
    <3> HIDE DEF new
    <3> QED BY <3>1, <3>2, <3>3, WrittenIs
  <2> HIDE DEF new
  <2>2. CASE changed /\ e # None
    <3>1. tokensMade' \in 1..MaxMailTokens /\ \A m \in mails' : m.token = tokensMade' => m.to = e
      BY <1>2, <1>4, <2>2, FreshToken DEF ProfileInv, Addresses
    <3> QED BY <1>3, <2>1, <2>2, <3>1, ProfileBounds DEF TokenRight
  <2>3. CASE ~(changed /\ e # None)
    <3>1. new.token = profile.token /\ UNCHANGED <<tokensMade, mails>>
      BY <1>2, <2>1, <2>3
    <3>2. "address" \notin mixed' /\ e # None => e = profile.email /\ "address" \notin mixed
      BY <1>5, <1>7, <2>3
    <3> QED BY <1>1, <1>3, <2>1, <3>1, <3>2 DEF TokenRight
  <2> QED BY <2>2, <2>3
<1> HIDE DEF new
<1>10. AsAsked'
  <2>1. v => profile.emailVerified /\ ~changed
    BY DEF v
  <2>2. "fields" \notin mixed' => profile'.writer = profile'.owner
    BY <1>5, <1>6, <1>9
  <2>3. ASSUME "address" \notin mixed', Account!VerifiedIsProved
        PROVE  profile'.emailVerified /\ profile'.email # None => proof' = profile'.email
    BY <1>1, <1>2, <1>7, <1>9, <2>1, <2>3 DEF Account!VerifiedIsProved
  <2> QED BY <1>2, <1>5, <2>2, <2>3, AskedStill
<1>11. requests[i].pc # "done" /\ proof' \in Addresses /\ rows' \subseteq Account!Row
  BY <1>1, <1>2 DEF r, ProfileInv, ProfileTyped
<1> QED BY <1>1, <1>2, <1>5, <1>8, <1>9, <1>10, <1>11, EndKeeps

\* The import of the fields, the verification of the address and a new token for it: a
\* write of the row that keeps its owner and its address.
LEMMA RowWriteKeeps ==
  ASSUME ProfileInv, NEW i \in 1..Len(requests),
         Account!Import(i) \/ Account!VerifyEmail(i) \/ Account!Resend(i)
  PROVE  ProfileInv'
<1> DEFINE r == requests[i]
<1>1. /\ r \in Request /\ r.pc = "write" /\ SeenRight(r) /\ RequestRight(r) /\ r.by \in Wallets
      /\ profile \in Account!Profile /\ profile # None /\ TokenRight(profile)
      /\ mixed \subseteq Account!Mixes /\ profile.token \in 0..MaxMailTokens
  <2>1. profile # None /\ r.pc = "write" /\ r.kind \in {"import", "verify", "resend"}
    BY DEF Account!Import, Account!VerifyEmail, Account!Resend, Account!SameRow, Account!Writing
  <2>2. r \in Request /\ SeenRight(r) /\ RequestRight(r)
    BY <2>1, WritingIs DEF Account!Writing
  <2> QED BY <2>1, <2>2 DEF ProfileInv, ProfileTyped, Request, Account!Profile
<1>2. /\ Account!Done(i) /\ UNCHANGED rows
      /\ mixed' \subseteq Account!Mixes /\ mixed \subseteq mixed'
  BY <1>1 DEF Account!Import, Account!VerifyEmail, Account!Resend, Account!Mixing, Account!Mixes
<1>3. profile.id = r.seen.id => profile.owner = r.by
  BY <1>1 DEF SeenRight
<1>4. CASE Account!Import(i)
  <2> DEFINE new == [profile EXCEPT !.writer = r.by]
  <2>1. /\ profile' = new /\ UNCHANGED <<tokensMade, mails, proof>>
        /\ "fields" \notin mixed' => profile.id = r.seen.id
    BY <1>4 DEF Account!Import, Account!Mixing
  <2>2. /\ new \in Account!Profile /\ new.id = profile.id /\ new.owner = profile.owner
        /\ new.email = profile.email /\ new.writer = r.by /\ new.token = profile.token
        /\ new.emailVerified = profile.emailVerified
    BY <1>1 DEF Account!Profile
  <2> HIDE DEF new
  <2>3. TokenRight(profile)'
    BY <1>1, <1>2, <2>1, <2>2 DEF TokenRight
  <2>4. AsAsked'
    BY <1>1, <1>2, <1>3, <2>1, <2>2, AskedStill DEF Account!VerifiedIsProved
  <2>5. MailsGrow /\ proof' \in Addresses /\ rows' \subseteq Account!Row
    BY <1>2, <2>1 DEF MailsGrow, ProfileInv, ProfileTyped
  <2> QED BY <1>1, <1>2, <2>1, <2>2, <2>3, <2>4, <2>5, EndKeeps
<1>5. CASE Account!VerifyEmail(i)
  <2> DEFINE m   == CHOOSE x \in mails : x.token = r.arg
             new == Stamped(profile, TRUE, 0)
  <2>1. /\ profile' = new /\ proof' = m.to /\ UNCHANGED <<tokensMade, mails>>
        /\ r.kind = "verify" /\ profile.id = r.seen.id
        /\ "address" \notin mixed' => profile.email \in {None, r.seen.email}
    BY <1>5 DEF Account!VerifyEmail, Account!NoToken, Stamped, Account!Mixing,
       Account!Readdressed, Account!Writing, Account!SameRow
  <2>2. m \in mails /\ m.token = r.arg /\ m.to \in Emails
    <3>1. \E x \in mails : x.token = r.arg
      BY <1>1, <2>1 DEF RequestRight
    <3>2. m \in mails /\ m.token = r.arg
      BY <3>1
    <3> HIDE DEF m
    <3> QED BY <3>2 DEF ProfileInv, ProfileTyped
  <2> HIDE DEF m
  <2>3. /\ new \in Account!Profile /\ new.id = profile.id /\ new.owner = profile.owner
        /\ new.email = profile.email /\ new.writer = profile.writer /\ new.token = 0
    <3>1. 0 \in 0..MaxMailTokens /\ TRUE \in BOOLEAN /\ profile \in Account!Profile
      BY <1>1, ProfileBounds
    <3> QED BY <3>1, StampedIs, Zenon
  <2> HIDE DEF new
  <2>4. TokenRight(profile)'
    <3>1. \A x \in mails : x.token # 0
      BY ProfileBounds DEF ProfileInv, ProfileTyped
    <3> QED BY <2>1, <2>3, <3>1 DEF TokenRight, ProfileInv, ProfileTyped
  <2>5. "address" \notin mixed' /\ profile.email # None => m.to = profile.email
    BY <1>1, <1>2, <2>1, <2>2 DEF SeenRight, TokenRight
  <2>6. AsAsked'
    <3>1. "fields" \notin mixed' => profile.writer = profile.owner
      BY <1>1, <1>2 DEF ProfileInv, AsAsked, Account!AsAsked, Account!WrittenByOwner
    <3> QED BY <1>1, <1>2, <2>1, <2>3, <2>5, <3>1, AskedStill DEF Account!VerifiedIsProved
  <2>7. MailsGrow /\ proof' \in Addresses /\ rows' \subseteq Account!Row
    BY <1>2, <2>1, <2>2 DEF MailsGrow, Addresses, ProfileInv, ProfileTyped
  <2> QED BY <1>1, <1>2, <2>1, <2>3, <2>4, <2>6, <2>7, EndKeeps
<1>6. CASE Account!Resend(i)
  <2> DEFINE half == [profile EXCEPT !.token = tokensMade']
             new  == [half EXCEPT !.lapsed = FALSE]
  <2>1. /\ profile' = new /\ Account!MakeToken(r.seen.email) /\ UNCHANGED proof
        /\ r.kind = "resend"
        /\ "address" \notin mixed' => profile.email \in {None, r.seen.email}
    BY <1>6 DEF Account!Resend, Account!Mixing, Account!Readdressed, Account!Writing
  <2>2. r.seen.email \in Emails
    BY <1>1, <2>1 DEF SeenRight, Account!Profile
  <2>3. tokensMade' \in 1..MaxMailTokens /\ \A m \in mails' : m.token = tokensMade' => m.to = r.seen.email
    BY <2>1, <2>2, FreshToken DEF ProfileInv
  <2>4. /\ new \in Account!Profile /\ new.id = profile.id /\ new.owner = profile.owner
        /\ new.email = profile.email /\ new.writer = profile.writer /\ new.token = tokensMade'
        /\ new.emailVerified = profile.emailVerified
    <3>1. /\ half \in Account!Profile /\ half.id = profile.id /\ half.owner = profile.owner
          /\ half.email = profile.email /\ half.writer = profile.writer /\ half.token = tokensMade'
          /\ half.emailVerified = profile.emailVerified
      BY <1>1, <2>3, ProfileBounds DEF Account!Profile
    <3> HIDE DEF half
    <3> QED BY <3>1 DEF Account!Profile
  <2> HIDE DEF new
  <2>5. TokenRight(profile)'
    BY <2>1, <2>3, <2>4, ProfileBounds DEF TokenRight
  <2>6. AsAsked'
    <3>1. "fields" \notin mixed' => profile.writer = profile.owner
      BY <1>1, <1>2 DEF ProfileInv, AsAsked, Account!AsAsked, Account!WrittenByOwner
    <3> QED BY <1>1, <1>2, <2>1, <2>4, <3>1, AskedStill DEF Account!VerifiedIsProved
  <2>7. MailsGrow /\ proof' \in Addresses /\ rows' \subseteq Account!Row
    BY <1>2, <2>1, <2>2 DEF MailsGrow, ProfileInv, ProfileTyped
  <2> QED BY <1>1, <1>2, <2>1, <2>4, <2>5, <2>6, <2>7, EndKeeps
<1> QED BY <1>4, <1>5, <1>6

\* A request that is refused, the replacement of the assets and the deletion.
LEMMA OtherEndKeeps ==
  ASSUME ProfileInv, NEW i \in 1..Len(requests),
         Account!Refuse(i) \/ Account!CreateAssets(i) \/ Account!Delete(i)
  PROVE  ProfileInv'
<1>1. /\ requests[i] \in Request /\ RequestRight(requests[i]) /\ mixed \subseteq Account!Mixes
      /\ profile \in Account!Profile \cup {None} /\ rows \subseteq Account!Row
      /\ (profile # None => TokenRight(profile)) /\ i \in 0..MaxProfileRequests
  BY RequestIs, ProfileBounds DEF ProfileInv, ProfileTyped
<1>2. /\ Account!Done(i) /\ requests[i].pc # "done" /\ UNCHANGED <<tokensMade, mails>>
      /\ profile' = profile \/ profile' = None
      /\ proof' = proof \/ (proof' = None /\ profile' = None)
  BY DEF Account!Refuse, Account!CreateAssets, Account!Delete, Account!Writing
<1>3. /\ mixed' \subseteq Account!Mixes /\ mixed \subseteq mixed'
      /\ \/ rows' = rows
         \/ rows' = {}
         \/ "assets" \notin mixed' => rows' = {[asset |-> a, by |-> i] : a \in requests[i].arg}
  BY <1>1 DEF Account!Refuse, Account!CreateAssets, Account!Delete, Account!Replaced,
     Account!Mixing, Account!Mixes
<1>4. rows' \subseteq Account!Row
  <2>1. CASE rows' = rows \/ rows' = {}
    BY <1>1, <2>1
  <2>2. CASE Account!CreateAssets(i)
    <3>1. requests[i].arg \subseteq {XLM} \cup OtherAssets
      BY <1>1, <2>2, ProfileBounds DEF Account!CreateAssets, RequestRight
    <3>2. {[asset |-> a, by |-> i] : a \in requests[i].arg} \subseteq Account!Row
      BY <1>1, <3>1 DEF Account!Row
    <3> QED BY <1>1, <2>2, <3>2 DEF Account!CreateAssets, Account!Replaced
  <2> QED BY <2>1, <2>2 DEF Account!Refuse, Account!Delete
<1>5. profile' # None => TokenRight(profile)'
  BY <1>1, <1>2, <1>3 DEF TokenRight
<1>6. AsAsked'
  <2>1. /\ "address" \notin mixed' => Account!VerifiedIsProved
        /\ "fields" \notin mixed' => Account!WrittenByOwner
        /\ "assets" \notin mixed' => Account!AssetsOfOneRequest
    BY <1>3 DEF ProfileInv, AsAsked, Account!AsAsked
  <2>2. "assets" \notin mixed' => Account!AssetsOfOneRequest'
    BY <1>3, <2>1 DEF Account!AssetsOfOneRequest
  <2>3. /\ "address" \notin mixed' => Account!VerifiedIsProved'
        /\ "fields" \notin mixed' => Account!WrittenByOwner'
    BY <1>2, <2>1 DEF Account!VerifiedIsProved, Account!WrittenByOwner
  <2> QED BY <2>2, <2>3 DEF AsAsked, Account!AsAsked
<1>7. MailsGrow /\ proof' \in Addresses
  BY <1>2 DEF MailsGrow, Addresses, ProfileInv, ProfileTyped
<1> QED BY <1>1, <1>2, <1>3, <1>4, <1>5, <1>6, <1>7, EndKeeps

\* A token lapses.
LEMMA LapseKeeps == ASSUME ProfileInv, Account!Lapse PROVE ProfileInv'
<1> DEFINE new == [profile EXCEPT !.lapsed = TRUE]
<1>1. /\ profile \in Account!Profile /\ profile # None /\ profile' = new
      /\ UNCHANGED <<rows, requests, tokensMade, mails, proof, mixed>>
      /\ TokenRight(profile) /\ IdRight(profile)
  BY DEF Account!Lapse, ProfileInv, ProfileTyped
<1>2. /\ new \in Account!Profile /\ new.id = profile.id /\ new.owner = profile.owner
      /\ new.email = profile.email /\ new.writer = profile.writer /\ new.token = profile.token
      /\ new.emailVerified = profile.emailVerified
  BY <1>1 DEF Account!Profile
<1> HIDE DEF new
<1>3. TokenRight(profile)' /\ IdRight(profile)'
  BY <1>1, <1>2 DEF TokenRight, IdRight
<1>4. \A r : RequestRight(r) => RequestRight(r)'
  BY <1>1, <1>2 DEF RequestRight, SeenRight, TokenRight, IdRight
<1>5. ASSUME NEW j \in 1..Len(requests) PROVE RequestRight(requests[j])'
  <2>1. PICK r : r = requests[j] /\ RequestRight(r)
    BY DEF ProfileInv
  <2>2. RequestRight(r)' /\ requests'[j] = r
    BY <1>1, <1>4, <2>1
  <2> QED BY <2>2 DEF RequestRight, SeenRight, TokenRight, IdRight
<1>6. ProfileTyped' /\ MailsRight' /\ AsAsked'
  BY <1>1, <1>2 DEF ProfileInv, ProfileTyped, MailsRight, AsAsked, Account!AsAsked,
     Account!VerifiedIsProved, Account!WrittenByOwner, Account!AssetsOfOneRequest
<1> QED BY <1>1, <1>3, <1>5, <1>6 DEF ProfileInv

\* Every step of the profile keeps the invariant.
LEMMA ProfileStepKeeps == ASSUME ProfileInv, Account!Next PROVE ProfileInv'
  BY BeginKeeps, ReadKeeps, CreateKeeps, PatchKeeps, RowWriteKeeps, OtherEndKeeps, LapseKeeps
     DEF Account!Next

\* The username is free, or has a profile whose mail has arrived.
LEMMA ProfileInit == ASSUME Account!Init PROVE ProfileInv
<1>1. requests = <<>> /\ Len(requests) = 0 /\ proof = None /\ mixed \subseteq Account!Mixes
  BY DEF Account!Init
<1>2. CASE profile = None /\ rows = {} /\ tokensMade = 0 /\ mails = {}
  <2>1. ProfileTyped /\ MailsRight
    BY <1>1, <1>2, ProfileBounds DEF ProfileTyped, MailsRight, Addresses
  <2>2. AsAsked
    BY <1>2 DEF AsAsked, Account!AsAsked, Account!VerifiedIsProved, Account!WrittenByOwner,
       Account!AssetsOfOneRequest
  <2> QED BY <1>1, <1>2, <2>1, <2>2 DEF ProfileInv
<1>3. ASSUME NEW who \in Wallets, NEW e \in Emails \ TakenEmails,
             profile = [id |-> 0, owner |-> who, email |-> e, emailVerified |-> FALSE,
                        token |-> 1, lapsed |-> FALSE, writer |-> who],
             rows = {[asset |-> XLM, by |-> 0]},
             tokensMade = 1, mails = {[token |-> 1, to |-> e]}
      PROVE  ProfileInv
  <2>1. /\ profile \in Account!Profile /\ profile.id = 0 /\ profile.owner = who
        /\ profile.email = e /\ profile.emailVerified = FALSE /\ profile.token = 1
        /\ profile.writer = who
    BY <1>3, ProfileBounds DEF Account!Profile
  <2>2. rows \subseteq Account!Row
    BY <1>3, ProfileBounds DEF Account!Row
  <2>3. mails \subseteq [token : 1..MaxMailTokens, to : Emails] /\ tokensMade \in 0..MaxMailTokens
    BY <1>3, ProfileBounds
  <2>4. ProfileTyped
    BY <1>1, <2>1, <2>2, <2>3, ProfileBounds DEF ProfileTyped, Addresses
  <2>5. MailsRight /\ TokenRight(profile) /\ IdRight(profile)
    BY <1>3, <2>1 DEF MailsRight, TokenRight, IdRight
  <2>6. AsAsked
    BY <1>3, <2>1 DEF AsAsked, Account!AsAsked, Account!VerifiedIsProved,
       Account!WrittenByOwner, Account!AssetsOfOneRequest
  <2> QED BY <1>1, <2>4, <2>5, <2>6 DEF ProfileInv
<1> QED BY <1>2, <1>3 DEF Account!Init

\* What the types of the profile say.
LEMMA ProfileTypes == ASSUME ProfileInv PROVE Account!TypeOK
<1>1. ASSUME NEW i \in 1..Len(requests)
      PROVE  /\ requests[i].by \in Wallets /\ requests[i].kind \in Account!Kinds
             /\ requests[i].pc \in {"read", "write", "commit", "done"}
             /\ requests[i].seen \in Account!Profile \cup {None}
             /\ requests[i].old \subseteq Account!Row
  BY RequestIs DEF ProfileInv, Request
<1> QED BY <1>1 DEF ProfileInv, ProfileTyped, Account!TypeOK, Addresses

-----------------------------------------------------------------------------
(* Sessions.                                                               *)

\* The wallets with a challenge, the requests that used one up and have no token yet,
\* and those that are not answered.
WithRow  == {w \in Wallets : challenges[w] # None}
Entitled == {i \in 1..Len(verifies) : verifies[i].pc \in {"find", "create"}}
Open     == {i \in 1..Len(verifies) : verifies[i].pc # "done"}

\* A token, a request that may have one and a row stand for a challenge each; and each
\* token for a request that is answered.
Paid ==
  /\ IsFiniteSet(tokens) /\ IsFiniteSet(WithRow)
  /\ Cardinality(tokens) + Cardinality(Entitled) + Cardinality(WithRow) <= made
  /\ Cardinality(tokens) + Cardinality(Open) <= Len(verifies)

\* A jti is the place of its token, and nobody else's.
Numbered ==
  /\ \A t \in tokens : t.jti <= Cardinality(tokens)
  /\ \A t, u \in tokens : t.jti = u.jti => t = u
  /\ \A j \in loggedOut : j <= Cardinality(tokens)

\* The row of a logged-out token is there as long as the token lasts.
RowsLast ==
  \A t \in tokens : t.jti \in loggedOut /\ now < t.exp =>
    [jti |-> t.jti, expiresAt |-> t.exp] \in revoked

\* The inductive invariant of the sessions.
SessionsInv == Session!TypeOK /\ Paid /\ Numbered /\ RowsLast

\* The bounds are numbers.
LEMMA SessionBounds ==
  /\ MaxTime \in Nat /\ MaxVerifies \in Nat /\ MaxChallenges \in Nat
  /\ ChallengeLife \in Nat \ {0} /\ TokenLife \in Nat \ {0}
  BY AccountsAssumption DEF AccountsAssumption, Session!SessionsAssumption

\* The sets that are counted are finite.
LEMMA SessionsFinite ==
  ASSUME Session!TypeOK, Paid
  PROVE  /\ IsFiniteSet(tokens) /\ IsFiniteSet(WithRow) /\ IsFiniteSet(Entitled) /\ IsFiniteSet(Open)
         /\ Cardinality(tokens) \in Nat /\ Cardinality(WithRow) \in Nat
         /\ Cardinality(Entitled) \in Nat /\ Cardinality(Open) \in Nat
         /\ made \in 0..MaxChallenges /\ Len(verifies) \in Nat /\ Len(verifies) <= MaxVerifies
<1>1. Len(verifies) \in Nat /\ Len(verifies) <= MaxVerifies /\ made \in 0..MaxChallenges
  BY DEF Session!TypeOK
<1>2. IsFiniteSet(1..Len(verifies))
  BY <1>1, FS_Interval
<1>3. IsFiniteSet(Entitled) /\ IsFiniteSet(Open)
  BY <1>2, FS_Subset DEF Entitled, Open
<1> QED BY <1>1, <1>3, FS_CardinalityType DEF Paid

\* A set grows by at most one element at a time.
LEMMA GrowsByOne ==
  ASSUME NEW S, IsFiniteSet(S), NEW x
  PROVE  /\ IsFiniteSet(S \cup {x}) /\ Cardinality(S \cup {x}) \in Nat
         /\ Cardinality(S \cup {x}) <= Cardinality(S) + 1
<1>1. IsFiniteSet(S \cup {x}) /\ Cardinality(S) \in Nat
  BY FS_AddElement, FS_CardinalityType
<1>2. CASE x \in S
  <2>1. S \cup {x} = S
    BY <1>2
  <2> QED BY <1>1, <2>1
<1>3. CASE x \notin S
  BY <1>1, <1>3, FS_AddElement
<1> QED BY <1>2, <1>3

\* What becomes of the requests when one goes on.
LEMMA VerifyMoves ==
  ASSUME Session!TypeOK, Paid, NEW i \in 1..Len(verifies), verifies[i].pc # "done",
         NEW to \in {"find", "create", "done"}, verifies' = [verifies EXCEPT ![i].pc = to]
  PROVE  /\ verifies' \in Seq(Session!Verify) /\ Len(verifies') = Len(verifies)
         /\ i \in Open /\ verifies[i].wallet \in Wallets
         /\ to = "done" => Entitled' = Entitled \ {i} /\ Open' = Open \ {i}
         /\ to # "done" => Entitled' = Entitled \cup {i} /\ Open' = Open
<1>1. verifies \in Seq(Session!Verify) /\ verifies[i] \in Session!Verify
  BY DEF Session!TypeOK
<1> DEFINE q == [verifies[i] EXCEPT !.pc = to]
<1>2. q \in Session!Verify /\ q.pc = to
  BY <1>1 DEF Session!Verify
<1>3. verifies' = [verifies EXCEPT ![i] = q]
  BY <1>1
<1> HIDE DEF q
<1>4. /\ verifies' \in Seq(Session!Verify) /\ Len(verifies') = Len(verifies) /\ verifies'[i].pc = to
      /\ \A j \in 1..Len(verifies) : j # i => verifies'[j] = verifies[j]
  BY <1>1, <1>2, <1>3
<1>5. /\ to = "done" => Entitled' = Entitled \ {i} /\ Open' = Open \ {i}
      /\ to # "done" => Entitled' = Entitled \cup {i} /\ Open' = Open
  BY <1>4 DEF Entitled, Open
<1> QED BY <1>1, <1>4, <1>5 DEF Open, Session!Verify

\* Nothing is paid for in the beginning, nor given.
LEMMA SessionsInit == ASSUME Session!Init PROVE SessionsInv
<1>1. Entitled = {} /\ Open = {} /\ WithRow = {} /\ tokens = {} /\ Len(verifies) = 0
  BY DEF Session!Init, Entitled, Open, WithRow
<1>2. Paid
  BY <1>1, FS_EmptySet DEF Session!Init, Paid
<1>3. Session!TypeOK
  BY <1>1, SessionBounds DEF Session!Init, Session!TypeOK
<1>4. Numbered /\ RowsLast
  BY DEF Session!Init, Numbered, RowsLast
<1> QED BY <1>2, <1>3, <1>4 DEF SessionsInv

\* A challenge is made, or read.
LEMMA ChallengeKeeps ==
  ASSUME SessionsInv, NEW w \in Wallets,
         Session!RequestChallenge(w) \/ \E c \in 1..made : Session!VerifyRead(w, c)
  PROVE  SessionsInv'
<1> USE DEF SessionsInv
<1>1. CASE Session!RequestChallenge(w)
  <2> DEFINE new == [id |-> made', expiresAt |-> now + ChallengeLife]
  <2>1. /\ made < MaxChallenges /\ made' = made + 1 /\ challenges' = [challenges EXCEPT ![w] = new]
        /\ UNCHANGED <<now, verifies, users, tokens, arrivals, logouts, revoked, loggedOut>>
    BY <1>1 DEF Session!RequestChallenge
  <2>2. new \in Session!Challenge
    BY <2>1, SessionBounds DEF Session!TypeOK, Session!Challenge
  <2> HIDE DEF new
  <2>3. Session!TypeOK'
    BY <2>1, <2>2, SessionBounds DEF Session!TypeOK
  <2>4. WithRow' \subseteq WithRow \cup {w}
    BY <2>1 DEF WithRow, Session!TypeOK
  <2>5. IsFiniteSet(WithRow') /\ Cardinality(WithRow') \in Nat
        /\ Cardinality(WithRow') <= Cardinality(WithRow) + 1
    <3>1. IsFiniteSet(WithRow \cup {w}) /\ Cardinality(WithRow \cup {w}) <= Cardinality(WithRow) + 1
      BY SessionsFinite, GrowsByOne
    <3>2. IsFiniteSet(WithRow') /\ Cardinality(WithRow') <= Cardinality(WithRow \cup {w})
      BY <2>4, <3>1, FS_Subset
    <3> QED BY <3>1, <3>2, SessionsFinite, FS_CardinalityType
  <2>6. Entitled' = Entitled /\ Open' = Open
    BY <2>1 DEF Entitled, Open
  <2>7. Paid'
    BY <2>1, <2>5, <2>6, SessionsFinite DEF Paid
  <2> QED BY <2>1, <2>3, <2>7 DEF Numbered, RowsLast
<1>2. ASSUME NEW c \in 1..made, Session!VerifyRead(w, c) PROVE SessionsInv'
  <2> DEFINE new == [wallet |-> w, pc |-> IF challenges[w].expiresAt < now THEN "expired" ELSE "clear"]
  <2>1. /\ Len(verifies) < MaxVerifies /\ verifies' = Append(verifies, new)
        /\ UNCHANGED <<now, challenges, made, users, tokens, arrivals, logouts, revoked, loggedOut>>
    BY <1>2 DEF Session!VerifyRead
  <2>2. new \in Session!Verify /\ new.pc \in {"expired", "clear"}
    BY DEF Session!Verify
  <2> HIDE DEF new
  <2>3. /\ verifies' \in Seq(Session!Verify) /\ Len(verifies') = Len(verifies) + 1
        /\ Len(verifies) \in Nat /\ verifies'[Len(verifies) + 1] = new
        /\ \A j \in 1..Len(verifies) : verifies'[j] = verifies[j]
    BY <2>1, <2>2 DEF Session!TypeOK
  <2>4. Session!TypeOK'
    BY <2>1, <2>3, SessionBounds DEF Session!TypeOK
  <2>5. Entitled' = Entitled /\ Open' = Open \cup {Len(verifies) + 1}
    BY <2>2, <2>3 DEF Entitled, Open
  <2>6. Cardinality(Open') = Cardinality(Open) + 1
    <3>1. Len(verifies) + 1 \notin Open
      BY <2>3 DEF Open
    <3> QED BY <2>5, <3>1, SessionsFinite, FS_AddElement
  <2>7. WithRow' = WithRow
    BY <2>1 DEF WithRow
  <2>8. Paid'
    BY <2>1, <2>3, <2>5, <2>6, <2>7, SessionsFinite DEF Paid
  <2> QED BY <2>1, <2>4, <2>8 DEF Numbered, RowsLast
<1> QED BY <1>1, <1>2

\* A request that ends without a token, or is still to create the user.
LEMMA UnpaidKeeps ==
  ASSUME SessionsInv, NEW i \in 1..Len(verifies), verifies[i].pc # "done",
         NEW to \in {"create", "done"}, verifies' = [verifies EXCEPT ![i].pc = to],
         to = "create" => verifies[i].pc = "find",
         challenges' \in [Wallets -> Session!Challenge \cup {None}],
         \A w \in Wallets : challenges'[w] \in {challenges[w], None},
         users' \subseteq Wallets,
         UNCHANGED <<now, made, tokens, arrivals, logouts, revoked, loggedOut>>
  PROVE  SessionsInv'
<1> USE DEF SessionsInv
<1>1. /\ verifies' \in Seq(Session!Verify) /\ Len(verifies') = Len(verifies)
      /\ Entitled' \subseteq Entitled /\ Open' \subseteq Open
  <2>1. /\ verifies' \in Seq(Session!Verify) /\ Len(verifies') = Len(verifies)
        /\ to = "done" => Entitled' = Entitled \ {i} /\ Open' = Open \ {i}
        /\ to # "done" => Entitled' = Entitled \cup {i} /\ Open' = Open
    BY VerifyMoves
  <2>2. to = "create" => i \in Entitled
    BY DEF Entitled
  <2> QED BY <2>1, <2>2
<1>2. WithRow' \subseteq WithRow
  BY DEF WithRow
<1>3. /\ IsFiniteSet(WithRow') /\ Cardinality(WithRow') <= Cardinality(WithRow)
      /\ IsFiniteSet(Entitled') /\ Cardinality(Entitled') <= Cardinality(Entitled)
      /\ IsFiniteSet(Open') /\ Cardinality(Open') <= Cardinality(Open)
  BY <1>1, <1>2, SessionsFinite, FS_Subset
<1>4. Cardinality(WithRow') \in Nat /\ Cardinality(Entitled') \in Nat /\ Cardinality(Open') \in Nat
  BY <1>3, FS_CardinalityType
<1>5. Paid'
  BY <1>1, <1>3, <1>4, SessionsFinite DEF Paid
<1>6. Session!TypeOK'
  BY <1>1 DEF Session!TypeOK
<1> QED BY <1>5, <1>6 DEF Numbered, RowsLast

\* A challenge is used up, or an expired one deleted.
LEMMA DeleteKeeps ==
  ASSUME SessionsInv, NEW i \in 1..Len(verifies), Session!DeleteChallenge(i)
  PROVE  SessionsInv'
<1> DEFINE w == verifies[i].wallet
<1>1. /\ verifies[i].pc \in {"expired", "clear"} /\ challenges' = [challenges EXCEPT ![w] = None]
      /\ verifies' = [verifies EXCEPT ![i].pc = Session!Cleared(i)]
      /\ UNCHANGED <<now, made, users, tokens, arrivals, logouts, revoked, loggedOut>>
  BY DEF Session!DeleteChallenge
<1>2. w \in Wallets /\ challenges \in [Wallets -> Session!Challenge \cup {None}]
  <2>1. verifies[i] \in Session!Verify
    BY DEF SessionsInv, Session!TypeOK
  <2> QED BY <2>1 DEF SessionsInv, Session!TypeOK, Session!Verify
<1>3. /\ challenges' \in [Wallets -> Session!Challenge \cup {None}]
      /\ \A v \in Wallets : challenges'[v] = IF v = w THEN None ELSE challenges[v]
  BY <1>1, <1>2
<1>4. CASE Session!Cleared(i) = "done"
  BY <1>1, <1>3, <1>4, UnpaidKeeps DEF SessionsInv, Session!TypeOK
<1>5. CASE Session!Cleared(i) # "done"
  <2>1. Session!Cleared(i) = "find" /\ w \in WithRow
    BY <1>2, <1>5 DEF Session!Cleared, WithRow
  <2> HIDE DEF w
  <2>2. WithRow' = WithRow \ {w}
    BY <1>3 DEF WithRow
  <2>3. IsFiniteSet(WithRow') /\ Cardinality(WithRow') = Cardinality(WithRow) - 1
    BY <2>1, <2>2, SessionsFinite, FS_RemoveElement DEF SessionsInv
  <2>4. /\ verifies' \in Seq(Session!Verify) /\ Len(verifies') = Len(verifies)
        /\ Entitled' = Entitled \cup {i} /\ Open' = Open
    BY <1>1, <2>1, VerifyMoves DEF SessionsInv
  <2>5. Cardinality(Entitled') <= Cardinality(Entitled) + 1 /\ Cardinality(Entitled') \in Nat
    BY <2>4, SessionsFinite, GrowsByOne DEF SessionsInv
  <2>6. Paid'
    BY <1>1, <2>3, <2>4, <2>5, SessionsFinite DEF SessionsInv, Paid
  <2>7. Session!TypeOK'
    BY <1>1, <1>3, <2>4 DEF SessionsInv, Session!TypeOK
  <2> QED BY <1>1, <2>6, <2>7 DEF SessionsInv, Numbered, RowsLast
<1> QED BY <1>4, <1>5

\* A token is signed: its jti is the next, and nobody has been logged out of it.
LEMMA SignKeeps ==
  ASSUME SessionsInv, NEW i \in 1..Len(verifies), verifies[i].pc \in {"find", "create"},
         Session!SignToken(i), users' \subseteq Wallets,
         UNCHANGED <<now, challenges, made, arrivals, logouts, revoked, loggedOut>>
  PROVE  SessionsInv'
<1> DEFINE n   == Cardinality(tokens) + 1
           new == [jti |-> n, wallet |-> verifies[i].wallet, exp |-> now + TokenLife]
<1>1. tokens' = tokens \cup {new} /\ verifies' = [verifies EXCEPT ![i].pc = "done"]
  BY SameCounts DEF Session!SignToken
<1>2. /\ verifies' \in Seq(Session!Verify) /\ Len(verifies') = Len(verifies)
      /\ Entitled' = Entitled \ {i} /\ Open' = Open \ {i} /\ i \in Open /\ i \in Entitled
      /\ verifies[i].wallet \in Wallets
  BY <1>1, VerifyMoves DEF SessionsInv, Entitled
<1>3. /\ Cardinality(Entitled') = Cardinality(Entitled) - 1
      /\ Cardinality(Open') = Cardinality(Open) - 1 /\ Cardinality(Open') \in Nat
  BY <1>2, SessionsFinite, FS_RemoveElement, FS_CardinalityType DEF SessionsInv
<1>4. n \in 1..MaxVerifies
  BY <1>3, SessionsFinite, SessionBounds DEF SessionsInv, Paid
<1>5. new \in Session!Token /\ new.jti = n
  BY <1>2, <1>4, SessionBounds DEF SessionsInv, Session!TypeOK, Session!Token
<1>6. \A t \in tokens : t.jti < n /\ t \in Session!Token
  BY SessionsFinite, SessionBounds DEF SessionsInv, Numbered, Session!TypeOK, Session!Token
<1>7. \A j \in loggedOut : j < n
  BY SessionsFinite, SessionBounds DEF SessionsInv, Numbered, Session!TypeOK
<1> HIDE DEF new
<1>8. new \notin tokens
  BY <1>4, <1>5, <1>6
<1>9. IsFiniteSet(tokens') /\ Cardinality(tokens') = n
  BY <1>1, <1>8, SessionsFinite, FS_AddElement DEF SessionsInv
<1>10. WithRow' = WithRow
  BY DEF WithRow
<1>11. Paid'
  BY <1>2, <1>3, <1>9, <1>10, SessionsFinite DEF SessionsInv, Paid
<1>12. Session!TypeOK'
  BY <1>1, <1>2, <1>5 DEF SessionsInv, Session!TypeOK
<1>13. Numbered'
  <2>1. \A t \in tokens' : t.jti <= n
    BY <1>1, <1>4, <1>5, <1>6, SessionBounds DEF Session!Token
  <2>2. \A t, u \in tokens' : t.jti = u.jti => t = u
    BY <1>1, <1>4, <1>5, <1>6, SessionBounds DEF SessionsInv, Numbered, Session!Token
  <2>3. \A j \in loggedOut' : j <= n
    BY <1>4, <1>7, SessionBounds DEF SessionsInv, Session!TypeOK
  <2> QED BY <1>9, <2>1, <2>2, <2>3 DEF Numbered
<1>14. RowsLast'
  <2>1. new.jti \notin loggedOut
    BY <1>4, <1>5, <1>7
  <2> QED BY <1>1, <2>1 DEF SessionsInv, RowsLast
<1> QED BY <1>11, <1>12, <1>13, <1>14 DEF SessionsInv

\* The user is found, or created.
LEMMA UserKeeps ==
  ASSUME SessionsInv, NEW i \in 1..Len(verifies),
         Session!FindUser(i) \/ Session!CreateUser(i) \/ Session!VerifyFails(i)
  PROVE  SessionsInv'
<1>1. /\ challenges \in [Wallets -> Session!Challenge \cup {None}] /\ users \subseteq Wallets
      /\ verifies[i].wallet \in Wallets
  <2>1. verifies[i] \in Session!Verify
    BY DEF SessionsInv, Session!TypeOK
  <2> QED BY <2>1 DEF SessionsInv, Session!TypeOK, Session!Verify
<1>2. /\ UNCHANGED <<now, challenges, made, arrivals, logouts, revoked, loggedOut>>
      /\ users' \subseteq Wallets
  BY <1>1 DEF Session!FindUser, Session!CreateUser, Session!VerifyFails
<1>3. CASE verifies[i].pc \in {"find", "create"} /\ Session!SignToken(i)
  BY <1>2, <1>3, SignKeeps
<1>4. ASSUME NEW to \in {"create", "done"}, verifies' = [verifies EXCEPT ![i].pc = to],
             verifies[i].pc # "done", to = "create" => verifies[i].pc = "find", UNCHANGED tokens
      PROVE  SessionsInv'
  BY <1>1, <1>2, <1>4, UnpaidKeeps
<1> QED BY <1>3, <1>4 DEF Session!FindUser, Session!CreateUser, Session!VerifyFails

\* A token is used, or its session ended, or its row purged; or time passes.
LEMMA UseKeeps ==
  ASSUME SessionsInv,
         \/ \E t \in tokens : \/ Session!Arrive(t) \/ Session!TurnAway(t) \/ Session!Logout(t)
                              \/ Session!Revoke(t) \/ Session!LogoutFails(t)
         \/ Session!Purge \/ Session!Tick
  PROVE  SessionsInv'
<1>1. UNCHANGED <<challenges, made, verifies, users, tokens>>
  BY DEF Session!Arrive, Session!TurnAway, Session!Logout, Session!Admit, Session!Revoke,
     Session!LogoutFails, Session!Purge, Session!Tick
<1>2. Paid'
  BY <1>1 DEF SessionsInv, Paid, WithRow, Entitled, Open
<1>3. CASE UNCHANGED <<now, revoked, loggedOut>> /\ arrivals' \subseteq tokens /\ logouts' \subseteq tokens
  BY <1>1, <1>2, <1>3 DEF SessionsInv, Session!TypeOK, Numbered, RowsLast
<1>4. ASSUME NEW t \in tokens, Session!Revoke(t) PROVE SessionsInv'
  <2> DEFINE row == [jti |-> t.jti, expiresAt |-> t.exp]
  <2>1. /\ UNCHANGED <<now, arrivals>> /\ logouts' = logouts \ {t}
        /\ revoked' = revoked \cup {row} /\ loggedOut' = loggedOut \cup {t.jti}
    BY <1>4 DEF Session!Revoke
  <2>2. t.jti \in 1..MaxVerifies /\ t.exp \in 0..(MaxTime + TokenLife)
    BY DEF SessionsInv, Session!TypeOK, Session!Token
  <2>3. row \in [jti : 1..MaxVerifies, expiresAt : 0..(MaxTime + TokenLife)]
    BY <2>2
  <2>4. Session!TypeOK'
    BY <1>1, <2>1, <2>2, <2>3 DEF SessionsInv, Session!TypeOK
  <2>5. Numbered'
    BY <1>1, <2>1 DEF SessionsInv, Numbered
  <2>6. RowsLast'
    BY <1>1, <2>1 DEF SessionsInv, Numbered, RowsLast
  <2> QED BY <1>2, <2>4, <2>5, <2>6 DEF SessionsInv
<1>5. CASE Session!Purge
  <2>1. UNCHANGED <<now, arrivals, logouts, loggedOut>> /\ revoked' = {r \in revoked : r.expiresAt > now}
    BY <1>5 DEF Session!Purge, Session!KeptRevoked
  <2>2. Session!TypeOK'
    BY <1>1, <2>1 DEF SessionsInv, Session!TypeOK
  <2>3. RowsLast'
    <3>1. ASSUME NEW t \in tokens, t.jti \in loggedOut, now < t.exp
          PROVE  [jti |-> t.jti, expiresAt |-> t.exp] \in revoked'
      <4>1. now \in Nat /\ t.exp \in Nat
        BY SessionBounds DEF SessionsInv, Session!TypeOK, Session!Token
      <4> QED BY <2>1, <3>1, <4>1 DEF SessionsInv, RowsLast
    <3> QED BY <1>1, <2>1, <3>1 DEF RowsLast
  <2> QED BY <1>1, <1>2, <2>1, <2>2, <2>3 DEF SessionsInv, Numbered
<1>6. CASE Session!Tick
  <2>1. UNCHANGED <<arrivals, logouts, revoked, loggedOut>> /\ now' = now + 1 /\ now < MaxTime
    BY <1>6 DEF Session!Tick
  <2>2. Session!TypeOK'
    BY <1>1, <2>1, SessionBounds DEF SessionsInv, Session!TypeOK
  <2>3. RowsLast'
    <3>1. \A t \in tokens : now' < t.exp => now < t.exp
      BY <2>1, SessionBounds DEF SessionsInv, Session!TypeOK, Session!Token
    <3> QED BY <1>1, <2>1, <3>1 DEF SessionsInv, RowsLast
  <2> QED BY <1>1, <1>2, <2>1, <2>2, <2>3 DEF SessionsInv, Numbered
<1> QED BY <1>3, <1>4, <1>5, <1>6
       DEF SessionsInv, Session!TypeOK, Session!Arrive, Session!TurnAway, Session!Logout,
           Session!Admit, Session!LogoutFails

\* Every step of the sessions keeps the invariant.
LEMMA SessionsStep == ASSUME SessionsInv, Session!Next PROVE SessionsInv'
  BY ChallengeKeeps, DeleteKeeps, UserKeeps, UseKeeps DEF Session!Next

\* No logout is admitted for a token that was logged out and lasts.
LoggedOutRefused == \A t \in logouts' \ logouts : now < t.exp => t.jti \notin loggedOut

\* A step of the sessions admits no such logout.
LEMMA RefusedStep == ASSUME SessionsInv, Session!Next PROVE LoggedOutRefused
<1> SUFFICES ASSUME NEW t \in logouts' \ logouts, now < t.exp PROVE t.jti \notin loggedOut
  BY DEF LoggedOutRefused
<1>1. t \in tokens /\ Session!Logout(t)
  BY DEF Session!Next, Session!RequestChallenge, Session!VerifyRead, Session!DeleteChallenge,
     Session!FindUser, Session!CreateUser, Session!VerifyFails, Session!Arrive,
     Session!TurnAway, Session!Logout, Session!Revoke, Session!LogoutFails, Session!Purge,
     Session!Tick
<1>2. [jti |-> t.jti, expiresAt |-> t.exp] \notin revoked
  BY <1>1 DEF Session!Logout, Session!Admit, Session!IsRevoked
<1> QED BY <1>1, <1>2 DEF SessionsInv, RowsLast

-----------------------------------------------------------------------------
(* The three beside each other.                                            *)

\* A step of Accounts is a step of the sessions, or leaves them alone.
LEMMA SessionsKept ==
  ASSUME SessionsInv, [Next]_vars
  PROVE  SessionsInv' /\ (LoggedOutRefused \/ UNCHANGED sessionVars)
<1>1. CASE SessionStep
  BY <1>1, SessionsStep, RefusedStep DEF SessionStep
<1>2. CASE ProfileStep \/ ReportStep \/ UNCHANGED vars
  <2>1. UNCHANGED sessionVars
    BY <1>2 DEF ProfileStep, ReportStep, vars
  <2>2. UNCHANGED <<now, challenges, made, verifies, users, tokens, arrivals, logouts,
                    revoked, loggedOut>>
    BY <2>1 DEF sessionVars
  <2> QED
    BY <2>1, <2>2
       DEF SessionsInv, Session!TypeOK, Paid, WithRow, Entitled, Open, Numbered, RowsLast
<1> QED BY <1>1, <1>2 DEF Next

\* The same of the profile.
LEMMA ProfileKept == ASSUME ProfileInv, [Next]_vars PROVE ProfileInv'
<1>1. CASE ProfileStep
  BY <1>1, ProfileStepKeeps DEF ProfileStep
<1>2. CASE SessionStep \/ ReportStep \/ UNCHANGED vars
  <2>1. UNCHANGED <<profile, rows, requests, tokensMade, mails, proof, mixed>>
    BY <1>2 DEF SessionStep, ReportStep, vars, profileVars
  <2>2. ProfileTyped' = ProfileTyped /\ MailsRight' = MailsRight /\ AsAsked' = AsAsked
    BY <2>1 DEF ProfileTyped, MailsRight, AsAsked, Account!AsAsked, Account!VerifiedIsProved,
       Account!WrittenByOwner, Account!AssetsOfOneRequest
  <2>3. /\ (profile # None => TokenRight(profile) /\ IdRight(profile))'
        /\ \A r : RequestRight(r) => RequestRight(r)'
    <3>1. \A p : (TokenRight(p) => TokenRight(p)') /\ (IdRight(p) => IdRight(p)')
      BY <2>1 DEF TokenRight, IdRight
    <3>2. \A r : SeenRight(r) => SeenRight(r)'
      BY <2>1, <3>1 DEF SeenRight
    <3> QED BY <2>1, <3>1, <3>2 DEF ProfileInv, RequestRight
  <2> QED BY <2>1, <2>2, <2>3 DEF ProfileInv
<1> QED BY <1>1, <1>2 DEF Next

\* And of the reports.
LEMMA ReportsKept == ASSUME ReportsInv, [Next]_vars PROVE ReportsInv'
<1>1. CASE ReportStep
  BY <1>1, ReportsStep DEF ReportStep
<1>2. CASE SessionStep \/ ProfileStep \/ UNCHANGED vars
  <2>1. UNCHANGED <<filing, reports, ips, expired, alerts, mishaps>>
    BY <1>2 DEF SessionStep, ProfileStep, vars, reportVars
  <2> QED
    BY <2>1 DEF ReportsInv, Report!TypeOK, InTurn, Mailing, Counted, Due
<1> QED BY <1>1, <1>2 DEF Next

\* The tables are well-formed; no token was given away, two verifies of one row
\* included; and the admin is alerted of the third report, once but for the overlaps
\* and the break-off that AlertedOnce names (app.ts 918-1005,
\* 2116-2440, 4696-4710): for any wallets, lifetimes, profiles, reporters and threshold.
THEOREM AccountsSound == Spec => []Inv
<1> DEFINE AllInv == part \in Parts /\ SessionsInv /\ ProfileInv /\ ReportsInv
<1>1. Init => AllInv
  BY SessionsInit, ProfileInit, ReportsInit DEF Init
<1>2. AllInv /\ [Next]_vars => AllInv'
  <2>1. [Next]_vars => UNCHANGED part
    BY DEF Next, SessionStep, ProfileStep, ReportStep, vars
  <2> QED BY <2>1, SessionsKept, ProfileKept, ReportsKept
<1>3. AllInv => Inv
  <2> SUFFICES ASSUME AllInv PROVE Inv
    OBVIOUS
  <2>1. TypeOK
    BY ProfileTypes DEF SessionsInv, ReportsInv, TypeOK
  <2>2. TokensPaidFor
    <3>1. Cardinality(tokens) <= made
      BY SessionsFinite DEF SessionsInv, Paid
    <3> QED BY <3>1, SameCounts DEF TokensPaidFor, Session!TokensPaidFor
  <2> QED BY <2>1, <2>2, ReportsAlert DEF Inv
<1> QED BY <1>1, <1>2, <1>3, PTL DEF Spec

\* A profile is as its owner asked, whatever requests overlap: its verified address was
\* proved, its owner wrote its fields, and its assets are of one list, each unless a
\* request wrote on what another had changed in just that (app.ts 2116-2210, 2347-2440,
\* 2565-2625), for any owners, addresses, assets and requests.
THEOREM Asked == Spec => []AsAsked
<1>1. Init => ProfileInv
  BY ProfileInit DEF Init
<1>2. ProfileInv /\ [Next]_vars => ProfileInv'
  BY ProfileKept
<1>3. ProfileInv => AsAsked
  BY DEF ProfileInv
<1> QED BY <1>1, <1>2, <1>3, PTL DEF Spec

\* A session that was logged out is admitted no more while its token lasts: the revoked
\* row that turns it away is purged only after it (auth.ts 70-112,
\* ip-retention-purge.ts 31-41), however the purge, the logouts and the clock go.
THEOREM StaysOut == Spec => LoggedOutStaysOut
<1>1. Init => SessionsInv
  BY SessionsInit DEF Init
<1>2. SessionsInv /\ [Next]_vars => SessionsInv'
  BY SessionsKept
<1>3. SessionsInv /\ [Next]_vars
      => [\A t \in logouts' \ logouts : now < t.exp => t.jti \notin loggedOut]_(Session!sessionVars)
  BY SessionsKept DEF LoggedOutRefused, sessionVars, Session!sessionVars
<1> QED BY <1>1, <1>2, <1>3, PTL DEF Spec, LoggedOutStaysOut, Session!LoggedOutStaysOut
=============================================================================
