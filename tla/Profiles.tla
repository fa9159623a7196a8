------------------------------ MODULE Profiles ------------------------------
(***************************************************************************)
(* One username and the requests its owner makes about it (backend/src/    *)
(* app.ts): creating, editing, importing and deleting the profile, the     *)
(* verification of its e-mail address, and the assets it accepts.          *)
(*                                                                         *)
(* A handler reads the profile, checks that the caller owns it, and writes *)
(* it in a later query; nothing keeps the requests of one profile apart.   *)
(* PATCH and the import write the row that has the username, the others    *)
(* the row that has the id they read.                                      *)
(*                                                                         *)
(* Of a profile's fields the model keeps the e-mail address, and with      *)
(* "writer" who wrote the others last.  Verification tokens are numbers in *)
(* the order they are made; "mails" is every one that reached a mailbox.   *)
(***************************************************************************)
EXTENDS Naturals, Sequences, FiniteSets

CONSTANTS
  Callers,      \* wallets that sign in
  None,         \* no profile, no address, no token
  Keep,         \* a PATCH that leaves the address out
  Emails,
  TakenEmails,  \* addresses of other profiles (Profile.email is unique)
  XLM,          \* the asset without an issuer
  OtherAssets,
  AssetLists,   \* the lists of assets a request may name, each a set
  MaxProfileRequests, MaxMailTokens  \* bounds of the checks

ProfilesAssumption ==
  /\ None \notin Callers /\ {None, Keep} \cap Emails = {} /\ TakenEmails \subseteq Emails
  /\ AssetLists \subseteq SUBSET ({XLM} \cup OtherAssets)
  /\ MaxProfileRequests \in Nat /\ MaxMailTokens \in Nat \ {0}

VARIABLES
  profile,     \* the row of table Profile that has the username
  rows,        \* its rows of table AcceptedAsset
  requests,    \* the requests about it
  tokensMade,  \* how many verification tokens were generated
  mails,       \* the tokens that arrived, each with the mailbox
  proof,       \* the mailbox whose token verified the address last
  mixed        \* history: what a write mixed that had read before another request wrote

profileVars == <<profile, rows, requests, tokensMade, mails, proof, mixed>>

Profile == [id : 0..MaxProfileRequests, owner : Callers, email : Emails \cup {None},
            emailVerified : BOOLEAN, token : 0..MaxMailTokens, lapsed : BOOLEAN,
            writer : Callers]
\* A row of AcceptedAsset: the asset, and the request that inserted it (0: an earlier one).
Row == [asset : {XLM} \cup OtherAssets, by : 0..MaxProfileRequests]
NoToken == 0
Mixes == {"address", "fields", "assets"}

Kinds == {"create", "patch", "import", "verify", "resend", "assets", "delete"}

TypeOK ==
  /\ profile \in Profile \cup {None}
  /\ rows \subseteq Row
  /\ Len(requests) <= MaxProfileRequests
  /\ \A i \in 1..Len(requests) :
       /\ requests[i].by \in Callers /\ requests[i].kind \in Kinds
       /\ requests[i].pc \in {"read", "write", "commit", "done"}
       /\ requests[i].seen \in Profile \cup {None} /\ requests[i].old \subseteq Row
  /\ tokensMade \in 0..MaxMailTokens
  /\ mails \subseteq [token : 1..MaxMailTokens, to : Emails]
  /\ proof \in Emails \cup {None}
  /\ mixed \subseteq Mixes

\* The username is free, or the profile has an address to verify and the mail arrived.
Init ==
  /\ requests = <<>> /\ proof = None /\ mixed = {}
  /\ \/ profile = None /\ rows = {} /\ tokensMade = 0 /\ mails = {}
     \/ \E who \in Callers, e \in Emails \ TakenEmails :
          /\ profile = [id |-> 0, owner |-> who, email |-> e, emailVerified |-> FALSE,
                        token |-> 1, lapsed |-> FALSE, writer |-> who]
          /\ rows = {[asset |-> XLM, by |-> 0]}
          /\ tokensMade = 1 /\ mails = {[token |-> 1, to |-> e]}

-----------------------------------------------------------------------------
IsProfileOwner(who, p) == p # None /\ p.owner = who

\* A request arrives with what its body says; a new profile is not read first.
Begin(who, kind, arg) ==
  /\ Len(requests) < MaxProfileRequests
  /\ requests' = Append(requests,
       [by |-> who, kind |-> kind, arg |-> arg, seen |-> None, old |-> {},
        pc |-> IF kind = "create" THEN "write" ELSE "read"])
  /\ UNCHANGED <<profile, rows, tokensMade, mails, proof, mixed>>

\* What the bodies may say: an address, a token of a mail that arrived, a list of assets.
BeginSome(who) ==
  \/ \E e \in Emails \cup {None} : Begin(who, "create", e)
  \/ \E e \in Emails \cup {None, Keep} : Begin(who, "patch", e)
  \/ \E m \in mails : Begin(who, "verify", m.token)
  \/ \E l \in AssetLists : Begin(who, "assets", l)
  \/ \E k \in {"import", "resend", "delete"} : Begin(who, k, None)

Done(i) == requests' = [requests EXCEPT ![i] = [@ EXCEPT !.pc = "done", !.seen = None, !.old = {}]]

\* 4xx without a change; 500 where the database fails, or nobody answers.
Refuse(i) ==
  /\ requests[i].pc # "done"
  /\ Done(i)
  /\ UNCHANGED <<profile, rows, tokensMade, mails, proof, mixed>>

\* What each handler asks of the row before it goes on; verify-email looks its row
\* up by the username and the token.
GoesOn(r) ==
  /\ IsProfileOwner(r.by, profile)
  /\ r.kind = "verify" => profile.token = r.arg /\ ~profile.lapsed
  /\ r.kind = "resend" => ~profile.emailVerified /\ profile.email # None

Read(i) ==
  /\ requests[i].pc = "read" /\ GoesOn(requests[i])
  /\ requests' = [requests EXCEPT ![i].pc = "write", ![i].seen = profile]
  /\ UNCHANGED <<profile, rows, tokensMade, mails, proof, mixed>>

Writing(i, kind) == requests[i].pc = "write" /\ requests[i].kind = kind

\* A fresh token is made for address e, and its mail sent; the mail may be lost.
MakeToken(e) ==
  /\ tokensMade < MaxMailTokens /\ tokensMade' = tokensMade + 1
  /\ mails' \in {mails, mails \cup {[token |-> tokensMade', to |-> e]}}

\* What is written now does not go with what another request wrote since it was read.
Mixing(wrong, what) == mixed' = IF wrong THEN mixed \cup {what} ELSE mixed

\* The profile was given another address than the one that was read.
Readdressed(seen) == profile.email \notin {None, seen.email}

-----------------------------------------------------------------------------
(* The writes.                                                              *)

\* POST /profiles, for the caller's own wallet; a taken name or address is P2002, 409.
Create(i) ==
  LET e == requests[i].arg IN
  /\ Writing(i, "create") /\ profile = None /\ e \notin TakenEmails
  /\ IF e = None THEN UNCHANGED <<tokensMade, mails>> ELSE MakeToken(e)
  /\ profile' = [id |-> i, owner |-> requests[i].by, email |-> e, emailVerified |-> FALSE,
                 token |-> IF e = None THEN NoToken ELSE tokensMade', lapsed |-> FALSE,
                 writer |-> requests[i].by]
  /\ rows' = {[asset |-> XLM, by |-> i]}
  /\ proof' = None
  /\ Done(i) /\ UNCHANGED mixed

\* The row a PATCH writes: a changed address is unverified and gets a new token,
\* and a removed one keeps the token it had.
Patched(p, r, e, changed) ==
  [p EXCEPT !.email = e, !.writer = r.by,
            !.emailVerified = @ /\ ~changed,
            !.token = IF changed /\ e # None THEN tokensMade' ELSE @,
            !.lapsed = @ /\ ~(changed /\ e # None)]

\* PATCH /profiles/:username: whether the address changes is judged by the row read,
\* the row written is the one that has the username.
Patch(i) ==
  LET r == requests[i]
      e == IF r.arg = Keep THEN profile.email ELSE r.arg
      changed == r.arg # Keep /\ r.arg # r.seen.email
  IN
  /\ Writing(i, "patch") /\ profile # None
  /\ r.arg \notin TakenEmails
  /\ IF changed /\ e # None THEN MakeToken(e) ELSE UNCHANGED <<tokensMade, mails>>
  /\ profile' = Patched(profile, r, e, changed)
  /\ mixed' = mixed \cup {m \in Mixes :
       \/ m = "fields" /\ r.seen.id # profile.id
       \/ m = "address" /\ ~changed /\ e \notin {None, profile.email}}
  /\ Done(i) /\ UNCHANGED <<rows, proof>>

\* POST /profiles/:username/import/github: the fields of the answer, by username too.
Import(i) ==
  /\ Writing(i, "import") /\ profile # None
  /\ profile' = [profile EXCEPT !.writer = requests[i].by]
  /\ Mixing(profile.id # requests[i].seen.id, "fields")
  /\ Done(i) /\ UNCHANGED <<rows, tokensMade, mails, proof>>

\* The row that was read is still there.
SameRow(i) == profile # None /\ profile.id = requests[i].seen.id

\* POST /profiles/:username/verify-email.
VerifyEmail(i) ==
  LET r == requests[i] IN
  /\ Writing(i, "verify") /\ SameRow(i)
  /\ profile' = [profile EXCEPT !.emailVerified = TRUE, !.token = NoToken, !.lapsed = FALSE]
  /\ proof' = (CHOOSE m \in mails : m.token = r.arg).to
  /\ Mixing(Readdressed(r.seen), "address")
  /\ Done(i) /\ UNCHANGED <<rows, tokensMade, mails>>

\* POST /profiles/:username/resend-verification-email: to the address that was read.
Resend(i) ==
  LET r == requests[i] IN
  /\ Writing(i, "resend") /\ SameRow(i)
  /\ MakeToken(r.seen.email)
  /\ profile' = [profile EXCEPT !.token = tokensMade', !.lapsed = FALSE]
  /\ Mixing(Readdressed(r.seen), "address")
  /\ Done(i) /\ UNCHANGED <<rows, proof>>

\* PATCH /profiles/:username/assets, one transaction at read committed: deleteMany
\* finds the rows committed when it starts (and waits for whoever deletes them too).
DeleteAssets(i) ==
  /\ Writing(i, "assets") /\ SameRow(i)
  /\ requests' = [requests EXCEPT ![i].pc = "commit", ![i].old = rows]
  /\ UNCHANGED <<profile, rows, tokensMade, mails, proof, mixed>>

\* Fault seeded for the checks: the new list is added to the old one.
Extended(i) == rows \cup {[asset |-> a, by |-> i] : a \in requests[i].arg}

\* The rows once createMany is committed.
Replaced(i) == (rows \ requests[i].old) \cup {[asset |-> a, by |-> i] : a \in requests[i].arg}

\* createMany: a second row of an asset with an issuer is P2002, and all is rolled
\* back; the unique constraint takes two XLM rows for different ones (issuer is NULL).
CreateAssets(i) ==
  /\ requests[i].pc = "commit" /\ SameRow(i)
  /\ \A s \in rows \ requests[i].old : s.asset \in requests[i].arg => s.asset = XLM
  /\ rows' = Replaced(i)
  /\ Mixing(rows # requests[i].old, "assets")
  /\ Done(i) /\ UNCHANGED <<profile, tokensMade, mails, proof>>

\* DELETE /profiles/:username: what belongs to the row goes with it (onDelete: Cascade).
Delete(i) ==
  /\ Writing(i, "delete") /\ SameRow(i)
  /\ profile' = None /\ rows' = {} /\ proof' = None
  /\ Done(i) /\ UNCHANGED <<tokensMade, mails, mixed>>

\* emailVerificationExpiry passes (24 hours).
Lapse ==
  /\ profile # None /\ profile.token # NoToken /\ ~profile.lapsed
  /\ profile' = [profile EXCEPT !.lapsed = TRUE]
  /\ UNCHANGED <<rows, requests, tokensMade, mails, proof, mixed>>

Next ==
  \/ \E who \in Callers : BeginSome(who)
  \/ \E i \in 1..Len(requests) :
       \/ Refuse(i) \/ Read(i) \/ Create(i) \/ Patch(i) \/ Import(i) \/ VerifyEmail(i)
       \/ Resend(i) \/ DeleteAssets(i) \/ CreateAssets(i) \/ Delete(i)
  \/ Lapse

-----------------------------------------------------------------------------
VerifiedIsProved ==
  profile # None /\ profile.emailVerified /\ profile.email # None => proof = profile.email
WrittenByOwner == profile # None => profile.writer = profile.owner
AssetsOfOneRequest == \A s, t \in rows : s.by = t.by

\* A profile is as its owner asked, whatever requests overlap: a verified address was
\* proved from its own mailbox, the fields were written by the owner, and the assets are
\* those of one list.  Each can be lost in one way only: the address, when a verify or a
\* resend goes on for the address it read although there is another, or a PATCH puts
\* back the one it read; the fields, when a PATCH or an import that read a profile
\* writes the one that replaced it; the assets, when a second list is inserted beside
\* one that its deleteMany did not see (app.ts 2116-2210, 2347-2440, 2565-2625).
AsAsked ==
  /\ "address" \in mixed \/ VerifiedIsProved
  /\ "fields" \in mixed \/ WrittenByOwner
  /\ "assets" \in mixed \/ AssetsOfOneRequest
=============================================================================
