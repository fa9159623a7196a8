------------------------------ MODULE Sessions ------------------------------
(***************************************************************************)
(* Signing in with a wallet, and out again (backend/src/auth.ts and the    *)
(* /auth routes of app.ts).                                                *)
(*                                                                         *)
(* POST /auth/challenge writes the one challenge row of a wallet.  POST    *)
(* /auth/verify reads the row, checks the signature and deletes the row, in *)
(* that order and with other requests in between, then finds or creates    *)
(* the user and signs a token.  requireAuth checks the token's expiry and  *)
(* then, one query later, that it is not revoked.  POST /auth/logout       *)
(* revokes it, and an hourly job deletes the revoked rows that expired.    *)
(*                                                                         *)
(* A challenge and a token's jti are numbers in the order they are made: a *)
(* signature verifies exactly for the challenge it was made for.  Every    *)
(* process has the same clock.                                             *)
(***************************************************************************)
EXTENDS Integers, Sequences, FiniteSets

CONSTANTS
  Wallets,
  None,           \* no challenge row
  ChallengeLife,  \* CHALLENGE_EXPIRY_MS (5 minutes)
  TokenLife,      \* JWT_EXPIRY (1 hour)
  MaxChallenges, MaxVerifies, MaxTime  \* bounds of the checks

SessionsAssumption ==
  /\ None \notin Wallets
  /\ ChallengeLife \in Nat \ {0} /\ TokenLife \in Nat \ {0}
  /\ MaxChallenges \in Nat /\ MaxVerifies \in Nat /\ MaxTime \in Nat

VARIABLES
  now,
  challenges,  \* table auth_challenges: the row of each wallet
  made,        \* how many challenges were generated
  verifies,    \* the POST /auth/verify requests
  users,       \* table User: the wallets that have one
  tokens,      \* the tokens handed out
  arrivals,    \* tokens whose expiry is checked and whose jti is being looked up
  logouts,     \* tokens of the logouts admitted and not yet answered
  revoked,     \* table revoked_tokens
  loggedOut    \* jtis of the logouts that were answered with 200

sessionVars == <<now, challenges, made, verifies, users, tokens, arrivals,
                 logouts, revoked, loggedOut>>

Challenge == [id : 1..MaxChallenges, expiresAt : 0..(MaxTime + ChallengeLife)]
Token     == [jti : 1..MaxVerifies, wallet : Wallets, exp : 0..(MaxTime + TokenLife)]
Verify    == [wallet : Wallets, pc : {"expired", "clear", "find", "create", "done"}]

TypeOK ==
  /\ now \in 0..MaxTime
  /\ challenges \in [Wallets -> Challenge \cup {None}]
  /\ made \in 0..MaxChallenges
  /\ verifies \in Seq(Verify) /\ Len(verifies) <= MaxVerifies
  /\ users \subseteq Wallets
  /\ tokens \subseteq Token
  /\ arrivals \subseteq tokens /\ logouts \subseteq tokens
  /\ revoked \subseteq [jti : 1..MaxVerifies, expiresAt : 0..(MaxTime + TokenLife)]
  /\ loggedOut \subseteq 1..MaxVerifies

Init ==
  /\ now = 0
  /\ challenges = [w \in Wallets |-> None] /\ made = 0
  /\ verifies = <<>> /\ users = {} /\ tokens = {}
  /\ arrivals = {} /\ logouts = {} /\ revoked = {} /\ loggedOut = {}

-----------------------------------------------------------------------------
(* Signing in.                                                              *)

\* POST /auth/challenge: one upsert, so a wallet's older challenge is replaced.
RequestChallenge(w) ==
  /\ made < MaxChallenges
  /\ made' = made + 1
  /\ challenges' = [challenges EXCEPT ![w] = [id |-> made', expiresAt |-> now + ChallengeLife]]
  /\ UNCHANGED <<now, verifies, users, tokens, arrivals, logouts, revoked, loggedOut>>

\* POST /auth/verify with the signature of challenge c, read by findUnique.  The
\* request goes on to delete an expired row, or to use up the one it was signed for;
\* no row, or a row the signature is not for, is an error answer.
VerifyRead(w, c) ==
  LET row == challenges[w] IN
  /\ Len(verifies) < MaxVerifies
  /\ row # None
  /\ row.expiresAt < now \/ row.id = c
  /\ verifies' = Append(verifies, [wallet |-> w,
                                   pc |-> IF row.expiresAt < now THEN "expired" ELSE "clear"])
  /\ UNCHANGED <<now, challenges, made, users, tokens, arrivals, logouts, revoked, loggedOut>>

\* Fault seeded for the checks: deleteMany, which finds nothing and does not mind.
ClearedAny(i) == IF verifies[i].pc = "expired" THEN "done" ELSE "find"

\* Where delete takes a request: a wallet without a row is P2025, answered with 409.
Cleared(i) ==
  IF challenges[verifies[i].wallet] = None \/ verifies[i].pc = "expired" THEN "done" ELSE "find"

\* Deletes the wallet's row, whichever challenge it holds by now.
DeleteChallenge(i) ==
  /\ verifies[i].pc \in {"expired", "clear"}
  /\ challenges' = [challenges EXCEPT ![verifies[i].wallet] = None]
  /\ verifies' = [verifies EXCEPT ![i].pc = Cleared(i)]
  /\ UNCHANGED <<now, made, users, tokens, arrivals, logouts, revoked, loggedOut>>

\* signJWT, and the answer with the cookie.
SignToken(i) ==
  /\ tokens' = tokens \cup {[jti |-> Cardinality(tokens) + 1, wallet |-> verifies[i].wallet,
                             exp |-> now + TokenLife]}
  /\ verifies' = [verifies EXCEPT ![i].pc = "done"]

FindUser(i) ==
  /\ verifies[i].pc = "find"
  /\ \/ verifies[i].wallet \in users /\ SignToken(i)
     \/ /\ verifies[i].wallet \notin users
        /\ verifies' = [verifies EXCEPT ![i].pc = "create"] /\ UNCHANGED tokens
  /\ UNCHANGED <<now, challenges, made, users, arrivals, logouts, revoked, loggedOut>>

\* user.create: of two the second is P2002, answered with 409, its challenge gone.
CreateUser(i) ==
  /\ verifies[i].pc = "create"
  /\ \/ verifies[i].wallet \notin users /\ SignToken(i)
     \/ /\ verifies[i].wallet \in users
        /\ verifies' = [verifies EXCEPT ![i].pc = "done"] /\ UNCHANGED tokens
  /\ users' = users \cup {verifies[i].wallet}
  /\ UNCHANGED <<now, challenges, made, arrivals, logouts, revoked, loggedOut>>

\* The database fails, or the process is stopped: 500, or no answer.
VerifyFails(i) ==
  /\ verifies[i].pc # "done"
  /\ verifies' = [verifies EXCEPT ![i].pc = "done"]
  /\ UNCHANGED <<now, challenges, made, users, tokens, arrivals, logouts, revoked, loggedOut>>

-----------------------------------------------------------------------------
(* Using a token, and signing out.                                          *)

\* requireAuth, first half: verifyJWT accepts the token up to its expiry.
Arrive(t) ==
  /\ t \in tokens \ arrivals
  /\ now < t.exp
  /\ arrivals' = arrivals \cup {t}
  /\ UNCHANGED <<now, challenges, made, verifies, users, tokens, logouts, revoked, loggedOut>>

\* requireAuth, second half: the jti is not among the revoked ones.
IsRevoked(t) == \E r \in revoked : r.jti = t.jti

\* The handler starts (next()).
Admit(t) ==
  /\ t \in arrivals /\ ~IsRevoked(t)
  /\ arrivals' = arrivals \ {t}

\* 401 for a revoked token, 500 when the query fails.
TurnAway(t) ==
  /\ t \in arrivals
  /\ arrivals' = arrivals \ {t}
  /\ UNCHANGED <<now, challenges, made, verifies, users, tokens, logouts, revoked, loggedOut>>

\* POST /auth/logout, admitted by requireAuth as every handler is that asks for it.
Logout(t) ==
  /\ Admit(t)
  /\ logouts' = logouts \cup {t}
  /\ UNCHANGED <<now, challenges, made, verifies, users, tokens, revoked, loggedOut>>

\* The upsert of the revoked row, and the answer.
Revoke(t) ==
  /\ t \in logouts
  /\ logouts' = logouts \ {t}
  /\ revoked' = revoked \cup {[jti |-> t.jti, expiresAt |-> t.exp]}
  /\ loggedOut' = loggedOut \cup {t.jti}
  /\ UNCHANGED <<now, challenges, made, verifies, users, tokens, arrivals>>

LogoutFails(t) ==
  /\ t \in logouts
  /\ logouts' = logouts \ {t}
  /\ UNCHANGED <<now, challenges, made, verifies, users, tokens, arrivals, revoked, loggedOut>>

\* Fault seeded for the checks: rows are deleted in the hour they expire.
KeptOneHourLess == {r \in revoked : r.expiresAt > now + 1}

\* What purgeExpiredRevokedTokens leaves: deleteMany where expiresAt <= now.
KeptRevoked == {r \in revoked : r.expiresAt > now}

Purge ==
  /\ revoked' = KeptRevoked /\ revoked' # revoked
  /\ UNCHANGED <<now, challenges, made, verifies, users, tokens, arrivals, logouts, loggedOut>>

Tick ==
  /\ now < MaxTime /\ now' = now + 1
  /\ UNCHANGED <<challenges, made, verifies, users, tokens, arrivals, logouts, revoked, loggedOut>>

Next ==
  \/ \E w \in Wallets : RequestChallenge(w) \/ \E c \in 1..made : VerifyRead(w, c)
  \/ \E i \in 1..Len(verifies) :
       DeleteChallenge(i) \/ FindUser(i) \/ CreateUser(i) \/ VerifyFails(i)
  \/ \E t \in tokens : Arrive(t) \/ TurnAway(t) \/ Logout(t) \/ Revoke(t) \/ LogoutFails(t)
  \/ Purge \/ Tick

-----------------------------------------------------------------------------
\* Every token was paid for with a challenge row of its own: of two verifies that
\* read one row, one is refused, unless a new challenge came in between and is used
\* up in its place (app.ts 918-1005).
TokensPaidFor == Cardinality(tokens) <= made

\* A session that was logged out is admitted no more while its token lasts, the
\* revoked row staying as long (auth.ts 70-112, ip-retention-purge.ts 31-41).
LoggedOutStaysOut ==
  [][\A t \in logouts' \ logouts : now < t.exp => t.jti \notin loggedOut]_sessionVars
=============================================================================
