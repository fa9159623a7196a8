-------------------------- MODULE LeaderboardCache --------------------------
(***************************************************************************)
(* The cache of a profile's leaderboard (profile-leaderboard-cache.ts):    *)
(* one entry in Redis shared by the replicas, and one in the memory of     *)
(* each replica for when Redis fails.  Readers look an entry up, query the *)
(* database and store what they got (app.ts, GET leaderboard); a recorded  *)
(* payment invalidates the entries and tells the other replicas to.        *)
(*                                                                         *)
(* An entry is the number of rows its query saw and the ticks it has left. *)
(* The keys of a profile (its pages and sorts) behave alike; one stands    *)
(* for all of them.  Every await is a step boundary.  The specification    *)
(* and its invariants are named for the board: their theorems stand beside *)
(* those of SupportTransactions.                                           *)
(***************************************************************************)
EXTENDS Integers, FiniteSets

CONSTANTS
  Replica, Reader, Writer,
  ReplicaOf,       \* of a reader or writer
  UseRedis,        \* REDIS_URL is set
  CacheTTL,        \* CACHE_TTL_SECONDS, in ticks
  FallbackTTL,     \* FALLBACK_CACHE_TTL_SECONDS, in ticks
  MaxRows,         \* bound: rows of the profile
  MaxErrors        \* bound: failed Redis calls, lost connections and messages

ASSUME CacheAssumption ==
  /\ Reader \cap Writer = {}
  /\ ReplicaOf \in [Reader \cup Writer -> Replica]
  /\ UseRedis \in BOOLEAN
  /\ CacheTTL \in Nat \ {0} /\ FallbackTTL \in Nat \ {0} /\ FallbackTTL <= CacheTTL
  /\ MaxRows \in Nat /\ MaxErrors \in Nat

VARIABLES
  stored,       \* SupportTransaction rows of the profile
  age,          \* ticks since each row was stored, up to CacheTTL
  redis,        \* the entry in Redis
  local,        \* a replica's entry in leaderboardCache
  up,           \* a replica's getIsRedisAvailable()
  inbox,        \* a broadcast is on its way to a replica
  at,           \* where a reader or a writer is
  seen,         \* what a reader's query returned, or a writer's row
  keys,         \* a writer's scan found the entry
  invalidated,  \* the newest row whose invalidation has returned
  overtaken,    \* a reader has stored a result that a row overtook
  errors

cacheVars == <<redis, local>>
procVars  == <<at, seen, keys>>
ghostVars == <<invalidated, overtaken>>
boardVars == <<stored, age, cacheVars, up, inbox, procVars, ghostVars, errors>>

Entry   == [rows : 0..MaxRows, left : 0..CacheTTL]
NoEntry == [rows |-> 0, left |-> 0]

BoardTypes ==
  /\ stored \in 0..MaxRows
  /\ age \in [1..MaxRows -> 0..CacheTTL]
  /\ redis \in Entry
  /\ local \in [Replica -> [rows : 0..MaxRows, left : 0..FallbackTTL]]
  /\ up \in [Replica -> BOOLEAN]
  /\ inbox \in [Replica -> BOOLEAN]
  /\ at \in [Reader \cup Writer -> {"idle", "get", "query", "set", "scan", "del", "clear", "publish"}]
  /\ seen \in [Reader \cup Writer -> 0..stored]
  /\ keys \in [Writer -> BOOLEAN]
  /\ invalidated \in 0..stored
  /\ overtaken \in BOOLEAN
  /\ errors \in 0..MaxErrors

BoardInit ==
  /\ stored = 0
  /\ age = [n \in 1..MaxRows |-> 0]
  /\ redis = NoEntry
  /\ local = [r \in Replica |-> NoEntry]
  /\ up = [r \in Replica |-> UseRedis]
  /\ inbox = [r \in Replica |-> FALSE]
  /\ at = [p \in Reader \cup Writer |-> "idle"]
  /\ seen = [p \in Reader \cup Writer |-> 0]
  /\ keys = [w \in Writer |-> FALSE]
  /\ invalidated = 0
  /\ overtaken = FALSE
  /\ errors = 0

Live(entry) == entry.left > 0
Home(p) == ReplicaOf[p]
Goto(p, s) == at' = [at EXCEPT ![p] = s]
Error == errors < MaxErrors /\ errors' = errors + 1

\* Fault seeded for the checks: entries are stored without a lifetime.
OlderNever(entry) == entry

Older(entry) == IF entry.left > 1 THEN [entry EXCEPT !.left = @ - 1] ELSE NoEntry

\* A tick is longer than a request, so a reader's query is as old as a tick at
\* most when its result is stored.
Tick ==
  /\ \A q \in Reader : at[q] # "set"
  /\ age' = [n \in 1..MaxRows |-> IF n <= stored /\ age[n] < CacheTTL THEN age[n] + 1 ELSE age[n]]
  /\ redis' = Older(redis)
  /\ local' = [r \in Replica |-> Older(local[r])]
  /\ UNCHANGED <<stored, up, inbox, procVars, ghostVars, errors>>

\* The connection is lost, or is there again; Redis keeps its entry.
Disconnect(r) ==
  /\ up[r] /\ Error
  /\ up' = [up EXCEPT ![r] = FALSE]
  /\ UNCHANGED <<stored, age, cacheVars, inbox, procVars, ghostVars>>

Connect(r) ==
  /\ UseRedis /\ ~up[r]
  /\ up' = [up EXCEPT ![r] = TRUE]
  /\ UNCHANGED <<stored, age, cacheVars, inbox, procVars, ghostVars, errors>>

\* The indexer stores a row, and invalidates nothing.
Ingest ==
  /\ stored < MaxRows
  /\ stored' = stored + 1
  /\ UNCHANGED <<age, cacheVars, up, inbox, procVars, ghostVars, errors>>

-----------------------------------------------------------------------------
(* GET /profiles/:username/leaderboard.                                    *)

Look(q) ==
  /\ at[q] = "idle"
  /\ Goto(q, "get")
  /\ UNCHANGED <<stored, age, cacheVars, up, inbox, seen, keys, ghostVars, errors>>

\* The entry a reader finds is the answer; without one it queries.
Found(q, entry) == Goto(q, IF Live(entry) THEN "idle" ELSE "query")

\* getCachedLeaderboard: Redis, or the replica's own entry when Redis is not
\* available or the call fails.
Get(q) ==
  /\ at[q] = "get"
  /\ \/ up[Home(q)] /\ Found(q, redis) /\ UNCHANGED errors
     \/ up[Home(q)] /\ Error /\ Found(q, local[Home(q)])
     \/ ~up[Home(q)] /\ Found(q, local[Home(q)]) /\ UNCHANGED errors
  /\ UNCHANGED <<stored, age, cacheVars, up, inbox, seen, keys, ghostVars>>

Query(q) ==
  /\ at[q] = "query"
  /\ seen' = [seen EXCEPT ![q] = stored]
  /\ Goto(q, "set")
  /\ UNCHANGED <<stored, age, cacheVars, up, inbox, keys, ghostVars, errors>>

InRedis(q) == redis' = [rows |-> seen[q], left |-> CacheTTL]
InProcess(q) == local' = [local EXCEPT ![Home(q)] = [rows |-> seen[q], left |-> FallbackTTL]]

\* setCachedLeaderboard.
Set(q) ==
  /\ at[q] = "set"
  /\ \/ up[Home(q)] /\ InRedis(q) /\ UNCHANGED <<local, errors>>
     \/ up[Home(q)] /\ Error /\ InProcess(q) /\ UNCHANGED redis
     \/ ~up[Home(q)] /\ InProcess(q) /\ UNCHANGED <<redis, errors>>
  /\ overtaken' = (overtaken \/ seen[q] < stored)
  /\ Goto(q, "idle")
  /\ seen' = [seen EXCEPT ![q] = 0]
  /\ UNCHANGED <<stored, age, up, inbox, keys, invalidated>>

-----------------------------------------------------------------------------
(* invalidateProfileLeaderboardCache.                                      *)

\* POST /support-transactions has committed a row.
Record(w) ==
  /\ at[w] = "idle" /\ stored < MaxRows
  /\ stored' = stored + 1
  /\ seen' = [seen EXCEPT ![w] = stored + 1]
  /\ Goto(w, IF up[Home(w)] THEN "scan" ELSE "clear")
  /\ UNCHANGED <<age, cacheVars, up, inbox, keys, ghostVars, errors>>

\* The profile's keys are looked for; when that fails Redis is left alone.
Scan(w) ==
  /\ at[w] = "scan"
  /\ \/ keys' = [keys EXCEPT ![w] = Live(redis)] /\ Goto(w, "del") /\ UNCHANGED errors
     \/ Error /\ Goto(w, "clear") /\ UNCHANGED keys
  /\ UNCHANGED <<stored, age, cacheVars, up, inbox, seen, ghostVars>>

\* Fault seeded for the checks: the keys are found, and left.
DeleteNothing(w) == UNCHANGED redis

DeleteKeys(w) == redis' = IF keys[w] THEN NoEntry ELSE redis

Delete(w) ==
  /\ at[w] = "del"
  /\ \/ DeleteKeys(w) /\ UNCHANGED errors
     \/ Error /\ UNCHANGED redis
  /\ keys' = [keys EXCEPT ![w] = FALSE]
  /\ Goto(w, "clear")
  /\ UNCHANGED <<stored, age, local, up, inbox, seen, ghostVars>>

ClearLocal(r) == local' = [local EXCEPT ![r] = NoEntry]

Clear(w) ==
  /\ at[w] = "clear"
  /\ ClearLocal(Home(w))
  /\ Goto(w, "publish")
  /\ UNCHANGED <<stored, age, redis, up, inbox, seen, keys, ghostVars, errors>>

\* The broadcast reaches the replicas that are subscribed just now, or nobody.
Publish(w) ==
  /\ at[w] = "publish"
  /\ \E listening \in SUBSET Replica :
       /\ ~UseRedis => listening = {}
       /\ inbox' = [r \in Replica |-> inbox[r] \/ r \in listening]
  /\ invalidated' = IF seen[w] > invalidated THEN seen[w] ELSE invalidated
  /\ Goto(w, "idle")
  /\ seen' = [seen EXCEPT ![w] = 0]
  /\ UNCHANGED <<stored, age, cacheVars, up, keys, overtaken, errors>>

\* applyLeaderboardInvalidationBroadcast.
Receive(r) ==
  /\ inbox[r]
  /\ inbox' = [inbox EXCEPT ![r] = FALSE]
  /\ ClearLocal(r)
  /\ UNCHANGED <<stored, age, redis, up, procVars, ghostVars, errors>>

Read(q) == Get(q) \/ Query(q) \/ Set(q)
Invalidate(w) == Scan(w) \/ Delete(w) \/ Clear(w) \/ Publish(w)

BoardNext ==
  \/ Tick \/ Ingest
  \/ \E r \in Replica : Disconnect(r) \/ Connect(r) \/ Receive(r)
  \/ \E q \in Reader : Look(q) \/ Read(q)
  \/ \E w \in Writer : Record(w) \/ Invalidate(w)

BoardSpec == BoardInit /\ [][BoardNext]_boardVars

\* Handlers go on to their answer, and time passes.
FairBoardSpec ==
  /\ BoardSpec /\ WF_boardVars(Tick)
  /\ \A q \in Reader : WF_boardVars(Read(q))
  /\ \A w \in Writer : WF_boardVars(Invalidate(w))

-----------------------------------------------------------------------------
(* Properties.                                                             *)

\* An entry with `left` ticks to live was made at most ttl - left ticks ago,
\* so the rows it lacks are no older than that.
YoungEnough(entry, ttl) ==
  Live(entry) => \A n \in entry.rows + 1..stored : age[n] <= ttl - entry.left

\* However replicas lose Redis, broadcasts and races, nobody is answered with
\* a leaderboard that lacks a row older than the cache's lifetime: 5 minutes
\* from Redis, and (28-31: "Keep its TTL short so a replica that missed a
\* broadcast cannot serve a stale leaderboard for long") 30 s from a fallback.
BoundedStaleness ==
  YoungEnough(redis, CacheTTL) /\ \A r \in Replica : YoungEnough(local[r], FallbackTTL)

\* The caches are well-formed, and nothing in them is too old (28-31).
BoardInv == BoardTypes /\ BoundedStaleness

\* What TTLs are not needed for: without errors, and unless a reader stored a
\* result that a row had overtaken, an entry that can be served has all the
\* rows whose invalidation has returned.
StaleOnlyIfOvertaken ==
  (errors = 0 /\ ~overtaken /\ UseRedis /\ Live(redis)) => redis.rows >= invalidated

\* When payments stop, every entry that can be served is complete in the end.
EventuallyComplete ==
  <>[](/\ Live(redis) => redis.rows = stored
       /\ \A r \in Replica : Live(local[r]) => local[r].rows = stored)
=============================================================================
