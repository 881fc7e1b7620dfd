-------------------------- MODULE AntigravityQuota --------------------------
(***************************************************************************)
(* The live quota cache and the strike breaker of one Antigravity account: *)
(* requests skip a model whose cached reading is exhausted, a 409 or 429   *)
(* refreshes the readings (coalesced and throttled), and repeated errors   *)
(* that the readings do not explain block the model for a while.           *)
(*                                                                         *)
(* Sources: src/src/sse/services/antigravityQuota.js and its callers in    *)
(* src/src/sse/services/auth.js and src/src/sse/handlers/chat.js.          *)
(*                                                                         *)
(* The object a refresh returns is the one it puts in the cache, so a      *)
(* handler reads the cache when it resumes.  The account locks that other  *)
(* failures set are AccountPool's.                                         *)
(***************************************************************************)
EXTENDS Integers, Sequences

CONSTANTS
  Model,            \* models of the account
  Request,          \* concurrent requests
  MinInterval,      \* MIN_REFRESH_INTERVAL_MS
  StrikeWindow,     \* STRIKE_WINDOW_MS
  StrikeThreshold,  \* STRIKE_THRESHOLD
  StrikeBlock,      \* STRIKE_BLOCK_MS
  ResetIn,          \* times to reset the upstream may report
  MaxTime           \* bound on the clock

ASSUME QuotaAssumption ==
  /\ MinInterval \in Nat \ {0} /\ StrikeWindow \in Nat
  /\ StrikeThreshold \in Nat \ {0, 1} /\ StrikeBlock \in Nat \ {0}
  /\ ResetIn \subseteq Nat \ {0} /\ MaxTime \in Nat

VARIABLES
  now,          \* Date.now(), far from the epoch
  cache,        \* quotaCache of the account
  strikes,      \* strikeCounts
  blocks,       \* strikeBlocks: blocked until, 0 if not blocked
  lastRefresh,  \* lastRefreshAt
  inflight,     \* inflightRefresh: a quota call is pending
  pc,           \* where each request is
  model,        \* the model it asks for
  reported,     \* history: the upstream's last reading
  errors        \* history: when recent errors were handled since a success

quotaVars == <<now, cache, strikes, blocks, lastRefresh, inflight, pc, model,
               reported, errors>>

\* A reading; without resetAt when that is 0.
Entry == [left : {"some", "none"}, resetAt : Nat]
NoEntry == [left |-> "unknown", resetAt |-> 0]
NoStrike == [count |-> 0, windowStart |-> 0]

Exhausted(entry) == entry.left = "none"

\* The pre-filter of getProviderCredentials skips the model.
InForce(entry) == Exhausted(entry) /\ entry.resetAt > now

\* The 0% entry of a strike block.
Synthesized(until) == [left |-> "none", resetAt |-> until]
-----------------------------------------------------------------------------
QuotaInit ==
  /\ now = MinInterval
  /\ cache = [m \in Model |-> NoEntry]
  /\ strikes = [m \in Model |-> NoStrike]
  /\ blocks = [m \in Model |-> 0]
  /\ lastRefresh = 0
  /\ inflight = FALSE
  /\ pc = [r \in Request |-> "idle"]
  /\ model \in [Request -> Model]
  /\ reported = [m \in Model |-> NoEntry]
  /\ errors = [m \in Model |-> << >>]

\* Continuations of a settled call run before the clock moves on.
Tick ==
  /\ now < MaxTime
  /\ \A r \in Request : pc[r] \notin {"answered", "unanswered"}
  /\ now' = now + 1
  /\ UNCHANGED <<cache, strikes, blocks, lastRefresh, inflight, pc, model,
                 reported, errors>>

\* The account is selected for the request's model.
Begin(r, m) ==
  /\ pc[r] = "idle" /\ ~InForce(cache[m])
  /\ pc' = [pc EXCEPT ![r] = "calling"]
  /\ model' = [model EXCEPT ![r] = m]
  /\ UNCHANGED <<now, cache, strikes, blocks, lastRefresh, inflight, reported,
                 errors>>

\* Or there is no account left, and the client is told when to come back.
TurnedAway(r, m) ==
  /\ pc[r] = "idle" /\ InForce(cache[m])
  /\ model' = [model EXCEPT ![r] = m]
  /\ UNCHANGED <<now, cache, strikes, blocks, lastRefresh, inflight, pc, reported,
                 errors>>

MutantClearKeepsEntry(m) == cache
\* A success removes the entry of the model's own block.
WithoutBlock(m) ==
  IF blocks[m] # 0 /\ cache[m].resetAt = blocks[m]
    THEN [cache EXCEPT ![m] = NoEntry] ELSE cache

\* clearAntigravityStrikes, on success.
Succeeds(r) ==
  LET m == model[r] IN
  /\ pc[r] = "calling"
  /\ pc' = [pc EXCEPT ![r] = "idle"]
  /\ strikes' = [strikes EXCEPT ![m] = NoStrike]
  /\ blocks' = [blocks EXCEPT ![m] = 0]
  /\ cache' = WithoutBlock(m)
  /\ errors' = [errors EXCEPT ![m] = << >>]
  /\ UNCHANGED <<now, lastRefresh, inflight, model, reported>>

\* An error other than 409 and 429 does not concern the quota.
FailsOtherwise(r) ==
  /\ pc[r] = "calling"
  /\ pc' = [pc EXCEPT ![r] = "idle"]
  /\ UNCHANGED <<now, cache, strikes, blocks, lastRefresh, inflight, model,
                 reported, errors>>

MutantWindowNeverEnds(strike) == TRUE
\* The window is anchored at the first strike.
InWindow(strike) == now - strike.windowStart <= StrikeWindow

Strike(strike) ==
  IF strike.count > 0 /\ InWindow(strike)
    THEN [strike EXCEPT !.count = @ + 1]
    ELSE [count |-> 1, windowStart |-> now]

Trips(strike) == strike.count >= StrikeThreshold

\* The reading does not explain the error: one more strike, and a block when
\* there are enough.
CountStrike(m) ==
  LET strike == Strike(strikes[m]) IN
  IF Trips(strike)
    THEN /\ strikes' = [strikes EXCEPT ![m] = NoStrike]
         /\ blocks' = [blocks EXCEPT ![m] = now + StrikeBlock]
         /\ cache' = [cache EXCEPT ![m] = Synthesized(now + StrikeBlock)]
    ELSE /\ strikes' = [strikes EXCEPT ![m] = strike]
         /\ UNCHANGED <<blocks, cache>>

\* handleAntigravityQuotaError with the reading the refresh returned.
HandleReading(r, entry) ==
  LET m == model[r] IN
  /\ pc' = [pc EXCEPT ![r] = "idle"]
  /\ errors' = [errors EXCEPT ![m] =
       LET all == Append(@, now)
       IN  SubSeq(all, IF Len(all) > StrikeThreshold THEN 2 ELSE 1, Len(all))]
  /\ IF Exhausted(entry)
       THEN /\ strikes' = [strikes EXCEPT ![m] = NoStrike]
            /\ UNCHANGED <<blocks, cache>>
       ELSE CountStrike(m)

\* A 409 or 429: join the pending refresh ...
JoinsRefresh(r) ==
  /\ pc[r] = "calling" /\ inflight
  /\ pc' = [pc EXCEPT ![r] = "waiting"]
  /\ UNCHANGED <<now, cache, strikes, blocks, lastRefresh, inflight, model,
                 reported, errors>>

\* ... or, soon after the last attempt, use what is cached ...
Throttled(r) ==
  /\ pc[r] = "calling" /\ ~inflight
  /\ now - lastRefresh < MinInterval
  /\ HandleReading(r, cache[model[r]])
  /\ UNCHANGED <<now, lastRefresh, inflight, model, reported>>

\* ... or ask for the quota.
StartsRefresh(r) ==
  /\ pc[r] = "calling" /\ ~inflight
  /\ now - lastRefresh >= MinInterval
  /\ lastRefresh' = now
  /\ inflight' = TRUE
  /\ pc' = [pc EXCEPT ![r] = "waiting"]
  /\ UNCHANGED <<now, cache, strikes, blocks, model, reported, errors>>

MutantNoReassert(quotas) == quotas
\* Blocks still running replace the upstream's readings.
ApplyActiveStrikeBlocks(quotas) ==
  [m \in Model |-> IF blocks[m] > now THEN Synthesized(blocks[m]) ELSE quotas[m]]

\* What the upstream may report of one model.
Readings == {NoEntry, [left |-> "some", resetAt |-> 0], [left |-> "none", resetAt |-> 0]}
            \cup {[left |-> "none", resetAt |-> now + d] : d \in ResetIn}

Resumed(outcome) == [r \in Request |-> IF pc[r] = "waiting" THEN outcome ELSE pc[r]]

QuotaArrives ==
  /\ inflight
  /\ \E quotas \in [Model -> Readings] :
       /\ cache' = ApplyActiveStrikeBlocks(quotas)
       /\ reported' = quotas
  /\ blocks' = [m \in Model |-> IF blocks[m] > now THEN blocks[m] ELSE 0]
  /\ inflight' = FALSE
  /\ pc' = Resumed("answered")
  /\ UNCHANGED <<now, strikes, lastRefresh, model, errors>>

\* An error, or an answer with a message instead of quotas.
QuotaFails ==
  /\ inflight
  /\ inflight' = FALSE
  /\ pc' = Resumed("unanswered")
  /\ UNCHANGED <<now, cache, strikes, blocks, lastRefresh, model, reported, errors>>

Resume(r) ==
  /\ \/ pc[r] = "answered" /\ HandleReading(r, cache[model[r]])
     \/ pc[r] = "unanswered" /\ HandleReading(r, NoEntry)
  /\ UNCHANGED <<now, lastRefresh, inflight, model, reported>>

QuotaError(r) == JoinsRefresh(r) \/ Throttled(r) \/ StartsRefresh(r)

QuotaNext ==
  \/ Tick
  \/ \E r \in Request :
       \/ \E m \in Model : Begin(r, m) \/ TurnedAway(r, m)
       \/ Succeeds(r) \/ FailsOtherwise(r) \/ QuotaError(r) \/ Resume(r)
  \/ QuotaArrives
  \/ QuotaFails

QuotaSpec == QuotaInit /\ [][QuotaNext]_quotaVars
-----------------------------------------------------------------------------
(* Properties. *)

\* Type correctness; a count that reaches the threshold is reset at once.
QuotaTypeOK ==
  /\ now \in Nat
  /\ cache \in [Model -> Entry \cup {NoEntry}]
  /\ strikes \in [Model -> [count : 0..(StrikeThreshold - 1), windowStart : Nat]]
  /\ blocks \in [Model -> Nat]
  /\ lastRefresh \in Nat
  /\ inflight \in BOOLEAN
  /\ pc \in [Request -> {"idle", "calling", "waiting", "answered", "unanswered"}]
  /\ model \in [Request -> Model]
  /\ reported \in [Model -> Entry \cup {NoEntry}]
  /\ errors \in [Model -> Seq(Nat)]

\* No request is sent to a model while its strike block runs, whatever the
\* upstream has reported since.
BlockSurvivesRefresh ==
  [][\A r \in Request : pc[r] = "idle" /\ pc'[r] = "calling" =>
       blocks[model'[r]] <= now]_quotaVars

\* A model is skipped only because its own block runs or because the upstream
\* last said that it is exhausted: nothing stays skipped after a success
\* cleared its block.
SkippedForAReason ==
  \A m \in Model : InForce(cache[m]) =>
    \/ blocks[m] = cache[m].resetAt
    \/ reported[m] = cache[m]

\* A block takes enough errors in one window, without a success in between.
BlockIsEarned ==
  [][\A m \in Model : blocks'[m] > blocks[m] =>
       LET e == errors'[m] IN
       Len(e) = StrikeThreshold /\ now - e[1] <= StrikeWindow]_quotaVars

=============================================================================
