---------------------------- MODULE TokenRefresh ----------------------------
(***************************************************************************)
(* The OAuth tokens of one connection whose provider rotates single-use    *)
(* refresh tokens (codex, grok-cli): the pre-check of a request, the       *)
(* 401/403 path of chatCore.js with its retries, and the background tick   *)
(* all refresh through one in-flight promise per connection and a cache    *)
(* of recent results keyed by the refresh token they spent.                *)
(*                                                                         *)
(* Sources: src/src/sse/services/tokenRefresh.js,                          *)
(* src/src/sse/services/backgroundTokenRefresh.js,                         *)
(* src/open-sse/services/oauthCredentialManager.js,                        *)
(* src/open-sse/services/tokenRefresh/dedup.js and the 401/403 path of     *)
(* src/open-sse/handlers/chatCore.js.                                      *)
(*                                                                         *)
(* A token pair is named by its generation: the n-th pair the provider     *)
(* issued.  When the promise settles, everything its waiters do before     *)
(* their next network call or timer runs in one burst of microtasks, the   *)
(* write of the connection row included: that is one step.                 *)
(***************************************************************************)
EXTENDS Integers, FiniteSets

CONSTANTS
  Request,      \* concurrent requests on the connection
  Background,   \* the background refresh tick
  Nobody,       \* no refresh in flight
  TTL,          \* REFRESH_RESULT_TTL_MS
  Lifetime,     \* expires_in of a token pair
  Lead,         \* getRefreshLeadMs of the provider
  BgLead,       \* max of that lead and BACKGROUND_REFRESH_LEAD_MS
  RetryUnit,    \* refreshWithRetry waits attempt * RetryUnit
  MaxRetries,   \* attempts of refreshWithRetry
  Rejects,      \* which tokens the provider may answer 401/403 to: "stale", "any"
  MaxToken,     \* bound on the pairs the provider issues
  MaxTime       \* bound on the clock

Actor == Request \cup {Background}
Token == 1..MaxToken

ASSUME RefreshAssumption ==
  /\ Background \notin Request
  /\ Nobody \notin Actor
  /\ TTL \in Nat /\ Lifetime \in Nat /\ Lead \in Nat /\ BgLead \in Nat
  /\ RetryUnit \in Nat /\ MaxRetries \in Nat \ {0}
  /\ Rejects \in {"stale", "any"}
  /\ MaxToken \in Nat \ {0} /\ MaxTime \in Nat

VARIABLES
  now,       \* Date.now()
  stored,    \* the connection row: token pair and its recorded expiry
  current,   \* external: the one pair the provider still accepts for refresh
  expiry,    \* external: when each issued access token really expires
  pc,        \* where each actor is
  creds,     \* the actor's copy of the credentials
  mode,      \* why it refreshes: "pre", "force" or "reject"
  attempt,   \* refreshWithRetry: attempts made
  wake,      \* when its setTimeout fires
  leader,    \* whose refresh promise it awaits
  lock,      \* refreshLocks: the actor that created the pending promise
  flight,    \* external: the refresh token an actor's exchange carries, 0 if none
  dedup      \* refreshDedupCache: result per spent refresh token

vars == <<now, stored, current, expiry, pc, creds, mode, attempt, wake, leader,
          lock, flight, dedup>>

Creds == [token : Token, expiresAt : Nat]
Result == [kind : {"tokens", "refused", "null"}, token : Token \cup {0}]
NoResult == [kind |-> "null", token |-> 0]
NoEntry == [result |-> NoResult, until |-> 0]

\* credentials.expiresAt is within the lead.
Due(c, lead) == c.expiresAt - now < lead

MutantCachedForever(token) == dedup[token].until > 0
\* A refreshDedupCache hit that is still young.
RecentlySpent(token) == dedup[token].until > now
-----------------------------------------------------------------------------
(* Delivering a result to the actors that await it. *)

\* toExpiresAt(expires_in), computed when the result is used.
NewCreds(result) == [token |-> result.token, expiresAt |-> now + Lifetime]

\* newCreds?.accessToken: a refusal is an object without one.
HasTokens(result) == result.kind = "tokens"

\* refreshWithRetry sleeps and tries again only after a null result.
RetriesLater(a, m, result) ==
  m = "reject" /\ result.kind = "null" /\ attempt'[a] < MaxRetries

\* Where the actor continues: a pre-checked request calls the upstream with
\* what it has, the background tick and a rejected request are done.
After(a, m, result) ==
  IF m = "pre" THEN "calling"
  ELSE IF RetriesLater(a, m, result) THEN "sleeping"
  ELSE "idle"

\* The actors of S see the result: the tokens replace their copies c and are
\* written to the row (updateProviderCredentials).
Deliver(S, c, result) ==
  /\ pc' = [a \in Actor |-> IF a \in S THEN After(a, mode'[a], result) ELSE pc[a]]
  /\ wake' = [a \in Actor |-> IF a \in S /\ RetriesLater(a, mode'[a], result)
                              THEN now + attempt'[a] * RetryUnit ELSE wake[a]]
  /\ leader' = [a \in Actor |-> IF a \in S THEN Nobody ELSE leader[a]]
  /\ creds' = [a \in Actor |-> IF a \in S /\ HasTokens(result) THEN NewCreds(result)
                               ELSE c[a]]
  /\ stored' = IF HasTokens(result) THEN NewCreds(result) ELSE stored
-----------------------------------------------------------------------------
Init ==
  /\ now = 0
  /\ stored = [token |-> 1, expiresAt |-> Lifetime]
  /\ current = 1
  /\ expiry = [t \in Token |-> IF t = 1 THEN Lifetime ELSE 0]
  /\ pc = [a \in Actor |-> "idle"]
  /\ creds = [a \in Actor |-> stored]
  /\ mode = [a \in Actor |-> "pre"]
  /\ attempt = [a \in Actor |-> 0]
  /\ wake = [a \in Actor |-> 0]
  /\ leader = [a \in Actor |-> Nobody]
  /\ lock = Nobody
  /\ flight = [a \in Actor |-> 0]
  /\ dedup = [t \in Token |-> NoEntry]

\* A due timer fires before the clock moves on.
Tick ==
  /\ now < MaxTime
  /\ \A a \in Actor : pc[a] = "sleeping" => wake[a] > now
  /\ now' = now + 1
  /\ UNCHANGED <<stored, current, expiry, pc, creds, mode, attempt, wake, leader,
                 lock, flight, dedup>>

MutantNoLock == FALSE
\* withCredentialRefreshLock finds a pending promise.
Pending == lock # Nobody

\* refreshProviderCredentials with the copy c: await the pending promise, or
\* take a recent result for the same refresh token, or ask the provider.
Refresh(a, c) ==
  \/ /\ Pending
     /\ leader' = [leader EXCEPT ![a] = lock]
     /\ pc' = [pc EXCEPT ![a] = "waiting"]
     /\ creds' = [creds EXCEPT ![a] = c]
     /\ UNCHANGED <<stored, wake, lock, flight, dedup>>
  \/ /\ ~Pending /\ RecentlySpent(c.token)
     /\ Deliver({a}, [creds EXCEPT ![a] = c], dedup[c.token].result)
     /\ UNCHANGED <<lock, flight, dedup>>
  \/ /\ ~Pending /\ ~RecentlySpent(c.token)
     /\ lock' = a
     /\ leader' = [leader EXCEPT ![a] = a]
     /\ flight' = [flight EXCEPT ![a] = c.token]
     /\ dedup' = [dedup EXCEPT ![c.token] = NoEntry]
     /\ pc' = [pc EXCEPT ![a] = "waiting"]
     /\ creds' = [creds EXCEPT ![a] = c]
     /\ UNCHANGED <<stored, wake>>

\* A request reads the row with its account and pre-checks the expiry.
Begin(r) ==
  /\ pc[r] = "idle"
  /\ mode' = [mode EXCEPT ![r] = "pre"]
  /\ attempt' = [attempt EXCEPT ![r] = 0]
  /\ UNCHANGED <<now, current, expiry>>
  /\ IF Due(stored, Lead) THEN Refresh(r, stored)
     ELSE /\ pc' = [pc EXCEPT ![r] = "calling"]
          /\ creds' = [creds EXCEPT ![r] = stored]
          /\ UNCHANGED <<stored, wake, leader, lock, flight, dedup>>

\* The tick loads the connections that are due ...
BackgroundLoad ==
  /\ pc[Background] = "idle" /\ Due(stored, BgLead)
  /\ pc' = [pc EXCEPT ![Background] = "loaded"]
  /\ creds' = [creds EXCEPT ![Background] = stored]
  /\ UNCHANGED <<now, stored, current, expiry, mode, attempt, wake, leader, lock,
                 flight, dedup>>

\* ... and refreshes this one, after those before it, with the row it loaded.
BackgroundRefresh ==
  /\ pc[Background] = "loaded"
  /\ mode' = [mode EXCEPT ![Background] = "force"]
  /\ UNCHANGED <<now, current, expiry, attempt>>
  /\ Refresh(Background, creds[Background])

\* The upstream serves the request.
Accepted(r) ==
  /\ pc[r] = "calling"
  /\ pc' = [pc EXCEPT ![r] = "idle"]
  /\ UNCHANGED <<now, stored, current, expiry, creds, mode, attempt, wake, leader,
                 lock, flight, dedup>>

\* A pair the provider has replaced, or whose access token is out of date.
Stale(c) == c.token # current \/ now >= expiry[c.token]

\* The upstream answers 401 or 403: the first attempt of refreshWithRetry.
Rejected(r) ==
  /\ pc[r] = "calling"
  /\ Rejects = "any" \/ Stale(creds[r])
  /\ mode' = [mode EXCEPT ![r] = "reject"]
  /\ attempt' = [attempt EXCEPT ![r] = 1]
  /\ UNCHANGED <<now, current, expiry>>
  /\ Refresh(r, creds[r])

\* The retry timer fires; at the bound of the clock it fires early.
Retry(r) ==
  /\ pc[r] = "sleeping" /\ (wake[r] <= now \/ now = MaxTime)
  /\ attempt' = [attempt EXCEPT ![r] = @ + 1]
  /\ UNCHANGED <<now, current, expiry, mode>>
  /\ Refresh(r, creds[r])

MutantReleasedOnSuccess(a, result) == IF lock = a /\ HasTokens(result) THEN Nobody ELSE lock
\* The finally block deletes the promise.
Released(a, result) == IF lock = a THEN Nobody ELSE lock

\* The answer to a's exchange: the settled result is cached under the spent
\* token, the lock is released and every waiter resumes.
Settle(a, result) ==
  /\ UNCHANGED <<now, mode, attempt>>
  /\ Deliver({w \in Actor : leader[w] = a}, creds, result)
  /\ dedup' = [dedup EXCEPT ![flight[a]] = [result |-> result, until |-> now + TTL]]
  /\ lock' = Released(a, result)
  /\ flight' = [flight EXCEPT ![a] = 0]

\* The provider issues the next pair for the pair it still accepts.
Rotate ==
  /\ current < MaxToken
  /\ current' = current + 1
  /\ expiry' = [expiry EXCEPT ![current + 1] = now + Lifetime]

ExchangeSucceeds(a) ==
  /\ flight[a] = current
  /\ Rotate
  /\ Settle(a, [kind |-> "tokens", token |-> current + 1])

\* The pair was issued but its answer is lost: a network error, hence null.
ExchangeLost(a) ==
  /\ flight[a] = current
  /\ Rotate
  /\ Settle(a, NoResult)

\* A network or server error before anything was issued.
ExchangeFails(a) ==
  /\ flight[a] # 0
  /\ Settle(a, NoResult)
  /\ UNCHANGED <<current, expiry>>

\* invalid_grant: the refresh token was spent before.
ExchangeRefused(a) ==
  /\ flight[a] # 0 /\ flight[a] # current
  /\ Settle(a, [kind |-> "refused", token |-> 0])
  /\ UNCHANGED <<current, expiry>>

ExchangeEnds(a) ==
  \/ ExchangeSucceeds(a)
  \/ ExchangeLost(a)
  \/ ExchangeFails(a)
  \/ ExchangeRefused(a)

Next ==
  \/ Tick
  \/ \E r \in Request : Begin(r) \/ Accepted(r) \/ Rejected(r) \/ Retry(r)
  \/ BackgroundLoad
  \/ BackgroundRefresh
  \/ \E a \in Actor : ExchangeEnds(a)

Spec == Init /\ [][Next]_vars

\* Exchanges end (fetch has the runtime's own header and body timeouts), the
\* event loop runs continuations and timers, and time passes.
FairSpec ==
  /\ Spec
  /\ WF_vars(Tick)
  /\ \A a \in Actor : WF_vars(ExchangeEnds(a))
  /\ \A r \in Request : WF_vars(Retry(r))
-----------------------------------------------------------------------------
(* Properties. *)

\* Type correctness of the refresh state.
TypeOK ==
  /\ now \in Nat
  /\ stored \in Creds
  /\ current \in Token
  /\ expiry \in [Token -> Nat]
  /\ pc \in [Actor -> {"idle", "loaded", "waiting", "sleeping", "calling"}]
  /\ creds \in [Actor -> Creds]
  /\ mode \in [Actor -> {"pre", "force", "reject"}]
  /\ attempt \in [Actor -> 0..MaxRetries]
  /\ wake \in [Actor -> Nat]
  /\ leader \in [Actor -> Actor \cup {Nobody}]
  /\ lock \in Actor \cup {Nobody}
  /\ flight \in [Actor -> Token \cup {0}]
  /\ dedup \in [Token -> [result : Result, until : Nat]]

\* The connection's refresh endpoint is asked once at a time, whoever refreshes.
AtMostOneExchange == Cardinality({a \in Actor : flight[a] # 0}) <= 1

\* The row never goes back to an older token pair: a cached result delivered to
\* a late actor does not overwrite what a later refresh stored.
StoredNeverGoesBack == [][stored'.token >= stored.token]_vars

\* The recorded expiry overstates the real one by no more than the age a cached
\* result can have, so the lead still refreshes before the token dies.
ExpiryHonest == stored.expiresAt <= expiry[stored.token] + TTL

\* Whoever waits for a refresh or for a retry goes on.
RefreshEnds ==
  \A a \in Actor : pc[a] \in {"waiting", "sleeping"} ~> pc[a] \in {"idle", "calling"}
=============================================================================
