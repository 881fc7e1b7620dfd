# Verification of routewisp

routewisp is a local AI gateway: clients call it with one API, and it routes
each request to one of many provider accounts, translates the formats, retries
with other accounts and models, refreshes OAuth tokens, records usage, and
stores its state in SQLite.  It runs as one process (Bun, or Node.js).  Everything is
asynchronous on one event loop, so the unit of atomicity is the code between
two `await`s: two requests interleave at every `await`, and a value read before
one may be stale after it.  The models here take exactly that grain.

Paths below are relative to the repository (`src/sse/...` is
`src/src/sse/...` in `PROJECT.json`, where the repository's root is `src/`).

## Inventory

| Component | State it keeps | Operations | What makes it correct |
|---|---|---|---|
| Account selection and health: `src/sse/services/auth.js`, the account loop of `src/sse/handlers/chat.js` | `selectionMutex` (a promise chain); per-connection rows in the database: `modelLock_*` dates, `testStatus`, `backoffLevel`, `lastUsedAt`, `consecutiveUseCount` | select (fill-first, round-robin, pinned), mark unavailable, clear error, give up | selections do not overwrite each other; status and locks agree; a request never retries an account that failed it and is refused only for a reason |
| Error rules and cooldowns: `open-sse/services/accountFallback.js`, `open-sse/config/errorConfig.js` | none | classify an error, compute a cooldown, test a lock | cooldowns are bounded, except for Antigravity; a lock is active exactly until its date |
| Connections repository: `src/lib/db/repos/connectionsRepo.js` | the `providerConnections` table | create or merge, update, delete, reorder, clean up | two accounts never share a row; a deleted row stays deleted; only the user changes the order |
| Antigravity quota breaker: `src/sse/services/antigravityQuota.js` | `quotaCache`, `lastRefreshAt`, `inflightRefresh`, `strikes` | refresh the live quota, register a strike, block, clear | a block needs three strikes in a window, survives a refresh, and ends |
| Token refresh: `src/sse/services/tokenRefresh.js`, `backgroundTokenRefresh.js`, `open-sse/services/oauthCredentialManager.js`, `tokenRefresh/dedup.js`, the 401 path of `open-sse/handlers/chatCore.js` | per-connection lock map, dedup cache keyed by refresh token, the stored tokens | on-request refresh, 401 refresh, background tick | a single-use refresh token is spent once; the newest tokens are the ones stored |
| Combos: `open-sse/services/combo.js`, `capacityAdapter.js` | `comboRotationState` | rotate with sticky limit, fall back over models, fusion panel with judge | every model gets its turn; a combo fails only after all its models did; a panel always ends |
| Chat core and streaming: `open-sse/handlers/chatCore.js`, `chatCore/*.js`, `open-sse/utils/stream*.js` | controllers, pending counters, per-stream accumulators | start, stream, complete, abort, disconnect | every started request is ended once; a client that leaves stops the upstream |
| Usage tracking: `src/lib/db/repos/usageRepo.js` | in-memory pending counters and timers, `recentRing`, history and daily tables | start and end of a pending request, save usage, stats | counters return to zero; history and daily totals agree |
| Request details: `src/lib/db/repos/requestDetailsRepo.js` | `writeBuffer`, flush timer, `isFlushing` | buffer, flush in batches, prune | a record is written once and a flush is always scheduled |
| Database boot and persistence: `src/lib/db/driver.js`, `migrate.js`, `backup.js`, `adapters/*` | adapter singleton, `_meta`, files on disk | open, migrate schema, import legacy JSON, back up, debounced save (sql.js) | a crash at any point loses nothing a retry cannot redo |
| Project ids: `open-sse/services/projectId.js` | cache with TTL, pending fetches, cleanup timer | get, invalidate, remove, sweep | requests share a fetch, and none waits for one that is over |
| Proxy pools: `src/lib/network/connectionProxy.js` | round-robin counters | pick a pool | each pool in turn |
| Fetching: `open-sse/utils/proxyFetch.js` | dispatchers, a DNS cache | fetch through a proxy, past the system's DNS, or as usual, one after the other fails | a call is sent as often as its ways allow; some ways listen to no abort |
| Executors: `open-sse/executors/*`; the loop is `base.js` | none between requests; `kiro.js` reads a whole turn in private | build, send, retry with fallback URLs; judge a turn and ask once more | requests are bounded; what is passed on is whole; the turn ends, if a request that listens to no timeout does |
| Response translators: `open-sse/translator/index.js`, `translator/response/*`, driven by `open-sse/utils/stream.js` | one state object per stream, shared by both halves of a pivot | translate an event, flush | one well-formed message; nothing lost; the end is told; each with exceptions, by name |
| Settings, aliases, combos, keys, pricing, nodes repositories | small tables and short caches | read, replace | last writer wins |
| OAuth logins: `src/lib/oauth/*`, `src/app/api/oauth/*` | short-lived local servers and sessions | start, callback, poll | one login per callback |
| Server, admin API and CLI: `server.js`, `src/app/api/*`, `bin/routewisp.mjs` | rate buckets | start, stop, rate limit, edit the tables | an edit takes effect on requests in flight only through the database |
| Request translators, filters, provider registries, media/search/fetch handlers | none, or a copy of the account loop | conversions, calls | |

How they interact: a client request enters `chat.js`, which resolves a combo
(`combo.js` calls back into `handleSingleModelChat` once per model), asks
`auth.js` for an account under the mutex, refreshes its token
(`tokenRefresh.js`, which writes the connection row), and hands the request to
`chatCore.js`.  That one reports success through `onRequestSuccess`
(`clearAccountError`, `clearAntigravityStrikes`) and failure through its
result (`markAccountUnavailable`, `handleAntigravityQuotaError`), counts the
request in `usageRepo.js`, and stores details through `requestDetailsRepo.js`.
All persistent state goes through the adapter of `driver.js`; each repository
call is one synchronous transaction, and nothing spans two of them.

The hard behaviours: interleaved requests working from rows read before an
upstream call; refresh tokens that may be used once; timers that race with
completions, and aborts that some requests do not hear; counters shared by requests
of the same key; crashes between the steps of a migration or before a delayed save.  `PROJECT.json` lists each as a
hazard at its line.

## How the project is built

Each component is one module, written from its source: the state as
`VARIABLES`, one action per stretch of code between two `await`s, the guards in
the order of the code's conditions and early returns.  `PROJECT.json` (`map`)
names the lines each definition stands for.  `MC<Module>.tla` gives the model
values of a TLC run and `<Run>.cfg` its constants.  Proofs are in modules of their
own, `<Module>Proofs.tla` or one for two components of a kind: `SharedStateProofs`
(`ProjectIds` and `Combos`, state shared in memory), `StorageProofs` (`DbBoot`,
`Connections` and `StreamLifecycle`, the components of `src/lib/db`) and `ProviderProofs` (`AntigravityQuota` and
`KiroTurn`, one provider each).  There several specifications meet in one module, which
is why those of `ProjectIds`, `Connections`, `StreamLifecycle` and `AntigravityQuota` are
called `ProjectSpec`, `ConnectionsSpec`, `StreamsSpec` and `QuotaSpec`.

Next to a definition there may be one called `Mutant...`: a plausible bug in
the same lines (a dropped guard, a missing reset, an off-by-one).  No action
uses it; put in place of its neighbour it makes the property listed
with it in `PROJECT.json` (`mutants`) fail, which shows that the property
depends on that code.

Two runs end in a violation: they state what a comment and a test of the repository say,
and TLC shows how the code departs from it (`findings` in `PROJECT.json`).  Where a
model finds the code to differ from what one would expect and no such run is made of it,
the section of its module says so under *Seen*.

To repeat a run: `tlc -workers 2 -config Streams.cfg MCStreamLifecycle`; a
proof: `tlapm AccountPoolProofs.tla`.

| Module | Models | Runs | Proofs |
|---|---|---|---|
| `AccountPool` | selection, fallback loop, locks, health | `account_locks`, `account_rotation`, `account_monthly` | `AccountPoolProofs` |
| `TokenRefresh` | refresh of one connection's OAuth tokens | `token_sharing` | `TokenRefreshProofs` |
| `AntigravityQuota` | quota cache and strike breaker | `quota_breaker` | `ProviderProofs` |
| `Combos` | fallback, round robin, fusion | `combos` | `SharedStateProofs` |
| `RequestDetails`, extended by `StreamLifecycle` | streams, pending counters, usage, request records | `streams` | `StorageProofs` |
| `DbBoot` | start of the store, migrations, import, backups | `db_boot` | `StorageProofs` |
| `Connections` | stored connections of a provider | `connections` | `StorageProofs` |
| `ProjectIds` | Google project id of a connection | `project_ids` | `SharedStateProofs` |
| `UpstreamCall`, extended by `KiroTurn` | an executor's call; a Kiro turn of one or two calls | `kiro_turn` | `ProviderProofs` |
| `TranslatorState`, `ProviderToHub`, `HubToClient`, composed by `Translation`, which implements `ClientStream` | a streamed answer from seven upstream formats to four client formats | `translation` | |

`StreamLifecycle` and `RequestDetails` are composed: the streaming handlers
save records through `SaveRequestDetail`, so one step may move a stream, a
counter and the write buffer.  `KiroTurn` makes its two calls with the actions of
`UpstreamCall`.  `Translation` drives both halves of a pivot on their shared state.
`ClientStream` is the abstract specification of a client's stream, and the run
`translation` checks that `Translation` implements it.  The others meet only through the outcome of a
call: what a model answers to `Combos` is what `AccountPool` gives up with, and
an upstream call in `AccountPool` is a stream in `StreamLifecycle`; each of
these modules lets its neighbour do anything, which is sound for safety.

**Aborts that are not heard.**  `proxyFetch.js:102-109` names hosts whose requests may go
past the system's DNS (Antigravity, Copilot, CodeWhisperer, Cursor among them).
`createBypassRequest` (lines 238-292) takes no notice of the signal it is given and sets
no timeout, and the body it returns is not linked to the signal either.  A connect timer,
the stall watchdog, the sweep of `projectId.js` and a client that leaves end every other
request, and not these.  No model assumes fairness of such a request:
`AccountPool` assumes nothing of any upstream call, `UpstreamCall` and
`StreamLifecycle` have the hosts as a constant (`Bypassed`), and in `ProjectIds`, whose
hosts are all of this kind, an abort may or may not be heard and no liveness is claimed.
In all runs time is a bounded counter, and actors act in any order at one
instant: only comparisons of dates matter to the code.

## AccountPool

**State.**  `db[c]` is the row of connection `c` reduced to what the selection
and the health logic read: the `modelLock_*` keys and dates, `testStatus`,
`backoffLevel`, `lastUsedAt`, `consecutiveUseCount`.  `queue` is the promise
chain `selectionMutex`; its head holds the mutex.  A request slot carries the
locals of `handleSingleModelChat`: `excluded`, the rows read (`list`), the row
kept in the credentials (`snapshot`), the failure being recorded.

**Actions.**  `Arrive` enters the chain; `SelectRead` is the first half of
`getProviderCredentials` (read and filter), `SelectFinish` the second (pinned, fill-first
or round robin, the write of the rotation fields, the release).  When nothing is
available, the code reads the clock twice more, in the search for locked connections and in
the search for the earliest date (`auth.js:87`, `112`, `getEarliestModelLockUntil`):
`FindLocked` and `GiveUp` are these two, with the clock, and nothing else of the process,
between them (`EventLoopFree`).  `UpstreamSucceeds` is `clearAccountError` on the
row *as it was read before the call*, merged into the row as it is now.
`UpstreamFails` and `MarkUnavailable` are the read and the write of
`markAccountUnavailable`, with other requests between them.  `TestConnection`
and `ClearCooldownRead`/`Write` are the admin routes that patch health.

**Abstractions.**  A connection is its priority.  `lastError` is set exactly
when the status is not active; the statuses "unknown" and undefined count as
active.  The virtual connection of providers without authentication, the 404 of
a provider with none, activation and deletion of connections, and the
Antigravity filter (it is `AntigravityQuota`) are left out.  Classification of errors is reduced to the
five verdicts it yields (request's fault, fixed, backoff, precise reset,
monthly).  `ClearCooldown`'s parallel row updates are one write.  A refresh of
credentials does not touch health, so it has no action here.

**Runs.**
`account_locks` (2.9 million states): one account, one model and the account-wide key, two
requests, backoff, resets reported by the provider and the monthly limit, the admin
routes; the smallest pool where two health writers work from stale rows.  Reported resets
reach beyond the cap, and are past when they are recorded if the clock moved meanwhile.
`TypeOK`, `HealthConsistent`, `GiveUpJustified`, `LocksBounded`, `RetryAfterAhead`.
`LocksBounded` needs the constants ordered as in
`errorConfig.js`: no cooldown above `RateLimitCap` (`CooldownsWithinCap`).  It claims no
cap for Antigravity, whose reported resets the code takes as they are
(`auth.js:256-259`, constant `Antigravity`).
`account_rotation` (646 thousand states): two accounts, sticky limit two, one account
also pinned, two requests: `RotationFresh`, `NeverRetriesFailedAccount`, and
under fairness `SelectionEnds`.
Fairness: every step a started request takes by itself (`WF(LocalStep)`), since the event
loop runs every continuation.  Nothing is assumed of upstream calls: `SelectionEnds` says
that who waits for an account, or has a failure to record, calls an upstream or is
answered, whatever becomes of the calls of others.  Arrivals, the clock and the operator
are free.
`account_monthly` (violation of `WholeAccountLocked`): an expired lock of the model hides
the running account-wide lock, because `||` prefers the first date that is set.

**Seen and not a property.**  The comment at `auth.js:293` says the error state is
reset "only if no active locks remain"; the decision is taken on the row read
before the call, and `resetHealthStateOnActivation` then wipes the locks of the
row as it is: a success loses the lock another model's failure set meanwhile.
A lock that runs out between the filter and the search for a date leaves no date to
tell: the request is refused with 404 or with the last error and "No more accounts",
although no account it could use has failed it; `GiveUpJustified` names this case.
A pinned request neither rotates nor counts for the sticky budget.

**Proved** for every number of connections, models and requests, from the
assumption on the constants (`ConstantsAssumption`), and `LocksBounded` from
`CooldownsWithinCap` too: see below.

## TokenRefresh

**State.**  A token pair is its generation.  `stored` is the row; `creds[a]`
the copy an actor (a request or the background tick) works with; `lock` the
pending promise of `refreshLocks` and `leader` whose promise an actor awaits;
`dedup` the result cache keyed by the refresh token that was spent.  The
provider is external: `current` is the one refresh token it accepts, `expiry`
the truth about the access tokens.

**Actions.**  `Begin` is the pre-check `checkAndRefreshToken`, `Rejected` the
401/403 path with `refreshWithRetry` (`Retry` when its timer fires),
`BackgroundLoad` and `BackgroundRefresh` the tick that loads all due rows and
sleeps between them.  `ExchangeSucceeds`, `ExchangeLost`, `ExchangeFails` and
`ExchangeRefused` end the exchange; all waiters continue in the same burst of
microtasks up to their next call, row write included, so that is one step.

**Runs.**  `token_sharing` (101 thousand states): two requests and the tick,
tokens that live 7, cache of 4, clock to 12, so that a pair can expire and be
replaced twice and a cached result can outlive its use; the provider rejects
stale tokens only.  `AtMostOneExchange`, `StoredNeverGoesBack`, `ExpiryHonest` (an expiry is
overstated by the age of a cached result, and no more), and `RefreshEnds` under fairness of the
clock, of exchanges (the runtime's own timeouts) and of retry timers.

**Seen and not a property.**  With `Rejects = "any"` `StoredNeverGoesBack` fails: if
the provider answers 403 to a *valid* token, a caller that still holds pair n gets
the cached pair n+1 and stores it over n+2, a spent one over a good one.
`dedup.js:24` caches a failed result too, so the
attempts of `refreshWithRetry` after 1 s and 3 s are answered from the cache and
the provider is asked once.  If the answer of an exchange is
lost, the stored token is spent and only a new login helps.

**Left out.**  The second step of Copilot tokens, executors that refresh without
the lock (their providers do not rotate), project ids, a login that overwrites
the row, a death between rotation and write.

## AntigravityQuota

One account: `cache` (a reading per model), `strikes`, `blocks`, `lastRefresh`
(throttle), `inflight` (the shared refresh).  `Begin` and `TurnedAway` are the
filter in `auth.js`; `Succeeds` is `clearAntigravityStrikes`; a 409 or 429 joins
a refresh, is throttled, or starts one (`JoinsRefresh`, `Throttled`,
`StartsRefresh`), `QuotaArrives` and `QuotaFails` end it, re-assert running
blocks and resume the first waiter, `Resume` the others.  `reported` and
`errors` are history variables: the last reading of the upstream, the times of
the errors since the last success.

`quota_breaker` (189 thousand states; two requests, one model, strike window 3,
threshold 3, block 4, throttle 2, clock to 9, so that a block begins, outlasts a
throttled refresh and ends, and a window expires): `SkippedForAReason`,
`BlockSurvivesRefresh`, `BlockIsEarned`.
Seen: the synthesized 0% entry stays cached after its block; while quota calls
fail, errors read it as an exhausted quota and reset the strikes, against the
comment at `antigravityQuota.js:145` ("count every 429 whose quota reading is either
optimistic or unavailable").  `applyActiveStrikeBlocks` overwrites a real 0% reading, which a later
success then deletes, though the comment at line 54 says such a reading stays.

## Combos

`rotation` is the entry of `comboRotationState`; a request has the list it works
through (`order`, `pos`), the earliest retry date, or its panel (`out`, timers
`wake` and `lapse`, `answers`).  `StartFallback` and `StartRoundRobin` build the
list (capacity adapter, reordering by capability, rotation with its sticky
limit); `ModelDecides`/`ModelFails` are one turn of the loop of
`handleComboChat`; `StartFusion`, `PanelSettles`, `StragglerLands`, `GraceEnds`,
`PanelTimesOut`, `ReadResult` and `FinalAnswer` are the fusion panel, where a
straggler may land between two steps of the reader.

`combos` (39 thousand states): three models and one adapter model, sticky limit
two, panel of three with two needed, grace 1, timeout 3.  One request slot is
enough: requests share only the rotation, which moves in one synchronous step,
and slots are reused in sequence.  `TurnsAreFair`, `ExhaustionIsHonest`,
`AnswersReachJudge`; `PanelEnds` with fairness of the clock
and of the combo's own continuations only: a model may never answer.
`TurnsAreFair` is claimed until a request with media and an augmented list has
moved the shared index (`mixed`): after that a member can lose its turn for good,
since the index is taken modulo lists of different lengths.
Seen: the wait before the next model applies only to cooldowns of at most 5 s,
while the default for 502/503/504 is 30 s; only "overloaded" and "capacity" texts
wait.  Left out: bodies and prompts, combos that name combos.

## StreamLifecycle and RequestDetails

`phase[r]` follows one call of `handleChatCore` to its end: translated or not,
answered with an error, whole, or streamed; a stream ends because the upstream
ends (`UpstreamEnds`, the transform's `flush()`), breaks, stalls (`StallFires`,
then `AbortSeen`) or because the client leaves (`ClientCancels`).  `StallFires` only
aborts a signal.  Until the reader sees it, which the reader of a body from past the
system's DNS (`Bypassed`) never needs to, the stream may still end or send: an end then
runs `flush()`, a chunk closes the client's stream.  `byModel`,
`byAccount` and `pendingTimer` are the counters of `usageRepo.js` and their 60 s
timer, which all requests of an account share.  `usage[r]` counts how often usage
was saved, `finalized` is the flag of `finalizeStream`.  `silent` and `slipped`
are history: requests aborted without a report, and whether a report was made
twice, without a start, or wiped by the timer.  `saving`, `writeBuffer`, `flushTimer`
and `batches` are those of `requestDetailsRepo.js`; two writes can overlap
in no behaviour, but the model would allow it if the code did (`batches` is a
sequence).

`streams` (385 thousand states): two requests on either of two accounts, the provider of
one of which is bypassed, one model, a buffer of two.  Timers are untimed: they may fire
whenever armed, which covers every duration.  Chunks that only re-arm the
watchdog are left out, and so is the pruning of the table.  The save of a record is two
steps, since the settings are awaited before it is pushed (`requestDetailsRepo.js:144`).
`NeverOverstated`, `CountIsExact` (until `slipped`) and `AccountedOnce`; under fairness of
the process's timers and transactions, and of aborts that are heard, but not of client and
upstream, `BufferDrains` and `StreamEnds` (a stalled stream ends, or is one that hears no
abort).  Deadlock is allowed: two requests come and go.

Seen: a client that leaves after `flush()` but before reading the end makes the
counter go down twice; so does a stream that was given up and then ends; an
untranslatable request reports an end without a start (`chatCore.js:193`); since the timer is shared, a request aborted without a
report leaks one count for good once another request of the account ends;
records pushed while a failing batch is written wait for the next record, against
the comment at `requestDetailsRepo.js:150`; on SIGTERM the batch taken out of the
buffer is lost, since another handler exits first; the record of a stream that
was cancelled keeps saying it is in progress.  A zero-token answer saves no
usage; answers have tokens here.

## DbBoot

`disk` and `mem` are the database file and the image the process sees, reduced to
the two version stamps, how often each migration ran and how often the JSON files
were imported.  A native driver makes each statement durable; sql.js saves 100 ms
later (`Save`), losing the rest at a `Crash` and the whole file at a `TornSave`,
where `writeFileSync` has truncated it.  `Boot` to `Mark` are the steps of
`initAdapter` and `runMigrationOnce`; a crash is possible between any two.
`WipeDb` and `MendLegacy` are what an operator may do while the process is down.

`db_boot` (121 thousand states; two migrations, although this commit has one, so
that an upgrade can be cut in the middle; two backups kept; five starts with
either driver): `AppliedExactlyOnce`, `ImportedAtMostOnce`, `MarkerMeansSaved`,
`PristineBackupKept` (of a native driver).  Deadlock is allowed: starts are bounded.

Seen: `migrate.js:17-18` promises that the next boot retries an aborted import;
freshness is the absence of `_meta` rows, and those are stamped before the import,
so no later boot is fresh and the JSON files are never imported.  A file without stamps
but with data counts as fresh and gets no backup;
under sql.js a backup holds no tables, since `ATTACH` (`backup.js:44`) opens a file of its
in-memory file system, which is never written (`Attached`);
backups after a crash loop are of a half-upgraded file and push the pristine one
out; under sql.js a death within 100 ms of an import leaves the marker without
the data; a rejected `initPromise` stays cached until the process restarts.
Left out: loss of power with a WAL in NORMAL mode, downgrades.

## Connections

`rows` is the table of one provider, whose rules for merging a login depend on
whether it is Codex (`codex`, chosen at the start).  A row keeps what identifies it
(`auth`, `email`, `name`, and `psd`, the user and workspace in its provider data), its
`priority`, and as a ghost the accounts whose tokens it has held.  `recency` orders
the rows by `updatedAt`, which breaks ties when `reorderInTx` renumbers.  `Login`,
`ImportToken` and `AddKey` are the callers of `createProviderConnection`, `Delete` the
DELETE route.  PUT and the token refresh read a row in one step and write in another
(`BeginPut`/`FinishPut`, `BeginRefresh`/`FinishRefresh`), with anything in between.

`connections` (198 thousand states): three accounts that share an email and are told
apart by user or by workspace, one key name, one request that holds a row, three rows
ever created, which is what two rows and one added between a read and a write take.
`AccountsStaySeparate` (Codex logins whose token names no workspace never match a row,
so one account can have several of those), `DeletedStaysDeleted`, `OrderKept`.
Nothing is said of fairness.

Seen: POST passes `priority || 1`, and a key saved again under its name takes priority 1
beside the row that has it; the next renumbering gives the first place to whichever
was updated last, so `OrderKept` claims nothing from there: it speaks of rows with
distinct priorities.  A PUT of priority p+1
changes nothing, because of the same tie-break.  A new login replaces the provider data
and with it the proxy setting of the row.  PUT and a refresh write back the whole
provider data they read, undoing what was saved in between; a refresh that ends after
a new login overwrites its tokens.  `deleteProviderConnectionsByProvider` has no caller.

## UpstreamCall and KiroTurn

`UpstreamCall` is one run of the loop in `BaseExecutor.execute`: `call` holds the URL in
turn, the retries used on it, the request the current fetch is at, its connect timer, and
the result; `signal` whether the client is there, and how it left; `sent` counts requests.
A fetch (`proxyAwareFetch`) is a list of ways to send one (`Hops`), each tried when the one
before fails: through the proxy, past the system's DNS if the host is one of those, through
the proxy again, as usual.  A way past the DNS is *deaf*: it is taken even when the signal
is aborted, and nothing but its own failure ends it; the others are not sent then, and are
cut off.  `Respond` is an answer with any status, `NetworkError` a way that fails,
`ConnectTimeout` the timer, which aborts the signal and nothing else, `Cut` the end of a
request that listens to it, `FetchFails` what `execute` makes of a fetch that rejects, and
`WaitOver` the end of a retry pause.  Left out: a Vercel relay, which replaces all ways by one
plain request, and strict proxying, which no executor asks for.

`KiroTurn` puts a Kiro turn on top.  `Read` feeds one event to `processEvent`; the
stream then ends cleanly (`Finish`), with an error frame, too large, cut or stalled;
`Judge` is `finish`, `readIntegrityAttempt` and `runIntegrityRecovery` in one, since
nothing is awaited between them: it passes the answer on, reports an error, or starts the second call, which
is `UpstreamCall` again.  Text is reduced to what the gate asks of it (nothing, an
ellipsis, an announcement, more), a tool call to whether its arguments are usable,
stop reasons to one for each disposition; `declared` is the ghost set of those seen.

`kiro_turn` (579 thousand states): three URLs as Kiro has, two of them bypassed, with a
proxy, in-place retries for one
status two and for another one, in place of the code's three and two, so that a counter
is shared by two limits, fallback on 401 and 429, two
tool calls, four events per stream, enough for text, two calls and a stop reason, or
three reasons in any order.  `CallsBounded` (in requests, each way counted:
`MostFetches`), `AnswerIsHonest`, `UsableIsTold`; `TurnEnds`
under fairness of the connect and stall timers, of cuts that are heard, of the retry
pauses and the executor's own continuations.  Neither the provider nor the client owes a
step, so `TurnEnds` has one exception: a deaf request that hangs for ever.

Seen: of two equally severe reasons the first counts, so a turn whose context ran out
and which was then cancelled is passed on as "length", although `kiro.js:153-156` says
cancelled turns stay private (`AnswerIsHonest` therefore claims nothing of cancelled turns,
and of a malformed one or one of an unknown end only if its context did not run out); a turn of tool calls only that hits max_tokens is an
error, since tool calls are written out at the end and no output is on record by then.
The cancel reason is a string, so a `fetch` of the second call aborted by it counts as
a network error and goes through the retries (which send nothing, except on a deaf way).
A connect timeout of a bypassed host has no effect until the request ends by itself.  The comment before
`execute` in `kiro.js` says a 5xx answer leads to the next host; after its retries it
is returned.  Pauses are not cut short by an abort.

Left out: event frames and their checksums, usage, the executors' hooks that choose a
delay, the wording of the second request.

## ProjectIds

The cache entry (`cache`), the pending fetch (`pending`, `overdue`) and every fetch
started, named by the request that started it.  `Ask` is `getProjectIdForConnection`;
`Load` the first call; `Onboard`, `OnboardFails`, `OnboardCut` and `PauseOver` the
onboarding loop; `Settle` the `finally` that deletes the entry of the connection *whosever
it is by then*.  `Invalidate` comes from a token refresh, `Sweep` from the timer.  An abort,
of a timer or of the sweep, may end the request that is under way, or not be heard, in
which case the request may still answer and its id be cached.  Connections do not touch each
other's entries, so there is one.

`project_ids` (violation of `FetchesDeduplicated`): `projectId.js:95` says "Deduplicate
concurrent fetches for the same connection".  A fetch that the sweep has given up deletes,
when it settles, the entry of the fetch that replaced it, and the next request starts a
third beside that one.  Four requests and two attempts are allowed; the trace needs three
requests.

No liveness is claimed.  A fetch may never end: its hosts are bypassed, `loadCodeAssist` has
no timer, and `onboardUser` clears its timer before it reads the body
(`projectId.js:227`).  What is guaranteed is a theorem, `WaitersHaveAFetch`: whoever waits,
waits for a fetch that is in flight and will answer it if it settles.

Seen: a failed lookup is not cached, so every request onboards anew; pauses ignore an
abort; an id that was fetched with the old token is cached although it was invalidated
while the fetch ran.  `removeConnection` has no caller.

## Translation

The provider is the environment.  `ProviderToHub` has one operator per translator into
the Chat format, `HubToClient` one per translator out of it, both over the one `state`
object that `initState` makes (`TranslatorState`) and that both halves of a pivot
write: a field one half sets for itself is read by the other.  `Receive` gives one
event of a protocol to `translateResponse`, `Flush` is the call with `null` when the
stream ends, whole or cut off, and `Deliver` lets the client read one event.  Fragments
are numbered; `said` is the set of what the provider said, `items` what the client
made of it.

A provider says reasoning apart or as text between tags, which may stand in one chunk with
calls and a finish (`CompatibleChunks`); it may put reasoning in a field of its own
(`aside`).  Calls of Ollama may have an index or none.  Reasons are classes (stop, length,
tool_calls, content_filter, other), converted by each format's table (`ToOpenAIFinish`,
`FromOpenAIFinish`, `ReasonMap`).

`ClientStream` says what a client may be sent: begin once, items that appear once, grow
while they are open and close once, one end, nothing after it.  `WellFormed` is that
specification with the client's format put for `format`: the refinement maps the
client's view to it, and every other step stutters.
`NothingLost` compares `said` and `items`; `EndIsTold` the end and its reason.

The translators get some streams wrong.  What happened to this stream is recorded by name
in `amiss`, at the event that does it and not at its effect:

- "returned": a Responses client is sent text after a call, or reasoning after its end.
  `closeMessage` and `closeReasoning` end the one item of the kind, and nothing opens a second: the
  later fragments are deltas of an item that is done and are in no done event
  (`openai-responses.js:202`), though
  `tests/unit/openai-responses-empty-toolcalls.test.js:33` says "done must come after every
  delta".
- "hidden": a call stands in a chunk of tagged text, where `openai-responses.js:92-95`
  returns before it looks at calls.
- "merged": a later Ollama call has no index; it gets 0 (`ollama-to-openai.js:93`), the first
  one's.
- "unnamed": a stream towards a Responses client ends between a call's id and its name;
  the flush closes a call it never opened.

`WellFormed` claims nothing of a stream from such a mark on, `NothingLost` nothing of the calls
of a "merged" or "hidden" one, nor of reasoning put aside towards Antigravity, whose
translator reads `reasoning_content` only (`openai-to-antigravity.js:31`).
`EndIsTold` has no such exception; it names the reasons that come through (`Understood` by
the provider's table, `Sayable` by the client's); any other reason is told as an ordinary
end.

`translation` (1.4 million states): all 25 pairs of unequal formats, four fragments and
two tool calls, so that two calls interleave with text on either side.  Deadlock is
allowed: a stream ends.  Nothing is said of fairness, since a provider may stop.

Seen, besides: arguments that come between a call's id and
its name are in no delta, but in its done event.  A finish in a chunk of tagged text is skipped,
and told at the flush.  A Claude client is told `end_turn` for a
filtered turn, an Antigravity client STOP for one that calls tools; a Claude provider's
refusal or pause is told as a plain stop; an Ollama turn cut at its length that has called a
tool is told as tool_calls; `response.incomplete` makes no chunk, and the flush then tells
a plain stop or tool_calls; a Responses client is told "completed" whatever happened.  At a
flush, only Responses upstreams and Chat streams towards Responses clients do anything: to
the other clients a stream that was cut off does not end.  A Claude client sees an empty
name if id and name come apart.

Left out: usage, custom tools, images, signatures, argument sanitizing; Cursor, whose
executor emits Chat chunks; pairs of equal formats, which are passed through; several calls in one Ollama
message or Chat chunk.

## What is proved

Every safety invariant and action property of the passing runs is a theorem of its
specification, for every value of the constants, except the ones at the end of this
section.  The pattern is the same everywhere: an inductive invariant that was first
checked by TLC on the run, one lemma per action that can disturb it, a temporal last
step.  A theorem rests on the module's assumption on its constants; three need one
more hypothesis, which is stated in the theorem, is true of the constants of the run,
and is said below with its reason in the code.

`AccountPoolProofs` (TLAPS) shows for every instance:

- `TypeCorrect` and `SelectionMutex` from the inductive invariant `TypeInv`:
  the types, that a request calling the upstream has chosen a connection, and
  that whoever is selecting is the head of the chain.  The parts need each
  other: the type of a row after a failure depends on a connection being chosen,
  and the chain loses its head only through it.
- `RotationIsFresh`: with the mutex, the only action that changes rotation fields
  is `SelectFinish` of the head, and nobody else is selecting then; every other
  write of a row keeps those fields (`HealthWritesKeepRotation`), stale or not.
- `HealthIsConsistent`: every patch keeps "active implies no locks and no
  backoff" (`PatchesKeepHealth`), because an activation clears the locks of the
  row it is merged into and not of the row it was computed from.  The same rule
  loses locks of other models.
- `FailedAccountsStayExcluded`, `GivingUpIsJustified` from `FallbackInv`: the
  candidates never meet the excluded accounts, only an answered slot holds an answer, and
  a request that found nothing available has excluded every account of its list or seen it
  locked, though the lock may have run out since.
- `RetryAfterIsAhead`: a locked row has an active lock, hence an earliest one, and
  it is later than now.  Least elements of sets of naturals come from
  well-foundedness.
- `LocksEnd` (`LocksBounded`) from `LockInv`: a failure on its way to be recorded
  carries a level and a reset that are within bounds (`MarkInv`), so the mark it makes
  is.  Marks are merged into rows that others have changed meanwhile, but each lock is
  one field and only gets dates counted from the present.  The cap on model locks is claimed
  for providers other than Antigravity.  Hypothesis
  `CooldownsWithinCap`: `errorConfig.js` has 2 and 5 minutes against a cap of 30.

`StorageProofs` proves the type invariant and the four invariants of `db_boot`, for every number of
migrations, schema version, number of kept backups and of starts:

- `BootTypeCorrect`: types, with "a directory whose copy is under way exists".
- `MigrationsRunOnce`: `AppliedInv` says of the disk *and* of what the connection
  sees that the migrations applied are exactly those up to the stamp; the least
  pending version is then the next one.
- `ImportedOnce`: `OnceInv` adds that a file without stamps was never imported
  into, that a boot which found it so has imported nothing before the import, and
  that the schema stamp is already there when the import runs: that is what makes
  a second fresh boot on the same file impossible.
- `MarkerIsEarned`: `MarkerInv` adds that under a native driver disk and connection
  agree while the process runs, and that a boot about to write the marker has
  imported once.
- `PristineKept`, of a native driver: after *n* boots cut short the pristine copy is among the *n*
  newest directories (`StillKept`); a copy replaces only the half-made directory in
  front (`AtCopy`), and the import's own backup comes when the change is over
  (`ChangeOver`).

`TokenRefreshProofs`, for any number of requests and pairs, any lead, lifetime, cache
time and number of retries:

- `OneExchangeAtATime`, `ExpiryIsHonest` from `RefreshInv`: whoever has an exchange
  under way is the one whose promise is in the map (`Exclusive`), a cached pair is the
  one issued for its token and dated from its issue (`CacheExact`), and nobody holds a
  pair that was not issued or whose expiry is overstated by more than the age a cached
  result may have (`Issued`).
- `RowNeverGoesBack` needs the next fact about time, `SpentRipe`: a pair is spent only
  when it is *ripe*, that is replaced already or at least a cache time old.  So while
  a result is cached, its pair is the newest.  Hypothesis `LeadsLeaveRoom`: the
  provider rejects stale tokens only (otherwise the property is false, see above), and
  a cached result (10 s) is gone before its pair comes within the lead of its expiry;
  the leads of the registry leave hours.

`ProviderProofs`, for any models, requests, window, threshold and times:

- `BlocksHold`: a running block shows in the cache (`BlockShown`).  A refresh replaces
  the cache, so this rests on `applyActiveStrikeBlocks` being in the same step.
- `SkipsAreJustified`: the property is inductive with `BlockShown`.
- `BlocksAreEarned` from `StrikesAreErrors`: the strikes counted are the latest errors,
  and the window starts at the first of them, which is the one `count` places from
  the end of a list that forgets its oldest entry.

`SharedStateProofs`, for any set of requests, and any number of models, any sticky
limit, panel size and times:

- `WaitersHaveAFetch`: who waits does so for a fetch that runs (`NobodyForgotten`): nobody
  starves for lack of a fetch, whatever deletes whose entry and whether aborts are heard.
  That fetches are shared is not true, as the run `project_ids` shows.
- `RoundRobinIsFair` from `TurnsInv`: the turns every model has had are a function of
  the rotation's index and uses (`Stands`); "nobody is ahead by more than the limit" is
  not inductive, since it does not say whose turn is next.
- `AnswersAreJudged` from `PanelInv`: while results are read, what was usable at the
  close still is, and what lies before the reader's position is among the answers,
  even when a straggler lands between two steps.
- `GivingUpIsHonest` (`ExhaustionIsHonest`) from `ListInv`: a fallback stands on a place
  of a list that covers the combo, and the date kept is the least reported.  That no
  list loses a member is proved of each operator it is made with (`AugmentedCovers`,
  `RotateCovers`, `ReorderedCovers`).  `Combos` filters by rank (`Kept`) and not with
  `SelectSeq`, whose definition the provers cannot unfold; that a rank takes every
  place once is counting (`KeptFacts`).

`ProviderProofs`, for any number of URLs, any table of retries, any tools and streams
of any length (the assumption on the constants says that the table has a largest entry):

- `RequestsAreBounded` from `CallPaid`: what was sent is paid for by the URLs left
  behind, each with one fetch and all retries, the retries used on this one, and the ways
  its fetch has tried; no fetch has more than `MostHops`.
- `AnswersAreHonest` from `WorstOf` (the kept reason is one that was declared, and none
  declared was more severe) and `AnswerOfTurn` (what is told is the turn that was judged
  complete).
- `GoodTurnsAreTold`, an action property, from `WorstOf` and the order of the tests in
  `finish`.

`StorageProofs`, for any requests and accounts, whatever the record buffer does:

- `CountersNeverOverstate`, `CountersAreExact`, `UsageSavedOnce` from `StreamInv`: the
  counts of every account and in total, with the requests that can count being finitely
  many (`Countable`), and the flag of `finalizeStream` deciding whether usage was saved
  (`FinalOnce`).  An end lowers one account's counter, so the total follows account by
  account.

`StorageProofs`, for any accounts, key names, overlapping requests and rows:

- `DeletedStaysGone`: ids are given in order and never again (`RowIds`), and both late
  writes test that the row is there.
- `AccountsAreSeparate` from `RowsInv`: a login row shows the one account whose tokens
  it holds (`LoginsShow`), an account that says who it is has one row (`OneRowEach`),
  and what a request read before it waited still says so (`StillTrue`), as a row is never
  given to somebody else.  Hypothesis `EmailsTellPeopleApart`: within a workspace an
  email is one person; the code compares nothing else there.
- `OrderIsKept` (`OrderKept`), an action property, from `Ranked` (priorities are
  positive): `Reordered` gives a row the number of rows ahead of it, and whatever is
  ahead of a row is ahead of the ones behind it, so a lower priority stays lower
  (`Orderly`) however ties are broken; a new row starts behind the highest priority, and
  nothing that was there comes after it.

**What stays with TLC**, and why:

- Liveness and `ENABLED`: `SelectionEnds`, `RefreshEnds`, `PanelEnds`,
  `BufferDrains`, `StreamEnds`, `TurnEnds`.
- The three properties of `Translation`.  `WellFormed` and `EndIsTold` need an invariant that
  speaks of the events still queued: that they can be read from what the client holds, and
  that what it will hold fits what the translators believe is open.  `NothingLost` counts:
  every fragment said is held once, a sum over all items of the lengths of filtered
  sequences (`FoldFunction`, `SelectSeq`).
- `RequestDetails`, whose one property is liveness.

No module of the project declares a RECURSIVE operator.

## Plan

The modules above are built.  What is worth doing next, in this order:

1. Proofs of `WellFormed` and `EndIsTold` for streams with no mark, by a summary of what
   passes between the halves of a pivot, so that seven and four proofs stand for the pairs.
2. An abstract single-flight cell that `TokenRefresh` and the quota refresh implement, and
   `ProjectIds` would if its `finally` deleted only its own entry.
3. Search with its own lock key, as a second caller of the pool's operators.

The project keeps about a dozen runs and forty properties, so that all of it can
be checked again in a few minutes: a new property replaces a weaker one.

## Not modelled

See `components` in `PROJECT.json` for the reason of each: request translators,
filters and stream transformers (pure conversions of a whole body), provider
registries and catalogs (tables), OAuth logins (twenty flows whose shared state is the
row they create), the small repositories (single synchronous transactions), proxies
and the rate limiter (one synchronous step each), the session and signature caches,
the media, search and fetch handlers (copies of the account loop), and the
child-process helpers.

Most of the repository's lines are of these kinds: request translators, wire codecs
of single providers (protobuf, event frames, signatures), registries, catalogs, the
routes and login flows of the dashboard, and copies of one loop per modality.  They
keep no state between two steps and meet no interleaving, so a model of them would
repeat the code; that is why the models cover a small share of the lines, although
they cover every component with state that two requests share.

Seen there: search marks accounts under its own lock key but clears errors without it,
so a success leaves the account marked until the lock expires (`search.js:213`); the
duplicate test of the usage history takes two requests of one millisecond with equal
counts for one (`usageRepo.js:257`); a combo that names itself calls itself without end
(`chat.js:171`).
