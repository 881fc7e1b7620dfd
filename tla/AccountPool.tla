----------------------------- MODULE AccountPool -----------------------------
(***************************************************************************)
(* The account pool of one provider: how concurrent requests share its     *)
(* connections.  A request enters the selection mutex, reads the           *)
(* connection rows, picks an account, calls the upstream, and then either  *)
(* clears the account's error state (from the row it read before the call) *)
(* or marks the account unavailable and tries the next one.                *)
(*                                                                         *)
(* Sources: src/src/sse/services/auth.js, the account loop of              *)
(* src/src/sse/handlers/chat.js, src/open-sse/services/accountFallback.js  *)
(* and the health reset of src/src/lib/db/repos/connectionsRepo.js.        *)
(*                                                                         *)
(* Time is a counter starting at 1; 0 stands for a null date.  A           *)
(* connection is named by its priority: the rows are read in that order.   *)
(***************************************************************************)
EXTENDS Integers, Sequences, FiniteSets

CONSTANTS
  NumConns,        \* active connections of the provider
  Model,           \* models the clients ask for
  ALL,             \* the suffix of modelLock___all
  Request,         \* request slots: the concurrent handleSingleModelChat calls
  Strategy,        \* "fill-first" or "round-robin"
  StickyLimit,     \* stickyRoundRobinLimit
  Pinned,          \* connections a client may name in x-connection-id
  Failure,         \* kinds of upstream failure of this instance
  BackoffBase, BackoffMax, MaxLevel,   \* BACKOFF_CONFIG
  FixedCooldown,   \* cooldown of the error rules without backoff
  RateLimitCap,    \* MAX_RATE_LIMIT_COOLDOWN_MS
  Antigravity,     \* whether the provider is Antigravity, whose resets are exact
  MonthLength,     \* time between two UTC month starts
  OperatorActs,    \* whether the dashboard acts on the connections
  MaxTime          \* bound on the clock

Conn == 1..NumConns
Key == Model \cup {ALL}
FailureKind == {"client", "fixed", "backoff", "precise", "monthly"}

ASSUME ConstantsAssumption ==
  /\ NumConns \in Nat \ {0}
  /\ ALL \notin Model
  /\ Strategy \in {"fill-first", "round-robin"}
  /\ StickyLimit \in Nat \ {0}
  /\ Pinned \subseteq Conn
  /\ Failure \subseteq FailureKind
  /\ BackoffBase \in Nat \ {0}
  /\ BackoffMax \in Nat \ {0}
  /\ MaxLevel \in Nat \ {0}
  /\ FixedCooldown \in Nat \ {0}
  /\ RateLimitCap \in Nat \ {0}
  /\ MonthLength \in Nat \ {0}
  /\ Antigravity \in BOOLEAN
  /\ OperatorActs \in BOOLEAN
  /\ MaxTime \in Nat \ {0}

VARIABLES
  now,       \* Date.now()
  db,        \* db[c]: the row of connection c
  queue,     \* selectionMutex: the promise chain; its head holds the mutex
  pc,        \* where each request is in its loop
  model,     \* the model the request asks for; ALL while the slot is idle
  pinned,    \* preferredConnectionId, 0 when absent
  excluded,  \* excludeConnectionIds
  list,      \* the rows getProviderConnections returned to the mutex holder
  avail,     \* availableConnections of that list; lockedConns once there are none
  chosen,    \* the selected connection, 0 before
  snapshot,  \* credentials._connection: the selected row as it was read
  failure,   \* the failure being recorded
  answer,    \* the response given to the client
  cleared    \* the operator's clearCooldown in progress: model and rows read

vars == <<now, db, queue, pc, model, pinned, excluded, list, avail, chosen,
          snapshot, failure, answer, cleared>>
reqVars == <<model, pinned, excluded, list, avail, chosen, snapshot, failure>>
-----------------------------------------------------------------------------
(* Rows and locks. *)

NullLocks == [k \in Key |-> 0]
Status == {"active", "unavailable", "error"}

Row == [keys : SUBSET Key, until : [Key -> Nat], status : Status,
        backoff : Nat, lastUsed : Nat, useCount : Nat]

FreshRow == [keys |-> {}, until |-> NullLocks, status |-> "active",
             backoff |-> 0, lastUsed |-> 0, useCount |-> 0]

\* connection[key] || connection[MODEL_LOCK_ALL]: a lock of the model's own
\* key, expired or not, hides the account-wide one.
EffectiveLock(row, m) == IF row.until[m] # 0 THEN row.until[m] ELSE row.until[ALL]

IsModelLockActive(row, m, t) == EffectiveLock(row, m) > t

ActiveLocks(row, t) == {k \in Key : row.until[k] > t}

Least(S) == CHOOSE x \in S : \A y \in S : x <= y

MutantEarliestOfExpiredToo(row, t) ==
  LET set == {row.until[k] : k \in Key} \ {0} IN IF set = {} THEN 0 ELSE Least(set)
\* 0 when no lock of the row is active.
EarliestModelLockUntil(row, t) ==
  IF ActiveLocks(row, t) = {} THEN 0
  ELSE Least({row.until[k] : k \in ActiveLocks(row, t)})

MutantActivatedKeepsLocks(row) == [row EXCEPT !.status = "active", !.backoff = 0]
\* resetHealthStateOnActivation: every lock of the current row goes.
Activated(row) ==
  [row EXCEPT !.until = NullLocks, !.status = "active", !.backoff = 0]
-----------------------------------------------------------------------------
(* Cooldowns. *)

\* Math.min of two naturals.
MinOf(a, b) == IF a \in 0 .. b THEN a ELSE b

GetQuotaCooldown(level) ==
  MinOf(BackoffBase * 2^(IF level > 1 THEN level - 1 ELSE 0), BackoffMax)

\* githubMonthlyResetMs: the first month start after t.
MonthlyReset(t) == ((t \div MonthLength) + 1) * MonthLength

\* checkFallbackError for an error with exponential backoff.
BackoffVerdict(level) ==
  LET next == MinOf(level + 1, MaxLevel)
  IN  [cooldown |-> GetQuotaCooldown(next), level |-> next]

MutantResetUncapped(resetsAt, t) == resetsAt - t
\* The cooldown until a reset the provider reported.
ReportedCooldown(resetsAt, t) ==
  IF Antigravity THEN resetsAt - t ELSE MinOf(resetsAt - t, RateLimitCap)

\* What markAccountUnavailable decides at time t for a failure that may fall
\* back: the cooldown and the backoff level it writes.
Verdict(f, t) ==
  CASE f.kind = "monthly" -> [cooldown |-> MonthlyReset(t) - t, level |-> 0]
    [] f.kind = "precise" /\ f.resetsAt > t ->
         [cooldown |-> ReportedCooldown(f.resetsAt, t), level |-> 0]
    [] f.kind = "fixed" -> [cooldown |-> FixedCooldown, level |-> f.seenLevel]
    [] OTHER -> BackoffVerdict(f.seenLevel)

\* buildModelLockUpdate: the key is __all for the monthly limit only.
LockKey(f, m) == IF f.kind = "monthly" THEN ALL ELSE m

Marked(row, f, m, t) ==
  [row EXCEPT !.keys = @ \cup {LockKey(f, m)},
              !.until[LockKey(f, m)] = t + Verdict(f, t).cooldown,
              !.status = "unavailable",
              !.backoff = Verdict(f, t).level]
-----------------------------------------------------------------------------
(* clearAccountError: the keys to clear and the locks that remain are       *)
(* computed from the snapshot, the patch is merged into the current row.    *)

KeysToClear(snap, m, t) ==
  {k \in snap.keys : k \in {m, ALL} \/ (snap.until[k] # 0 /\ snap.until[k] <= t)}

RemainingActiveLocks(snap, m, t) == ActiveLocks(snap, t) \ KeysToClear(snap, m, t)

ClearAccountError(row, snap, m, t) ==
  LET keys == KeysToClear(snap, m, t)
      unlocked == [row EXCEPT !.until = [k \in Key |-> IF k \in keys THEN 0 ELSE @[k]]]
  IN  IF keys = {} /\ snap.status = "active" THEN row
      ELSE IF RemainingActiveLocks(snap, m, t) = {} THEN Activated(row)
      ELSE unlocked
-----------------------------------------------------------------------------
(* Selection strategies over the rows read under the mutex. *)

MutantIgnoresExclusion(rows, ex, m, t) == {c \in Conn : ~IsModelLockActive(rows[c], m, t)}
Available(rows, ex, m, t) ==
  {c \in Conn : c \notin ex /\ ~IsModelLockActive(rows[c], m, t)}

\* byRecency[0] and sortedByOldest[0]; both sorts keep priority order on ties.
IsMostRecent(rows, S, c) ==
  \A d \in S : \/ rows[c].lastUsed > rows[d].lastUsed
               \/ rows[c].lastUsed = rows[d].lastUsed /\ c <= d
IsLeastRecent(rows, S, c) ==
  \A d \in S : \/ rows[c].lastUsed < rows[d].lastUsed
               \/ rows[c].lastUsed = rows[d].lastUsed /\ c <= d

\* The current account is kept while its sticky budget lasts.
Sticks(rows, S, c) ==
  IsMostRecent(rows, S, c) /\ rows[c].lastUsed # 0 /\ rows[c].useCount < StickyLimit

RoundRobinPicks(rows, S, c) ==
  \/ Sticks(rows, S, c)
  \/ (\A d \in S : ~Sticks(rows, S, d)) /\ IsLeastRecent(rows, S, c)

\* The rotation fields persisted with the choice of c.
Rotated(row, rows, S, c, t) ==
  [row EXCEPT !.lastUsed = t,
              !.useCount = IF Sticks(rows, S, c) THEN rows[c].useCount + 1 ELSE 1]

NoFailure == [kind |-> "none", seenLevel |-> 0, resetsAt |-> 0]
NoAnswer == [kind |-> "none", retryAfter |-> 0]
NoList == [c \in Conn |-> FreshRow]
NotClearing == [model |-> ALL, rows |-> NoList, active |-> FALSE]
-----------------------------------------------------------------------------
Init ==
  /\ now = 1
  /\ db = [c \in Conn |-> FreshRow]
  /\ queue = <<>>
  /\ pc = [r \in Request |-> "idle"]
  /\ model = [r \in Request |-> ALL]
  /\ pinned = [r \in Request |-> 0]
  /\ excluded = [r \in Request |-> {}]
  /\ list = [r \in Request |-> NoList]
  /\ avail = [r \in Request |-> {}]
  /\ chosen = [r \in Request |-> 0]
  /\ snapshot = [r \in Request |-> FreshRow]
  /\ failure = [r \in Request |-> NoFailure]
  /\ answer = [r \in Request |-> NoAnswer]
  /\ cleared = NotClearing

Tick ==
  /\ now < MaxTime
  /\ now' = now + 1
  /\ UNCHANGED <<db, queue, pc, reqVars, answer, cleared>>

\* handleSingleModelChat starts and asks for credentials: the call takes its
\* place in the mutex chain before its first await.
Arrive(r) ==
  /\ pc[r] = "idle"
  /\ \E m \in Model : model' = [model EXCEPT ![r] = m]
  /\ \E p \in Pinned \cup {0} : pinned' = [pinned EXCEPT ![r] = p]
  /\ queue' = Append(queue, r)
  /\ pc' = [pc EXCEPT ![r] = "queued"]
  /\ UNCHANGED <<now, db, excluded, list, avail, chosen, snapshot, failure,
                 answer, cleared>>

\* The response goes to the client.
Respond(r, reply) ==
  /\ pc' = [pc EXCEPT ![r] = "answered"]
  /\ answer' = [answer EXCEPT ![r] = reply]

\* The locals of one turn of the loop are dropped.
EndCall(r) ==
  /\ chosen' = [chosen EXCEPT ![r] = 0]
  /\ snapshot' = [snapshot EXCEPT ![r] = FreshRow]
  /\ failure' = [failure EXCEPT ![r] = NoFailure]

MutantForgetsExcluded(rows, ex, m, t) ==
  {c \in Conn : c \notin ex /\ IsModelLockActive(rows[c], m, t)}
\* lockedConns: the accounts that failed this request count, too.
LockedConns(rows, ex, m, t) == {c \in Conn : IsModelLockActive(rows[c], m, t)}

\* What the loop answers when no connection is available.
GiveUpReply(rows, ex, locked, t) ==
  LET expiries == {EarliestModelLockUntil(rows[c], t) : c \in locked} \ {0}
  IN  IF expiries # {} THEN [kind |-> "rateLimited", retryAfter |-> Least(expiries)]
      ELSE IF ex = {} THEN [kind |-> "notFound", retryAfter |-> 0]
      ELSE [kind |-> "exhausted", retryAfter |-> 0]

MutantNoMutex(r) == \E i \in 1 .. Len(queue) : queue[i] = r
\* await currentMutex: r's predecessors in the chain have released it.
HoldsMutex(r) == queue # <<>> /\ r = Head(queue)

\* The mutex holder reads the rows and filters them.  The filter, the list of
\* locked connections and their dates read the clock one after the other.
SelectRead(r) ==
  LET free == Available(db, excluded[r], model[r], now)
  IN  /\ pc[r] = "queued" /\ HoldsMutex(r)
      /\ pc' = [pc EXCEPT ![r] = IF free = {} THEN "barred" ELSE "selecting"]
      /\ list' = [list EXCEPT ![r] = db]
      /\ avail' = [avail EXCEPT ![r] = free]
      /\ UNCHANGED <<now, db, queue, model, pinned, excluded, chosen, snapshot,
                     failure, answer, cleared>>

\* No connection is available: which ones does a lock bar?
FindLocked(r) ==
  /\ pc[r] = "barred"
  /\ pc' = [pc EXCEPT ![r] = "dating"]
  /\ avail' = [avail EXCEPT ![r] = LockedConns(list[r], excluded[r], model[r], now)]
  /\ UNCHANGED <<now, db, queue, model, pinned, excluded, list, chosen, snapshot,
                 failure, answer, cleared>>

MutantKeepsMutex == queue
\* The finally block of getProviderCredentials.
Released == Tail(queue)

\* The earliest date is sought and the early return releases the mutex.
GiveUp(r) ==
  /\ pc[r] = "dating"
  /\ Respond(r, GiveUpReply(list[r], excluded[r], avail[r], now))
  /\ queue' = Released
  /\ list' = [list EXCEPT ![r] = NoList]
  /\ avail' = [avail EXCEPT ![r] = {}]
  /\ UNCHANGED <<now, db, model, pinned, excluded, chosen, snapshot, failure, cleared>>

\* The holder's choice: the pinned connection, or the strategy's.
IsPinned(r) == pinned[r] \in avail[r]

Picks(r, c) ==
  IF IsPinned(r) THEN c = pinned[r]
  ELSE IF Strategy = "round-robin" THEN RoundRobinPicks(list[r], avail[r], c)
  ELSE \A d \in avail[r] : c <= d

\* The holder picks a connection, persists the rotation, releases the mutex
\* and calls the upstream with the row as it was read.
SelectFinish(r) ==
  /\ pc[r] = "selecting"
  /\ \E c \in avail[r] :
       /\ Picks(r, c)
       /\ db' = IF IsPinned(r) \/ Strategy # "round-robin" THEN db
                ELSE [db EXCEPT ![c] = Rotated(@, list[r], avail[r], c, now)]
       /\ chosen' = [chosen EXCEPT ![r] = c]
       /\ snapshot' = [snapshot EXCEPT ![r] = list[r][c]]
  /\ queue' = Released
  /\ pc' = [pc EXCEPT ![r] = "calling"]
  /\ list' = [list EXCEPT ![r] = NoList]
  /\ avail' = [avail EXCEPT ![r] = {}]
  /\ UNCHANGED <<now, model, pinned, excluded, failure, answer, cleared>>

\* The upstream answers and onRequestSuccess clears the account's errors.
UpstreamSucceeds(r) ==
  /\ pc[r] = "calling"
  /\ db' = [db EXCEPT ![chosen[r]] =
              ClearAccountError(@, snapshot[r], model[r], now)]
  /\ Respond(r, [kind |-> "ok", retryAfter |-> 0])
  /\ EndCall(r)
  /\ UNCHANGED <<now, queue, model, pinned, excluded, list, avail, cleared>>

\* The upstream fails; markAccountUnavailable reads the backoff level.  A reset
\* is still to come when it is parsed, and may be past when it is recorded.
UpstreamFails(r) ==
  /\ pc[r] = "calling"
  /\ \E kind \in Failure, resetsAt \in now + 1 .. now + RateLimitCap + 1 :
       /\ kind # "precise" => resetsAt = now + 1
       /\ failure' = [failure EXCEPT ![r] =
            [kind |-> kind, seenLevel |-> db[chosen[r]].backoff,
             resetsAt |-> IF kind = "precise" THEN resetsAt ELSE 0]]
  /\ pc' = [pc EXCEPT ![r] = "marking"]
  /\ snapshot' = [snapshot EXCEPT ![r] = FreshRow]
  /\ UNCHANGED <<now, db, queue, model, pinned, excluded, list, avail, chosen,
                 answer, cleared>>

\* A request-scoped error: no lock, the upstream's answer goes back.
ReturnClientError(r) ==
  /\ pc[r] = "marking" /\ failure[r].kind = "client"
  /\ Respond(r, [kind |-> "clientError", retryAfter |-> 0])
  /\ EndCall(r)
  /\ UNCHANGED <<now, db, queue, model, pinned, excluded, list, avail, cleared>>

MutantExcludesAfterReset(r) == excluded[r] \cup {chosen'[r]}
\* excludeConnectionIds.add(credentials.connectionId).
Excluding(r) == excluded[r] \cup {chosen[r]}

\* markAccountUnavailable writes the lock and the backoff level computed from
\* what it read, and the loop asks for the next account.
MarkUnavailable(r) ==
  /\ pc[r] = "marking" /\ failure[r].kind # "client"
  /\ db' = [db EXCEPT ![chosen[r]] = Marked(@, failure[r], model[r], now)]
  /\ EndCall(r)
  /\ excluded' = [excluded EXCEPT ![r] = Excluding(r)]
  /\ queue' = Append(queue, r)
  /\ pc' = [pc EXCEPT ![r] = "queued"]
  /\ UNCHANGED <<now, model, pinned, list, avail, answer, cleared>>

\* The slot is free for another client request.
Leave(r) ==
  /\ pc[r] = "answered"
  /\ pc' = [pc EXCEPT ![r] = "idle"]
  /\ excluded' = [excluded EXCEPT ![r] = {}]
  /\ answer' = [answer EXCEPT ![r] = NoAnswer]
  /\ model' = [model EXCEPT ![r] = ALL]
  /\ pinned' = [pinned EXCEPT ![r] = 0]
  /\ UNCHANGED <<now, db, queue, list, avail, chosen, snapshot, failure, cleared>>
-----------------------------------------------------------------------------
(* The dashboard. *)

\* A connection test: a valid one activates the row, an invalid one only
\* stores the error.
TestConnection(c, valid) ==
  /\ OperatorActs
  /\ db' = [db EXCEPT ![c] = IF valid THEN Activated(@) ELSE [@ EXCEPT !.status = "error"]]
  /\ UNCHANGED <<now, queue, pc, reqVars, answer, cleared>>

\* POST /api/models/availability reads the provider's rows ...
ClearCooldownRead(k) ==
  /\ OperatorActs /\ ~cleared.active
  /\ cleared' = [model |-> k, rows |-> db, active |-> TRUE]
  /\ UNCHANGED <<now, db, queue, pc, reqVars, answer>>

\* ... and patches those that held the lock when they were read.
ClearCooldownWrite ==
  /\ cleared.active
  /\ db' = [c \in Conn |->
       LET k == cleared.model
           read == cleared.rows[c]
       IN  IF read.until[k] = 0 THEN db[c]
           ELSE IF read.status = "unavailable" THEN Activated(db[c])
           ELSE [db[c] EXCEPT !.until[k] = 0]]
  /\ cleared' = NotClearing
  /\ UNCHANGED <<now, queue, pc, reqVars, answer>>

\* None of these requests is between the filter of the rows and its answer:
\* that stretch has no await, so that only the clock moves meanwhile.
EventLoopFree(others) == \A s \in others : pc[s] \notin {"barred", "dating"}

\* What the request does by itself ...
LocalStep(r) ==
  \/ SelectRead(r)
  \/ FindLocked(r)
  \/ GiveUp(r)
  \/ SelectFinish(r)
  \/ ReturnClientError(r)
  \/ MarkUnavailable(r)

\* ... and what its client and the upstream do.
OuterStep(r) == Arrive(r) \/ UpstreamSucceeds(r) \/ UpstreamFails(r) \/ Leave(r)

RequestStep(r) == EventLoopFree(Request \ {r}) /\ (LocalStep(r) \/ OuterStep(r))

OperatorStep ==
  /\ EventLoopFree(Request)
  /\ \/ \E c \in Conn, valid \in BOOLEAN : TestConnection(c, valid)
     \/ \E k \in Key : ClearCooldownRead(k)
     \/ ClearCooldownWrite

Next ==
  \/ Tick
  \/ \E r \in Request : RequestStep(r)
  \/ OperatorStep

Spec == Init /\ [][Next]_vars

\* The event loop runs every continuation.  Nothing is assumed of the upstream:
\* a request sent past the system's DNS (createBypassRequest) has no timeout and
\* does not hear the signal that would abort it.
FairSpec == Spec /\ \A r \in Request : WF_vars(LocalStep(r))
-----------------------------------------------------------------------------
(* Properties. *)

PC == {"idle", "queued", "barred", "dating", "selecting", "calling", "marking", "answered"}
AnswerKind == {"none", "ok", "clientError", "rateLimited", "exhausted", "notFound"}

\* Type correctness of the pool's state.
TypeOK ==
  /\ now \in Nat
  /\ db \in [Conn -> Row]
  /\ queue \in Seq(Request)
  /\ pc \in [Request -> PC]
  /\ model \in [Request -> Key]
  /\ pinned \in [Request -> Conn \cup {0}]
  /\ excluded \in [Request -> SUBSET Conn]
  /\ list \in [Request -> [Conn -> Row]]
  /\ avail \in [Request -> SUBSET Conn]
  /\ chosen \in [Request -> Conn \cup {0}]
  /\ snapshot \in [Request -> Row]
  /\ failure \in [Request -> [kind : FailureKind \cup {"none"}, seenLevel : Nat,
                              resetsAt : Nat]]
  /\ answer \in [Request -> [kind : AnswerKind, retryAfter : Nat]]
  /\ cleared \in [model : Key, rows : [Conn -> Row], active : BOOLEAN]

\* A connection shown "active" carries no lock and no backoff, whatever
\* successes, failures, tests and operator patches were interleaved from rows
\* read earlier: the dashboard's status and the router's locks agree.
HealthConsistent ==
  \A c \in Conn : db[c].status = "active" =>
    /\ db[c].until = NullLocks
    /\ db[c].backoff = 0

\* The rotation fields the mutex holder read are still those of the database
\* when it writes the next ones: no selection overwrites another's count.
RotationFresh ==
  \A r \in Request : pc[r] = "selecting" =>
    \A c \in Conn : /\ list[r][c].lastUsed = db[c].lastUsed
                    /\ list[r][c].useCount = db[c].useCount

\* Only the head of the mutex chain reads or writes the selection state.
SelectionExclusive ==
  \A r \in Request : pc[r] = "selecting" => queue # <<>> /\ r = Head(queue)

\* The loop never calls an account that already failed this request.
NeverRetriesFailedAccount ==
  \A r \in Request : pc[r] \in {"calling", "marking"} => chosen[r] \notin excluded[r]

\* A request is refused without a retry date only when no account it could
\* wait for is left: every account has failed this very request or was locked
\* when the rows were filtered, and by now no lock bars any of them, those that
\* failed included.  (The last case is one the code does not mean to have: all
\* the locks run out between the filter and the search for a date.)
GiveUpJustified ==
  [][\A r \in Request :
       pc[r] = "dating" /\ pc'[r] = "answered" /\ answer'[r].kind # "rateLimited" =>
         \A c \in Conn :
           /\ ~IsModelLockActive(list[r][c], model[r], now)
           /\ c \in excluded[r] \/ EffectiveLock(list[r][c], model[r]) # 0]_vars

\* A client told to retry later is given a moment still to come when the
\* answer is made.
RetryAfterAhead ==
  [][\A r \in Request : answer'[r] # answer[r] /\ answer'[r].kind = "rateLimited"
       => answer'[r].retryAfter > now]_vars

\* No model lock of a provider other than Antigravity outlasts the cap on
\* provider-reported resets and the cooldowns of the error rules, none that is
\* account-wide outlasts a month, and the backoff level keeps to its maximum,
\* whichever of several concurrent failures writes last.
LocksBounded ==
  \A c \in Conn :
    /\ ~Antigravity => \A m \in Model : db[c].until[m] <= now + RateLimitCap
    /\ db[c].until[ALL] <= now + MonthLength
    /\ db[c].backoff <= MaxLevel

\* Every request that waits for an account, or records a failure, gets to call
\* an upstream or is answered: the mutex is released on every way out.
SelectionEnds ==
  \A r \in Request :
    pc[r] \in {"queued", "marking"} ~> pc[r] \in {"calling", "answered"}
-----------------------------------------------------------------------------
(* What comments and tests say of the code and the code does not do. *)

\* The monthly limit "locks the whole account": no request is given an account
\* whose account-wide lock runs when the rows are read.
WholeAccountLocked ==
  [][\A r \in Request : pc[r] = "queued" /\ pc'[r] = "selecting" =>
       \A c \in avail'[r] : db[c].until[ALL] <= now]_vars
=============================================================================
