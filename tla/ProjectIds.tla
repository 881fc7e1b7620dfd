----------------------------- MODULE ProjectIds -----------------------------
(***************************************************************************)
(* The project id of one connection (open-sse/services/projectId.js): the  *)
(* requests of the connection share one fetch, whose answer is cached for  *)
(* an hour; a token refresh drops it, and a sweep gives up fetches that    *)
(* run for too long.  Connections do not touch each other's entries.       *)
(*                                                                         *)
(* A request starts at most one fetch, so a fetch is named by its request. *)
(* Its requests go to hosts of MITM_BYPASS_HOSTS: past the system's DNS,   *)
(* and then, should that fail, as usual.  The first way takes no notice of *)
(* the signal (proxyFetch.js), so a fetch that is given up, or whose timer *)
(* fires, may be cut off or may go on, answer, or never end.               *)
(***************************************************************************)
EXTENDS Integers

CONSTANTS Requests,    \* requests that ask for the id, each once
          MaxAttempts, \* ONBOARD_MAX_ATTEMPTS
          None         \* no request

VARIABLES cache,   \* "none", "fresh", or "stale" when its hour is over
          pending, \* the fetch in pendingFetches, or None
          overdue, \* has that fetch run for more than two minutes?
          fetch,   \* request -> its fetch: stage, onboarding attempt, aborted
          asked,   \* request -> the fetch it waits for; itself when it was answered
          got      \* request -> "nothing yet", "id" or "null"

projectVars == <<cache, pending, overdue, fetch, asked, got>>

NoFetch == [stage |-> "none", attempt |-> 0, aborted |-> FALSE]
Running(f) == fetch[f].stage \in {"load", "onboard", "pause"}
-----------------------------------------------------------------------------
ProjectInit ==
  /\ cache = "none" /\ pending = None /\ overdue = FALSE
  /\ fetch = [r \in Requests |-> NoFetch]
  /\ asked = [r \in Requests |-> None]
  /\ got = [r \in Requests |-> "nothing yet"]

Join(r, f) == asked' = [asked EXCEPT ![r] = f]

\* getProjectIdForConnection
AskCached(r) == /\ cache = "fresh"
                /\ Join(r, r) /\ got' = [got EXCEPT ![r] = "id"]
                /\ UNCHANGED <<cache, pending, overdue, fetch>>

AskPending(r) == /\ cache # "fresh" /\ pending # None
                 /\ Join(r, pending)
                 /\ UNCHANGED <<cache, pending, overdue, fetch, got>>

AskUpstream(r) == /\ cache # "fresh" /\ pending = None
                  /\ Join(r, r)
                  /\ fetch' = [fetch EXCEPT ![r].stage = "load"]
                  /\ pending' = r /\ overdue' = FALSE
                  /\ UNCHANGED <<cache, got>>

Ask(r) == asked[r] = None /\ (AskCached(r) \/ AskPending(r) \/ AskUpstream(r))

\* The end of a fetch.  Its entry is deleted by connection, whosever it is by now.
Settle(f, result) ==
    /\ fetch' = [fetch EXCEPT ![f] = [NoFetch EXCEPT !.stage = "settled"]]
    /\ got' = [r \in Requests |-> IF asked[r] = f THEN result ELSE got[r]]
    /\ cache' = IF result = "id" THEN "fresh" ELSE cache
    /\ pending' = None /\ overdue' = FALSE
    /\ UNCHANGED asked

Goto(f, stage, attempt) ==
    /\ fetch' = [fetch EXCEPT ![f].stage = stage, ![f].attempt = attempt]
    /\ UNCHANGED <<cache, pending, overdue, asked, got>>

\* fetchProjectId: an id; none, for an error or an abort; or a user to onboard first.
Load(f) == /\ fetch[f].stage = "load"
           /\ \/ \E result \in {"id", "null"} : Settle(f, result)
              \/ Goto(f, "onboard", 1)

\* The next round of the onboarding loop.
Again(f) == IF fetch[f].aborted \/ fetch[f].attempt >= MaxAttempts THEN Settle(f, "null")
            ELSE Goto(f, "onboard", fetch[f].attempt + 1)

\* onboardUser: done; or not done yet, which it waits after.
Onboard(f) == /\ fetch[f].stage = "onboard"
              /\ Settle(f, "id") \/ Goto(f, "pause", fetch[f].attempt)

OnboardFails(f) == /\ fetch[f].stage = "onboard"
                   /\ IF fetch[f].attempt >= MaxAttempts THEN Settle(f, "null")
                      ELSE Goto(f, "pause", fetch[f].attempt)

\* Cut off by its timer or by the sweep: no pause follows.
OnboardCut(f) == fetch[f].stage = "onboard" /\ Again(f)

\* The pause is a plain timer: an abort does not cut it short.
PauseOver(f) == fetch[f].stage = "pause" /\ Again(f)

\* invalidateProjectId, when a token was refreshed.
Invalidate == /\ cache # "none" /\ cache' = "none"
              /\ UNCHANGED <<pending, overdue, fetch, asked, got>>

\* cleanupNow
Sweep == /\ cache = "stale" \/ overdue
         /\ cache' = IF cache = "stale" THEN "none" ELSE cache
         /\ IF overdue
            THEN /\ fetch' = [fetch EXCEPT ![pending].aborted = TRUE]
                 /\ pending' = None /\ overdue' = FALSE
            ELSE UNCHANGED <<fetch, pending, overdue>>
         /\ UNCHANGED <<asked, got>>

TimePasses == /\ \/ cache = "fresh" /\ cache' = "stale" /\ UNCHANGED overdue
                 \/ pending # None /\ ~overdue /\ overdue' = TRUE /\ UNCHANGED cache
              /\ UNCHANGED <<pending, fetch, asked, got>>

Step(f) == Load(f) \/ Onboard(f) \/ OnboardFails(f) \/ OnboardCut(f) \/ PauseOver(f)

ProjectNext ==
  \/ \E r \in Requests : Ask(r) \/ Step(r)
  \/ Invalidate \/ Sweep \/ TimePasses

ProjectSpec == ProjectInit /\ [][ProjectNext]_projectVars
-----------------------------------------------------------------------------
\* "Deduplicate concurrent fetches for the same connection" (projectId.js:95): but for
\* those the sweep has given up, no two fetches of the connection are under way.
FetchesDeduplicated ==
    \A f, g \in Requests : Running(f) /\ Running(g) /\ f # g
                             => fetch[f].aborted \/ fetch[g].aborted
=============================================================================
