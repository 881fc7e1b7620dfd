---------------------------- MODULE UpstreamCall ----------------------------
(***************************************************************************)
(* One call of a provider (BaseExecutor.execute, open-sse/executors/       *)
(* base.js): the base URLs are tried in turn, each with retries in place   *)
(* that wait on a timer, until one answers with something final, the last  *)
(* one fails, or the client goes away.  KiroTurn makes its calls with it.  *)
(*                                                                         *)
(* A fetch (proxyAwareFetch, open-sse/utils/proxyFetch.js) is up to four   *)
(* requests, one after the other fails: through the proxy and without it,  *)
(* and for some hosts past the system's DNS.  That last kind is deaf: it   *)
(* takes no notice of the signal that would end it, nor has it a timeout.  *)
(***************************************************************************)
EXTENDS Integers, Sequences

CONSTANTS Urls,      \* how many base URLs the provider has
          Bypassed,  \* those whose hosts are in MITM_BYPASS_HOSTS
          Proxied,   \* is there a proxy, of the connection or the environment?
          Statuses,  \* what it answers
          Attempts,  \* status -> in-place retries (retryConfig)
          Falls      \* statuses that lead to the next URL (shouldRetry)

ASSUME UpstreamCallAssumption ==
    /\ Urls \in Nat \ {0} /\ Bypassed \subseteq 1..Urls /\ Proxied \in BOOLEAN
    /\ {200, 429, 502} \subseteq Statuses /\ Falls \subseteq Statuses
    /\ Attempts \in [Statuses -> Nat]
    /\ \E most \in {Attempts[s] : s \in Statuses} : \A s \in Statuses : Attempts[s] <= most
    /\ 200 \notin Falls /\ Attempts[200] = 0

VARIABLES call,    \* phase, URL, retries used on it, the fetch's request and timer, the result
          signal,  \* "live"; "aborted" with an AbortError, "cancelled" with a string
          sent     \* ghost: requests this call has sent

callVars == <<call, signal, sent>>

NoCall == [phase |-> "none", url |-> 0, used |-> 0, hop |-> 0, timedOut |-> FALSE,
           result |-> "none"]
-----------------------------------------------------------------------------
(* A fetch. *)

Plain == IF Proxied THEN <<"proxy", "direct">> ELSE <<"direct">>
Bypass == IF Proxied THEN <<"proxy", "bypass">> ELSE <<"bypass">>

\* The requests a fetch of this URL makes, as long as they fail.
Hops(url) == IF url \in Bypassed THEN Bypass \o Plain ELSE Plain

Deaf(c) == c.url \in Bypassed /\ Hops(c.url)[c.hop] = "bypass"

\* The merged signal of the client and of the connect timer.
Stopped(c) == signal # "live" \/ c.timedOut

\* A request with a signal that is aborted is not sent, unless it is deaf.  A name
\* that is not resolved counts as a request that fails.
Send(next) == /\ call' = next
              /\ sent' = IF Stopped(next) /\ ~Deaf(next) THEN sent ELSE sent + 1

\* The connect timer is set anew for every fetch.
Fetch(next) == Send([next EXCEPT !.phase = "fetching", !.hop = 1, !.timedOut = FALSE])

StartCall == /\ call' = [NoCall EXCEPT !.phase = "fetching", !.url = 1, !.hop = 1]
             /\ sent' = 1

EndCall(result) == /\ call' = [NoCall EXCEPT !.phase = "done", !.result = result]
                   /\ UNCHANGED sent
-----------------------------------------------------------------------------
(* The loop over URLs and retries. *)

\* A plausible fault: off by one.
MutantOneMore(status) == call.used <= Attempts[status]

\* tryRetry: retries are counted per URL, whatever the statuses they were for.
MayRetry(status) == call.used < Attempts[status]
Retry(status) == /\ call' = [call EXCEPT !.phase = "waiting", !.used = @ + 1]
                 /\ UNCHANGED sent

NextUrl == Fetch([call EXCEPT !.url = @ + 1, !.used = 0])

\* Something may still come of the request that is under way.
Listening == call.phase = "fetching" /\ (Deaf(call) \/ ~Stopped(call))

\* The provider's headers arrive; of a deaf request even when nobody waits for them.
Respond(status) ==
    /\ Listening
    /\ IF MayRetry(status) THEN Retry(status)
       ELSE IF status \in Falls /\ call.url < Urls THEN NextUrl
       ELSE EndCall(IF status = 200 THEN "answer" ELSE "failed")
    /\ UNCHANGED signal

\* The fetch fails: for an AbortError of the client, which is thrown on unless the
\* connect timer has fired, too; or for a network error, the timer's, or a signal that
\* was aborted with something else, which is retried as a 502, then on another URL.
FetchFails ==
    IF signal = "aborted" /\ ~call.timedOut THEN EndCall("aborted")
    ELSE IF MayRetry(502) THEN Retry(502)
    ELSE IF call.url < Urls THEN NextUrl
    ELSE EndCall("thrown")

\* The request fails, and the fetch makes the next one or fails with it.
HopFails == /\ IF call.hop < Len(Hops(call.url))
               THEN Send([call EXCEPT !.hop = @ + 1])
               ELSE FetchFails
            /\ UNCHANGED signal

NetworkError == Listening /\ HopFails

\* A signal that is aborted ends a request that listens to it.
Cut == call.phase = "fetching" /\ Stopped(call) /\ ~Deaf(call) /\ HopFails

\* A plausible fault: the timer is not set again for a retry.
MutantOneTimer == /\ Listening /\ ~call.timedOut /\ call.used = 0
                  /\ call' = [call EXCEPT !.timedOut = TRUE]
                  /\ UNCHANGED <<signal, sent>>

\* The connect timer only aborts the signal.
ConnectTimeout == /\ Listening /\ ~call.timedOut
                  /\ call' = [call EXCEPT !.timedOut = TRUE]
                  /\ UNCHANGED <<signal, sent>>

\* The wait is a plain timer: an abort does not cut it short.
WaitOver == call.phase = "waiting" /\ Fetch(call) /\ UNCHANGED signal

Abort(how) == signal = "live" /\ signal' = how /\ UNCHANGED <<call, sent>>

CallStep == \/ \E status \in Statuses : Respond(status)
            \/ NetworkError \/ ConnectTimeout \/ Cut \/ WaitOver

\* Nothing but the provider, or the network, can end this request.
Hangs == call.phase = "fetching" /\ Deaf(call)

\* The most requests a fetch, and a call, can send.
MostHops == (IF Proxied THEN 2 ELSE 1) * (IF Bypassed = {} THEN 1 ELSE 2)
MostFetches == Urls * (1 + CHOOSE n \in {Attempts[s] : s \in Statuses} :
                              \A s \in Statuses : Attempts[s] <= n) * MostHops
=============================================================================
