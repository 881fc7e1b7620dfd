--------------------------- MODULE StreamLifecycle ---------------------------
(***************************************************************************)
(* One upstream call of the chat core, from its start to the end of its    *)
(* stream, and what it leaves behind: the pending counters of the          *)
(* dashboard (src/lib/db/repos/usageRepo.js, trackPendingRequest), the     *)
(* usage, and the records of module RequestDetails.                        *)
(*                                                                         *)
(* A stream can end in five ways that race: the upstream finishes, the     *)
(* upstream breaks, it stalls, the client has read all, or the client goes *)
(* away.  Each handler reports the end of the request to counters that     *)
(* have no identity: the counter of a model, the counter of an account,    *)
(* and one safety timer per account (all requests here name one model).    *)
(***************************************************************************)
EXTENDS RequestDetails, FiniteSets

CONSTANTS
    Account,     \* the connections
    Bypassed     \* those whose provider's host is in MITM_BYPASS_HOSTS

ASSUME BypassAssumption == Bypassed \subseteq Account

VARIABLES
    connection,  \* the connection a request is sent to
    phase,       \* where the call of a request is
    finalized,   \* its stream has run finalizeStream
    usage,       \* how often its usage was saved
    stall,       \* its stall watchdog is armed
    byModel,     \* pendingRequests.byModel of the one model
    byAccount,   \* pendingRequests.byAccount of the account, that model
    pendingTimer,\* the 60 s timer of the account and the model is set
    silent,      \* history: requests whose abort was not reported
    slipped      \* history: an end was counted that was not a request's own

counters == <<byModel, byAccount, pendingTimer>>
streams  == <<connection, phase, finalized, usage, stall>>
streamsVars == <<details, counters, streams, silent, slipped>>

Phases == {"idle", "calling", "reading", "streaming", "drained", "aborting",
           "left", "closed", "failed"}

StreamsTypeOK ==
    /\ DetailsTypeOK
    /\ connection \in [Request -> Account]
    /\ phase \in [Request -> Phases]
    /\ finalized \in [Request -> BOOLEAN]
    /\ usage \in [Request -> Nat]
    /\ stall \in [Request -> BOOLEAN]
    /\ byModel \in Nat
    /\ byAccount \in [Account -> Nat]
    /\ pendingTimer \in [Account -> BOOLEAN]
    /\ silent \subseteq Request
    /\ slipped \in BOOLEAN

StreamsInit ==
    /\ DetailsInit
    /\ connection \in [Request -> Account]
    /\ phase = [r \in Request |-> "idle"]
    /\ finalized = [r \in Request |-> FALSE]
    /\ usage = [r \in Request |-> 0]
    /\ stall = [r \in Request |-> FALSE]
    /\ byModel = 0
    /\ byAccount = [a \in Account |-> 0]
    /\ pendingTimer = [a \in Account |-> FALSE]
    /\ silent = {}
    /\ slipped = FALSE

-----------------------------------------------------------------------------

(* trackPendingRequest: a start sets the timer anew, an end clears it.     *)
OneLess(n) == IF n > 0 THEN n - 1 ELSE 0

TrackStart(a) ==
    /\ byModel' = byModel + 1
    /\ byAccount' = [byAccount EXCEPT ![a] = @ + 1]
    /\ pendingTimer' = [pendingTimer EXCEPT ![a] = TRUE]

TrackEnd(a) ==
    /\ byModel' = OneLess(byModel)
    /\ byAccount' = [byAccount EXCEPT ![a] = OneLess(@)]
    /\ pendingTimer' = [pendingTimer EXCEPT ![a] = FALSE]

(* After 60 s without a start or an end on the account.                    *)
PendingTimerFires(a) ==
    /\ pendingTimer[a]
    /\ pendingTimer' = [pendingTimer EXCEPT ![a] = FALSE]
    /\ byModel' = 0
    /\ byAccount' = [byAccount EXCEPT ![a] = 0]
    /\ slipped' = (slipped \/ byModel > 0)
    /\ UNCHANGED <<details, streams, silent>>

-----------------------------------------------------------------------------
Goto(r, p)  == phase' = [phase EXCEPT ![r] = p] /\ UNCHANGED connection
Final(r)    == [id |-> r, state |-> "final"]
Progress(r) == [id |-> r, state |-> "progress"]

(* The call is made.                                                       *)
Start(r) ==
    /\ phase[r] = "idle"
    /\ Goto(r, "calling")
    /\ TrackStart(connection[r])
    /\ UNCHANGED <<details, finalized, usage, stall, silent, slipped>>

(* The request cannot be translated: an end without a start.               *)
TranslateFails(r) ==
    /\ phase[r] = "idle"
    /\ Goto(r, "failed")
    /\ TrackEnd(connection[r])
    /\ slipped' = TRUE
    /\ UNCHANGED <<details, finalized, usage, stall, silent>>

(* The executor throws, or the upstream answers with an error status.      *)
CallFails(r) ==
    /\ phase[r] = "calling"
    /\ Goto(r, "failed")
    /\ TrackEnd(connection[r])
    /\ SaveRequestDetail(Final(r))
    /\ UNCHANGED <<finalized, usage, stall, silent, slipped>>

(* A 200 that is neither SSE nor JSON: handleError, and no record.         *)
NotAStream(r) ==
    /\ phase[r] = "calling"
    /\ Goto(r, "failed")
    /\ TrackEnd(connection[r])
    /\ UNCHANGED <<details, finalized, usage, stall, silent, slipped>>

(* The client wants JSON: the end is reported before the body is read.     *)
AnswerWhole(r) ==
    /\ phase[r] = "calling"
    /\ Goto(r, "reading")
    /\ TrackEnd(connection[r])
    /\ UNCHANGED <<details, finalized, usage, stall, silent, slipped>>

WholeRead(r) ==
    /\ phase[r] = "reading"
    /\ Goto(r, "closed")
    /\ usage' = [usage EXCEPT ![r] = @ + 1]
    /\ finalized' = [finalized EXCEPT ![r] = TRUE]
    /\ SaveRequestDetail(Final(r))
    /\ UNCHANGED <<stall, counters, silent, slipped>>

WholeUnreadable(r) ==
    /\ phase[r] = "reading"
    /\ Goto(r, "failed")
    /\ UNCHANGED <<details, finalized, usage, stall, counters, silent, slipped>>

\* Mutant: the watchdog waits for the first chunk.
MutantStreamStarts(r) ==
    /\ phase[r] = "calling"
    /\ Goto(r, "streaming")
    /\ SaveRequestDetail(Progress(r))
    /\ UNCHANGED <<finalized, usage, stall, counters, silent, slipped>>

(* pipeWithDisconnect arms the watchdog before the first chunk.            *)
StreamStarts(r) ==
    /\ phase[r] = "calling"
    /\ Goto(r, "streaming")
    /\ stall' = [stall EXCEPT ![r] = TRUE]
    /\ SaveRequestDetail(Progress(r))
    /\ UNCHANGED <<finalized, usage, counters, silent, slipped>>

\* Mutant: finalizeStream does not remember that it ran.
MutantFinalizeStream(r) ==
    /\ finalized' = [finalized EXCEPT ![r] = TRUE]
    /\ usage' = [usage EXCEPT ![r] = @ + 1]
    /\ SaveRequestDetail(Final(r))

(* finalizeStream, and the onStreamComplete it calls.                      *)
FinalizeStream(r) ==
    IF finalized[r] THEN UNCHANGED <<details, finalized, usage>>
    ELSE /\ finalized' = [finalized EXCEPT ![r] = TRUE]
         /\ usage' = [usage EXCEPT ![r] = @ + 1]
         /\ SaveRequestDetail(Final(r))

(* A Responses stream shows its last event; its client may close now.  Any *)
(* other chunk only re-arms the watchdog.                                  *)
TerminalEvent(r) ==
    /\ phase[r] = "streaming"
    /\ ~finalized[r]
    /\ FinalizeStream(r)
    /\ UNCHANGED <<connection, phase, stall, counters, silent, slipped>>

(* The upstream has ended: the tap clears the watchdog, flush() reports.   *)
UpstreamEnds(r) ==
    /\ phase[r] = "streaming"
    /\ Goto(r, "drained")
    /\ stall' = [stall EXCEPT ![r] = FALSE]
    /\ TrackEnd(connection[r])
    /\ FinalizeStream(r)
    /\ UNCHANGED <<silent, slipped>>

(* The client reads the end: handleComplete.                               *)
ReaderDone(r) ==
    /\ phase[r] = "drained"
    /\ Goto(r, "closed")
    /\ UNCHANGED <<details, finalized, usage, stall, counters, silent, slipped>>

\* Mutant: no onError callback.
MutantErrorUnreported(r) ==
    /\ phase[r] = "streaming"
    /\ Goto(r, "closed")
    /\ stall' = [stall EXCEPT ![r] = FALSE]
    /\ UNCHANGED <<details, counters, silent, finalized, usage, slipped>>

(* The read rejects.  handleError reports it, unless it is an AbortError.  *)
UpstreamBreaks(r) ==
    /\ phase[r] = "streaming"
    /\ Goto(r, "closed")
    /\ stall' = [stall EXCEPT ![r] = FALSE]
    /\ \/ TrackEnd(connection[r]) /\ UNCHANGED silent
       \/ silent' = silent \cup {r} /\ UNCHANGED counters
    /\ UNCHANGED <<details, finalized, usage, slipped>>

(* The watchdog: handleError with an error of its own, then the abort.     *)
StallFires(r) ==
    /\ phase[r] = "streaming"
    /\ stall[r]
    /\ stall' = [stall EXCEPT ![r] = FALSE]
    /\ Goto(r, "aborting")
    /\ TrackEnd(connection[r])
    /\ UNCHANGED <<details, finalized, usage, silent, slipped>>

(* The pending read rejects, of a stream that has ended: for the abort, or *)
(* because the upstream breaks after all.                                  *)
AbortSeen(r) ==
    /\ phase[r] = "aborting"
    /\ Goto(r, "closed")
    /\ UNCHANGED <<details, finalized, usage, stall, counters, silent, slipped>>

(* The body has not seen the abort, because it listens to none or was      *)
(* complete: another chunk comes, and the client's stream is closed.       *)
LateChunk(r) ==
    /\ phase[r] = "aborting"
    /\ Goto(r, "left")
    /\ UNCHANGED <<details, finalized, usage, stall, counters, silent, slipped>>

(* Or its end, which flush() reports again.                                *)
LateEnd(r) ==
    /\ phase[r] \in {"aborting", "left"}
    /\ Goto(r, "closed")
    /\ TrackEnd(connection[r])
    /\ slipped' = TRUE
    /\ FinalizeStream(r)
    /\ UNCHANGED <<stall, silent>>

\* Mutant: handleDisconnect does not look whether the stream has ended.
MutantReportsAlways(r) == TRUE

(* The controller's flag: the end was not yet handled.                     *)
IsConnected(r) == phase[r] \in {"streaming", "drained"}

(* The client goes away: cancel().  In "drained", flush() has reported the *)
(* end already, but the controller does not know.                          *)
ClientCancels(r) ==
    /\ phase[r] \in {"streaming", "drained", "aborting"}
    /\ Goto(r, "closed")
    /\ stall' = [stall EXCEPT ![r] = FALSE]
    /\ IF IsConnected(r) THEN TrackEnd(connection[r]) ELSE UNCHANGED counters
    /\ slipped' = (slipped \/ phase[r] = "drained")
    /\ UNCHANGED <<details, finalized, usage, silent>>

RequestStep(r) ==
    \/ Start(r)
    \/ TranslateFails(r)
    \/ CallFails(r)
    \/ NotAStream(r)
    \/ AnswerWhole(r)
    \/ WholeRead(r)
    \/ WholeUnreadable(r)
    \/ StreamStarts(r)
    \/ TerminalEvent(r)
    \/ UpstreamEnds(r)
    \/ ReaderDone(r)
    \/ UpstreamBreaks(r)
    \/ StallFires(r)
    \/ AbortSeen(r)
    \/ LateChunk(r)
    \/ LateEnd(r)
    \/ ClientCancels(r)

StreamsNext ==
    \/ \E r \in Request : RequestStep(r)
    \/ \E a \in Account : PendingTimerFires(a)
    \/ DetailsNext /\ UNCHANGED <<counters, streams, silent, slipped>>

(* The timers of the process fire and its own steps are taken; an abort is *)
(* seen by a body that listens, not by one that came past the DNS          *)
(* (Readable.toWeb, proxyFetch.js); the upstream and the client owe        *)
(* nothing.                                                                *)
Fairness ==
    /\ DetailsFairness
    /\ \A r \in Request :
          /\ WF_streamsVars(StallFires(r))
          /\ WF_streamsVars(AbortSeen(r) /\ connection[r] \notin Bypassed)

StreamsSpec == StreamsInit /\ [][StreamsNext]_streamsVars
FairSpec    == StreamsSpec /\ Fairness

-----------------------------------------------------------------------------
(* The requests of an account whose end was not reported.                  *)
Open(a) == {r \in Request : connection[r] = a
                            /\ (phase[r] \in {"calling", "streaming"}
                                \/ r \in silent)}

AllOpen == UNION {Open(a) : a \in Account}

(* The dashboard never shows more requests on an account than run there    *)
(* (or were aborted without a report), whichever handlers raced.           *)
NeverOverstated == \A a \in Account : byAccount[a] <= Cardinality(Open(a))

(* It shows exactly those, on every account and in total, until the first  *)
(* of four things happens: a request that was never counted reports an     *)
(* end, a client leaves after flush() but before it has read the end, a    *)
(* stream ends that the watchdog had given up, or the 60 s timer resets    *)
(* the counters of requests that still run.                                *)
CountIsExact ==
    ~slipped => /\ \A a \in Account : byAccount[a] = Cardinality(Open(a))
                /\ byModel = Cardinality(AllOpen)

(* The usage of an answer is saved once, though its last event and its end *)
(* may both be seen and the client may leave between the two; always when  *)
(* the answer was whole, and never for a request that failed.              *)
AccountedOnce ==
    \A r \in Request :
        /\ usage[r] <= 1
        /\ phase[r] = "drained" => usage[r] = 1
        /\ phase[r] \in {"calling", "reading", "failed"} => usage[r] = 0

(* A stream whose upstream falls silent is given up, and ends for its      *)
(* client, unless its body is one that listens to no abort.                *)
StreamEnds ==
    \A r \in Request :
        phase[r] = "streaming" ~>
            \/ phase[r] \in {"drained", "left", "closed"}
            \/ phase[r] = "aborting" /\ connection[r] \in Bypassed
=============================================================================
