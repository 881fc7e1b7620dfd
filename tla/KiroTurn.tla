------------------------------ MODULE KiroTurn ------------------------------
(***************************************************************************)
(* A turn with Kiro (open-sse/executors/kiro.js).  The answer is an AWS    *)
(* event stream; it is read to its end in private, and only then is it     *)
(* passed on, replaced by an error, or, once, asked for again: when the    *)
(* stream broke, when its tool calls were unusable, or when the text only  *)
(* trails off or promises an action.                                       *)
(*                                                                         *)
(* Text is abstracted to what the gate tells apart: "" none, "ellipsis",   *)
(* "future" (an announcement), "full".  Frames, sizes and usage are left   *)
(* out: a broken frame and an exceeded bound are events.                   *)
(***************************************************************************)
EXTENDS UpstreamCall, FiniteSets

CONSTANTS Tools,     \* ids of the tool calls of a turn
          MaxEvents  \* bound: events of one event stream

VARIABLES phase,    \* "calling", "reading" or "over"
          repairs,  \* kiroToolCallRepair: are unusable tool calls asked for again?
          attempt,  \* 0 until the gate is attached, then 1 or 2
          turn,     \* state of transformEventStreamToSSE
          told      \* what the client gets

vars == <<callVars, phase, repairs, attempt, turn, told>>

Reasons == {"end_turn", "tool_use", "max_tokens", "context_window", "cancelled",
            "refusal", "malformed", "other"}
Truncations == {"context_window", "max_tokens"}
Failures == {"retryable_protocol_failure", "terminal_incomplete", "terminal_refusal",
             "unknown_failure"}

NewTurn == [text |-> "", reasoning |-> "", chunks |-> FALSE, tools |-> <<>>,
            sawToolUse |-> FALSE, toolError |-> FALSE, explicitStop |-> FALSE,
            reason |-> "none", declared |-> {}, ended |-> "no", events |-> 0]
Nothing == [kind |-> "none", text |-> "", tools |-> {}, finish |-> "none"]
-----------------------------------------------------------------------------
(* The reasons a turn may end for. *)

\* stopDisposition
Disposition(reason, hasTools) ==
    IF reason = "malformed" THEN "retryable_protocol_failure"
    ELSE IF reason \in {"cancelled", "context_window"} THEN "terminal_incomplete"
    ELSE IF reason = "refusal" THEN "terminal_refusal"
    ELSE IF reason = "max_tokens" THEN IF hasTools THEN "terminal_incomplete" ELSE "length"
    ELSE IF reason = "other" THEN "unknown_failure"
    ELSE IF hasTools \/ reason = "tool_use" THEN "tool_use" ELSE "complete"

Severity(reason) ==
    LET d == Disposition(reason, FALSE)
    IN CASE d = "terminal_refusal" -> 6 [] d = "terminal_incomplete" -> 5
         [] d = "unknown_failure" -> 4 [] d = "retryable_protocol_failure" -> 3
         [] d = "length" -> 2 [] OTHER -> 1

\* A plausible fault: the last reason counts.
MutantLastReason(current, incoming) == incoming

\* mergeStopReason: the more severe of two, of equals the first.
Merged(current, incoming) ==
    IF current = "none" \/ Severity(incoming) > Severity(current)
    THEN incoming ELSE current

Declare(t, reason) == [t EXCEPT !.explicitStop = TRUE, !.reason = Merged(@, reason),
                                !.declared = @ \union {reason}]
-----------------------------------------------------------------------------
(* processEvent: what an event makes of the turn. *)

\* Text; content inside <thinking> counts as empty.  text is what all of it amounts to.
TextEvents(t) ==
    {[t EXCEPT !.text = text, !.chunks = TRUE] :
        text \in IF t.text = "" THEN {"ellipsis", "future", "full"} ELSE {"future", "full"}}
    \union {[t EXCEPT !.chunks = @ \/ t.reasoning = ""]}

ReasoningEvents(t) ==
    {[t EXCEPT !.chunks = TRUE, !.reasoning = r] :
        r \in IF t.reasoning = "" THEN {"ellipsis", "full"} ELSE {"full"}}

\* A fragment of a tool call, which is as yet usable or not.
Fragment(t, id, usable) ==
    [t EXCEPT !.sawToolUse = TRUE,
              !.tools = [i \in DOMAIN @ \union {id} |-> IF i = id THEN usable ELSE @[i]]]

\* One that contradicts the earlier ones, or names nothing, leaves the others alone.
Rejected(t) == [t EXCEPT !.sawToolUse = TRUE, !.toolError = TRUE]

ToolEvents(t) == {Fragment(t, id, usable) : id \in Tools, usable \in BOOLEAN}
                     \union {Rejected(t)}

StopEvents(t) ==
    {Declare(t, reason) : reason \in Reasons}
    \union {Declare(t, IF t.sawToolUse THEN "tool_use" ELSE "end_turn")}

Events(t) == TextEvents(t) \union ReasoningEvents(t) \union ToolEvents(t) \union StopEvents(t)
-----------------------------------------------------------------------------
(* finish, and what readIntegrityAttempt makes of it. *)

UsableTools(t) == {id \in DOMAIN t.tools : t.tools[id]}
DroppedTools(t) == DOMAIN t.tools \ UsableTools(t)
HasText(t) == t.text # "" \/ t.reasoning # ""

\* A truncated turn that got somewhere is kept.
Truncated(t, chunks) ==
    /\ t.reason \in Truncations
    /\ Disposition(t.reason, t.sawToolUse) = "terminal_incomplete"
    /\ chunks

\* emitTools: a tool turn without a usable call is only fatal if it has nothing else.
\* A plausible fault, the one its comment tells of: one unusable call fails the turn.
MutantToolsFail(t) ==
    \/ t.toolError \/ DroppedTools(t) # {}
    \/ t.reason = "tool_use" /\ UsableTools(t) = {}
ToolsFail(t) ==
    /\ UsableTools(t) = {} /\ ~HasText(t)
    /\ t.reason = "tool_use" \/ t.toolError \/ DroppedTools(t) # {}

FinishReason(t) ==
    IF Truncated(t, t.chunks \/ UsableTools(t) # {}) THEN "length"
    ELSE IF UsableTools(t) # {} THEN "tool_calls"
    ELSE IF t.reason = "max_tokens" THEN "length" ELSE "stop"

Answer(t) == [kind |-> "answer", text |-> t.text, tools |-> UsableTools(t),
              finish |-> FinishReason(t)]

\* The kind of an attempt whose stream ended cleanly.
CleanKind(t) ==
    LET declared == Disposition(t.reason, t.sawToolUse)
        trailsOff == \/ t.text = "ellipsis"
                     \/ t.text = "" /\ t.reasoning = "ellipsis"
    IN IF ~Truncated(t, t.chunks) /\ declared \in Failures
       THEN IF declared = "retryable_protocol_failure" THEN "retryable_stop" ELSE "terminal_stop"
       ELSE IF ToolsFail(t) THEN "invalid_tool"
       ELSE IF UsableTools(t) # {} THEN "complete"
       ELSE IF ~HasText(t) /\ ~t.explicitStop THEN "missing_terminal"
       ELSE IF trailsOff THEN "ellipsis"
       ELSE IF t.text = "future" THEN "short_final" ELSE "complete"
-----------------------------------------------------------------------------
Init == /\ call = [NoCall EXCEPT !.phase = "fetching", !.url = 1, !.hop = 1]
        /\ signal = "live" /\ sent = 1
        /\ phase = "calling" /\ repairs \in BOOLEAN /\ attempt = 0
        /\ turn = NewTurn /\ told = Nothing

Over(what) == phase' = "over" /\ told' = what /\ UNCHANGED <<repairs, attempt, turn>>
Error == [Nothing EXCEPT !.kind = "error"]

Calling == /\ phase = "calling"
           /\ CallStep
           /\ UNCHANGED <<phase, repairs, attempt, turn, told>>

\* What the client gets of a call that brought no answer: the first one's result is
\* for the caller; the second one's is an error of the stream that is already open,
\* unless that was aborted or is no longer read.
Outcome == IF signal = "cancelled" THEN "gone"
           ELSE IF call.result = "aborted" THEN "reset"
           ELSE IF attempt = 0 THEN "status"
           ELSE IF signal = "aborted" /\ call.result = "failed" THEN "reset" ELSE "error"

\* execute returns: an answer is read in private.
Called ==
    /\ phase = "calling" /\ call.phase = "done"
    /\ \/ /\ call.result = "answer"
          /\ phase' = "reading" /\ attempt' = attempt + 1
          /\ UNCHANGED <<repairs, turn, told>>
       \/ call.result # "answer" /\ Over([Nothing EXCEPT !.kind = Outcome])
    /\ call' = NoCall /\ sent' = 0 /\ UNCHANGED signal

Read == /\ phase = "reading" /\ turn.ended = "no" /\ signal = "live"
        /\ turn.events < MaxEvents
        /\ \E t \in Events(turn) : turn' = [t EXCEPT !.events = @ + 1]
        /\ UNCHANGED <<callVars, phase, repairs, attempt, told>>

End(how) == /\ phase = "reading" /\ turn.ended = "no" /\ signal = "live"
            /\ turn' = [turn EXCEPT !.ended = how]
            /\ UNCHANGED <<callVars, phase, repairs, attempt, told>>

Finish == End("clean")            \* the stream ends between two frames
UpstreamError == End("error")     \* an error or exception frame
Oversize == End("oversize")       \* the private buffer is full
Break == End("broken")            \* a corrupt or cut frame, a failed read
Stall == End("broken")            \* nothing comes for too long

Kind == CASE turn.ended = "clean" -> CleanKind(turn)
          [] turn.ended = "error" -> "upstream_error"
          [] turn.ended = "oversize" -> "terminal_stop"
          [] OTHER -> "missing_terminal"

\* runIntegrityRecovery: a second call, of the same execute, for the rest.
Judge ==
    /\ phase = "reading" /\ turn.ended # "no" /\ signal = "live"
    /\ \/ Kind = "complete" /\ Over(Answer(turn)) /\ UNCHANGED callVars
       \/ /\ \/ Kind \in {"terminal_stop", "upstream_error"}
             \/ Kind = "invalid_tool" /\ ~repairs
             \/ Kind # "complete" /\ attempt = 2
          /\ Over(Error) /\ UNCHANGED callVars
       \/ /\ Kind \notin {"complete", "terminal_stop", "upstream_error"}
          /\ Kind = "invalid_tool" => repairs
          /\ attempt = 1
          /\ phase' = "calling" /\ turn' = NewTurn /\ StartCall
          /\ UNCHANGED <<signal, repairs, attempt, told>>

\* An abort ends the reading: the stream is reset, or nobody reads it any more.
ReadAborted ==
    /\ phase = "reading" /\ signal # "live"
    /\ Over([Nothing EXCEPT !.kind = IF signal = "cancelled" THEN "gone" ELSE "reset"])
    /\ UNCHANGED callVars

\* The client goes away, or the stream stalls: neither is noticed before there is a
\* stream to cancel, which exists with the gate.
ClientLeaves == /\ phase # "over" /\ attempt > 0
                /\ Abort("aborted") \/ Abort("cancelled")
                /\ UNCHANGED <<phase, repairs, attempt, turn, told>>

Next == \/ Calling \/ Called \/ Read \/ Finish \/ UpstreamError \/ Oversize \/ Break \/ Stall
        \/ Judge \/ ReadAborted \/ ClientLeaves

\* Timers fire, signals reach the requests that listen, and the executor takes its own
\* steps; the provider owes nothing.
Fairness == /\ WF_vars(ConnectTimeout /\ Calling) /\ WF_vars(Cut /\ Calling)
            /\ WF_vars(WaitOver /\ Calling) /\ WF_vars(Called)
            /\ WF_vars(Stall) /\ WF_vars(Judge) /\ WF_vars(ReadAborted)

Spec == Init /\ [][Next]_vars /\ Fairness
-----------------------------------------------------------------------------
\* At most two calls are made for a turn, and neither sends more requests than its
\* URLs, its retries and the detours of each fetch allow, whatever statuses, timeouts
\* and fallbacks it meets.
CallsBounded == sent <= MostFetches /\ attempt <= 2

\* What is passed on is one whole attempt: its usable calls, and a finish that says
\* whether there are any, and whether the turn was cut short; and nothing the provider
\* refused, whatever else it said and in whatever order, nor, unless its context ran
\* out, a turn it called malformed or gave an unknown end.  Cancelled turns are not
\* claimed about: one whose context ran out first is passed on, which the comment at
\* kiro.js:153-156 says none is.
AnswerIsHonest ==
    told.kind = "answer" =>
        /\ told.tools = UsableTools(turn)
        /\ told.finish = "tool_calls" => told.tools # {}
        /\ told.finish = "stop" => told.tools = {} /\ turn.declared \cap Truncations = {}
        /\ "refusal" \notin turn.declared
        /\ turn.declared \cap {"malformed", "other"} # {}
              => "context_window" \in turn.declared

\* A turn that ended well and has a usable call, or text that says something, is
\* neither lost nor asked for again because of what else is wrong with it.
UsableIsTold ==
    [][/\ phase = "reading" /\ phase' # "reading" /\ signal = "live"
       /\ turn.ended = "clean" /\ turn.declared \subseteq {"end_turn", "tool_use"}
       /\ UsableTools(turn) # {} \/ turn.text = "full"
       => told'.kind = "answer"]_vars

\* However the provider behaves and whenever the client leaves, the turn ends, unless a
\* request that is deaf to its timeout hangs for ever.
TurnEnds == <>(phase = "over") \/ <>[](phase = "calling" /\ Hangs)
=============================================================================
