--------------------------- MODULE ProviderToHub ----------------------------
(***************************************************************************)
(* The first half of a pivot: a provider's stream events to hub chunks     *)
(* (claude-, gemini-, ollama- and commandcode-to-openai.js, and            *)
(* openai-responses.js towards Chat).  Each operator takes the shared      *)
(* state and an event and gives the state and the chunks.  Fragments and   *)
(* tool ids are numbers, 0 when absent.                                    *)
(***************************************************************************)
EXTENDS TranslatorState

Hub(st, chunks) == [st |-> st, chunks |-> chunks]
Silent(st) == Hub(st, <<>>)
Frags(f) == IF f = 0 THEN <<>> ELSE <<f>>

\* The hub's word for the reason a format gives; what a table does not know is a
\* plain stop, or stays as it is.  The formats' own spellings are one value here.
ToOpenAIFinish(r, format) ==
    LET known == CASE format = "claude" -> {"stop", "length", "tool_calls"}
                   [] format = "gemini" -> {"stop", "length", "content_filter"}
                   [] format = "ollama" -> {"stop", "length", "tool_calls"}
                   [] OTHER -> {r}
    IN IF r \in known THEN r ELSE "stop"
-----------------------------------------------------------------------------
\* Claude: [type, index, kind, tool, f, reason]

ClaudeBlockStart(st, e) ==
    CASE e.kind = "server" -> Silent([st EXCEPT !.serverToolBlockIndex = e.index])
      [] e.kind = "text" -> Silent(st)
      [] e.kind = "think" -> Hub([st EXCEPT !.thinkingIndex = e.index],
                                 <<TextChunk(ThinkOpen)>>)
      [] e.kind = "tool" ->
            Hub([st EXCEPT !.toolCalls = Put(@, e.index, st.toolCallIndex),
                           !.toolCallIndex = @ + 1],
                <<ToolChunk(ToolDelta(st.toolCallIndex, e.tool, TRUE, <<>>))>>)

ClaudeBlockDelta(st, e) ==
    CASE e.index = st.serverToolBlockIndex -> Silent(st)
      [] e.kind = "text" -> Hub(st, <<TextChunk(e.f)>>)
      [] e.kind = "think" -> Hub(st, <<ThinkChunk(e.f)>>)
      [] e.kind = "tool" ->
            Hub(st, IF e.index \in DOMAIN st.toolCalls
                    THEN <<ToolChunk(ToolDelta(st.toolCalls[e.index], e.tool, FALSE, <<e.f>>))>>
                    ELSE <<>>)

ClaudeBlockStop(st, e) ==
    IF e.index = st.serverToolBlockIndex
    THEN Silent([st EXCEPT !.serverToolBlockIndex = None])
    ELSE IF e.index = st.thinkingIndex
    THEN Hub([st EXCEPT !.thinkingIndex = None], <<TextChunk(ThinkClose)>>)
    ELSE Silent(st)

\* message_delta finishes the turn when it carries a stop reason.
ClaudeMessageDelta(st, e) ==
    IF e.reason = NoReason THEN Silent(st)
    ELSE LET r == ToOpenAIFinish(e.reason, "claude")
         IN Hub([st EXCEPT !.finishReason = r, !.finishReasonSent = TRUE], <<FinishChunk(r)>>)

\* A plausible fault: only message_delta finishes a turn.
MutantTrustsDelta(st) == Silent(st)

\* message_stop finishes it when nothing has.
ClaudeMessageStop(st) ==
    IF st.finishReasonSent THEN Silent(st)
    ELSE Hub([st EXCEPT !.finishReasonSent = TRUE],
             <<FinishChunk(IF st.finishReason # NoReason THEN st.finishReason
                           ELSE IF st.toolCalls # <<>> THEN "tool_calls" ELSE "stop")>>)

ClaudeToOpenAI(st, e) ==
    CASE e.type = "message_start" -> Hub([st EXCEPT !.toolCallIndex = 0], <<RoleChunk>>)
      [] e.type = "content_block_start" -> ClaudeBlockStart(st, e)
      [] e.type = "content_block_delta" -> ClaudeBlockDelta(st, e)
      [] e.type = "content_block_stop" -> ClaudeBlockStop(st, e)
      [] e.type = "message_delta" -> ClaudeMessageDelta(st, e)
      [] e.type = "message_stop" -> ClaudeMessageStop(st)
-----------------------------------------------------------------------------
\* Gemini: a chunk of parts [kind, tool, f], and a finish reason.

GeminiPart(h, part) ==
    IF part.kind # "tool"
    THEN [h EXCEPT !.chunks = Append(@, IF part.kind = "think" THEN ThinkChunk(part.f)
                                        ELSE TextChunk(part.f))]
    ELSE Hub([h.st EXCEPT !.functionIndex = @ + 1, !.geminiToolCallCount = @ + 1],
             Append(h.chunks, ToolChunk(ToolDelta(h.st.functionIndex, part.tool, TRUE,
                                                  Frags(part.f)))))

\* Gemini says STOP for a turn that calls tools.
GeminiToOpenAI(st, e) ==
    LET parts == FoldLeft(GeminiPart, Silent(st), e.parts)
        told == ToOpenAIFinish(e.reason, "gemini")
        reason == IF told = "stop" /\ parts.st.geminiToolCallCount > 0
                  THEN "tool_calls" ELSE told
    IN IF e.reason = NoReason THEN parts
       ELSE [parts EXCEPT !.chunks = Append(@, FinishChunk(reason)),
                          !.st.finishReason = reason]
-----------------------------------------------------------------------------
\* Ollama: a message [think, text, tools], or done with a reason.

\* A call without an index is numbered by its place in its own message.
ConvertToolCalls(tools) ==
    [i \in 1..Len(tools) |-> IF tools[i].index # None THEN tools[i]
                             ELSE [tools[i] EXCEPT !.index = i - 1]]

OllamaToOpenAI(st, e) ==
    IF e.done
    THEN Hub(st, <<FinishChunk(IF st.hadToolCalls THEN "tool_calls"
                               ELSE ToOpenAIFinish(e.reason, "ollama"))>>)
    ELSE Hub([st EXCEPT !.hadToolCalls = @ \/ e.tools # <<>>],
             <<Chunk(e.think, e.text, ConvertToolCalls(e.tools), NoReason)>>)
-----------------------------------------------------------------------------
\* CommandCode: AI SDK events [type, tool, f, reason].

CommandCodeToolStart(st, e) ==
    LET idx == Get(st.toolIndexById, e.tool, Cardinality(DOMAIN st.toolIndexById))
    IN Hub([st EXCEPT !.toolIndexById = Put(@, e.tool, idx)],
           <<ToolChunk(ToolDelta(idx, e.tool, TRUE, <<>>))>>)

CommandCodeToOpenAI(st, e) ==
    CASE e.type = "text-delta" -> Hub(st, <<TextChunk(e.f)>>)
      [] e.type = "reasoning-delta" -> Hub(st, <<ThinkChunk(e.f)>>)
      [] e.type = "tool-input-start" -> CommandCodeToolStart(st, e)
      [] e.type = "tool-input-delta" ->
            Hub(st, IF e.tool \in DOMAIN st.toolIndexById
                    THEN <<ToolChunk(ToolDelta(st.toolIndexById[e.tool], 0, FALSE, <<e.f>>))>>
                    ELSE <<>>)
      [] e.type = "tool-call" ->        \* the whole call, unless it was streamed
            IF e.tool \in DOMAIN st.toolIndexById THEN Silent(st)
            ELSE LET h == CommandCodeToolStart(st, e)
                 IN [h EXCEPT !.chunks[1].tools[1].args = Frags(e.f)]
      [] e.type = "finish-step" ->
            Silent([st EXCEPT !.stepFinish = ToOpenAIFinish(e.reason, "commandcode")])
      [] e.type = "finish" ->
            Hub(st, <<FinishChunk(IF st.stepFinish # NoReason THEN st.stepFinish ELSE "stop")>>)
-----------------------------------------------------------------------------
\* OpenAI Responses: [type, tool, f].  A call's chat index is given to its item
\* id when the item is added; deltas and the final arguments are matched by id.

ComputeFinishReason(st) == IF st.toolCallIndex > 0 THEN "tool_calls" ELSE "stop"

ResponsesItemAdded(st, e) ==
    LET idx == Get(st.respToolChatIndex, e.tool, st.toolCallIndex)
    IN Hub([st EXCEPT !.respToolChatIndex = Put(@, e.tool, idx),
                      !.toolCallIndex = IF e.tool \in DOMAIN st.respToolChatIndex
                                        THEN @ ELSE @ + 1],
           <<ToolChunk(ToolDelta(idx, e.tool, TRUE, <<>>))>>)

\* A plausible fault: arguments belong to the call announced last.
MutantByPosition(st, e) ==
    LET last == IF st.toolCallIndex = 0 THEN 0 ELSE st.toolCallIndex - 1
    IN Hub([st EXCEPT !.respToolArgsEmitted = @ \union {last}],
           <<ToolChunk(ToolDelta(last, 0, FALSE, <<e.f>>))>>)

ResponsesArgs(st, e) ==
    LET last == IF st.toolCallIndex = 0 THEN 0 ELSE st.toolCallIndex - 1
        idx == Get(st.respToolChatIndex, e.tool, last)
    IN Hub([st EXCEPT !.respToolArgsEmitted = @ \union {idx}],
           <<ToolChunk(ToolDelta(idx, 0, FALSE, <<e.f>>))>>)

\* The finished item carries the whole arguments: used only when none was streamed.
ResponsesItemDone(st, e) ==
    LET last == IF st.toolCallIndex = 0 THEN 0 ELSE st.toolCallIndex - 1
    IN IF e.f = 0 \/ Get(st.respToolChatIndex, e.tool, last) \in st.respToolArgsEmitted
       THEN Silent(st)
       ELSE ResponsesArgs(st, e)

ResponsesFinish(st) ==
    IF st.finishReasonSent THEN Silent(st)
    ELSE Hub([st EXCEPT !.finishReasonSent = TRUE],
             <<FinishChunk(ComputeFinishReason(st))>>)

\* error and response.failed come back to back: the first one is told.
ResponsesError(st, e) ==
    IF st.finishReasonSent \/ e.f = 0 THEN Silent(st)
    ELSE Hub([st EXCEPT !.finishReasonSent = TRUE],
             <<Chunk(0, e.f, NoTools, "stop")>>)

ResponsesToOpenAI(st0, e) ==
    LET st == IF st0.started THEN st0
              ELSE [st0 EXCEPT !.started = TRUE, !.toolCallIndex = 0]
    IN CASE e.type = "output_text.delta" -> Hub(st, <<TextChunk(e.f)>>)
         [] e.type = "reasoning.delta" -> Hub(st, <<ThinkChunk(e.f)>>)
         [] e.type = "item.added" -> ResponsesItemAdded(st, e)
         [] e.type = "arguments.delta" -> ResponsesArgs(st, e)
         [] e.type = "item.done" -> ResponsesItemDone(st, e)
         [] e.type = "completed" -> ResponsesFinish(st)
         [] e.type \in {"error", "failed"} -> ResponsesError(st, e)
         [] OTHER -> Silent(st)

\* The stream ended: the finish chunk, if the turn has begun without one.
ResponsesFlush(st) == IF st.started THEN ResponsesFinish(st) ELSE Silent(st)
=============================================================================
