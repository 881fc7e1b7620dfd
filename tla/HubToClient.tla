---------------------------- MODULE HubToClient -----------------------------
(***************************************************************************)
(* The second half of a pivot: hub chunks to the client's format           *)
(* (openai-to-claude.js, kiro-to-claude.js, openai-responses.js and        *)
(* openai-to-antigravity.js).  A Chat client receives the hub chunks.      *)
(***************************************************************************)
EXTENDS TranslatorState

Block(i) == <<"block", i>>

StopThinkingBlock(s) ==
    IF s.st.thinkingBlock = None THEN s
    ELSE Emit([s EXCEPT !.st.thinkingBlock = None],
              CloseEvent(Block(s.st.thinkingBlock)))

StopTextBlock(s) ==
    IF s.st.textBlock = None THEN s
    ELSE Emit([s EXCEPT !.st.textBlock = None], CloseEvent(Block(s.st.textBlock)))

ClaudeStart(s) ==
    IF s.st.messageStartSent THEN s
    ELSE Emit([s EXCEPT !.st.messageStartSent = TRUE, !.st.nextBlockIndex = 0],
              BeginEvent)

ClaudeThinking(s, f) ==
    IF f = 0 THEN s
    ELSE LET a == StopTextBlock(s)
             b == IF a.st.thinkingBlock # None THEN a
                  ELSE Emit([a EXCEPT !.st.thinkingBlock = a.st.nextBlockIndex,
                                      !.st.nextBlockIndex = @ + 1],
                            OpenEvent(Block(a.st.nextBlockIndex), "think", 0))
         IN Emit(b, DeltaEvent(Block(b.st.thinkingBlock), <<f>>))

ClaudeText(s, f) ==
    IF f = 0 THEN s
    ELSE LET a == StopThinkingBlock(s)
             b == IF a.st.textBlock # None THEN a
                  ELSE Emit([a EXCEPT !.st.textBlock = a.st.nextBlockIndex,
                                      !.st.nextBlockIndex = @ + 1],
                            OpenEvent(Block(a.st.nextBlockIndex), "text", 0))
         IN Emit(b, DeltaEvent(Block(b.st.textBlock), <<f>>))

\* A chat index opens one block, however often its id is repeated; arguments
\* are kept back until the turn finishes.  The direct Kiro translator opens a
\* block for every id it is given.
ClaudeToolCall(s, tc, once) ==
    LET opens == tc.id # 0 /\ (~once \/ tc.index \notin DOMAIN s.st.toolCalls)
        a == IF ~opens THEN s
             ELSE LET b == StopTextBlock(StopThinkingBlock(s))
                  IN Emit([b EXCEPT !.st.toolCalls = Put(@, tc.index, b.st.nextBlockIndex),
                                    !.st.nextBlockIndex = @ + 1],
                          OpenEvent(Block(b.st.nextBlockIndex), "tool", tc.id))
    IN IF tc.args # <<>> /\ tc.index \in DOMAIN a.st.toolCalls
       THEN [a EXCEPT !.st.toolArgBuffers =
                Put(@, tc.index, Get(@, tc.index, <<>>) \o tc.args)]
       ELSE a

\* Each tool block gets its arguments, all at once, and its end.
CloseTool(a, idx) ==
    LET block == Block(a.st.toolCalls[idx])
        args == Get(a.st.toolArgBuffers, idx, <<>>)
        b == IF args = <<>> THEN a ELSE Emit(a, DeltaEvent(block, args))
    IN Emit(b, CloseEvent(block))

\* The words Claude clients are told; every other reason is a plain stop.
FromOpenAIFinish(r) == IF r \in {"length", "tool_calls"} THEN r ELSE "stop"

ClaudeFinish(s, reason) ==
    IF reason = NoReason THEN s
    ELSE Emit(FoldLeft(CloseTool, StopTextBlock(StopThinkingBlock(s)),
                       InOrder(DOMAIN s.st.toolCalls)),
              EndEvent(FromOpenAIFinish(reason)))

OpenAIToClaude(s, c, once) ==
    LET prose == ClaudeText(ClaudeThinking(ClaudeStart(s), c.think), c.text)
        tools == FoldLeft(LAMBDA a, tc : ClaudeToolCall(a, tc, once), prose, c.tools)
    IN ClaudeFinish(tools, c.finish)
-----------------------------------------------------------------------------
MessageItem == <<"message", 0>>
ReasoningItem == <<"reasoning", 0>>
CallItem(id) == <<"call", id>>

ResponsesStart(s) ==
    IF s.st.started THEN s ELSE Emit([s EXCEPT !.st.started = TRUE], BeginEvent)

StartReasoning(s) ==
    IF s.st.reasoningId THEN s
    ELSE Emit([s EXCEPT !.st.reasoningId = TRUE], OpenEvent(ReasoningItem, "think", 0))

EmitReasoningDelta(s, f) ==
    IF f = 0 THEN s
    ELSE Emit([s EXCEPT !.st.reasoningBuf = Append(@, f)],
              DeltaEvent(ReasoningItem, <<f>>))

CloseReasoning(s) ==
    IF ~s.st.reasoningId \/ s.st.reasoningDone THEN s
    ELSE Emit([s EXCEPT !.st.reasoningDone = TRUE],
              DoneEvent(ReasoningItem, s.st.reasoningBuf))

EmitTextContent(s, f) ==
    LET a == IF s.st.msgItemAdded THEN s
             ELSE Emit([s EXCEPT !.st.msgItemAdded = TRUE],
                       OpenEvent(MessageItem, "text", 0))
    IN Emit([a EXCEPT !.st.msgTextBuf = Append(@, f)], DeltaEvent(MessageItem, <<f>>))

CloseMessage(s) ==
    IF ~s.st.msgItemAdded \/ s.st.msgItemDone THEN s
    ELSE Emit([s EXCEPT !.st.msgItemDone = TRUE],
              DoneEvent(MessageItem, s.st.msgTextBuf))

\* A call is announced once both its id and its name are known.
EmitToolCall(s, tc) ==
    LET a == [s EXCEPT !.st.funcNames = IF tc.named THEN @ \union {tc.index} ELSE @,
                       !.st.funcCallIds = IF tc.id = 0 THEN @ ELSE Put(@, tc.index, tc.id)]
        known == tc.index \in DOMAIN a.st.funcCallIds
        b == IF known /\ tc.index \in a.st.funcNames \ a.st.funcItemAdded
             THEN Emit([a EXCEPT !.st.funcItemAdded = @ \union {tc.index}],
                       OpenEvent(CallItem(a.st.funcCallIds[tc.index]), "tool",
                                 a.st.funcCallIds[tc.index]))
             ELSE a
        c == IF tc.args # <<>> /\ known /\ tc.index \in b.st.funcItemAdded
             THEN Emit(b, DeltaEvent(CallItem(b.st.funcCallIds[tc.index]), tc.args))
             ELSE b
    IN [c EXCEPT !.st.funcArgsBuf = Put(@, tc.index, Get(@, tc.index, <<>>) \o tc.args)]

CloseToolCall(s, idx) ==
    IF idx \in s.st.funcItemDone THEN s
    ELSE Emit([s EXCEPT !.st.funcItemDone = @ \union {idx}],
              DoneEvent(CallItem(s.st.funcCallIds[idx]), Get(s.st.funcArgsBuf, idx, <<>>)))

SendCompleted(s) ==
    IF s.st.completedSent THEN s
    ELSE Emit([s EXCEPT !.st.completedSent = TRUE], EndEvent("completed"))

CloseEverything(s) ==
    SendCompleted(FoldLeft(CloseToolCall, CloseReasoning(CloseMessage(s)),
                           InOrder(DOMAIN s.st.funcCallIds)))

\* A plausible fault: the array's presence is enough.
MutantAnyArray(c) == TRUE

\* Some providers attach an empty array of calls to every chunk.
RealCalls(c) == c.tools # <<>>

\* Inside inline reasoning the chunk ends with its text: tool calls and a
\* finish in the same chunk are not looked at.
OpenAIToResponses(s, c) ==
    LET start == ResponsesStart(s)
        think == IF c.think = 0 THEN start
                 ELSE EmitReasoningDelta(StartReasoning(start), c.think)
        text == CASE c.text = 0 -> think
                  [] c.text = ThinkOpen ->
                        StartReasoning([think EXCEPT !.st.inThinking = TRUE])
                  [] c.text = ThinkClose ->
                        [CloseReasoning(think) EXCEPT !.st.inThinking = FALSE]
                  [] OTHER -> IF think.st.inThinking THEN EmitReasoningDelta(think, c.text)
                              ELSE EmitTextContent(think, c.text)
        tools == IF ~RealCalls(c) THEN text
                 ELSE FoldLeft(EmitToolCall, CloseMessage(text), c.tools)
    IN IF c.text > 0 /\ think.st.inThinking THEN text
       ELSE IF c.finish = NoReason THEN tools ELSE CloseEverything(tools)

FlushEvents(s) == IF s.st.completedSent THEN s ELSE CloseEverything(s)
-----------------------------------------------------------------------------
Part(s, kind, tool, frags) ==
    Emit([s EXCEPT !.st.partIndex = @ + 1],
         PartEvent(<<"part", s.st.partIndex>>, kind, tool, frags))

Prose(s, c) ==
    LET think == IF c.think = 0 THEN s ELSE Part(s, "think", 0, <<c.think>>)
    IN IF c.text = 0 THEN think ELSE Part(think, "text", 0, <<c.text>>)

Accumulate(a, tc) ==
    LET old == Get(a.st.toolCallAccum, tc.index, [id |-> 0, args |-> <<>>])
    IN [a EXCEPT !.st.toolCallAccum =
            Put(@, tc.index, [id |-> IF tc.id # 0 THEN tc.id ELSE old.id,
                              args |-> old.args \o tc.args])]

FunctionCall(a, idx) ==
    Part(a, "tool", a.st.toolCallAccum[idx].id, a.st.toolCallAccum[idx].args)

\* Gemini's words: a turn that calls tools stops like any other.
ReasonMap(r) == IF r \in {"length", "content_filter"} THEN r ELSE "stop"

\* Antigravity clients get tool calls whole, with the finish.  Reasoning is read
\* from reasoning_content only: what a provider puts aside, in a field of its own
\* (reasoning, reasoning_details), is not seen.
OpenAIToAntigravity(s, c, aside) ==
    LET seen == IF aside THEN [c EXCEPT !.think = 0] ELSE c
        heard == FoldLeft(Accumulate, Prose(s, seen), c.tools)
    IN IF c.finish = NoReason THEN heard
       ELSE Emit(FoldLeft(FunctionCall, heard, InOrder(DOMAIN heard.st.toolCallAccum)),
                 EndEvent(ReasonMap(c.finish)))

\* A Chat client merges tool deltas by their index.
ToChat(s, c) ==
    LET tools == FoldLeft(LAMBDA a, tc :
                     Emit(a, CallEvent(<<"index", tc.index>>, tc.id, tc.args)),
                     Prose(s, c), c.tools)
    IN IF c.finish = NoReason THEN tools ELSE Emit(tools, EndEvent(c.finish))
=============================================================================
