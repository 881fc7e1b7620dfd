-------------------------- MODULE TranslatorState ---------------------------
(***************************************************************************)
(* The state one stream's translators share, the hub chunk (an OpenAI      *)
(* chat.completion.chunk) and the events sent to the client.               *)
(*                                                                         *)
(* translateResponse passes ONE object to both halves of a pivot (provider *)
(* format -> hub -> client format): a field that both halves use is shared *)
(* here exactly as it is there (started, toolCalls, toolCallIndex,         *)
(* finishReasonSent).                                                      *)
(***************************************************************************)
EXTENDS Integers, Sequences, FiniteSets, SequencesExt

None == -1
NoReason == "none"

\* Text fragments are numbered from 1; 0 is no text.  The two tags some
\* providers put around inline reasoning are the only text the code inspects.
ThinkOpen == -1
ThinkClose == -2

NoTools == <<>>

\* A tool_calls entry: chat index, id (0 when absent), whether the function's
\* name is in it, and the arguments' fragments.
ToolDelta(index, id, named, args) ==
    [index |-> index, id |-> id, named |-> named, args |-> args]

\* A hub chunk: at most one piece of reasoning and of text, tool deltas, and
\* the finish reason (NoReason when it has none).
Chunk(think, text, tools, finish) ==
    [think |-> think, text |-> text, tools |-> tools, finish |-> finish]
ThinkChunk(f) == Chunk(f, 0, NoTools, NoReason)
TextChunk(f) == Chunk(0, f, NoTools, NoReason)
ToolChunk(tc) == Chunk(0, 0, <<tc>>, NoReason)
FinishChunk(r) == Chunk(0, 0, NoTools, r)
RoleChunk == Chunk(0, 0, NoTools, NoReason)

InitState == [
    \* shared by several translators
    started |-> FALSE, toolCalls |-> <<>>, toolCallIndex |-> 0,
    finishReasonSent |-> FALSE,
    \* openai-to-claude, kiro-to-claude
    messageStartSent |-> FALSE, nextBlockIndex |-> 0, thinkingBlock |-> None,
    textBlock |-> None, toolArgBuffers |-> <<>>,
    \* openai-responses, towards the client
    msgItemAdded |-> FALSE, msgItemDone |-> FALSE, msgTextBuf |-> <<>>,
    reasoningId |-> FALSE, reasoningDone |-> FALSE, reasoningBuf |-> <<>>,
    inThinking |-> FALSE, funcCallIds |-> <<>>, funcNames |-> {},
    funcItemAdded |-> {}, funcItemDone |-> {}, funcArgsBuf |-> <<>>,
    completedSent |-> FALSE,
    \* openai-to-antigravity
    toolCallAccum |-> <<>>, partIndex |-> 0,
    \* claude-to-openai
    serverToolBlockIndex |-> None, thinkingIndex |-> None, finishReason |-> NoReason,
    \* gemini-to-openai
    functionIndex |-> 0, geminiToolCallCount |-> 0,
    \* openai-responses, from the provider
    respToolChatIndex |-> <<>>, respToolArgsEmitted |-> {},
    \* ollama-to-openai
    hadToolCalls |-> FALSE,
    \* commandcode-to-openai, whose state object is the executor's own
    toolIndexById |-> <<>>, stepFinish |-> NoReason]

\* The value of a map at k, or v when k is not in it; and the map with k set.
Get(m, k, v) == IF k \in DOMAIN m THEN m[k] ELSE v
Put(m, k, v) == [j \in DOMAIN m \union {k} |-> IF j = k THEN v ELSE m[j]]

\* A set of numbers, the lowest first.
InOrder(S) ==
    [n \in 1..Cardinality(S) |->
        CHOOSE i \in S : Cardinality({j \in S : j < i}) = n - 1]
-----------------------------------------------------------------------------
(* Events queued for the client. *)

BeginEvent == [ev |-> "begin"]
OpenEvent(key, kind, tool) ==
    [ev |-> "open", key |-> key, kind |-> kind, tool |-> tool]
DeltaEvent(key, frags) == [ev |-> "delta", key |-> key, frags |-> frags]
CloseEvent(key) == [ev |-> "close", key |-> key]
\* Closing that restates the item's content, as the client keeps it.
DoneEvent(key, frags) == [ev |-> "done", key |-> key, frags |-> frags]
\* A tool_calls entry as a Chat client merges it: by chat index.
CallEvent(key, tool, frags) ==
    [ev |-> "call", key |-> key, tool |-> tool, frags |-> frags]
\* A piece the format sends whole.
PartEvent(key, kind, tool, frags) ==
    [ev |-> "part", key |-> key, kind |-> kind, tool |-> tool, frags |-> frags]
EndEvent(reason) == [ev |-> "end", reason |-> reason]

\* Both halves work on a pair: the state, and what has been emitted so far.
With(st) == [st |-> st, out |-> <<>>]
Emit(s, e) == [s EXCEPT !.out = Append(@, e)]
=============================================================================
