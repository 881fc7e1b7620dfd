----------------------------- MODULE Translation ----------------------------
(***************************************************************************)
(* A streamed answer on its way from a provider's format to the client's:  *)
(* translateResponse (open-sse/translator/index.js) driven by the          *)
(* transform of createSSEStream (open-sse/utils/stream.js), which calls it *)
(* for each provider event and once more, with null, at the end.           *)
(*                                                                         *)
(* The provider is the environment: it may send any stream its protocol    *)
(* allows, and stop anywhere.  The client is a reader that believes what   *)
(* it is sent; ClientStream says what it may be sent.  What the            *)
(* translators are known to get wrong is kept apart by name (amiss).       *)
(***************************************************************************)
EXTENDS HubToClient, ProviderToHub

CONSTANTS Upstreams, Clients,
          MaxFrags,     \* fragments of text, reasoning or arguments per stream
          MaxTools      \* tool calls per stream

ASSUME TranslationAssumption ==
    /\ Upstreams \subseteq {"openai", "kiro", "claude", "gemini", "ollama",
                            "commandcode", "responses"}
    /\ Clients \subseteq {"openai", "claude", "responses", "antigravity"}
    /\ MaxFrags \in Nat /\ MaxTools \in Nat \ {0}

VARIABLES up, cl,       \* the two formats, fixed for the stream
          aside,        \* the provider has a field of its own for reasoning
          state,        \* the translators' shared state
          src,          \* where the provider is in its protocol
          said,         \* what it has said: a set of [kind, tool, f]
          queue,        \* events enqueued and not yet read by the client
          phase, items, \* the client's view of the message
          reason,       \* and the stop reason it was told
          flow,         \* "open" or "flushed"
          amiss         \* what of this stream the translators do not get right

vars == <<up, cl, aside, state, src, said, queue, phase, items, reason, flow, amiss>>
formats == <<up, cl, aside>>
client == <<phase, items, reason>>

Said(kind, tool, f) == [kind |-> kind, tool |-> tool, f |-> f]
-----------------------------------------------------------------------------
(* The providers.  A step of one is [event, src, said, odd]: odd names what  *)
(* its translator is known to get wrong of the event.                      *)

NoBlock == [index |-> None, kind |-> "text", tool |-> 0]

SrcStart == [n |-> 0,          \* fragments sent
             tools |-> 0,      \* tool calls announced: ids 1..tools
             argued |-> {},    \* those whose arguments have begun
             unnamed |-> {},   \* those announced without their name
             block |-> NoBlock,\* Claude: the open block
             blocks |-> 0,     \* Claude: blocks begun
             tag |-> "none",   \* reasoning between tags, or in a thinking block:
                               \* "none", "open", "closed", or open "again"
             why |-> NoReason,       \* the finish reason sent
             begun |-> FALSE, over |-> FALSE]

Step(e, s, heard) ==
    [event |-> e, src |-> [s EXCEPT !.begun = TRUE], said |-> heard, odd |-> {}]
Odd(m, steps) == {[step EXCEPT !.odd = {m}] : step \in steps}

\* The step sends one more fragment, when there is one left.
Fragment(s, e(_), kind, tool) ==
    IF s.n = MaxFrags THEN {}
    ELSE {Step(e(s.n + 1),
               [s EXCEPT !.n = @ + 1,
                         !.argued = IF kind = "tool" THEN @ \union {tool} ELSE @],
               {Said(kind, tool, s.n + 1)})}

NewTool(s) == [s EXCEPT !.tools = @ + 1]
\* It sends one more of a kind, and with it one more of a call's arguments.
Pair(s, e(_), kind, tool) ==
    IF s.n + 2 > MaxFrags THEN {}
    ELSE {Step(e(s.n + 1), [s EXCEPT !.n = @ + 2, !.argued = @ \union {tool}],
               {Said(kind, 0, s.n + 1), Said("tool", tool, s.n + 2)})}

Over(s, r) == [s EXCEPT !.why = r, !.over = TRUE]

\* Why a turn ends: it is whole, or calls tools; it is cut at its length; it is
\* withheld (a filter, a refusal); or for a reason the tables have no word for (a
\* pause).  Kiro's executor has the first three only.
Reasons(s) == {IF s.tools > 0 THEN "tool_calls" ELSE "stop", "length"}
                \union IF up = "kiro" THEN {} ELSE {"content_filter", "other"}

\* Reasoning begins, and ends.
Tagged(s) == s.tag \in {"open", "again"}
TagOpens(s) == [s EXCEPT !.tag = IF @ = "none" THEN "open" ELSE "again"]
TagCloses(s) == [s EXCEPT !.tag = "closed"]
TextKind(s) == IF Tagged(s) THEN "tagged" ELSE "text"

\* Chat chunks, plain: what Kiro's and CommandCode's executors emit.
PlainChunks(s) ==
    LET id == s.tools + 1
    IN Fragment(s, ThinkChunk, "think", 0)
       \union Fragment(s, TextChunk, TextKind(s), 0)
       \union (UNION {Fragment(s, LAMBDA f : ToolChunk(ToolDelta(t - 1, 0, FALSE, <<f>>)),
                              "tool", t) : t \in (1..s.tools) \ s.unnamed})
       \union (IF s.tools = MaxTools THEN {}
               ELSE {Step(ToolChunk(ToolDelta(id - 1, id, TRUE, <<>>)), NewTool(s), {})})
       \union (IF s.unnamed # {} THEN {}
               ELSE {Step(FinishChunk(r), Over(s, r), {}) : r \in Reasons(s)})

\* The shapes compatible providers send besides: a role on its own, reasoning and
\* text in one chunk, reasoning between tags, a call whole, a call whose name
\* follows its id, an id repeated with the arguments, text with the finish, text
\* between tags with a call or with a piece of its arguments.
CompatibleChunks(s) ==
    LET id == s.tools + 1
        start(named, args) == ToolChunk(ToolDelta(id - 1, id, named, args))
        with(f, tc) == Chunk(0, f, <<tc>>, NoReason)
    IN (IF s.begun THEN {} ELSE {Step(RoleChunk, s, {})})
       \union (IF Tagged(s) \/ s.n + 2 > MaxFrags THEN {}
               ELSE {Step(Chunk(s.n + 1, s.n + 2, NoTools, NoReason), [s EXCEPT !.n = @ + 2],
                          {Said("think", 0, s.n + 1), Said("text", 0, s.n + 2)})})
       \union (IF Tagged(s) THEN {Step(TextChunk(ThinkClose), TagCloses(s), {})}
               ELSE IF s.n = MaxFrags THEN {}
               ELSE {Step(TextChunk(ThinkOpen), [TagOpens(s) EXCEPT !.n = @ + 1], {})})
       \union (IF s.tools = MaxTools THEN {}
               ELSE Fragment(NewTool(s), LAMBDA f : start(TRUE, <<f>>), "tool", id)
                    \union {Step(start(FALSE, <<>>),
                                 [NewTool(s) EXCEPT !.unnamed = @ \union {id}], {})})
       \union {Step(ToolChunk(ToolDelta(t - 1, 0, TRUE, <<>>)), [s EXCEPT !.unnamed = @ \ {t}], {})
               : t \in s.unnamed}
       \union (UNION {Fragment(s, LAMBDA f : ToolChunk(ToolDelta(t - 1, t, FALSE, <<f>>)),
                              "tool", t) : t \in (1..s.tools) \ s.unnamed})
       \union (IF s.unnamed # {} THEN {}
               ELSE UNION {Fragment(Over(s, r), LAMBDA f : Chunk(0, f, NoTools, r),
                                    TextKind(s), 0)
                           : r \in Reasons(s)})
       \union (IF ~Tagged(s) THEN {}
               ELSE (IF s.tools = MaxTools THEN {}
                     ELSE Fragment(NewTool(s), LAMBDA f : with(f, ToolDelta(id - 1, id, TRUE, <<>>)),
                                   "tagged", 0))
                    \union UNION {Pair(s, LAMBDA f : with(f, ToolDelta(t - 1, 0, FALSE, <<f + 1>>)),
                                       "tagged", t) : t \in (1..s.tools) \ s.unnamed})

ClaudeEv(type, b, f, r) ==
    [type |-> type, index |-> b.index, kind |-> b.kind, tool |-> b.tool, f |-> f, reason |-> r]

\* Claude: blocks one after the other, then message_delta (usage alone, or with
\* the stop reason) and message_stop.
ClaudeEvents(s) ==
    LET block(kind) == [index |-> s.blocks, kind |-> kind,
                        tool |-> IF kind = "tool" THEN s.tools + 1 ELSE 0]
        opened(kind) == [(IF kind = "think" THEN TagOpens(s) ELSE s) EXCEPT
                            !.block = block(kind), !.blocks = @ + 1,
                            !.tools = IF kind = "tool" THEN @ + 1 ELSE @]
        closed == [(IF s.block.kind = "think" THEN TagCloses(s) ELSE s) EXCEPT !.block = NoBlock]
        delta(f) == ClaudeEv("content_block_delta", s.block, f, NoReason)
    IN IF ~s.begun THEN {Step(ClaudeEv("message_start", NoBlock, 0, NoReason), s, {})}
       ELSE IF s.block # NoBlock
       THEN {Step(ClaudeEv("content_block_stop", s.block, 0, NoReason), closed, {})}
            \union (IF s.block.kind = "server"
                    THEN {Step(delta(1), s, {})}
                    ELSE Fragment(s, delta, s.block.kind, s.block.tool))
       ELSE {Step(ClaudeEv("content_block_start", block(k), 0, NoReason), opened(k), {})
             : k \in {k \in {"text", "think", "server", "tool"} :
                        /\ s.blocks < MaxFrags /\ s.why = NoReason
                        /\ k = "tool" => s.tools < MaxTools}}
            \union {Step(ClaudeEv("message_delta", NoBlock, 0, r), [s EXCEPT !.why = r], {})
                    : r \in IF s.why = NoReason THEN Reasons(s) \union {NoReason} ELSE {}}
            \union {Step(ClaudeEv("message_stop", NoBlock, 0, NoReason),
                         Over(s, IF s.why # NoReason THEN s.why
                                 ELSE IF s.tools > 0 THEN "tool_calls" ELSE "stop"), {})}

\* Gemini: parts, one or two to a chunk, and the finish with or without a part.
GeminiEvents(s) ==
    LET part(kind, tool, f) == [kind |-> kind, tool |-> tool, f |-> f]
        ev(parts, r) == [parts |-> parts, reason |-> r]
        prose(k, s1, r) == Fragment(s1, LAMBDA f : ev(<<part(k, 0, f)>>, r), k, 0)
        id == s.tools + 1
        call(s1, r) == IF s.tools = MaxTools THEN {}
                       ELSE Fragment(NewTool(s1), LAMBDA f : ev(<<part("tool", id, f)>>, r),
                                     "tool", id)
        why(r) == IF s.tools > 0 /\ r = "stop" THEN "tool_calls" ELSE r
        last(r) == Over(s, why(r))
        ends == {"stop", "length", "content_filter", "other"}
    IN (UNION {prose(k, s, NoReason) : k \in {"think", "text"}}) \union call(s, NoReason)
       \union (IF s.tools + 2 > MaxTools \/ s.n + 2 > MaxFrags THEN {}
               ELSE {Step(ev(<<part("tool", id, s.n + 1), part("tool", id + 1, s.n + 2)>>, NoReason),
                          [s EXCEPT !.tools = @ + 2, !.n = @ + 2],
                          {Said("tool", id, s.n + 1), Said("tool", id + 1, s.n + 2)})})
       \union (UNION {{Step(ev(<<>>, r), last(r), {})}
                     \union prose("text", last(r), r) : r \in ends})
       \union call(Over(s, "tool_calls"), "stop")

\* Ollama: thinking, text, and calls whole, one to a message, with an index or
\* without.  A call without one is taken for the first whatever came before.
OllamaEvents(s) ==
    LET ev(think, text, tools) == [done |-> FALSE, think |-> think, text |-> text,
                                   tools |-> tools, reason |-> NoReason]
        id == s.tools + 1
        call(index) == Fragment(NewTool(s), LAMBDA f : ev(0, 0, <<ToolDelta(index, id, TRUE, <<f>>)>>),
                                "tool", id)
    IN Fragment(s, LAMBDA f : ev(f, 0, NoTools), "think", 0)
       \union Fragment(s, LAMBDA f : ev(0, f, NoTools), "text", 0)
       \union (IF s.tools = MaxTools THEN {}
               ELSE call(id - 1)
                    \union IF s.tools = 0 THEN call(None) ELSE Odd("merged", call(None)))
       \union {Step([done |-> TRUE, reason |-> r],
                    Over(s, IF s.tools > 0 /\ r = "stop" THEN "tool_calls" ELSE r), {})
               : r \in {"stop", "length", "other"}}

\* CommandCode: a call streamed and then restated, or sent whole; the step's
\* finish before the turn's.
CommandCodeEvents(s) ==
    LET ev(type, tool, f, r) == [type |-> type, tool |-> tool, f |-> f, reason |-> r]
        id == s.tools + 1
        streaming == s.why = NoReason
    IN IF ~streaming THEN {Step(ev("finish", 0, 0, NoReason), Over(s, s.why), {})}
       ELSE Fragment(s, LAMBDA f : ev("text-delta", 0, f, NoReason), "text", 0)
            \union Fragment(s, LAMBDA f : ev("reasoning-delta", 0, f, NoReason), "think", 0)
            \union (UNION {Fragment(s, LAMBDA f : ev("tool-input-delta", t, f, NoReason), "tool", t)
                          : t \in 1..s.tools})
            \union {Step(ev("tool-call", t, s.n, NoReason), s, {}) : t \in s.argued}
            \union (IF s.tools = MaxTools THEN {}
                    ELSE {Step(ev("tool-input-start", id, 0, NoReason), NewTool(s), {})}
                         \union Fragment(NewTool(s), LAMBDA f : ev("tool-call", id, f, NoReason),
                                         "tool", id))
            \union {Step(ev("finish-step", 0, 0, r), [s EXCEPT !.why = r], {})
                    : r \in Reasons(s)}

\* Responses: calls in parallel, told apart by their item's id; the item's end
\* restates its arguments.  A failure sends error and response.failed; an answer
\* cut at its length ends with response.incomplete.
ResponsesEvents(s) ==
    LET ev(type, tool, f) == [type |-> type, tool |-> tool, f |-> f]
        id == s.tools + 1
        restated(t) == IF t \in s.argued THEN {Step(ev("item.done", t, s.n), s, {})}
                       ELSE Fragment(s, LAMBDA f : ev("item.done", t, f), "tool", t)
    IN IF s.why = "error" THEN {Step(ev("failed", 0, s.n), Over(s, "error"), {})}
       ELSE Fragment(s, LAMBDA f : ev("output_text.delta", 0, f), "text", 0)
            \union Fragment(s, LAMBDA f : ev("reasoning.delta", 0, f), "think", 0)
            \union (IF s.tools = MaxTools THEN {}
                    ELSE {Step(ev("item.added", id, 0), NewTool(s), {})})
            \union (UNION {Fragment(s, LAMBDA f : ev("arguments.delta", t, f), "tool", t)
                          \union restated(t) : t \in 1..s.tools})
            \union {Step(ev("completed", 0, 0),
                         Over(s, IF s.tools > 0 THEN "tool_calls" ELSE "stop"), {}),
                    Step(ev("incomplete", 0, 0), Over(s, "length"), {})}
            \union Fragment([s EXCEPT !.why = "error"], LAMBDA f : ev("error", 0, f), "text", 0)

Provider(s) ==
    CASE up = "openai" -> PlainChunks(s) \union CompatibleChunks(s)
      [] up = "kiro" -> PlainChunks(s)
      [] up = "claude" -> ClaudeEvents(s)
      [] up = "gemini" -> GeminiEvents(s)
      [] up = "ollama" -> OllamaEvents(s)
      [] up = "commandcode" -> CommandCodeEvents(s)
      [] up = "responses" -> ResponsesEvents(s)
-----------------------------------------------------------------------------
(* translateResponse: provider -> hub -> client.                           *)

ToHub(e) ==
    CASE up \in {"openai", "kiro"} -> Hub(state, <<e>>)
      [] up = "claude" -> ClaudeToOpenAI(state, e)
      [] up = "gemini" -> GeminiToOpenAI(state, e)
      [] up = "ollama" -> OllamaToOpenAI(state, e)
      [] up = "commandcode" -> CommandCodeToOpenAI(state, e)
      [] up = "responses" -> ResponsesToOpenAI(state, e)

FromHub(s, c) ==
    CASE cl = "openai" -> ToChat(s, c)
      [] cl = "claude" -> OpenAIToClaude(s, c, up # "kiro")
      [] cl = "responses" -> OpenAIToResponses(s, c)
      [] cl = "antigravity" -> OpenAIToAntigravity(s, c, aside)

Pivot(hub) == FoldLeft(FromHub, With(hub.st), hub.chunks)

\* At the end of the stream translateResponse is called with null: only the
\* first half of the pivot sees it, and only two translators answer to it.
Flushed == CASE up = "openai" /\ cl = "responses" -> FlushEvents(With(state))
             [] up = "responses" -> Pivot(ResponsesFlush(state))
             [] OTHER -> With(state)
-----------------------------------------------------------------------------
(* What is known to go wrong, by name.                                     *)

\* A Responses translator opens one text item and one reasoning item.  A provider
\* that comes back to text after it has called a tool, or to reasoning after that
\* has ended, is given further fragments of an item that is done.
Returns(s, c) == \/ c.think # 0 /\ s.tag \in {"closed", "again"}
                 \/ c.text > 0 /\ s.tag = "again"
                 \/ c.text > 0 /\ s.tag # "open" /\ s.tools > 0

\* It does not look at a call in the chunk of a text between tags.
Hides(c) == c.text > 0 /\ c.tools # <<>>

Slips(hub) ==
    IF cl # "responses" THEN {}
    ELSE {m \in {"returned", "hidden"} : \E i \in DOMAIN hub.chunks :
            IF m = "returned" THEN Returns(src, hub.chunks[i]) ELSE Hides(hub.chunks[i])}

\* At the end of the stream it closes a call it never opened, whose name had not come.
Unopened == IF cl = "responses" /\ src.unnamed # {} THEN {"unnamed"} ELSE {}
-----------------------------------------------------------------------------
Init == /\ up \in Upstreams
        /\ cl \in Clients \ {up}
        /\ aside \in IF up = "openai" /\ cl = "antigravity" THEN BOOLEAN ELSE {FALSE}
        /\ state = InitState
        /\ src = SrcStart
        /\ said = {} /\ queue = <<>>
        /\ phase = "idle" /\ items = <<>> /\ reason = NoReason
        /\ flow = "open" /\ amiss = {}

\* transform: the queue holds what one provider event became.
Receive == /\ flow = "open" /\ queue = <<>> /\ ~src.over
           /\ \E step \in Provider(src) :
                 LET hub == ToHub(step.event)
                     t == Pivot(hub)
                 IN /\ src' = step.src
                    /\ amiss' = amiss \union step.odd \union Slips(hub)
                    /\ said' = said \union step.said
                    /\ state' = t.st
                    /\ queue' = t.out
           /\ UNCHANGED <<formats, client, flow>>

\* flush: the provider closed the stream, at its end or before.
Flush == /\ flow = "open" /\ queue = <<>>
         /\ flow' = "flushed"
         /\ amiss' = amiss \union Unopened
         /\ state' = Flushed.st
         /\ queue' = Flushed.out
         /\ UNCHANGED <<formats, src, said, client>>

Item(kind, tool, status, frags) ==
    [kind |-> kind, tool |-> tool, status |-> status, frags |-> frags]

\* What the client's items make of an event.  Whatever it could make nothing of
\* leaves a mark ("stray", "twice") that no message of ClientStream has.
Heard(its, e) ==
    LET old == Get(its, e.key, Item("none", 0, "stray", <<>>))
        grown == [old EXCEPT !.frags = @ \o e.frags]
        ended == IF old.status = "open" THEN "closed" ELSE "twice"
    IN CASE e.ev = "open" -> Item(e.kind, e.tool, IF e.key \in DOMAIN its
                                                  THEN "twice" ELSE "open", <<>>)
         [] e.ev = "delta" -> grown
         [] e.ev = "close" -> [old EXCEPT !.status = ended]
         [] e.ev = "done" -> [old EXCEPT !.status = ended, !.frags = e.frags]
         [] e.ev = "call" -> IF e.key \notin DOMAIN its
                             THEN Item("tool", e.tool, "open", e.frags)
                             ELSE IF e.tool \in {0, old.tool} THEN grown
                             ELSE [grown EXCEPT !.status = "stray"]
         [] e.ev = "part" -> Item(e.kind, e.tool, "closed", e.frags)

\* The client's view after an event.
View == [phase |-> phase, items |-> items, reason |-> reason]
After(v, e) ==
    CASE e.ev = "begin" -> [v EXCEPT !.phase = IF @ = "idle" THEN "begun" ELSE "twice"]
      [] e.ev = "end" -> [v EXCEPT !.phase = IF @ = "ended" THEN "twice" ELSE "ended",
                                   !.reason = e.reason]
      [] OTHER -> [v EXCEPT !.items = Put(@, e.key, Heard(@, e)),
                            !.phase = IF e.ev \in {"call", "part"} /\ @ = "idle"
                                      THEN "begun" ELSE @]

Deliver ==
    /\ queue # <<>>
    /\ LET w == After(View, Head(queue))
       IN phase' = w.phase /\ items' = w.items /\ reason' = w.reason
    /\ queue' = Tail(queue)
    /\ UNCHANGED <<formats, state, src, said, flow, amiss>>

Next == Receive \/ Flush \/ Deliver

Spec == Init /\ [][Next]_vars
-----------------------------------------------------------------------------
\* Every stream reads, for every pair of formats, as one well-formed message of
\* the client's format: it begins and ends once, blocks open once and close once,
\* nothing is sent for a block that is not open, nothing after the end.  Nothing is
\* claimed of a stream in which one of the named things has gone wrong.
Message == INSTANCE ClientStream WITH format <- cl
WellFormed == Message!Init /\ [][amiss' # {} \/ Message!Next]_(Message!vars)

\* What the client holds of one kind and tool: fragments, each numbered.
Holds(kind, tool) ==
    LET here == {k \in DOMAIN items : items[k].kind = kind /\ items[k].tool = tool}
    IN [k \in here |-> SelectSeq(items[k].frags, LAMBDA f : f > 0)]

\* Reasoning between tags is reasoning to a Responses client, and text to the others.
KindOf(s) == IF s.kind # "tagged" THEN s.kind
             ELSE IF cl = "responses" THEN "think" ELSE "text"
SaidOf(kind, tool) == {s.f : s \in {s \in said : KindOf(s) = kind /\ s.tool = tool}}

\* The client holds everything the provider said, once each, under the right kind
\* and the right call: text and reasoning as soon as they are said, a call's
\* arguments by the end (they may be kept back until the turn finishes).  Not so,
\* by name: calls numbered alike or sent beside tagged text, and reasoning in a
\* provider's own field towards Antigravity.
NothingLost ==
    \A kind \in {"think", "text", "tool"}, tool \in 0..MaxTools :
        /\ queue = <<>>
        /\ kind = "tool" => src.over /\ flow = "flushed" /\ {"merged", "hidden"} \intersect amiss = {}
        /\ kind = "think" => ~(aside /\ cl = "antigravity")
        => LET held == Holds(kind, tool)
           IN /\ UNION {ToSet(held[k]) : k \in DOMAIN held} = SaidOf(kind, tool)
              /\ FoldFunction(LAMBDA frags, n : Len(frags) + n, 0, held)
                    = Cardinality(SaidOf(kind, tool))

\* The reasons that come through: those the provider's and the client's tables
\* both have a word for.  An Ollama turn cut at its length that has called a tool,
\* and a Responses answer that is incomplete, are told as if they were whole.
Understood == CASE up = "claude" -> {"stop", "length", "tool_calls"}
                [] up = "ollama" -> {"stop", "tool_calls"} \union
                                      IF src.tools > 0 THEN {} ELSE {"length"}
                [] up = "responses" -> {"stop", "tool_calls"}
                [] up = "gemini" -> {"stop", "tool_calls", "length", "content_filter"}
                [] OTHER -> {"stop", "tool_calls", "length", "content_filter", "other"}
Sayable == CASE cl = "claude" -> {"stop", "tool_calls", "length"}
             [] cl = "antigravity" -> {"stop", "length", "content_filter"}
             [] OTHER -> {"stop", "tool_calls", "length", "content_filter", "other"}

\* A turn the provider finished is ended for the client, with the provider's reason
\* where both formats have it and as an ordinary end otherwise (a Responses client
\* is told of nothing but completion); and so is one it cut short, where the
\* translators answer the end of the stream.
EndIsTold ==
    flow = "flushed" /\ queue = <<>> =>
        /\ src.over \/ (src.begun /\ (up = "responses" \/ (up = "openai" /\ cl = "responses")))
             => phase = "ended"
        /\ src.over => \/ cl = "responses" /\ reason = "completed"
                       \/ cl # "responses" /\ src.why \in Understood \intersect Sayable
                            /\ reason = src.why
                       \/ cl # "responses" /\ src.why \notin Understood \intersect Sayable
                            /\ reason \in {"stop", "tool_calls"}

=============================================================================
