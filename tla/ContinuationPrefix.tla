------------------------- MODULE ContinuationPrefix -------------------------
(***************************************************************************)
(* What a warmup sends and whether the follow-up request can use it.  A    *)
(* client holds a conversation; every request renders it through the chat  *)
(* template (qwen3-tool-prefix.jinja).  When an assistant turn completes,  *)
(* the front end guesses the prompt of the follow-up request and sends it  *)
(* ahead (qwen_tool_prefix of the patched renderer).  The guess is worth   *)
(* anything only if the real prompt starts with it, token for token, in    *)
(* the same cache namespace.                                               *)
(*                                                                         *)
(* A text is a sequence of atoms, one per piece the template or the code   *)
(* looks at; line breaks, which the template adds next to its markers, are *)
(* left out.  A message is [role, content, reasoning, calls, other], where  *)
(* other is whether it is partial or has audio or a function_call, which   *)
(* the template does not look at.                                          *)
(***************************************************************************)
EXTENDS Naturals, SequencesExt

CONSTANTS UserContents,     \* contents a user message may have
          Assistants,       \* assistant messages a backend may answer with
          ToolContents,     \* contents a tool result may have
          Setups,           \* settings of the client's requests: [tools, args, odd]
          Absent,           \* an absent field
          MaxMessages       \* bound on the length of the conversation

VARIABLES setup,    \* whether tools are given, the template arguments, and the
                    \* one setting outside what the fix supports, or "none"
          conv,     \* the client's conversation
          phase,    \* "client" to move, or the server "answering"
          prompt,   \* the tokens of the last request, with their cache namespace
          warm      \* what was sent ahead for the next request: <<>> or <<[space, tokens]>>

vars == <<setup, conv, phase, prompt, warm>>

START  == "<|im_start|>"
END    == "<|im_end|>"
MARKER == "__dynamo_unknown_tool_result__"
NUL    == "NUL"
PARTS  == <<"parts">>       \* content that is an array of parts, not a string

IsString(content) == content # Absent /\ content # PARTS

TextOf(content) == IF IsString(content) THEN content ELSE <<>>

Message(role, content) ==
    [role |-> role, content |-> content, reasoning |-> Absent, calls |-> <<>>, other |-> FALSE]

(***************************************************************************)
(* The chat template                                                       *)
(***************************************************************************)
Header(msgs, tools) ==
    LET given  == msgs # <<>> /\ msgs[1].role = "system"
        system == IF given THEN TextOf(msgs[1].content) ELSE <<>>
    IN  IF tools THEN <<START, "system">> \o system \o <<"# Tools", END>>
        ELSE IF given THEN <<START, "system">> \o system \o <<END>>
        ELSE <<>>

IsQuery(m) ==
    /\ m.role = "user"
    /\ IsString(m.content)
    /\ ~(/\ m.content # <<>>
         /\ Head(m.content) = "<tool_response>"
         /\ Last(m.content) = "</tool_response>")

\* ns.last_query_index, one-based
LastQueryIndex(msgs) ==
    LET queries == {k \in DOMAIN msgs : IsQuery(msgs[k])}
    IN  IF queries = {} THEN Len(msgs) ELSE Max(queries)

ThinkEnd(content) == {k \in DOMAIN content : content[k] = "</think>"}

\* content.split('</think>')[0].split('<think>')[-1]
SplitReasoning(content) ==
    LET head   == SubSeq(content, 1, Min(ThinkEnd(content)) - 1)
        starts == {k \in DOMAIN head : head[k] = "<think>"}
    IN  IF starts = {} THEN head ELSE SubSeq(head, Max(starts) + 1, Len(head))

Reasoning(m) ==
    IF IsString(m.reasoning) THEN m.reasoning
    ELSE IF ThinkEnd(TextOf(m.content)) = {} THEN <<>>
    ELSE SplitReasoning(m.content)

Answer(m) ==
    LET content == TextOf(m.content)
    IN  IF IsString(m.reasoning) \/ ThinkEnd(content) = {} THEN content
        ELSE SubSeq(content, Max(ThinkEnd(content)) + 1, Len(content))

Calls(m) == FlattenSeq([k \in DOMAIN m.calls |-> <<"<tool_call>", m.calls[k], "</tool_call>">>])

RenderAssistant(msgs, k) ==
    LET m     == msgs[k]
        think == k > LastQueryIndex(msgs) /\ (k = Len(msgs) \/ Reasoning(m) # <<>>)
    IN  <<START, "assistant">>
        \o (IF think THEN <<"<think>">> \o Reasoning(m) \o <<"</think>">> ELSE <<>>)
        \o Answer(m) \o Calls(m) \o <<END>>

RenderTool(msgs, k) ==
    (IF k = 1 \/ msgs[k - 1].role # "tool" THEN <<START, "user">> ELSE <<>>)
    \o <<"<tool_response>">> \o TextOf(msgs[k].content) \o <<"</tool_response>">>
    \o (IF k = Len(msgs) \/ msgs[k + 1].role # "tool" THEN <<END>> ELSE <<>>)

RenderMessage(msgs, k) ==
    LET m == msgs[k]
    IN  IF m.role = "user" \/ (m.role = "system" /\ k > 1)
        THEN <<START, m.role>> \o TextOf(m.content) \o <<END>>
        ELSE IF m.role = "assistant" THEN RenderAssistant(msgs, k)
        ELSE IF m.role = "tool" THEN RenderTool(msgs, k)
        ELSE <<>>

GenerationPrompt(args) ==
    <<START, "assistant">> \o (IF args = "thinking_off" THEN <<"<think>", "</think>">> ELSE <<>>)

Render(msgs, tools, args, addGenerationPrompt) ==
    Header(msgs, tools)
    \o FlattenSeq([k \in DOMAIN msgs |-> RenderMessage(msgs, k)])
    \o (IF addGenerationPrompt THEN GenerationPrompt(args) ELSE <<>>)

(***************************************************************************)
(* From a text to the tokens of a request.  A setting the fix does not     *)
(* support changes this mapping: setup.odd names it, or is "none".         *)
(***************************************************************************)
\* NormalizedArgsRequest: argument strings are rewritten before rendering.
Normalize(msgs) ==
    [k \in DOMAIN msgs |-> [msgs[k] EXCEPT !.calls = [c \in DOMAIN @ |-> "normalized"]]]

\* Ordinary preprocessing removes NUL characters before it tokenizes.
StripNul(text) == SelectSeq(text, LAMBDA atom : atom # NUL)

\* Another tokenizer may join the closing marker with the text that follows.
Tokens(text) ==
    IF setup.odd = "tokenizer"
    THEN [k \in DOMAIN text |-> IF text[k] = END /\ k < Len(text) THEN "<|im_end|>+" ELSE text[k]]
    ELSE text

\* The prompt of an ordinary request.
Prompt(msgs) ==
    LET given == IF setup.odd = "normalize_args" THEN Normalize(msgs) ELSE msgs
        text  == Render(given, setup.tools, setup.args, TRUE)
    IN  [space  |-> IF setup.odd = "routing" THEN "namespace" ELSE "default",
         tokens |-> CASE setup.odd = "raw_prompt" -> <<"raw prompt">>
                      [] setup.odd = "token_data" -> <<"client tokens">>
                      [] OTHER -> Tokens(StripNul(text))]

(***************************************************************************)
(* The guess of the patched source                                         *)
(***************************************************************************)
\* generate and maybe_wrap_stream: the settings under which a turn is watched,
\* and the artifact, tokenizer and template identities checked on the way.
IdentitySupported ==
    setup.odd \notin {"normalize_args", "raw_prompt", "token_data", "routing", "tokenizer"}

ArgsSupported == setup.args \in {"none", "thinking_on", "thinking_off"}

PlainHistory(msgs) ==
    \A k \in DOMAIN msgs :
        /\ msgs[k].content # PARTS /\ ~msgs[k].other
        /\ MARKER \notin ToSet(TextOf(msgs[k].content))
                          \cup ToSet(TextOf(msgs[k].reasoning)) \cup ToSet(msgs[k].calls)

\* Mutant: the assistant turn is rendered as the end of the conversation.
ToolPrefixWithoutPlaceholder(msgs) ==
    IF /\ ArgsSupported /\ PlainHistory(msgs)
       /\ Last(msgs).role = "assistant" /\ Last(msgs).calls # <<>>
    THEN <<Render(msgs, setup.tools, setup.args, FALSE)>> ELSE <<>>

\* qwen_tool_prefix: render with a placeholder result, keep the text up to the
\* last closing marker before it.
ToolPrefix(msgs) ==
    LET rendered == Render(Append(msgs, Message("tool", <<MARKER>>)), setup.tools, setup.args, FALSE)
        marks    == {k \in DOMAIN rendered : rendered[k] = MARKER}
        ends     == {k \in DOMAIN rendered : rendered[k] = END /\ k < Min(marks)}
        prefix   == SubSeq(rendered, 1, Max(ends))
    IN  IF /\ ArgsSupported /\ PlainHistory(msgs)
           /\ Last(msgs).role = "assistant" /\ Last(msgs).calls # <<>>
           /\ Cardinality(marks) = 1 /\ ends # {}
           /\ NUL \notin ToSet(prefix)
        THEN <<prefix>> ELSE <<>>

\* prefill_task encodes the prefix and sends it with default routing.
FixWarm(msgs) ==
    IF IdentitySupported /\ ToolPrefix(msgs) # <<>>
    THEN <<[space |-> "default", tokens |-> Tokens(ToolPrefix(msgs)[1])]>>
    ELSE <<>>

(***************************************************************************)
(* The session                                                             *)
(***************************************************************************)
Init ==
    /\ setup \in Setups
    /\ conv \in {<<>>, <<Message("system", <<"s">>)>>}
    /\ phase = "client"
    /\ prompt = [space |-> "none", tokens |-> <<>>]
    /\ warm = <<>>

MayGrow(n) == phase = "client" /\ Len(conv) + n <= MaxMessages

\* The calls of the last message that wait for a result.
OpenCalls == IF conv = <<>> THEN <<>> ELSE Last(conv).calls

\* The client adds a user message and sends the conversation.
Query(content) ==
    /\ MayGrow(1) /\ OpenCalls = <<>>
    /\ conv' = Append(conv, Message("user", content))
    /\ phase' = "answering"
    /\ prompt' = Prompt(conv')
    /\ UNCHANGED <<setup, warm>>

\* The client adds one result per call and sends the conversation.
Results(contents) ==
    /\ MayGrow(Len(contents)) /\ Len(contents) = Len(OpenCalls)
    /\ conv' = conv \o [k \in DOMAIN contents |-> Message("tool", contents[k])]
    /\ phase' = "answering"
    /\ prompt' = Prompt(conv')
    /\ UNCHANGED <<setup, warm>>

\* The answer completes; the warmup for the follow-up request is sent.
Answered(m) ==
    /\ phase = "answering" /\ Len(conv) < MaxMessages
    /\ conv' = Append(conv, m)
    /\ phase' = "client"
    /\ warm' = FixWarm(conv')
    /\ UNCHANGED <<setup, prompt>>

Next ==
    \/ \E content \in UserContents : Query(content)
    \/ \E n \in 1 .. 2 : \E contents \in [1 .. n -> ToolContents] : Results(contents)
    \/ \E m \in Assistants : Answered(m)

Spec == Init /\ [][Next]_vars

(***************************************************************************)
(* Properties                                                              *)
(***************************************************************************)

\* What qwen_tool_prefix sent ahead is, token for token and in the namespace
\* of the request, everything of the follow-up prompt before the results the
\* client adds: what the template makes of the assistant turn may depend on
\* nothing that comes later.
WarmIsTheHistory ==
    phase = "answering" /\ warm # <<>> =>
        /\ warm[1].space = prompt.space
        /\ \E n \in 1 .. 2 :
             LET results == SubSeq(conv, Len(conv) - n + 1, Len(conv))
             IN  /\ \A k \in DOMAIN results : results[k].role = "tool"
                 /\ prompt.tokens = warm[1].tokens \o StripNul(Render(results, FALSE, setup.args, TRUE))

=============================================================================
