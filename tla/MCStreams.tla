------------------------------ MODULE MCStreams ------------------------------
(***************************************************************************)
(* The four parts of Dynamo that rewrite or watch one chat response, side  *)
(* by side: the turn accumulator (ToolTurn), the continuation prefix       *)
(* (ContinuationPrefix), the tool call jail's adapter (ToolCallJail) and   *)
(* the chain of response stages (ResponseStream).  A behaviour is one of   *)
(* a single part, chosen in Init; the variables of the others keep the     *)
(* value of one of their initial states.  The adapter is extended, so that *)
(* the run checks the property that is proved of it.                       *)
(***************************************************************************)
EXTENDS ToolCallJail

CONSTANTS Items, MaxItems, Absent, UserContents, Assistants, ToolContents,
          Setups, MaxMessages, Indices, Requests, Texts, Textless, MaxOutputs

VARIABLES component,
          items, turn, tx, sent, stream,
          setup, conv, phase, prompt, warm,
          request, stages, wire, said, broken, closed, failed, osl, ended, outputs

Turn == INSTANCE ToolTurn
Continuation == INSTANCE ContinuationPrefix
Response == INSTANCE ResponseStream

turnVars == <<items, turn, tx, sent, stream>>
continuationVars == <<setup, conv, phase, prompt, warm>>
responseVars ==
  <<request, stages, wire, said, broken, closed, failed, osl, ended, outputs>>
vars == <<component, turnVars, continuationVars, jailVars, responseVars>>

----------------------------------------------------------------------------
(* ToolTurn: fragments of two calls that join to an object, conflicting   *)
(* and repeated identifiers, an odd field, a second choice, late frames.  *)
Choice(index, content, calls, finish) ==
  [index |-> index, content |-> content, reasoning |-> "none", odd |-> FALSE,
   calls |-> calls, finish |-> finish]
Piece(index, id, name, args) ==
  [index |-> index, id |-> id, name |-> name, args |-> args]
Frame(choice) == [error |-> FALSE, data |-> <<choice>>]
Both == <<"{", "}">>

MCItems ==
  {[error |-> FALSE, data |-> <<>>], [error |-> TRUE, data |-> Absent],
   Frame([Choice(0, "a", <<>>, "none") EXCEPT !.reasoning = "r"]),
   Frame(Choice(0, "b", <<Piece(0, "x", "f", <<"{">>)>>, "none")),
   Frame(Choice(0, "none", <<Piece(0, Absent, Absent, <<"}">>)>>, "none")),
   Frame(Choice(0, "none", <<Piece(1, "y", "f", Both)>>, "none")),
   Frame(Choice(0, "none", <<Piece(0, "y", Absent, <<>>)>>, "none")),
   Frame(Choice(0, "none", <<Piece(1, "x", "f", <<"{">>),
                             Piece(1, Absent, "g", <<"}">>)>>, "none")),
   Frame(Choice(0, "none", <<Piece(0, "x", "f", Both),
                             Piece(1, Absent, "f", Both)>>, "tool_calls")),
   Frame(Choice(0, "none", <<>>, "tool_calls")),
   Frame(Choice(0, "a", <<>>, "stop")),
   Frame([Choice(0, "none", <<>>, "none") EXCEPT !.odd = TRUE]),
   Frame(Choice(1, "a", <<>>, "none"))}

(* ContinuationPrefix: contents with markers, nulls, parts and thinking.   *)
MCUserContents ==
  {<<"q">>, <<"<tool_response>", "q", "</tool_response>">>,
   <<"q", "NUL">>, <<"parts">>, <<"__dynamo_unknown_tool_result__">>}
Said(content, reasoning, calls) ==
  [role |-> "assistant", content |-> content, reasoning |-> reasoning,
   calls |-> calls, other |-> FALSE]
MCAssistants ==
  {Said(<<"<think>", "r", "</think>", "a">>, Absent, <<>>),
   Said(<<"<think>", "r", "</think>", "a">>, Absent, <<"call">>),
   Said(<<"a">>, <<"r">>, <<"call">>),
   Said(Absent, Absent, <<"call", "call">>),
   Said(<<>>, <<>>, <<"call">>),
   Said(<<"NUL">>, Absent, <<"call">>),
   Said(<<>>, Absent, <<"__dynamo_unknown_tool_result__">>),
   Said(<<"a">>, <<"__dynamo_unknown_tool_result__">>, <<"call">>),
   [Said(<<"a">>, <<"r">>, <<"call">>) EXCEPT !.other = TRUE],
   Said(<<"<|im_end|>", "a">>, Absent, <<"call">>)}
MCToolContents ==
  {<<"o">>, <<"<|im_end|>", "<|im_start|>", "user">>,
   <<"__dynamo_unknown_tool_result__">>, <<"NUL">>}
Supported == [tools : BOOLEAN, args : {"none", "thinking_off", "custom"},
              odd : {"none"}]
MCSetups ==
  Supported \cup [tools : {TRUE}, args : {"none"},
                  odd : {"normalize_args", "raw_prompt", "token_data",
                         "routing", "tokenizer"}]

(* ResponseStream: two choices and the requests that select each chain.    *)
Plain == [parser |-> "none", guided |-> "none", tag |-> FALSE,
          injected |-> FALSE, disabled |-> FALSE, force |-> FALSE,
          unified |-> FALSE, jail |-> "none", tools |-> TRUE, usage |-> TRUE,
          payload |-> FALSE]
Splitting == [Plain EXCEPT !.parser = "qwen3", !.payload = TRUE]
Forced == [Plain EXCEPT !.parser = "nemotron_nano", !.force = TRUE]
GuidedTool == [Plain EXCEPT !.parser = "deepseek_r1", !.guided = "tool",
                            !.jail = "buffers"]
GuidedForced == [GuidedTool EXCEPT !.force = TRUE, !.jail = "streams"]
GuidedSkipped == [GuidedTool EXCEPT !.parser = "minimax_append_think"]
InjectedResponse == [Splitting EXCEPT !.guided = "response", !.injected = TRUE]
HarmonyResponse == [Plain EXCEPT !.parser = "gpt_oss", !.guided = "response"]
Disabled == [Plain EXCEPT !.parser = "nemotron3", !.disabled = TRUE]
MistralTool == [GuidedTool EXCEPT !.parser = "mistral"]
MistralResponse == [Plain EXCEPT !.parser = "mistral", !.guided = "response"]
MuseForced == [Plain EXCEPT !.unified = TRUE, !.injected = TRUE,
                            !.force = TRUE]
MuseNoTools == [MuseForced EXCEPT !.tools = FALSE]

MCIndices == {1, 2}
MCRequests == {Splitting, Forced, GuidedForced, GuidedSkipped,
               InjectedResponse, HarmonyResponse, Disabled, MistralTool,
               MistralResponse, MuseForced, MuseNoTools}
\* Markup of tool calls is told from text by the unified parsers only, and a
\* JSON opener by guided requests only; a skipped parser tells nothing apart.
\* The Harmony request is left the whole markers, since its chain is that of
\* InjectedResponse, which gets them cut.
Cut == {<<"w">>, <<"t">>, <<"(">>, <<")", "t">>, <<"t", "E">>}
MCTexts ==
  [r \in MCRequests |->
     CASE r = GuidedSkipped -> {<<"t", "E">>, <<"j">>, <<"w", "(", ")">>}
       [] r = HarmonyResponse ->
            {<<"w">>, <<"t">>, <<"t", "E">>, <<"E", "w">>, <<"w", "(", ")">>, <<"j">>}
       [] r.parser = "mistral" -> Cut \cup {<<"j">>}
       [] OTHER -> Cut \cup {<<"E", "w">>, <<"w", "(", ")">>}
                     \cup (IF r.unified THEN {<<"c">>} ELSE {})
                     \cup (IF r.guided # "none" THEN {<<"j">>} ELSE {})]
MCTextless ==
  [r \in MCRequests |-> {"none", IF r.tools THEN "stop" ELSE "tool_calls"}]

----------------------------------------------------------------------------
Init ==
  /\ component \in {"turn", "continuation", "jail", "response"}
  /\ Turn!Init /\ Continuation!Init /\ JailInit /\ Response!Init
  /\ component # "continuation" =>
       /\ setup = [tools |-> TRUE, args |-> "none", odd |-> "none"]
       /\ conv = <<>>
  /\ component # "response" => request = Splitting

Next ==
  /\ UNCHANGED component
  /\ \/ component = "turn" /\ Turn!Next
        /\ UNCHANGED <<continuationVars, jailVars, responseVars>>
     \/ component = "continuation" /\ Continuation!Next
        /\ UNCHANGED <<turnVars, jailVars, responseVars>>
     \/ component = "jail" /\ JailNext
        /\ UNCHANGED <<turnVars, continuationVars, responseVars>>
     \/ component = "response" /\ Response!Next
        /\ UNCHANGED <<turnVars, continuationVars, jailVars>>

Spec == Init /\ [][Next]_vars

\* accumulator.rs: the warmup task gets the whole tool turn the client saw,
\* exactly when the stream ended as one.
SentIsWholeTurn == Turn!SentIsWholeTurn
\* prefill_task: what is sent ahead is a prefix of the follow-up's prompt.
WarmIsTheHistory == Continuation!WarmIsTheHistory
\* postprocessor_parsing_stream_with_constraint: the wire says what the whole
\* text says, however it was cut.
WireMatchesText == Response!WireMatchesText
\* The same: the trailer is last and nothing follows an error.
EndsInOrder == Response!EndsInOrder
\* annotate_reasoning_usage: reasoning tokens are never undercounted.
ReasoningIsCounted == Response!ReasoningIsCounted
=============================================================================
