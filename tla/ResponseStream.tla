--------------------------- MODULE ResponseStream ---------------------------
(***************************************************************************)
(* The response stream of one chat request, as OpenAIPreprocessor.generate *)
(* builds it: the backend's outputs are turned into chat chunks            *)
(* (transform_postprocessor_stream) and pulled through the stages          *)
(* postprocessor_parsing_stream_with_constraint selects for the request.   *)
(* A pull handles one backend output to the end, so one action is one      *)
(* output through the whole chain; the last action is the end of stream,   *)
(* where each stage flushes into the next.                                 *)
(***************************************************************************)
EXTENDS ResponseStages

CONSTANTS
  Requests,    \* the requests and their configuration, see Selection below
  Texts,       \* texts a backend output may carry, by request
  Textless,    \* finish reasons of outputs without text, by request
  MaxOutputs   \* bound: backend outputs of a stream

VARIABLES
  request,    \* the request being answered
  stages,     \* the states of the stages
  wire,       \* chunks sent to the client
  said,       \* history: text the backend produced for each choice
  broken,     \* history: choices whose leading white space or half a start
              \* marker was followed by a delta without text
  closed,     \* choices whose finish_reason the backend has sent
  failed,     \* the backend reported an error
  osl,        \* cumulative output tokens
  ended,      \* the client has seen the end of stream
  outputs     \* backend outputs so far

vars == <<request, stages, wire, said, broken, closed, failed, osl, ended, outputs>>

----------------------------------------------------------------------------
(***************************************************************************)
(* Selection: which stages a request gets.  r.parser is the configured     *)
(* reasoning parser, r.guided how its output is constrained ("tool" for a  *)
(* required or named tool, "response" for a structured response), r.tag    *)
(* whether a structural tag does it, r.injected whether the prompt ends in *)
(* the start marker, r.disabled is_reasoning_disabled_by_request, r.force  *)
(* force_nonempty_content, r.unified a unified tool processing route,      *)
(* r.jail whether another route is the legacy jail and, if so, how it      *)
(* releases calls ("streams" under guided_tool_streaming, else "buffers"), *)
(* r.tools tool_call_parsing_enabled, r.usage include_usage, and r.payload *)
(* an active payload capture.                                              *)
(***************************************************************************)
IsNemotron(parser) == parser \in {"nemotron_nano", "nemotron3", "nemotron_v3"}
IsForceReasoning(parser) ==
  IsNemotron(parser)
  \/ parser \in {"deepseek_r1", "deepseek_v3", "deepseek_v3_1",
                 "deepseek_v3_2", "step3", "kimi_k25", "mistral",
                 "minimax_m2", "minimax_append_think"}
ReasonsBeforeGuidedJson(parser) ==
  IsForceReasoning(parser) /\ parser # "minimax_append_think"
SkipsGuidedWhenInjected(parser) ==
  parser \in {"deepseek_v4", "deepseek_v41", "deepseek-v4", "deepseekv4",
              "glm45", "minimax_m3", "minimax-m3"}
SkipsResponseWhenInjected(parser) ==
  parser \in {"qwen3", "kimi_k3", "kimi-k3"} \/ SkipsGuidedWhenInjected(parser)

SupportsReasoningGate(parser) == parser # "gpt_oss"

Guided(r) == r.guided # "none" /\ ~r.tag
Response(r) == r.guided = "response"

InspectsGuided(r) ==
  Guided(r) /\ \/ ReasonsBeforeGuidedJson(r.parser)
               \/ r.injected /\ SkipsGuidedWhenInjected(r.parser)
               \/ /\ r.injected /\ Response(r)
                  /\ SkipsResponseWhenInjected(r.parser)
               \/ Response(r) /\ ~SupportsReasoningGate(r.parser)
SkipsReasoning(r) ==
  Guided(r) /\ IsForceReasoning(r.parser) /\ ~ReasonsBeforeGuidedJson(r.parser)
Parses(r) == r.parser # "none" /\ ~r.disabled /\ ~SkipsReasoning(r)
StripsDisabled(r) == r.disabled /\ IsNemotron(r.parser) /\ ~SkipsReasoning(r)
StripsGuided(r) == Parses(r) /\ InspectsGuided(r) /\ r.parser = "mistral"
Holds(r) == r.force \/ StripsDisabled(r)
Jails(r) == ~r.unified /\ r.jail # "none"

\* A JSON opener, and for Mistral the first half of its marker "[THINK]".
Brackets(r) == IF r.parser = "mistral" THEN {"j", "("} ELSE {"j"}

StartsInside(r) == r.injected \/ IsForceReasoning(r.parser)

----------------------------------------------------------------------------
(***************************************************************************)
(* The chain: the stages of either route in the order chunks pass them,    *)
(* and the condition under which a request gets each of them.              *)
(***************************************************************************)
Legacy == <<"strip", "parse", "hold", "count", "jail", "trailer", "policy", "roles">>

\* Mutant: reasoning is counted after deferral has turned it into content.
UnifiedCountsLate == <<"unified", "policy", "defer", "count", "hold", "roles">>

\* postprocessor_parsing_stream_with_constraint's unified routes, with
\* apply_unified_response_policies.
Unified == <<"unified", "policy", "count", "defer", "hold", "roles">>

Uses(r) ==
  [strip   |-> StripsGuided(r) \/ StripsDisabled(r),
   parse   |-> Parses(r),
   jail    |-> Jails(r),
   trailer |-> Jails(r),
   unified |-> TRUE,
   policy  |-> ~r.tools,
   count   |-> r.unified \/ Parses(r),
   defer   |-> r.force,
   hold    |-> IF r.unified THEN r.force ELSE Holds(r),
   roles   |-> TRUE]

Step(r, stage, state, chunk) ==
  CASE stage = "strip"   -> StripStep(state, chunk)
    [] stage = "parse"   -> ReasoningStep(r.force, state, chunk)
    [] stage = "jail"    -> JailStep(r.jail, state, chunk)
    [] stage = "unified" -> UnifiedStep(state, chunk)
    [] stage = "policy"  -> PolicyStep(state, chunk)
    [] stage = "count"   -> EstimatorStep(state, chunk)
    [] stage = "defer"   -> DeferStep(state, chunk)
    [] stage \in {"hold", "trailer"} -> HoldStep(state, chunk)
    [] stage = "roles"   -> RolesStep(state, chunk)

Flush(r, stage, state) ==
  CASE stage = "strip" -> StripFlush(state)
    [] stage = "parse" -> ReasoningFlush(r.force, state)
    [] stage = "defer" -> DeferFlush(state)
    [] stage = "jail"  -> JailFlush(state)
    [] stage \in {"hold", "trailer"} -> HoldFlush(state)
    [] OTHER           -> <<>>

\* One stage over the chunks the stage before it emitted, flushed when its
\* input has ended.
Through(run, stage) ==
  LET joined(acc, step) == [step EXCEPT !.out = acc.out \o @]
      take(acc, chunk) == joined(acc, Step(request, stage, acc.state, chunk))
      after(done) ==
        [run EXCEPT !.stages[stage] = done.state,
                    !.chunks = IF run.eof
                               THEN done.out
                                      \o Flush(request, stage, done.state)
                               ELSE done.out]
  IN after(FoldLeft(take, [state |-> run.stages[stage], out |-> <<>>],
                    run.chunks))

Chain(chunks, eof) ==
  LET route == SelectSeq(IF request.unified THEN Unified ELSE Legacy,
                         LAMBDA stage : Uses(request)[stage])
      start == [stages |-> stages, chunks |-> chunks, eof |-> eof]
  IN \E run \in {FoldLeft(Through, start, route)} :
       stages' = run.stages /\ wire' = wire \o run.chunks

----------------------------------------------------------------------------
Init ==
  /\ request \in Requests
  /\ stages = [strip |-> StripInit,
               parse |-> ReasoningInit(StartsInside(request),
                                       InspectsGuided(request),
                                       Brackets(request)),
               unified |-> UnifiedInit(request.injected),
               defer |-> DeferInit, hold |-> HoldInit,
               jail |-> JailInit, trailer |-> HoldInit,
               count |-> EstimatorInit, policy |-> 0, roles |-> {}]
  /\ wire = <<>>
  /\ said = [i \in Indices |-> <<>>]
  /\ broken = {} /\ closed = {} /\ failed = FALSE /\ osl = 0 /\ ended = FALSE
  /\ outputs = 0

\* Text that is, so far, no more than white space and half a start marker.
Undecided(text) == text # <<>> /\ TrimStart(text) \in {<<>>, <<"(">>}

\* A backend output for a choice that has not finished becomes a chunk.
Output(i, content, finish) ==
  /\ ~ended /\ ~failed /\ i \notin closed /\ outputs < MaxOutputs
  /\ LET tokens == Len(TextIn(content))
     IN /\ Chain(<<Chunk(<<Delta(i, content, finish)>>, tokens)>>, FALSE)
        /\ osl' = osl + tokens
  /\ said' = [said EXCEPT ![i] = @ \o TextIn(content)]
  /\ broken' = broken \cup {k \in {i} : content = None /\ Undecided(said[i])}
  /\ closed' = IF finish = "none" THEN closed ELSE closed \cup {i}
  /\ outputs' = outputs + 1
  /\ UNCHANGED <<request, failed, ended>>

\* The backend reports an error, or an output cannot be turned into a chunk
\* and the request is cancelled: an error chunk is the last thing sent.
Fail ==
  /\ ~ended /\ ~failed
  /\ Chain(<<ErrorChunk>>, FALSE)
  /\ failed' = TRUE
  /\ UNCHANGED <<request, said, broken, closed, osl, ended, outputs>>

\* The usage chunks of a stream that saw a finish_reason: one for payload
\* capture, which the client never sees, and the client's when asked for.
UsageChunk(payload) == [Chunk(<<>>, 0) EXCEPT !.usage = Some(0),
                                              !.payload = payload]
Trailer ==
  IF closed = {} THEN <<>>
  ELSE (IF request.payload THEN <<UsageChunk(TRUE)>> ELSE <<>>)
         \o (IF request.usage THEN <<UsageChunk(FALSE)>> ELSE <<>>)

\* The end of the backend's stream; after a cancelled output it may come
\* before the usage chunks.
End ==
  /\ ~ended
  /\ \E last \in {Trailer} \cup (IF failed THEN {<<>>} ELSE {}) :
       Chain(last, TRUE)
  /\ ended' = TRUE
  /\ UNCHANGED <<request, said, broken, closed, failed, osl, outputs>>

Next ==
  \/ \E i \in Indices, delta \in (({Some(t) : t \in Texts[request]}
                                     \X {"none", "stop"})
                                   \cup ({None} \X Textless[request])) :
       Output(i, delta[1], delta[2])
  \/ Fail
  \/ End

Spec == Init /\ [][Next]_vars

----------------------------------------------------------------------------
(***************************************************************************)
(* Reference: what a choice's whole text amounts to.  `cut` is half a      *)
(* start marker at which the text ended; only a request that forces        *)
(* content asks the parser for it.  `whole` says that the start marker may *)
(* be stripped: no delta without text came into the middle of it.          *)
(***************************************************************************)
Strips(r) == StripsGuided(r) \/ StripsDisabled(r)
WholeSplit(r, text, whole) ==
  LET body == IF Strips(r) /\ ~r.unified /\ whole
              THEN StripText([buffer |-> <<>>, decided |-> FALSE], text)
              ELSE [state |-> [buffer |-> <<>>, decided |-> TRUE],
                    text |-> text]
      left == body.text \o body.state.buffer
      first == TrimStart(left)
      bare == ~Parses(r) \/ (InspectsGuided(r) /\ first # <<>>
                              /\ first[1] \in Brackets(r))
      start == [inside |-> IF r.unified THEN r.injected ELSE StartsInside(r),
                held |-> FALSE]
      parsed == Parse(start, left)
      cut == IF r.force /\ ~r.unified /\ parsed.held THEN <<"(">> ELSE <<>>
  IN IF bare /\ ~r.unified
     THEN [content |-> left, reasoning |-> <<>>, cut |-> <<>>, inside |-> FALSE]
     ELSE [content |-> parsed.normal, reasoning |-> parsed.reasoning,
           cut |-> cut, inside |-> parsed.inside]

\* The text a client reads for a choice, and what the wire says of it.
OnWire(i, field) ==
  LET of(acc, chunk) ==
        FoldLeft(LAMBDA a, c : a \o (IF c.index = i THEN TextIn(c[field])
                                                    ELSE <<>>),
                 acc, chunk.choices)
  IN FoldLeft(of, <<>>, wire)
Words(text) == SelectSeq(text, LAMBDA x : x # "w")

(***************************************************************************)
(* However the backend cut its text into outputs and interleaved its       *)
(* choices, a stream that ended without an error has sent each choice the  *)
(* content and the reasoning its whole text amounts to; and with           *)
(* force_nonempty_content a choice without an answer has its reasoning as  *)
(* content, which is what the aggregator gives a client that does not      *)
(* stream (preprocessor.rs, wants_reasoning_as_content_when_empty).        *)
(*                                                                         *)
(* The exception is a delta without text between the pieces of a leading   *)
(* start marker, in a request from which that marker is stripped: although *)
(* "split chunks like "<thi" + "nk>answer" are stripped cleanly"           *)
(* (preprocessor.rs:6923), take_undecided_buffer hands the client what was *)
(* held (6987), and the text is what it is with the marker left in.        *)
(***************************************************************************)
Expected(r, text, whole) ==
  LET split == WholeSplit(r, text, whole)
      answer == SelectSeq(Words(split.content),
                          LAMBDA x : ~r.unified \/ x # "c")
      calls == r.unified /\ r.tools /\ \E k \in DOMAIN split.content :
                                           split.content[k] = "c"
      thought == Words(split.reasoning)
  IN IF r.force /\ (r.unified \/ Parses(r)) /\ answer = <<>> /\ ~calls
     THEN [content |-> thought \o split.cut, reasoning |-> <<>>]
     ELSE IF split.inside
     THEN [content |-> answer, reasoning |-> thought \o split.cut]
     ELSE [content |-> answer \o split.cut, reasoning |-> thought]

WireMatchesText ==
  ended /\ ~failed =>
    \A i \in Indices :
      [content |-> Words(OnWire(i, "content")),
       reasoning |-> Words(OnWire(i, "reasoning"))]
        = Expected(request, said[i], i \notin broken)

(***************************************************************************)
(* A stream ends in order, whatever its stages flush when it ends: no text *)
(* follows the client's usage chunk, the trailer at which a client stops   *)
(* reading, and none recovered from a buffer follows an error, which is    *)
(* terminal (preprocessor.rs, ReasoningState.saw_terminal_error).  The     *)
(* exception is the code's: the stage that strips a start marker flushes   *)
(* its buffer, one chunk, after an error too, and after the trailer where  *)
(* no later stage holds that back.                                         *)
(***************************************************************************)
TextAfter(k) == {later \in (k + 1)..Len(wire) : wire[later].choices # <<>>}
LateFlush(allowed) == IF allowed /\ ~Jails(request) THEN 1 ELSE 0
EndsInOrder ==
  \A k \in DOMAIN wire :
    /\ UsageOnly(wire[k]) =>
         Cardinality(TextAfter(k)) <= LateFlush(StripsGuided(request))
    /\ wire[k].error =>
         Cardinality(TextAfter(k)) <= LateFlush(Strips(request))

(***************************************************************************)
(* The reasoning tokens reported never undercount: each reasoning word of  *)
(* a choice came with a token of its own, and mixed chunks only overcount. *)
(* A forced request on the route without a unified parser is the           *)
(* exception: its reasoning is counted when it leaves the deferral         *)
(* (preprocessor.rs:5085), so only a count above zero is certain, and only *)
(* if the client is shown reasoning at all.                                *)
(***************************************************************************)
TokensOf(text) == Len(SelectSeq(text, LAMBDA x : x = "t"))
ReasoningTokens ==
  FoldLeft(LAMBDA n, i : n + TokensOf(WholeSplit(request, said[i], i \notin broken).reasoning),
           0, SetToSeq(Indices))
ShownAsReasoning ==
  \E i \in Indices : "t" \in ToSet(OnWire(i, "reasoning"))
LeastReported ==
  IF request.force /\ ~request.unified THEN IF ShownAsReasoning THEN 1 ELSE 0
  ELSE ReasoningTokens
ReasoningIsCounted ==
  \A k \in DOMAIN wire :
    UsageOnly(wire[k]) /\ (request.unified \/ Parses(request)) =>
      wire[k].usage[1] \in LeastReported..osl
=============================================================================
