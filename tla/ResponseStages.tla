--------------------------- MODULE ResponseStages ---------------------------
(***************************************************************************)
(* The stages OpenAIPreprocessor puts between the backend's output and the *)
(* chat completion stream of a client (fix/dynamo/preprocessor.rs), as     *)
(* operators: a stage takes its state and one chunk and returns its new    *)
(* state and the chunks it emits, and has a flush for the end of stream.   *)
(*                                                                         *)
(* Text is a sequence of symbols: "w" white space, "t" other text, "j" a   *)
(* JSON opener, "(" and ")" the two halves of the reasoning start marker,  *)
(* "E" the end marker, "c" a tool call's markup.  An optional value is a   *)
(* sequence of at most one element.  Deltas carry text: multimodal parts,  *)
(* log probabilities and identifiers are left out.                         *)
(***************************************************************************)
EXTENDS Naturals, SequencesExt

CONSTANTS Indices   \* choice indices of a request (n)

None == <<>>
Some(x) == <<x>>
SomeText(text) == IF text = <<>> THEN None ELSE Some(text)
TextIn(option) == IF option = None THEN <<>> ELSE option[1]

Blank(text) == \A k \in DOMAIN text : text[k] = "w"
TrimStart(text) ==
  IF Blank(text) THEN <<>>
  ELSE LET first == CHOOSE k \in DOMAIN text :
                      text[k] # "w" /\ Blank(SubSeq(text, 1, k - 1))
       IN SubSeq(text, first, Len(text))

Delta(index, content, finish) ==
  [index |-> index, content |-> content, reasoning |-> None, tools |-> FALSE,
   finish |-> finish, role |-> FALSE]
Chunk(choices, tokens) ==
  [choices |-> choices, usage |-> None, payload |-> FALSE, error |-> FALSE,
   tokens |-> tokens]
ErrorChunk == [Chunk(<<>>, 0) EXCEPT !.error = TRUE]
UsageOnly(chunk) == chunk.choices = <<>> /\ chunk.usage # None

Emit(state, chunk) == [state |-> state, out |-> <<chunk>>]

\* A step that treats the choices of a chunk one by one: One(s, c) returns
\* the choice's new state and its rewritten delta.
EachChoice(One(_, _), state, chunk) ==
  LET joined(acc, i, one) == [state |-> [acc.state EXCEPT ![i] = one.state],
                              choices |-> Append(acc.choices, one.delta)]
      take(acc, c) == joined(acc, c.index, One(acc.state[c.index], c))
      emit(done) == Emit(done.state, [chunk EXCEPT !.choices = done.choices])
  IN emit(FoldLeft(take, [state |-> state, choices |-> <<>>], chunk.choices))

\* The synthetic chunk of an end-of-stream flush: a delta for every choice
\* that still held something, in index order, and none of the metadata.
Recovered(Held(_)) ==
  LET deltas == SelectSeq([i \in 1..Cardinality(Indices) |-> Held(i)],
                          LAMBDA d : d.content # None \/ d.reasoning # None)
  IN IF deltas = <<>> THEN <<>> ELSE <<Chunk(deltas, 0)>>

----------------------------------------------------------------------------
(***************************************************************************)
(* strip_leading_reasoning_start_from_stream: the first bytes of a choice  *)
(* are held until they are, or can no longer become, the start marker.     *)
(***************************************************************************)
StripInit == [i \in Indices |-> [buffer |-> <<>>, decided |-> FALSE]]

\* Mutant: half a start marker is taken for ordinary text.
StripTextEager(s, text) ==
  LET buffer == s.buffer \o text
      trimmed == TrimStart(buffer)
  IN IF s.decided THEN [state |-> s, text |-> text]
     ELSE IF trimmed = <<>>
     THEN [state |-> [s EXCEPT !.buffer = buffer], text |-> <<>>]
     ELSE [state |-> [buffer |-> <<>>, decided |-> TRUE],
           text |-> IF IsPrefix(<<"(", ")">>, trimmed)
                    THEN SubSeq(trimmed, 3, Len(trimmed)) ELSE buffer]

StripText(s, text) ==
  LET buffer == s.buffer \o text
      trimmed == TrimStart(buffer)
  IN IF s.decided THEN [state |-> s, text |-> text]
     ELSE IF trimmed \in {<<>>, <<"(">>}
     THEN [state |-> [s EXCEPT !.buffer = buffer], text |-> <<>>]
     ELSE [state |-> [buffer |-> <<>>, decided |-> TRUE],
           text |-> IF IsPrefix(<<"(", ")">>, trimmed)
                    THEN SubSeq(trimmed, 3, Len(trimmed)) ELSE buffer]

\* take_undecided_buffer: a delta without text gives the buffer back as it is.
TakeBuffer(s) ==
  IF s.decided \/ s.buffer = <<>> THEN [state |-> s, text |-> <<>>]
  ELSE [state |-> [buffer |-> <<>>, decided |-> TRUE], text |-> s.buffer]

StripChoice(s, c) ==
  LET taken == IF c.content = None THEN TakeBuffer(s)
                                   ELSE StripText(s, c.content[1])
  IN [state |-> taken.state,
      delta |-> [c EXCEPT !.content = SomeText(taken.text)]]

StripStep(state, chunk) == EachChoice(StripChoice, state, chunk)

StripFlush(state) ==
  Recovered(LAMBDA i : Delta(i, SomeText(TakeBuffer(state[i]).text), "none"))

----------------------------------------------------------------------------
(***************************************************************************)
(* The reasoning parser of a choice (dynamo-parsers, external): text is    *)
(* reasoning between the markers, which it removes; half a start marker is *)
(* held until the next symbol; finish_reasoning_stream hands it over.      *)
(***************************************************************************)
Channel(parsed, text) ==
  IF parsed.inside THEN [parsed EXCEPT !.reasoning = @ \o text]
                   ELSE [parsed EXCEPT !.normal = @ \o text]

ParseSymbol(parsed, symbol) ==
  LET open == parsed.held /\ symbol = ")"
      due == IF parsed.held THEN Channel(parsed, <<"(">>) ELSE parsed
  IN CASE open -> [parsed EXCEPT !.held = FALSE, !.inside = TRUE]
       [] symbol = "(" -> [due EXCEPT !.held = TRUE]
       [] symbol = "E" /\ parsed.inside ->
            [due EXCEPT !.held = FALSE, !.inside = FALSE]
       [] OTHER -> [Channel(due, <<symbol>>) EXCEPT !.held = FALSE]

\* parse_reasoning_streaming_incremental.
Parse(parser, text) ==
  FoldLeft(ParseSymbol, [inside |-> parser.inside, held |-> parser.held,
                         normal |-> <<>>, reasoning |-> <<>>], text)
ParserOf(parsed) == [inside |-> parsed.inside, held |-> parsed.held]

\* finish_reasoning_stream.
Finished(parser) ==
  Channel([inside |-> parser.inside, held |-> FALSE, normal |-> <<>>,
           reasoning |-> <<>>], IF parser.held THEN <<"(">> ELSE <<>>)

(***************************************************************************)
(* parse_reasoning_content_from_stream_inner.  `inspect` is                *)
(* bypass_bare_guided_json, `defer` is                                     *)
(* defer_reasoning_for_nonempty_content, and `brackets` the symbols whose  *)
(* first byte is a JSON bracket.                                           *)
(***************************************************************************)
ReasoningInit(inside, inspect, brackets) ==
  [choices |-> [i \in Indices |->
     [parser |-> [inside |-> inside, held |-> FALSE],
      brackets |-> brackets,
      decision |-> IF inspect THEN "open" ELSE "parse",
      pendingReasoning |-> <<>>, pendingContent |-> <<>>,
      leftReasoning |-> FALSE, drained |-> FALSE, finished |-> FALSE]],
   failed |-> FALSE]

\* Whether the first text of a guided choice is bare JSON.  A choice of which
\* only white space is known stays open.
Decide(s, c) ==
  LET text == TrimStart(TextIn(c.content))
  IN IF s.decision # "open" THEN s.decision
     ELSE IF text = <<>> THEN "open"
     ELSE IF text[1] \in s.brackets THEN "bypass" ELSE "parse"

\* One parsed delta while the text may still be the whole answer: it is held
\* until text that is not blank shows that the parser left the reasoning.
Deferred(s, parsed, c) ==
  LET reasoning == s.pendingReasoning \o parsed.reasoning
      content == s.pendingContent \o parsed.normal
  IN IF Blank(parsed.normal)
     THEN [state |-> [s EXCEPT !.pendingReasoning = reasoning,
                               !.pendingContent = content],
           delta |-> [c EXCEPT !.content = None, !.reasoning = None]]
     ELSE [state |-> [s EXCEPT !.leftReasoning = TRUE,
                               !.pendingReasoning = <<>>,
                               !.pendingContent = <<>>],
           delta |-> [c EXCEPT !.content = Some(content),
                               !.reasoning = SomeText(reasoning)]]

ParseChoice(defer, s, c) ==
  LET parsed == Parse(s.parser, c.content[1])
      fed == [s EXCEPT !.parser = ParserOf(parsed), !.drained = FALSE]
  IN IF defer /\ ~s.leftReasoning THEN Deferred(fed, parsed, c)
     ELSE [state |-> fed,
           delta |-> [c EXCEPT !.content = SomeText(parsed.normal),
                               !.reasoning = SomeText(parsed.reasoning)]]

\* Mutant: the reasoning held so far is not part of the recovered content.
DrainForgets(s) ==
  LET last == IF s.finished THEN Finished([inside |-> FALSE, held |-> FALSE])
                            ELSE Finished(s.parser)
      spent == [s EXCEPT !.drained = TRUE, !.finished = TRUE,
                         !.pendingReasoning = <<>>, !.pendingContent = <<>>]
  IN IF s.drained THEN [state |-> s, content |-> <<>>, reasoning |-> <<>>]
     ELSE [state |-> spent, content |-> s.pendingContent \o last.normal,
           reasoning |-> last.reasoning]

\* drain_deferred_reasoning.
Drain(s) ==
  LET last == IF s.finished THEN Finished([inside |-> FALSE, held |-> FALSE])
                            ELSE Finished(s.parser)
      text == s.pendingReasoning \o last.reasoning \o last.normal
      spent == [s EXCEPT !.drained = TRUE, !.finished = TRUE,
                         !.pendingReasoning = <<>>, !.pendingContent = <<>>]
  IN IF s.drained THEN [state |-> s, content |-> <<>>, reasoning |-> <<>>]
     ELSE IF s.leftReasoning
     THEN [state |-> spent, content |-> s.pendingContent \o last.normal,
           reasoning |-> last.reasoning]
     ELSE [state |-> spent,
           content |-> IF text = <<>> THEN s.pendingContent ELSE text,
           reasoning |-> <<>>]

\* A finishing choice carries what it still held on its terminal delta.
DrainInto(one) ==
  LET drain == Drain(one.state)
  IN [state |-> drain.state,
      delta |-> [one.delta EXCEPT
                   !.content = SomeText(TextIn(@) \o drain.content),
                   !.reasoning = SomeText(TextIn(@) \o drain.reasoning)]]

ReasoningChoice(defer, s, c) ==
  LET decided == [s EXCEPT !.decision = Decide(s, c)]
      one == IF decided.decision = "parse" /\ c.content # None
             THEN ParseChoice(defer, decided, c)
             ELSE [state |-> decided, delta |-> c]
  IN IF defer /\ c.finish # "none" /\ decided.decision = "parse"
     THEN DrainInto(one) ELSE one

ReasoningStep(defer, state, chunk) ==
  LET marked(step) == [step EXCEPT !.state =
                         [choices |-> @, failed |-> state.failed \/ chunk.error]]
  IN marked(EachChoice(LAMBDA s, c : ReasoningChoice(defer, s, c),
                       state.choices, chunk))

ReasoningFlush(defer, state) ==
  LET held(i) ==
        LET s == state.choices[i]
            drain == Drain(s)
        IN IF s.decision = "parse"
           THEN [Delta(i, SomeText(drain.content), "none")
                   EXCEPT !.reasoning = SomeText(drain.reasoning)]
           ELSE Delta(i, None, "none")
  IN IF defer /\ ~state.failed THEN Recovered(held) ELSE <<>>

----------------------------------------------------------------------------
(***************************************************************************)
(* A unified parser (external) splits reasoning, content and tool calls;   *)
(* defer_unified_reasoning_for_nonempty_content then holds the reasoning   *)
(* of a choice until it has shown visible output.                          *)
(***************************************************************************)
UnifiedInit(inside) == [i \in Indices |-> [inside |-> inside, held |-> FALSE]]
UnifiedChoice(s, c) ==
  LET parsed == Parse(s, TextIn(c.content))
      normal == SelectSeq(parsed.normal, LAMBDA x : x # "c")
  IN [state |-> ParserOf(parsed),
      delta |-> [c EXCEPT !.content = SomeText(normal),
                          !.reasoning = SomeText(parsed.reasoning),
                          !.tools = normal # parsed.normal]]
UnifiedStep(state, chunk) == EachChoice(UnifiedChoice, state, chunk)

DeferInit ==
  [choices |-> [i \in Indices |->
     [pendingReasoning |-> <<>>, pendingContent |-> <<>>,
      visible |-> FALSE, drained |-> FALSE]],
   failed |-> FALSE]

\* DeferredUnifiedChoice.drain, as the content and reasoning it hands over.
DeferDrain(s) ==
  IF s.drained THEN [content |-> <<>>, reasoning |-> <<>>]
  ELSE IF s.visible
  THEN [content |-> s.pendingContent, reasoning |-> s.pendingReasoning]
  ELSE [content |-> IF Blank(s.pendingReasoning) THEN s.pendingContent
                                                 ELSE s.pendingReasoning,
        reasoning |-> <<>>]
DeferDrained(s) == [s EXCEPT !.drained = TRUE, !.pendingReasoning = <<>>,
                             !.pendingContent = <<>>]

\* One delta: what it leaves pending, what it shows, and the chunks to emit
\* before it when held text is released by a delta that has no room for it.
DeferChoice(s, c) ==
  LET text == TextIn(c.content)
      fresh == c.content # None \/ c.reasoning # None \/ c.tools
      held == s.pendingReasoning
                \o (IF s.visible THEN <<>> ELSE TextIn(c.reasoning))
      shows == s.visible \/ ~Blank(text)
      visible == shows \/ c.tools
      content == IF shows /\ c.content # None THEN s.pendingContent \o text
                                              ELSE <<>>
      waiting == IF shows /\ c.content # None THEN <<>>
                 ELSE s.pendingContent \o text
      now == [pendingReasoning |-> IF visible THEN <<>> ELSE held,
              pendingContent |-> IF visible THEN <<>> ELSE waiting,
              visible |-> visible,
              drained |-> s.drained /\ ~fresh]
      drain == IF c.finish = "none" THEN [content |-> <<>>, reasoning |-> <<>>]
                                    ELSE DeferDrain(now)
      released(text2) == SomeText(IF visible THEN text2 ELSE <<>>)
      before == SelectSeq(
        <<[Delta(c.index, None, "none") EXCEPT !.reasoning = released(held)],
          Delta(c.index, released(waiting), "none")>>,
        LAMBDA d : d.content # None \/ d.reasoning # None)
      reasoning == IF s.visible THEN TextIn(c.reasoning) ELSE <<>>
  IN [state |-> IF c.finish = "none" THEN now ELSE DeferDrained(now),
      before |-> before,
      delta |-> [c EXCEPT
                   !.content = SomeText(content \o drain.content),
                   !.reasoning = SomeText(reasoning \o drain.reasoning)]]

DeferStep(state, chunk) ==
  LET joined(acc, i, one) == [choices |-> [acc.choices EXCEPT ![i] = one.state],
                              before |-> acc.before \o one.before,
                              deltas |-> Append(acc.deltas, one.delta)]
      take(acc, c) == joined(acc, c.index, DeferChoice(acc.choices[c.index], c))
      emit(done) ==
        [state |-> [choices |-> done.choices, failed |-> chunk.error],
         out |-> [k \in DOMAIN done.before |-> Chunk(<<done.before[k]>>, 0)]
                   \o <<[chunk EXCEPT !.choices = done.deltas]>>]
  IN IF state.failed THEN [state |-> state, out |-> <<>>]
     ELSE emit(FoldLeft(take, [choices |-> state.choices, before |-> <<>>,
                               deltas |-> <<>>], chunk.choices))

DeferFlush(state) ==
  LET held(i) == LET drain == DeferDrain(state.choices[i])
                 IN [Delta(i, SomeText(drain.content), "none")
                       EXCEPT !.reasoning = SomeText(drain.reasoning)]
  IN IF state.failed THEN <<>> ELSE Recovered(held)

----------------------------------------------------------------------------
(***************************************************************************)
(* hold_usage_until_stream_end: the trailer waits for every recovery chunk *)
(* and is dropped after a transport error.                                 *)
(***************************************************************************)
HoldInit == [usage |-> <<>>, failed |-> FALSE]
\* Mutant: the trailer is sent on as soon as it arrives.
HoldStepForwards(state, chunk) ==
  Emit(IF chunk.error THEN [state EXCEPT !.failed = TRUE] ELSE state, chunk)
HoldStep(state, chunk) ==
  IF chunk.error
  THEN Emit([usage |-> <<>>, failed |-> TRUE], chunk)
  ELSE IF UsageOnly(chunk)
  THEN [state |-> [state EXCEPT !.usage = <<chunk>>], out |-> state.usage]
  ELSE Emit(state, chunk)
HoldFlush(state) == IF state.failed THEN <<>> ELSE state.usage

(***************************************************************************)
(* apply_tool_calling_jail as this chain sees it; its metadata is the      *)
(* matter of ToolCallJail.  The jail (external) takes a choice's text and  *)
(* hands it over as it arrives, or all of it at the end of the stream; how *)
(* much of it is a call is not told apart.  After an error, nothing.       *)
(***************************************************************************)
JailInit == [held |-> [i \in Indices |-> <<>>], failed |-> FALSE]
JailChoice(held, c) ==
  [state |-> held \o TextIn(c.content), delta |-> [c EXCEPT !.content = None]]
JailStep(mode, state, chunk) ==
  LET taken == EachChoice(JailChoice, state.held, chunk)
  IN IF state.failed THEN [state |-> state, out |-> <<>>]
     ELSE IF chunk.error THEN Emit([state EXCEPT !.failed = TRUE], chunk)
     ELSE IF mode = "streams" THEN Emit(state, chunk)
     ELSE [state |-> [state EXCEPT !.held = taken.state], out |-> taken.out]
JailFlush(state) ==
  IF state.failed THEN <<>>
  ELSE Recovered(LAMBDA i : Delta(i, SomeText(state.held[i]), "none"))

(***************************************************************************)
(* annotate_reasoning_usage with its ReasoningUsageEstimator.              *)
(***************************************************************************)
EstimatorInit == [total |-> 0, active |-> {}]
Visible(c) == c.content # None \/ c.tools

Counts(state, chunk) ==
  \/ \E k \in DOMAIN chunk.choices :
       LET c == chunk.choices[k]
       IN c.reasoning # None \/ (c.index \in state.active /\ ~Visible(c))
  \/ chunk.choices = <<>> /\ state.active # {}

Observe(state, chunk) ==
  LET mark(active, c) == IF c.reasoning # None THEN active \cup {c.index}
                         ELSE IF Visible(c) THEN active \ {c.index} ELSE active
  IN [total |-> IF Counts(state, chunk) THEN state.total + chunk.tokens
                                        ELSE state.total,
      active |-> FoldLeft(mark, state.active, chunk.choices)]

EstimatorStep(state, chunk) ==
  LET seen == Observe(state, chunk)
  IN Emit(seen, IF chunk.usage = None \/ chunk.usage[1] > 0 THEN chunk
                ELSE [chunk EXCEPT !.usage = Some(seen.total)])

(***************************************************************************)
(* apply_tool_call_response_policy and normalize_chat_stream_roles.        *)
(***************************************************************************)
PolicyStep(state, chunk) ==
  LET refuse(c) == [c EXCEPT !.tools = FALSE,
                             !.finish = IF @ = "tool_calls" THEN "stop" ELSE @]
  IN Emit(state, [chunk EXCEPT !.choices =
                    [k \in DOMAIN chunk.choices |-> refuse(chunk.choices[k])]])

RolesStep(state, chunk) ==
  LET take(acc, c) == [seen |-> acc.seen \cup {c.index},
                       deltas |-> Append(acc.deltas,
                         [c EXCEPT !.role = c.index \notin acc.seen])]
      done == FoldLeft(take, [seen |-> state, deltas |-> <<>>], chunk.choices)
  IN Emit(done.seen, [chunk EXCEPT !.choices = done.deltas])
=============================================================================
