------------------------------ MODULE ToolTurn ------------------------------
(***************************************************************************)
(* The stream wrapper of maybe_wrap_stream (speculative_prefill.rs) and    *)
(* the accumulator behind it (accumulator.rs, CompletedToolTurn).  Every   *)
(* item of the client's response stream is passed on unchanged; on the     *)
(* way it is folded into one assistant turn.  At end of stream the turn,   *)
(* if it is a complete tool-call turn, goes through a oneshot channel to   *)
(* the task that warms the cache for the follow-up request.                *)
(*                                                                         *)
(* An item is [error, data]: data is the sequence of the response's        *)
(* choices, or Absent for an annotation without data.  A choice is         *)
(* [index, content, reasoning, odd, calls, finish]: content and reasoning  *)
(* are "none" or a piece of text (content may be "parts"), odd stands for  *)
(* a function_call, a refusal or a foreign role, calls is a sequence of    *)
(* chunks [index, id, name, args] whose args are the JSON tokens of that   *)
(* fragment.  The type of a call has the one value "function" in the       *)
(* protocol and is left out.                                               *)
(***************************************************************************)
EXTENDS Naturals, SequencesExt

CONSTANTS Items,        \* the items the backend may send
          MaxItems,     \* bound on the length of the stream
          Absent        \* an absent field (Rust None, JSON null)

VARIABLES items,    \* what the client has received, in order
          turn,     \* CompletedToolTurn
          tx,       \* the oneshot sender: "held", "dropped" or "used"
          sent,     \* what went through the channel: <<>> or <<message>>
          stream    \* "open", "ended" or "abandoned" by the client

vars == <<items, turn, tx, sent, stream>>

Pieces(text) == IF text = "none" THEN <<>> ELSE <<text>>

(***************************************************************************)
(* CompletedToolTurn                                                       *)
(***************************************************************************)
EmptyTurn ==
    [content |-> <<>>, reasoning |-> <<>>, tools |-> <<>>, finished |-> FALSE, failed |-> FALSE]

Reject(t) == [t EXCEPT !.failed = TRUE]

\* tools is a BTreeMap: a function from the chunk indices seen so far.
NewTool == [id |-> Absent, name |-> Absent, args |-> <<>>]

ToolAt(t, i) == IF i \in DOMAIN t.tools THEN t.tools[i] ELSE NewTool

Conflicts(old, new) == new # Absent /\ old # Absent /\ old # new

Known(old, new) == IF new = Absent THEN old ELSE new

\* One chunk of delta.tool_calls.  The early returns leave the loop: a failed
\* turn takes no further chunk.
AddChunk(t, chunk) ==
    LET old == ToolAt(t, chunk.index)
        new == [id   |-> Known(old.id, chunk.id),
                name |-> Known(old.name, chunk.name),
                args |-> old.args \o chunk.args]
    IN  IF t.failed THEN t
        ELSE IF Conflicts(old.id, chunk.id) \/ Conflicts(old.name, chunk.name)
             THEN Reject(t)
             ELSE [t EXCEPT !.tools = [i \in DOMAIN t.tools \cup {chunk.index} |->
                                         IF i = chunk.index THEN new ELSE t.tools[i]]]

AddChoice(t, choice) ==
    LET texted == [t EXCEPT !.content = @ \o Pieces(choice.content),
                            !.reasoning = @ \o Pieces(choice.reasoning)]
        called == FoldLeft(AddChunk, texted, choice.calls)
    IN  IF choice.odd \/ choice.content = "parts" THEN Reject(t)
        ELSE IF called.failed \/ choice.finish = "none" THEN called
        ELSE IF choice.finish = "tool_calls" THEN [called EXCEPT !.finished = TRUE]
        ELSE Reject([called EXCEPT !.finished = TRUE])

\* Mutant: frames after the terminal choice are still folded in.
ObserveAcceptsLate(t, choices) ==
    ~t.failed /\ Len(choices) = 1 /\ choices[1].index = 0

ObserveAccepts(t, choices) ==
    ~t.failed /\ ~t.finished /\ Len(choices) = 1 /\ choices[1].index = 0

Observe(t, choices) ==
    IF choices = <<>> THEN t
    ELSE IF ObserveAccepts(t, choices) THEN AddChoice(t, choices[1])
    ELSE Reject(t)

IsObject(args) == args = <<"{", "}">>

UsableTool(tool) ==
    /\ tool.id \notin {Absent, ""}
    /\ tool.name \notin {Absent, ""}
    /\ IsObject(tool.args)

UsableTools(tools) ==
    /\ DOMAIN tools = 0 .. Cardinality(DOMAIN tools) - 1
    /\ \A i \in DOMAIN tools : UsableTool(tools[i])
    /\ \A i, j \in DOMAIN tools : i # j => tools[i].id # tools[j].id

\* The assistant message of a usable turn, as a sequence of at most one.
Finish(t) ==
    IF ~t.failed /\ t.finished /\ DOMAIN t.tools # {} /\ UsableTools(t.tools)
    THEN <<[content |-> t.content, reasoning |-> t.reasoning, calls |-> t.tools]>>
    ELSE <<>>

(***************************************************************************)
(* The wrapped stream                                                      *)
(***************************************************************************)
Init ==
    /\ items = <<>>
    /\ turn = EmptyTurn
    /\ tx = "held"
    /\ sent = <<>>
    /\ stream = "open"

\* One item polled from the inner stream, observed, and yielded.
Item(item) ==
    /\ stream = "open" /\ Len(items) < MaxItems
    /\ items' = Append(items, item)
    /\ LET seen == IF item.error THEN Reject(turn) ELSE turn
       IN  turn' = IF item.data = Absent THEN seen ELSE Observe(seen, item.data)
    /\ UNCHANGED <<tx, sent, stream>>

DropSender == tx' = (IF tx = "held" THEN "dropped" ELSE tx) /\ UNCHANGED sent

\* The inner stream ends: finish, send or let the sender go out of scope.
Eof ==
    /\ stream = "open"
    /\ stream' = "ended"
    /\ IF Finish(turn) # <<>>
       THEN tx' = "used" /\ sent' = Finish(turn)
       ELSE DropSender
    /\ UNCHANGED <<items, turn>>

\* The client goes away: the wrapped stream is dropped, and its sender with it.
Abandon ==
    /\ stream = "open"
    /\ stream' = "abandoned"
    /\ DropSender
    /\ UNCHANGED <<items, turn>>

Next == (\E item \in Items : Item(item)) \/ Eof \/ Abandon

Spec == Init /\ [][Next]_vars

(***************************************************************************)
(* The reference: what a finished stream says, read as a whole.            *)
(***************************************************************************)
ChoicesOf(k) == IF items[k].data = Absent THEN <<>> ELSE items[k].data

Spoken == {k \in DOMAIN items : ChoicesOf(k) # <<>>}

\* All choices the client received, in order.
Received == FlattenSeq([k \in DOMAIN items |-> ChoicesOf(k)])

TextOf(index, field) ==
    LET own == SelectSeq(Received, LAMBDA choice : choice.index = index)
    IN  FlattenSeq([k \in DOMAIN own |-> Pieces(own[k][field])])

\* All tool-call chunks of the stream, in order, and those of one call.
Chunks == FlattenSeq([k \in DOMAIN Received |-> Received[k].calls])

ChunksAt(i) == SelectSeq(Chunks, LAMBDA chunk : chunk.index = i)

Said(i, field) == {ChunksAt(i)[k][field] : k \in DOMAIN ChunksAt(i)} \ {Absent}

Arguments(i) == FlattenSeq([k \in DOMAIN ChunksAt(i) |-> ChunksAt(i)[k].args])

CallIndices == {Chunks[k].index : k \in DOMAIN Chunks}

OneCompleteChoice ==
    /\ \A k \in DOMAIN items : ~items[k].error
    /\ Spoken # {}
    /\ \A k \in Spoken :
         /\ Len(ChoicesOf(k)) = 1
         /\ ChoicesOf(k)[1].index = 0
         /\ ~ChoicesOf(k)[1].odd
         /\ ChoicesOf(k)[1].content # "parts"
         /\ ChoicesOf(k)[1].finish =
              IF \A l \in Spoken : l <= k THEN "tool_calls" ELSE "none"

UsableCalls ==
    /\ CallIndices # {}
    /\ CallIndices = 0 .. Cardinality(CallIndices) - 1
    /\ \A i \in CallIndices :
         /\ Cardinality(Said(i, "id")) = 1 /\ "" \notin Said(i, "id")
         /\ Cardinality(Said(i, "name")) = 1 /\ "" \notin Said(i, "name")
         /\ IsObject(Arguments(i))
    /\ \A i, j \in CallIndices : i # j => Said(i, "id") # Said(j, "id")

\* The whole tool-call turn of the stream, with its text and calls.
WholeTurn ==
    [content   |-> TextOf(0, "content"),
     reasoning |-> TextOf(0, "reasoning"),
     calls     |-> [i \in CallIndices |->
                    [id   |-> CHOOSE v \in Said(i, "id") : TRUE,
                     name |-> CHOOSE v \in Said(i, "name") : TRUE,
                     args |-> Arguments(i)]]]

(***************************************************************************)
(* Properties                                                              *)
(***************************************************************************)

\* What reaches the warmup task (tx.send in maybe_wrap_stream) is the whole
\* turn the client received, and it is sent exactly for the streams that end
\* as one complete, error-free tool-call turn: a chunk folded in the wrong
\* order, a frame after the terminal choice, a late error or an over-cautious
\* rejection would show here.
SentIsWholeTurn ==
    IF stream = "ended" /\ OneCompleteChoice /\ UsableCalls
    THEN sent = <<WholeTurn>>
    ELSE sent = <<>>

=============================================================================
