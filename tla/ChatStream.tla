----------------------------- MODULE ChatStream -----------------------------
(***************************************************************************)
(* stream_completion of chat_stream.py: one Chat Completions stream is     *)
(* read chunk by chunk into a message, the first visible output is timed,  *)
(* and the stream is closed however the call ends.                         *)
(*                                                                         *)
(* A chunk is [id, choices]; usage and model, which are copied, are left   *)
(* out.  A choice is [index, text, refusal, bad, parts, finish]: text is   *)
(* content or reasoning (one key stands for the three that are handled     *)
(* alike), refusal the fourth key, bad a function_call, a tool that is not *)
(* a function or text that is not a string; a part of a tool call is       *)
(* [index, id, out], out being a piece of its name or arguments.  An empty *)
(* piece is "".                                                            *)
(***************************************************************************)
EXTENDS Naturals, SequencesExt

CONSTANTS Chunks,      \* the chunks a server may send
          MaxChunks,   \* bound on the length of the stream
          None         \* Python's None

VARIABLES received,    \* the chunks of the stream, in order
          message,     \* [text, refusal, calls] assembled so far
          finish,      \* the finish_reason seen, or None
          firstOutput, \* first_output_ms is set
          stream,      \* "none", "open" or "closed"
          result       \* [how, completion]: "running", "raised" or "returned"

vars == <<received, message, finish, firstOutput, stream, result>>

Empty == [text |-> <<>>, refusal |-> <<>>, calls |-> <<>>]

Result(how, completion) == [how |-> how, completion |-> completion]

Running == result.how = "running"

Init ==
    /\ received = <<>>
    /\ message = Empty
    /\ finish = None
    /\ firstOutput = FALSE
    /\ stream = "none"
    /\ result = Result("running", Empty)

Pieces(value) == IF value = "" THEN <<>> ELSE <<value>>

\* calls.setdefault(index, ...)
CallAt(calls, index) ==
    IF index \in DOMAIN calls THEN calls[index] ELSE [id |-> None, out |-> <<>>]

\* One part of delta.tool_calls; the parts after a failing one are not read.
AddPart(acc, part) ==
    LET call == CallAt(acc.calls, part.index)
        new  == [id  |-> IF part.id = "" THEN call.id ELSE part.id,
                 out |-> call.out \o Pieces(part.out)]
    IN  IF acc.bad \/ (part.id # "" /\ call.id \notin {None, part.id})
        THEN [acc EXCEPT !.bad = TRUE]
        ELSE [acc EXCEPT !.calls = [i \in DOMAIN @ \cup {part.index} |->
                                      IF i = part.index THEN new ELSE @[i]],
                         !.visible = @ \/ part.out # ""]

\* Whether a delta holds one of the keys that may not follow the finish reason.
HasOutput(choice) == choice.text # "" \/ choice.parts # <<>>

\* Mutant: output after the finish reason is taken in.
ReadChoiceAnytime(choice) ==
    LET start == [bad |-> choice.index # 0 \/ choice.bad,
                  calls |-> message.calls,
                  visible |-> choice.text # "" \/ choice.refusal # ""]
        read  == FoldLeft(AddPart, start, choice.parts)
    IN  [read EXCEPT !.bad = @ \/ (finish # None /\ choice.finish # None)]

\* The checks and updates of one choice.
ReadChoice(choice) ==
    LET start == [bad |-> \/ choice.index # 0 \/ choice.bad
                          \/ finish # None /\ HasOutput(choice),
                  calls |-> message.calls,
                  visible |-> choice.text # "" \/ choice.refusal # ""]
        read  == FoldLeft(AddPart, start, choice.parts)
    IN  [read EXCEPT !.bad = @ \/ (finish # None /\ choice.finish # None)]

Raised == Result("raised", Empty)

\* The finally clause: a stream that was opened is closed.
Leave(outcome) ==
    /\ result' = outcome
    /\ stream' = IF stream = "open" THEN "closed" ELSE stream

\* client.chat.completions.create
Open ==
    /\ Running /\ stream = "none"
    /\ \/ stream' = "open" /\ UNCHANGED result
       \/ Leave(Raised)
    /\ UNCHANGED <<received, message, finish, firstOutput>>

Changed(chunk) == received # <<>> /\ received[1].id # chunk.id

Take(chunk) ==
    /\ Running /\ stream = "open" /\ Len(received) < MaxChunks
    /\ received' = Append(received, chunk)
    /\ IF Changed(chunk) \/ Len(chunk.choices) > 1
       THEN Leave(Raised) /\ UNCHANGED <<message, finish, firstOutput>>
       ELSE IF chunk.choices = <<>>
       THEN UNCHANGED <<message, finish, firstOutput, stream, result>>
       ELSE LET choice == chunk.choices[1]
                read   == ReadChoice(choice)
            IN  IF read.bad
                THEN Leave(Raised) /\ UNCHANGED <<message, finish, firstOutput>>
                ELSE /\ message' = [text    |-> message.text \o Pieces(choice.text),
                                    refusal |-> message.refusal \o Pieces(choice.refusal),
                                    calls   |-> read.calls]
                     /\ firstOutput' = (firstOutput \/ read.visible)
                     /\ finish' = IF choice.finish = None THEN finish ELSE choice.finish
                     /\ UNCHANGED <<stream, result>>

\* Argument text cut off by the output limit may belong to a call without an
\* id; ChatCompletion.model_validate refuses one otherwise.
Identified(calls) ==
    IF finish = "length"
    THEN [i \in DOMAIN calls |-> [calls[i] EXCEPT !.id = IF @ = None THEN "" ELSE @]]
    ELSE calls

Complete ==
    /\ finish # None
    /\ DOMAIN message.calls = 0 .. Cardinality(DOMAIN message.calls) - 1
    /\ \A i \in DOMAIN message.calls : Identified(message.calls)[i].id # None

\* The stream ends.
Finish ==
    /\ Running /\ stream = "open"
    /\ IF Complete
       THEN Leave(Result("returned", [message EXCEPT !.calls = Identified(@)]))
       ELSE Leave(Raised)
    /\ UNCHANGED <<received, message, finish, firstOutput>>

\* The connection breaks or the call is cancelled at an await.
Break ==
    /\ Running /\ stream = "open"
    /\ Leave(Raised)
    /\ UNCHANGED <<received, message, finish, firstOutput>>

Next == Open \/ (\E chunk \in Chunks : Take(chunk)) \/ Finish \/ Break

Spec == Init /\ [][Next]_vars

(***************************************************************************)
(* The reference: the stream read as a whole.                              *)
(***************************************************************************)
Answers == FlattenSeq([k \in DOMAIN received |-> received[k].choices])

Finishes == {k \in DOMAIN Answers : Answers[k].finish # None}

Parts == FlattenSeq([k \in DOMAIN Answers |-> Answers[k].parts])

PartsOf(index) == SelectSeq(Parts, LAMBDA part : part.index = index)

IdsOf(index) == {PartsOf(index)[k].id : k \in DOMAIN PartsOf(index)} \ {""}

CallIndices == {Parts[k].index : k \in DOMAIN Parts}

Joined(pieces) == SelectSeq(pieces, LAMBDA piece : piece # "")

WellFormed ==
    /\ \A k \in DOMAIN received :
         received[k].id = received[1].id /\ Len(received[k].choices) =< 1
    /\ \A k \in DOMAIN Answers : Answers[k].index = 0 /\ ~Answers[k].bad
    /\ Cardinality(Finishes) = 1
    /\ \A k \in DOMAIN Answers :
         (\E f \in Finishes : f < k) => ~HasOutput(Answers[k])
    /\ CallIndices = 0 .. Cardinality(CallIndices) - 1
    /\ \A i \in CallIndices : Cardinality(IdsOf(i)) =< 1

CutOff == \E f \in Finishes : Answers[f].finish = "length"

Whole ==
    [text    |-> Joined([k \in DOMAIN Answers |-> Answers[k].text]),
     refusal |-> Joined([k \in DOMAIN Answers |-> Answers[k].refusal]),
     calls   |-> [i \in CallIndices |->
                   [id  |-> IF IdsOf(i) = {} THEN "" ELSE CHOOSE id \in IdsOf(i) : TRUE,
                    out |-> Joined([k \in DOMAIN PartsOf(i) |-> PartsOf(i)[k].out])]]]

(***************************************************************************)
(* A completion that stream_completion returns is the one the stream       *)
(* spells out as a whole, however its tool calls were interleaved: one     *)
(* well-formed choice, every call identified unless the output limit cut   *)
(* it off, the first output timed exactly if there is output; and a call   *)
(* that is over has closed its stream.                                     *)
(***************************************************************************)
CompletionIsTheStream ==
    /\ result.how = "returned" =>
         /\ WellFormed
         /\ CutOff \/ \A i \in CallIndices : IdsOf(i) # {}
         /\ result.completion = Whole
         /\ firstOutput <=> \/ Whole.text # <<>> \/ Whole.refusal # <<>>
                            \/ \E i \in CallIndices : Whole.calls[i].out # <<>>
    /\ ~Running => stream # "open"
=============================================================================
