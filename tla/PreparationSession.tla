------------------------- MODULE PreparationSession -------------------------
(***************************************************************************)
(* run_session of controller.py: the foreground that drives the policy of  *)
(* module Preparation.  A session sends the task's user messages one turn  *)
(* at a time; in a turn it calls the model, runs the tools the model asks  *)
(* for in the sandbox, and calls the model again, up to a call limit.      *)
(* However it ends, it drains the preparations, flushes the transport and  *)
(* persists its result; the controller may cancel it at any await.         *)
(***************************************************************************)
EXTENDS Preparation

CONSTANTS
    Tasks           \* the tasks: turns (initial prompt and follow-ups), calls
                    \* (config["calls_per_turn"]), tools (bound: of a response)

ASSUME SessionConstants ==
    \A t \in Tasks :
        /\ t.turns \in Nat \ {0} /\ t.calls \in Nat \ {0} /\ t.tools \in Nat
        /\ t.turns * t.calls =< MaxAttempts

VARIABLES
    task,       \* the task of the session
    at,         \* the await or loop head the session is at
    turns,      \* turn_result rows: calls and outcome
    outcome,    \* result["outcome"]
    modelCalls, \* result["model_calls"]
    history,    \* the messages
    todo,       \* tool calls of the last response still to run
    expired,    \* time.monotonic() >= deadline
    usable,     \* Sandbox.usable
    flush,      \* what HttpCapture.flush returned, by attempt
    saved       \* the persisted session file

loopVars == <<turns, modelCalls, history, todo>>
sessionVars == <<task, at, loopVars, outcome, expired, usable, flush, saved>>
allVars == <<vars, sessionVars>>

NotSaved == [outcome |-> "none"]

(***************************************************************************)
(* response_issue over what ChatModel.complete can return: an error row,   *)
(* or a completed stream with a finish reason, text and tool calls.        *)
(***************************************************************************)
Responses ==
    {[error |-> TRUE]}
        \cup [error : {FALSE}, finish : {"stop", "tool_calls", "length", "other"},
              text : BOOLEAN, calls : 0..task.tools, ids : BOOLEAN, counted : BOOLEAN]

ResponseIssue(r) ==
    CASE r.error -> "model_error"
      [] ~r.error /\ r.finish = "length" -> "output_limit"
      [] ~r.error /\ r.finish = "other" -> "unsupported_finish_reason"
      [] OTHER ->
           CASE r.calls = 0 /\ ~r.text -> "empty_response"
             [] r.calls > 0 /\ ~r.ids -> "invalid_tool_ids"
             [] r.finish = "tool_calls" /\ r.calls = 0 -> "missing_tool_calls"
             [] OTHER -> "none"

(* run_session also compares the server's prompt count with its own. *)
Issue(r) ==
    LET issue == ResponseIssue(r)
    IN IF issue \in {"none", "empty_response"} /\ ~r.counted
       THEN "renderer_count_mismatch" ELSE issue

Turn == Len(turns)
InTurn(result) == [turns EXCEPT ![Turn] = result]

Called == InTurn([turns[Turn] EXCEPT !.calls = @ + 1])

SessionInit ==
    /\ Init
    /\ task \in Tasks
    /\ at = "turn" /\ turns = <<>> /\ outcome = "not_started"
    /\ modelCalls = 0 /\ history = <<[role |-> "system"]>> /\ todo = 0
    /\ expired = FALSE /\ usable = TRUE
    /\ flush = [i \in Ids |-> "absent"] /\ saved = NotSaved

(* Every return and raise of the body enters the finally clause. *)
Return(why) == outcome' = why /\ at' = "finally"

---------------------------------------------------------------------------
NextTurn ==
    /\ at = "turn"
    /\ Turn < task.turns
    /\ turns' = Append(turns, [calls |-> 0, outcome |-> "call_limit"])
    /\ history' = Append(history, [role |-> "user"])
    /\ at' = "call"
    /\ UNCHANGED <<vars, outcome, modelCalls, todo, expired, usable, flush, saved>>

(* The outcome of a session whose turns all came to an end. *)
FinalOutcome ==
    IF \E t \in DOMAIN turns : turns[t].outcome = "empty_response"
    THEN "finished_with_turn_failures"
    ELSE IF \A t \in DOMAIN turns : turns[t].outcome = "assistant_finished"
    THEN "finished" ELSE "turn_call_limit"

TurnsDone ==
    /\ at = "turn"
    /\ Turn = task.turns
    /\ Return(FinalOutcome)
    /\ UNCHANGED <<vars, loopVars, expired, usable, flush, saved>>

(* range(calls_per_turn) is exhausted. *)
CallLimit ==
    /\ at = "call"
    /\ turns[Turn].calls = task.calls
    /\ at' = "turn"
    /\ UNCHANGED <<vars, loopVars, outcome, expired, usable, flush, saved>>

MayCall == at = "call" /\ turns[Turn].calls < task.calls

(* Mutant: the policy is not told about the dispatch before it. *)
DispatchUnannounced ==
    /\ MayCall
    /\ ~expired
    /\ foreground' = "dispatched"
    /\ at' = "model"
    /\ UNCHANGED <<policyVars, drain, loopVars, outcome, expired, usable, flush, saved>>

StopBeforeCall ==
    /\ MayCall
    /\ \/ expired /\ Return("session_timeout")
       \/ ~expired /\ Return("context_budget_stop")
       \/ ~expired /\ Return("session_error")        \* budget.count raised
    /\ UNCHANGED <<vars, loopVars, expired, usable, flush, saved>>

Dispatch ==
    /\ MayCall
    /\ ~expired
    /\ BeforeDispatch
    /\ at' = "model"
    /\ UNCHANGED <<loopVars, outcome, expired, usable, flush, saved>>

(* model.complete returns: count the call, give it an attempt row, act on it. *)
Respond(r) ==
    /\ at = "model"
    /\ AfterResponse(Issue(r) # "none")
    /\ modelCalls' = modelCalls + 1
    /\ LET issue == Issue(r)
       IN CASE issue = "empty_response" /\ r.finish = "stop" ->
                 /\ history' = Append(history, [role |-> "assistant", calls |-> 0])
                 /\ turns' = InTurn([calls |-> turns[Turn].calls + 1,
                                     outcome |-> "empty_response"])
                 /\ at' = "turn" /\ UNCHANGED <<outcome, todo>>
            [] issue # "none" /\ ~(issue = "empty_response" /\ r.finish = "stop") ->
                 /\ turns' = Called
                 /\ Return(issue) /\ UNCHANGED <<history, todo>>
            [] issue = "none" /\ r.calls = 0 ->
                 /\ history' = Append(history, [role |-> "assistant", calls |-> 0])
                 /\ turns' = InTurn([calls |-> turns[Turn].calls + 1,
                                     outcome |-> "assistant_finished"])
                 /\ at' = "turn" /\ UNCHANGED <<outcome, todo>>
            [] OTHER ->
                 /\ history' = Append(history, [role |-> "assistant", calls |-> r.calls])
                 /\ turns' = Called
                 /\ todo' = r.calls
                 /\ at' = "tool" /\ UNCHANGED outcome
    /\ UNCHANGED <<expired, usable, flush, saved>>

(* Mutant: a refused tool call is skipped without an answer. *)
ToolRefusedSilently ==
    /\ at = "tool"
    /\ todo' = todo - 1
    /\ at' = IF todo = 1 THEN "call" ELSE "tool"
    /\ UNCHANGED <<vars, turns, modelCalls, history, outcome, expired, usable, flush, saved>>

(* The result of the next tool call is seen by the model, also a refused one. *)
Observe ==
    /\ todo' = todo - 1
    /\ history' = Append(history, [role |-> "tool"])

ToolSucceeds ==
    /\ at = "tool"
    /\ Observe
    /\ at' = IF todo = 1 THEN "call" ELSE "tool"
    /\ UNCHANGED <<vars, turns, modelCalls, outcome, expired, usable, flush, saved>>

(* Any error but a ValueError ends the session; a killed container is unusable. *)
ToolFails ==
    /\ at = "tool"
    /\ Observe
    /\ \/ Return("tool_error") /\ UNCHANGED usable
       \/ /\ usable
          /\ Return("tool_timeout") \/ Return("tool_output_safety_limit")
          /\ usable' = FALSE
    /\ UNCHANGED <<vars, turns, modelCalls, expired, flush, saved>>

---------------------------------------------------------------------------
(***************************************************************************)
(* The finally clause.                                                     *)
(***************************************************************************)
StartDrain ==
    /\ at = "finally"
    /\ DrainStart
    /\ at' = "drain"
    /\ UNCHANGED <<loopVars, outcome, expired, usable, flush, saved>>

Draining ==
    /\ at = "drain"
    /\ DrainCancel \/ DrainReport
    /\ UNCHANGED sessionVars

(* Mutant: the flush waits for every write, however long it takes. *)
FlushUnbounded ==
    /\ at = "drain"
    /\ drain.phase = "done"
    /\ \A i \in Ids : writes[i] # "pending"
    /\ flush' = [i \in Ids |-> IF writes[i] = "none" THEN "absent" ELSE writes[i]]
    /\ at' = "persist"
    /\ UNCHANGED <<vars, loopVars, outcome, expired, usable, saved>>

(* transport.close(): a bounded wait for the writes known by now. *)
Flush ==
    /\ at = "drain"
    /\ drain.phase = "done"
    /\ flush' = [i \in Ids |-> IF writes[i] = "none" THEN "absent" ELSE writes[i]]
    /\ at' = "persist"
    /\ UNCHANGED <<vars, loopVars, outcome, expired, usable, saved>>

Snapshot == [outcome |-> outcome, rows |-> attempts, cpu |-> cpu]

Persist ==
    /\ at = "persist"
    /\ saved' = Snapshot
    /\ at' = "ended"
    /\ UNCHANGED <<vars, loopVars, outcome, expired, usable, flush>>

(* The write fails, or a row changes its size while the thread serializes it. *)
PersistRaises ==
    /\ at = "persist"
    /\ at' = "raised"
    /\ UNCHANGED <<vars, loopVars, outcome, expired, usable, flush, saved>>

(* Mutant: a cancelled call gets no attempt row. *)
CancelModelCallUnrecorded ==
    /\ at = "model"
    /\ modelCalls' = modelCalls + 1
    /\ turns' = Called
    /\ Return("controller_stop")
    /\ foreground' = "idle"
    /\ UNCHANGED <<policyVars, drain, history, todo, expired, usable, flush, saved>>

---------------------------------------------------------------------------
(***************************************************************************)
(* The controller cancels the session at an await.                         *)
(***************************************************************************)
CancelModelCall ==
    /\ at = "model"
    /\ AfterResponse(TRUE)      \* "controller_cancelled"
    /\ modelCalls' = modelCalls + 1
    /\ turns' = Called
    /\ Return("controller_stop")
    /\ UNCHANGED <<history, todo, expired, usable, flush, saved>>

CancelTool ==
    /\ at = "tool"
    /\ Return("controller_stop")
    /\ UNCHANGED <<vars, loopVars, expired, usable, flush, saved>>

(* In the finally clause nothing catches it; a persist that has begun still ends. *)
CancelFinally ==
    /\ at \in {"drain", "persist"}
    /\ saved' \in {saved} \cup (IF at = "persist" THEN {Snapshot} ELSE {})
    /\ at' = "cancelled"
    /\ UNCHANGED <<vars, loopVars, outcome, expired, usable, flush>>

Expire ==
    /\ ~expired
    /\ at \in {"turn", "call", "model", "tool"}
    /\ expired' = TRUE
    /\ UNCHANGED <<vars, at, loopVars, outcome, usable, flush, saved>>

---------------------------------------------------------------------------
Body ==
    /\ \/ NextTurn \/ TurnsDone \/ CallLimit \/ StopBeforeCall \/ Dispatch
       \/ \E r \in Responses : Respond(r)
       \/ ToolSucceeds \/ ToolFails
       \/ StartDrain \/ Draining \/ Flush \/ Persist \/ PersistRaises
    /\ UNCHANGED task

Over == at \in {"ended", "raised", "cancelled"}

SessionNext ==
    \/ Body
    \/ /\ CancelModelCall \/ CancelTool \/ CancelFinally \/ Expire
       /\ UNCHANGED task
    \/ Background /\ UNCHANGED sessionVars
    \/ Over /\ UNCHANGED allVars

(***************************************************************************)
(* Model calls, tools and waits are all bounded by timeouts, so the body   *)
(* keeps moving; neither jobs nor threads nor writes need to.              *)
(***************************************************************************)
SessionSpec == SessionInit /\ [][SessionNext]_allVars /\ WF_allVars(Body)

---------------------------------------------------------------------------
(***************************************************************************)
(* Properties.                                                             *)
(***************************************************************************)

(* The session uses the policy only as module Preparation allows. *)
PolicySpec == Spec

(***************************************************************************)
(* Every model call of the session, a cancelled one included, has exactly  *)
(* one attempt row, and a call of every turn is counted once.              *)
(***************************************************************************)
CallsOfTurns == UNION {{t} \X (1..turns[t].calls) : t \in DOMAIN turns}

OneAttemptPerCall ==
    /\ Len(attempts) = modelCalls
    /\ Cardinality(CallsOfTurns) = modelCalls

(***************************************************************************)
(* Whenever a request goes out, every tool call of every assistant message *)
(* has been answered right after it, so the history is one the server      *)
(* accepts.  (the tool loop of run_session)                                *)
(***************************************************************************)
Answered ==
    \A i \in DOMAIN history : history[i].role = "assistant" =>
        /\ i + history[i].calls =< Len(history)
        /\ \A k \in 1..history[i].calls : history[i + k].role = "tool"

HistoryAnswered == at \in {"turn", "call", "model"} => Answered

(***************************************************************************)
(* A drain that reported nothing pending makes the saved session final: no *)
(* row of it and no thread behind it changes any more, and the flush names *)
(* every preparation that was sent.  (drain, transport.close, persist)     *)
(***************************************************************************)
SavedIsFinal ==
    (saved # NotSaved /\ drain.report = NoReport) =>
        /\ saved.rows = attempts /\ saved.cpu = cpu
        /\ \A i \in DOMAIN saved.rows : saved.rows[i].status \in Terminal
        /\ \A i \in DOMAIN saved.rows :
              writes[i] # "none" => flush[i] # "absent"

(***************************************************************************)
(* A session reported as finished had every turn answered in text, within  *)
(* the call limit and with an intact sandbox.  (FinalOutcome)              *)
(***************************************************************************)
FinishedMeansFinished ==
    outcome = "finished" =>
        /\ Len(turns) = task.turns /\ usable /\ todo = 0
        /\ \A t \in DOMAIN turns : turns[t].outcome = "assistant_finished"
        /\ Answered
        /\ history[Len(history)] = [role |-> "assistant", calls |-> 0]

(***************************************************************************)
(* What a session records of itself is what happened: its history, its     *)
(* attempt rows and its outcome.                                           *)
(***************************************************************************)
SessionRecordsAgree == HistoryAnswered /\ OneAttemptPerCall /\ FinishedMeansFinished

(* However the background behaves, the session comes to an end. *)
SessionEnds == <>Over
=============================================================================
