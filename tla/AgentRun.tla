------------------------------ MODULE AgentRun ------------------------------
(***************************************************************************)
(* One run of ReedCodeAgent (reedcode_harbor_agent.py): the turn loop with *)
(* the metrics window around each model call, the tools, the final notice  *)
(* of a Dynamo session and the summary.  run() is one asyncio task: it can *)
(* be cancelled at each of its awaits, and pc names the await at which it  *)
(* is suspended.                                                           *)
(***************************************************************************)
EXTENDS Integers, Sequences, FiniteSets, SequencesExt

CONSTANTS
    MaxTurns,   \* settings.max_turns
    MaxCalls,   \* bound: tool calls in one response
    MaxCancels, \* bound: cancellations of the task
    None

ASSUME AgentConstants ==
    /\ MaxTurns \in Nat \ {0} /\ {MaxCalls, MaxCancels} \subseteq Nat
    /\ None \notin Int /\ None \notin BOOLEAN

VARIABLES
    settings,       \* whether Dynamo and a well-formed metrics URL are configured
    pc, turn,
    history,        \* tool calls and their outputs, in order
    calls,          \* tool calls of this response that are not answered
    totals,         \* total_input and total_cached
    counts,         \* model_calls, tool_calls_total, tool_failures
    window,         \* metrics.result of the current turn
    reply,          \* the response or exception the metrics window wraps
    outcome,        \* how write_file's try block ended
    stop_reason, exc,
    answer,         \* final_answer.txt exists
    trace,          \* rows of reedcode_trace.jsonl
    staging,        \* the staging directory exists in the container
    leftovers,      \* the stages write_file was left at with that directory in place
    file,           \* the call whose content the target file holds
    cancels         \* cancellations so far

loopVars == <<turn, history, calls, totals, counts, window, reply, stop_reason, answer>>
toolVars == <<outcome, staging, leftovers, file>>
vars == <<settings, pc, loopVars, exc, trace, toolVars, cancels>>

OldFile == <<0, 0>>
TornFile == <<0, 1>>

(* What create_response makes of a completion: a cut-off one keeps no calls. *)
Usages == {[input |-> None, cached |-> None], [input |-> 2, cached |-> None],
           [input |-> 2, cached |-> 1]}

Responses ==
    {[finish |-> f, text |-> t, calls |-> IF f \in {"stop", "tool_calls"} THEN n ELSE 0, usage |-> u] :
        f \in {"stop", "tool_calls", "length", "other"}, t \in BOOLEAN,
        n \in 0..MaxCalls, u \in Usages}

Completed(r) == r.finish \in {"stop", "tool_calls"}
OutputLimitHit(r) == ~Completed(r) /\ r.finish = "length"

Error == [finish |-> "error"]
Cancelled == [finish |-> "cancelled"]
NoReply == [finish |-> "none"]

(* Unknown usage counted as none. *)
AddUsageUnknownIsZero(total, value) == IF value = None THEN total ELSE total + value

AddUsage(total, value) == IF total = None \/ value = None THEN None ELSE total + value

Row(type) == [type |-> type]

---------------------------------------------------------------------------
Init ==
    /\ settings \in [dynamo : BOOLEAN, metrics : BOOLEAN]
    /\ pc = "turn" /\ turn = 0
    /\ history = <<>> /\ calls = <<>>
    /\ totals = [input |-> 0, cached |-> 0]
    /\ counts = [model |-> 0, tool |-> 0, failures |-> 0]
    /\ window = "disabled" /\ reply = NoReply /\ outcome = "none"
    /\ stop_reason = "error" /\ exc = "none" /\ answer = FALSE
    /\ trace = <<Row("run_config")>>
    /\ staging = FALSE /\ leftovers = {} /\ file = OldFile
    /\ cancels = 0

(* An exception leaves the loop through the closing of the client. *)
Raise(kind) == exc' = kind /\ pc' = "close"

(* The head of the for loop and its else clause. *)
TurnStarts ==
    /\ pc = "turn" /\ turn < MaxTurns
    /\ turn' = turn + 1
    /\ window' = IF settings.metrics THEN "not_started" ELSE "disabled"
    /\ pc' = IF settings.metrics THEN "before" ELSE "call"
    /\ UNCHANGED <<settings, history, calls, totals, counts, reply, stop_reason, answer,
                   exc, trace, toolVars, cancels>>

(* A loop without its else clause. *)
TurnsExhaustedUnnamed ==
    /\ pc = "turn" /\ turn = MaxTurns
    /\ pc' = "close"
    /\ UNCHANGED <<settings, turn, history, calls, totals, counts, window, reply, answer,
                   stop_reason, exc, trace, toolVars, cancels>>

TurnsExhausted ==
    /\ pc = "turn" /\ turn = MaxTurns
    /\ stop_reason' = "max_turns"
    /\ pc' = "close"
    /\ UNCHANGED <<settings, turn, history, calls, totals, counts, window, reply, answer,
                   exc, trace, toolVars, cancels>>

(* The except BaseException clause around the model call. *)
FailedInference ==
    trace \o (IF settings.dynamo THEN <<Row("failed_inference")>> ELSE <<>>)
          \o (IF settings.metrics THEN <<Row("failed_inference_metrics")>> ELSE <<>>)

CallFails(kind) ==
    /\ trace' = FailedInference
    /\ Raise(kind)
    /\ UNCHANGED <<turn, history, calls, totals, counts, stop_reason, answer>>

Answered(r, metrics) ==
    /\ counts' = [counts EXCEPT !.model = @ + 1]
    /\ totals' = [input |-> AddUsage(totals.input, r.usage.input),
                  cached |-> AddUsage(totals.cached, r.usage.cached)]
    /\ trace' = Append(trace, [type |-> "inference", usage |-> r.usage, metrics |-> metrics])
    /\ LET new == [i \in 1..r.calls |-> <<turn, i>>]
       IN CASE OutputLimitHit(r) ->
                 /\ stop_reason' = "max_output_tokens" /\ pc' = "close"
                 /\ UNCHANGED <<history, calls, answer, exc>>
            [] ~OutputLimitHit(r) /\ ~Completed(r) ->
                 /\ Raise("error")
                 /\ UNCHANGED <<history, calls, answer, stop_reason>>
            [] Completed(r) /\ r.calls = 0 ->
                 /\ stop_reason' = IF r.text THEN "no_tool_calls" ELSE "empty_model_response"
                 /\ answer' = (answer \/ r.text)
                 /\ pc' = "close"
                 /\ UNCHANGED <<history, calls, exc>>
            [] OTHER ->
                 /\ history' = history \o [i \in 1..r.calls |-> [type |-> "call", id |-> new[i]]]
                 /\ calls' = new
                 /\ pc' = "tool"
                 /\ UNCHANGED <<answer, stop_reason, exc>>
    /\ UNCHANGED turn

Conclude(r, metrics) ==
    CASE r = Error -> CallFails("error")
      [] r = Cancelled -> CallFails("cancelled")
      [] OTHER -> Answered(r, metrics)

(***************************************************************************)
(* The metrics window: a first scrape, the call, the end of the sampler    *)
(* and a last scrape.  A scrape that fails is only noted.                  *)
(***************************************************************************)
ScrapedBefore ==
    /\ pc = "before"
    /\ pc' = "call"
    /\ UNCHANGED <<settings, loopVars, exc, trace, toolVars, cancels>>

CallReturns ==
    /\ pc = "call"
    /\ \E r \in Responses \cup {Error} :
          IF settings.metrics
          THEN /\ reply' = r /\ pc' = "sampler"
               /\ UNCHANGED <<turn, history, calls, totals, counts, window, stop_reason,
                              answer, exc, trace>>
          ELSE Conclude(r, "disabled") /\ UNCHANGED <<window, reply>>
    /\ UNCHANGED <<settings, toolVars, cancels>>

SamplerStops ==
    /\ pc = "sampler"
    /\ pc' = "after"
    /\ UNCHANGED <<settings, loopVars, exc, trace, toolVars, cancels>>

ScrapedAfter ==
    /\ pc = "after"
    /\ window' = "reported"
    /\ reply' = NoReply
    /\ Conclude(reply, "reported")
    /\ UNCHANGED <<settings, toolVars, cancels>>

---------------------------------------------------------------------------
(***************************************************************************)
(* execute_tool.  Every failure but an unexpected RuntimeError becomes an  *)
(* observation that answers the call.                                      *)
(***************************************************************************)
Current == Head(calls)

(* Leaving a tool: a staging directory still there is left behind. *)
LeaveTool ==
    leftovers' = leftovers \cup (IF staging' THEN {pc} ELSE {})

(* A failed tool that is logged but not answered. *)
ObserveOnlySuccess(success) ==
    /\ counts' = [counts EXCEPT !.tool = @ + 1, !.failures = @ + IF success THEN 0 ELSE 1]
    /\ trace' = Append(trace, [type |-> "tool", call |-> Current, success |-> success])
    /\ history' = IF success THEN Append(history, [type |-> "output", id |-> Current])
                  ELSE history
    /\ calls' = Tail(calls)
    /\ pc' = IF Len(calls) = 1 THEN "turn" ELSE "tool"
    /\ LeaveTool
    /\ UNCHANGED <<settings, turn, totals, window, reply, stop_reason, exc, answer, cancels>>

Observe(success) ==
    /\ counts' = [counts EXCEPT !.tool = @ + 1, !.failures = @ + IF success THEN 0 ELSE 1]
    /\ trace' = Append(trace, [type |-> "tool", call |-> Current, success |-> success])
    /\ history' = Append(history, [type |-> "output", id |-> Current])
    /\ calls' = Tail(calls)
    /\ pc' = IF Len(calls) = 1 THEN "turn" ELSE "tool"
    /\ LeaveTool
    /\ UNCHANGED <<settings, turn, totals, window, reply, stop_reason, exc, answer, cancels>>

ToolRaises(kind) ==
    /\ Raise(kind)
    /\ LeaveTool
    /\ UNCHANGED <<settings, loopVars, trace>>

(* A refused call, bash or read_file: one await, or none. *)
SimpleTool ==
    /\ pc = "tool"
    /\ staging' = FALSE
    /\ UNCHANGED <<outcome, file, cancels>>
    /\ \/ \E success \in BOOLEAN : Observe(success)
       \/ ToolRaises("error")

(* write_file begins; staging names the directory of this call only. *)
WriteFile ==
    /\ pc = "tool"
    /\ pc' = "mkdir"
    /\ staging' = FALSE /\ outcome' = "none"
    /\ UNCHANGED <<settings, loopVars, exc, trace, leftovers, file, cancels>>

(* A mkdir that is refused is tried again without end. *)
MkdirReturnsRetries ==
    /\ pc = "mkdir"
    /\ \/ staging' = TRUE /\ pc' = "upload"
       \/ staging' = FALSE /\ pc' = "tool"
    /\ UNCHANGED <<settings, loopVars, exc, trace, leftovers, outcome, file, cancels>>

(* A mkdir that raises may have made the directory all the same. *)
MkdirReturns ==
    /\ pc = "mkdir"
    /\ \/ /\ staging' = TRUE /\ pc' = "upload"
          /\ UNCHANGED <<settings, loopVars, exc, trace, leftovers>>
       \/ staging' = FALSE /\ Observe(FALSE)
       \/ staging' \in BOOLEAN /\ (Observe(FALSE) \/ ToolRaises("error"))
    /\ UNCHANGED <<outcome, file, cancels>>

(* The try block of write_file ends and its finally clause begins. *)
Clean(result) ==
    /\ outcome' = result /\ pc' = "cleanup"
    /\ UNCHANGED <<settings, loopVars, exc, trace, staging, leftovers>>

UploadReturns ==
    /\ pc = "upload"
    /\ \/ /\ pc' = "write"
          /\ UNCHANGED <<settings, loopVars, exc, trace, outcome, staging, leftovers>>
       \/ Clean("failed") \/ Clean("error")
    /\ UNCHANGED <<file, cancels>>

(* The copy in the container truncates the target before it fills it. *)
WriteReturns ==
    /\ pc = "write"
    /\ \/ Clean("written") /\ file' = Current
       \/ /\ Clean("failed") \/ Clean("error")
          /\ file' \in {file, TornFile, Current}
    /\ UNCHANGED cancels

(* A cleanup whose own result answers the call. *)
CleanupReturnsItsOwn ==
    /\ pc = "cleanup"
    /\ staging' \in BOOLEAN
    /\ IF outcome \in {"written", "failed"} THEN Observe(~staging') ELSE ToolRaises(outcome)
    /\ UNCHANGED <<outcome, file, cancels>>

CleanupReturns ==
    /\ pc = "cleanup"
    /\ staging' \in BOOLEAN
    /\ CASE outcome = "written" -> Observe(TRUE)
         [] outcome = "failed" -> Observe(FALSE)
         [] OTHER -> ToolRaises(outcome)
    /\ UNCHANGED <<outcome, file, cancels>>

---------------------------------------------------------------------------
(***************************************************************************)
(* The except and finally clauses of run().                                *)
(***************************************************************************)
Summary(stop) ==
    [type |-> "task_summary", stop |-> stop, completed |-> stop = "no_tool_calls",
     limitHit |-> IF stop \in {"no_tool_calls", "max_turns", "max_output_tokens",
                               "empty_model_response"}
                  THEN stop = "max_output_tokens" ELSE None,
     counts |-> counts, totals |-> totals,
     fresh |-> IF totals.input # None /\ totals.cached # None
               THEN totals.input - totals.cached ELSE None]

LeaveLoop(e) ==
    LET stop == CASE e = "cancelled" -> "cancelled_or_task_timeout"
                  [] e = "error" -> "error"
                  [] OTHER -> stop_reason
        rows == IF e = "error" THEN Append(trace, Row("agent_error")) ELSE trace
    IN /\ exc' = e /\ stop_reason' = stop
       /\ IF settings.dynamo
          THEN pc' = "final" /\ trace' = rows
          ELSE pc' = "done" /\ trace' = Append(rows, Summary(stop))
       /\ UNCHANGED <<settings, turn, history, calls, totals, counts, window, reply, answer, toolVars>>

ClientCloses ==
    /\ pc = "close"
    /\ LeaveLoop(exc)
    /\ UNCHANGED cancels

(* finish_session answers sent or failed; both are logged. *)
SessionFinished ==
    /\ pc = "final"
    /\ trace' = trace \o <<Row("session_final"), Summary(stop_reason)>>
    /\ pc' = "done"
    /\ UNCHANGED <<settings, loopVars, exc, toolVars, cancels>>

(***************************************************************************)
(* The task is cancelled at the await it is suspended at.                  *)
(***************************************************************************)
Cancel(at) ==
    /\ pc = at /\ cancels < MaxCancels
    /\ cancels' = cancels + 1

CancelBefore ==
    /\ Cancel("before")
    /\ CallFails("cancelled")
    /\ UNCHANGED <<settings, window, reply, toolVars>>

CancelCall ==
    /\ Cancel("call")
    /\ IF settings.metrics
       THEN /\ reply' = Cancelled /\ pc' = "sampler"
            /\ UNCHANGED <<turn, history, calls, totals, counts, window, stop_reason,
                           answer, exc, trace>>
       ELSE CallFails("cancelled") /\ UNCHANGED <<window, reply>>
    /\ UNCHANGED <<settings, toolVars>>

(* suppress(CancelledError) around the end of the sampler takes this one too. *)
CancelSampler ==
    /\ Cancel("sampler")
    /\ pc' = "after"
    /\ UNCHANGED <<settings, loopVars, exc, trace, toolVars>>

(* At the last scrape, or at the closing of the client after the report. *)
CancelAfter ==
    /\ Cancel("after")
    /\ window' \in {window, "reported"}
    /\ reply' = NoReply
    /\ CallFails("cancelled")
    /\ UNCHANGED <<settings, toolVars>>

CancelTool ==
    /\ Cancel("tool")
    /\ staging' = FALSE
    /\ ToolRaises("cancelled")
    /\ UNCHANGED <<outcome, file>>

CancelMkdir ==
    /\ Cancel("mkdir")
    /\ staging' \in BOOLEAN
    /\ ToolRaises("cancelled")
    /\ UNCHANGED <<outcome, file>>

(* A cancellation that skips the cleanup. *)
CancelTransferAtOnce ==
    /\ Cancel("upload") \/ Cancel("write")
    /\ staging' = staging
    /\ ToolRaises("cancelled")
    /\ UNCHANGED <<outcome, file>>

CancelTransfer ==
    /\ Cancel("upload") \/ Cancel("write")
    /\ Clean("cancelled")
    /\ file' \in IF pc = "write" THEN {file, TornFile, Current} ELSE {file}

CancelCleanup ==
    /\ Cancel("cleanup")
    /\ staging' \in BOOLEAN
    /\ ToolRaises("cancelled")
    /\ UNCHANGED <<outcome, file>>

CancelClose ==
    /\ Cancel("close")
    /\ LeaveLoop("cancelled")

(* The rest of the finally clause, summary included, is skipped. *)
CancelFinal ==
    /\ Cancel("final")
    /\ exc' = "cancelled" /\ pc' = "done"
    /\ UNCHANGED <<settings, loopVars, trace, toolVars>>

Done == pc = "done" /\ UNCHANGED vars

Run ==
    \/ TurnStarts \/ TurnsExhausted
    \/ ScrapedBefore \/ CallReturns \/ SamplerStops \/ ScrapedAfter
    \/ SimpleTool \/ WriteFile \/ MkdirReturns \/ UploadReturns \/ WriteReturns \/ CleanupReturns
    \/ ClientCloses \/ SessionFinished

Cancellation ==
    \/ CancelBefore \/ CancelCall \/ CancelSampler \/ CancelAfter
    \/ CancelTool \/ CancelMkdir \/ CancelTransfer \/ CancelCleanup
    \/ CancelClose \/ CancelFinal

Next == Run \/ Cancellation \/ Done

(* Every await has a timeout of its own, so the task goes on. *)
Spec == Init /\ [][Next]_vars /\ WF_vars(Run)

---------------------------------------------------------------------------
(***************************************************************************)
(* Properties.                                                             *)
(***************************************************************************)

At(type) == {i \in DOMAIN history : history[i].type = type}

(***************************************************************************)
(* The history a request carries answers every tool call of it exactly     *)
(* once, after the call and in the order of the calls, whatever the tools  *)
(* did.  (run, execute_tool)                                               *)
(***************************************************************************)
Answers(i, j) ==
    i \in At("call") /\ j \in At("output") /\ history[i].id = history[j].id

HistoryPaired ==
    pc \in {"before", "call"} =>
        /\ \A i, j \in DOMAIN history : history[i] = history[j] => i = j
        /\ \A i \in At("call") : \E j \in At("output") : Answers(i, j) /\ i < j
        /\ \A j \in At("output") : \E i \in At("call") : Answers(i, j)
        /\ \A i, k \in At("call"), j, l \in At("output") :
              Answers(i, j) /\ Answers(k, l) /\ i < k => j < l

Rows(type) == {i \in DOMAIN trace : trace[i].type = type}

(* The running total of a column of the inference rows. *)
Totals(rows, field) ==
    LET total[n \in 0..Len(rows)] ==
            IF n = 0 THEN 0
            ELSE IF rows[n].type # "inference" THEN total[n - 1]
            ELSE IF total[n - 1] = None \/ rows[n].usage[field] = None THEN None
            ELSE total[n - 1] + rows[n].usage[field]
    IN total

Sum(field) == Totals(trace, field)[Len(trace)]

(***************************************************************************)
(* A task_summary is the last row of its trace and agrees with the rows    *)
(* before it: the calls, the tools and the failures are counted, a token   *)
(* total is the sum of the rows or unknown if a row is, and completion is  *)
(* claimed exactly for a written answer.  (the finally clause of run)      *)
(***************************************************************************)
SummaryAddsUp ==
    \A i \in Rows("task_summary") :
        LET s == trace[i]
        IN /\ i = Len(trace) /\ pc = "done"
           /\ s.counts = [model |-> Cardinality(Rows("inference")),
                          tool |-> Cardinality(Rows("tool")),
                          failures |-> Cardinality({r \in Rows("tool") : ~trace[r].success})]
           /\ s.totals = [input |-> Sum("input"), cached |-> Sum("cached")]
           /\ s.fresh # None => s.fresh >= 0
           /\ s.completed => answer

(***************************************************************************)
(* Without a cancellation, how run() ends and what its summary says agree: *)
(* an exception is reported as error, a normal return is not.              *)
(***************************************************************************)
EndIsReported ==
    (pc = "done" /\ exc # "cancelled") =>
        /\ Last(trace).type = "task_summary"
        /\ (Last(trace).stop = "error") = (exc = "error")
        /\ Last(trace).stop # "cancelled_or_task_timeout"
        /\ (Last(trace).limitHit = None) = (exc = "error")

(***************************************************************************)
(* What a run leaves for its reader agrees with what happened: the history *)
(* sent to the model, the totals and the reported end.                     *)
(***************************************************************************)
RunIsAccounted == HistoryPaired /\ SummaryAddsUp /\ EndIsReported

(***************************************************************************)
(* write_file leaves its staging directory behind only when the container  *)
(* or a cancellation stops the mkdir or the cleanup itself, never because  *)
(* the upload or the write failed or was cancelled.                        *)
(* (test_cancelled_upload_cleans_staging_and_propagates)                   *)
(***************************************************************************)
NoStagingLeftBehind == leftovers \subseteq {"mkdir", "cleanup"}

(***************************************************************************)
(* "Cleanup must not replace a tool failure": write_file reports success   *)
(* exactly when its own content is what the target file holds because the  *)
(* write command succeeded.                                                *)
(***************************************************************************)
SuccessMeansWritten ==
    [][(pc = "cleanup" /\ trace' # trace /\ Last(trace').type = "tool") =>
          /\ Last(trace').success = (outcome = "written")
          /\ Last(trace').success => file' = Current]_vars

(* The run ends: every turn, tool and cleanup is bounded. *)
RunEnds == <>(pc = "done")

(***************************************************************************)
(* test_cancellation_propagates_with_summary: a run that ends by a         *)
(* cancellation leaves a summary that says so.                             *)
(***************************************************************************)
CancelledHasSummary ==
    (pc = "done" /\ exc = "cancelled") =>
        /\ Last(trace).type = "task_summary"
        /\ Last(trace).stop = "cancelled_or_task_timeout"

(* The same test: a cancellation of the run propagates out of it. *)
CancellationPropagates == (pc = "done" /\ cancels > 0) => exc = "cancelled"
=============================================================================
