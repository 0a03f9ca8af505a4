---------------------------- MODULE ReplayEpoch ----------------------------
(***************************************************************************)
(* run_epoch of dynamo_replay.py: the workflows of a replay epoch run as   *)
(* tasks of one TaskGroup inside an EpochMetrics window, each under its    *)
(* own horizon, and epoch.json is written when the group and the window    *)
(* are over.  Everything between two awaits is one action.                 *)
(*                                                                         *)
(* The group is asyncio's: the first task that raises, or a cancellation   *)
(* of run_epoch itself, cancels the other tasks once; a task finds its     *)
(* cancellation at its next step, whatever it was waiting for.  Appending  *)
(* a line to requests.jsonl may fail; the window (module EpochMetrics) and *)
(* the server's answers (module ChatStream) are seen from outside.         *)
(***************************************************************************)
EXTENDS Naturals, Sequences

CONSTANTS Sessions,      \* the workflows of the epoch, each copy on its own
          Turns,         \* turns of a workflow
          MaxLogFailures \* bound: lines that cannot be written

VARIABLES main,       \* run_epoch: "entering", "group", "closing", "over"
          broken,     \* an exception is on its way out of run_epoch
          aborting,   \* the group has cancelled its tasks
          stage,      \* "sleeping", "waiting", "calling", "finishing", "gone"
          cancelled,  \* tasks whose cancellation is still to be delivered
          leaving,    \* what a task in its finally clause will raise
          rows,       \* [status, calls, final] of each workflow, calls a
                      \* sequence of statuses; "absent" before its arrival
          trace,      \* lines of requests.jsonl: [type, session, call, status]
          epoch,      \* epoch.json: "none", "finished", "interrupted"
          faults      \* lines that could not be written so far

epochVars == <<main, broken, aborting, stage, cancelled, leaving, rows, trace,
               epoch, faults>>

NoRow == [status |-> "absent", calls |-> <<>>, final |-> FALSE]

EpochInit ==
    /\ main = "entering"
    /\ broken = FALSE /\ aborting = FALSE
    /\ stage = [s \in Sessions |-> "sleeping"]
    /\ cancelled = {}
    /\ leaving = [s \in Sessions |-> "nothing"]
    /\ rows = [s \in Sessions |-> NoRow]
    /\ trace = <<>>
    /\ epoch = "none"
    /\ faults = 0

MoveTo(s, place) == stage' = [stage EXCEPT ![s] = place]

Line(type, s, call, status) ==
    [type |-> type, session |-> s, call |-> call, status |-> status]

\* log(): the line is appended, or the write raises.
Log(line) == trace' = Append(trace, line) /\ UNCHANGED faults
LogFails == faults < MaxLogFailures /\ faults' = faults + 1 /\ UNCHANGED trace

\* The group's tasks exist and this one is not about to be cancelled.
Steps(s, place) == main = "group" /\ stage[s] = place /\ s \notin cancelled

(***************************************************************************)
(* The group and the tasks that end                                        *)
(***************************************************************************)
\* TaskGroup._abort: every task that is not done is cancelled, once.
StillAtWork == {s \in Sessions : stage[s] # "gone"}

Abort(others) == aborting' = TRUE /\ cancelled' = cancelled \cup others

\* The task is done: an exception of its own, not a cancellation, aborts.
Gone(s, raised) ==
    /\ MoveTo(s, "gone")
    /\ IF raised = "error"
       THEN /\ broken' = TRUE
            /\ IF aborting THEN cancelled' = cancelled \ {s} /\ UNCHANGED aborting
                           ELSE Abort(StillAtWork \ {s})
       ELSE cancelled' = cancelled \ {s} /\ UNCHANGED <<broken, aborting>>

\* The except clauses give the row its status; finish_session is awaited next.
Ends(s, status, raised) ==
    /\ rows' = [rows EXCEPT ![s].status = status]
    /\ leaving' = [leaving EXCEPT ![s] = raised]
    /\ MoveTo(s, "finishing")

(***************************************************************************)
(* workflow_run                                                            *)
(***************************************************************************)
Arrive(s) ==
    /\ Steps(s, "sleeping")
    /\ rows' = [rows EXCEPT ![s].status = "running"]
    /\ MoveTo(s, "waiting")
    /\ UNCHANGED <<main, broken, aborting, cancelled, leaving, trace, epoch, faults>>

\* The wait of a turn is over: the call is recorded, logged and sent.
Request(s) ==
    LET call == Len(rows[s].calls) + 1
        sent == [rows EXCEPT ![s].calls = Append(@, "running")]
    IN  /\ Steps(s, "waiting")
        /\ \/ /\ Log(Line("request", s, call, "running"))
              /\ rows' = sent
              /\ MoveTo(s, "calling") /\ UNCHANGED leaving
           \/ /\ LogFails
              /\ rows' = [sent EXCEPT ![s].status = "error"]
              /\ leaving' = [leaving EXCEPT ![s] = "nothing"]
              /\ MoveTo(s, "finishing")
        /\ UNCHANGED <<main, broken, aborting, cancelled, epoch>>

Called(s, status) ==
    [rows EXCEPT ![s].calls = [@ EXCEPT ![Len(@)] = status]]

\* The call's outcome is logged; then either the loop goes on or the row gets
\* a status and the task leaves.  A line that cannot be written makes the
\* row an error whatever the outcome was, a cancellation included.
Answered(s, status, ending, raised) ==
    LET called == Called(s, status)
    IN  /\ \/ /\ Log(Line("response", s, Len(rows[s].calls), status))
              /\ IF ending = "none"
                 THEN rows' = called /\ MoveTo(s, "waiting") /\ UNCHANGED leaving
                 ELSE /\ rows' = [called EXCEPT ![s].status = ending]
                      /\ leaving' = [leaving EXCEPT ![s] = raised]
                      /\ MoveTo(s, "finishing")
           \/ /\ LogFails
              /\ rows' = [called EXCEPT ![s].status = "error"]
              /\ leaving' = [leaving EXCEPT ![s] = "nothing"]
              /\ MoveTo(s, "finishing")
        /\ UNCHANGED <<main, broken, aborting, epoch>>

\* stream_completion returns: "stop" and "tool_calls" go on to the next turn.
Completed(s) ==
    /\ Steps(s, "calling")
    /\ \E ending \in {"good", "output_limit", "incomplete"} :
         Answered(s, "completed",
                  IF ending # "good" THEN ending
                  ELSE IF Len(rows[s].calls) = Turns THEN "completed" ELSE "none",
                  "nothing")
    /\ UNCHANGED cancelled

CallFails(s) ==
    /\ Steps(s, "calling")
    /\ Answered(s, "failed", "error", "nothing")
    /\ UNCHANGED cancelled

\* Mutant: the horizon covers the waits and not the requests.
HorizonOfWaits(s) ==
    /\ Steps(s, "waiting")
    /\ Ends(s, "timeout", "nothing")
    /\ UNCHANGED <<main, broken, aborting, cancelled, trace, epoch, faults>>

\* asyncio.timeout: the horizon of the workflow passes.
Horizon(s) ==
    \/ /\ Steps(s, "waiting")
       /\ Ends(s, "timeout", "nothing")
       /\ UNCHANGED <<main, broken, aborting, cancelled, trace, epoch, faults>>
    \/ /\ Steps(s, "calling")
       /\ Answered(s, "failed", "timeout", "nothing")
       /\ UNCHANGED cancelled

\* finish_session returns, whatever the server answers, and the row is logged.
Finished(s) ==
    /\ Steps(s, "finishing")
    /\ rows' = [rows EXCEPT ![s].final = TRUE]
    /\ \/ /\ Log(Line("workflow_end", s, 0, rows[s].status))
          /\ Gone(s, leaving[s])
       \/ /\ LogFails
          /\ Gone(s, "error")
    /\ UNCHANGED <<main, leaving, epoch>>

\* The cancellation of the group reaches the task.
Delivered(s) ==
    /\ main = "group" /\ s \in cancelled
    /\ \/ /\ stage[s] \in {"sleeping", "finishing"}
          /\ Gone(s, "cancelled")
          /\ UNCHANGED <<main, leaving, rows, trace, epoch, faults>>
       \/ /\ stage[s] = "waiting"
          /\ Ends(s, "cancelled", "cancelled")
          /\ cancelled' = cancelled \ {s}
          /\ UNCHANGED <<main, broken, aborting, trace, epoch, faults>>
       \/ /\ stage[s] = "calling"
          /\ Answered(s, "failed", "cancelled", "cancelled")
          /\ cancelled' = cancelled \ {s}

(***************************************************************************)
(* run_epoch                                                               *)
(***************************************************************************)
\* collector.__aenter__ returns and the tasks are created.
Enter ==
    /\ main = "entering" /\ ~broken
    /\ main' = "group"
    /\ UNCHANGED <<broken, aborting, stage, cancelled, leaving, rows, trace, epoch, faults>>

\* Mutant: run_epoch goes on as soon as the group is aborted.
GroupEndsAtOnce ==
    /\ main = "group" /\ (StillAtWork = {} \/ aborting)
    /\ main' = "closing"
    /\ UNCHANGED <<broken, aborting, stage, cancelled, leaving, rows, trace, epoch, faults>>

\* TaskGroup.__aexit__ returns when its last task is done.
GroupEnds ==
    /\ main = "group" /\ StillAtWork = {}
    /\ main' = "closing"
    /\ UNCHANGED <<broken, aborting, stage, cancelled, leaving, rows, trace, epoch, faults>>

\* epoch.json is written in the finally clause, or that write fails.
WriteEpoch(complete) ==
    /\ main' = "over"
    /\ epoch' \in {"none", IF complete THEN "finished" ELSE "interrupted"}
    /\ UNCHANGED <<broken, aborting, stage, cancelled, leaving, rows, trace, faults>>

\* collector.__aexit__ returns.
WindowCloses == main = "closing" /\ WriteEpoch(~broken)

\* run_epoch is cancelled: before the tasks exist, while the group waits for
\* them (once; a group that is already aborting goes on), or in the window's
\* drain.
Cancel ==
    \/ main \in {"entering", "closing"} /\ WriteEpoch(FALSE)
    \/ /\ main = "group" /\ ~aborting /\ StillAtWork # {}
       /\ broken' = TRUE
       /\ Abort(StillAtWork)
       /\ UNCHANGED <<main, stage, leaving, rows, trace, epoch, faults>>

Task(s) ==
    Arrive(s) \/ Request(s) \/ Horizon(s) \/ Finished(s) \/ Delivered(s)

EpochNext ==
    \/ \E s \in Sessions : Task(s) \/ Completed(s) \/ CallFails(s)
    \/ Enter \/ GroupEnds \/ WindowCloses \/ Cancel

\* Timers fire and finish_session is bounded by one; the window is left in
\* finite time (EpochMetrics!WindowCloses).  Nothing is assumed of the server.
EpochFairness ==
    /\ \A s \in Sessions : WF_epochVars(Task(s))
    /\ WF_epochVars(Enter) /\ WF_epochVars(GroupEnds) /\ WF_epochVars(WindowCloses)

EpochSpec == EpochInit /\ [][EpochNext]_epochVars /\ EpochFairness

(***************************************************************************)
(* Properties                                                              *)
(***************************************************************************)
LinesOf(s) == {i \in DOMAIN trace : trace[i].session = s}

\* The row of a workflow and its lines tell one story.
RowAgrees(s) ==
    LET row == rows[s]
    IN  /\ row.status # "running"
        /\ row.status = "completed" =>
             row.calls = [k \in 1 .. Turns |-> "completed"]
        /\ \A k \in DOMAIN row.calls :
             row.calls[k] = "running" <=> \A i \in LinesOf(s) : trace[i].call # k
        /\ \A i \in LinesOf(s) :
             /\ trace[i].type = "response" => trace[i].status = row.calls[trace[i].call]
             /\ trace[i].type = "workflow_end" => trace[i].status = row.status /\ row.final

\* A workflow of a finished epoch arrived, was told to the server and to the
\* trace, and ended by itself: one workflow_end, and no line of it after that.
RowWhole(s) ==
    /\ rows[s].status \notin {"absent", "cancelled"}
    /\ rows[s].final
    /\ \E i \in LinesOf(s) :
         /\ trace[i].type = "workflow_end"
         /\ \A j \in LinesOf(s) \ {i} : j < i /\ trace[j].type # "workflow_end"

(***************************************************************************)
(* When epoch.json is written no task can still change what it says: no    *)
(* row is left running, rows and trace agree, and an epoch that calls      *)
(* itself finished is whole, although a failing write may have ended one   *)
(* workflow while others were waiting or on the wire.                      *)
(***************************************************************************)
EpochRecordsAgree ==
    /\ epoch # "none" => \A s \in Sessions : RowAgrees(s)
    /\ epoch = "finished" => \A s \in Sessions : RowWhole(s)

\* However slow the server is, the epoch comes to an end.
EpochEnds == <>(main = "over")
=============================================================================
