---------------------------- MODULE Preparation ----------------------------
(***************************************************************************)
(* RollingPreparation of controller.py: after every model response the     *)
(* policy may start one background job that predicts the next prompt on a  *)
(* thread and sends it to the server; the next foreground dispatch cancels *)
(* the job without waiting for its cleanup.  HttpCapture, the transport,   *)
(* leaves one capture-file write behind for every request it sent.         *)
(*                                                                         *)
(* Jobs are asyncio tasks: a step of a job is what runs between two        *)
(* awaits, and cancel() only takes effect at the job's next step.  The     *)
(* foreground that calls the policy is left open here: it dispatches and   *)
(* answers in turn.                                                        *)
(***************************************************************************)
EXTENDS Naturals, Sequences, FiniteSets

CONSTANTS
    Enabled,        \* the policy's enabled flag
    MaxAttempts     \* bound: model responses of one session

ASSUME PreparationConstants == Enabled \in BOOLEAN /\ MaxAttempts \in Nat

VARIABLES
    attempts,   \* the rows, one per model response
    job,        \* job[i]: the asyncio task of attempt i
    cancelling, \* the jobs that were asked to stop with task.cancel()
    cpu,        \* cpu[i]: the prediction thread of attempt i
    writes,     \* writes[i]: HttpCapture's file write of attempt i
    active,     \* the attempt of self.active, 0 for None
    foreground, \* "dispatched" while a model request is outstanding
    drain       \* where drain() is, and the report it returned

policyVars == <<attempts, job, cancelling, cpu, writes, active>>
vars == <<policyVars, foreground, drain>>

Ids == 1..MaxAttempts
Terminal == {"off", "ineligible", "skipped_prior_cleanup_pending", "declined",
             "completed", "cancelled", "error", "cancelled_before_start"}
Statuses == Terminal \cup {"pending", "predicting", "in_flight"}
JobStates == {"none", "created", "predicting", "in_flight", "cleanup", "done"}
CpuStates == {"none", "running", "ids", "empty", "raised"}

Row == [status : Statuses, cancelRequested : BOOLEAN, nextDispatched : BOOLEAN]
NoReport == [pendingJobs |-> 0, pendingCpu |-> 0]

Init ==
    /\ attempts = <<>>
    /\ job = [i \in Ids |-> "none"]
    /\ cancelling = {}
    /\ cpu = [i \in Ids |-> "none"]
    /\ writes = [i \in Ids |-> "none"]
    /\ active = 0
    /\ foreground = "idle"
    /\ drain = [phase |-> "no", report |-> NoReport]

Rows == DOMAIN attempts
Live(i) == job[i] \notin {"none", "done"}           \* not job.done()
ActiveLive == active # 0 /\ Live(active)
Cancelling(i) == i \in cancelling
PendingJobs == {i \in Ids : Live(i)}
PendingCpu == {i \in Ids : cpu[i] = "running"}

SetStatus(i, status) == attempts' = [attempts EXCEPT ![i].status = status]

---------------------------------------------------------------------------
(***************************************************************************)
(* The calls of the foreground.                                            *)
(***************************************************************************)

(* Mutant: only a request that is on the wire is cancelled. *)
BeforeDispatchCancelsSent ==
    /\ foreground = "idle"
    /\ drain.phase = "no"
    /\ attempts' = [i \in Rows |-> [attempts[i] EXCEPT
           !.nextDispatched = @ \/ i = Len(attempts)]]
    /\ cancelling' = cancelling \cup {i \in {active} : i # 0 /\ job[i] = "in_flight"}
    /\ foreground' = "dispatched"
    /\ UNCHANGED <<job, cpu, writes, active, drain>>

(* Stamp the last row and ask the active job to stop; do not wait for it. *)
BeforeDispatch ==
    /\ foreground = "idle"
    /\ drain.phase = "no"
    /\ attempts' = [i \in Rows |-> [attempts[i] EXCEPT
           !.nextDispatched = @ \/ i = Len(attempts),
           !.cancelRequested = @ \/ (i = active /\ ActiveLive)]]
    /\ cancelling' = cancelling \cup (IF ActiveLive THEN {active} ELSE {})
    /\ foreground' = "dispatched"
    /\ UNCHANGED <<job, cpu, writes, active, drain>>

(* Mutant: a new job starts beside one that is still cleaning up. *)
StartsJobAlways(issue) == ~issue /\ Enabled

(* The row a response gets, and whether it comes with a job. *)
NewRow(status) == [status |-> status, cancelRequested |-> FALSE, nextDispatched |-> FALSE]

StartsJob(issue) == ~issue /\ Enabled /\ ~ActiveLive

AfterResponse(issue) ==
    /\ foreground = "dispatched"
    /\ Len(attempts) < MaxAttempts
    /\ foreground' = "idle"
    /\ attempts' = Append(attempts, NewRow(
           CASE issue -> "ineligible"
             [] ~issue /\ ~Enabled -> "off"
             [] ~issue /\ Enabled /\ ActiveLive -> "skipped_prior_cleanup_pending"
             [] OTHER -> "pending"))
    /\ IF StartsJob(issue)
       THEN /\ job' = [job EXCEPT ![Len(attempts) + 1] = "created"]
            /\ active' = Len(attempts) + 1
       ELSE UNCHANGED <<job, active>>
    /\ UNCHANGED <<cancelling, cpu, writes, drain>>

---------------------------------------------------------------------------
(***************************************************************************)
(* A job, step by step (_prepare and the done callback of after_response). *)
(***************************************************************************)

(* Mutant: no done callback, so the row of a job that never ran stays pending. *)
CancelledBeforeStartSilently(i) ==
    /\ job[i] = "created"
    /\ Cancelling(i)
    /\ job' = [job EXCEPT ![i] = "done"]
    /\ UNCHANGED <<attempts, cancelling, cpu, writes, active, foreground, drain>>

(* cancel() before the first step: the body never runs. *)
CancelledBeforeStart(i) ==
    /\ job[i] = "created"
    /\ Cancelling(i)
    /\ job' = [job EXCEPT ![i] = "done"]
    /\ SetStatus(i, "cancelled_before_start")
    /\ UNCHANGED <<cancelling, cpu, writes, active, foreground, drain>>

Predict(i) ==
    /\ job[i] = "created"
    /\ ~Cancelling(i)
    /\ job' = [job EXCEPT ![i] = "predicting"]
    /\ cpu' = [cpu EXCEPT ![i] = "running"]
    /\ SetStatus(i, "predicting")
    /\ UNCHANGED <<cancelling, writes, active, foreground, drain>>

(* The thread ends on its own; shield() keeps a cancelled job from stopping it. *)
CpuEnds(i) ==
    /\ cpu[i] = "running"
    /\ \E outcome \in {"ids", "empty", "raised"} : cpu' = [cpu EXCEPT ![i] = outcome]
    /\ UNCHANGED <<cancelling, attempts, job, writes, active, foreground, drain>>

(* Mutant: the prediction is sent although the job was cancelled meanwhile. *)
PredictedThoughCancelled(i) ==
    /\ job[i] = "predicting"
    /\ cpu[i] = "ids"
    /\ job' = [job EXCEPT ![i] = "in_flight"]
    /\ SetStatus(i, "in_flight")
    /\ UNCHANGED <<cancelling, cpu, writes, active, foreground, drain>>

(* The await of shield(cpu) comes back, unless a cancel came first. *)
Predicted(i) ==
    /\ job[i] = "predicting"
    /\ ~Cancelling(i)
    /\ \/ /\ cpu[i] = "ids"
          /\ job' = [job EXCEPT ![i] = "in_flight"]
          /\ SetStatus(i, "in_flight")
       \/ /\ cpu[i] = "empty"
          /\ job' = [job EXCEPT ![i] = "done"]
          /\ SetStatus(i, "declined")
       \/ /\ cpu[i] = "raised"
          /\ job' = [job EXCEPT ![i] = "done"]
          /\ SetStatus(i, "error")
    /\ UNCHANGED <<cancelling, cpu, writes, active, foreground, drain>>

CancelledPredicting(i) ==
    /\ job[i] = "predicting"
    /\ Cancelling(i)
    /\ job' = [job EXCEPT ![i] = "done"]
    /\ SetStatus(i, "cancelled")
    /\ UNCHANGED <<cancelling, cpu, writes, active, foreground, drain>>

(* The transport is over; its finally clause has started the file write. *)
TransportOver(i, status) ==
    /\ job' = [job EXCEPT ![i] = "done"]
    /\ writes' = [writes EXCEPT ![i] = "pending"]
    /\ SetStatus(i, status)
    /\ UNCHANGED <<cancelling, cpu, active, foreground, drain>>

Transported(i) ==
    /\ job[i] = "in_flight"
    /\ ~Cancelling(i)
    /\ \E status \in {"completed", "error"} : TransportOver(i, status)

(* A cancel, or the 60 s timeout, closes the HTTP stream first, which may take time. *)
TransportStops(i) ==
    /\ job[i] = "in_flight"
    /\ job' = [job EXCEPT ![i] = "cleanup"]
    /\ UNCHANGED <<cancelling, attempts, cpu, writes, active, foreground, drain>>

(* A timeout surfaces as an error, a cancel as cancelled, failed cleanup as an error. *)
TransportStopped(i) ==
    /\ job[i] = "cleanup"
    /\ \/ TransportOver(i, "error")
       \/ Cancelling(i) /\ TransportOver(i, "cancelled")

WriteEnds(i) ==
    /\ writes[i] = "pending"
    /\ \E outcome \in {"written", "error"} : writes' = [writes EXCEPT ![i] = outcome]
    /\ UNCHANGED <<cancelling, attempts, job, cpu, active, foreground, drain>>

---------------------------------------------------------------------------
(***************************************************************************)
(* drain(): wait for the jobs for a bounded time, cancel the others, wait  *)
(* again, wait for the threads, and report what is left.                   *)
(***************************************************************************)
DrainStart ==
    /\ drain.phase = "no"
    /\ foreground = "idle"
    /\ drain' = [drain EXCEPT !.phase = "jobs"]
    /\ UNCHANGED <<policyVars, foreground>>

(* Mutant: predictions that still run are not reported. *)
DrainReportJobsOnly ==
    /\ drain.phase = "cancelled"
    /\ drain' = [phase |-> "done",
                 report |-> [pendingJobs |-> Cardinality(PendingJobs), pendingCpu |-> 0]]
    /\ UNCHANGED <<policyVars, foreground>>

(* The wait ends when the jobs are done or at the deadline. *)
DrainCancel ==
    /\ drain.phase = "jobs"
    /\ cancelling' = cancelling \cup PendingJobs
    /\ drain' = [drain EXCEPT !.phase = "cancelled"]
    /\ UNCHANGED <<attempts, job, cpu, writes, active, foreground>>

DrainReport ==
    /\ drain.phase = "cancelled"
    /\ drain' = [phase |-> "done",
                 report |-> [pendingJobs |-> Cardinality(PendingJobs),
                             pendingCpu |-> Cardinality(PendingCpu)]]
    /\ UNCHANGED <<policyVars, foreground>>

---------------------------------------------------------------------------
JobStep(i) ==
    \/ CancelledBeforeStart(i) \/ Predict(i) \/ Predicted(i) \/ CancelledPredicting(i)
    \/ Transported(i) \/ TransportStops(i) \/ TransportStopped(i)

Background == \E i \in Rows : JobStep(i) \/ CpuEnds(i) \/ WriteEnds(i)

Next ==
    \/ BeforeDispatch
    \/ \E issue \in BOOLEAN : AfterResponse(issue)
    \/ DrainStart \/ DrainCancel \/ DrainReport
    \/ Background

Spec == Init /\ [][Next]_vars

---------------------------------------------------------------------------
(***************************************************************************)
(* Properties.                                                             *)
(***************************************************************************)

(* The rows, jobs, threads and writes keep their types. *)
TypeOK ==
    /\ attempts \in Seq(Row) /\ Len(attempts) =< MaxAttempts
    /\ job \in [Ids -> JobStates]
    /\ cancelling \in SUBSET Ids
    /\ cpu \in [Ids -> CpuStates]
    /\ writes \in [Ids -> {"none", "pending", "written", "error"}]
    /\ active \in 0..Len(attempts)
    /\ foreground \in {"idle", "dispatched"}
    /\ drain \in [phase : {"no", "jobs", "cancelled", "done"},
                  report : [pendingJobs : Nat, pendingCpu : Nat]]

(***************************************************************************)
(* However late a cancelled job finishes its cleanup, no second job runs   *)
(* beside it.  (after_response: skipped_prior_cleanup_pending)             *)
(***************************************************************************)
OneJob == \A i, j \in Ids : Live(i) /\ Live(j) => i = j

(***************************************************************************)
(* While a model request is outstanding every unfinished preparation has   *)
(* been asked to stop: the background never competes undisturbed with the  *)
(* foreground.  (before_dispatch)                                          *)
(***************************************************************************)
ForegroundFirst ==
    foreground = "dispatched" => \A i \in Ids : Live(i) => Cancelling(i)

(***************************************************************************)
(* A row tells the truth about its job: it is final exactly when there is  *)
(* no job left to change it, and only rows whose request went out have a   *)
(* capture write.  (_prepare, the done callback, HttpCapture.__call__)     *)
(***************************************************************************)
RowsMatchJobs ==
    \A i \in Rows :
        /\ attempts[i].status \in Terminal <=> ~Live(i)
        /\ attempts[i].status \in {"completed", "in_flight"} => cpu[i] = "ids"
        /\ writes[i] # "none" => attempts[i].status \in {"completed", "error", "cancelled"}

(***************************************************************************)
(* One background job at a time, never undisturbed beside the foreground,  *)
(* and rows that say what their jobs did.                                  *)
(***************************************************************************)
BackgroundInOrder == TypeOK /\ OneJob /\ ForegroundFirst /\ RowsMatchJobs

(***************************************************************************)
(* After cancel() a prediction is never sent, and a final row stays as it  *)
(* is whatever its thread still does.  (asyncio.shield in _prepare)        *)
(***************************************************************************)
NeverSentAfterCancel ==
    [][\A i \in Rows :
          /\ Cancelling(i) /\ attempts[i].status # "in_flight"
                => attempts'[i].status # "in_flight"
          /\ attempts[i].status \in Terminal
                => attempts'[i].status = attempts[i].status]_vars
=============================================================================
