-------------------------- MODULE PreparationProofs --------------------------
(***************************************************************************)
(* Theorems about the preparation policy, for sessions of any length, with *)
(* the policy enabled or not; and that run_session (PreparationSession)    *)
(* drives the policy only as module Preparation allows, so that what is    *)
(* proved of the policy holds in every session.                            *)
(***************************************************************************)
EXTENDS PreparationSession, SequenceTheorems, FiniteSetTheorems, TLAPS

(***************************************************************************)
(* The inductive invariant: a job that is not done is the active one, and  *)
(* how far it is determines its row, its thread and its capture write.     *)
(***************************************************************************)
Unused(i) == job[i] = "none" /\ cpu[i] = "none" /\ writes[i] = "none"

RowFollowsJob(i) ==
    /\ job[i] = "created" => attempts[i].status = "pending"
    /\ job[i] = "predicting" => attempts[i].status = "predicting"
    /\ job[i] \in {"in_flight", "cleanup"} =>
          attempts[i].status = "in_flight" /\ cpu[i] = "ids"
    /\ job[i] \in {"none", "done"} => attempts[i].status \in Terminal
    /\ attempts[i].status = "completed" => cpu[i] = "ids"
    /\ writes[i] # "none" =>
          job[i] = "done" /\ attempts[i].status \in {"completed", "error", "cancelled"}

JobsInOrder ==
    /\ \A i \in Ids : Live(i) => i = active
    /\ \A i \in Ids : i > Len(attempts) => Unused(i)
    /\ \A i \in Rows : RowFollowsJob(i)

IInv == TypeOK /\ JobsInOrder /\ ForegroundFirst

\* The inductive invariant is as strong as what the runs check of the policy.
LEMMA IInvSuffices == IInv => BackgroundInOrder
<1> SUFFICES ASSUME IInv PROVE BackgroundInOrder OBVIOUS
<1>1. OneJob
  BY DEF IInv, JobsInOrder, OneJob
<1>2. Rows \subseteq Ids
  BY PreparationConstants DEF IInv, TypeOK, Rows, Ids
<1>3. RowsMatchJobs
  BY <1>2 DEF IInv, TypeOK, JobsInOrder, RowFollowsJob, RowsMatchJobs, Live, JobStates, Terminal
<1> QED BY <1>1, <1>3 DEF IInv, BackgroundInOrder

(***************************************************************************)
(* Rows                                                                    *)
(***************************************************************************)

\* The rows of a well-typed session are numbered within the bound.
LEMMA RowsAreIds == TypeOK => Rows = 1..Len(attempts) /\ Rows \subseteq Ids
  BY PreparationConstants DEF TypeOK, Rows, Ids

\* What SetStatus does: one row changes its status, nothing else moves.
LEMMA StatusSet ==
  ASSUME TypeOK, NEW i \in Rows, NEW status \in Statuses, SetStatus(i, status)
  PROVE  /\ attempts' \in Seq(Row) /\ Len(attempts') = Len(attempts) /\ Rows' = Rows
         /\ attempts'[i].status = status
         /\ \A k \in Rows : k # i => attempts'[k] = attempts[k]
<1> DEFINE row == [attempts[i] EXCEPT !.status = status]
<1>0. attempts[i] \in Row
  BY DEF TypeOK, Rows
<1>1. row \in Row /\ row.status = status
  BY <1>0 DEF Row
<1>2. attempts' = [attempts EXCEPT ![i] = row]
  BY DEF SetStatus
<1>3. attempts \in Seq(Row) /\ i \in 1..Len(attempts)
  BY DEF TypeOK, Rows
<1> HIDE DEF row
<1>4. attempts' \in Seq(Row) /\ Len(attempts') = Len(attempts)
  BY <1>1, <1>2, <1>3, ExceptSeq
<1> QED BY <1>1, <1>2, <1>3, <1>4 DEF Rows

(***************************************************************************)
(* The steps of a job, its thread and its write                            *)
(***************************************************************************)

\* Every attempt but i is as it was, and there are as many.
Elsewhere(i) ==
    /\ attempts' \in Seq(Row) /\ Len(attempts') = Len(attempts)
    /\ \A k \in Rows : k # i => attempts'[k] = attempts[k]
    /\ job' \in [Ids -> JobStates] /\ cpu' \in [Ids -> CpuStates]
    /\ writes' \in [Ids -> {"none", "pending", "written", "error"}]
    /\ \A k \in Ids : k # i => /\ job'[k] = job[k] /\ cpu'[k] = cpu[k]
                               /\ writes'[k] = writes[k]
    /\ UNCHANGED <<cancelling, active, foreground, drain>>

\* A step of attempt i alone keeps the invariant if its row still follows
\* its job and the job is not started by it.
LEMMA OneAttemptMoves ==
  ASSUME IInv, NEW i \in Rows, Elsewhere(i), Live(i)' => Live(i), RowFollowsJob(i)'
  PROVE  IInv'
<1> USE DEF IInv, Elsewhere
<1>1. Rows = 1..Len(attempts) /\ Rows' = Rows /\ Rows \subseteq Ids
  BY RowsAreIds DEF Rows
<1>2. TypeOK'
  BY <1>1 DEF TypeOK
<1>3. \A k \in Ids : Live(k)' => Live(k)
  BY <1>1 DEF Live
<1>4. ForegroundFirst'
  BY <1>3 DEF ForegroundFirst, Cancelling
<1>6. \A k \in Ids : k > Len(attempts') => Unused(k)'
  BY <1>1 DEF JobsInOrder, Unused, TypeOK
<1>7. \A k \in Rows' : RowFollowsJob(k)'
  BY <1>1 DEF JobsInOrder, RowFollowsJob
<1> QED BY <1>2, <1>3, <1>4, <1>6, <1>7 DEF JobsInOrder

\* _prepare and the done callback: every step of a job keeps the invariant.
LEMMA JobStepKeeps ==
  ASSUME IInv, NEW i \in Rows, JobStep(i)
  PROVE  IInv'
<1> USE DEF IInv
<1>0. i \in Ids
  BY RowsAreIds
<1>1. RowFollowsJob(i)
  BY DEF JobsInOrder
<1>2. CASE CancelledBeforeStart(i)
  <2>1. attempts'[i].status = "cancelled_before_start" /\ Elsewhere(i)
    BY <1>0, <1>2, StatusSet DEF CancelledBeforeStart, Elsewhere, TypeOK, JobStates, CpuStates,
         Statuses, Terminal
  <2>2. RowFollowsJob(i)'
    BY <1>0, <1>1, <1>2, <2>1 DEF CancelledBeforeStart, RowFollowsJob, Terminal, TypeOK
  <2>3. Live(i)' => Live(i)
    BY <1>0, <1>2 DEF CancelledBeforeStart, Live, TypeOK
  <2> QED BY <2>1, <2>2, <2>3, OneAttemptMoves
<1>3. CASE Predict(i)
  <2>1. attempts'[i].status = "predicting" /\ Elsewhere(i)
    BY <1>0, <1>3, StatusSet DEF Predict, Elsewhere, TypeOK, JobStates, CpuStates,
         Statuses, Terminal
  <2>2. RowFollowsJob(i)'
    BY <1>0, <1>1, <1>3, <2>1 DEF Predict, RowFollowsJob, Terminal, TypeOK
  <2>3. Live(i)' => Live(i)
    BY <1>0, <1>3 DEF Predict, Live, TypeOK
  <2> QED BY <2>1, <2>2, <2>3, OneAttemptMoves
<1>4. CASE Predicted(i)
  <2>1. CASE cpu[i] = "ids" /\ job' = [job EXCEPT ![i] = "in_flight"] /\ SetStatus(i, "in_flight")
    <3>1. attempts'[i].status = "in_flight" /\ Elsewhere(i)
      BY <1>0, <1>4, <2>1, StatusSet DEF Predicted, Elsewhere, TypeOK, JobStates, CpuStates,
         Statuses, Terminal
    <3>2. RowFollowsJob(i)'
      BY <1>0, <1>1, <1>4, <2>1, <3>1 DEF Predicted, RowFollowsJob, Terminal, TypeOK
    <3>3. Live(i)' => Live(i)
      BY <1>0, <1>4, <2>1 DEF Predicted, Live, TypeOK
    <3> QED BY <3>1, <3>2, <3>3, OneAttemptMoves
  <2>2. CASE cpu[i] = "empty" /\ job' = [job EXCEPT ![i] = "done"] /\ SetStatus(i, "declined")
    <3>1. attempts'[i].status = "declined" /\ Elsewhere(i)
      BY <1>0, <1>4, <2>2, StatusSet DEF Predicted, Elsewhere, TypeOK, JobStates, CpuStates,
         Statuses, Terminal
    <3>2. RowFollowsJob(i)'
      BY <1>0, <1>1, <1>4, <2>2, <3>1 DEF Predicted, RowFollowsJob, Terminal, TypeOK
    <3>3. Live(i)' => Live(i)
      BY <1>0, <1>4, <2>2 DEF Predicted, Live, TypeOK
    <3> QED BY <3>1, <3>2, <3>3, OneAttemptMoves
  <2>3. CASE cpu[i] = "raised" /\ job' = [job EXCEPT ![i] = "done"] /\ SetStatus(i, "error")
    <3>1. attempts'[i].status = "error" /\ Elsewhere(i)
      BY <1>0, <1>4, <2>3, StatusSet DEF Predicted, Elsewhere, TypeOK, JobStates, CpuStates,
         Statuses, Terminal
    <3>2. RowFollowsJob(i)'
      BY <1>0, <1>1, <1>4, <2>3, <3>1 DEF Predicted, RowFollowsJob, Terminal, TypeOK
    <3>3. Live(i)' => Live(i)
      BY <1>0, <1>4, <2>3 DEF Predicted, Live, TypeOK
    <3> QED BY <3>1, <3>2, <3>3, OneAttemptMoves
  <2> QED BY <1>4, <2>1, <2>2, <2>3 DEF Predicted
<1>5. CASE CancelledPredicting(i)
  <2>1. attempts'[i].status = "cancelled" /\ Elsewhere(i)
    BY <1>0, <1>5, StatusSet DEF CancelledPredicting, Elsewhere, TypeOK, JobStates, CpuStates,
         Statuses, Terminal
  <2>2. RowFollowsJob(i)'
    BY <1>0, <1>1, <1>5, <2>1 DEF CancelledPredicting, RowFollowsJob, Terminal, TypeOK
  <2>3. Live(i)' => Live(i)
    BY <1>0, <1>5 DEF CancelledPredicting, Live, TypeOK
  <2> QED BY <2>1, <2>2, <2>3, OneAttemptMoves
<1>6. ASSUME NEW status \in {"completed", "error", "cancelled"},
             job[i] \in {"in_flight", "cleanup"}, TransportOver(i, status)
      PROVE  IInv'
  <2>1. attempts'[i].status = status /\ Elsewhere(i)
    BY <1>0, <1>6, StatusSet DEF TransportOver, Elsewhere, TypeOK, JobStates, CpuStates,
         Statuses, Terminal
  <2>2. RowFollowsJob(i)'
    BY <1>0, <1>1, <1>6, <2>1 DEF TransportOver, RowFollowsJob, Terminal, TypeOK
  <2>3. Live(i)' => Live(i)
    BY <1>0, <1>6 DEF TransportOver, Live, TypeOK
  <2> QED BY <2>1, <2>2, <2>3, OneAttemptMoves
<1>7. CASE TransportStops(i)
  <2>1. attempts' = attempts /\ Elsewhere(i)
    BY <1>0, <1>7 DEF TransportStops, Elsewhere, TypeOK, JobStates
  <2>2. RowFollowsJob(i)'
    BY <1>0, <1>1, <1>7, <2>1 DEF TransportStops, RowFollowsJob, TypeOK
  <2>3. Live(i)' => Live(i)
    BY <1>0, <1>7 DEF TransportStops, Live, TypeOK
  <2> QED BY <2>1, <2>2, <2>3, OneAttemptMoves
<1>8. CASE Transported(i)
  BY <1>6, <1>8 DEF Transported
<1>9. CASE TransportStopped(i)
  BY <1>6, <1>9 DEF TransportStopped
<1> QED BY <1>2, <1>3, <1>4, <1>5, <1>7, <1>8, <1>9 DEF JobStep

\* A prediction that ends, also long after its job, and a capture write that
\* ends keep the invariant.
LEMMA ThreadKeeps ==
  ASSUME IInv, NEW i \in Rows, CpuEnds(i) \/ WriteEnds(i)
  PROVE  IInv'
<1> USE DEF IInv
<1>1. i \in Ids /\ RowFollowsJob(i)
  BY RowsAreIds DEF JobsInOrder
<1>2. Elsewhere(i) /\ attempts' = attempts /\ job' = job
  BY <1>1 DEF CpuEnds, WriteEnds, Elsewhere, TypeOK, CpuStates
<1>3. RowFollowsJob(i)'
  <2>1. CASE CpuEnds(i)
    BY <1>1, <1>2, <2>1 DEF CpuEnds, RowFollowsJob, TypeOK, Terminal
  <2>2. CASE WriteEnds(i)
    BY <1>1, <1>2, <2>2 DEF WriteEnds, RowFollowsJob, TypeOK
  <2> QED BY <2>1, <2>2
<1> QED BY <1>2, <1>3, OneAttemptMoves DEF Live

(***************************************************************************)
(* The calls of the foreground                                             *)
(***************************************************************************)

\* before_dispatch stamps rows but never touches a status.
LEMMA Stamped ==
  ASSUME TypeOK, BeforeDispatch
  PROVE  /\ attempts' \in Seq(Row) /\ Len(attempts') = Len(attempts) /\ Rows' = Rows
         /\ \A k \in Rows : attempts'[k].status = attempts[k].status
<1> DEFINE row(k) == [attempts[k] EXCEPT
                        !.nextDispatched = @ \/ k = Len(attempts),
                        !.cancelRequested = @ \/ (k = active /\ ActiveLive)]
<1>1. ASSUME NEW k \in Rows PROVE row(k) \in Row /\ row(k).status = attempts[k].status
  <2>1. attempts[k] \in Row
    BY DEF TypeOK, Rows
  <2> QED BY <2>1 DEF Row
<1>2. attempts' = [k \in Rows |-> row(k)]
  BY DEF BeforeDispatch
<1>3. Rows = 1..Len(attempts) /\ Len(attempts) \in Nat
  BY DEF TypeOK, Rows
<1> HIDE DEF row
<1>4. attempts' \in [1..Len(attempts) -> Row]
  BY <1>1, <1>2, <1>3
<1>5. attempts' \in Seq(Row) /\ Len(attempts') = Len(attempts)
  BY <1>3, <1>4
<1> QED BY <1>1, <1>2, <1>3, <1>5 DEF Rows

\* before_dispatch asks the active job to stop, which is the only live one.
LEMMA BeforeDispatchKeeps ==
  ASSUME IInv, BeforeDispatch
  PROVE  IInv'
<1> USE DEF IInv
<1>1. /\ attempts' \in Seq(Row) /\ Len(attempts') = Len(attempts) /\ Rows' = Rows
      /\ \A k \in Rows : attempts'[k].status = attempts[k].status
  BY Stamped
<1>2. /\ foreground' = "dispatched" /\ UNCHANGED <<job, cpu, writes, active, drain>>
      /\ cancelling' = cancelling \cup (IF ActiveLive THEN {active} ELSE {})
  BY DEF BeforeDispatch
<1>3. ActiveLive => active \in Ids
  BY PreparationConstants DEF TypeOK, ActiveLive, Ids
<1>4. TypeOK'
  BY <1>1, <1>2, <1>3 DEF TypeOK
<1>5. JobsInOrder'
  <2>1. \A i \in Rows' : RowFollowsJob(i)'
    BY <1>1, <1>2 DEF JobsInOrder, RowFollowsJob
  <2> QED BY <1>1, <1>2, <2>1 DEF JobsInOrder, Unused, Live
<1>6. ForegroundFirst'
  BY <1>2 DEF ForegroundFirst, JobsInOrder, ActiveLive, Live, Cancelling, Ids
<1> QED BY <1>4, <1>5, <1>6

\* after_response: a new row, with a job only if no other is live.
LEMMA AfterResponseKeeps ==
  ASSUME IInv, NEW issue \in BOOLEAN, AfterResponse(issue)
  PROVE  IInv'
<1> USE DEF IInv
<1>0. PICK n \in Ids : n = Len(attempts) + 1
  BY PreparationConstants DEF AfterResponse, Ids, TypeOK
<1>1. /\ attempts' \in Seq(Row) /\ Len(attempts') = n /\ Rows' = Rows \cup {n}
      /\ \A k \in Rows : attempts'[k] = attempts[k]
      /\ attempts'[n].status \in
            {"ineligible", "off", "skipped_prior_cleanup_pending", "pending"}
      /\ attempts'[n].status = "pending" <=> StartsJob(issue)
  <2>1. PICK status \in {"ineligible", "off", "skipped_prior_cleanup_pending", "pending"} :
          /\ attempts' = Append(attempts, NewRow(status))
          /\ status = "pending" <=> StartsJob(issue)
    BY PreparationConstants DEF AfterResponse, StartsJob
  <2>2. NewRow(status) \in Row /\ NewRow(status).status = status
    BY DEF NewRow, Row, Statuses, Terminal
  <2>3. attempts \in Seq(Row)
    BY DEF TypeOK
  <2>4. /\ attempts' \in Seq(Row) /\ Len(attempts') = Len(attempts) + 1
        /\ \A k \in 1..Len(attempts) : attempts'[k] = attempts[k]
        /\ attempts'[Len(attempts) + 1] = NewRow(status)
    BY <2>1, <2>2, <2>3, AppendProperties
  <2> QED BY <1>0, <2>1, <2>2, <2>3, <2>4 DEF Rows
<1>2. n \notin Rows /\ Rows = 1..Len(attempts) /\ Len(attempts) \in Nat
  BY <1>0 DEF Rows, TypeOK
<1>3. Unused(n)
  BY <1>0, <1>2 DEF JobsInOrder, TypeOK
<1>4. CASE StartsJob(issue)
  <2>1. job' = [job EXCEPT ![n] = "created"] /\ active' = n /\ UNCHANGED <<cpu, writes>>
    BY <1>0, <1>4 DEF AfterResponse
  <2>2. TypeOK'
    BY <1>0, <1>1, <1>2, <2>1 DEF TypeOK, AfterResponse, JobStates, Ids
  <2>3. \A i \in Ids : ~Live(i)
    BY <1>4, PreparationConstants DEF JobsInOrder, StartsJob, ActiveLive, Ids
  <2>4. \A i \in Ids : Live(i)' => i = active'
    BY <1>2, <2>1, <2>3 DEF Live, TypeOK
  <2>5. \A i \in Ids : i > Len(attempts') => Unused(i)'
    BY <1>0, <1>1, <1>2, <2>1 DEF JobsInOrder, Unused, TypeOK, Ids
  <2>6. ASSUME NEW i \in Rows PROVE RowFollowsJob(i)'
    BY <1>0, <1>1, <1>2, <2>1 DEF JobsInOrder, RowFollowsJob, TypeOK, Ids
  <2>7. RowFollowsJob(n)'
    BY <1>1, <1>2, <1>3, <1>4, <2>1 DEF RowFollowsJob, TypeOK, Unused
  <2> QED BY <1>1, <2>2, <2>4, <2>5, <2>6, <2>7
          DEF JobsInOrder, ForegroundFirst, AfterResponse
<1>5. CASE ~StartsJob(issue)
  <2>1. UNCHANGED <<job, active, cpu, writes>>
    BY <1>5 DEF AfterResponse
  <2>2. TypeOK'
    BY <1>0, <1>1, <1>2, <2>1 DEF TypeOK, AfterResponse, Ids
  <2>3. \A i \in Ids : Live(i)' => i = active'
    BY <2>1 DEF JobsInOrder, Live
  <2>4. \A i \in Ids : i > Len(attempts') => Unused(i)'
    BY <1>0, <1>1, <1>2, <2>1 DEF JobsInOrder, Unused, TypeOK, Ids
  <2>5. ASSUME NEW i \in Rows PROVE RowFollowsJob(i)'
    BY <1>1, <2>1 DEF JobsInOrder, RowFollowsJob
  <2>6. RowFollowsJob(n)'
    BY <1>1, <1>3, <1>5, <2>1 DEF RowFollowsJob, Unused, Terminal
  <2> QED BY <1>1, <2>2, <2>3, <2>4, <2>5, <2>6
          DEF JobsInOrder, ForegroundFirst, AfterResponse
<1> QED BY <1>4, <1>5

\* The drain reads the policy and asks its jobs to stop; it moves no job.
LEMMA DrainKeeps ==
  ASSUME IInv, DrainStart \/ DrainCancel \/ DrainReport
  PROVE  IInv'
<1> USE DEF IInv
<1>1. /\ UNCHANGED <<attempts, job, cpu, writes, active, foreground>>
      /\ cancelling' \in SUBSET Ids /\ cancelling \subseteq cancelling'
  BY DEF DrainStart, DrainCancel, DrainReport, policyVars, TypeOK, PendingJobs
<1>2. Cardinality(PendingJobs) \in Nat /\ Cardinality(PendingCpu) \in Nat
  <2>1. IsFiniteSet(Ids)
    BY PreparationConstants, FS_Interval DEF Ids
  <2>2. IsFiniteSet(PendingJobs) /\ IsFiniteSet(PendingCpu)
    BY <2>1, FS_Subset DEF PendingJobs, PendingCpu
  <2> QED BY <2>2, FS_CardinalityType
<1>3. drain' \in [phase : {"no", "jobs", "cancelled", "done"},
                  report : [pendingJobs : Nat, pendingCpu : Nat]]
  BY <1>2 DEF DrainStart, DrainCancel, DrainReport, TypeOK
<1>4. TypeOK'
  BY <1>1, <1>3 DEF TypeOK
<1>5. JobsInOrder'
  BY <1>1 DEF JobsInOrder, Unused, Live, Rows, RowFollowsJob
<1>6. ForegroundFirst'
  BY <1>1 DEF ForegroundFirst, Live, Cancelling
<1> QED BY <1>4, <1>5, <1>6

(***************************************************************************)
(* The policy                                                              *)
(***************************************************************************)

\* A new policy has no rows and no jobs.
LEMMA InitIInv == Init => IInv
<1> SUFFICES ASSUME Init PROVE IInv OBVIOUS
<1> USE PreparationConstants DEF Init
<1>1. attempts \in Seq(Row) /\ Len(attempts) = 0 /\ Rows = {}
  BY DEF Rows
<1>2. TypeOK
  BY <1>1 DEF TypeOK, JobStates, CpuStates, NoReport, Ids
<1>3. JobsInOrder
  BY <1>1 DEF JobsInOrder, Unused, Live, Ids
<1> QED BY <1>2, <1>3 DEF IInv, ForegroundFirst

\* Every step of the policy keeps the inductive invariant.
LEMMA NextKeeps == IInv /\ [Next]_vars => IInv'
<1> SUFFICES ASSUME IInv, [Next]_vars PROVE IInv' OBVIOUS
<1>1. CASE BeforeDispatch
  BY <1>1, BeforeDispatchKeeps
<1>2. CASE \E issue \in BOOLEAN : AfterResponse(issue)
  BY <1>2, AfterResponseKeeps
<1>3. CASE DrainStart \/ DrainCancel \/ DrainReport
  BY <1>3, DrainKeeps
<1>4. CASE Background
  BY <1>4, JobStepKeeps, ThreadKeeps DEF Background
<1>5. CASE UNCHANGED vars
  BY <1>5 DEF IInv, TypeOK, JobsInOrder, ForegroundFirst, Unused, RowFollowsJob, Rows, Live,
     Cancelling, vars, policyVars
<1> QED BY <1>1, <1>2, <1>3, <1>4, <1>5 DEF Next

\* For sessions of any length, and with the policy on or off: there is one
\* background job at a time, it has been asked to stop whenever a model
\* request is outstanding, and the rows say what their jobs did.
\* (before_dispatch, after_response, _prepare and its done callback)
THEOREM PolicyInOrder == Spec => []BackgroundInOrder
<1>1. IInv /\ [Next]_vars => IInv'
  BY NextKeeps
<1> QED BY <1>1, InitIInv, IInvSuffices, PTL DEF Spec

\* The row of a job that takes a step was not final, and becomes in_flight
\* only if the job was not asked to stop.
LEMMA JobStepRow ==
  ASSUME IInv, NEW i \in Rows, JobStep(i)
  PROVE  /\ attempts[i].status \notin Terminal
         /\ \A k \in Rows : k # i => attempts'[k] = attempts[k]
         /\ Cancelling(i) /\ attempts[i].status # "in_flight"
               => attempts'[i].status # "in_flight"
<1>1. Live(i)
  BY DEF JobStep, CancelledBeforeStart, Predict, Predicted, CancelledPredicting, Transported,
     TransportStops, TransportStopped, Live
<1>2. attempts[i].status \notin Terminal
  <2>1. i \in Ids /\ RowFollowsJob(i)
    BY RowsAreIds DEF IInv, JobsInOrder
  <2>2. job[i] \in {"created", "predicting", "in_flight", "cleanup"}
    BY <1>1, <2>1 DEF IInv, TypeOK, Live, JobStates
  <2> QED BY <2>1, <2>2 DEF RowFollowsJob, Terminal
<1>3. \/ attempts' = attempts
      \/ \E status \in Statuses :
            SetStatus(i, status) /\ (Cancelling(i) => status # "in_flight")
  <2>1. CASE CancelledBeforeStart(i)
    BY <2>1 DEF CancelledBeforeStart, Statuses, Terminal
  <2>2. CASE Predict(i)
    BY <2>2 DEF Predict, Statuses
  <2>3. CASE Predicted(i)
    BY <2>3 DEF Predicted, Statuses, Terminal
  <2>4. CASE CancelledPredicting(i)
    BY <2>4 DEF CancelledPredicting, Statuses, Terminal
  <2>5. CASE Transported(i) \/ TransportStopped(i)
    BY <2>5 DEF Transported, TransportStopped, TransportOver, Statuses, Terminal
  <2>6. CASE TransportStops(i)
    BY <2>6 DEF TransportStops
  <2> QED BY <2>1, <2>2, <2>3, <2>4, <2>5, <2>6 DEF JobStep
<1> QED BY <1>2, <1>3, StatusSet DEF IInv

\* One step of the policy sends nothing that was cancelled and rewrites no
\* final row.
LEMMA RowsNeverReopened ==
  ASSUME IInv, [Next]_vars, NEW i \in Rows
  PROVE  /\ Cancelling(i) /\ attempts[i].status # "in_flight"
                => attempts'[i].status # "in_flight"
         /\ attempts[i].status \in Terminal
                => attempts'[i].status = attempts[i].status
<1>1. CASE BeforeDispatch
  BY <1>1, Stamped DEF IInv
<1>2. CASE \E issue \in BOOLEAN : AfterResponse(issue)
  <2>1. PICK status : attempts' = Append(attempts, NewRow(status))
    BY <1>2 DEF AfterResponse
  <2>2. attempts'[i] = attempts[i]
    BY <2>1, AppendProperties DEF IInv, TypeOK, Rows
  <2> QED BY <2>2
<1>3. CASE DrainStart \/ DrainCancel \/ DrainReport \/ UNCHANGED vars
  BY <1>3 DEF DrainStart, DrainCancel, DrainReport, policyVars, vars
<1>4. CASE Background
  <2>1. PICK k \in Rows : JobStep(k) \/ CpuEnds(k) \/ WriteEnds(k)
    BY <1>4 DEF Background
  <2>2. CASE JobStep(k)
    BY <2>2, JobStepRow
  <2>3. CASE CpuEnds(k) \/ WriteEnds(k)
    BY <2>3 DEF CpuEnds, WriteEnds
  <2> QED BY <2>1, <2>2, <2>3
<1> QED BY <1>1, <1>2, <1>3, <1>4 DEF Next

\* For sessions of any length: after cancel() a prediction is never sent,
\* and a final row stays as it is whatever its thread still does.
\* (asyncio.shield and the except clauses of _prepare)
THEOREM PolicyNeverSendsCancelled == Spec => NeverSentAfterCancel
<1>1. IInv /\ [Next]_vars =>
        [\A i \in Rows :
            /\ Cancelling(i) /\ attempts[i].status # "in_flight"
                  => attempts'[i].status # "in_flight"
            /\ attempts[i].status \in Terminal
                  => attempts'[i].status = attempts[i].status]_vars
  BY RowsNeverReopened
<1> QED BY <1>1, InitIInv, NextKeeps, PTL DEF Spec, NeverSentAfterCancel

(***************************************************************************)
(* The session                                                             *)
(***************************************************************************)

\* A step of run_session is a step of the policy or leaves it alone.
LEMMA SessionStepsPolicy == [SessionNext]_allVars => [Next]_vars
<1> SUFFICES ASSUME [SessionNext]_allVars PROVE [Next]_vars OBVIOUS
<1>1. CASE NextTurn \/ TurnsDone \/ CallLimit \/ StopBeforeCall \/ ToolSucceeds \/ ToolFails
           \/ Flush \/ Persist \/ PersistRaises \/ CancelTool \/ CancelFinally \/ Expire
  BY <1>1 DEF NextTurn, TurnsDone, CallLimit, StopBeforeCall, ToolSucceeds, ToolFails, Flush,
     Persist, PersistRaises, CancelTool, CancelFinally, Expire
<1>2. CASE Dispatch
  BY <1>2 DEF Dispatch, Next
<1>3. CASE \E r \in Responses : Respond(r)
  <2>1. PICK r \in Responses : AfterResponse(Issue(r) # "none")
    BY <1>3 DEF Respond
  <2>2. (Issue(r) # "none") \in BOOLEAN
    OBVIOUS
  <2> HIDE DEF Issue
  <2> QED BY <2>1, <2>2 DEF Next
<1>4. CASE CancelModelCall
  BY <1>4 DEF CancelModelCall, Next
<1>5. CASE StartDrain \/ Draining
  BY <1>5 DEF StartDrain, Draining, Next
<1>6. CASE Background
  BY <1>6 DEF Next
<1>7. CASE UNCHANGED allVars
  BY <1>7 DEF allVars
<1> QED BY <1>1, <1>2, <1>3, <1>4, <1>5, <1>6, <1>7 DEF SessionNext, Body

\* run_session implements the policy's specification: whatever the tasks and
\* whatever the model, the tools and the controller do, it calls
\* before_dispatch, after_response and drain only as module Preparation says.
THEOREM SessionImplementsPolicy == SessionSpec => PolicySpec
<1>1. SessionInit => Init
  BY DEF SessionInit
<1> QED BY <1>1, SessionStepsPolicy, PTL DEF SessionSpec, PolicySpec, Spec

\* Hence every session keeps its background in order.
THEOREM SessionInOrder == SessionSpec => []BackgroundInOrder
  BY SessionImplementsPolicy, PolicyInOrder DEF PolicySpec

\* And no session sends a preparation after cancelling it.
THEOREM SessionNeverSendsCancelled == SessionSpec => NeverSentAfterCancel
  BY SessionImplementsPolicy, PolicyNeverSendsCancelled DEF PolicySpec

(***************************************************************************)
(* What a session saves.  Quiet: drain() has reported that nothing is left *)
(* to wait for.  From then on only capture writes move, and the flush has  *)
(* seen every one of them.                                                 *)
(***************************************************************************)
Quiet == drain.phase = "done" /\ drain.report = NoReport

Flushed == \A i \in Ids : writes[i] # "none" => flush[i] # "absent"

QuietIsOver == Quiet => \A i \in Ids : ~Live(i) /\ cpu[i] # "running"

DrainFollowsSession ==
    /\ drain.phase # "no" => foreground = "idle"
    /\ at = "drain" => drain.phase # "no"
    /\ at = "persist" => drain.phase = "done" /\ (Quiet => Flushed)

SavedFollowsDrain ==
    saved # NotSaved =>
        /\ at \in {"ended", "cancelled"} /\ drain.phase = "done"
        /\ Quiet => saved.rows = attempts /\ saved.cpu = cpu /\ Flushed

SInv == QuietIsOver /\ DrainFollowsSession /\ SavedFollowsDrain

\* A final report of the drain means that no job and no thread is left.
LEMMA ReportIsTrue ==
  ASSUME DrainReport, IInv
  PROVE  QuietIsOver'
<1>1. IsFiniteSet(PendingJobs) /\ IsFiniteSet(PendingCpu)
  <2>1. IsFiniteSet(Ids)
    BY PreparationConstants, FS_Interval DEF Ids
  <2> QED BY <2>1, FS_Subset DEF PendingJobs, PendingCpu
<1>2. /\ drain'.report = [pendingJobs |-> Cardinality(PendingJobs),
                          pendingCpu |-> Cardinality(PendingCpu)]
      /\ UNCHANGED <<job, cpu>>
  BY DEF DrainReport, policyVars
<1>3. Quiet' => PendingJobs = {} /\ PendingCpu = {}
  BY <1>1, <1>2, FS_EmptySet DEF Quiet, NoReport
<1> QED BY <1>2, <1>3 DEF QuietIsOver, PendingJobs, PendingCpu, Live

\* Once drain() is over, the policy stays as it is if nothing was pending,
\* but for the capture writes that end.
LEMMA QuietStays ==
  ASSUME IInv, QuietIsOver, foreground = "idle", drain.phase = "done", [Next]_vars
  PROVE  /\ UNCHANGED <<foreground, drain>>
         /\ Quiet => /\ UNCHANGED <<attempts, job, cpu>>
                     /\ \A i \in Ids : writes'[i] # "none" => writes[i] # "none"
<1>1. ~BeforeDispatch /\ ~DrainStart /\ ~DrainCancel /\ ~DrainReport
      /\ \A issue \in BOOLEAN : ~AfterResponse(issue)
  BY DEF BeforeDispatch, DrainStart, DrainCancel, DrainReport, AfterResponse
<1>2. CASE Background
  <2>1. PICK k \in Rows : JobStep(k) \/ CpuEnds(k) \/ WriteEnds(k)
    BY <1>2 DEF Background
  <2>2. k \in Ids
    BY RowsAreIds DEF IInv
  <2>3. CASE JobStep(k)
    <3>1. Live(k)
      BY <2>3 DEF JobStep, CancelledBeforeStart, Predict, Predicted, CancelledPredicting,
         Transported, TransportStops, TransportStopped, Live
    <3>2. UNCHANGED <<foreground, drain>>
      BY <2>3 DEF JobStep, CancelledBeforeStart, Predict, Predicted, CancelledPredicting,
         Transported, TransportStops, TransportStopped, TransportOver
    <3> QED BY <2>2, <3>1, <3>2 DEF QuietIsOver
  <2>4. CASE CpuEnds(k)
    BY <2>2, <2>4 DEF CpuEnds, QuietIsOver
  <2>5. CASE WriteEnds(k)
    BY <2>2, <2>5 DEF WriteEnds, IInv, TypeOK
  <2> QED BY <2>1, <2>3, <2>4, <2>5
<1>3. CASE UNCHANGED vars
  BY <1>3 DEF vars, policyVars
<1> QED BY <1>1, <1>2, <1>3 DEF Next

\* As long as drain() is not over, a step of the policy ends it only with its
\* report, and never brings the foreground back.
LEMMA DrainGoesOn ==
  ASSUME IInv, QuietIsOver, drain.phase # "no" => foreground = "idle", [Next]_vars
  PROVE  /\ QuietIsOver'
         /\ drain'.phase # "no" => foreground' = "idle"
         /\ drain.phase # "no" => drain'.phase # "no"
<1>1. CASE drain.phase = "done"
  BY <1>1, QuietStays DEF QuietIsOver, Quiet, Live
<1>2. CASE drain.phase # "done"
  <2>1. CASE DrainReport
    BY <2>1, ReportIsTrue DEF DrainReport
  <2>2. CASE DrainStart \/ DrainCancel
    BY <2>2 DEF DrainStart, DrainCancel, QuietIsOver, Quiet, IInv, TypeOK
  <2>3. CASE BeforeDispatch
    BY <1>2, <2>3 DEF BeforeDispatch, QuietIsOver, Quiet
  <2>4. CASE \E issue \in BOOLEAN : AfterResponse(issue)
    <3>1. foreground' = "idle" /\ drain' = drain
      BY <2>4 DEF AfterResponse
    <3> QED BY <1>2, <3>1 DEF QuietIsOver, Quiet
  <2>5. CASE Background \/ UNCHANGED vars
    <3>1. UNCHANGED <<foreground, drain>>
      BY <2>5 DEF Background, JobStep, CancelledBeforeStart, Predict, Predicted,
         CancelledPredicting, Transported, TransportStops, TransportStopped, TransportOver,
         CpuEnds, WriteEnds, vars
    <3> QED BY <1>2, <3>1 DEF QuietIsOver, Quiet
  <2> QED BY <2>1, <2>2, <2>3, <2>4, <2>5 DEF Next
<1> QED BY <1>1, <1>2

\* Every step of run_session, and of the background beside it, keeps what
\* ties the saved file to the drain.
LEMMA SessionKeeps == IInv /\ SInv /\ [SessionNext]_allVars => SInv'
<1> SUFFICES ASSUME IInv, SInv, [SessionNext]_allVars PROVE SInv' OBVIOUS
<1> USE DEF SInv
<1>1. [Next]_vars
  BY SessionStepsPolicy
<1>2. /\ QuietIsOver'
      /\ drain'.phase # "no" => foreground' = "idle"
      /\ drain.phase # "no" => drain'.phase # "no"
  BY <1>1, DrainGoesOn DEF DrainFollowsSession
<1>3. CASE /\ at \notin {"ended", "cancelled"} /\ at' \notin {"drain", "persist"}
           /\ saved' = saved
  BY <1>2, <1>3 DEF DrainFollowsSession, SavedFollowsDrain
<1>4. CASE NextTurn \/ TurnsDone \/ CallLimit \/ StopBeforeCall \/ Dispatch \/ ToolSucceeds
           \/ ToolFails \/ PersistRaises \/ CancelModelCall \/ CancelTool \/ Expire
  BY <1>3, <1>4 DEF NextTurn, TurnsDone, CallLimit, StopBeforeCall, MayCall, Dispatch,
     ToolSucceeds, ToolFails, PersistRaises, CancelModelCall, CancelTool, Expire, Return
<1>5. CASE \E r \in Responses : Respond(r)
  <2>1. at = "model" /\ at' \in {"turn", "tool", "finally"} /\ saved' = saved
    BY <1>5 DEF Respond, Return
  <2> QED BY <1>3, <2>1
<1>6. CASE StartDrain
  BY <1>2, <1>6 DEF StartDrain, DrainStart, DrainFollowsSession, SavedFollowsDrain, IInv, TypeOK
<1>7. CASE Draining
  BY <1>2, <1>7 DEF Draining, sessionVars, DrainFollowsSession, SavedFollowsDrain
<1>8. CASE Flush
  <2>1. UNCHANGED <<drain, writes, saved>> /\ saved = NotSaved /\ at' = "persist"
        /\ drain.phase = "done"
    BY <1>8 DEF Flush, vars, policyVars, SavedFollowsDrain
  <2>2. Flushed'
    BY <1>8, <2>1 DEF Flush, Flushed, IInv, TypeOK
  <2> QED BY <1>2, <2>1, <2>2 DEF DrainFollowsSession, SavedFollowsDrain
<1>9. CASE Persist \/ CancelFinally
  <2>1. /\ UNCHANGED <<drain, writes, attempts, cpu, flush>> /\ saved = NotSaved
        /\ at' \in {"ended", "cancelled"} /\ at \in {"drain", "persist"}
        /\ saved' = saved \/ (at = "persist" /\ saved' = Snapshot)
    <3>1. at \in {"drain", "persist"} /\ UNCHANGED vars /\ flush' = flush
      BY <1>9 DEF Persist, CancelFinally
    <3>2. saved = NotSaved
      BY <3>1 DEF SavedFollowsDrain
    <3>3. /\ at' \in {"ended", "cancelled"}
          /\ saved' = saved \/ (at = "persist" /\ saved' = Snapshot)
      BY <1>9 DEF Persist, CancelFinally
    <3> QED BY <3>1, <3>2, <3>3 DEF vars, policyVars
  <2> QED BY <1>2, <2>1 DEF DrainFollowsSession, SavedFollowsDrain, Snapshot, Quiet, Flushed
<1>10. CASE UNCHANGED sessionVars
  <2>1. UNCHANGED <<at, saved, flush>>
    BY <1>10 DEF sessionVars
  <2>2. CASE drain.phase = "done"
    BY <1>1, <1>2, <2>1, <2>2, QuietStays
       DEF DrainFollowsSession, SavedFollowsDrain, Quiet, Flushed
  <2>3. CASE drain.phase # "done"
    BY <1>2, <2>1, <2>3 DEF DrainFollowsSession, SavedFollowsDrain
  <2> QED BY <2>2, <2>3
<1> QED BY <1>4, <1>5, <1>6, <1>7, <1>8, <1>9, <1>10 DEF SessionNext, Body, allVars

\* For any tasks: a saved session is final whenever its drain reported
\* nothing pending, however late cancelled jobs, prediction threads and
\* capture writes finish.  (drain, transport.close, persist)
THEOREM SessionSavesFinal == SessionSpec => []SavedIsFinal
<1>1. SessionInit => IInv /\ SInv
  <2> SUFFICES ASSUME SessionInit PROVE IInv /\ SInv OBVIOUS
  <2>1. IInv
    BY InitIInv DEF SessionInit
  <2>2. SInv
    BY DEF SessionInit, Init, SInv, QuietIsOver, Quiet, DrainFollowsSession, SavedFollowsDrain
  <2> QED BY <2>1, <2>2
<1>2. IInv /\ SInv /\ [SessionNext]_allVars => (IInv /\ SInv)'
  BY SessionStepsPolicy, NextKeeps, SessionKeeps
<1>3. IInv /\ SInv => SavedIsFinal
  <2> SUFFICES ASSUME IInv, SInv, saved # NotSaved, drain.report = NoReport
               PROVE  /\ saved.rows = attempts /\ saved.cpu = cpu
                      /\ \A i \in Rows : attempts[i].status \in Terminal
                      /\ \A i \in Rows : writes[i] # "none" => flush[i] # "absent"
    BY DEF SavedIsFinal, Rows
  <2>1. Quiet /\ saved.rows = attempts /\ saved.cpu = cpu /\ Flushed
    BY DEF SInv, SavedFollowsDrain, Quiet
  <2>2. Rows \subseteq Ids
    BY RowsAreIds DEF IInv
  <2>3. \A i \in Rows : ~Live(i)
    BY <2>1, <2>2 DEF SInv, QuietIsOver
  <2>4. \A i \in Rows : attempts[i].status \in Terminal
    BY <2>3, IInvSuffices DEF BackgroundInOrder, RowsMatchJobs
  <2> QED BY <2>1, <2>2, <2>4 DEF Flushed
<1> QED BY <1>1, <1>2, <1>3, PTL DEF SessionSpec

(***************************************************************************)
(* What a session records of itself                                        *)
(***************************************************************************)
Working == at \in {"turn", "call", "model", "tool"}

TurnRows == [calls : Nat, outcome : {"call_limit", "empty_response", "assistant_finished"}]
Messages == [role : {"system", "user", "tool"}] \cup [role : {"assistant"}, calls : Nat]

SessionTypes ==
    /\ task \in Tasks
    /\ turns \in Seq(TurnRows) /\ history \in Seq(Messages)
    /\ todo \in Nat /\ modelCalls \in Nat
    /\ at \in {"call", "model", "tool"} => Len(turns) > 0

(* While the session works it has no outcome, and only a tool loop has tools to run. *)
AtWork ==
    Working => /\ outcome = "not_started" /\ usable = TRUE
               /\ at = "tool" => todo > 0
               /\ at # "tool" => todo = 0

(* All calls but the last n are answered, right after their message. *)
Paired(h, n) ==
    \A i \in DOMAIN h : h[i].role = "assistant" =>
        /\ i + h[i].calls =< Len(h) + n
        /\ \A k \in 1..h[i].calls : i + k =< Len(h) => h[i + k].role = "tool"

(* A turn is given its outcome when it ends, after the answer it stands for. *)
TurnSoFar ==
    /\ at \in {"call", "model", "tool"} => turns[Len(turns)].outcome = "call_limit"
    /\ (at = "turn" /\ Len(turns) > 0 /\ turns[Len(turns)].outcome = "assistant_finished")
          => history[Len(history)] = [role |-> "assistant", calls |-> 0]

CallsCounted ==
    /\ IsFiniteSet(CallsOfTurns) /\ Cardinality(CallsOfTurns) = modelCalls

LoopInv == SessionTypes /\ AtWork /\ (Working => Paired(history, todo)) /\ TurnSoFar

RecordInv == LoopInv /\ CallsCounted /\ Len(attempts) = modelCalls /\ FinishedMeansFinished

\* With nothing left to run, every call has been answered.
LEMMA PairedIsAnswered ==
  ASSUME SessionTypes, Paired(history, 0)
  PROVE  Answered
<1> SUFFICES ASSUME NEW i \in DOMAIN history, history[i].role = "assistant"
             PROVE  /\ i + history[i].calls =< Len(history)
                    /\ \A k \in 1..history[i].calls : history[i + k].role = "tool"
  BY DEF Answered
<1>1. history \in Seq(Messages) /\ i \in Nat /\ Len(history) \in Nat
  BY DEF SessionTypes
<1>2. history[i].calls \in Nat
  BY <1>1 DEF Messages
<1>3. i + history[i].calls =< Len(history) + 0
      /\ \A k \in 1..history[i].calls : i + k =< Len(history) => history[i + k].role = "tool"
  BY DEF Paired
<1> QED BY <1>1, <1>2, <1>3

\* How the history grows: a user message or an assistant's when all is
\* answered, an answer when one is missing.
LEMMA HistoryGrows ==
  ASSUME NEW h \in Seq(Messages), NEW n \in Nat, NEW n2 \in Nat, NEW m \in Messages,
         Paired(h, n),
         \/ m.role = "tool" /\ n > 0 /\ n2 = n - 1
         \/ m.role = "user" /\ n = 0 /\ n2 = 0
         \/ m.role = "assistant" /\ n = 0 /\ n2 = m.calls
  PROVE  Paired(Append(h, m), n2)
<1> DEFINE g == Append(h, m)
           l == Len(h)
<1>1. /\ l \in Nat /\ DOMAIN h = 1..l /\ Len(g) = l + 1 /\ DOMAIN g = 1..(l + 1)
      /\ g[l + 1] = m /\ \A i \in 1..l : g[i] = h[i]
  OBVIOUS
<1> SUFFICES ASSUME NEW i \in 1..(l + 1), g[i].role = "assistant"
             PROVE  /\ i + g[i].calls =< l + 1 + n2
                    /\ \A k \in 1..g[i].calls : i + k =< l + 1 => g[i + k].role = "tool"
  BY <1>1 DEF Paired
<1>2. CASE i = l + 1
  <2>1. m.role = "assistant" /\ n2 = m.calls /\ g[i] = m
    BY <1>1, <1>2
  <2> HIDE DEF g, l
  <2>2. \A k \in 1..n2 : ~(i + k =< l + 1)
    BY <1>1, <1>2
  <2> QED BY <1>1, <1>2, <2>1, <2>2
<1>3. CASE i # l + 1
  <2>1. i \in 1..l /\ g[i] = h[i]
    BY <1>1, <1>3
  <2>2. h[i].calls \in Nat
    <3>1. h[i] \in Messages /\ h[i].role = "assistant"
      BY <1>1, <2>1
    <3> QED BY <3>1 DEF Messages
  <2>3. /\ i + h[i].calls =< l + n
        /\ \A k \in 1..h[i].calls : i + k =< l => h[i + k].role = "tool"
    BY <1>1, <2>1 DEF Paired
  <2> HIDE DEF g, l
  <2>4. i + h[i].calls =< l + 1 + n2
    BY <1>1, <2>1, <2>2, <2>3
  <2>5. ASSUME NEW k \in 1..h[i].calls, i + k =< l + 1 PROVE g[i + k].role = "tool"
    <3>1. i + k \in Nat /\ i + k > 0
      BY <2>1, <2>2
    <3>2. CASE i + k =< l
      <4>1. i + k \in 1..l
        BY <1>1, <3>1, <3>2
      <4> QED BY <1>1, <2>3, <3>2, <4>1
    <3>3. CASE i + k = l + 1
      <4>1. n > 0
        BY <1>1, <2>1, <2>2, <2>3, <3>3
      <4> QED BY <1>1, <3>3, <4>1
    <3> QED BY <1>1, <2>5, <3>1, <3>2, <3>3
  <2> QED BY <2>1, <2>4, <2>5
<1> QED BY <1>2, <1>3

\* The current turn's row is replaced.
LEMMA TurnReplaced ==
  ASSUME turns \in Seq(TurnRows), Len(turns) > 0, NEW x \in TurnRows, turns' = InTurn(x)
  PROVE  /\ turns' \in Seq(TurnRows) /\ Len(turns') = Len(turns) /\ turns'[Len(turns)] = x
         /\ DOMAIN turns' = DOMAIN turns /\ Len(turns) \in DOMAIN turns
         /\ \A t \in DOMAIN turns : t # Len(turns) => turns'[t] = turns[t]
  BY DEF InTurn, Turn

\* A call that is counted in its turn is one call more.
LEMMA CallCounted ==
  ASSUME turns \in Seq(TurnRows), Len(turns) > 0, NEW x \in TurnRows, turns' = InTurn(x),
         x.calls = turns[Len(turns)].calls + 1,
         CallsCounted, modelCalls \in Nat, modelCalls' = modelCalls + 1
  PROVE  CallsCounted'
<1> DEFINE n == Len(turns)
           c == turns[n].calls
<1>1. /\ DOMAIN turns' = DOMAIN turns /\ n \in DOMAIN turns /\ turns'[n] = x
      /\ \A t \in DOMAIN turns : t # n => turns'[t] = turns[t]
  BY TurnReplaced
<1>2. c \in Nat
  <2>1. \A t \in DOMAIN turns : turns[t] \in TurnRows
    OBVIOUS
  <2>2. turns[n] \in TurnRows
    BY <1>1, <2>1, Zenon
  <2> HIDE DEF n
  <2> QED BY <2>2 DEF TurnRows
<1>3. \A t, k : <<t, k>> \in CallsOfTurns <=> t \in DOMAIN turns /\ k \in 1..turns[t].calls
  BY DEF CallsOfTurns
<1>4. \A p \in CallsOfTurns : \E t, k : p = <<t, k>>
  BY DEF CallsOfTurns
<1>5. \A t, k : <<t, k>> \in CallsOfTurns' <=> t \in DOMAIN turns' /\ k \in 1..turns'[t].calls
  BY DEF CallsOfTurns
<1>6. \A p \in CallsOfTurns' : \E t, k : p = <<t, k>>
  BY DEF CallsOfTurns
<1>7. turns'[n].calls = c + 1
  BY <1>1
<1> HIDE DEF n, c
<1>8. \A k : k \in 1..(c + 1) <=> k \in 1..c \/ k = c + 1
  BY <1>2
<1>9. \A t, k : <<t, k>> \in CallsOfTurns' <=> <<t, k>> \in CallsOfTurns \/ (t = n /\ k = c + 1)
  <2> TAKE t, k
  <2>1. CASE t = n
    BY <1>1, <1>3, <1>5, <1>7, <1>8, <2>1 DEF c
  <2>2. CASE t # n
    BY <1>1, <1>3, <1>5, <2>2
  <2> QED BY <2>1, <2>2
<1>10. CallsOfTurns' = CallsOfTurns \cup {<<n, c + 1>>}
  <2>1. ASSUME NEW p \in CallsOfTurns' PROVE p \in CallsOfTurns \cup {<<n, c + 1>>}
    <3>1. PICK t, k : p = <<t, k>>
      BY <1>6
    <3> QED BY <1>9, <3>1
  <2>2. ASSUME NEW p \in CallsOfTurns PROVE p \in CallsOfTurns'
    <3>1. PICK t, k : p = <<t, k>>
      BY <1>4
    <3> QED BY <1>9, <3>1
  <2> QED BY <1>9, <2>1, <2>2
<1>11. <<n, c + 1>> \notin CallsOfTurns
  BY <1>2, <1>3 DEF c
<1>12. IsFiniteSet(CallsOfTurns') /\ Cardinality(CallsOfTurns') = Cardinality(CallsOfTurns) + 1
  BY <1>10, <1>11, FS_AddElement DEF CallsCounted
<1> QED BY <1>12 DEF CallsCounted

\* The numbers from 1 to m are those from 1 to n only when m is n.
LEMMA UpToN ==
  ASSUME NEW m \in Nat, NEW n \in Nat, 1..m = 1..n
  PROVE  m = n
<1>1. (m \in 1..m <=> m \in 1..n) /\ (n \in 1..n <=> n \in 1..m)
  OBVIOUS
<1> QED BY <1>1

\* Only a response adds a row to the attempts.
LEMMA RowsCounted ==
  ASSUME IInv, IInv', [Next]_vars
  PROVE  /\ (\E issue \in BOOLEAN : AfterResponse(issue)) => Len(attempts') = Len(attempts) + 1
         /\ ~(\E issue \in BOOLEAN : AfterResponse(issue)) => Len(attempts') = Len(attempts)
<1>1. attempts \in Seq(Row) /\ attempts' \in Seq(Row)
  BY DEF IInv, TypeOK
<1>2. ASSUME DOMAIN attempts' = DOMAIN attempts PROVE Len(attempts') = Len(attempts)
  <2>1. 1..Len(attempts') = 1..Len(attempts) /\ Len(attempts) \in Nat /\ Len(attempts') \in Nat
    BY <1>1, <1>2
  <2> QED BY <2>1, UpToN
<1>3. ASSUME NEW issue \in BOOLEAN, AfterResponse(issue) PROVE Len(attempts') = Len(attempts) + 1
  <2>1. \E x : attempts' = Append(attempts, x)
    BY <1>3 DEF AfterResponse
  <2> QED BY <1>1, <2>1
<1>4. CASE BeforeDispatch
  BY <1>2, <1>4 DEF BeforeDispatch, AfterResponse, Rows
<1>5. CASE DrainStart \/ DrainCancel \/ DrainReport \/ UNCHANGED vars
  <2>1. attempts' = attempts
    BY <1>5 DEF DrainStart, DrainCancel, DrainReport, policyVars, vars
  <2> QED BY <1>2, <1>3, <2>1, <1>1
<1>6. CASE Background
  <2>1. attempts' = attempts \/ \E i, s : SetStatus(i, s)
    BY <1>6 DEF Background, JobStep, CancelledBeforeStart, Predict, Predicted,
         CancelledPredicting, Transported, TransportStops, TransportStopped, TransportOver,
         CpuEnds, WriteEnds
  <2>2. DOMAIN attempts' = DOMAIN attempts
    BY <2>1 DEF SetStatus
  <2> QED BY <1>1, <1>2, <1>3, <2>2
<1> QED BY <1>3, <1>4, <1>5, <1>6 DEF Next

\* Steps that leave the loop alone and move only to where the same holds.
LEMMA LoopStands ==
  ASSUME RecordInv, UNCHANGED <<task, turns, modelCalls, history, todo, outcome, usable>>,
         Len(attempts') = Len(attempts),
         \/ at' = at
         \/ at' \notin {"turn", "call", "model", "tool"}
         \/ at = "call" /\ at' \in {"model", "turn"}
  PROVE  RecordInv'
<1> USE DEF RecordInv, LoopInv
<1>1. SessionTypes'
  BY DEF SessionTypes
<1>2. AtWork'
  BY DEF AtWork, Working
<1>3. Working' => Paired(history', todo')
  <2>1. Working' => Working
    BY DEF Working
  <2> QED BY <2>1
<1>4. TurnSoFar'
  BY DEF TurnSoFar
<1>5. CallsCounted'
  BY DEF CallsCounted, CallsOfTurns
<1>6. FinishedMeansFinished'
  BY DEF FinishedMeansFinished, Answered
<1> QED BY <1>1, <1>2, <1>3, <1>4, <1>5, <1>6

\* The body returns, with an outcome that does not claim an end of all turns.
LEMMA ReturnsOtherwise ==
  ASSUME NEW why, why # "finished", Return(why), task' \in Tasks,
         turns' \in Seq(TurnRows), history' \in Seq(Messages), todo' \in Nat, modelCalls' \in Nat,
         CallsCounted', Len(attempts') = modelCalls'
  PROVE  RecordInv'
<1>1. at' = "finally" /\ outcome' # "finished"
  BY DEF Return
<1>2. SessionTypes'
  BY <1>1 DEF SessionTypes
<1>3. AtWork' /\ ~Working' /\ TurnSoFar'
  BY <1>1 DEF AtWork, Working, TurnSoFar
<1>4. FinishedMeansFinished'
  BY <1>1 DEF FinishedMeansFinished
<1> QED BY <1>2, <1>3, <1>4 DEF RecordInv, LoopInv

\* What a response does to the loop.
LEMMA Responded ==
  ASSUME SessionTypes, NEW r \in Responses, Respond(r)
  PROVE  /\ at = "model" /\ modelCalls' = modelCalls + 1 /\ usable' = usable
         /\ \/ /\ \E why \in {"empty_response", "assistant_finished"} :
                     turns' = InTurn([calls |-> turns[Turn].calls + 1, outcome |-> why])
               /\ history' = Append(history, [role |-> "assistant", calls |-> 0])
               /\ at' = "turn" /\ UNCHANGED <<outcome, todo>>
            \/ /\ turns' = Called /\ UNCHANGED <<history, todo>>
               /\ \E why : why # "finished" /\ Return(why)
            \/ \E c \in Nat :
                  /\ c > 0 /\ history' = Append(history, [role |-> "assistant", calls |-> c])
                  /\ turns' = Called /\ todo' = c /\ at' = "tool" /\ outcome' = outcome
<1> DEFINE issue == Issue(r)
<1>1. /\ at = "model" /\ modelCalls' = modelCalls + 1 /\ usable' = usable
  BY DEF Respond
<1>2. CASE issue = "empty_response" /\ r.finish = "stop"
  <2>1. /\ history' = Append(history, [role |-> "assistant", calls |-> 0])
        /\ turns' = InTurn([calls |-> turns[Turn].calls + 1, outcome |-> "empty_response"])
        /\ at' = "turn" /\ UNCHANGED <<outcome, todo>>
    <3> HIDE DEF Issue
    <3> QED BY <1>2 DEF Respond
  <2> QED BY <1>1, <2>1
<1>3. CASE issue # "none" /\ ~(issue = "empty_response" /\ r.finish = "stop")
  <2>1. turns' = Called /\ Return(issue) /\ UNCHANGED <<history, todo>>
    <3> HIDE DEF Issue
    <3> QED BY <1>3 DEF Respond
  <2>2. issue # "finished"
    BY DEF Issue, ResponseIssue
  <2> HIDE DEF issue
  <2> QED BY <1>1, <2>1, <2>2
<1>4. CASE issue = "none" /\ r.calls = 0
  <2>1. /\ history' = Append(history, [role |-> "assistant", calls |-> 0])
        /\ turns' = InTurn([calls |-> turns[Turn].calls + 1, outcome |-> "assistant_finished"])
        /\ at' = "turn" /\ UNCHANGED <<outcome, todo>>
    <3> HIDE DEF Issue
    <3> QED BY <1>4 DEF Respond
  <2> QED BY <1>1, <2>1
<1>5. CASE issue = "none" /\ r.calls # 0
  <2>1. /\ history' = Append(history, [role |-> "assistant", calls |-> r.calls])
        /\ turns' = Called /\ todo' = r.calls /\ at' = "tool" /\ outcome' = outcome
    <3> HIDE DEF Issue
    <3> QED BY <1>5 DEF Respond
  <2>2. r.calls \in Nat
    <3>1. ~r.error
      BY <1>5 DEF Issue, ResponseIssue
    <3>2. task.tools \in Nat
      BY SessionConstants DEF SessionTypes
    <3>3. r.calls \in 0..task.tools
      <4>1. r \in [error : {FALSE}, finish : {"stop", "tool_calls", "length", "other"},
                   text : BOOLEAN, calls : 0..task.tools, ids : BOOLEAN, counted : BOOLEAN]
        <5>1. r = [error |-> TRUE] => r.error = TRUE
          OBVIOUS
        <5>2. r # [error |-> TRUE]
          BY <3>1, <5>1, Zenon
        <5> QED BY <5>2, Zenon DEF Responses
      <4> QED BY <4>1
    <3> QED BY <3>2, <3>3
  <2> QED BY <1>1, <1>5, <2>1, <2>2
<1> HIDE DEF issue
<1> QED BY <1>2, <1>3, <1>4, <1>5

\* A response or a cancelled call counts one call in the current turn.
LEMMA CalledRow ==
  ASSUME SessionTypes, at = "model", AtWork, TurnSoFar, CallsCounted, modelCalls' = modelCalls + 1,
         \/ turns' = Called
         \/ \E why \in {"empty_response", "assistant_finished"} :
               turns' = InTurn([calls |-> turns[Turn].calls + 1, outcome |-> why])
  PROVE  /\ turns' \in Seq(TurnRows) /\ Len(turns') = Len(turns) /\ Len(turns) > 0
         /\ CallsCounted' /\ modelCalls' \in Nat
         /\ turns' = Called => turns'[Len(turns)].outcome = "call_limit"
<1>1. turns \in Seq(TurnRows) /\ Len(turns) > 0 /\ modelCalls \in Nat /\ Len(turns) \in DOMAIN turns
  BY DEF SessionTypes
<1> DEFINE row == turns[Len(turns)]
<1>2. row \in TurnRows /\ row.outcome = "call_limit"
  BY <1>1 DEF TurnSoFar
<1>3. row.calls \in Nat
  BY <1>2 DEF TurnRows
<1>4. Called = InTurn([row EXCEPT !.calls = @ + 1])
  BY DEF Called, Turn
<1>5. [row EXCEPT !.calls = @ + 1] = [calls |-> row.calls + 1, outcome |-> "call_limit"]
  <2> HIDE DEF row
  <2> QED BY <1>2 DEF TurnRows
<1>6. PICK why \in {"call_limit", "empty_response", "assistant_finished"} :
        turns' = InTurn([calls |-> row.calls + 1, outcome |-> why])
  <2>1. CASE turns' = Called
    BY <1>4, <1>5, <2>1, Zenon
  <2>2. CASE \E why \in {"empty_response", "assistant_finished"} :
               turns' = InTurn([calls |-> turns[Turn].calls + 1, outcome |-> why])
    BY <2>2, Zenon DEF Turn
  <2> QED BY <2>1, <2>2
<1> DEFINE x == [calls |-> row.calls + 1, outcome |-> why]
<1>7. x \in TurnRows /\ x.calls = row.calls + 1
  <2> HIDE DEF row
  <2> QED BY <1>3 DEF TurnRows
<1>8. turns' = InTurn(x)
  BY <1>6
<1> HIDE DEF x
<1>9. turns' \in Seq(TurnRows) /\ Len(turns') = Len(turns) /\ turns'[Len(turns)] = x
  BY <1>1, <1>7, <1>8, TurnReplaced
<1>10. CallsCounted'
  BY <1>1, <1>7, <1>8, CallCounted
<1>11. ASSUME turns' = Called PROVE turns'[Len(turns)].outcome = "call_limit"
  <2> DEFINE y == [calls |-> row.calls + 1, outcome |-> "call_limit"]
  <2>1. y \in TurnRows /\ y.outcome = "call_limit"
    <3> HIDE DEF row
    <3> QED BY <1>3 DEF TurnRows
  <2>2. turns' = InTurn(y)
    BY <1>4, <1>5, <1>11, Zenon
  <2> HIDE DEF y
  <2> QED BY <1>1, <2>1, <2>2, TurnReplaced
<1> QED BY <1>1, <1>9, <1>10, <1>11

\* The model answers.
LEMMA RespondRecords ==
  ASSUME RecordInv, NEW r \in Responses, Respond(r), task' = task,
         Len(attempts') = Len(attempts) + 1
  PROVE  RecordInv'
<1> USE DEF RecordInv, LoopInv
<1>1. /\ SessionTypes /\ AtWork /\ TurnSoFar /\ CallsCounted /\ FinishedMeansFinished
      /\ at = "model" /\ Working /\ modelCalls' = modelCalls + 1 /\ usable' = usable
  BY Responded DEF Working
<1>2. /\ task' \in Tasks /\ history \in Seq(Messages) /\ Len(history) \in Nat
      /\ todo = 0 /\ outcome = "not_started" /\ usable = TRUE /\ Paired(history, 0)
  BY <1>1 DEF SessionTypes, AtWork
<1>3. ASSUME NEW c \in Nat, history' = Append(history, [role |-> "assistant", calls |-> c])
      PROVE  /\ history' \in Seq(Messages) /\ Paired(history', c)
             /\ history'[Len(history')] = [role |-> "assistant", calls |-> c]
  <2> DEFINE m == [role |-> "assistant", calls |-> c]
  <2>1. m \in Messages /\ m.role = "assistant" /\ m.calls = c
    BY DEF Messages
  <2> HIDE DEF m
  <2>2. history' = Append(history, m)
    BY <1>3 DEF m
  <2>3. Paired(Append(history, m), c)
    BY <1>2, <2>1, HistoryGrows
  <2>4. history' \in Seq(Messages) /\ history'[Len(history')] = m
    BY <1>2, <2>1, <2>2
  <2> QED BY <2>2, <2>3, <2>4 DEF m
<1>4. CASE /\ \E why \in {"empty_response", "assistant_finished"} :
                 turns' = InTurn([calls |-> turns[Turn].calls + 1, outcome |-> why])
           /\ history' = Append(history, [role |-> "assistant", calls |-> 0])
           /\ at' = "turn" /\ UNCHANGED <<outcome, todo>>
  <2>1. turns' \in Seq(TurnRows) /\ CallsCounted' /\ modelCalls' \in Nat
    BY <1>1, <1>4, CalledRow
  <2>2. /\ history' \in Seq(Messages) /\ Paired(history', 0)
        /\ history'[Len(history')] = [role |-> "assistant", calls |-> 0]
    BY <1>3, <1>4
  <2>3. SessionTypes'
    BY <1>2, <1>4, <2>1, <2>2 DEF SessionTypes
  <2>4. AtWork' /\ TurnSoFar' /\ FinishedMeansFinished'
    BY <1>1, <1>2, <1>4, <2>2 DEF AtWork, TurnSoFar, FinishedMeansFinished
  <2> QED BY <1>1, <1>2, <1>4, <2>1, <2>2, <2>3, <2>4
<1>5. CASE /\ turns' = Called /\ UNCHANGED <<history, todo>>
           /\ \E why : why # "finished" /\ Return(why)
  <2>1. turns' \in Seq(TurnRows) /\ CallsCounted' /\ modelCalls' \in Nat
    BY <1>1, <1>5, CalledRow
  <2>2. PICK why : why # "finished" /\ Return(why)
    BY <1>5
  <2>3. history' \in Seq(Messages) /\ todo' \in Nat
    BY <1>2, <1>5
  <2> QED BY <1>1, <1>2, <2>1, <2>2, <2>3, ReturnsOtherwise
<1>6. CASE \E c \in Nat :
              /\ c > 0 /\ history' = Append(history, [role |-> "assistant", calls |-> c])
              /\ turns' = Called /\ todo' = c /\ at' = "tool" /\ outcome' = outcome
  <2>1. PICK c \in Nat :
              /\ c > 0 /\ history' = Append(history, [role |-> "assistant", calls |-> c])
              /\ turns' = Called /\ todo' = c /\ at' = "tool" /\ outcome' = outcome
    BY <1>6
  <2>2. /\ turns' \in Seq(TurnRows) /\ CallsCounted' /\ modelCalls' \in Nat
        /\ Len(turns') = Len(turns) /\ Len(turns) > 0
        /\ turns'[Len(turns)].outcome = "call_limit"
    BY <1>1, <2>1, CalledRow
  <2>3. history' \in Seq(Messages) /\ Paired(history', c)
    BY <1>3, <2>1
  <2>4. SessionTypes'
    BY <1>2, <2>1, <2>2, <2>3 DEF SessionTypes
  <2>5. AtWork' /\ TurnSoFar' /\ FinishedMeansFinished'
    BY <1>1, <1>2, <2>1, <2>2 DEF AtWork, TurnSoFar, FinishedMeansFinished
  <2>6. Paired(history', todo')
    BY <2>1, <2>3
  <2> QED BY <1>1, <2>2, <2>4, <2>5, <2>6
<1> QED BY <1>1, <1>4, <1>5, <1>6, Responded

\* A tool's result is seen by the model.
LEMMA ToolObserved ==
  ASSUME SessionTypes, AtWork, at = "tool", Paired(history, todo), Observe
  PROVE  history' \in Seq(Messages) /\ todo' \in Nat /\ todo' = todo - 1 /\ Paired(history', todo')
<1> DEFINE m == [role |-> "tool"]
<1>1. m \in Messages /\ m.role = "tool"
  BY DEF Messages
<1>2. todo \in Nat /\ todo > 0 /\ history \in Seq(Messages)
  BY DEF SessionTypes, AtWork, Working
<1>3. todo' = todo - 1 /\ history' = Append(history, m)
  BY DEF Observe
<1> HIDE DEF m
<1>4. todo - 1 \in Nat
  BY <1>2
<1>5. Paired(Append(history, m), todo - 1)
  BY <1>1, <1>2, <1>4, HistoryGrows
<1> QED BY <1>1, <1>2, <1>3, <1>4, <1>5

\* The tool loop.
LEMMA ToolRecords ==
  ASSUME RecordInv, ToolSucceeds \/ ToolFails, task' = task, Len(attempts') = Len(attempts)
  PROVE  RecordInv'
<1> USE DEF RecordInv, LoopInv
<1>1. at = "tool" /\ Observe /\ UNCHANGED <<turns, modelCalls>>
  BY DEF ToolSucceeds, ToolFails
<1>2. Working /\ Paired(history, todo) /\ outcome = "not_started" /\ usable = TRUE
  BY <1>1 DEF Working, AtWork
<1>3. history' \in Seq(Messages) /\ todo' \in Nat /\ todo' = todo - 1 /\ Paired(history', todo')
  BY <1>1, <1>2, ToolObserved
<1>4. CallsCounted'
  BY <1>1 DEF CallsCounted, CallsOfTurns
<1>5. /\ task' \in Tasks /\ turns' \in Seq(TurnRows) /\ modelCalls' \in Nat /\ Len(turns') > 0
      /\ turns'[Len(turns')].outcome = "call_limit" /\ todo \in Nat /\ todo > 0
      /\ Len(attempts') = modelCalls'
  BY <1>1 DEF SessionTypes, TurnSoFar, AtWork, Working
<1>6. CASE ToolSucceeds
  <2>1. at' = (IF todo = 1 THEN "call" ELSE "tool") /\ UNCHANGED <<outcome, usable>>
    BY <1>6 DEF ToolSucceeds
  <2>2. SessionTypes'
    BY <1>3, <1>5, <2>1 DEF SessionTypes
  <2>3. AtWork'
    BY <1>2, <1>3, <1>5, <2>1 DEF AtWork
  <2>4. TurnSoFar'
    BY <1>5, <2>1 DEF TurnSoFar
  <2>5. FinishedMeansFinished'
    BY <1>2, <2>1 DEF FinishedMeansFinished
  <2> QED BY <1>3, <1>4, <1>5, <2>2, <2>3, <2>4, <2>5
<1>7. CASE ToolFails
  <2>1. PICK why \in {"tool_error", "tool_timeout", "tool_output_safety_limit"} : Return(why)
    BY <1>7 DEF ToolFails
  <2> QED BY <1>3, <1>4, <1>5, <2>1, ReturnsOtherwise
<1> QED BY <1>6, <1>7

\* The next user message goes out.
LEMMA NextTurnRecords ==
  ASSUME RecordInv, NextTurn, task' = task, Len(attempts') = Len(attempts)
  PROVE  RecordInv'
<1> USE DEF RecordInv, LoopInv
<1> DEFINE row == [calls |-> 0, outcome |-> "call_limit"]
           m == [role |-> "user"]
<1>1. /\ at = "turn" /\ turns' = Append(turns, row) /\ history' = Append(history, m) /\ at' = "call"
      /\ UNCHANGED <<outcome, modelCalls, todo, usable>>
  BY DEF NextTurn
<1>2. row \in TurnRows /\ row.calls = 0 /\ row.outcome = "call_limit" /\ m \in Messages /\ m.role = "user"
  BY DEF TurnRows, Messages
<1> HIDE DEF row, m
<1>3. /\ turns \in Seq(TurnRows) /\ history \in Seq(Messages) /\ todo = 0 /\ Paired(history, 0)
      /\ outcome = "not_started" /\ usable = TRUE
  BY <1>1 DEF SessionTypes, AtWork, Working
<1>4. /\ turns' \in Seq(TurnRows) /\ Len(turns') = Len(turns) + 1 /\ turns'[Len(turns) + 1] = row
      /\ Len(turns) \in Nat /\ DOMAIN turns = 1..Len(turns) /\ DOMAIN turns' = 1..(Len(turns) + 1)
      /\ \A t \in 1..Len(turns) : turns'[t] = turns[t]
  BY <1>1, <1>2, <1>3
<1>5. history' \in Seq(Messages) /\ Paired(history', 0)
  <2>1. Paired(Append(history, m), 0)
    BY <1>2, <1>3, HistoryGrows
  <2> QED BY <1>1, <1>2, <1>3, <2>1
<1>6. CallsCounted'
  <2> DEFINE n == Len(turns) + 1
  <2>1. CallsOfTurns' = CallsOfTurns
    <3>1. \A t \in DOMAIN turns : t \in DOMAIN turns' /\ turns'[t].calls = turns[t].calls
      BY <1>4
    <3>2. \A t \in DOMAIN turns' : t \in DOMAIN turns \/ 1..turns'[t].calls = {}
      <4> TAKE t \in DOMAIN turns'
      <4>1. CASE t = n
        BY <1>2, <1>4, <4>1
      <4>2. CASE t # n
        BY <1>4, <4>2
      <4> QED BY <4>1, <4>2
    <3>3. CallsOfTurns' = UNION {{t} \X (1..turns'[t].calls) : t \in DOMAIN turns'}
      BY DEF CallsOfTurns
    <3>4. ASSUME NEW p \in CallsOfTurns' PROVE p \in CallsOfTurns
      <4>1. PICK t \in DOMAIN turns' : p \in {t} \X (1..turns'[t].calls)
        BY <3>3
      <4>2. t \in DOMAIN turns
        BY <3>2, <4>1
      <4> QED BY <3>1, <4>1, <4>2 DEF CallsOfTurns
    <3>5. ASSUME NEW p \in CallsOfTurns PROVE p \in CallsOfTurns'
      <4>1. PICK t \in DOMAIN turns : p \in {t} \X (1..turns[t].calls)
        BY DEF CallsOfTurns
      <4> QED BY <3>1, <3>3, <4>1
    <3> QED BY <3>4, <3>5
  <2> QED BY <1>1, <2>1 DEF CallsCounted
<1>7. SessionTypes'
  BY <1>1, <1>4, <1>5 DEF SessionTypes
<1>8. AtWork' /\ FinishedMeansFinished'
  BY <1>1, <1>3 DEF AtWork, FinishedMeansFinished
<1>9. TurnSoFar'
  BY <1>1, <1>2, <1>4 DEF TurnSoFar
<1>10. Paired(history', todo')
  BY <1>1, <1>3, <1>5
<1> QED BY <1>1, <1>6, <1>7, <1>8, <1>9, <1>10

\* All turns came to an end: only then may the session say finished.
LEMMA TurnsDoneRecords ==
  ASSUME RecordInv, TurnsDone, task' = task, Len(attempts') = Len(attempts)
  PROVE  RecordInv'
<1> USE DEF RecordInv, LoopInv
<1>1. /\ at = "turn" /\ at' = "finally" /\ outcome' = FinalOutcome /\ Len(turns) = task.turns
      /\ UNCHANGED <<turns, modelCalls, history, todo, usable>>
  BY DEF TurnsDone, Return, loopVars, Turn
<1>2. SessionTypes' /\ AtWork' /\ ~Working' /\ TurnSoFar'
  BY <1>1 DEF SessionTypes, AtWork, Working, TurnSoFar
<1>3. CallsCounted'
  BY <1>1 DEF CallsCounted, CallsOfTurns
<1>4. ASSUME outcome' = "finished" PROVE FinishedMeansFinished'
  <2>1. \A t \in DOMAIN turns : turns[t].outcome = "assistant_finished"
    BY <1>1, <1>4 DEF FinalOutcome
  <2>2. turns \in Seq(TurnRows) /\ Len(turns) \in Nat /\ Len(turns) > 0
    BY <1>1, SessionConstants DEF SessionTypes
  <2>3. history[Len(history)] = [role |-> "assistant", calls |-> 0]
    <3>1. Len(turns) \in DOMAIN turns
      BY <2>2
    <3> QED BY <1>1, <2>1, <2>2, <3>1 DEF TurnSoFar
  <2>4. todo = 0 /\ usable /\ Paired(history, 0)
    BY <1>1 DEF AtWork, Working
  <2>5. Answered
    BY <2>4, PairedIsAnswered
  <2> QED BY <1>1, <2>1, <2>3, <2>4, <2>5 DEF FinishedMeansFinished, Answered
<1>5. FinishedMeansFinished'
  BY <1>4 DEF FinishedMeansFinished
<1> QED BY <1>1, <1>2, <1>3, <1>5

\* Every step of a session keeps its records.
LEMMA NextRecords == IInv /\ IInv' /\ RecordInv /\ [SessionNext]_allVars => RecordInv'
<1> SUFFICES ASSUME IInv, IInv', RecordInv, [SessionNext]_allVars PROVE RecordInv'
  OBVIOUS
<1> DEFINE Counts == \E issue \in BOOLEAN : AfterResponse(issue)
<1>1. /\ Counts => Len(attempts') = Len(attempts) + 1
      /\ ~Counts => Len(attempts') = Len(attempts)
  BY SessionStepsPolicy, RowsCounted
<1>2. ASSUME UNCHANGED attempts PROVE Len(attempts') = Len(attempts)
  BY <1>2
<1>3. ASSUME NEW r \in Responses, Respond(r), task' = task PROVE RecordInv'
  <2>1. Counts
    <3>1. AfterResponse(Issue(r) # "none") /\ (Issue(r) # "none") \in BOOLEAN
      BY <1>3 DEF Respond
    <3> QED BY <3>1
  <2> QED BY <1>1, <1>3, <2>1, RespondRecords
<1>4. ASSUME CancelModelCall, task' = task PROVE RecordInv'
  <2>1. Counts /\ at = "model" /\ modelCalls' = modelCalls + 1 /\ turns' = Called
        /\ Return("controller_stop") /\ UNCHANGED <<history, todo>>
    BY <1>4 DEF CancelModelCall
  <2>2. turns' \in Seq(TurnRows) /\ CallsCounted' /\ modelCalls' \in Nat
    BY <2>1, CalledRow DEF RecordInv, LoopInv
  <2>3. /\ Len(attempts') = modelCalls' /\ task' \in Tasks
        /\ history' \in Seq(Messages) /\ todo' \in Nat
    BY <1>1, <1>4, <2>1 DEF RecordInv, LoopInv, SessionTypes
  <2> QED BY <2>1, <2>2, <2>3, ReturnsOtherwise
<1>5. ASSUME StopBeforeCall \/ CancelTool, task' = task PROVE RecordInv'
  <2>1. PICK why \in {"session_timeout", "context_budget_stop", "session_error", "controller_stop"} :
          Return(why)
    BY <1>5 DEF StopBeforeCall, CancelTool
  <2>2. UNCHANGED <<attempts, turns, modelCalls, history, todo>>
    BY <1>5 DEF StopBeforeCall, CancelTool, loopVars, vars, policyVars
  <2>3. CallsCounted'
    BY <2>2 DEF CallsCounted, CallsOfTurns, RecordInv
  <2>4. /\ Len(attempts') = modelCalls' /\ task' \in Tasks /\ turns' \in Seq(TurnRows)
        /\ history' \in Seq(Messages) /\ todo' \in Nat /\ modelCalls' \in Nat
    BY <1>5, <2>2 DEF RecordInv, LoopInv, SessionTypes
  <2> QED BY <2>1, <2>3, <2>4, ReturnsOtherwise
<1>6. ASSUME NextTurn \/ TurnsDone \/ ToolSucceeds \/ ToolFails, task' = task PROVE RecordInv'
  <2>1. attempts' = attempts
    BY <1>6 DEF NextTurn, TurnsDone, ToolSucceeds, ToolFails, vars, policyVars
  <2> QED BY <1>2, <1>6, <2>1, NextTurnRecords, TurnsDoneRecords, ToolRecords
<1>7. ASSUME Dispatch, task' = task PROVE RecordInv'
  <2>1. /\ at = "call" /\ at' = "model"
        /\ UNCHANGED <<turns, modelCalls, history, todo, outcome, usable>>
    BY <1>7 DEF Dispatch, MayCall, loopVars
  <2>2. ~Counts
    BY <1>7 DEF Dispatch, BeforeDispatch, AfterResponse
  <2> QED BY <1>1, <1>7, <2>1, <2>2, LoopStands
<1>8. ASSUME CallLimit \/ StartDrain \/ Flush \/ Persist \/ PersistRaises \/ CancelFinally \/ Expire,
             task' = task
      PROVE RecordInv'
  <2>1. attempts' = attempts
    BY <1>8 DEF CallLimit, StartDrain, DrainStart, Flush, Persist, PersistRaises, CancelFinally, Expire,
       vars, policyVars
  <2>2. UNCHANGED <<turns, modelCalls, history, todo, outcome, usable>>
    BY <1>8 DEF CallLimit, StartDrain, Flush, Persist, PersistRaises, CancelFinally, Expire, loopVars
  <2>3. \/ at' = at
        \/ at' \notin {"turn", "call", "model", "tool"}
        \/ at = "call" /\ at' \in {"model", "turn"}
    BY <1>8 DEF CallLimit, StartDrain, Flush, Persist, PersistRaises, CancelFinally, Expire
  <2> QED BY <1>2, <1>8, <2>1, <2>2, <2>3, LoopStands
<1>9. ASSUME Draining \/ (Background /\ UNCHANGED sessionVars) \/ UNCHANGED allVars PROVE RecordInv'
  <2>1. UNCHANGED sessionVars
    BY <1>9 DEF Draining, allVars
  <2>2. UNCHANGED <<task, turns, modelCalls, history, todo, outcome, usable, at>>
    BY <2>1 DEF sessionVars, loopVars
  <2>3. Len(attempts') = Len(attempts)
    <3>1. CASE UNCHANGED attempts
      BY <1>2, <3>1
    <3>2. CASE ~(UNCHANGED attempts)
      <4>1. Background
        BY <1>9, <3>2 DEF Draining, DrainCancel, DrainReport, allVars, vars, policyVars
      <4>2. foreground' = foreground
        BY <4>1 DEF Background, JobStep, CancelledBeforeStart, Predict, Predicted,
         CancelledPredicting, Transported, TransportStops, TransportStopped, TransportOver,
         CpuEnds, WriteEnds
      <4>3. ~Counts
        BY <4>2 DEF AfterResponse
      <4> QED BY <1>1, <4>3
    <3> QED BY <3>1, <3>2
  <2> QED BY <2>2, <2>3, LoopStands
<1> QED BY <1>3, <1>4, <1>5, <1>6, <1>7, <1>8, <1>9 DEF SessionNext, Body

\* For any tasks, whatever the model, the tools and the controller do: the
\* history a request carries has every tool call answered right after it,
\* every model call has one attempt row and is counted in its turn, and a
\* session says finished only when every turn ended with an answer.
THEOREM SessionTellsWhatHappened == SessionSpec => []SessionRecordsAgree
<1>1. SessionInit => IInv /\ RecordInv
  <2> SUFFICES ASSUME SessionInit PROVE IInv /\ RecordInv OBVIOUS
  <2>1. IInv
    BY InitIInv DEF SessionInit
  <2>2. /\ task \in Tasks /\ at = "turn" /\ turns = <<>> /\ outcome = "not_started" /\ modelCalls = 0
        /\ todo = 0 /\ usable = TRUE /\ attempts = <<>> /\ history = <<[role |-> "system"]>>
    BY DEF SessionInit, Init
  <2>3. history \in Seq(Messages)
    <3> DEFINE m == [role |-> "system"]
    <3>1. m \in Messages
      BY DEF Messages
    <3> HIDE DEF m
    <3>2. <<m>> \in Seq(Messages)
      BY <3>1
    <3> QED BY <2>2, <3>2 DEF m
  <2>4. SessionTypes
    BY <2>2, <2>3 DEF SessionTypes
  <2>5. AtWork /\ TurnSoFar /\ FinishedMeansFinished
    BY <2>2 DEF AtWork, TurnSoFar, FinishedMeansFinished
  <2>6. Paired(history, todo)
    BY <2>2 DEF Paired
  <2>7. CallsCounted
    <3>1. CallsOfTurns = {}
      BY <2>2 DEF CallsOfTurns
    <3> QED BY <2>2, <3>1, FS_EmptySet DEF CallsCounted
  <2> QED BY <2>1, <2>2, <2>4, <2>5, <2>6, <2>7 DEF RecordInv, LoopInv
<1>2. IInv /\ RecordInv /\ [SessionNext]_allVars => (IInv /\ RecordInv)'
  BY SessionStepsPolicy, NextKeeps, NextRecords
<1>3. RecordInv => SessionRecordsAgree
  <2> SUFFICES ASSUME RecordInv PROVE SessionRecordsAgree OBVIOUS
  <2>1. ASSUME at \in {"turn", "call", "model"} PROVE Answered
    <3>1. todo = 0 /\ Paired(history, 0) /\ SessionTypes
      BY <2>1 DEF RecordInv, LoopInv, AtWork, Working
    <3> QED BY <3>1, PairedIsAnswered
  <2> QED BY <2>1 DEF SessionRecordsAgree, HistoryAnswered, OneAttemptPerCall, RecordInv, CallsCounted
<1> QED BY <1>1, <1>2, <1>3, PTL DEF SessionSpec
=============================================================================
