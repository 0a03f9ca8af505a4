-------------------------- MODULE StudyRunnerProofs --------------------------
(***************************************************************************)
(* Theorems about the study drivers, for any number of tasks and attempts, *)
(* wherever a driver fails, is interrupted or is killed.                   *)
(***************************************************************************)
EXTENDS StudyRunner, SequenceTheorems, TLAPS

(***************************************************************************)
(* The inductive invariant.  Stop is where the driver is, or will be once  *)
(* the save it is in is done.                                              *)
(***************************************************************************)
Saving == pc \in {"save", "replace"}
Stop == IF Saving THEN after ELSE pc

TypeInv ==
    /\ runner \in {"retention", "pilot", "replay"}
    /\ Stop \in {"planned", "prepare", "oracle", "checked", "attempt", "launch", "job",
                 "export", "report", "leave", "over"}
    /\ Saving => after \in {"planned", "prepare", "oracle", "checked", "attempt", "launch",
                            "report", "leave"}
    /\ manifest \in Manifests
    /\ disk \in Manifests \cup {None}
    /\ jobs = [i \in 1..Planned |-> jobs[i]]

(* What is on disk, and what is about to be, are prefixes of the study. *)
Extends(new, old) ==
    \A i \in DOMAIN old.runs :
        /\ i \in DOMAIN new.runs
        /\ old.runs[i].status # "running" => new.runs[i] = old.runs[i]

SaveInv ==
    /\ pc = "replace" => pending = manifest
    /\ pc \in {"launch", "job", "export", "report", "leave"} => disk = manifest
    /\ disk # None => /\ Extends(manifest, disk)
                      /\ disk.runs # <<>> => disk.preflight = manifest.preflight
    /\ manifest.state \in OverStates => Stop \in {"report", "leave", "over"}
    /\ (disk # None /\ disk.state \in OverStates) => pc \in {"report", "leave", "over"}

(* A finished row says what its process left; a started process has a row. *)
Truthful(i) ==
    Runs[i].status = "finished" =>
        /\ jobs[i] \in Outcomes /\ ~jobs[i].broken
        /\ Runs[i].result = ExportRun(jobs[i])

JobInv ==
    /\ Current =< Planned
    /\ \A i \in DOMAIN Runs : Truthful(i)
    /\ \A i \in 1..Planned : jobs[i] # NotStarted => i \in DOMAIN SavedRuns
    /\ pc = "export" => jobs[Current] \in Outcomes

(* The rows by position: finished ones, then at most the one at work. *)
RowInv ==
    /\ Stop \in {"planned", "prepare", "oracle", "checked"} => Runs = <<>>
    /\ Stop = "attempt" => \A i \in DOMAIN Runs : Runs[i].status = "finished"
    /\ Stop \in {"launch", "job", "export"} =>
          /\ Current > 0 /\ Runs[Current].status = "running"
          /\ \A i \in DOMAIN Runs : i # Current => Runs[i].status = "finished"

(* No attempt before every oracle has passed. *)
OraclesPassed == Len(manifest.preflight) = Tasks /\ Preflight

PreflightInv ==
    /\ Len(manifest.preflight) =< Tasks
    /\ Stop \in {"planned", "prepare"} => manifest.preflight = <<>>
    /\ runner = "replay" => Stop \notin {"prepare", "oracle", "checked"}
    /\ (runner = "pilot" /\ Stop = "oracle") => Preflight
    /\ (runner # "replay" /\ (Runs # <<>> \/ Stop \in {"attempt", "launch", "job", "export"}))
          => OraclesPassed

(* A return value of success stands for a whole study. *)
Whole ==
    /\ manifest.state = "finished" /\ Current = Planned
    /\ \A i \in DOMAIN Runs :
          /\ Runs[i].status = "finished"
          /\ ~Runs[i].result.exception /\ Runs[i].result.reward # None
          /\ runner = "pilot" => Runs[i].result.trace

ExitInv ==
    /\ (Stop \in {"report", "leave"} /\ code = "success" /\ mode = "run") => Whole
    /\ exit = "success" => pc = "over"
    /\ (exit = "success" /\ mode = "run") => disk = manifest /\ Whole

IInv == TypeInv /\ SaveInv /\ JobInv /\ RowInv /\ PreflightInv /\ ExitInv

(***************************************************************************)
(* The manifest                                                            *)
(***************************************************************************)

\* A manifest is made of its three parts.
LEMMA ManifestParts ==
  ASSUME NEW m \in Manifests
  PROVE  /\ m.state \in States /\ m.preflight \in Seq(Results) /\ m.runs \in Seq(RunRows)
         /\ DOMAIN m.runs = 1..Len(m.runs) /\ Len(m.runs) \in Nat
         /\ Len(m.preflight) \in Nat /\ DOMAIN m.preflight = 1..Len(m.preflight)
<1>1. m.state \in States /\ m.preflight \in Seq(Results) /\ m.runs \in Seq(RunRows)
  BY DEF Manifests
<1> QED BY <1>1, LenProperties

\* A new state leaves results and rows alone.
LEMMA StateSet ==
  ASSUME manifest \in Manifests, NEW state \in States
  PROVE  /\ SetState(state) \in Manifests /\ SetState(state).state = state
         /\ SetState(state).runs = manifest.runs
         /\ SetState(state).preflight = manifest.preflight
  BY DEF SetState, Manifests

\* What an oracle or an attempt leaves is a result.
LEMMA ExportResult ==
  ASSUME NEW job \in Outcomes, ~job.broken
  PROVE  ExportRun(job) \in Results
<1>1. CASE job.trial
  <2>1. job \in Trials \cup {Clean}
    <3>1. job \in Trials \cup {Clean, Lost, [Clean EXCEPT !.broken = TRUE]}
      BY DEF Outcomes
    <3>2. ~Lost.trial /\ [Clean EXCEPT !.broken = TRUE].broken
      BY DEF Lost, Clean
    <3> QED BY <1>1, <3>1, <3>2
  <2>2. job.reward \in {0, 1, None} /\ job.trace \in BOOLEAN
    <3>1. CASE job \in Trials
      <4>1. job.reward \in {0, 1, None}
        BY <3>1 DEF Trials
      <4>2. job.trace \in BOOLEAN
        BY <3>1 DEF Trials
      <4> QED BY <4>1, <4>2
    <3>2. CASE job = Clean
      <4>1. job.reward = 1 /\ job.trace = TRUE
        BY <3>2 DEF Clean
      <4> QED BY <4>1
    <3> QED BY <2>1, <3>1, <3>2
  <2>3. (job.exception \/ job.code # 0) \in BOOLEAN
    OBVIOUS
  <2> QED BY <1>1, <2>2, <2>3 DEF ExportRun, Results
<1>2. CASE ~job.trial
  BY <1>2 DEF ExportRun, Results
<1> QED BY <1>1, <1>2

\* What may come out of an attempt depends on the driver only.
LEMMA OutcomesFixed == runner' = runner => Outcomes' = Outcomes
  BY DEF Outcomes

(***************************************************************************)
(* The steps of the plan: no row, file, process or exit changes, and the   *)
(* driver does not yet say that the study is over.                         *)
(***************************************************************************)
PlanStep ==
    /\ pc \in {"planned", "prepare", "oracle", "checked", "attempt"}
    /\ UNCHANGED <<runner, mode, disk, jobs, exit>>
    /\ manifest' \in Manifests
    /\ manifest'.runs = manifest.runs
    /\ manifest'.preflight = manifest.preflight \/ Runs = <<>>
    /\ pc' \in {"save", "prepare", "oracle", "attempt"}
    /\ pc' = "save" => after' \in {"prepare", "oracle", "checked", "attempt", "report", "leave"}
    /\ manifest'.state \in OverStates => pc' = "save" /\ after' \in {"report", "leave"}

\* Such a step keeps the invariant up to rows, preflight and exit.
LEMMA PlanStepKeeps ==
  ASSUME IInv, PlanStep
  PROVE  TypeInv' /\ SaveInv' /\ JobInv' /\ (exit' # "success")
<1> USE DEF IInv, PlanStep
<1>1. TypeInv'
  BY DEF TypeInv, Stop, Saving
<1>2. manifest.runs = <<>> /\ disk # None => disk.runs = <<>>
  <2> SUFFICES ASSUME manifest.runs = <<>>, disk # None PROVE disk.runs = <<>>
    OBVIOUS
  <2>1. disk \in Manifests /\ Extends(manifest, disk)
    BY DEF TypeInv, SaveInv
  <2>2. DOMAIN disk.runs = 1..Len(disk.runs) /\ Len(disk.runs) \in Nat
        /\ disk.runs \in Seq(RunRows)
    BY <2>1, ManifestParts
  <2>3. DOMAIN manifest.runs = {}
    OBVIOUS
  <2>4. 1 \notin DOMAIN disk.runs
    BY <2>1, <2>3 DEF Extends
  <2>5. Len(disk.runs) = 0
    BY <2>2, <2>4
  <2> QED BY <2>2, <2>5, EmptySeq
<1>3. SaveInv'
  <2>1. disk' # None => Extends(manifest', disk')
    BY DEF SaveInv, Extends
  <2>2. disk' # None /\ disk'.runs # <<>> => disk'.preflight = manifest'.preflight
    BY <1>2 DEF SaveInv, Runs
  <2> QED BY <2>1, <2>2 DEF SaveInv, Stop, Saving
<1>4. JobInv'
  BY OutcomesFixed DEF JobInv, Truthful, Runs, Current, SavedRuns
<1> QED BY <1>1, <1>3, <1>4 DEF ExitInv

\* The first state of the work, and the snapshots.
LEMMA StartKeeps ==
  ASSUME IInv, Start \/ Prepare
  PROVE  IInv'
<1>0. manifest \in Manifests /\ runner \in {"retention", "pilot", "replay"}
      /\ (manifest.state \in OverStates => Stop \in {"report", "leave", "over"})
  BY DEF IInv, TypeInv, SaveInv
<1>1. /\ PlanStep /\ pc \in {"planned", "prepare"} /\ manifest'.preflight = manifest.preflight
      /\ Stop' \in {"prepare", "oracle", "attempt"}
      /\ runner = "replay" => Stop' = "attempt"
      /\ runner # "replay" => Stop' # "attempt"
      /\ Stop' = "oracle" => pc = "prepare"
  <2>1. CASE Start
    <3>1. /\ pc = "planned" /\ UNCHANGED <<runner, mode, disk, jobs, exit>>
          /\ manifest.state \notin OverStates
      BY <1>0, <2>1 DEF Start, files, Stop, Saving
    <3>2. CASE runner = "retention"
      <4>1. manifest' = SetState("preparing") /\ SaveThen("prepare")
        BY <2>1, <3>2 DEF Start
      <4>2. /\ manifest' \in Manifests /\ manifest'.state = "preparing"
            /\ manifest'.runs = manifest.runs /\ manifest'.preflight = manifest.preflight
        BY <1>0, <4>1, StateSet DEF States
      <4> QED BY <3>1, <3>2, <4>1, <4>2 DEF SaveThen, PlanStep, Stop, Saving, OverStates
    <3>3. CASE runner = "pilot"
      <4>1. manifest' = manifest /\ Goto("prepare")
        BY <2>1, <3>3 DEF Start
      <4> QED BY <1>0, <3>1, <3>3, <4>1 DEF Goto, PlanStep, Stop, Saving
    <3>4. CASE runner = "replay"
      <4>1. manifest' = SetState("running") /\ Goto("attempt")
        BY <2>1, <3>4 DEF Start
      <4>2. /\ manifest' \in Manifests /\ manifest'.state = "running"
            /\ manifest'.runs = manifest.runs /\ manifest'.preflight = manifest.preflight
        BY <1>0, <4>1, StateSet DEF States
      <4> QED BY <3>1, <3>4, <4>1, <4>2 DEF Goto, PlanStep, Stop, Saving, OverStates
    <3> QED BY <1>0, <3>2, <3>3, <3>4
  <2>2. CASE Prepare
    <3>1. /\ pc = "prepare" /\ UNCHANGED <<runner, mode, disk, jobs, exit>> /\ SaveThen("oracle")
          /\ manifest' \in {manifest, SetState("preflight")}
          /\ manifest.state \notin OverStates
      BY <1>0, <2>2 DEF Prepare, files, Stop, Saving
    <3>2. runner # "replay"
      BY <3>1 DEF IInv, PreflightInv, Stop, Saving
    <3>3. /\ manifest' \in Manifests /\ manifest'.runs = manifest.runs
          /\ manifest'.preflight = manifest.preflight /\ manifest'.state \notin OverStates
      BY <1>0, <3>1, StateSet DEF States, OverStates
    <3> QED BY <3>1, <3>2, <3>3 DEF SaveThen, PlanStep, Stop, Saving
  <2> QED BY <2>1, <2>2
<1>2. TypeInv' /\ SaveInv' /\ JobInv' /\ (exit' # "success")
  BY <1>1, PlanStepKeeps
<1>3. Runs = <<>> /\ Runs' = <<>> /\ DOMAIN Runs' = {}
  <2>1. Runs = <<>>
    BY <1>1 DEF IInv, RowInv, Stop, Saving
  <2> QED BY <1>1, <2>1 DEF PlanStep, Runs
<1>4. RowInv'
  BY <1>1, <1>3 DEF RowInv
<1>5. PreflightInv'
  <2>1. runner' = runner
    BY <1>1 DEF PlanStep
  <2>2. manifest'.preflight = <<>> /\ Len(manifest'.preflight) =< Tasks
    BY <1>1 DEF IInv, PreflightInv, Stop, Saving
  <2>3. Preflight'
    BY <2>2 DEF Preflight
  <2> QED BY <1>1, <1>3, <2>1, <2>2, <2>3 DEF PreflightInv
<1>6. ExitInv'
  BY <1>1, <1>2 DEF ExitInv
<1> QED BY <1>2, <1>4, <1>5, <1>6 DEF IInv

\* The oracle of a task has run.
LEMMA OracleKeeps ==
  ASSUME IInv, Oracle
  PROVE  IInv'
<1>0. /\ manifest \in Manifests /\ runner \in {"retention", "pilot", "replay"}
      /\ runner # "replay" /\ Runs = <<>> /\ manifest.state \notin OverStates
      /\ pc = "oracle"
  BY DEF Oracle, IInv, TypeInv, SaveInv, RowInv, PreflightInv, Stop, Saving
<1>1. /\ manifest' \in Manifests /\ manifest'.runs = manifest.runs
      /\ manifest'.state = manifest.state
      /\ Len(manifest'.preflight) =< Tasks
  <2>1. PICK job \in Outcomes :
          /\ ~job.broken
          /\ manifest' = [manifest EXCEPT !.preflight = Append(@, ExportRun(job))]
    BY DEF Oracle
  <2>2. ExportRun(job) \in Results
    BY <2>1, ExportResult
  <2>3. PICK passed : passed = Append(manifest.preflight, ExportRun(job))
    OBVIOUS
  <2>4. manifest.preflight \in Seq(Results) /\ Len(manifest.preflight) \in Nat
    BY <1>0, ManifestParts
  <2>5. passed \in Seq(Results) /\ Len(passed) = Len(manifest.preflight) + 1
    BY <2>2, <2>3, <2>4, AppendProperties
  <2>6. manifest' = [manifest EXCEPT !.preflight = passed]
    BY <2>1, <2>3
  <2>7. /\ manifest' \in Manifests /\ manifest'.runs = manifest.runs
        /\ manifest'.state = manifest.state /\ manifest'.preflight = passed
    BY <1>0, <2>5, <2>6 DEF Manifests
  <2>8. Len(manifest.preflight) < Tasks
    BY DEF Oracle
  <2> QED BY <2>4, <2>5, <2>7, <2>8, StudyAssumption
<1>2. /\ UNCHANGED <<runner, mode, disk, jobs, exit, code>>
      /\ SaveThen(IF runner = "pilot" THEN "checked" ELSE "oracle")
  BY DEF Oracle, files
<1>3. /\ PlanStep /\ Stop' \in {"checked", "oracle"} /\ (runner = "pilot" => Stop' = "checked")
  BY <1>0, <1>1, <1>2 DEF SaveThen, PlanStep, Stop, Saving
<1>4. TypeInv' /\ SaveInv' /\ JobInv' /\ (exit' # "success")
  BY <1>3, PlanStepKeeps
<1>5. Runs' = <<>>
  BY <1>0, <1>1 DEF Runs
<1>6. RowInv'
  BY <1>3, <1>5 DEF RowInv
<1>7. PreflightInv'
  BY <1>0, <1>1, <1>2, <1>3, <1>5 DEF PreflightInv
<1>8. ExitInv'
  BY <1>3, <1>4 DEF ExitInv
<1> QED BY <1>4, <1>6, <1>7, <1>8 DEF IInv

\* The pilot looks at an oracle's result at once.
LEMMA OracleCheckedKeeps ==
  ASSUME IInv, OracleChecked
  PROVE  IInv'
<1>0. /\ manifest \in Manifests /\ runner # "replay" /\ Runs = <<>>
      /\ manifest.state \notin OverStates /\ pc = "checked" /\ Len(manifest.preflight) =< Tasks
      /\ UNCHANGED <<runner, mode, disk, jobs, exit>>
  BY DEF OracleChecked, files, IInv, TypeInv, SaveInv, RowInv, PreflightInv, Stop, Saving
<1>1. /\ manifest' \in Manifests /\ manifest'.runs = manifest.runs
      /\ manifest'.preflight = manifest.preflight
      /\ \/ Preflight /\ pc' = "oracle" /\ manifest'.state \notin OverStates
         \/ pc' = "save" /\ after' = "report" /\ code' = "failure"
  <2>1. CASE Preflight
    BY <1>0, <2>1 DEF OracleChecked, Goto
  <2>2. CASE ~Preflight
    <3>1. manifest' = SetState("preflight_failed") /\ SaveThen("report") /\ code' = "failure"
      BY <2>2 DEF OracleChecked
    <3> QED BY <1>0, <3>1, StateSet DEF SaveThen, States, OverStates
  <2> QED BY <2>1, <2>2
<1>2. PlanStep /\ Stop' \in {"oracle", "report"} /\ (Stop' = "oracle" => Preflight)
      /\ (Stop' = "report" => code' # "success")
  BY <1>0, <1>1 DEF PlanStep, Stop, Saving
<1>3. TypeInv' /\ SaveInv' /\ JobInv' /\ (exit' # "success")
  BY <1>2, PlanStepKeeps
<1>4. Runs' = <<>> /\ Preflight' = Preflight
  BY <1>0, <1>1 DEF Runs, Preflight, Passed
<1>5. RowInv' /\ PreflightInv' /\ ExitInv'
  BY <1>0, <1>1, <1>2, <1>3, <1>4 DEF RowInv, PreflightInv, ExitInv
<1> QED BY <1>3, <1>5 DEF IInv

\* The preflight is over: on to the attempts, or to the end.
LEMMA PreflightOverKeeps ==
  ASSUME IInv, PreflightOver
  PROVE  IInv'
<1>0. /\ manifest \in Manifests /\ runner # "replay" /\ Runs = <<>>
      /\ pc = "oracle" /\ Len(manifest.preflight) = Tasks
      /\ (runner = "pilot" => Preflight)
      /\ UNCHANGED <<runner, mode, disk, jobs, exit>>
  BY DEF PreflightOver, files, IInv, TypeInv, RowInv, PreflightInv, Stop, Saving
<1>1. /\ manifest' \in Manifests /\ manifest'.runs = manifest.runs
      /\ manifest'.preflight = manifest.preflight
      /\ \/ /\ Preflight /\ manifest'.state = "running"
            /\ pc' = "attempt" \/ (pc' = "save" /\ after' = "attempt")
         \/ pc' = "save" /\ after' = "leave" /\ (code' = "failure" \/ mode = "check")
  <2>1. CASE runner = "pilot"
    <3>1. manifest' = SetState("running") /\ Goto("attempt")
      BY <2>1 DEF PreflightOver
    <3> QED BY <1>0, <2>1, <3>1, StateSet DEF Goto, States
  <2>2. CASE runner # "pilot" /\ ~Preflight
    <3>1. manifest' = SetState("preflight_failed") /\ SaveThen("leave") /\ code' = "failure"
      BY <2>2 DEF PreflightOver
    <3> QED BY <1>0, <3>1, StateSet DEF SaveThen, States, OverStates
  <2>3. CASE runner # "pilot" /\ Preflight /\ mode = "check"
    <3>1. manifest' = SetState("preflight_passed") /\ SaveThen("leave")
      BY <2>3 DEF PreflightOver
    <3> QED BY <1>0, <2>3, <3>1, StateSet DEF SaveThen, States, OverStates
  <2>4. CASE runner # "pilot" /\ Preflight /\ mode # "check"
    <3>1. manifest' = SetState("running") /\ SaveThen("attempt")
      BY <2>4 DEF PreflightOver
    <3> QED BY <1>0, <2>4, <3>1, StateSet DEF SaveThen, States
  <2> QED BY <2>1, <2>2, <2>3, <2>4
<1>2. PlanStep /\ Stop' \in {"attempt", "leave"} /\ (Stop' = "attempt" => Preflight)
      /\ (Stop' = "leave" => code' # "success" \/ mode' = "check")
  BY <1>0, <1>1 DEF PlanStep, Stop, Saving, OverStates
<1>3. TypeInv' /\ SaveInv' /\ JobInv' /\ (exit' # "success")
  BY <1>2, PlanStepKeeps
<1>4. Runs' = <<>> /\ DOMAIN Runs' = {} /\ Preflight' = Preflight
  BY <1>0, <1>1 DEF Runs, Preflight, Passed
<1>5. RowInv' /\ ExitInv'
  BY <1>2, <1>3, <1>4 DEF RowInv, ExitInv
<1>6. PreflightInv'
  BY <1>0, <1>1, <1>2, <1>4, StudyAssumption DEF PreflightInv, OraclesPassed
<1> QED BY <1>3, <1>5, <1>6 DEF IInv

\* A success is only returned for rows that all ended well.
LEMMA SuccessMeansWell ==
  ASSUME IInv, Stop = "attempt", ExitCode = "success", NEW i \in DOMAIN Runs
  PROVE  /\ ~Runs[i].result.exception /\ Runs[i].result.reward # None
         /\ runner = "pilot" => Runs[i].result.trace
<1>1. CASE runner # "replay"
  <2>1. ~(\E k \in DOMAIN Runs :
             \/ Runs[k].result.exception \/ Runs[k].result.reward = None
             \/ runner = "pilot" /\ ~Runs[k].result.trace)
    BY <1>1 DEF ExitCode
  <2> QED BY <2>1
<1>2. CASE runner = "replay"
  <2>1. Runs[i].status = "finished" /\ Truthful(i)
    BY DEF IInv, RowInv, JobInv
  <2>2. jobs[i] = Clean /\ Runs[i].result = ExportRun(jobs[i])
    BY <1>2, <2>1 DEF Truthful, Outcomes
  <2>3. Clean.trial /\ Clean.reward = 1 /\ ~Clean.exception /\ Clean.code = 0
    BY DEF Clean
  <2>4. Runs[i].result = [reward |-> 1, exception |-> FALSE, trace |-> Clean.trace]
    BY <2>2, <2>3 DEF ExportRun
  <2>5. ~Runs[i].result.exception /\ Runs[i].result.reward = 1
    BY <2>4
  <2> QED BY <1>2, <2>5, StudyAssumption
<1> QED BY <1>1, <1>2

\* The attempts are over.
LEMMA AttemptsOverKeeps ==
  ASSUME IInv, AttemptsOver
  PROVE  IInv'
<1>0. /\ manifest \in Manifests /\ pc = "attempt" /\ Stop = "attempt" /\ Current = Planned
      /\ \A i \in DOMAIN Runs : Runs[i].status = "finished"
      /\ UNCHANGED <<runner, mode, disk, jobs, exit>>
      /\ manifest' = SetState("finished") /\ SaveThen("report") /\ code' = ExitCode
  BY DEF AttemptsOver, files, IInv, TypeInv, RowInv, Stop, Saving
<1>1. /\ manifest' \in Manifests /\ manifest'.runs = manifest.runs
      /\ manifest'.preflight = manifest.preflight /\ manifest'.state = "finished"
  BY <1>0, StateSet DEF States, OverStates
<1>2. PlanStep /\ Stop' = "report"
  BY <1>0, <1>1 DEF PlanStep, SaveThen, Stop, Saving
<1>3. TypeInv' /\ SaveInv' /\ JobInv' /\ (exit' # "success")
  BY <1>2, PlanStepKeeps
<1>4. Runs' = Runs /\ Current' = Current /\ Preflight' = Preflight
  BY <1>1 DEF Runs, Current, Preflight, Passed
<1>5. RowInv'
  BY <1>2 DEF RowInv
<1>6. PreflightInv'
  BY <1>0, <1>1, <1>2, <1>4 DEF IInv, PreflightInv, OraclesPassed
<1>7. ExitInv'
  <2> SUFFICES ASSUME ExitCode = "success" PROVE Whole'
    BY <1>0, <1>3 DEF ExitInv
  <2>1. \A i \in DOMAIN Runs : /\ ~Runs[i].result.exception /\ Runs[i].result.reward # None
                               /\ runner = "pilot" => Runs[i].result.trace
    BY <1>0, SuccessMeansWell
  <2> QED BY <1>0, <1>1, <1>4, <2>1 DEF Whole
<1> QED BY <1>3, <1>5, <1>6, <1>7 DEF IInv

(***************************************************************************)
(* The attempts                                                            *)
(***************************************************************************)

\* The row of the next attempt is added, not yet saved.
LEMMA AttemptKeeps ==
  ASSUME IInv, Attempt
  PROVE  IInv'
<1>0. /\ manifest \in Manifests /\ pc = "attempt" /\ Current < Planned
      /\ \A i \in DOMAIN Runs : Runs[i].status = "finished"
      /\ UNCHANGED <<runner, mode, disk, jobs, exit>>
      /\ pc' = "save" /\ after' = "launch"
      /\ manifest.state \notin OverStates /\ (disk # None => disk.state \notin OverStates)
      /\ exit # "success"
  BY DEF Attempt, SaveThen, files, IInv, TypeInv, SaveInv, RowInv, ExitInv, Stop, Saving
<1>1. /\ manifest' \in Manifests /\ manifest'.state = manifest.state
      /\ manifest'.preflight = manifest.preflight
      /\ Len(manifest'.runs) = Len(Runs) + 1
      /\ \A i \in 1..Len(Runs) : manifest'.runs[i] = Runs[i]
      /\ manifest'.runs[Len(Runs) + 1].status = "running"
  <2>1. PICK rows : rows = Append(Runs, Row("running", Unfinished))
    OBVIOUS
  <2>2. Runs \in Seq(RunRows) /\ Len(Runs) \in Nat
    BY <1>0, ManifestParts DEF Runs
  <2>3. Row("running", Unfinished) \in RunRows /\ Row("running", Unfinished).status = "running"
    BY DEF Row, Unfinished, RunRows, Results
  <2>4. /\ rows \in Seq(RunRows) /\ Len(rows) = Len(Runs) + 1
        /\ \A i \in 1..Len(Runs) : rows[i] = Runs[i]
        /\ rows[Len(Runs) + 1] = Row("running", Unfinished)
    BY <2>1, <2>2, <2>3, AppendProperties
  <2>5. manifest' = [manifest EXCEPT !.runs = rows]
    BY <2>1 DEF Attempt, Runs
  <2>6. /\ manifest' \in Manifests /\ manifest'.state = manifest.state
        /\ manifest'.preflight = manifest.preflight /\ manifest'.runs = rows
    BY <1>0, <2>4, <2>5 DEF Manifests
  <2> QED BY <2>3, <2>4, <2>6
<1>2. Len(Runs) \in Nat /\ DOMAIN Runs = 1..Len(Runs) /\ DOMAIN Runs' = 1..(Len(Runs) + 1)
      /\ Runs' = manifest'.runs /\ Current' = Len(Runs) + 1
  BY <1>0, <1>1, ManifestParts DEF Runs, Current
<1>3. TypeInv'
  BY <1>0, <1>1 DEF IInv, TypeInv, Stop, Saving
<1>4. SaveInv'
  <2>1. disk' # None => Extends(manifest', disk')
    BY <1>0, <1>1, <1>2 DEF IInv, SaveInv, Extends, Runs
  <2> QED BY <1>0, <1>1, <2>1 DEF IInv, SaveInv, Stop, Saving
<1>5. JobInv'
  <2>1. ASSUME NEW i \in DOMAIN Runs' PROVE Truthful(i)'
    <3>1. CASE i \in DOMAIN Runs
      BY <1>0, <1>1, <1>2, <3>1, OutcomesFixed DEF IInv, JobInv, Truthful
    <3>2. CASE i = Len(Runs) + 1
      BY <1>1, <1>2, <3>2 DEF Truthful
    <3> QED BY <1>2, <3>1, <3>2
  <2>2. \A i \in 1..Planned : jobs'[i] # NotStarted => i \in DOMAIN SavedRuns'
    BY <1>0 DEF IInv, JobInv, SavedRuns
  <2> QED BY <1>0, <1>2, <2>1, <2>2, StudyAssumption DEF JobInv, Current
<1>6. RowInv'
  BY <1>0, <1>1, <1>2 DEF RowInv, Stop, Saving
<1>7. PreflightInv'
  <2>1. Preflight' = Preflight
    BY <1>1 DEF Preflight, Passed
  <2> QED BY <1>0, <1>1, <2>1 DEF IInv, PreflightInv, OraclesPassed, Stop, Saving
<1>8. ExitInv'
  BY <1>0 DEF ExitInv, Stop, Saving
<1> QED BY <1>3, <1>4, <1>5, <1>6, <1>7, <1>8 DEF IInv

\* Its process is started, and ends.
LEMMA ProcessKeeps ==
  ASSUME IInv, Launch \/ JobEnds
  PROVE  IInv'
<1>0. /\ pc \in {"launch", "job"} /\ disk = manifest /\ manifest \in Manifests
      /\ UNCHANGED <<runner, mode, manifest, after, disk, code, exit>>
      /\ pc' \in {"job", "export"}
      /\ Current > 0 /\ Runs[Current].status = "running" /\ Current =< Planned
      /\ exit # "success"
  BY DEF Launch, JobEnds, Goto, files, IInv, TypeInv, SaveInv, JobInv, RowInv, ExitInv, Stop,
     Saving
<1>1. Current \in DOMAIN Runs /\ Current \in 1..Planned /\ Runs = disk.runs
  BY <1>0, ManifestParts, StudyAssumption DEF Current, Runs
<1>2. PICK job : jobs' = [jobs EXCEPT ![Current] = job] /\ (pc' = "export" => job \in Outcomes)
  <2>1. CASE Launch
    BY <2>1 DEF Launch, Goto
  <2>2. CASE JobEnds
    BY <2>2 DEF JobEnds, Goto
  <2> QED BY <2>1, <2>2
<1>3. /\ jobs' = [i \in 1..Planned |-> jobs'[i]] /\ jobs'[Current] = job
      /\ \A i \in 1..Planned : i # Current => jobs'[i] = jobs[i]
  <2>1. jobs = [i \in 1..Planned |-> jobs[i]]
    BY DEF IInv, TypeInv
  <2> QED BY <1>1, <1>2, <2>1
<1>4. TypeInv'
  BY <1>0, <1>3 DEF IInv, TypeInv, Stop, Saving
<1>5. SaveInv'
  BY <1>0 DEF IInv, SaveInv, Extends, Stop, Saving
<1>6. JobInv'
  <2>1. Runs' = Runs /\ Current' = Current /\ SavedRuns' = SavedRuns /\ Outcomes' = Outcomes
    BY <1>0, OutcomesFixed DEF Runs, Current, SavedRuns
  <2>2. SavedRuns = Runs
    BY <1>0, <1>1, StudyAssumption DEF SavedRuns
  <2>3. DOMAIN Runs \subseteq 1..Planned
    BY <1>0, ManifestParts, StudyAssumption DEF Runs, Current
  <2>4. ASSUME NEW i \in DOMAIN Runs PROVE Truthful(i)'
    BY <1>0, <1>3, <2>1, <2>3 DEF IInv, JobInv, Truthful
  <2>5. \A i \in 1..Planned : jobs'[i] # NotStarted => i \in DOMAIN SavedRuns
    BY <1>1, <1>3, <2>2 DEF IInv, JobInv
  <2> QED BY <1>0, <1>2, <1>3, <2>1, <2>4, <2>5 DEF JobInv
<1>7. RowInv' /\ PreflightInv' /\ ExitInv'
  BY <1>0 DEF IInv, RowInv, PreflightInv, ExitInv, OraclesPassed, Preflight, Runs, Current, Stop,
     Saving
<1> QED BY <1>4, <1>5, <1>6, <1>7 DEF IInv

\* A row that is rewritten leaves the rest of a manifest alone.
LEMMA RowSet ==
  ASSUME NEW m \in Manifests, NEW k \in DOMAIN m.runs, NEW row \in RunRows,
         NEW new, new = [m EXCEPT !.runs[k] = row]
  PROVE  /\ new \in Manifests /\ new.state = m.state /\ new.preflight = m.preflight
         /\ Len(new.runs) = Len(m.runs) /\ DOMAIN new.runs = DOMAIN m.runs
         /\ new.runs[k] = row
         /\ \A i \in DOMAIN m.runs : i # k => new.runs[i] = m.runs[i]
<1>1. PICK rows : rows = [m.runs EXCEPT ![k] = row]
  OBVIOUS
<1>2. m.runs \in Seq(RunRows) /\ DOMAIN m.runs = 1..Len(m.runs)
  BY ManifestParts
<1>3. /\ rows \in Seq(RunRows) /\ Len(rows) = Len(m.runs) /\ rows[k] = row
      /\ \A i \in 1..Len(m.runs) : i # k => rows[i] = m.runs[i]
  BY <1>1, <1>2, ExceptSeq
<1>4. new = [m EXCEPT !.runs = rows]
  BY <1>1
<1>5. /\ new \in Manifests /\ new.state = m.state /\ new.preflight = m.preflight
      /\ new.runs = rows
  BY <1>3, <1>4 DEF Manifests
<1> QED BY <1>2, <1>3, <1>5, ManifestParts

\* What the process left is written into the row of the attempt.
LEMMA ExportKeeps ==
  ASSUME IInv, Export
  PROVE  IInv'
<1>0. /\ pc = "export" /\ disk = manifest /\ manifest \in Manifests
      /\ UNCHANGED <<runner, mode, disk, jobs, code, exit>>
      /\ pc' = "save" /\ after' = "attempt"
      /\ Current > 0 /\ Runs[Current].status = "running" /\ Current =< Planned
      /\ \A i \in DOMAIN Runs : i # Current => Runs[i].status = "finished"
      /\ jobs[Current] \in Outcomes /\ ~jobs[Current].broken
      /\ manifest.state \notin OverStates
      /\ exit # "success"
  BY DEF Export, SaveThen, files, IInv, TypeInv, SaveInv, JobInv, RowInv, ExitInv, Stop, Saving
<1>1. Current \in DOMAIN Runs
  BY <1>0, ManifestParts DEF Current, Runs
<1>2. PICK row : row = Row("finished", ExportRun(jobs[Current]))
  OBVIOUS
<1>3. row \in RunRows /\ row.status = "finished" /\ row.result = ExportRun(jobs[Current])
  <2>1. ExportRun(jobs[Current]) \in Results
    BY <1>0, ExportResult
  <2> QED BY <1>2, <2>1 DEF Row, RunRows
<1>4. manifest' = [manifest EXCEPT !.runs[Current] = row]
  BY <1>2 DEF Export, SetCurrent
<1>5. /\ manifest' \in Manifests /\ manifest'.state = manifest.state
      /\ manifest'.preflight = manifest.preflight
      /\ Runs' = manifest'.runs /\ Current' = Current /\ DOMAIN Runs' = DOMAIN Runs
      /\ Runs'[Current] = row
      /\ \A i \in DOMAIN Runs : i # Current => Runs'[i] = Runs[i]
  BY <1>0, <1>1, <1>3, <1>4, RowSet DEF Runs, Current
<1>6. TypeInv'
  BY <1>0, <1>5 DEF IInv, TypeInv, Stop, Saving
<1>7. SaveInv'
  BY <1>0, <1>5 DEF SaveInv, Extends, Runs, Stop, Saving
<1>8. JobInv'
  <2>1. ASSUME NEW i \in DOMAIN Runs' PROVE Truthful(i)'
    <3>1. Outcomes' = Outcomes
      BY <1>0, OutcomesFixed
    <3>2. CASE i = Current
      BY <1>0, <1>3, <1>5, <3>1, <3>2 DEF Truthful
    <3>3. CASE i # Current
      BY <1>0, <1>5, <3>1, <3>3 DEF IInv, JobInv, Truthful
    <3> QED BY <3>2, <3>3
  <2>2. \A i \in 1..Planned : jobs'[i] # NotStarted => i \in DOMAIN SavedRuns'
    BY <1>0 DEF IInv, JobInv, SavedRuns
  <2> QED BY <1>0, <1>5, <2>1, <2>2 DEF JobInv
<1>9. RowInv'
  BY <1>0, <1>3, <1>5 DEF RowInv, Stop, Saving
<1>10. PreflightInv'
  <2>1. Preflight' = Preflight
    BY <1>5 DEF Preflight, Passed
  <2> QED BY <1>0, <1>5, <2>1 DEF IInv, PreflightInv, OraclesPassed, Stop, Saving
<1>11. ExitInv'
  BY <1>0 DEF ExitInv, Stop, Saving
<1> QED BY <1>6, <1>7, <1>8, <1>9, <1>10, <1>11 DEF IInv

(***************************************************************************)
(* Saving, leaving and failing                                             *)
(***************************************************************************)

\* The two steps of a save.
LEMMA SaveKeeps ==
  ASSUME IInv, Write \/ Replace
  PROVE  IInv'
<1>0. UNCHANGED <<runner, mode, after, manifest, jobs, code, exit>>
  BY DEF Write, Replace
<1>1. Runs' = Runs /\ Current' = Current /\ Outcomes' = Outcomes /\ Stop' = Stop
  <2>1. Runs' = Runs /\ Current' = Current /\ Outcomes' = Outcomes
    BY <1>0, OutcomesFixed DEF Runs, Current
  <2>2. Stop' = Stop
    BY <1>0 DEF Write, Replace, Stop, Saving, IInv, TypeInv
  <2> QED BY <2>1, <2>2
<1>2. RowInv' /\ PreflightInv'
  BY <1>0, <1>1 DEF IInv, RowInv, PreflightInv, OraclesPassed, Preflight, Passed
<1>3. Saving /\ exit # "success" /\ pc # "over"
  BY DEF Write, Replace, Saving, IInv, ExitInv
<1>4. ExitInv'
  BY <1>0, <1>1, <1>3 DEF IInv, ExitInv, Whole
<1>5. CASE Write
  <2>1. pc = "save" /\ pc' = "replace" /\ pending' = manifest /\ disk' = disk
    BY <1>5 DEF Write
  <2>2. TypeInv' /\ SaveInv'
    BY <1>0, <1>1, <2>1 DEF IInv, TypeInv, SaveInv, Extends, Saving
  <2>3. JobInv'
    BY <1>0, <1>1, <2>1 DEF IInv, JobInv, Truthful, SavedRuns
  <2> QED BY <1>2, <1>4, <2>2, <2>3 DEF IInv
<1>6. CASE Replace
  <2>1. pc = "replace" /\ pc' = after /\ disk' = manifest /\ manifest \in Manifests
        /\ Stop = after
    BY <1>6 DEF Replace, IInv, SaveInv, TypeInv, Stop, Saving
  <2>2. TypeInv'
    BY <1>0, <1>1, <2>1 DEF IInv, TypeInv, Saving
  <2>3. SaveInv'
    <3>1. pc' \notin {"save", "replace"}
      BY <2>1 DEF IInv, TypeInv, Saving
    <3>2. manifest'.state \in OverStates => Stop' \in {"report", "leave", "over"}
      BY <1>0, <1>1 DEF IInv, SaveInv
    <3>3. Stop' = pc'
      BY <3>1 DEF Stop, Saving
    <3> QED BY <1>0, <2>1, <3>1, <3>2, <3>3 DEF SaveInv, Extends
  <2>4. JobInv'
    <3>1. SavedRuns' = Runs
      BY <2>1, StudyAssumption DEF SavedRuns, Runs
    <3>2. DOMAIN SavedRuns \subseteq DOMAIN Runs
      BY DEF IInv, SaveInv, Extends, SavedRuns, Runs
    <3>3. pc' # "export"
      BY <2>1 DEF IInv, TypeInv, Saving
    <3> QED BY <1>0, <1>1, <3>1, <3>2, <3>3 DEF IInv, JobInv, Truthful
  <2> QED BY <1>2, <1>4, <2>2, <2>3, <2>4 DEF IInv
<1> QED BY <1>5, <1>6

(* The process of the attempt is left alone, or killed while it is waited for. *)
JobLost == jobs' = jobs \/ (pc = "job" /\ jobs' = [jobs EXCEPT ![Current] = Lost])

\* A process that is killed leaves only the row at work without a result.
LEMMA JobLostKeeps ==
  ASSUME IInv, JobLost, UNCHANGED <<runner, disk>>
  PROVE  /\ jobs' = [i \in 1..Planned |-> jobs'[i]] /\ Outcomes' = Outcomes
         /\ \A i \in DOMAIN Runs : Runs[i].status = "finished" => jobs'[i] = jobs[i]
         /\ \A i \in 1..Planned : jobs'[i] # NotStarted => i \in DOMAIN SavedRuns'
<1>1. Outcomes' = Outcomes /\ SavedRuns' = SavedRuns
  BY OutcomesFixed DEF SavedRuns
<1>2. CASE jobs' = jobs
  BY <1>1, <1>2 DEF IInv, TypeInv, JobInv
<1>3. CASE pc = "job" /\ jobs' = [jobs EXCEPT ![Current] = Lost]
  <2>1. /\ disk = manifest /\ manifest \in Manifests /\ Current > 0 /\ Current =< Planned
        /\ Runs[Current].status = "running" /\ jobs = [i \in 1..Planned |-> jobs[i]]
    BY <1>3 DEF IInv, TypeInv, SaveInv, JobInv, RowInv, Stop, Saving
  <2>2. Current \in DOMAIN Runs /\ Current \in 1..Planned /\ SavedRuns = Runs
    BY <2>1, ManifestParts, StudyAssumption DEF Current, Runs, SavedRuns
  <2>3. DOMAIN Runs \subseteq 1..Planned
    BY <2>1, ManifestParts, StudyAssumption DEF Runs, Current
  <2>4. \A i \in 1..Planned : i # Current => jobs'[i] = jobs[i]
    BY <1>3, <2>1
  <2>5. jobs' = [i \in 1..Planned |-> jobs'[i]]
    BY <1>3, <2>1
  <2> QED BY <1>1, <2>1, <2>2, <2>3, <2>4, <2>5 DEF IInv, JobInv
<1> QED BY <1>2, <1>3 DEF JobLost

\* The driver ends, as it is.
LEMMA LeaveKeeps ==
  ASSUME IInv, pc # "over", NEW how, Leave(how), JobLost,
         UNCHANGED <<runner, mode, manifest, disk, code>>,
         (how = "success" /\ mode = "run") => disk = manifest /\ Whole
  PROVE  IInv'
<1>0. pc' = "over" /\ exit' = how
  BY DEF Leave
<1>1. Runs' = Runs /\ Current' = Current
  BY DEF Runs, Current
<1>2. TypeInv'
  BY <1>0, JobLostKeeps DEF IInv, TypeInv, Stop, Saving
<1>3. SaveInv'
  BY <1>0 DEF IInv, SaveInv, Extends, Stop, Saving
<1>4. JobInv'
  <2>1. ASSUME NEW i \in DOMAIN Runs' PROVE Truthful(i)'
    BY <1>1, JobLostKeeps DEF IInv, JobInv, Truthful
  <2> QED BY <1>0, <1>1, <2>1, JobLostKeeps DEF IInv, JobInv
<1>5. RowInv' /\ PreflightInv'
  BY <1>0, <1>1 DEF IInv, RowInv, PreflightInv, OraclesPassed, Preflight, Passed, Stop, Saving
<1>6. ExitInv'
  BY <1>0, <1>1 DEF ExitInv, Whole, Stop, Saving
<1> QED BY <1>2, <1>3, <1>4, <1>5, <1>6 DEF IInv

(* An exception meets the except clause, or goes all the way up. *)
Caught ==
    /\ InTry \/ InAttempt
    /\ manifest' = Interrupted /\ code' = "raised"
    /\ pc' = "save" /\ after' \in {"leave", "report"}
    /\ UNCHANGED exit

Uncaught == Leave("raised") /\ UNCHANGED <<manifest, code>>

\* There is no third way.
LEMMA RaiseMeans ==
  ASSUME \/ Raise(InTry) \/ Raise(InTry \/ InAttempt)
         \/ Raise(InTry \/ (InAttempt /\ ~jobs[Current].broken))
  PROVE  Caught \/ Uncaught
  BY DEF Raise, Caught, Uncaught, SaveThen

\* The except clause rewrites at most the row of the attempt at work.
LEMMA InterruptedRows ==
  ASSUME IInv, InTry \/ InAttempt
  PROVE  /\ Interrupted \in Manifests /\ Interrupted.state = "interrupted"
         /\ Interrupted.preflight = manifest.preflight
         /\ Len(Interrupted.runs) = Current
         /\ DOMAIN Interrupted.runs = DOMAIN Runs
         /\ \A i \in DOMAIN Runs :
               \/ Interrupted.runs[i] = Runs[i]
               \/ Runs[i].status = "running" /\ Interrupted.runs[i].status # "finished"
<1>0. manifest \in Manifests /\ runner \in {"retention", "pilot", "replay"}
  BY DEF IInv, TypeInv
<1>1. PICK stopped : stopped = SetState("interrupted")
  OBVIOUS
<1>2. /\ stopped \in Manifests /\ stopped.state = "interrupted" /\ stopped.runs = Runs
      /\ stopped.preflight = manifest.preflight
  BY <1>0, <1>1, StateSet DEF States, OverStates, Runs
<1>3. PICK row : row = Row("interrupted", Unfinished)
  OBVIOUS
<1>4. row \in RunRows /\ row.status = "interrupted"
  BY <1>3 DEF Row, Unfinished, RunRows, Results
<1>5. CASE Interrupted = stopped
  BY <1>2, <1>5 DEF Current
<1>6. CASE /\ Interrupted = [stopped EXCEPT !.runs[Current] = row]
           /\ Current > 0 /\ Runs[Current].status = "running"
  <2>1. Current \in DOMAIN stopped.runs
    BY <1>0, <1>2, <1>6, ManifestParts DEF Current, Runs
  <2>2. /\ Interrupted \in Manifests /\ Interrupted.state = stopped.state
        /\ Interrupted.preflight = stopped.preflight
        /\ Len(Interrupted.runs) = Len(stopped.runs)
        /\ DOMAIN Interrupted.runs = DOMAIN stopped.runs
        /\ Interrupted.runs[Current] = row
        /\ \A i \in DOMAIN stopped.runs : i # Current => Interrupted.runs[i] = stopped.runs[i]
    BY <1>2, <1>4, <1>6, <2>1, RowSet
  <2> QED BY <1>2, <1>4, <1>6, <2>2 DEF Current
<1>7. CASE runner = "retention"
  <2>1. pc \in {"launch", "job", "export"}
    BY <1>7 DEF InTry, InAttempt
  <2>2. Current > 0 /\ Runs[Current].status = "running"
    BY <2>1 DEF IInv, RowInv, Stop, Saving
  <2>3. Interrupted = [stopped EXCEPT !.runs[Current] = row]
    BY <1>1, <1>3, <1>7 DEF Interrupted
  <2> QED BY <1>6, <2>2, <2>3
<1>8. CASE runner = "replay" /\ Current > 0 /\ Runs[Current].status = "running"
  <2>1. Interrupted = [stopped EXCEPT !.runs[Current] = row]
    BY <1>1, <1>3, <1>8 DEF Interrupted
  <2> QED BY <1>6, <1>8, <2>1
<1>9. CASE runner # "retention" /\ ~(runner = "replay" /\ Current > 0 /\ Runs[Current].status = "running")
  <2>1. Interrupted = stopped
    BY <1>1, <1>9 DEF Interrupted
  <2> QED BY <1>5, <2>1
<1> QED BY <1>7, <1>8, <1>9

\* The interrupted study is about to be saved.
LEMMA CaughtKeeps ==
  ASSUME IInv, Caught, JobLost, UNCHANGED <<runner, mode, disk>>
  PROVE  IInv'
<1>0. /\ pc' = "save" /\ after' \in {"leave", "report"} /\ code' = "raised" /\ exit' = exit
      /\ InTry \/ InAttempt
      /\ pc \notin {"report", "leave", "over"}
  BY DEF Caught, InTry, InAttempt
<1>1. /\ manifest' \in Manifests /\ manifest'.state = "interrupted"
      /\ manifest'.preflight = manifest.preflight /\ Current' = Current
      /\ Runs' = manifest'.runs /\ DOMAIN Runs' = DOMAIN Runs
      /\ \A i \in DOMAIN Runs :
            \/ Runs'[i] = Runs[i]
            \/ Runs[i].status = "running" /\ Runs'[i].status # "finished"
  BY <1>0, InterruptedRows DEF Caught, Runs, Current
<1>2. TypeInv'
  BY <1>0, <1>1, JobLostKeeps DEF IInv, TypeInv, Stop, Saving
<1>3. SaveInv'
  <2>1. disk' # None => Extends(manifest', disk')
    BY <1>1 DEF IInv, SaveInv, Extends, Runs
  <2> QED BY <1>0, <1>1, <2>1 DEF IInv, SaveInv, Stop, Saving
<1>4. JobInv'
  <2>1. ASSUME NEW i \in DOMAIN Runs' PROVE Truthful(i)'
    <3>1. Truthful(i)
      BY <1>1 DEF IInv, JobInv
    <3> QED BY <1>1, <3>1, JobLostKeeps DEF Truthful
  <2> QED BY <1>0, <1>1, <2>1, JobLostKeeps DEF IInv, JobInv
<1>5. RowInv'
  BY <1>0 DEF RowInv, Stop, Saving
<1>6. PreflightInv'
  <2>1. Preflight' = Preflight
    BY <1>1 DEF Preflight, Passed
  <2>2. Runs' # <<>> => Runs # <<>>
    <3>1. Len(Runs') = Len(Runs) /\ Runs' \in Seq(RunRows)
      BY <1>1, ManifestParts DEF Current
    <3> QED BY <3>1, EmptySeq
  <2> QED BY <1>0, <1>1, <2>1, <2>2 DEF IInv, PreflightInv, OraclesPassed, Stop, Saving
<1>7. ExitInv'
  BY <1>0 DEF IInv, ExitInv
<1> QED BY <1>2, <1>3, <1>4, <1>5, <1>6, <1>7 DEF IInv

\* Whatever raises.
LEMMA FailureKeeps ==
  ASSUME IInv,
         SaveFails \/ StepFails \/ LaunchFails \/ EpochFails \/ ExportFails \/ KeyboardInterrupt
  PROVE  IInv'
<1>1. /\ pc # "over" /\ UNCHANGED <<runner, mode, disk>> /\ JobLost
      /\ \/ Raise(InTry) \/ Raise(InTry \/ InAttempt)
         \/ Raise(InTry \/ (InAttempt /\ ~jobs[Current].broken))
  <2>1. CASE SaveFails \/ StepFails \/ LaunchFails
    BY <2>1 DEF SaveFails, StepFails, LaunchFails, files, JobLost
  <2>2. CASE EpochFails \/ ExportFails
    BY <2>2 DEF EpochFails, ExportFails, files, JobLost
  <2>3. CASE KeyboardInterrupt
    BY <2>3 DEF KeyboardInterrupt, files, JobLost
  <2> QED BY <2>1, <2>2, <2>3
<1>2. CASE Caught
  BY <1>1, <1>2, CaughtKeeps
<1>3. CASE Uncaught
  <2>1. Leave("raised") /\ UNCHANGED <<manifest, code>>
    BY <1>3 DEF Uncaught
  <2> QED BY <1>1, <2>1, LeaveKeeps
<1> QED BY <1>1, <1>2, <1>3, RaiseMeans

\* A driver ends with its plan, its report, its return value, or a kill.
LEMMA EndKeeps ==
  ASSUME IInv, PlanOnly \/ Report \/ Return \/ Kill
  PROVE  IInv'
<1>1. CASE PlanOnly
  <2>1. /\ pc = "planned" /\ mode # "run" /\ Leave("success") /\ JobLost
        /\ UNCHANGED <<runner, mode, manifest, disk, code>>
    BY <1>1 DEF PlanOnly, files, JobLost
  <2> QED BY <2>1, LeaveKeeps
<1>2. CASE Report \/ Return
  <2>1. /\ pc \in {"report", "leave"} /\ Leave(code) /\ JobLost
        /\ UNCHANGED <<runner, mode, manifest, disk, code>>
    BY <1>2 DEF Report, Return, files, JobLost
  <2>2. disk = manifest /\ ((code = "success" /\ mode = "run") => Whole)
    BY <2>1 DEF IInv, SaveInv, ExitInv, Stop, Saving
  <2> QED BY <2>1, <2>2, LeaveKeeps
<1>3. CASE Kill
  <2>1. /\ pc # "over" /\ Leave("killed") /\ JobLost
        /\ UNCHANGED <<runner, mode, manifest, disk, code>>
    BY <1>3 DEF Kill, JobLost
  <2> QED BY <2>1, LeaveKeeps
<1> QED BY <1>1, <1>2, <1>3

\* Standing still.
LEMMA StutterKeeps ==
  ASSUME IInv, UNCHANGED vars
  PROVE  IInv'
<1>1. UNCHANGED <<runner, mode, pc, after, manifest, pending, disk, jobs, code, exit>>
  BY DEF vars, files
<1>2. /\ Runs' = Runs /\ Current' = Current /\ SavedRuns' = SavedRuns /\ Outcomes' = Outcomes
      /\ Stop' = Stop /\ Saving' = Saving
  BY <1>1, OutcomesFixed DEF Runs, Current, SavedRuns, Stop, Saving
<1>3. TypeInv' /\ SaveInv'
  BY <1>1, <1>2 DEF IInv, TypeInv, SaveInv, Extends
<1>4. JobInv' /\ RowInv'
  BY <1>1, <1>2 DEF IInv, JobInv, RowInv, Truthful
<1>5. PreflightInv' /\ ExitInv'
  BY <1>1, <1>2 DEF IInv, PreflightInv, OraclesPassed, Preflight, Passed, ExitInv, Whole
<1> QED BY <1>3, <1>4, <1>5 DEF IInv

(***************************************************************************)
(* The theorems                                                            *)
(***************************************************************************)

\* The invariant holds before the first save.
LEMMA InitKeeps ==
  ASSUME Init
  PROVE  IInv
<1>1. /\ runner \in {"retention", "pilot", "replay"} /\ pc = "save" /\ after = "planned"
      /\ disk = None /\ jobs = [i \in 1..Planned |-> NotStarted] /\ exit = "none"
  BY StudyAssumption DEF Init
<1>2. /\ manifest.state = "planned" /\ manifest.preflight = <<>> /\ manifest.runs = <<>>
      /\ manifest \in Manifests
  <2>1. <<>> \in Seq(Results) /\ <<>> \in Seq(RunRows)
    OBVIOUS
  <2> QED BY <2>1 DEF Init, Manifests, States
<1>3. Runs = <<>> /\ Current = 0 /\ DOMAIN Runs = {} /\ Len(manifest.preflight) = 0
      /\ Stop = "planned"
  BY <1>1, <1>2 DEF Runs, Current, Stop, Saving
<1>4. TypeInv /\ SaveInv
  BY <1>1, <1>2, <1>3 DEF TypeInv, SaveInv, Saving, OverStates
<1>5. JobInv /\ RowInv /\ PreflightInv /\ ExitInv
  BY <1>1, <1>2, <1>3, StudyAssumption DEF JobInv, RowInv, PreflightInv, ExitInv
<1> QED BY <1>4, <1>5 DEF IInv

\* Every step keeps the invariant.
LEMMA NextKeeps ==
  ASSUME IInv, [Next]_vars
  PROVE  IInv'
<1>1. CASE Write \/ Replace
  BY <1>1, SaveKeeps
<1>2. CASE PlanOnly \/ Report \/ Return \/ Kill
  BY <1>2, EndKeeps
<1>3. CASE Start \/ Prepare
  BY <1>3, StartKeeps
<1>4. CASE Oracle
  BY <1>4, OracleKeeps
<1>5. CASE OracleChecked
  BY <1>5, OracleCheckedKeeps
<1>6. CASE PreflightOver
  BY <1>6, PreflightOverKeeps
<1>7. CASE Attempt
  BY <1>7, AttemptKeeps
<1>8. CASE Launch \/ JobEnds
  BY <1>8, ProcessKeeps
<1>9. CASE Export
  BY <1>9, ExportKeeps
<1>10. CASE AttemptsOver
  BY <1>10, AttemptsOverKeeps
<1>11. CASE SaveFails \/ StepFails \/ LaunchFails \/ EpochFails \/ ExportFails \/ KeyboardInterrupt
  BY <1>11, FailureKeeps
<1>12. CASE UNCHANGED vars
  BY <1>12, StutterKeeps
<1> QED BY <1>1, <1>2, <1>3, <1>4, <1>5, <1>6, <1>7, <1>8, <1>9, <1>10, <1>11, <1>12
        DEF Next, Over

\* The invariant says what a reader of manifest.json may believe.
LEMMA InvTellsTruth ==
  ASSUME IInv
  PROVE  DiskTellsTruth
<1>1. disk # Torn
  <2>1. Torn.state = "torn" /\ "torn" \notin States
    BY DEF Torn, States, OverStates
  <2>2. disk = None \/ disk.state \in States
    BY ManifestParts DEF IInv, TypeInv
  <2> QED BY <2>1, <2>2, StudyAssumption
<1>2. \A i \in 1..Planned : jobs[i] # NotStarted => i \in DOMAIN SavedRuns
  BY DEF IInv, JobInv
<1>3. ASSUME NEW i \in DOMAIN SavedRuns, SavedRuns[i].status = "finished"
      PROVE  /\ jobs[i] \in Outcomes /\ ~jobs[i].broken
             /\ SavedRuns[i].result = ExportRun(jobs[i])
  <2>1. disk # None /\ SavedRuns = disk.runs
    BY <1>3 DEF SavedRuns
  <2>2. i \in DOMAIN Runs /\ Runs[i] = disk.runs[i]
    BY <1>3, <2>1 DEF IInv, SaveInv, Extends, Runs
  <2> QED BY <1>3, <2>1, <2>2 DEF IInv, JobInv, Truthful
<1>4. ASSUME SavedRuns # <<>>, runner # "replay"
      PROVE  /\ Len(disk.preflight) = Tasks
             /\ \A t \in DOMAIN disk.preflight : Passed(disk.preflight[t])
  <2>1. disk # None /\ disk \in Manifests /\ disk.runs # <<>>
    BY <1>4 DEF SavedRuns, IInv, TypeInv
  <2>2. disk.preflight = manifest.preflight /\ Extends(manifest, disk)
    BY <2>1 DEF IInv, SaveInv
  <2>3. Runs # <<>>
    <3>1. Len(disk.runs) # 0 /\ Len(disk.runs) \in Nat /\ DOMAIN disk.runs = 1..Len(disk.runs)
      BY <2>1, ManifestParts, EmptySeq
    <3>2. 1 \in DOMAIN Runs
      BY <2>2, <3>1 DEF Extends, Runs
    <3> QED BY <3>2
  <2> QED BY <1>4, <2>2, <2>3 DEF IInv, PreflightInv, OraclesPassed, Preflight
<1> QED BY <1>1, <1>2, <1>3, <1>4 DEF DiskTellsTruth

(***************************************************************************)
(* Whatever fails and whenever, manifest.json is whole, has a row for      *)
(* every process that was started, and says finished only of an attempt    *)
(* whose result it holds.  (save_manifest and the loops around it)         *)
(***************************************************************************)
THEOREM ManifestTellsTruth ==
  Spec => []DiskTellsTruth
<1>1. Init => IInv
  BY InitKeeps
<1>2. IInv /\ [Next]_vars => IInv'
  BY NextKeeps
<1>3. IInv => DiskTellsTruth
  BY InvTellsTruth
<1> QED BY <1>1, <1>2, <1>3, PTL DEF Spec

(***************************************************************************)
(* A driver asked to run exits with success only after it has saved a      *)
(* finished study in which every planned attempt ended well.               *)
(***************************************************************************)
THEOREM SuccessStandsForWholeStudy ==
  Spec => []SuccessIsWhole
<1>1. Init => IInv
  BY InitKeeps
<1>2. IInv /\ [Next]_vars => IInv'
  BY NextKeeps
<1>3. IInv => SuccessIsWhole
  <2> SUFFICES ASSUME IInv, exit = "success", mode = "run"
               PROVE  /\ disk.state = "finished" /\ Len(disk.runs) = Planned
                      /\ \A i \in 1..Planned :
                            /\ disk.runs[i].status = "finished"
                            /\ ~disk.runs[i].result.exception /\ disk.runs[i].result.reward # None
                            /\ runner = "pilot" => disk.runs[i].result.trace
    BY DEF SuccessIsWhole
  <2>1. disk = manifest /\ Whole /\ manifest \in Manifests
    BY DEF IInv, ExitInv, TypeInv
  <2>2. DOMAIN Runs = 1..Planned /\ Runs = disk.runs
    BY <2>1, ManifestParts DEF Whole, Current, Runs
  <2> QED BY <2>1, <2>2 DEF Whole, Current
<1> QED BY <1>1, <1>2, <1>3, PTL DEF Spec

\* Only the rename touches manifest.json.
LEMMA OnlyReplaceWrites ==
  ASSUME [Next]_vars, disk' # disk
  PROVE  Replace
<1>1. CASE Write \/ PlanOnly \/ Start \/ Prepare \/ Oracle \/ OracleChecked \/ PreflightOver
  BY <1>1 DEF Write, PlanOnly, Start, Prepare, Oracle, OracleChecked, PreflightOver, files
<1>2. CASE Attempt \/ Launch \/ JobEnds \/ Export \/ AttemptsOver \/ Report \/ Return
  BY <1>2 DEF Attempt, Launch, JobEnds, Export, AttemptsOver, Report, Return, files
<1>3. CASE SaveFails \/ StepFails \/ LaunchFails \/ EpochFails \/ ExportFails
           \/ KeyboardInterrupt \/ Kill
  BY <1>3 DEF SaveFails, StepFails, LaunchFails, EpochFails, ExportFails, KeyboardInterrupt,
              Kill, files
<1>4. CASE UNCHANGED vars
  BY <1>4 DEF vars, files
<1> QED BY <1>1, <1>2, <1>3, <1>4 DEF Next, Over

(***************************************************************************)
(* A saved study only grows, and one that is saved as over is never        *)
(* written again.                                                          *)
(***************************************************************************)
THEOREM SavedStudyGrows ==
  Spec => SavedStudyOnlyGrows
<1>1. Init => IInv
  BY InitKeeps
<1>2. IInv /\ [Next]_vars => IInv'
  BY NextKeeps
<1>3. IInv /\ [Next]_vars =>
        [disk' # disk /\ disk # None =>
          /\ disk.state \notin OverStates
          /\ \A i \in DOMAIN disk.runs :
                /\ i \in DOMAIN disk'.runs
                /\ disk.runs[i].status # "running" => disk'.runs[i] = disk.runs[i]]_vars
  <2> SUFFICES ASSUME IInv, [Next]_vars, disk' # disk, disk # None
               PROVE  /\ disk.state \notin OverStates
                      /\ \A i \in DOMAIN disk.runs :
                            /\ i \in DOMAIN disk'.runs
                            /\ disk.runs[i].status # "running" => disk'.runs[i] = disk.runs[i]
    OBVIOUS
  <2>1. Replace
    BY OnlyReplaceWrites
  <2>2. disk' = manifest /\ pc = "replace"
    BY <2>1 DEF Replace, IInv, SaveInv
  <2>3. disk.state \notin OverStates /\ Extends(manifest, disk)
    BY <2>2 DEF IInv, SaveInv
  <2> QED BY <2>2, <2>3 DEF Extends
<1> QED BY <1>1, <1>2, <1>3, PTL DEF Spec, SavedStudyOnlyGrows

=============================================================================
