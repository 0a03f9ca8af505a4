---------------------------- MODULE StudyRunner ----------------------------
(***************************************************************************)
(* The three drivers that run a study and record it in one manifest:       *)
(* run_experiments.py (retention), run_dynamo.py (pilot) and execute() of  *)
(* dynamo_replay.py (replay).  A driver saves the manifest as a whole      *)
(* before and after each attempt.  It may be interrupted from the          *)
(* keyboard or killed between any two steps, a save may fail half way, and *)
(* the attempts themselves are processes of their own.                     *)
(***************************************************************************)
EXTENDS Naturals, Sequences

CONSTANTS
    Runners,    \* the drivers under study, of retention, pilot, replay
    Tasks,      \* number of tasks that get an oracle run
    Planned,    \* length of the plan
    None

VARIABLES
    runner, mode,   \* the driver, and what its command line asks for
    pc,             \* where the driver is
    after,          \* where it goes on after the save it is in
    manifest,       \* the manifest in memory
    pending,        \* manifest.tmp
    disk,           \* manifest.json
    jobs,           \* what became of the process of each planned attempt
    code,           \* the return value on its way out
    exit            \* how the driver ended

files == <<pending, disk>>
vars == <<runner, mode, pc, after, manifest, files, jobs, code, exit>>

Torn == [state |-> "torn", preflight |-> <<>>, runs |-> <<>>]
OverStates == {"finished", "interrupted", "preflight_failed", "preflight_passed"}
Results == [reward : {0, 1, None}, exception : BOOLEAN, trace : BOOLEAN]
RunRows == [status : {"running", "finished", "interrupted"}, result : Results]
States == {"planned", "preparing", "preflight", "running"} \cup OverStates
Manifests == [state : States, preflight : Seq(Results), runs : Seq(RunRows)]

\* None is none of the values it stands in for.
ASSUME StudyAssumption ==
    /\ Runners \subseteq {"retention", "pilot", "replay"}
    /\ Tasks \in Nat /\ Planned \in Nat
    /\ None \notin {0, 1} /\ None \notin Manifests \cup {Torn}

NotStarted == [trial |-> FALSE, started |-> FALSE]
Running == [trial |-> FALSE, started |-> TRUE]
Lost == [trial |-> FALSE, started |-> TRUE, ended |-> TRUE, broken |-> FALSE, code |-> 1]

(***************************************************************************)
(* What a Harbor job leaves behind: a trial or none, files that parse or   *)
(* not.  A replay epoch either returns or raises.                          *)
(***************************************************************************)
Clean == [trial |-> TRUE, started |-> TRUE, ended |-> TRUE, broken |-> FALSE, code |-> 0,
          reward |-> 1, exception |-> FALSE, trace |-> TRUE]

Trials == [trial : {TRUE}, started : {TRUE}, ended : {TRUE}, broken : {FALSE}, code : {0, 1},
           reward : {0, 1, None}, exception : BOOLEAN, trace : BOOLEAN]

Outcomes ==
    IF runner = "replay" THEN {Clean}
    ELSE Trials \cup {Lost, [Clean EXCEPT !.broken = TRUE]}

(* export_run: no trial, or a failing process, counts as an exception. *)
ExportRun(job) ==
    IF job.trial
    THEN [reward |-> job.reward, exception |-> job.exception \/ job.code # 0, trace |-> job.trace]
    ELSE [reward |-> None, exception |-> TRUE, trace |-> FALSE]

Passed(row) == row.reward = 1 /\ ~row.exception

Unfinished == [reward |-> None, exception |-> TRUE, trace |-> FALSE]
Row(status, result) == [status |-> status, result |-> result]

Runs == manifest.runs
Current == Len(Runs)
SetCurrent(row) == [manifest EXCEPT !.runs[Current] = row]
SetState(state) == [manifest EXCEPT !.state = state]

(* A save that is begun: where it goes on, and what the driver returns. *)
SaveThen(next) == pc' = "save" /\ after' = next
Goto(next) == pc' = next /\ UNCHANGED after

Init ==
    /\ runner \in Runners
    /\ mode \in IF runner = "retention" THEN {"plan", "check", "run"} ELSE {"plan", "run"}
    /\ pc = "save" /\ after = "planned"
    /\ manifest = [state |-> "planned", preflight |-> <<>>, runs |-> <<>>]
    /\ pending = None /\ disk = None
    /\ jobs = [i \in 1..Planned |-> NotStarted]
    /\ code = "success" /\ exit = "none"

---------------------------------------------------------------------------
(***************************************************************************)
(* save_manifest: write the temporary file, then rename it.                *)
(***************************************************************************)
Write ==
    /\ pc = "save"
    /\ pending' = manifest
    /\ pc' = "replace"
    /\ UNCHANGED <<runner, mode, after, manifest, disk, jobs, code, exit>>

Replace ==
    /\ pc = "replace"
    /\ disk' = pending /\ pending' = None
    /\ pc' = after
    /\ UNCHANGED <<runner, mode, after, manifest, jobs, code, exit>>

Leave(how) == exit' = how /\ pc' = "over" /\ UNCHANGED after

(* A plan only, and the first state of the work. *)
PlanOnly ==
    /\ pc = "planned" /\ mode = "plan"
    /\ Leave("success")
    /\ UNCHANGED <<runner, mode, manifest, files, jobs, code>>

Start ==
    /\ pc = "planned" /\ mode # "plan"
    /\ CASE runner = "retention" -> manifest' = SetState("preparing") /\ SaveThen("prepare")
         [] runner = "pilot" -> Goto("prepare") /\ UNCHANGED manifest
         [] runner = "replay" -> manifest' = SetState("running") /\ Goto("attempt")
    /\ UNCHANGED <<runner, mode, files, jobs, code, exit>>

(* prepare_tasks has taken its snapshots. *)
Prepare ==
    /\ pc = "prepare"
    /\ manifest' = IF runner = "pilot" THEN SetState("preflight") ELSE manifest
    /\ SaveThen("oracle")
    /\ UNCHANGED <<runner, mode, files, jobs, code, exit>>

(* The oracle of the next task runs; the pilot looks at each result at once. *)
Oracle ==
    /\ pc = "oracle"
    /\ Len(manifest.preflight) < Tasks
    /\ \E job \in Outcomes :
          /\ ~job.broken
          /\ manifest' = [manifest EXCEPT !.preflight = Append(@, ExportRun(job))]
    /\ SaveThen(IF runner = "pilot" THEN "checked" ELSE "oracle")
    /\ UNCHANGED <<runner, mode, files, jobs, code, exit>>

Preflight == \A t \in DOMAIN manifest.preflight : Passed(manifest.preflight[t])

PreflightOver ==
    /\ pc = "oracle"
    /\ Len(manifest.preflight) = Tasks
    /\ CASE runner = "pilot" ->
              manifest' = SetState("running") /\ Goto("attempt") /\ UNCHANGED code
         [] runner # "pilot" /\ ~Preflight ->
              manifest' = SetState("preflight_failed") /\ SaveThen("leave") /\ code' = "failure"
         [] runner # "pilot" /\ Preflight /\ mode = "check" ->
              manifest' = SetState("preflight_passed") /\ SaveThen("leave") /\ UNCHANGED code
         [] OTHER ->
              manifest' = SetState("running") /\ SaveThen("attempt") /\ UNCHANGED code
    /\ UNCHANGED <<runner, mode, files, jobs, exit>>

OracleChecked ==
    /\ pc = "checked"
    /\ IF Preflight
       THEN Goto("oracle") /\ UNCHANGED <<manifest, code>>
       ELSE manifest' = SetState("preflight_failed") /\ SaveThen("report") /\ code' = "failure"
    /\ UNCHANGED <<runner, mode, files, jobs, exit>>

---------------------------------------------------------------------------
(***************************************************************************)
(* The attempts of the plan, in order.                                     *)
(***************************************************************************)

(* An attempt that is started before it is on record. *)
AttemptUnsaved ==
    /\ pc = "attempt"
    /\ Current < Planned
    /\ manifest' = [manifest EXCEPT !.runs = Append(@, Row("running", Unfinished))]
    /\ Goto("launch")
    /\ UNCHANGED <<runner, mode, files, jobs, code, exit>>

(* The row of the next attempt is saved before its process is started. *)
Attempt ==
    /\ pc = "attempt"
    /\ Current < Planned
    /\ manifest' = [manifest EXCEPT !.runs = Append(@, Row("running", Unfinished))]
    /\ SaveThen("launch")
    /\ UNCHANGED <<runner, mode, files, jobs, code, exit>>

Launch ==
    /\ pc = "launch"
    /\ jobs' = [jobs EXCEPT ![Current] = Running]
    /\ Goto("job")
    /\ UNCHANGED <<runner, mode, manifest, files, code, exit>>

JobEnds ==
    /\ pc = "job"
    /\ \E job \in Outcomes : jobs' = [jobs EXCEPT ![Current] = job]
    /\ Goto("export")
    /\ UNCHANGED <<runner, mode, manifest, files, code, exit>>

Export ==
    /\ pc = "export"
    /\ ~jobs[Current].broken
    /\ manifest' = SetCurrent(Row("finished", ExportRun(jobs[Current])))
    /\ SaveThen("attempt")
    /\ UNCHANGED <<runner, mode, files, jobs, code, exit>>

(* A success that asks for rewards and exceptions only. *)
ExitCodeWithoutTraces ==
    IF runner # "replay" /\ \E i \in DOMAIN Runs :
          Runs[i].result.exception \/ Runs[i].result.reward = None
    THEN "failure" ELSE "success"

(* Failed if an attempt has an exception or no reward; the pilot wants traces too. *)
ExitCode ==
    IF /\ runner # "replay"
       /\ \E i \in DOMAIN Runs :
             \/ Runs[i].result.exception \/ Runs[i].result.reward = None
             \/ runner = "pilot" /\ ~Runs[i].result.trace
    THEN "failure" ELSE "success"

AttemptsOver ==
    /\ pc = "attempt"
    /\ Current = Planned
    /\ manifest' = SetState("finished")
    /\ SaveThen("report")
    /\ code' = ExitCode
    /\ UNCHANGED <<runner, mode, files, jobs, exit>>

(* summarize, report_pilot or report_replay over the saved study. *)
Report ==
    /\ pc = "report"
    /\ Leave(code)
    /\ UNCHANGED <<runner, mode, manifest, files, jobs, code>>

Return ==
    /\ pc = "leave"
    /\ Leave(code)
    /\ UNCHANGED <<runner, mode, manifest, files, jobs, code>>

---------------------------------------------------------------------------
(***************************************************************************)
(* Exceptions.  The pilot and the replay catch all of them in one clause   *)
(* around their loops; the retention study only what the process of an     *)
(* attempt and its export raise, and of that only OSError and the keyboard.*)
(***************************************************************************)
InTry ==
    /\ runner # "retention"
    /\ \/ pc \in {"oracle", "checked", "attempt", "launch", "job", "export"}
       \/ pc \in {"save", "replace"} /\ after \in {"checked", "launch", "attempt"}

InAttempt == runner = "retention" /\ pc \in {"launch", "job", "export"}

(* An interruption that takes the unfinished row out of the manifest. *)
InterruptedForgets ==
    [SetState("interrupted") EXCEPT !.runs = SelectSeq(@, LAMBDA row : row.status # "running")]

(* The except clause: the pilot leaves the row of the attempt as it was. *)
Interrupted ==
    LET stopped == SetState("interrupted")
    IN CASE runner = "retention" ->
              [stopped EXCEPT !.runs[Current] = Row("interrupted", Unfinished)]
         [] runner = "replay" /\ Current > 0 /\ Runs[Current].status = "running" ->
              [stopped EXCEPT !.runs[Current] = Row("interrupted", Unfinished)]
         [] OTHER -> stopped

Raise(caught) ==
    IF caught
    THEN /\ manifest' = Interrupted
         /\ code' = "raised"
         /\ SaveThen(IF runner = "retention" THEN "leave" ELSE "report")
         /\ UNCHANGED exit
    ELSE Leave("raised") /\ UNCHANGED <<manifest, code>>

(* A full disk stops the write, or the rename is refused. *)
SaveFails ==
    /\ pc \in {"save", "replace"}
    /\ pending' \in IF pc = "save" THEN {pending, Torn} ELSE {pending}
    /\ Raise(InTry)
    /\ UNCHANGED <<runner, mode, disk, jobs>>

(* A download, an oracle, a changed snapshot or a report raises. *)
StepFails ==
    /\ pc \in {"prepare", "oracle", "attempt", "report"}
    /\ pc = "oracle" => Len(manifest.preflight) < Tasks
    /\ pc = "attempt" => Current < Planned
    /\ Raise(InTry)
    /\ UNCHANGED <<runner, mode, files, jobs>>

LaunchFails ==
    /\ pc = "launch"
    /\ Raise(InTry \/ InAttempt)
    /\ UNCHANGED <<runner, mode, files, jobs>>

EpochFails ==
    /\ pc = "job" /\ runner = "replay"
    /\ jobs' = [jobs EXCEPT ![Current] = Lost]
    /\ Raise(InTry)
    /\ UNCHANGED <<runner, mode, files>>

(* A copy fails with OSError; a file that does not parse with another error. *)
ExportFails ==
    /\ pc = "export"
    /\ Raise(InTry \/ (InAttempt /\ ~jobs[Current].broken))
    /\ UNCHANGED <<runner, mode, files, jobs>>

(***************************************************************************)
(* The keyboard interrupts synchronous code anywhere; asyncio.run turns it *)
(* into a cancellation at the next await of a replay.  The line that       *)
(* announces an attempt of the retention study is outside its try clause.  *)
(* The process waited for is killed.                                       *)
(***************************************************************************)
KeyboardInterrupt ==
    /\ pc # "over"
    /\ runner = "replay" =>
          pc \in {"planned", "job", "report"} \/ (pc \in {"save", "replace"} /\ after = "planned")
    /\ Raise(InTry \/ InAttempt) \/ (pc = "launch" /\ Raise(InTry))
    /\ jobs' = IF pc = "job" THEN [jobs EXCEPT ![Current] = Lost] ELSE jobs
    /\ UNCHANGED <<runner, mode, files>>

(* The driver is killed; a process it started may live on. *)
Kill ==
    /\ pc # "over"
    /\ pending' \in IF pc = "save" THEN {pending, Torn} ELSE {pending}
    /\ Leave("killed")
    /\ UNCHANGED <<runner, mode, manifest, disk, jobs, code>>

Over == pc = "over" /\ UNCHANGED vars

Next ==
    \/ Write \/ Replace
    \/ PlanOnly \/ Start \/ Prepare \/ Oracle \/ OracleChecked \/ PreflightOver
    \/ Attempt \/ Launch \/ JobEnds \/ Export \/ AttemptsOver \/ Report \/ Return
    \/ SaveFails \/ StepFails \/ LaunchFails \/ EpochFails \/ ExportFails
    \/ KeyboardInterrupt \/ Kill
    \/ Over

Spec == Init /\ [][Next]_vars

---------------------------------------------------------------------------
(***************************************************************************)
(* Properties.                                                             *)
(***************************************************************************)
SavedRuns == IF disk = None THEN <<>> ELSE disk.runs

(***************************************************************************)
(* Wherever the driver was interrupted, failed or killed, the manifest on  *)
(* disk is whole and tells the truth: every attempt whose process was ever *)
(* started has its row ("Every attempted run stays in the manifest",       *)
(* docs/dynamo.md), a row is finished only with the result its process     *)
(* really left, and there are rows only behind a passed preflight.         *)
(***************************************************************************)
DiskTellsTruth ==
    /\ disk # Torn
    /\ \A i \in 1..Planned : jobs[i] # NotStarted => i \in DOMAIN SavedRuns
    /\ \A i \in DOMAIN SavedRuns : SavedRuns[i].status = "finished" =>
          /\ jobs[i] \in Outcomes /\ ~jobs[i].broken
          /\ SavedRuns[i].result = ExportRun(jobs[i])
    /\ (SavedRuns # <<>> /\ runner # "replay") =>
          /\ Len(disk.preflight) = Tasks
          /\ \A t \in DOMAIN disk.preflight : Passed(disk.preflight[t])

(***************************************************************************)
(* A driver that ends with success, having been asked to run, has saved a  *)
(* finished study in which every planned attempt ended with a reward and   *)
(* without an exception, for the pilot with a trace as well ("A missing    *)
(* trace makes the runner exit unsuccessfully", docs/dynamo.md).           *)
(***************************************************************************)
SuccessIsWhole ==
    (exit = "success" /\ mode = "run") =>
        /\ disk.state = "finished" /\ Len(disk.runs) = Planned
        /\ \A i \in 1..Planned :
              /\ disk.runs[i].status = "finished"
              /\ ~disk.runs[i].result.exception /\ disk.runs[i].result.reward # None
              /\ runner = "pilot" => disk.runs[i].result.trace

(***************************************************************************)
(* A saved study only grows: rows never disappear, a row that is finished  *)
(* or interrupted keeps its result, and a study saved as over is never     *)
(* written again.  (save_manifest and its callers)                         *)
(***************************************************************************)
SavedStudyOnlyGrows ==
    [][disk' # disk /\ disk # None =>
          /\ disk.state \notin OverStates
          /\ \A i \in DOMAIN disk.runs :
                /\ i \in DOMAIN disk'.runs
                /\ disk.runs[i].status # "running" => disk'.runs[i] = disk.runs[i]]_vars
=============================================================================
