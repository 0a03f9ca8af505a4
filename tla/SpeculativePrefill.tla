------------------------- MODULE SpeculativePrefill -------------------------
(***************************************************************************)
(* The warmup tasks of speculative_prefill.rs.  Every watched request has  *)
(* one asynchronous task, spawned on the tracker of its preprocessor's     *)
(* PrefillTasks; the task waits for the client turn, renders and tokenizes *)
(* the follow-up prefix in a blocking closure admitted by a process-wide   *)
(* semaphore, sends it through the pipeline and drains the answer.  Tasks  *)
(* run on several threads; a preprocessor may be dropped, or the runtime   *)
(* shut down, at any moment.                                               *)
(*                                                                         *)
(* pc[w] is where the task is.  "received", "starting", "admitting",       *)
(* "resumed" and "publishing" lie inside one poll, where the task's        *)
(* selects cannot notice a cancellation made by another thread; "waiting", *)
(* "rendering", "dispatching", "draining" and "winding" are the places     *)
(* where it is parked.  Time is left to the scheduler: a timer may expire  *)
(* whenever the task is parked under it.                                   *)
(***************************************************************************)
EXTENDS Naturals, FiniteSets

CONSTANTS Warmups,                  \* requests watched for a follow-up
          Preprocessors,            \* owners of a PrefillTasks
          OwnerOf,                  \* the preprocessor of each request
          MAX_BLOCKING_PREFILLS     \* permits of BLOCKING_PREFILL_ADMISSION

ASSUME WarmupsAssumption == IsFiniteSet(Warmups)
ASSUME OwnerAssumption == OwnerOf \in [Warmups -> Preprocessors]
ASSUME PermitsAssumption == MAX_BLOCKING_PREFILLS \in Nat

VARIABLES alive,        \* preprocessors not yet dropped
          cancelled,    \* preprocessors whose cancellation token is cancelled
          turn,         \* the oneshot channel: "open", "sent" or "lost"
          pc,           \* the asynchronous task
          own,          \* warmups whose child token warmup_cancel is cancelled by wind-down
          closure,      \* the blocking closure: phase, or its result once it has returned
          permits,      \* free permits of the semaphore
          slot,         \* context_slot: "none", "request" or "stream"
          down,         \* the request downstream: "none", "generating", "streaming",
                        \* "ended", "refused" or "dropped"
          stopped       \* warmups on one of whose contexts stop_generating was called

vars == <<alive, cancelled, turn, pc, own, closure, permits, slot, down, stopped>>

Off(w) == OwnerOf[w] \in cancelled

\* warmup_cancel.is_cancelled(): the child token of the preprocessor's token
WarmupCancelled(w) == Off(w) \/ w \in own

Phases == {"queued", "contract", "format", "encode"}

Results == {"tokens", "nothing", "error"}

Holds(w) == closure[w] \in Phases

Init ==
    /\ alive = Preprocessors
    /\ cancelled = {}
    /\ turn = [w \in Warmups |-> "open"]
    /\ pc = [w \in Warmups |-> "idle"]
    /\ own = {}
    /\ closure = [w \in Warmups |-> "none"]
    /\ permits = MAX_BLOCKING_PREFILLS
    /\ slot = [w \in Warmups |-> "none"]
    /\ down = [w \in Warmups |-> "none"]
    /\ stopped = {}

(***************************************************************************)
(* The owner and the client                                                *)
(***************************************************************************)
\* maybe_wrap_stream on an eligible request: the task is spawned.
Wrap(w) ==
    /\ pc[w] = "idle" /\ OwnerOf[w] \in alive
    /\ pc' = [pc EXCEPT ![w] = "waiting"]
    /\ UNCHANGED <<alive, cancelled, turn, own, closure, permits, slot, down, stopped>>

\* The wrapped stream ends with a usable turn, or ends or is dropped without one.
ClientTurn(w) ==
    /\ pc[w] # "idle" /\ turn[w] = "open"
    /\ \E outcome \in {"sent", "lost"} : turn' = [turn EXCEPT ![w] = outcome]
    /\ UNCHANGED <<alive, cancelled, pc, own, closure, permits, slot, down, stopped>>

\* Drop for PrefillTasks: cancel, and close the tracker.
DropTasks(p) ==
    /\ p \in alive
    /\ alive' = alive \ {p}
    /\ cancelled' = cancelled \cup {p}
    /\ UNCHANGED <<turn, pc, own, closure, permits, slot, down, stopped>>

\* The parent token of every PrefillTasks is cancelled.
RuntimeShutdown ==
    /\ cancelled # Preprocessors
    /\ cancelled' = Preprocessors
    /\ UNCHANGED <<alive, turn, pc, own, closure, permits, slot, down, stopped>>

(***************************************************************************)
(* The task up to its first poll of prefill_task                           *)
(***************************************************************************)
Goto(w, place) == pc' = [pc EXCEPT ![w] = place]

\* The first select, biased towards cancellation.
Receive(w) ==
    /\ pc[w] = "waiting"
    /\ \/ Off(w) /\ Goto(w, "gone")
       \/ ~Off(w) /\ turn[w] = "lost" /\ Goto(w, "gone")
       \/ ~Off(w) /\ turn[w] = "sent" /\ Goto(w, "received")
    /\ UNCHANGED <<alive, cancelled, turn, own, closure, permits, slot, down, stopped>>

\* The second select before anything was polled: a cancellation here finds an
\* empty slot, so wind-down drops the warmup.
Enter(w) ==
    /\ pc[w] = "received"
    /\ IF Off(w) THEN Goto(w, "gone") /\ own' = own \cup {w}
                 ELSE Goto(w, "starting") /\ UNCHANGED own
    /\ UNCHANGED <<alive, cancelled, turn, closure, permits, slot, down, stopped>>

Start(w) ==
    /\ pc[w] = "starting"
    /\ Goto(w, IF WarmupCancelled(w) THEN "gone" ELSE "admitting")
    /\ UNCHANGED <<alive, cancelled, turn, own, closure, permits, slot, down, stopped>>

\* Mutant: the closure is spawned whether or not there is a permit.
AdmitAlways(w) ==
    /\ pc[w] = "admitting"
    /\ Goto(w, "rendering")
    /\ permits' = IF permits = 0 THEN 0 ELSE permits - 1
    /\ closure' = [closure EXCEPT ![w] = "queued"]
    /\ UNCHANGED <<alive, cancelled, turn, own, slot, down, stopped>>

\* try_acquire_owned; the permit moves into the closure given to spawn_blocking.
Admit(w) ==
    /\ pc[w] = "admitting"
    /\ IF permits = 0
       THEN Goto(w, "gone") /\ UNCHANGED <<closure, permits>>
       ELSE /\ Goto(w, "rendering")
            /\ permits' = permits - 1
            /\ closure' = [closure EXCEPT ![w] = "queued"]
    /\ UNCHANGED <<alive, cancelled, turn, own, slot, down, stopped>>

(***************************************************************************)
(* The blocking closure, which nobody can interrupt                        *)
(***************************************************************************)
ClosureStep(w, next) ==
    /\ closure' = [closure EXCEPT ![w] = next]
    /\ permits' = IF next \in Results THEN permits + 1 ELSE permits
    /\ UNCHANGED <<alive, cancelled, turn, pc, own, slot, down, stopped>>

ClosureStart(w) ==
    /\ closure[w] = "queued"
    /\ ClosureStep(w, IF WarmupCancelled(w) THEN "nothing" ELSE "contract")

ClosureContract(w) ==
    /\ closure[w] = "contract"
    /\ \E supported \in BOOLEAN :
         ClosureStep(w, IF supported /\ ~WarmupCancelled(w) THEN "format" ELSE "nothing")

ClosureFormat(w) ==
    /\ closure[w] = "format"
    /\ \E outcome \in Results :
         ClosureStep(w, IF outcome # "tokens" THEN outcome
                        ELSE IF WarmupCancelled(w) THEN "nothing" ELSE "encode")

ClosureEncode(w) ==
    /\ closure[w] = "encode"
    /\ \E outcome \in Results : ClosureStep(w, outcome)

(***************************************************************************)
(* The task from the closure's result to the end of the answer             *)
(***************************************************************************)
\* The JoinHandle is ready and the select's cancellation branch is not.
Resume(w) ==
    /\ pc[w] = "rendering" /\ closure[w] \in Results /\ ~Off(w)
    /\ Goto(w, IF closure[w] = "tokens" THEN "resumed" ELSE "gone")
    /\ UNCHANGED <<alive, cancelled, turn, own, closure, permits, slot, down, stopped>>

\* Mutant: the token is not looked at again after the closure.
RecheckSkipped(w) ==
    /\ pc[w] = "resumed"
    /\ Goto(w, "publishing")
    /\ UNCHANGED <<alive, cancelled, turn, own, closure, permits, slot, down, stopped>>

Recheck(w) ==
    /\ pc[w] = "resumed"
    /\ Goto(w, IF WarmupCancelled(w) THEN "gone" ELSE "publishing")
    /\ UNCHANGED <<alive, cancelled, turn, own, closure, permits, slot, down, stopped>>

\* What one poll of generate and of the answer's stream comes to.
Answer(w, outcome) ==
    /\ down' = [down EXCEPT ![w] = CASE outcome = "pending" -> "generating"
                                     [] outcome = "opened"  -> "streaming"
                                     [] OTHER -> outcome]
    /\ slot' = [slot EXCEPT ![w] = CASE outcome = "opened"  -> "stream"
                                     [] outcome = "ended" /\ down[w] # "streaming" -> "stream"
                                     [] outcome = "pending" -> "request"
                                     [] OTHER -> @]

AfterAnswer(w, outcome, parked) ==
    Goto(w, IF outcome \in {"refused", "ended"} THEN "gone" ELSE parked)

\* The request's context is published, then generate is polled for the first time.
Publish(w) ==
    /\ pc[w] = "publishing"
    /\ \E outcome \in {"pending", "opened", "refused", "ended"} :
         /\ Answer(w, outcome)
         /\ AfterAnswer(w, outcome, IF outcome = "opened" THEN "draining" ELSE "dispatching")
    /\ UNCHANGED <<alive, cancelled, turn, own, closure, permits, stopped>>

\* generate returns a stream or fails, in a later poll.
Generated(w) ==
    /\ pc[w] = "dispatching" /\ ~Off(w)
    /\ \E outcome \in {"opened", "refused", "ended"} :
         Answer(w, outcome) /\ AfterAnswer(w, outcome, "draining")
    /\ UNCHANGED <<alive, cancelled, turn, own, closure, permits, stopped>>

Drained(w) ==
    /\ pc[w] = "draining" /\ ~Off(w)
    /\ Answer(w, "ended") /\ AfterAnswer(w, "ended", "draining")
    /\ UNCHANGED <<alive, cancelled, turn, own, closure, permits, stopped>>

(***************************************************************************)
(* Wind-down                                                               *)
(***************************************************************************)
\* Mutant: the select does not cover the wait for the closure.
ParkedDownstream(w) == pc[w] \in {"dispatching", "draining"}

Parked(w) == pc[w] \in {"rendering", "dispatching", "draining"}

\* Mutant: wind-down gives back the permit of a closure that still runs.
WindDownFreesPermit(w) ==
    /\ own' = own \cup {w}
    /\ IF slot[w] = "none"
       THEN Goto(w, "gone") /\ UNCHANGED <<slot, stopped>>
       ELSE /\ Goto(w, "winding")
            /\ slot' = [slot EXCEPT ![w] = "none"]
            /\ stopped' = stopped \cup {w}
    /\ permits' = IF Holds(w) THEN permits + 1 ELSE permits
    /\ UNCHANGED <<alive, cancelled, turn, closure, down>>

\* Mutant: wind-down drops the warmup without stopping its request.
WindDownDrops(w) ==
    /\ own' = own \cup {w}
    /\ Goto(w, "gone")
    /\ UNCHANGED <<alive, cancelled, turn, closure, permits, slot, down, stopped>>

\* Cancel the child token; without a context the warmup is dropped, with one
\* stop_downstream takes it and the warmup is polled on under the grace timer.
WindDown(w) ==
    /\ own' = own \cup {w}
    /\ IF slot[w] = "none"
       THEN Goto(w, "gone") /\ UNCHANGED <<slot, stopped>>
       ELSE /\ Goto(w, "winding")
            /\ slot' = [slot EXCEPT ![w] = "none"]
            /\ stopped' = stopped \cup {w}
    /\ UNCHANGED <<alive, cancelled, turn, closure, permits, down>>

SeeCancel(w) == Parked(w) /\ Off(w) /\ WindDown(w)

\* PREFILL_TASK_TIMEOUT
Timeout(w) == Parked(w) /\ ~Off(w) /\ WindDown(w)

WindingAnswer(w) ==
    /\ pc[w] = "winding"
    /\ \E outcome \in {"opened", "refused", "ended"} :
         /\ down[w] = "streaming" => outcome = "ended"
         /\ Answer(w, outcome) /\ AfterAnswer(w, outcome, "winding")
    /\ UNCHANGED <<alive, cancelled, turn, own, closure, permits, stopped>>

\* PREFILL_WIND_DOWN_GRACE: the future, and with it the stream, is dropped.
GraceExpires(w) ==
    /\ pc[w] = "winding"
    /\ Goto(w, "gone")
    /\ down' = [down EXCEPT ![w] = "dropped"]
    /\ UNCHANGED <<alive, cancelled, turn, own, closure, permits, slot, stopped>>

Task(w) ==
    \/ Receive(w) \/ Enter(w) \/ Start(w) \/ Admit(w)
    \/ Resume(w) \/ Recheck(w) \/ Publish(w) \/ SeeCancel(w)

Closure(w) == ClosureStart(w) \/ ClosureContract(w) \/ ClosureFormat(w) \/ ClosureEncode(w)

Downstream(w) == Generated(w) \/ Drained(w) \/ WindingAnswer(w)

Next ==
    \/ \E w \in Warmups :
         \/ Wrap(w) \/ ClientTurn(w)
         \/ Task(w) \/ Closure(w) \/ Downstream(w)
         \/ Timeout(w) \/ GraceExpires(w)
    \/ \E p \in Preprocessors : DropTasks(p)
    \/ RuntimeShutdown

\* The executor polls a woken task and the timers fire.  Nothing is assumed of
\* the client, the blocking work or the engine.
Fairness ==
    \A w \in Warmups :
        WF_vars(Task(w)) /\ WF_vars(Timeout(w)) /\ WF_vars(GraceExpires(w))

Spec == Init /\ [][Next]_vars /\ Fairness

(***************************************************************************)
(* Properties                                                              *)
(***************************************************************************)
TypeOK ==
    /\ alive \subseteq Preprocessors
    /\ cancelled \subseteq Preprocessors
    /\ turn \in [Warmups -> {"open", "sent", "lost"}]
    /\ pc \in [Warmups -> {"idle", "waiting", "received", "starting", "admitting", "rendering",
                           "resumed", "publishing", "dispatching", "draining", "winding", "gone"}]
    /\ own \subseteq Warmups
    /\ closure \in [Warmups -> {"none"} \cup Phases \cup Results]
    /\ permits \in Nat
    /\ slot \in [Warmups -> {"none", "request", "stream"}]
    /\ down \in [Warmups -> {"none", "generating", "streaming", "ended", "refused", "dropped"}]
    /\ stopped \subseteq Warmups

\* Whatever is cancelled, timed out or dropped, a permit of the process-wide
\* semaphore is out exactly as long as a closure is still on a blocking
\* thread: never more than MAX_BLOCKING_PREFILLS of them, none lost.
PermitsFollowClosures ==
    permits + Cardinality({w \in Warmups : Holds(w)}) = MAX_BLOCKING_PREFILLS

\* A task does not leave a request running downstream: once it is gone the
\* answer has ended, or was refused, or was dropped after stop_generating.
NothingLeftBehind ==
    \A w \in Warmups : pc[w] = "gone" =>
        /\ down[w] \notin {"generating", "streaming"}
        /\ down[w] = "dropped" => w \in stopped

\* Both resources of a warmup come back: its permit and its request.
WarmupsAccounted == PermitsFollowClosures /\ NothingLeftBehind

\* "Timeout or cancellation prevents late dispatch": once the warmup's token is
\* cancelled before the last check of prefill_task, it never goes downstream.
CalledOff(w) == WarmupCancelled(w) /\ down[w] = "none" /\ pc[w] # "publishing"

NoLateDispatch == [][\A w \in Warmups : CalledOff(w) => CalledOff(w)']_vars

\* Dropping the preprocessor, a lost turn, or a sent one that then runs into
\* its timers: every task ends, however long its closure or the engine stalls.
TasksEnd ==
    \A w \in Warmups :
        pc[w] # "idle" /\ (Off(w) \/ turn[w] # "open") ~> pc[w] = "gone"

\* The stage of a warmup in the abstract policy.
Stage(w) ==
    CASE pc[w] = "idle" -> "idle"
      [] pc[w] \in {"waiting", "received", "starting", "admitting"} -> "watching"
      [] pc[w] \in {"rendering", "resumed"} -> "preparing"
      [] pc[w] = "publishing" -> "committed"
      [] pc[w] \in {"dispatching", "draining", "winding"} -> "sent"
      [] OTHER -> "over"

Policy == INSTANCE WarmupPolicy WITH
            Owners <- Preprocessors,
            Slots <- MAX_BLOCKING_PREFILLS,
            stage <- [w \in Warmups |-> Stage(w)],
            busy <- {w \in Warmups : Holds(w)},
            off <- cancelled

\* The tasks implement the policy: forward once through the stages, bounded
\* preparation whose slot outlives its task, no commitment once switched off.
KeepsPolicy == Policy!PolicySpec

=============================================================================
