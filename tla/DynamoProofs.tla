---------------------------- MODULE DynamoProofs ----------------------------
(***************************************************************************)
(* Theorems about four parts of Dynamo: the warm-ups of the speculative    *)
(* prefill fix, for every set of requests, every assignment of requests to *)
(* preprocessors and every number of permits; the endpoints of a runtime,  *)
(* for any number of them, of failing outside calls and of sleep and wake  *)
(* calls, for both builds; the HTTP frontend, for any models, channel size *)
(* and number of changes of the catalog; and the adapter around the tool   *)
(* call jail, for responses of any length.                                 *)
(***************************************************************************)
EXTENDS SpeculativePrefill, EndpointLifecycle, HttpFrontend, ToolCallJail,
        SequenceTheorems, FiniteSetTheorems, WellFoundedInduction, TLAPS

(***************************************************************************)
(* The warm-ups of speculative prefill                                     *)
(***************************************************************************)

Holding == {w \in Warmups : Holds(w)}

(***************************************************************************)
(* The inductive invariant: where a task is determines how far its closure *)
(* and its request downstream can have come.                               *)
(***************************************************************************)
Before == {"idle", "waiting", "received", "starting", "admitting"}

Progress ==
    \A w \in Warmups :
        /\ pc[w] \in Before => closure[w] = "none"
        /\ pc[w] \in {"resumed", "publishing"} => closure[w] = "tokens"
        /\ pc[w] \in Before \cup {"rendering", "resumed", "publishing"} =>
             down[w] = "none" /\ slot[w] = "none"
        /\ pc[w] = "dispatching" => down[w] = "generating" /\ slot[w] = "request"
        /\ pc[w] = "draining" => down[w] = "streaming" /\ slot[w] = "stream"
        /\ pc[w] = "winding" => down[w] \in {"generating", "streaming"} /\ w \in stopped

WarmupInv == TypeOK /\ PermitsFollowClosures /\ Progress /\ NothingLeftBehind

(***************************************************************************)
(* Type correctness                                                        *)
(***************************************************************************)

\* The initial state has the types of TypeOK.
LEMMA TypeInit == Init => TypeOK
  BY PermitsAssumption DEF Init, TypeOK

\* A step of the closure keeps the types; a returned closure gives a permit back.
LEMMA ClosureType ==
  ASSUME TypeOK, NEW w \in Warmups, Closure(w)
  PROVE  TypeOK'
<1> USE DEF TypeOK, Phases, Results
<1>1. CASE ClosureStart(w)
  BY <1>1 DEF ClosureStart, ClosureStep
<1>2. CASE ClosureContract(w)
  BY <1>2 DEF ClosureContract, ClosureStep
<1>3. CASE ClosureFormat(w)
  BY <1>3 DEF ClosureFormat, ClosureStep
<1>4. CASE ClosureEncode(w)
  BY <1>4 DEF ClosureEncode, ClosureStep
<1> QED BY <1>1, <1>2, <1>3, <1>4 DEF Closure

\* A step of the task itself keeps the types.
LEMMA TaskType ==
  ASSUME TypeOK, NEW w \in Warmups, Task(w)
  PROVE  TypeOK'
<1> USE DEF TypeOK, Goto
<1>1. CASE Receive(w) BY <1>1 DEF Receive
<1>2. CASE Enter(w) BY <1>2 DEF Enter
<1>3. CASE Start(w) BY <1>3 DEF Start
<1>4. CASE Admit(w) BY <1>4 DEF Admit, Phases
<1>5. CASE Resume(w) BY <1>5 DEF Resume
<1>6. CASE Recheck(w) BY <1>6 DEF Recheck
<1>7. CASE Publish(w) BY <1>7 DEF Publish, Answer, AfterAnswer
<1>8. CASE SeeCancel(w) BY <1>8 DEF SeeCancel, WindDown
<1> QED BY <1>1, <1>2, <1>3, <1>4, <1>5, <1>6, <1>7, <1>8 DEF Task

\* Every step keeps the types.
LEMMA TypeStep == TypeOK /\ [Next]_vars => TypeOK'
<1> SUFFICES ASSUME TypeOK, [Next]_vars PROVE TypeOK' OBVIOUS
<1>1. ASSUME NEW w \in Warmups, Wrap(w) PROVE TypeOK'
  BY <1>1 DEF Wrap, TypeOK
<1>2. ASSUME NEW w \in Warmups, ClientTurn(w) PROVE TypeOK'
  BY <1>2 DEF ClientTurn, TypeOK
<1>3. ASSUME NEW w \in Warmups, Generated(w) PROVE TypeOK'
  BY <1>3 DEF Generated, Answer, AfterAnswer, Goto, TypeOK
<1>4. ASSUME NEW w \in Warmups, Drained(w) PROVE TypeOK'
  BY <1>4 DEF Drained, Answer, AfterAnswer, Goto, TypeOK
<1>5. ASSUME NEW w \in Warmups, WindingAnswer(w) PROVE TypeOK'
  BY <1>5 DEF WindingAnswer, Answer, AfterAnswer, Goto, TypeOK
<1>6. ASSUME NEW w \in Warmups, Timeout(w) PROVE TypeOK'
  BY <1>6 DEF Timeout, WindDown, Goto, TypeOK
<1>7. ASSUME NEW w \in Warmups, GraceExpires(w) PROVE TypeOK'
  BY <1>7 DEF GraceExpires, Goto, TypeOK
<1>8. ASSUME NEW p \in Preprocessors, DropTasks(p) PROVE TypeOK'
  BY <1>8 DEF DropTasks, TypeOK
<1>9. CASE RuntimeShutdown
  BY <1>9 DEF RuntimeShutdown, TypeOK
<1>10. CASE UNCHANGED vars
  BY <1>10 DEF vars, TypeOK
<1> QED
  BY <1>1, <1>2, <1>3, <1>4, <1>5, <1>6, <1>7, <1>8, <1>9, <1>10, TaskType, ClosureType
  DEF Next, Downstream

\* The task records, the permits and the contexts have their types throughout.
THEOREM TypeCorrect == Spec => []TypeOK
  BY TypeInit, TypeStep, PTL DEF Spec

(***************************************************************************)
(* The permits                                                             *)
(***************************************************************************)

\* The closures that hold a permit are finitely many.
LEMMA HoldingFinite == IsFiniteSet(Holding)
  BY WarmupsAssumption, FS_Subset DEF Holding

\* Initially no closure runs.
LEMMA PermitsInit == Init => PermitsFollowClosures
<1> SUFFICES ASSUME Init PROVE PermitsFollowClosures OBVIOUS
<1>1. {w \in Warmups : Holds(w)} = {}
  BY DEF Init, Holds, Phases
<1> QED BY <1>1, FS_EmptySet, PermitsAssumption DEF Init, PermitsFollowClosures

\* A step that moves no closure moves no permit.
LEMMA PermitsSame ==
  ASSUME PermitsFollowClosures, UNCHANGED <<closure, permits>>
  PROVE  PermitsFollowClosures'
  BY DEF PermitsFollowClosures, Holds, Phases

\* A closure that starts takes one permit with it.
LEMMA PermitsTaken ==
  ASSUME TypeOK, PermitsFollowClosures, NEW w \in Warmups,
         closure[w] \notin Phases, permits # 0, permits' = permits - 1,
         closure' = [closure EXCEPT ![w] = "queued"]
  PROVE  PermitsFollowClosures'
<1>1. Holding' = Holding \cup {w} /\ w \notin Holding
  BY DEF Holding, Holds, Phases, TypeOK
<1>2. Cardinality(Holding') = Cardinality(Holding) + 1
  BY <1>1, HoldingFinite, FS_AddElement
<1>3. Cardinality(Holding) \in Nat
  BY HoldingFinite, FS_CardinalityType
<1> QED BY <1>2, <1>3 DEF PermitsFollowClosures, Holding, TypeOK

\* A closure that returns gives its permit back; one that goes on keeps it.
LEMMA PermitsReturned ==
  ASSUME TypeOK, PermitsFollowClosures, NEW w \in Warmups, closure[w] \in Phases,
         NEW next \in Phases \cup Results, ClosureStep(w, next)
  PROVE  PermitsFollowClosures'
<1>1. Cardinality(Holding) \in Nat
  BY HoldingFinite, FS_CardinalityType
<1>2. CASE next \in Results
  <2>1. Holding' = Holding \ {w} /\ w \in Holding
    BY <1>2 DEF Holding, Holds, Phases, Results, TypeOK, ClosureStep
  <2>2. Cardinality(Holding') = Cardinality(Holding) - 1
    BY <2>1, HoldingFinite, FS_RemoveElement
  <2>3. permits' = permits + 1
    BY <1>2 DEF ClosureStep
  <2> QED BY <1>1, <2>2, <2>3 DEF PermitsFollowClosures, Holding, TypeOK
<1>3. CASE next \notin Results
  <2>1. Holding' = Holding /\ permits' = permits
    BY <1>3 DEF Holding, Holds, Phases, Results, TypeOK, ClosureStep
  <2> QED BY <2>1 DEF PermitsFollowClosures, Holding
<1> QED BY <1>2, <1>3

\* Every step of a closure is a ClosureStep from a phase to a phase or a result.
LEMMA ClosureSteps ==
  ASSUME NEW w \in Warmups, Closure(w)
  PROVE  /\ closure[w] \in Phases
         /\ \E next \in Phases \cup Results : ClosureStep(w, next)
<1> USE DEF Phases, Results
<1>1. CASE ClosureStart(w) BY <1>1 DEF ClosureStart
<1>2. CASE ClosureContract(w) BY <1>2 DEF ClosureContract
<1>3. CASE ClosureFormat(w)
  <2> PICK outcome \in Results :
        ClosureStep(w, IF outcome # "tokens" THEN outcome
                       ELSE IF WarmupCancelled(w) THEN "nothing" ELSE "encode")
    BY <1>3 DEF ClosureFormat
  <2> DEFINE next == IF outcome # "tokens" THEN outcome
                     ELSE IF WarmupCancelled(w) THEN "nothing" ELSE "encode"
  <2>1. next \in Phases \cup Results OBVIOUS
  <2>2. ClosureStep(w, next) OBVIOUS
  <2>3. closure[w] \in Phases BY <1>3 DEF ClosureFormat
  <2> HIDE DEF next
  <2> QED BY <2>1, <2>2, <2>3
<1>4. CASE ClosureEncode(w) BY <1>4 DEF ClosureEncode
<1> QED BY <1>1, <1>2, <1>3, <1>4 DEF Closure

(***************************************************************************)
(* Progress and the end of a task                                          *)
(***************************************************************************)

Settled == Progress /\ NothingLeftBehind

\* Initially every task is idle.
LEMMA SettledInit == Init => Settled
  BY DEF Init, Settled, Progress, NothingLeftBehind, Before

\* A closure's step never takes tokens away from a task that has them.
LEMMA SettledClosure ==
  ASSUME TypeOK, Settled, NEW w \in Warmups, Closure(w)
  PROVE  Settled'
<1>1. PICK next \in Phases \cup Results : ClosureStep(w, next)
  BY ClosureSteps
<1>2. closure[w] \in Phases
  BY ClosureSteps
<1> QED
  BY <1>1, <1>2 DEF ClosureStep, Settled, Progress, NothingLeftBehind, Before, TypeOK, Phases, Results

\* What an answer does to the record of the request downstream.
LEMMA AnswerEffect ==
  ASSUME TypeOK, NEW w \in Warmups, NEW outcome \in {"pending", "opened", "refused", "ended"},
         Answer(w, outcome)
  PROVE  /\ \A v \in Warmups \ {w} : down'[v] = down[v] /\ slot'[v] = slot[v]
         /\ outcome = "pending" => down'[w] = "generating" /\ slot'[w] = "request"
         /\ outcome = "opened" => down'[w] = "streaming" /\ slot'[w] = "stream"
         /\ outcome \in {"refused", "ended"} => down'[w] = outcome
<1> USE DEF Answer, TypeOK
<1>1. CASE outcome = "pending" BY <1>1
<1>2. CASE outcome = "opened" BY <1>2
<1>3. CASE outcome = "refused" BY <1>3
<1>4. CASE outcome = "ended" BY <1>4
<1> QED BY <1>1, <1>2, <1>3, <1>4

\* The task's own steps keep the record of how far it came.
LEMMA SettledTask ==
  ASSUME TypeOK, Settled, NEW w \in Warmups, Task(w)
  PROVE  Settled'
<1> USE DEF Settled, Progress, NothingLeftBehind, Before, TypeOK, Goto
<1>1. CASE Receive(w) BY <1>1 DEF Receive
<1>2. CASE Enter(w) BY <1>2 DEF Enter
<1>3. CASE Start(w) BY <1>3 DEF Start
<1>4. CASE Admit(w) BY <1>4 DEF Admit
<1>5. CASE Resume(w) BY <1>5 DEF Resume
<1>6. CASE Recheck(w) BY <1>6 DEF Recheck
<1>7. CASE Publish(w)
  <2> PICK outcome \in {"pending", "opened", "refused", "ended"} :
         /\ Answer(w, outcome)
         /\ AfterAnswer(w, outcome, IF outcome = "opened" THEN "draining" ELSE "dispatching")
    BY <1>7 DEF Publish
  <2> QED BY <1>7, AnswerEffect DEF Publish, AfterAnswer
<1>8. CASE SeeCancel(w) BY <1>8 DEF SeeCancel, WindDown, Parked
<1> QED BY <1>1, <1>2, <1>3, <1>4, <1>5, <1>6, <1>7, <1>8 DEF Task

\* Every step keeps the record of how far each task came.
LEMMA SettledStep == TypeOK /\ Settled /\ [Next]_vars => Settled'
<1> SUFFICES ASSUME TypeOK, Settled, [Next]_vars PROVE Settled' OBVIOUS
<1> USE DEF Settled, Progress, NothingLeftBehind, Before, TypeOK, Goto
<1>1. ASSUME NEW w \in Warmups, Wrap(w) PROVE Settled'
  BY <1>1 DEF Wrap
<1>2. ASSUME NEW w \in Warmups, ClientTurn(w) PROVE Settled'
  BY <1>2 DEF ClientTurn
<1>3. ASSUME NEW w \in Warmups, Generated(w) PROVE Settled'
  <2> PICK outcome \in {"opened", "refused", "ended"} :
         Answer(w, outcome) /\ AfterAnswer(w, outcome, "draining")
    BY <1>3 DEF Generated
  <2> QED BY <1>3, AnswerEffect DEF Generated, AfterAnswer
<1>4. ASSUME NEW w \in Warmups, Drained(w) PROVE Settled'
  BY <1>4, AnswerEffect DEF Drained, AfterAnswer
<1>5. ASSUME NEW w \in Warmups, WindingAnswer(w) PROVE Settled'
  <2> PICK outcome \in {"opened", "refused", "ended"} :
         Answer(w, outcome) /\ AfterAnswer(w, outcome, "winding")
    BY <1>5 DEF WindingAnswer
  <2> QED BY <1>5, AnswerEffect DEF WindingAnswer, AfterAnswer
<1>6. ASSUME NEW w \in Warmups, Timeout(w) PROVE Settled'
  BY <1>6 DEF Timeout, WindDown, Parked
<1>7. ASSUME NEW w \in Warmups, GraceExpires(w) PROVE Settled'
  BY <1>7 DEF GraceExpires
<1>8. ASSUME NEW p \in Preprocessors, DropTasks(p) PROVE Settled'
  BY <1>8 DEF DropTasks
<1>9. CASE RuntimeShutdown
  BY <1>9 DEF RuntimeShutdown
<1>10. CASE UNCHANGED vars
  BY <1>10 DEF vars
<1> QED
  BY <1>1, <1>2, <1>3, <1>4, <1>5, <1>6, <1>7, <1>8, <1>9, <1>10, SettledTask, SettledClosure
  DEF Next, Downstream

\* Only an admission and a returning closure move permits.
LEMMA PermitsStep == TypeOK /\ Settled /\ PermitsFollowClosures /\ [Next]_vars => PermitsFollowClosures'
<1> SUFFICES ASSUME TypeOK, Settled, PermitsFollowClosures, [Next]_vars
             PROVE  PermitsFollowClosures'
  OBVIOUS
<1>1. ASSUME NEW w \in Warmups, Admit(w) PROVE PermitsFollowClosures'
  <2>1. CASE permits = 0
    BY <1>1, <2>1, PermitsSame DEF Admit
  <2>2. CASE permits # 0
    <3>1. closure[w] \notin Phases
      BY <1>1 DEF Admit, Settled, Progress, Before, Phases
    <3> QED BY <1>1, <2>2, <3>1, PermitsTaken DEF Admit
  <2> QED BY <2>1, <2>2
<1>2. ASSUME NEW w \in Warmups, Closure(w) PROVE PermitsFollowClosures'
  BY <1>2, ClosureSteps, PermitsReturned
<1>3. ASSUME NEW w \in Warmups, Task(w), ~Admit(w) PROVE PermitsFollowClosures'
  BY <1>3, PermitsSame
  DEF Task, Receive, Enter, Start, Resume, Recheck, Publish, SeeCancel, WindDown
<1>4. ASSUME NEW w \in Warmups,
             Wrap(w) \/ ClientTurn(w) \/ Downstream(w) \/ Timeout(w) \/ GraceExpires(w)
      PROVE  PermitsFollowClosures'
  BY <1>4, PermitsSame
  DEF Wrap, ClientTurn, Downstream, Generated, Drained, WindingAnswer, Timeout, WindDown, GraceExpires
<1>5. ASSUME NEW p \in Preprocessors, DropTasks(p) PROVE PermitsFollowClosures'
  BY <1>5, PermitsSame DEF DropTasks
<1>6. CASE RuntimeShutdown
  BY <1>6, PermitsSame DEF RuntimeShutdown
<1>7. CASE UNCHANGED vars
  BY <1>7, PermitsSame DEF vars
<1> QED BY <1>1, <1>2, <1>3, <1>4, <1>5, <1>6, <1>7 DEF Next

\* The inductive invariant.
LEMMA Inductive == Spec => []WarmupInv
<1>1. Init => WarmupInv
  BY TypeInit, PermitsInit, SettledInit DEF WarmupInv, Settled
<1>2. WarmupInv /\ [Next]_vars => WarmupInv'
  BY TypeStep, PermitsStep, SettledStep DEF WarmupInv, Settled
<1> QED BY <1>1, <1>2, PTL DEF Spec

\* For any number of requests, preprocessors and permits: a permit of the
\* semaphore is out exactly as long as a closure runs, and no task that has
\* ended leaves its request running downstream unstopped.
THEOREM WarmupsAreAccounted == Spec => []WarmupsAccounted
  BY Inductive, PTL DEF WarmupInv, WarmupsAccounted

(***************************************************************************)
(* No late dispatch                                                        *)
(***************************************************************************)

\* A cancelled warmup stays cancelled: tokens are never reset.
LEMMA CancelIsFinal ==
  ASSUME TypeOK, [Next]_vars, NEW w \in Warmups, WarmupCancelled(w)
  PROVE  WarmupCancelled(w)'
<1> SUFFICES cancelled \subseteq cancelled' /\ own \subseteq own'
  BY DEF WarmupCancelled, Off
<1>1. ASSUME NEW v \in Warmups, Task(v) PROVE cancelled \subseteq cancelled' /\ own \subseteq own'
  BY <1>1
  DEF Task, Receive, Enter, Start, Admit, Resume, Recheck, Publish, SeeCancel, WindDown
<1>2. ASSUME NEW v \in Warmups, Closure(v) PROVE cancelled \subseteq cancelled' /\ own \subseteq own'
  BY <1>2, ClosureSteps DEF ClosureStep
<1>3. ASSUME NEW v \in Warmups,
             Wrap(v) \/ ClientTurn(v) \/ Downstream(v) \/ Timeout(v) \/ GraceExpires(v)
      PROVE  cancelled \subseteq cancelled' /\ own \subseteq own'
  BY <1>3
  DEF Wrap, ClientTurn, Downstream, Generated, Drained, WindingAnswer, Timeout, WindDown, GraceExpires
<1>4. ASSUME NEW p \in Preprocessors, DropTasks(p) PROVE cancelled \subseteq cancelled' /\ own \subseteq own'
  BY <1>4 DEF DropTasks
<1>5. CASE RuntimeShutdown
  BY <1>5 DEF RuntimeShutdown, TypeOK
<1>6. CASE UNCHANGED vars
  BY <1>6 DEF vars
<1> QED BY <1>1, <1>2, <1>3, <1>4, <1>5, <1>6 DEF Next

\* Once called off, a warmup neither passes the last check nor goes downstream.
LEMMA CalledOffStep ==
  ASSUME WarmupInv, [Next]_vars, NEW w \in Warmups, CalledOff(w)
  PROVE  down'[w] = "none" /\ pc'[w] # "publishing"
<1> USE DEF CalledOff, WarmupInv, TypeOK, Progress, Goto
<1>1. ASSUME NEW v \in Warmups, Task(v)
      PROVE  down'[w] = "none" /\ pc'[w] # "publishing"
  <2>1. CASE Publish(v)
    <3> PICK outcome \in {"pending", "opened", "refused", "ended"} :
           /\ Answer(v, outcome)
           /\ AfterAnswer(v, outcome, IF outcome = "opened" THEN "draining" ELSE "dispatching")
      BY <2>1 DEF Publish
    <3> QED BY <2>1, AnswerEffect DEF Publish, AfterAnswer
  <2>2. CASE Recheck(v) BY <2>2 DEF Recheck
  <2>3. CASE Receive(v) BY <2>3 DEF Receive
  <2>4. CASE Enter(v) BY <2>4 DEF Enter
  <2>5. CASE Start(v) BY <2>5 DEF Start
  <2>6. CASE Admit(v) BY <2>6 DEF Admit
  <2>7. CASE Resume(v) BY <2>7 DEF Resume
  <2>8. CASE SeeCancel(v) BY <2>8 DEF SeeCancel, WindDown
  <2> QED BY <1>1, <2>1, <2>2, <2>3, <2>4, <2>5, <2>6, <2>7, <2>8 DEF Task
<1>2. ASSUME NEW v \in Warmups, Closure(v)
      PROVE  down'[w] = "none" /\ pc'[w] # "publishing"
  BY <1>2, ClosureSteps DEF ClosureStep
<1>3. ASSUME NEW v \in Warmups, Downstream(v)
      PROVE  down'[w] = "none" /\ pc'[w] # "publishing"
  <2>1. pc[v] \in {"dispatching", "draining", "winding"} /\ v # w
    BY <1>3 DEF Downstream, Generated, Drained, WindingAnswer
  <2>2. PICK outcome \in {"opened", "refused", "ended"}, place \in {"draining", "winding"} :
          Answer(v, outcome) /\ AfterAnswer(v, outcome, place)
    BY <1>3 DEF Downstream, Generated, Drained, WindingAnswer
  <2> QED BY <2>1, <2>2, AnswerEffect DEF AfterAnswer
<1>4. ASSUME NEW v \in Warmups, Wrap(v) \/ ClientTurn(v) \/ Timeout(v) \/ GraceExpires(v)
      PROVE  down'[w] = "none" /\ pc'[w] # "publishing"
  BY <1>4 DEF Wrap, ClientTurn, Timeout, WindDown, GraceExpires
<1>5. ASSUME NEW p \in Preprocessors, DropTasks(p)
      PROVE  down'[w] = "none" /\ pc'[w] # "publishing"
  BY <1>5 DEF DropTasks
<1>6. CASE RuntimeShutdown BY <1>6 DEF RuntimeShutdown
<1>7. CASE UNCHANGED vars BY <1>7 DEF vars
<1> QED BY <1>1, <1>2, <1>3, <1>4, <1>5, <1>6, <1>7 DEF Next

\* A cancellation or timeout before the last check of prefill_task keeps the
\* warmup from ever going downstream.
THEOREM NoLateDispatchHolds == Spec => NoLateDispatch
<1>1. WarmupInv /\ [Next]_vars => [\A w \in Warmups : CalledOff(w) => CalledOff(w)']_vars
  <2> SUFFICES ASSUME WarmupInv, [Next]_vars, NEW w \in Warmups, CalledOff(w) PROVE CalledOff(w)'
    OBVIOUS
  <2>1. WarmupCancelled(w)'
    BY CancelIsFinal DEF WarmupInv, CalledOff
  <2>2. down'[w] = "none" /\ pc'[w] # "publishing"
    BY CalledOffStep
  <2> QED BY <2>1, <2>2 DEF CalledOff
<1> QED BY <1>1, Inductive, PTL DEF Spec, NoLateDispatch

(***************************************************************************)
(* The tasks implement the abstract policy                                 *)
(***************************************************************************)

Stages == [w \in Warmups |-> Stage(w)]

Places ==
    [idle |-> "idle", waiting |-> "watching", received |-> "watching", starting |-> "watching",
     admitting |-> "watching", rendering |-> "preparing", resumed |-> "preparing",
     publishing |-> "committed", dispatching |-> "sent", draining |-> "sent", winding |-> "sent",
     gone |-> "over"]

\* The stage of a task, by its place.
LEMMA StageOf ==
  ASSUME TypeOK, NEW w \in Warmups
  PROVE  Stage(w) = Places[pc[w]]
<1>1. pc[w] \in {"idle", "waiting", "received", "starting", "admitting", "rendering",
                 "resumed", "publishing", "dispatching", "draining", "winding", "gone"}
  BY DEF TypeOK
<1> QED BY <1>1 DEF Stage, Places

\* A task that moves changes its own stage only.
LEMMA StageMoves ==
  ASSUME TypeOK, TypeOK', NEW w \in Warmups, NEW place, Goto(w, place)
  PROVE  /\ Stages' = [Stages EXCEPT ![w] = Places[place]]
         /\ Stages[w] = Places[pc[w]]
<1>1. pc'[w] = place /\ \A v \in Warmups \ {w} : pc'[v] = pc[v]
  BY DEF Goto, TypeOK
<1>2. \A v \in Warmups : Stage(v) = Places[pc[v]] /\ Stage(v)' = Places[pc'[v]]
  BY StageOf DEF Stage, Places, TypeOK
<1> QED BY <1>1, <1>2 DEF Stages

\* What the policy calls busy.
LEMMA SameBusy ==
  ASSUME UNCHANGED closure
  PROVE  Holding' = Holding
  BY DEF Holding, Holds, Phases

PolicyStep == [Policy!PolicyNext]_<<Stages, Holding, cancelled>>

\* A task that ends without touching its closure gives up in the policy.
LEMMA EndsInPolicy ==
  ASSUME TypeOK, TypeOK', NEW w \in Warmups, pc[w] \notin {"idle", "gone"}, Goto(w, "gone"),
         UNCHANGED <<closure, cancelled>>
  PROVE  PolicyStep
<1>1. Stages' = [Stages EXCEPT ![w] = "over"] /\ Stages[w] = Places[pc[w]]
  BY StageMoves DEF Places
<1>2. Stages[w] \notin {"idle", "over"}
  BY <1>1 DEF Places, TypeOK
<1>3. Policy!End(w)
  BY <1>1, <1>2, SameBusy DEF Policy!End, Stages, Holding
<1> QED BY <1>3 DEF PolicyStep, Policy!PolicyNext

\* A task that moves within a stage is invisible to the policy.
LEMMA MovesWithinStage ==
  ASSUME TypeOK, TypeOK', NEW w \in Warmups, NEW place, Goto(w, place), Places[place] = Places[pc[w]],
         UNCHANGED <<closure, cancelled>>
  PROVE  PolicyStep
<1>1. Stages' = Stages
  BY StageMoves DEF Stages
<1> QED BY <1>1, SameBusy DEF PolicyStep

\* A step that moves neither a task nor a closure nor a token is invisible.
LEMMA InvisibleStep ==
  ASSUME UNCHANGED <<pc, closure, cancelled>>
  PROVE  PolicyStep
  BY SameBusy DEF PolicyStep, Stages, Stage

\* Admission is a Prepare of the policy: a free permit means a free slot.
LEMMA AdmitInPolicy ==
  ASSUME WarmupInv, TypeOK', NEW w \in Warmups, Admit(w)
  PROVE  PolicyStep
<1>1. CASE permits = 0
  BY <1>1, EndsInPolicy DEF Admit, WarmupInv
<1>2. CASE permits # 0
  <2>1. Cardinality(Holding) \in Nat
    BY HoldingFinite, FS_CardinalityType
  <2>2. Cardinality(Holding) < MAX_BLOCKING_PREFILLS
    BY <1>2, <2>1, PermitsAssumption DEF WarmupInv, TypeOK, PermitsFollowClosures, Holding
  <2>3. Stages' = [Stages EXCEPT ![w] = "preparing"] /\ Stages[w] = "watching"
    BY <1>2, StageMoves DEF Admit, Places, WarmupInv
  <2>4. Holding' = Holding \cup {w}
    BY <1>2 DEF Admit, Holding, Holds, Phases, WarmupInv, TypeOK
  <2>5. UNCHANGED cancelled
    BY DEF Admit
  <2>c. Policy!Cardinality(Holding) = Cardinality(Holding)
    BY DEF Policy!Cardinality, Cardinality
  <2>6. Policy!Prepare(w)
    BY <2>2, <2>3, <2>4, <2>5, <2>c DEF Policy!Prepare, Policy!Move, Stages, Holding
  <2> QED BY <2>6 DEF PolicyStep, Policy!PolicyNext
<1> QED BY <1>1, <1>2

\* A closure that returns releases its slot, whatever became of its task.
LEMMA ClosureInPolicy ==
  ASSUME WarmupInv, NEW w \in Warmups, Closure(w)
  PROVE  PolicyStep
<1>1. PICK next \in Phases \cup Results : ClosureStep(w, next)
  BY ClosureSteps
<1>2. closure[w] \in Phases
  BY ClosureSteps
<1>3. Stages' = Stages /\ cancelled' = cancelled
  BY <1>1 DEF ClosureStep, Stages, Stage
<1>4. CASE next \in Results
  <2>1. Holding' = Holding \ {w} /\ w \in Holding
    BY <1>1, <1>2, <1>4 DEF Holding, Holds, Phases, Results, WarmupInv, TypeOK, ClosureStep
  <2>2. Policy!Release(w)
    BY <1>3, <2>1 DEF Policy!Release, Stages, Holding
  <2> QED BY <2>2 DEF PolicyStep, Policy!PolicyNext
<1>5. CASE next \notin Results
  <2>1. Holding' = Holding
    BY <1>1, <1>2, <1>5 DEF Holding, Holds, Phases, Results, WarmupInv, TypeOK, ClosureStep
  <2> QED BY <1>3, <2>1 DEF PolicyStep
<1> QED BY <1>4, <1>5

\* The last check of prefill_task is the commitment of the policy.
LEMMA RecheckInPolicy ==
  ASSUME WarmupInv, TypeOK', NEW w \in Warmups, Recheck(w)
  PROVE  PolicyStep
<1>1. CASE WarmupCancelled(w)
  BY <1>1, EndsInPolicy DEF Recheck, WarmupInv
<1>2. CASE ~WarmupCancelled(w)
  <2>1. Stages' = [Stages EXCEPT ![w] = "committed"] /\ Stages[w] = "preparing"
    BY <1>2, StageMoves DEF Recheck, Places, WarmupInv
  <2>2. w \notin Holding
    BY DEF Recheck, WarmupInv, Progress, Holding, Holds, Phases
  <2>3. OwnerOf[w] \notin cancelled
    BY <1>2 DEF WarmupCancelled, Off
  <2>4. Holding' = Holding /\ UNCHANGED cancelled
    BY SameBusy DEF Recheck
  <2>5. Policy!Commit(w)
    BY <2>1, <2>2, <2>3, <2>4 DEF Policy!Commit, Policy!Move, Stages, Holding
  <2> QED BY <2>5 DEF PolicyStep, Policy!PolicyNext
<1> QED BY <1>1, <1>2

\* Dispatching is the policy's Send, or its End when the first poll finishes it.
LEMMA PublishInPolicy ==
  ASSUME WarmupInv, TypeOK', NEW w \in Warmups, Publish(w)
  PROVE  PolicyStep
<1>1. PICK outcome \in {"pending", "opened", "refused", "ended"} :
        AfterAnswer(w, outcome, IF outcome = "opened" THEN "draining" ELSE "dispatching")
  BY DEF Publish
<1>2. pc[w] = "publishing" /\ UNCHANGED <<closure, cancelled>>
  BY DEF Publish
<1>3. CASE outcome \in {"refused", "ended"}
  BY <1>1, <1>2, <1>3, EndsInPolicy DEF AfterAnswer, WarmupInv
<1>4. CASE outcome \notin {"refused", "ended"}
  <2>1. PICK place \in {"draining", "dispatching"} : Goto(w, place)
    BY <1>1, <1>4 DEF AfterAnswer
  <2>2. Stages' = [Stages EXCEPT ![w] = "sent"] /\ Stages[w] = "committed"
    BY <1>2, <2>1, StageMoves DEF Places, WarmupInv
  <2>3. Policy!Send(w)
    BY <1>2, <2>2, SameBusy DEF Policy!Send, Policy!Move, Stages, Holding
  <2> QED BY <2>3 DEF PolicyStep, Policy!PolicyNext
<1> QED BY <1>3, <1>4

\* Winding down ends a warmup that was not sent and changes nothing otherwise.
LEMMA WindDownInPolicy ==
  ASSUME WarmupInv, TypeOK', NEW w \in Warmups, Parked(w), WindDown(w)
  PROVE  PolicyStep
<1>1. UNCHANGED <<closure, cancelled>> /\ pc[w] \in {"rendering", "dispatching", "draining"}
  BY DEF WindDown, Parked
<1>2. CASE slot[w] = "none"
  BY <1>1, <1>2, EndsInPolicy DEF WindDown, WarmupInv
<1>3. CASE slot[w] # "none"
  <2>1. pc[w] \in {"dispatching", "draining"}
    BY <1>1, <1>3 DEF WarmupInv, Progress
  <2>2. Places["winding"] = Places[pc[w]]
    BY <2>1 DEF Places
  <2> QED BY <1>1, <1>3, <2>2, MovesWithinStage DEF WindDown, WarmupInv
<1> QED BY <1>2, <1>3

\* The task's own steps are steps of the policy.
LEMMA TaskInPolicy ==
  ASSUME WarmupInv, TypeOK', NEW w \in Warmups, Task(w)
  PROVE  PolicyStep
<1>1. CASE Receive(w)
  <2>1. CASE Goto(w, "gone")
    BY <1>1, <2>1, EndsInPolicy DEF Receive, WarmupInv
  <2>2. CASE Goto(w, "received")
    BY <1>1, <2>2, MovesWithinStage DEF Receive, WarmupInv, Places
  <2> QED BY <1>1, <2>1, <2>2 DEF Receive
<1>2. CASE Enter(w)
  <2>1. CASE Off(w)
    BY <1>2, <2>1, EndsInPolicy DEF Enter, WarmupInv
  <2>2. CASE ~Off(w)
    BY <1>2, <2>2, MovesWithinStage DEF Enter, WarmupInv, Places
  <2> QED BY <2>1, <2>2
<1>3. CASE Start(w)
  <2>1. CASE WarmupCancelled(w)
    BY <1>3, <2>1, EndsInPolicy DEF Start, WarmupInv
  <2>2. CASE ~WarmupCancelled(w)
    BY <1>3, <2>2, MovesWithinStage DEF Start, WarmupInv, Places
  <2> QED BY <2>1, <2>2
<1>4. CASE Resume(w)
  <2>1. CASE closure[w] = "tokens"
    BY <1>4, <2>1, MovesWithinStage DEF Resume, WarmupInv, Places
  <2>2. CASE closure[w] # "tokens"
    BY <1>4, <2>2, EndsInPolicy DEF Resume, WarmupInv
  <2> QED BY <2>1, <2>2
<1>5. CASE SeeCancel(w)
  BY <1>5, WindDownInPolicy DEF SeeCancel
<1> QED
  BY <1>1, <1>2, <1>3, <1>4, <1>5, AdmitInPolicy, RecheckInPolicy, PublishInPolicy DEF Task

\* What happens downstream ends a sent warmup or is invisible.
LEMMA DownstreamInPolicy ==
  ASSUME WarmupInv, TypeOK', NEW w \in Warmups, Downstream(w)
  PROVE  PolicyStep
<1>1. /\ UNCHANGED <<closure, cancelled>>
      /\ pc[w] \in {"dispatching", "draining", "winding"}
      /\ \E outcome \in {"opened", "refused", "ended"}, place \in {"draining", "winding"} :
           AfterAnswer(w, outcome, place)
  BY DEF Downstream, Generated, Drained, WindingAnswer
<1>2. PICK place \in {"draining", "winding", "gone"} : Goto(w, place)
  BY <1>1 DEF AfterAnswer
<1>3. CASE place = "gone"
  BY <1>1, <1>2, <1>3, EndsInPolicy DEF WarmupInv
<1>4. CASE place # "gone"
  <2>1. Places[place] = Places[pc[w]]
    BY <1>1, <1>4 DEF Places
  <2> QED BY <1>1, <1>2, <2>1, MovesWithinStage DEF WarmupInv
<1> QED BY <1>3, <1>4

\* A cancelled token switches its owner off.
LEMMA CancelInPolicy ==
  ASSUME WarmupInv, NEW owners \in SUBSET Preprocessors, cancelled' = cancelled \cup owners,
         UNCHANGED <<pc, closure>>
  PROVE  PolicyStep
<1>1. Policy!SwitchOff(owners)
  BY SameBusy DEF Policy!SwitchOff, Stages, Stage, Holding
<1> QED BY <1>1 DEF PolicyStep, Policy!PolicyNext

\* Every step of the tasks is a step of the policy or invisible to it.
LEMMA NextInPolicy ==
  ASSUME WarmupInv, TypeOK', [Next]_vars
  PROVE  PolicyStep
<1>1. ASSUME NEW w \in Warmups, Wrap(w) PROVE PolicyStep
  <2>0. Goto(w, "waiting") /\ pc[w] = "idle"
    BY <1>1 DEF Wrap, Goto
  <2>1. Stages' = [Stages EXCEPT ![w] = "watching"] /\ Stages[w] = "idle"
    BY <2>0, StageMoves DEF Places, WarmupInv
  <2>2. Policy!Watch(w)
    BY <1>1, <2>1, SameBusy DEF Policy!Watch, Policy!Move, Stages, Holding, Wrap
  <2> QED BY <2>2 DEF PolicyStep, Policy!PolicyNext
<1>2. ASSUME NEW w \in Warmups, ClientTurn(w) PROVE PolicyStep
  BY <1>2, InvisibleStep DEF ClientTurn
<1>3. ASSUME NEW w \in Warmups, Timeout(w) PROVE PolicyStep
  BY <1>3, WindDownInPolicy DEF Timeout
<1>4. ASSUME NEW w \in Warmups, GraceExpires(w) PROVE PolicyStep
  BY <1>4, EndsInPolicy DEF GraceExpires, WarmupInv
<1>5. ASSUME NEW p \in Preprocessors, DropTasks(p) PROVE PolicyStep
  BY <1>5, CancelInPolicy DEF DropTasks
<1>6. CASE RuntimeShutdown
  BY <1>6, CancelInPolicy DEF RuntimeShutdown, WarmupInv, TypeOK
<1>7. CASE UNCHANGED vars
  BY <1>7, InvisibleStep DEF vars
<1> QED
  BY <1>1, <1>2, <1>3, <1>4, <1>5, <1>6, <1>7, TaskInPolicy, ClosureInPolicy, DownstreamInPolicy
  DEF Next

\* The warmup tasks implement WarmupPolicy: stages in order and once, slots
\* bounded and held until the closure returns, no commitment after switch-off.
THEOREM ImplementsPolicy == Spec => KeepsPolicy
<1>1. Init => Policy!PolicyInit
  BY DEF Init, Policy!PolicyInit, Stage, Holds, Phases
<1>2. WarmupInv /\ TypeOK' /\ [Next]_vars => [Policy!PolicyNext]_(Policy!policyVars)
  BY NextInPolicy DEF PolicyStep, Policy!policyVars, Stages, Holding
<1> QED BY <1>1, <1>2, Inductive, TypeCorrect, PTL DEF Spec, KeepsPolicy, Policy!PolicySpec

(***************************************************************************)
(* The endpoints of a runtime                                              *)
(***************************************************************************)

(***************************************************************************)
(* The inductive invariant.  An endpoint is in the server from its         *)
(* registration to the last step of its cleanup; it is in discovery while  *)
(* it serves, because discovery refused to withdraw it, or because a wake  *)
(* put it there before its start ended or after its withdrawal.            *)
(***************************************************************************)
Registered(e) == step[e] \in {"discover", "rollback", "serving", "remove"}

Unwithdrawn(e) == step[e] \in {"remove", "done"} /\ e \in refused

InPlace(e) ==
  /\ Registered(e) => e \in handlers
  /\ e \in published => step[e] = "serving" \/ Unwithdrawn(e) \/ e \in strays

EndpointInv == EndpointTypeOK /\ \A e \in Endpoints : InPlace(e)

\* Every endpoint but e is as it was.
Elsewhere(e) ==
  \A d \in Endpoints : d # e =>
    /\ step'[d] = step[d]
    /\ d \in handlers' <=> d \in handlers
    /\ d \in published' <=> d \in published
    /\ d \in refused' <=> d \in refused
    /\ d \in strays' <=> d \in strays

(***************************************************************************)
(* Types                                                                   *)
(***************************************************************************)

\* Every step of the runtime keeps the types of its state.
LEMMA TypeKeeps ==
  ASSUME MaxFaults \in Nat, MaxCalls \in Nat, EndpointTypeOK, [EndpointNext]_endpointVars
  PROVE  EndpointTypeOK'
<1>1. CASE RuntimeStops
  BY <1>1 DEF RuntimeStops, entryVars, EndpointTypeOK
<1>2. ASSUME NEW e \in Endpoints, StartEndpoint(e) PROVE EndpointTypeOK'
  BY <1>2 DEF StartEndpoint, entryVars, MoveTo, Fault, EndpointTypeOK
<1>3. ASSUME NEW e \in Endpoints, RequestPlaneServer(e) PROVE EndpointTypeOK'
  <2>1. bound' \in BOOLEAN
    BY <1>3 DEF RequestPlaneServer, EndpointTypeOK
  <2> QED BY <1>3, <2>1 DEF RequestPlaneServer, entryVars, MoveTo, Fault, EndpointTypeOK
<1>4. ASSUME NEW e \in Endpoints, Prepare(e) PROVE EndpointTypeOK'
  <2>1. bound' \in BOOLEAN
    BY <1>4 DEF Prepare, TransportBuilt, EndpointTypeOK
  <2> QED BY <1>4, <2>1 DEF Prepare, entryVars, MoveTo, Fault, EndpointTypeOK
<1>5. ASSUME NEW e \in Endpoints, RegisterEndpoint(e) PROVE EndpointTypeOK'
  BY <1>5 DEF RegisterEndpoint, entryVars, MoveTo, Fault, EndpointTypeOK
<1>6. ASSUME NEW e \in Endpoints, Discover(e) PROVE EndpointTypeOK'
  BY <1>6 DEF Discover, entryVars, MoveTo, Fault, EndpointTypeOK
<1>7. ASSUME NEW e \in Endpoints, Rollback(e) \/ Remove(e) PROVE EndpointTypeOK'
  BY <1>7 DEF Rollback, Remove, RemoveHandler, Untrack, entryVars, MoveTo, Fault, EndpointTypeOK
<1>8. ASSUME NEW e \in Endpoints, Shutdown(e) \/ Withdraw(e) PROVE EndpointTypeOK'
  BY <1>8 DEF Shutdown, Withdraw, Unpublish, entryVars, MoveTo, Fault, EndpointTypeOK
<1>9. ASSUME NEW e \in Endpoints, NEW kind \in {"sleep", "wake"}, Call(e, kind)
      PROVE  EndpointTypeOK'
  BY <1>9 DEF Call, entryVars, EndpointTypeOK
<1>10. ASSUME NEW e \in Endpoints, CallTransport(e) PROVE EndpointTypeOK'
  <2>1. bound' \in BOOLEAN
    BY <1>10 DEF CallTransport, TransportBuilt, TransportRefused, EndpointTypeOK
  <2> QED BY <1>10, <2>1 DEF CallTransport, TransportRefused, Return, entryVars, Fault,
         EndpointTypeOK
<1>11. ASSUME NEW e \in Endpoints, CallDiscovery(e) PROVE EndpointTypeOK'
  BY <1>11 DEF CallDiscovery, Return, Unpublish, entryVars, Fault, EndpointTypeOK
<1>12. CASE UNCHANGED endpointVars
  BY <1>12 DEF endpointVars, EndpointTypeOK
<1> QED BY <1>1, <1>2, <1>3, <1>4, <1>5, <1>6, <1>7, <1>8, <1>9, <1>10, <1>11, <1>12
        DEF EndpointNext, Step, Caller

(***************************************************************************)
(* The steps of one endpoint                                               *)
(***************************************************************************)

\* A step of one endpoint keeps the invariant if it keeps that endpoint's part.
LEMMA OneEndpointMoves ==
  ASSUME EndpointInv, EndpointTypeOK', NEW e \in Endpoints, Elsewhere(e), InPlace(e)'
  PROVE  EndpointInv'
<1> SUFFICES ASSUME NEW d \in Endpoints, d # e PROVE InPlace(d)'
  BY DEF EndpointInv
<1>1. InPlace(d)
  BY DEF EndpointInv
<1> QED BY <1>1 DEF InPlace, Elsewhere, Registered, Unwithdrawn

\* The start of an endpoint.
LEMMA StartKeeps ==
  ASSUME MaxFaults \in Nat, MaxCalls \in Nat, EndpointInv, NEW e \in Endpoints,
         StartEndpoint(e) \/ RequestPlaneServer(e) \/ Prepare(e) \/ RegisterEndpoint(e)
                  \/ Discover(e) \/ Rollback(e)
  PROVE  EndpointInv'
<1> USE DEF EndpointInv
<1>0. EndpointTypeOK' /\ InPlace(e)
  BY TypeKeeps DEF EndpointTypeOK, EndpointNext, Step, Caller
<1>1. CASE StartEndpoint(e)
  <2>1. Elsewhere(e) /\ InPlace(e)'
    BY <1>0, <1>1 DEF StartEndpoint, MoveTo, Fault, entryVars, Elsewhere,
       InPlace, Registered, Unwithdrawn, EndpointTypeOK
  <2> QED BY <1>0, <2>1, OneEndpointMoves
<1>2. CASE RequestPlaneServer(e)
  <2>1. Elsewhere(e) /\ InPlace(e)'
    BY <1>0, <1>2 DEF RequestPlaneServer, MoveTo, Fault, entryVars, Elsewhere,
       InPlace, Registered, Unwithdrawn, EndpointTypeOK
  <2> QED BY <1>0, <2>1, OneEndpointMoves
<1>3. CASE Prepare(e)
  <2>1. Elsewhere(e) /\ InPlace(e)'
    BY <1>0, <1>3 DEF Prepare, MoveTo, Fault, entryVars, Elsewhere,
       InPlace, Registered, Unwithdrawn, EndpointTypeOK
  <2> QED BY <1>0, <2>1, OneEndpointMoves
<1>4. CASE RegisterEndpoint(e)
  <2>1. Elsewhere(e) /\ InPlace(e)'
    BY <1>0, <1>4 DEF RegisterEndpoint, MoveTo, Fault, entryVars, Elsewhere,
       InPlace, Registered, Unwithdrawn, EndpointTypeOK
  <2> QED BY <1>0, <2>1, OneEndpointMoves
<1>5. CASE Discover(e)
  <2>1. Elsewhere(e) /\ InPlace(e)'
    BY <1>0, <1>5 DEF Discover, MoveTo, Fault, entryVars, Elsewhere,
       InPlace, Registered, Unwithdrawn, EndpointTypeOK
  <2> QED BY <1>0, <2>1, OneEndpointMoves
<1>6. CASE Rollback(e)
  <2>1. Elsewhere(e) /\ InPlace(e)'
    BY <1>0, <1>6 DEF Rollback, RemoveHandler, MoveTo, Fault, entryVars, Elsewhere,
       InPlace, Registered, Unwithdrawn, EndpointTypeOK
  <2> QED BY <1>0, <2>1, OneEndpointMoves
<1> QED BY <1>1, <1>2, <1>3, <1>4, <1>5, <1>6

\* The end of an endpoint: its token, then its cleanup task.
LEMMA EndKeeps ==
  ASSUME MaxFaults \in Nat, MaxCalls \in Nat, EndpointInv, NEW e \in Endpoints,
         Shutdown(e) \/ Withdraw(e) \/ Remove(e)
  PROVE  EndpointInv'
<1> USE DEF EndpointInv
<1>0. EndpointTypeOK' /\ InPlace(e)
  BY TypeKeeps DEF EndpointTypeOK, EndpointNext, Step, Caller
<1>1. CASE Shutdown(e)
  <2>1. Elsewhere(e) /\ InPlace(e)'
    BY <1>0, <1>1 DEF Shutdown, entryVars, Elsewhere,
       InPlace, Registered, Unwithdrawn, EndpointTypeOK
  <2> QED BY <1>0, <2>1, OneEndpointMoves
<1>2. CASE Withdraw(e)
  <2>1. Elsewhere(e) /\ InPlace(e)'
    BY <1>0, <1>2 DEF Withdraw, Unpublish, MoveTo, Fault, entryVars, Elsewhere,
       InPlace, Registered, Unwithdrawn, EndpointTypeOK
  <2> QED BY <1>0, <2>1, OneEndpointMoves
<1>3. CASE Remove(e)
  <2>1. Elsewhere(e) /\ InPlace(e)'
    BY <1>0, <1>3 DEF Remove, RemoveHandler, MoveTo, Fault, entryVars, Elsewhere,
       InPlace, Registered, Unwithdrawn, EndpointTypeOK
  <2> QED BY <1>0, <2>1, OneEndpointMoves
<1> QED BY <1>1, <1>2, <1>3

\* Sleep and wake calls.
LEMMA CallKeeps ==
  ASSUME MaxFaults \in Nat, MaxCalls \in Nat, EndpointInv, NEW e \in Endpoints,
         \/ \E kind \in {"sleep", "wake"} : Call(e, kind)
         \/ Caller(e)
  PROVE  EndpointInv'
<1> USE DEF EndpointInv
<1>0. EndpointTypeOK' /\ InPlace(e)
  BY TypeKeeps DEF EndpointTypeOK, EndpointNext, Step, Caller
<1>1. ASSUME NEW kind \in {"sleep", "wake"}, Call(e, kind) PROVE EndpointInv'
  <2>1. Elsewhere(e) /\ InPlace(e)'
    BY <1>0, <1>1 DEF Call, entryVars, Elsewhere,
       InPlace, Registered, Unwithdrawn, EndpointTypeOK
  <2> QED BY <1>0, <2>1, OneEndpointMoves
<1>2. CASE CallTransport(e)
  <2>1. Elsewhere(e) /\ InPlace(e)'
    BY <1>0, <1>2 DEF CallTransport, TransportRefused, Return, Fault, entryVars, Elsewhere,
       InPlace, Registered, Unwithdrawn, EndpointTypeOK
  <2> QED BY <1>0, <2>1, OneEndpointMoves
<1>3. CASE CallDiscovery(e)
  <2>1. Elsewhere(e) /\ InPlace(e)'
    BY <1>0, <1>3 DEF CallDiscovery, Return, Unpublish, Fault, entryVars, Elsewhere,
       InPlace, Registered, Unwithdrawn, EndpointTypeOK
  <2> QED BY <1>0, <2>1, OneEndpointMoves
<1> QED BY <1>1, <1>2, <1>3 DEF Caller

\* Every step of the runtime keeps the invariant.
LEMMA EndpointNextKeeps ==
  ASSUME MaxFaults \in Nat, MaxCalls \in Nat, EndpointInv, [EndpointNext]_endpointVars
  PROVE  EndpointInv'
<1>1. CASE RuntimeStops
  <2>1. EndpointTypeOK'
    BY <1>1, TypeKeeps DEF EndpointInv, EndpointNext
  <2>2. ASSUME NEW e \in Endpoints PROVE InPlace(e)'
    <3>1. InPlace(e)
      BY DEF EndpointInv
    <3>2. UNCHANGED <<step, handlers, published, refused, strays>>
      BY <1>1 DEF RuntimeStops, entryVars
    <3> QED BY <3>1, <3>2 DEF InPlace, Registered, Unwithdrawn
  <2> QED BY <2>1, <2>2 DEF EndpointInv
<1>2. CASE \E e \in Endpoints :
             \/ StartEndpoint(e) \/ Shutdown(e) \/ Step(e) \/ Caller(e)
             \/ \E kind \in {"sleep", "wake"} : Call(e, kind)
  BY <1>2, StartKeeps, EndKeeps, CallKeeps DEF Step
<1>3. CASE UNCHANGED endpointVars
  BY <1>3 DEF endpointVars, EndpointInv, EndpointTypeOK, InPlace, Registered, Unwithdrawn
<1> QED BY <1>1, <1>2, <1>3 DEF EndpointNext

\* A runtime begins with nothing started.
LEMMA EndpointInitInv ==
  ASSUME MaxFaults \in Nat, MaxCalls \in Nat, EndpointInit
  PROVE  EndpointInv
<1>1. bound \in BOOLEAN /\ stopping \in BOOLEAN
  BY DEF EndpointInit
<1>2. EndpointTypeOK
  BY <1>1 DEF EndpointInit, EndpointTypeOK
<1>3. ASSUME NEW e \in Endpoints PROVE InPlace(e)
  BY DEF EndpointInit, InPlace, Registered, Unwithdrawn
<1> QED BY <1>2, <1>3 DEF EndpointInv

\* What a router finds in discovery is served, for any set of endpoints, any
\* failing calls and wakes at any time; the exceptions are the instances that
\* discovery refused to withdraw and those a wake published before the start
\* ended or after the withdrawal.
\* (start_with_registration, its cleanup task, register_endpoint_instance)
THEOREM DiscoveredIsServed == EndpointSpec => []PublishedIsServed
<1>1. EndpointInit => EndpointInv
  BY EndpointInitInv, EndpointAssumption
<1>2. EndpointInv /\ [EndpointNext]_endpointVars => EndpointInv'
  BY EndpointNextKeeps, EndpointAssumption
<1>3. EndpointInv => PublishedIsServed
  BY DEF EndpointInv, EndpointTypeOK, InPlace, Registered, Unwithdrawn, PublishedIsServed
<1> QED BY <1>1, <1>2, <1>3, PTL DEF EndpointSpec

(***************************************************************************)
(* The graceful shutdown tracker, whatever callers do                      *)
(***************************************************************************)
Held == {e \in Endpoints \cap Graceful : Registered(e)}

TrackerCounts == tracker = Cardinality(Held)

\* The tracker follows the endpoints into and out of the server.
LEMMA TrackerKeeps ==
  ASSUME IsFiniteSet(Endpoints), EndpointTypeOK, TrackerCounts, [EndpointNext]_endpointVars
  PROVE  TrackerCounts'
<1>1. IsFiniteSet(Held)
  BY FS_Subset DEF Held
<1>2. CASE UNCHANGED tracker /\ \A e \in Endpoints \cap Graceful : Registered(e)' <=> Registered(e)
  <2>1. Held' = Held
    BY <1>2 DEF Held
  <2> QED BY <1>2, <2>1 DEF TrackerCounts
<1>3. ASSUME NEW e \in Endpoints, RegisterEndpoint(e) PROVE TrackerCounts'
  <2>1. /\ ~Registered(e)
        /\ \A d \in Endpoints : d # e => step'[d] = step[d]
        /\ \/ /\ step'[e] = "discover"
              /\ tracker' = IF e \in Graceful THEN tracker + 1 ELSE tracker
           \/ step'[e] = "failed" /\ UNCHANGED tracker
    BY <1>3 DEF RegisterEndpoint, MoveTo, Registered, EndpointTypeOK
  <2>2. CASE e \in Graceful /\ step'[e] = "discover"
    <3>1. Held' = Held \cup {e} /\ e \notin Held
      BY <2>1, <2>2 DEF Held, Registered
    <3> QED BY <1>1, <2>1, <2>2, <3>1, FS_AddElement DEF TrackerCounts
  <2>3. CASE ~(e \in Graceful /\ step'[e] = "discover")
    BY <1>2, <2>1, <2>3 DEF Registered
  <2> QED BY <2>2, <2>3
<1>4. ASSUME NEW e \in Endpoints, Rollback(e) \/ Remove(e) PROVE TrackerCounts'
  <2>1. /\ Registered(e) /\ step'[e] \in {"failed", "done"}
        /\ \A d \in Endpoints : d # e => step'[d] = step[d]
        /\ tracker' = IF e \in Graceful THEN tracker - 1 ELSE tracker
    BY <1>4 DEF Rollback, Remove, Untrack, MoveTo, Registered, EndpointTypeOK
  <2>2. CASE e \in Graceful
    <3>1. Held' = Held \ {e} /\ e \in Held
      BY <2>1, <2>2 DEF Held, Registered
    <3> QED BY <1>1, <2>1, <2>2, <3>1, FS_RemoveElement DEF TrackerCounts
  <2>3. CASE e \notin Graceful
    BY <1>2, <2>1, <2>3 DEF Registered
  <2> QED BY <2>2, <2>3
<1>5. ASSUME NEW e \in Endpoints, StartEndpoint(e) \/ RequestPlaneServer(e) \/ Prepare(e)
      PROVE TrackerCounts'
  <2>1. /\ ~Registered(e) /\ step'[e] \in {"server", "transport", "register", "failed"}
        /\ \A d \in Endpoints : d # e => step'[d] = step[d]
        /\ UNCHANGED tracker
    BY <1>5 DEF StartEndpoint, RequestPlaneServer, Prepare, MoveTo, Registered, EndpointTypeOK
  <2> QED BY <1>2, <2>1 DEF Registered
<1>6. ASSUME NEW e \in Endpoints, Discover(e) \/ Withdraw(e) PROVE TrackerCounts'
  <2>1. /\ Registered(e) /\ step'[e] \in {"serving", "rollback", "remove"}
        /\ \A d \in Endpoints : d # e => step'[d] = step[d]
        /\ UNCHANGED tracker
    BY <1>6 DEF Discover, Withdraw, MoveTo, Registered, EndpointTypeOK
  <2> QED BY <1>2, <2>1 DEF Registered
<1>7. ASSUME UNCHANGED <<step, tracker>> PROVE TrackerCounts'
  BY <1>2, <1>7 DEF Registered
<1>8. CASE RuntimeStops \/ UNCHANGED endpointVars
  BY <1>7, <1>8 DEF RuntimeStops, endpointVars
<1>9. ASSUME NEW e \in Endpoints, Shutdown(e) \/ Caller(e) PROVE TrackerCounts'
  BY <1>7, <1>9 DEF Shutdown, Caller, CallTransport, CallDiscovery
<1>10. ASSUME NEW e \in Endpoints, NEW kind \in {"sleep", "wake"}, Call(e, kind)
       PROVE TrackerCounts'
  BY <1>7, <1>10 DEF Call
<1> QED BY <1>3, <1>4, <1>5, <1>6, <1>8, <1>9, <1>10 DEF EndpointNext, Step

\* The tracker a shutdown waits for counts exactly the graceful endpoints
\* between their registration and the last step of their rollback or cleanup,
\* on every failing path: it is never negative and reaches zero only with the
\* last of them.  (register_endpoint and unregister_endpoint of the tracker)
THEOREM TrackerIsExact ==
  EndpointSpec => []TrackerCounts
<1>1. EndpointInit => EndpointTypeOK /\ TrackerCounts
  <2> SUFFICES ASSUME EndpointInit PROVE TrackerCounts
    BY EndpointInitInv, EndpointAssumption DEF EndpointInv
  <2>1. Held = {}
    BY DEF EndpointInit, Held, Registered
  <2> QED BY <2>1, FS_EmptySet DEF EndpointInit, TrackerCounts
<1>2. EndpointTypeOK /\ TrackerCounts /\ [EndpointNext]_endpointVars =>
        (EndpointTypeOK /\ TrackerCounts)'
  BY TypeKeeps, TrackerKeeps, EndpointAssumption
<1> QED BY <1>1, <1>2, PTL DEF EndpointSpec

(***************************************************************************)
(* The HTTP frontend                                                       *)
(***************************************************************************)

(***************************************************************************)
(* The inductive invariant speaks of the updates that are still on their   *)
(* way, and of the flags as they will be once the enabler has retracted    *)
(* what it found, or is about to find, vacated.                            *)
(***************************************************************************)
Queue == IF unsent = <<>> THEN updates ELSE Append(updates, unsent)

\* The endpoints of a model, and those the catalog calls for.
TypesOf(m) == Types(UnitsOf[m])
Needed == UNION {TypesOf(m) : m \in catalog}

\* An addition on its way is still true, or its removal follows it.
AdditionsAreUndone ==
  \A i \in DOMAIN Queue : Queue[i][1] = "Added" =>
    \/ Queue[i][2] \in catalog
    \/ \E j \in DOMAIN Queue : j > i /\ Queue[j] = <<"Removed", Queue[i][2]>>

\* An endpoint the catalog calls for is enabled for good, or will be.
NeededComes ==
  \A t \in Needed :
    \/ t \in enabled /\ t \notin Types(vacated)
    \/ \E i \in DOMAIN Queue : Queue[i][1] = "Added" /\ t \in TypesOf(Queue[i][2])

\* An endpoint enabled without a model behind it will be retracted.
UnneededGoes ==
  \A t \in enabled \ Needed :
    \/ t \in Types(unchecked) \/ t \in Types(vacated)
    \/ \E i \in DOMAIN Queue : Queue[i][1] = "Removed" /\ t \in TypesOf(Queue[i][2])

\* The trace registration is held exactly while run is at work, and nothing
\* happens to the catalog before the watcher runs.
FrontendPhases ==
  /\ traces = IF phase \in {"run", "rejected", "failed", "returned"} THEN 0 ELSE 1
  /\ ~Watching => /\ catalog = {} /\ unsent = <<>> /\ updates = <<>>
                  /\ unchecked = {} /\ vacated = {}
  /\ config.dynamic /\ ~Watching => enabled = {}

FrontendInv ==
  /\ FrontendTypeOK /\ FrontendPhases
  /\ config.dynamic => AdditionsAreUndone /\ NeededComes /\ UnneededGoes

(***************************************************************************)
(* The queue                                                               *)
(***************************************************************************)

\* The queue holds updates.
LEMMA QueueType ==
  ASSUME FrontendTypeOK
  PROVE  Queue \in Seq(Updates) /\ DOMAIN Queue = 1..Len(Queue) /\ Len(Queue) \in Nat
<1>1. Queue \in Seq(Updates)
  BY AppendProperties DEF Queue, FrontendTypeOK
<1> QED BY <1>1, LenProperties

\* The watcher appends to it.
LEMMA QueueGrows ==
  ASSUME FrontendTypeOK, NEW kind \in {"Added", "Removed"},
         NEW m \in Models, Change(kind, m)
  PROVE  /\ Len(Queue') = Len(Queue) + 1
         /\ \A i \in 1..Len(Queue) : Queue'[i] = Queue[i]
         /\ Queue'[Len(Queue) + 1] = <<kind, m>>
<1>1. Queue = updates /\ updates' = updates /\ unsent' = <<kind, m>> /\ updates \in Seq(Updates)
  BY DEF Change, Queue, FrontendTypeOK
<1>2. <<kind, m>> # <<>> /\ <<kind, m>> \in Updates
  BY DEF Updates
<1>3. Queue' = Append(updates, <<kind, m>>)
  BY <1>1, <1>2 DEF Queue
<1> QED BY <1>1, <1>2, <1>3, AppendProperties

\* Sending moves an update within it.
LEMMA QueueSent ==
  ASSUME FrontendTypeOK, Send
  PROVE  Queue' = Queue
<1>1. updates' = Append(updates, unsent) /\ unsent' = <<>> /\ unsent # <<>>
  BY DEF Send
<1> QED BY <1>1 DEF Queue

\* The enabler takes its head.
LEMMA QueueShifts ==
  ASSUME FrontendTypeOK, Added \/ Removed
  PROVE  /\ Len(Queue) > 0 /\ Queue[1] = Head(updates)
         /\ Len(Queue') = Len(Queue) - 1
         /\ \A i \in 1..Len(Queue') : Queue'[i] = Queue[i + 1]
<1>1. updates # <<>> /\ updates' = Tail(updates) /\ unsent' = unsent
  BY DEF Added, Removed, NextUpdate
<1>2. updates \in Seq(Updates) /\ unsent \in Updates \cup {<<>>}
  BY DEF FrontendTypeOK
<1>3. /\ Len(updates) > 0 /\ updates[1] = Head(updates)
      /\ updates' \in Seq(Updates) /\ Len(updates') = Len(updates) - 1
      /\ \A i \in 1..Len(updates') : updates'[i] = updates[i + 1]
  BY <1>1, <1>2, HeadTailProperties, EmptySeq
<1>4. CASE unsent = <<>>
  BY <1>1, <1>3, <1>4 DEF Queue
<1>5. CASE unsent # <<>>
  <2>1. Queue = Append(updates, unsent) /\ Queue' = Append(updates', unsent)
    BY <1>1, <1>5 DEF Queue
  <2>2. /\ Len(Queue) = Len(updates) + 1 /\ Queue[Len(updates) + 1] = unsent
        /\ \A i \in 1..Len(updates) : Queue[i] = updates[i]
    BY <1>2, <1>5, <2>1, AppendProperties
  <2>3. /\ Len(Queue') = Len(updates') + 1 /\ Queue'[Len(updates') + 1] = unsent
        /\ \A i \in 1..Len(updates') : Queue'[i] = updates'[i]
    BY <1>2, <1>3, <1>5, <2>1, AppendProperties
  <2> QED BY <1>2, <1>3, <2>2, <2>3, LenProperties
<1> QED BY <1>4, <1>5

\* An endpoint of some units is an endpoint of one of them.
LEMMA InTypes == \A U, t : t \in Types(U) <=> \E u \in U : t \in EndpointsOf[u]
  BY DEF Types

\* A needed endpoint is one of a unit of a model in the catalog.
LEMMA InNeeded ==
  \A t : t \in Needed <=> \E m \in catalog : \E u \in UnitsOf[m] : t \in EndpointsOf[u]
  BY InTypes DEF Needed, TypesOf

(***************************************************************************)
(* Types and phases                                                        *)
(***************************************************************************)

\* The steps of HttpFrontend.run.
LEMMA RunKeeps ==
  ASSUME FrontendTypeOK, FrontendPhases,
         Check \/ Initialise \/ Build \/ RunWatcher \/ ServerExits \/ Drain \/ CancelPrimary
  PROVE  FrontendTypeOK' /\ FrontendPhases'
<1>1. UNCHANGED <<config, catalog, unsent, updates, unchecked, vacated, changes>>
  BY DEF Check, Initialise, Build, RunWatcher, ServerExits, Drain, CancelPrimary, tasks
<1>2. shutdown' \in BOOLEAN
  BY DEF Check, Initialise, Build, RunWatcher, ServerExits, Drain, CancelPrimary, FrontendTypeOK
<1>3. /\ phase' \in {"run", "initialise", "build", "start", "serve", "abort",
                     "drain", "rejected", "failed", "returned"}
      /\ traces' = IF phase' \in {"run", "rejected", "failed", "returned"} THEN 0 ELSE 1
  BY DEF Check, Initialise, Build, RunWatcher, ServerExits, Drain, CancelPrimary,
     FrontendTypeOK, FrontendPhases
<1>4. enabled' \subseteq EndpointTypes
  BY DEF Check, Initialise, Build, RunWatcher, ServerExits, Drain, CancelPrimary, tasks,
     FrontendTypeOK
<1>5. FrontendTypeOK'
  BY <1>1, <1>2, <1>3, <1>4 DEF FrontendTypeOK, Updates
<1>6. ~Watching' => ~Watching
  BY <1>1 DEF Check, Initialise, Build, RunWatcher, ServerExits, Drain, CancelPrimary, Watching
<1>7. config.dynamic /\ ~Watching' => enabled' = enabled
  BY <1>6 DEF Check, Initialise, Build, RunWatcher, ServerExits, Drain, CancelPrimary, tasks,
     FrontendPhases
<1> QED BY <1>1, <1>3, <1>5, <1>6, <1>7 DEF FrontendPhases

\* The steps of the watcher and of the enabler.
LEMMA TasksKeep ==
  ASSUME FrontendTypeOK, FrontendPhases,
         \/ \E kind \in {"Added", "Removed"}, m \in Models : Change(kind, m)
         \/ Send \/ Added \/ Removed \/ Retract \/ \E u \in Units : CheckUnit(u)
  PROVE  FrontendTypeOK' /\ FrontendPhases'
<1>1. Watching
  BY DEF Change, Send, Added, Removed, Retract, CheckUnit, NextUpdate, FrontendPhases
<1>2. UNCHANGED <<config, phase, traces, shutdown>>
  BY DEF Change, Send, Added, Removed, Retract, CheckUnit
<1>3. Watching' /\ FrontendPhases'
  BY <1>1, <1>2 DEF Watching, FrontendPhases
<1>4. CASE \E kind \in {"Added", "Removed"}, m \in Models : Change(kind, m)
  <2>1. PICK kind \in {"Added", "Removed"}, m \in Models : Change(kind, m)
    BY <1>4
  <2>2. catalog' \subseteq Models /\ unsent' \in Updates /\ changes' \in 0..MaxChanges
    BY <2>1, FrontendAssumption DEF Change, FrontendTypeOK, Updates
  <2>3. UNCHANGED <<updates, unchecked, vacated, enabled>>
    BY <2>1 DEF Change
  <2> QED BY <1>2, <1>3, <2>2, <2>3 DEF FrontendTypeOK
<1>5. CASE Send
  <2>1. updates' \in Seq(Updates) /\ unsent' = <<>>
    BY <1>5, AppendProperties DEF Send, FrontendTypeOK
  <2>2. UNCHANGED <<catalog, unchecked, vacated, enabled, changes>>
    BY <1>5 DEF Send
  <2> QED BY <1>2, <1>3, <2>1, <2>2 DEF FrontendTypeOK
<1>6. CASE Added \/ Removed
  <2>1. updates \in Seq(Updates) /\ updates # <<>> /\ updates' = Tail(updates)
    BY <1>6 DEF Added, Removed, NextUpdate, FrontendTypeOK
  <2>2. Head(updates)[2] \in Models /\ updates' \in Seq(Updates)
    <3>1. Head(updates) \in Updates /\ Tail(updates) \in Seq(Updates)
      BY <2>1, HeadTailProperties
    <3> QED BY <2>1, <3>1 DEF Updates
  <2>3. UnitsOf[Head(updates)[2]] \subseteq Units
    BY <2>2, FrontendAssumption
  <2>4. Types(UnitsOf[Head(updates)[2]]) \subseteq EndpointTypes
    BY <2>3, InTypes, FrontendAssumption
  <2>5. /\ unchecked' \subseteq Units /\ vacated' \subseteq Units
        /\ enabled' \subseteq EndpointTypes
    BY <1>6, <2>3, <2>4 DEF Added, Removed, FrontendTypeOK
  <2>6. UNCHANGED <<catalog, unsent, changes>>
    BY <1>6 DEF Added, Removed
  <2> QED BY <1>2, <1>3, <2>2, <2>5, <2>6 DEF FrontendTypeOK
<1>7. CASE Retract
  BY <1>2, <1>3, <1>7 DEF Retract, FrontendTypeOK
<1>8. CASE \E u \in Units : CheckUnit(u)
  <2>1. /\ unchecked' \subseteq Units /\ vacated' \subseteq Units
        /\ UNCHANGED <<catalog, unsent, updates, enabled, changes>>
    BY <1>8 DEF CheckUnit, FrontendTypeOK
  <2> QED BY <1>2, <1>3, <2>1 DEF FrontendTypeOK
<1> QED BY <1>4, <1>5, <1>6, <1>7, <1>8

(***************************************************************************)
(* The flags                                                               *)
(***************************************************************************)
FlagsFollow == AdditionsAreUndone /\ NeededComes /\ UnneededGoes

\* A change of the catalog puts on its way what it calls for.
LEMMA ChangeKeeps ==
  ASSUME FrontendTypeOK, FrontendTypeOK', FlagsFollow, NEW kind \in {"Added", "Removed"},
         NEW m \in Models,
         Change(kind, m)
  PROVE  FlagsFollow'
<1> USE DEF FlagsFollow
<1>1. /\ Len(Queue') = Len(Queue) + 1
      /\ \A i \in 1..Len(Queue) : Queue'[i] = Queue[i]
      /\ Queue'[Len(Queue) + 1] = <<kind, m>>
  BY QueueGrows
<1>2. DOMAIN Queue = 1..Len(Queue) /\ DOMAIN Queue' = 1..Len(Queue') /\ Len(Queue) \in Nat
  BY QueueType
<1>3. PICK n \in DOMAIN Queue' : /\ n = Len(Queue) + 1 /\ Queue'[n] = <<kind, m>>
                                 /\ n \notin DOMAIN Queue
                                 /\ \A i \in DOMAIN Queue : n > i
                                 /\ DOMAIN Queue' = DOMAIN Queue \cup {n}
                                 /\ \A i \in DOMAIN Queue : Queue'[i] = Queue[i]
  BY <1>1, <1>2
<1>4. /\ UNCHANGED <<enabled, unchecked, vacated>>
      /\ catalog' = IF kind = "Added" THEN catalog \cup {m} ELSE catalog \ {m}
  BY DEF Change
<1>5. <<kind, m>>[1] = kind /\ <<kind, m>>[2] = m
  OBVIOUS
<1>6. AdditionsAreUndone'
  <2> SUFFICES ASSUME NEW i \in DOMAIN Queue', Queue'[i][1] = "Added", Queue'[i][2] \notin catalog'
               PROVE  \E j \in DOMAIN Queue' : j > i /\ Queue'[j] = <<"Removed", Queue'[i][2]>>
    BY DEF AdditionsAreUndone
  <2>1. i \in DOMAIN Queue /\ Queue'[i] = Queue[i]
    BY <1>3, <1>4, <1>5
  <2>2. CASE Queue[i][2] \in catalog
    BY <1>3, <1>4, <2>1, <2>2
  <2>3. CASE Queue[i][2] \notin catalog
    BY <1>3, <2>1, <2>3 DEF AdditionsAreUndone
  <2> QED BY <2>2, <2>3
<1>7. NeededComes'
  <2> SUFFICES ASSUME NEW t \in Needed'
               PROVE  \/ t \in enabled' /\ t \notin Types(vacated)'
                      \/ \E i \in DOMAIN Queue' : Queue'[i][1] = "Added" /\ t \in TypesOf(Queue'[i][2])
    BY DEF NeededComes, TypesOf, Types
  <2>1. CASE t \in Needed
    BY <1>3, <1>4, <2>1 DEF NeededComes, Types
  <2>2. CASE t \notin Needed
    <3>1. kind = "Added" /\ t \in TypesOf(m)
      BY <1>4, <2>2 DEF Needed, TypesOf, Types
    <3> QED BY <1>3, <1>5, <3>1
  <2> QED BY <2>1, <2>2
<1>8. UnneededGoes'
  <2> SUFFICES ASSUME NEW t \in enabled, t \notin Needed',
                      t \notin Types(unchecked), t \notin Types(vacated)
               PROVE  \E i \in DOMAIN Queue' : Queue'[i][1] = "Removed" /\ t \in TypesOf(Queue'[i][2])
    BY <1>4 DEF UnneededGoes, TypesOf, Types
  <2>1. CASE t \notin Needed
    BY <1>3, <2>1 DEF UnneededGoes
  <2>2. CASE t \in Needed
    <3>1. kind = "Removed" /\ t \in TypesOf(m)
      BY <1>4, <2>2 DEF Needed, TypesOf, Types
    <3> QED BY <1>3, <1>5, <3>1
  <2> QED BY <2>1, <2>2
<1> QED BY <1>6, <1>7, <1>8

\* An addition taken from the queue enables what it was on its way for; if it
\* is no longer true, its removal is still in the queue.
LEMMA AddedKeeps ==
  ASSUME FrontendTypeOK, FrontendTypeOK', FlagsFollow, Added
  PROVE  FlagsFollow'
<1> USE DEF FlagsFollow
<1>1. /\ Len(Queue) > 0 /\ Queue[1] = Head(updates)
      /\ Len(Queue') = Len(Queue) - 1
      /\ \A i \in 1..Len(Queue') : Queue'[i] = Queue[i + 1]
  BY QueueShifts
<1>2. DOMAIN Queue = 1..Len(Queue) /\ DOMAIN Queue' = 1..Len(Queue') /\ Len(Queue) \in Nat
  BY QueueType
<1>3. /\ 1 \in DOMAIN Queue
      /\ \A i \in DOMAIN Queue' : i \in Nat /\ i + 1 \in DOMAIN Queue /\ Queue'[i] = Queue[i + 1]
      /\ \A i \in DOMAIN Queue : i # 1 => i - 1 \in DOMAIN Queue' /\ Queue'[i - 1] = Queue[i]
  <2>1. ASSUME NEW i \in DOMAIN Queue, i # 1
        PROVE  i - 1 \in DOMAIN Queue' /\ Queue'[i - 1] = Queue[i]
    BY <1>1, <1>2, <2>1
  <2> QED BY <1>1, <1>2, <2>1
<1>4. PICK m : /\ m = Queue[1][2] /\ Queue[1][1] = "Added"
               /\ enabled' = enabled \cup TypesOf(m)
               /\ unchecked = {} /\ vacated = {}
               /\ UNCHANGED <<unchecked, vacated, catalog>>
  BY <1>1 DEF Added, NextUpdate, TypesOf
<1>5. Types(unchecked) = {} /\ Types(vacated) = {} /\ Needed' = Needed
  BY <1>4 DEF Types, Needed, TypesOf
<1>6. AdditionsAreUndone'
  <2> SUFFICES ASSUME NEW i \in DOMAIN Queue', Queue'[i][1] = "Added", Queue'[i][2] \notin catalog'
               PROVE  \E j \in DOMAIN Queue' : j > i /\ Queue'[j] = <<"Removed", Queue'[i][2]>>
    BY DEF AdditionsAreUndone
  <2>1. i \in Nat /\ i + 1 \in DOMAIN Queue /\ Queue'[i] = Queue[i + 1]
    BY <1>3
  <2>2. PICK j \in DOMAIN Queue : j > i + 1 /\ Queue[j] = <<"Removed", Queue[i + 1][2]>>
    BY <1>4, <2>1 DEF AdditionsAreUndone
  <2>3. j \in Nat /\ j - 1 > i /\ j - 1 \in DOMAIN Queue' /\ Queue'[j - 1] = Queue[j]
    BY <1>2, <1>3, <2>1, <2>2
  <2> QED BY <2>1, <2>2, <2>3
<1>7. NeededComes'
  <2> SUFFICES ASSUME NEW t \in Needed, t \notin enabled'
               PROVE  \E i \in DOMAIN Queue' : Queue'[i][1] = "Added" /\ t \in TypesOf(Queue'[i][2])
    BY <1>4, <1>5 DEF NeededComes, TypesOf, Types
  <2>1. PICK i \in DOMAIN Queue : Queue[i][1] = "Added" /\ t \in TypesOf(Queue[i][2])
    BY <1>4 DEF NeededComes
  <2>2. i # 1
    BY <1>4, <2>1
  <2> QED BY <1>3, <2>1, <2>2
<1>8. UnneededGoes'
  <2> SUFFICES ASSUME NEW t \in enabled', t \notin Needed
               PROVE  \E i \in DOMAIN Queue' : Queue'[i][1] = "Removed" /\ t \in TypesOf(Queue'[i][2])
    BY <1>4, <1>5 DEF UnneededGoes, TypesOf, Types
  <2>1. CASE t \in TypesOf(m)
    <3>1. m \notin catalog
      BY <2>1 DEF Needed
    <3>2. PICK j \in DOMAIN Queue : j > 1 /\ Queue[j] = <<"Removed", m>>
      BY <1>3, <1>4, <3>1 DEF AdditionsAreUndone
    <3>3. Queue[j][1] = "Removed" /\ Queue[j][2] = m /\ j # 1
      BY <1>2, <3>2
    <3> QED BY <1>3, <2>1, <3>3
  <2>2. CASE t \notin TypesOf(m)
    <3>1. PICK i \in DOMAIN Queue : Queue[i][1] = "Removed" /\ t \in TypesOf(Queue[i][2])
      BY <1>4, <1>5, <2>2 DEF UnneededGoes
    <3>2. i # 1
      BY <1>4, <3>1
    <3> QED BY <1>3, <3>1, <3>2
  <2> QED BY <2>1, <2>2
<1> QED BY <1>6, <1>7, <1>8

\* A removal taken from the queue puts the units of its card up to be looked at.
LEMMA RemovedKeeps ==
  ASSUME FrontendTypeOK, FrontendTypeOK', FlagsFollow, Removed
  PROVE  FlagsFollow'
<1> USE DEF FlagsFollow
<1>1. /\ Len(Queue) > 0 /\ Queue[1] = Head(updates)
      /\ Len(Queue') = Len(Queue) - 1
      /\ \A i \in 1..Len(Queue') : Queue'[i] = Queue[i + 1]
  BY QueueShifts
<1>2. /\ DOMAIN Queue = 1..Len(Queue) /\ DOMAIN Queue' = 1..Len(Queue') /\ Len(Queue) \in Nat
      /\ Queue \in Seq(Updates)
  BY QueueType
<1>3. /\ 1 \in DOMAIN Queue
      /\ \A i \in DOMAIN Queue' : i \in Nat /\ i + 1 \in DOMAIN Queue /\ Queue'[i] = Queue[i + 1]
      /\ \A i \in DOMAIN Queue : i # 1 => i - 1 \in DOMAIN Queue' /\ Queue'[i - 1] = Queue[i]
  <2>1. ASSUME NEW i \in DOMAIN Queue, i # 1
        PROVE  i - 1 \in DOMAIN Queue' /\ Queue'[i - 1] = Queue[i]
    BY <1>1, <1>2, <2>1
  <2> QED BY <1>1, <1>2, <2>1
<1>4. PICK m \in Models : /\ m = Queue[1][2] /\ Queue[1][1] = "Removed"
                          /\ unchecked' = UnitsOf[m] /\ unchecked = {}
                          /\ vacated = {} /\ UNCHANGED <<enabled, vacated, catalog>>
  <2>1. Queue[1] \in Updates
    BY <1>2, <1>3
  <2> QED BY <1>1, <2>1 DEF Removed, NextUpdate, Updates
<1>5. Types(unchecked) = {} /\ Types(vacated) = {} /\ Needed' = Needed
  BY <1>4 DEF Types, Needed, TypesOf
<1>6. AdditionsAreUndone'
  <2> SUFFICES ASSUME NEW i \in DOMAIN Queue', Queue'[i][1] = "Added", Queue'[i][2] \notin catalog'
               PROVE  \E j \in DOMAIN Queue' : j > i /\ Queue'[j] = <<"Removed", Queue'[i][2]>>
    BY DEF AdditionsAreUndone
  <2>1. i \in Nat /\ i + 1 \in DOMAIN Queue /\ Queue'[i] = Queue[i + 1]
    BY <1>3
  <2>2. PICK j \in DOMAIN Queue : j > i + 1 /\ Queue[j] = <<"Removed", Queue[i + 1][2]>>
    BY <1>4, <2>1 DEF AdditionsAreUndone
  <2>3. j \in Nat /\ j - 1 > i /\ j - 1 \in DOMAIN Queue' /\ Queue'[j - 1] = Queue[j]
    BY <1>2, <1>3, <2>1, <2>2
  <2> QED BY <2>1, <2>2, <2>3
<1>7. NeededComes'
  <2> SUFFICES ASSUME NEW t \in Needed, t \notin enabled
               PROVE  \E i \in DOMAIN Queue' : Queue'[i][1] = "Added" /\ t \in TypesOf(Queue'[i][2])
    BY <1>4, <1>5 DEF NeededComes, TypesOf, Types
  <2>1. PICK i \in DOMAIN Queue : Queue[i][1] = "Added" /\ t \in TypesOf(Queue[i][2])
    BY DEF NeededComes
  <2>2. i # 1
    BY <1>4, <2>1
  <2> QED BY <1>3, <2>1, <2>2
<1>8. UnneededGoes'
  <2> SUFFICES ASSUME NEW t \in enabled, t \notin Needed, t \notin TypesOf(m)
               PROVE  \E i \in DOMAIN Queue' : Queue'[i][1] = "Removed" /\ t \in TypesOf(Queue'[i][2])
    BY <1>4, <1>5 DEF UnneededGoes, TypesOf, Types
  <2>1. PICK i \in DOMAIN Queue : Queue[i][1] = "Removed" /\ t \in TypesOf(Queue[i][2])
    BY <1>5 DEF UnneededGoes
  <2>2. i # 1
    BY <1>4, <2>1
  <2> QED BY <1>3, <2>1, <2>2
<1> QED BY <1>6, <1>7, <1>8

\* A look at a unit leaves the endpoints of a live one alone, since no other
\* unit shares them, and finds a unit that no model of the catalog calls for.
LEMMA CheckUnitKeeps ==
  ASSUME FrontendTypeOK, FlagsFollow, NEW u \in Units, CheckUnit(u)
  PROVE  FlagsFollow'
<1>1. /\ UNCHANGED <<catalog, unsent, updates, enabled>>
      /\ unchecked' = unchecked \ {u}
      /\ vacated' = IF HasModelsOfType(u) THEN vacated ELSE vacated \cup {u}
  BY DEF CheckUnit, Vacated
<1>2. Queue' = Queue /\ Needed' = Needed
  BY <1>1 DEF Queue, Needed, TypesOf, Types
<1>3. \A t : t \in Types(vacated') => t \in Types(vacated) \/ t \notin Needed
  <2> SUFFICES ASSUME NEW t, t \in EndpointsOf[u], ~HasModelsOfType(u), t \in Needed
               PROVE  FALSE
    BY <1>1, InTypes
  <2>1. PICK n \in catalog : \E v \in UnitsOf[n] : t \in EndpointsOf[v]
    BY InNeeded
  <2>2. PICK v \in UnitsOf[n] : t \in EndpointsOf[v]
    BY <2>1
  <2>3. n \in Models /\ v \in Units /\ HasModelsOfType(v)
    BY <2>1, <2>2, FrontendAssumption DEF FrontendTypeOK, HasModelsOfType
  <2> QED BY <2>2, <2>3, FrontendAssumption
<1>4. \A t : t \in Types(unchecked) /\ t \notin Needed =>
               t \in Types(unchecked') \/ t \in Types(vacated')
  <2> SUFFICES ASSUME NEW t, NEW v \in unchecked, t \in EndpointsOf[v], t \notin Needed
               PROVE  t \in Types(unchecked') \/ t \in Types(vacated')
    BY InTypes
  <2>1. CASE v = u
    <3>1. ~HasModelsOfType(u)
      BY <2>1, InNeeded DEF HasModelsOfType
    <3> QED BY <1>1, <2>1, <3>1 DEF Types
  <2>2. CASE v # u
    BY <1>1, <2>2 DEF Types
  <2> QED BY <2>1, <2>2
<1>5. \A t : t \in Types(vacated) => t \in Types(vacated')
  BY <1>1 DEF Types
<1>6. AdditionsAreUndone'
  BY <1>1, <1>2 DEF FlagsFollow, AdditionsAreUndone
<1>7. NeededComes'
  BY <1>1, <1>2, <1>3 DEF FlagsFollow, NeededComes, TypesOf, Types
<1>8. UnneededGoes'
  <2> SUFFICES ASSUME NEW t \in enabled, t \notin Needed,
                      t \notin Types(unchecked'), t \notin Types(vacated')
               PROVE  \E i \in DOMAIN Queue : Queue[i][1] = "Removed" /\ t \in TypesOf(Queue[i][2])
    BY <1>1, <1>2 DEF UnneededGoes, TypesOf, Types
  <2> QED BY <1>4, <1>5 DEF FlagsFollow, UnneededGoes
<1> QED BY <1>6, <1>7, <1>8 DEF FlagsFollow

\* The enabler retracts what it found vacated, also after the catalog changed.
LEMMA RetractKeeps ==
  ASSUME FlagsFollow, Retract
  PROVE  FlagsFollow'
<1>1. /\ UNCHANGED <<catalog, unsent, updates, unchecked>> /\ vacated' = {}
      /\ enabled' = enabled \ Types(vacated)
  BY DEF Retract
<1>2. Queue' = Queue /\ Needed' = Needed /\ Types(vacated') = {}
  BY <1>1 DEF Queue, Needed, TypesOf, Types
<1>3. AdditionsAreUndone'
  BY <1>1, <1>2 DEF FlagsFollow, AdditionsAreUndone
<1>4. NeededComes'
  BY <1>1, <1>2 DEF FlagsFollow, NeededComes, Types, TypesOf
<1>5. UnneededGoes'
  BY <1>1, <1>2 DEF FlagsFollow, UnneededGoes, Types, TypesOf
<1> QED BY <1>3, <1>4, <1>5 DEF FlagsFollow

\* A step that changes neither the catalog, nor what is on its way, nor a flag.
LEMMA StillFollows ==
  ASSUME FlagsFollow, Queue' = Queue, UNCHANGED <<catalog, unchecked, vacated, enabled>>
  PROVE  FlagsFollow'
<1>1. Needed' = Needed
  BY DEF Needed, TypesOf, Types
<1> QED BY <1>1 DEF FlagsFollow, AdditionsAreUndone, NeededComes, UnneededGoes, TypesOf, Types

(***************************************************************************)
(* The frontend                                                            *)
(***************************************************************************)

\* A frontend starts with an empty catalog and no flag set.
LEMMA FrontendInitInv ==
  ASSUME FrontendInit
  PROVE  FrontendInv
<1>1. Queue = <<>> /\ catalog = {} /\ enabled = {} /\ vacated = {}
  BY DEF FrontendInit, Queue
<1>2. shutdown \in BOOLEAN /\ updates \in Seq(Updates) /\ 0 \in 0..MaxChanges
  <2>1. shutdown \in BOOLEAN
    BY DEF FrontendInit
  <2>2. updates \in Seq(Updates) /\ 0 \in 0..MaxChanges
    BY FrontendAssumption DEF FrontendInit
  <2> QED BY <2>1, <2>2
<1>3. FrontendTypeOK /\ FrontendPhases
  BY <1>2 DEF FrontendInit, FrontendTypeOK, FrontendPhases
<1>4. AdditionsAreUndone /\ NeededComes /\ UnneededGoes
  BY <1>1 DEF AdditionsAreUndone, NeededComes, UnneededGoes, Needed
<1> QED BY <1>3, <1>4 DEF FrontendInv

\* Every step of the frontend, the watcher and the enabler keeps the invariant.
LEMMA FrontendNextKeeps ==
  ASSUME FrontendInv, [FrontendNext]_frontendVars
  PROVE  FrontendInv'
<1>1. FrontendTypeOK /\ FrontendPhases /\ (config.dynamic => FlagsFollow)
  BY DEF FrontendInv, FlagsFollow
<1>2. CASE Check \/ Initialise \/ Build \/ RunWatcher \/ ServerExits \/ Drain \/ CancelPrimary
  <2>1. FrontendTypeOK' /\ FrontendPhases'
    BY <1>1, <1>2, RunKeeps
  <2>2. UNCHANGED <<config, catalog, unsent, updates, unchecked, vacated>>
    BY <1>2 DEF Check, Initialise, Build, RunWatcher, ServerExits, Drain, CancelPrimary, tasks
  <2>3. config.dynamic => enabled' = enabled
    BY <1>1, <1>2 DEF Check, Initialise, Build, RunWatcher, ServerExits, Drain, CancelPrimary,
       tasks, FrontendPhases, Watching
  <2>4. config.dynamic => FlagsFollow'
    BY <1>1, <2>2, <2>3, StillFollows DEF Queue
  <2> QED BY <2>1, <2>2, <2>4 DEF FrontendInv, FlagsFollow
<1>3. CASE \/ \E kind \in {"Added", "Removed"}, m \in Models : Change(kind, m)
           \/ Send \/ Added \/ Removed \/ Retract \/ \E u \in Units : CheckUnit(u)
  <2>1. FrontendTypeOK' /\ FrontendPhases' /\ config' = config
    BY <1>1, <1>3, TasksKeep DEF Change, Send, Added, Removed, Retract, CheckUnit
  <2>2. CASE Send
    BY <1>1, <2>1, <2>2, QueueSent, StillFollows DEF Send, FrontendInv, FlagsFollow
  <2>3. config.dynamic /\ ~Send => FlagsFollow'
    BY <1>1, <1>3, <2>1, ChangeKeeps, AddedKeeps, RemovedKeeps,
       CheckUnitKeeps, RetractKeeps
  <2> QED BY <2>1, <2>2, <2>3 DEF FrontendInv, FlagsFollow
<1>4. CASE UNCHANGED frontendVars
  <2>1. FrontendTypeOK' /\ FrontendPhases'
    BY <1>1, <1>4 DEF frontendVars, FrontendTypeOK, FrontendPhases, Watching
  <2>2. config.dynamic => FlagsFollow'
    BY <1>1, <1>4, StillFollows DEF frontendVars, Queue
  <2> QED BY <1>4, <2>1, <2>2 DEF FrontendInv, FlagsFollow, frontendVars
<1> QED BY <1>2, <1>3, <1>4 DEF FrontendNext

\* For any models, however long the queue of updates and however the catalog
\* changes between the looks of a removal and its effect: whenever the enabler has
\* caught up, the endpoints of a dynamic frontend are exactly those its live
\* models need.  (update_http_endpoints, the two tasks of run_watcher)
THEOREM FlagsFollowCatalog ==
  FrontendSpec => []EndpointsFollowCatalog
<1>1. FrontendInit => FrontendInv
  BY FrontendInitInv
<1>2. FrontendInv /\ [FrontendNext]_frontendVars => FrontendInv'
  BY FrontendNextKeeps
<1>3. FrontendInv => EndpointsFollowCatalog
  <2> SUFFICES ASSUME FrontendInv, config.dynamic, CaughtUp
               PROVE  enabled = Types(UNION {UnitsOf[m] : m \in catalog})
    BY DEF EndpointsFollowCatalog, FrontendInv
  <2>1. Queue = <<>> /\ unchecked = {} /\ vacated = {}
    BY DEF CaughtUp, Queue
  <2>2. DOMAIN Queue = {}
    BY <2>1
  <2>3. enabled = Needed
    <3>1. \A t : t \notin Types(unchecked) /\ t \notin Types(vacated)
      BY <2>1, InTypes
    <3>2. NeededComes /\ UnneededGoes
      BY DEF FrontendInv
    <3>3. Needed \subseteq enabled
      BY <2>2, <3>2 DEF NeededComes
    <3>4. enabled \subseteq Needed
      BY <2>2, <3>1, <3>2 DEF UnneededGoes
    <3> QED BY <3>3, <3>4
  <2>4. \A u : u \in UNION {UnitsOf[m] : m \in catalog} <=> \E m \in catalog : u \in UnitsOf[m]
    OBVIOUS
  <2>5. \A t : t \in Needed <=> t \in Types(UNION {UnitsOf[m] : m \in catalog})
    BY <2>4, InTypes, InNeeded
  <2> QED BY <2>3, <2>5
<1> QED BY <1>1, <1>2, <1>3, PTL DEF FrontendSpec

(***************************************************************************)
(* The adapter around the tool call jail                                   *)
(***************************************************************************)

JailKinds == {"choice", "usage", "payload", "bare"}
MetaChunks == [kind : JailKinds \cup {"metadata", "error"},
               tokens : {t \in Seq(Nat) : Len(t) =< 1}, ids : Seq(Nat)]
Metadata == [metrics : BOOLEAN, tokens : Nat, ids : Seq(Nat)]

\* A payload chunk, and a chunk that is held, carries no ids.
Idless(chunk) == chunk.kind = "payload" => chunk.ids = <<>>

AdapterTypes ==
  /\ arrived \in Seq(MetaChunks) /\ passed \in Seq(MetaChunks)
  /\ pending \in Metadata
  /\ jail \in Seq(JailKinds)
  /\ latched \in BOOLEAN /\ over \in BOOLEAN
  /\ \/ held = <<>>
     \/ \E chunk \in MetaChunks :
          held = <<chunk>> /\ Usage(chunk) /\ chunk.ids = <<>>

HeldCount == IF held = <<>> THEN 0 ELSE Count(held[1])

\* Until the stream ends, what came in is what was sent on, what is held and
\* what is pending.
Balanced ==
  /\ Total(arrived) \in Nat /\ Total(passed) \in Nat
  /\ Ids(arrived) \in Seq(Nat) /\ Ids(passed) \in Seq(Nat)
  /\ ~pending.metrics => pending.tokens = 0
  /\ \A k \in DOMAIN passed : Idless(passed[k])
  /\ ~over => /\ Total(arrived) = Total(passed) + HeldCount + pending.tokens
              /\ Ids(arrived) = Ids(passed) \o pending.ids

JailInv == AdapterTypes /\ Balanced /\ MetadataConserved

\* A set that has 0 and, with a number, the next one, has them all.
LEMMA SetInduction ==
  ASSUME NEW S, 0 \in S, \A n \in Nat : n \in S => n + 1 \in S
  PROVE  Nat \subseteq S
<1> DEFINE R == OpToRel(<, Nat)
           T == Nat \ S
<1> SUFFICES ASSUME T # {} PROVE FALSE
  OBVIOUS
<1>1. T \subseteq Nat
  OBVIOUS
<1>2. IsWellFoundedOn(R, Nat)
  BY NatLessThanWellFounded
<1>3. \A x, y \in Nat : x < y => <<x, y>> \in R
  BY DEF OpToRel
<1> HIDE DEF R, T
<1>4. PICK x \in T : \A y \in T : ~(<<y, x>> \in R)
  BY <1>1, <1>2, WFMin
<1>5. x \in Nat /\ x # 0 /\ x \notin S
  BY DEF T
<1>6. x - 1 \in Nat /\ (x - 1) + 1 = x
  BY <1>5
<1>7. x - 1 \in T
  BY <1>5, <1>6 DEF T
<1>8. <<x - 1, x>> \in R
  BY <1>3, <1>5, <1>6
<1> QED BY <1>4, <1>7, <1>8

(***************************************************************************)
(* What a sequence of chunks reports, chunk by chunk                       *)
(***************************************************************************)
Joins(r, chunk) == [tokens |-> r.tokens + Count(chunk), ids |-> r.ids \o chunk.ids]

IsReport(g, chunks, m) ==
  g = [n \in 0..m |-> IF n = 0 THEN [tokens |-> 0, ids |-> <<>>]
                      ELSE [tokens |-> g[n - 1].tokens + Count(chunks[n]),
                            ids |-> g[n - 1].ids \o chunks[n].ids]]

\* The report of a sequence exists at every length.
LEMMA ReportExists ==
  ASSUME NEW chunks, NEW m \in Nat
  PROVE  \E g : IsReport(g, chunks, m)
<1> DEFINE S == {k \in Nat : \E g : IsReport(g, chunks, k)}
           none == [tokens |-> 0, ids |-> <<>>]
<1>1. 0 \in S
  <2>1. IsReport([n \in 0..0 |-> none], chunks, 0)
    BY DEF IsReport
  <2> QED BY <2>1
<1>2. ASSUME NEW n \in Nat, n \in S PROVE n + 1 \in S
  <2>1. PICK g : IsReport(g, chunks, n)
    BY <1>2
  <2> DEFINE h == [k \in 0..(n + 1) |-> IF k = n + 1 THEN Joins(g[n], chunks[n + 1]) ELSE g[k]]
  <2>2. ASSUME NEW k \in 0..(n + 1)
        PROVE  h[k] = IF k = 0 THEN none ELSE Joins(h[k - 1], chunks[k])
    <3>1. CASE k = n + 1
      BY <3>1
    <3>2. CASE k # n + 1
      <4>1. k \in 0..n
        BY <3>2
      <4>2. g[k] = IF k = 0 THEN none ELSE Joins(g[k - 1], chunks[k])
        BY <2>1, <4>1 DEF IsReport, Joins
      <4> QED BY <4>1, <4>2
    <3> QED BY <3>1, <3>2
  <2>3. IsReport(h, chunks, n + 1)
    BY <2>2 DEF IsReport, Joins
  <2> QED BY <2>3
<1> HIDE DEF S
<1>3. Nat \subseteq S
  BY <1>1, <1>2, SetInduction
<1> QED BY <1>3 DEF S

\* Reported reads the last entry of that report.
LEMMA ReportedIs ==
  ASSUME NEW chunks, Len(chunks) \in Nat
  PROVE  \E g : IsReport(g, chunks, Len(chunks)) /\ Reported(chunks) = g[Len(chunks)]
<1> DEFINE g == CHOOSE f : IsReport(f, chunks, Len(chunks))
<1>1. Reported(chunks) = g[Len(chunks)]
  BY Zenon DEF Reported, IsReport
<1>2. \E f : IsReport(f, chunks, Len(chunks))
  BY ReportExists
<1>3. IsReport(g, chunks, Len(chunks))
  BY <1>2, Zenon
<1> QED BY <1>1, <1>3, Zenon

\* An empty sequence reports nothing.
LEMMA NothingReported == Total(<<>>) = 0 /\ Ids(<<>>) = <<>>
<1>1. Len(<<>>) = 0
  OBVIOUS
<1>2. PICK g : IsReport(g, <<>>, 0) /\ Reported(<<>>) = g[0]
  BY <1>1, ReportedIs
<1>3. g[0] = [tokens |-> 0, ids |-> <<>>]
  BY <1>2 DEF IsReport
<1> QED BY <1>2, <1>3 DEF Total, Ids

\* One more chunk adds what it says.
LEMMA ReportOfAppend ==
  ASSUME NEW chunks \in Seq(MetaChunks), NEW chunk \in MetaChunks
  PROVE  /\ Total(Append(chunks, chunk)) = Total(chunks) + Count(chunk)
         /\ Ids(Append(chunks, chunk)) = Ids(chunks) \o chunk.ids
<1> DEFINE n == Len(chunks)
           more == Append(chunks, chunk)
<1>1. /\ n \in Nat /\ Len(more) = n + 1 /\ more[n + 1] = chunk
      /\ \A k \in 1..n : more[k] = chunks[k]
  OBVIOUS
<1>2. PICK f : IsReport(f, chunks, n) /\ Reported(chunks) = f[n]
  BY <1>1, ReportedIs
<1> HIDE DEF n, more
<1>3. PICK g : IsReport(g, more, n + 1) /\ Reported(more) = g[n + 1]
  BY <1>1, ReportedIs
<1> DEFINE none == [tokens |-> 0, ids |-> <<>>]
<1>4. \A k \in 0..n : f[k] = IF k = 0 THEN none ELSE Joins(f[k - 1], chunks[k])
  BY <1>2 DEF IsReport, Joins
<1>5. \A k \in 0..(n + 1) : g[k] = IF k = 0 THEN none ELSE Joins(g[k - 1], more[k])
  BY <1>3 DEF IsReport, Joins
<1> HIDE DEF none
<1> DEFINE S == {k \in Nat : k =< n => g[k] = f[k]}
<1>6. 0 \in S
  BY <1>1, <1>4, <1>5
<1>7. ASSUME NEW k \in Nat, k \in S PROVE k + 1 \in S
  <2> SUFFICES ASSUME k + 1 =< n PROVE g[k + 1] = f[k + 1]
    OBVIOUS
  <2>1. k + 1 \in 0..n /\ k + 1 \in 0..(n + 1) /\ k + 1 # 0 /\ (k + 1) - 1 = k /\ k + 1 \in 1..n
    BY <1>1
  <2>2. g[k] = f[k] /\ more[k + 1] = chunks[k + 1]
    BY <1>1, <1>7, <2>1
  <2>3. f[k + 1] = Joins(f[k], chunks[k + 1])
    BY <1>4, <2>1
  <2>4. g[k + 1] = Joins(g[k], more[k + 1])
    BY <1>5, <2>1
  <2> QED BY <2>2, <2>3, <2>4
<1> HIDE DEF S
<1>8. Nat \subseteq S
  BY <1>6, <1>7, SetInduction
<1>9. g[n] = f[n]
  BY <1>1, <1>8 DEF S
<1>10. n + 1 \in 0..(n + 1) /\ n + 1 # 0 /\ (n + 1) - 1 = n
  BY <1>1
<1>11. g[n + 1] = Joins(f[n], chunk)
  BY <1>1, <1>5, <1>9, <1>10
<1>12. Reported(more) = Joins(Reported(chunks), chunk)
  BY <1>2, <1>3, <1>11
<1>13. Total(more) = Total(chunks) + Count(chunk) /\ Ids(more) = Ids(chunks) \o chunk.ids
  <2>1. \A r : Joins(r, chunk).tokens = r.tokens + Count(chunk) /\ Joins(r, chunk).ids = r.ids \o chunk.ids
    BY DEF Joins
  <2> HIDE DEF Joins
  <2> QED BY <1>12, <2>1, Zenon DEF Total, Ids
<1> QED BY <1>13 DEF more

(***************************************************************************)
(* The steps                                                               *)
(***************************************************************************)

\* Ids are joined in any grouping.
LEMMA IdsGroup ==
  ASSUME NEW s \in Seq(Nat), NEW t \in Seq(Nat), NEW u \in Seq(Nat)
  PROVE  (s \o t) \o u = s \o (t \o u)
  BY ConcatAssociative

\* No ids add nothing.
LEMMA IdsJoin ==
  /\ \A s \in Seq(Nat) : s \o <<>> = s /\ <<>> \o s = s
  /\ \A s, t \in Seq(Nat) : s \o t \in Seq(Nat)
<1>1. ASSUME NEW s \in Seq(Nat) PROVE s \o <<>> = s /\ <<>> \o s = s
  OBVIOUS
<1> QED BY <1>1

\* A chunk counts a natural number of tokens.
LEMMA CountType ==
  ASSUME NEW chunk \in MetaChunks
  PROVE  Count(chunk) \in Nat
  BY DEF MetaChunks, Count

\* Appending at most one chunk keeps the types and adds what it says.
LEMMA PassOne ==
  ASSUME NEW chunks \in Seq(MetaChunks), NEW chunk \in MetaChunks,
         Total(chunks) \in Nat, Ids(chunks) \in Seq(Nat), Idless(chunk),
         \A k \in DOMAIN chunks : Idless(chunks[k])
  PROVE  LET more == Append(chunks, chunk)
         IN /\ more \in Seq(MetaChunks)
            /\ Total(more) = Total(chunks) + Count(chunk) /\ Total(more) \in Nat
            /\ Ids(more) = Ids(chunks) \o chunk.ids /\ Ids(more) \in Seq(Nat)
            /\ \A k \in DOMAIN more : Idless(more[k])
<1> DEFINE more == Append(chunks, chunk)
<1>1. more \in Seq(MetaChunks)
  OBVIOUS
<1>2. Total(more) = Total(chunks) + Count(chunk) /\ Ids(more) = Ids(chunks) \o chunk.ids
  BY ReportOfAppend
<1>3. Count(chunk) \in Nat /\ chunk.ids \in Seq(Nat)
  BY CountType DEF MetaChunks
<1>4. ASSUME NEW k \in DOMAIN more PROVE Idless(more[k])
  <2>1. more[k] = chunk \/ (k \in DOMAIN chunks /\ more[k] = chunks[k])
    OBVIOUS
  <2> QED BY <2>1
<1> HIDE DEF more
<1>5. Total(more) \in Nat /\ Ids(more) \in Seq(Nat)
  BY <1>2, <1>3
<1> QED BY <1>1, <1>2, <1>4, <1>5 DEF more

\* A stamped chunk and what stays pending share the pending metadata.
LEMMA StampShares ==
  ASSUME NEW p \in Metadata, NEW kind \in JailKinds, ~p.metrics => p.tokens = 0
  PROVE  LET chunk == Stamp(p, kind)
             rest == Stamped(p, kind)
         IN /\ chunk \in MetaChunks /\ chunk.kind = kind /\ Idless(chunk)
            /\ Usage(chunk) => chunk.ids = <<>>
            /\ rest \in Metadata /\ (~rest.metrics => rest.tokens = 0)
            /\ Count(chunk) + rest.tokens = p.tokens
            /\ chunk.ids \o rest.ids = p.ids
            /\ chunk.ids = <<>> \/ rest.ids = <<>>
  BY DEF Metadata, JailKinds, Stamp, Stamped, Chunk, HasData, MetaChunks, Idless, Usage, Count

\* What is pending gains what a chunk says.
LEMMA BufferAdds ==
  ASSUME NEW p \in Metadata, NEW chunk \in MetaChunks, ~p.metrics => p.tokens = 0
  PROVE  LET more == Buffer(p, chunk)
         IN /\ more \in Metadata /\ (~more.metrics => more.tokens = 0)
            /\ more.tokens = p.tokens + Count(chunk)
            /\ more.ids = p.ids \o chunk.ids
<1> DEFINE metrics == p.metrics \/ chunk.tokens # <<>>
           tokens == p.tokens + Count(chunk)
           ids == p.ids \o chunk.ids
<1>1. Buffer(p, chunk) = [metrics |-> metrics, tokens |-> tokens, ids |-> ids]
  BY Zenon DEF Buffer, Count
<1>2. p.tokens \in Nat /\ p.ids \in Seq(Nat) /\ chunk.ids \in Seq(Nat) /\ Count(chunk) \in Nat
  BY CountType DEF Metadata, MetaChunks
<1>3. tokens \in Nat /\ ids \in Seq(Nat) /\ metrics \in BOOLEAN
  BY <1>2
<1>4. ~metrics => tokens = 0
  BY <1>2 DEF Count
<1> HIDE DEF metrics, tokens, ids
<1>5. [metrics |-> metrics, tokens |-> tokens, ids |-> ids] \in Metadata
  BY <1>3 DEF Metadata
<1>6. /\ Buffer(p, chunk).metrics = metrics
      /\ Buffer(p, chunk).tokens = tokens /\ Buffer(p, chunk).ids = ids
  BY <1>1
<1> QED BY <1>1, <1>4, <1>5, <1>6, Zenon DEF tokens, ids

\* A chunk that arrives is pending.
LEMMA ArriveKeeps ==
  ASSUME JailInv, NEW chunk \in MetaChunks, chunk.kind \in JailKinds, Arrive(chunk)
  PROVE  JailInv'
<1> USE DEF JailInv, AdapterTypes, Balanced
<1>1. arrived' \in Seq(MetaChunks) /\ jail' \in Seq(JailKinds)
  BY DEF Arrive
<1>2. /\ Total(arrived') = Total(arrived) + Count(chunk)
      /\ Ids(arrived') = Ids(arrived) \o chunk.ids
  BY ReportOfAppend DEF Arrive
<1>3. Count(chunk) \in Nat /\ chunk.ids \in Seq(Nat)
  BY CountType DEF MetaChunks
<1>4. /\ pending' \in Metadata /\ (~pending'.metrics => pending'.tokens = 0)
      /\ pending'.tokens = pending.tokens + Count(chunk)
      /\ pending'.ids = pending.ids \o chunk.ids
  BY BufferAdds DEF Arrive
<1>6. HeldCount' = HeldCount /\ HeldCount \in Nat
  BY CountType DEF Arrive, HeldCount
<1>7. pending.tokens \in Nat /\ pending.ids \in Seq(Nat)
  BY DEF Metadata
<1>8. Total(arrived') = Total(passed) + HeldCount + pending'.tokens
  BY <1>2, <1>3, <1>4, <1>6, <1>7 DEF Arrive
<1>9. Ids(arrived') = Ids(passed) \o pending'.ids
  <2>0. Ids(passed) \in Seq(Nat)
    OBVIOUS
  <2>1. (Ids(passed) \o pending.ids) \o chunk.ids = Ids(passed) \o (pending.ids \o chunk.ids)
    <3> DEFINE x == Ids(passed)
               y == pending.ids
               z == chunk.ids
    <3>1. x \in Seq(Nat) /\ y \in Seq(Nat) /\ z \in Seq(Nat)
      BY <1>3, <1>7, <2>0
    <3> HIDE DEF x, y, z
    <3>2. (x \o y) \o z = x \o (y \o z)
      BY <3>1, IdsGroup
    <3> QED BY <3>2 DEF x, y, z
  <2>2. Ids(arrived) = Ids(passed) \o pending.ids
    BY DEF Arrive
  <2> QED BY <1>2, <1>4, <2>1, <2>2
<1>10. Total(arrived') \in Nat /\ Ids(arrived') \in Seq(Nat)
  BY <1>2, <1>3
<1> QED BY <1>1, <1>4, <1>6, <1>8, <1>9, <1>10 DEF Arrive, MetadataConserved

\* The sequences of at most one chunk that are sent on at the end.
LEMMA PassSome ==
  ASSUME NEW chunks \in Seq(MetaChunks), NEW some, NEW t \in Nat, NEW ids \in Seq(Nat),
         Total(chunks) \in Nat, Ids(chunks) \in Seq(Nat),
         \A k \in DOMAIN chunks : Idless(chunks[k]),
         \/ some = <<>> /\ t = 0 /\ ids = <<>>
         \/ \E chunk \in MetaChunks :
               some = <<chunk>> /\ Idless(chunk) /\ t = Count(chunk) /\ ids = chunk.ids
  PROVE  LET more == chunks \o some
         IN /\ more \in Seq(MetaChunks)
            /\ Total(more) = Total(chunks) + t /\ Total(more) \in Nat
            /\ Ids(more) = Ids(chunks) \o ids /\ Ids(more) \in Seq(Nat)
            /\ \A k \in DOMAIN more : Idless(more[k])
<1>1. CASE some = <<>> /\ t = 0 /\ ids = <<>>
  <2>1. chunks \o some = chunks
    BY <1>1
  <2>2. Ids(chunks) \o ids = Ids(chunks) /\ Total(chunks) + t = Total(chunks)
    BY <1>1
  <2> QED BY <2>1, <2>2
<1>2. ASSUME NEW chunk \in MetaChunks,
             some = <<chunk>>, Idless(chunk), t = Count(chunk), ids = chunk.ids
      PROVE  LET more == chunks \o some
             IN /\ more \in Seq(MetaChunks)
                /\ Total(more) = Total(chunks) + t /\ Total(more) \in Nat
                /\ Ids(more) = Ids(chunks) \o ids /\ Ids(more) \in Seq(Nat)
                /\ \A k \in DOMAIN more : Idless(more[k])
  <2>1. chunks \o some = Append(chunks, chunk)
    BY <1>2
  <2> QED BY <1>2, <2>1, PassOne
<1> QED BY <1>1, <1>2

\* A chunk on the way out takes what is pending, or leaves it.
LEMMA ReleaseKeeps ==
  ASSUME JailInv, NEW n, Release(n)
  PROVE  JailInv'
<1> USE DEF JailInv, AdapterTypes, Balanced
<1>0. n \in 1..Len(jail) /\ jail[n] \in JailKinds /\ jail' \in Seq(JailKinds)
  BY DEF Release
<1>1. CASE latched
  BY <1>0, <1>1 DEF Release, MetadataConserved, HeldCount
<1>2. CASE ~latched
  <2> DEFINE chunk == Stamp(pending, jail[n])
             rest == Stamped(pending, jail[n])
  <2>1. /\ chunk \in MetaChunks /\ Idless(chunk) /\ (Usage(chunk) => chunk.ids = <<>>)
        /\ rest \in Metadata /\ (~rest.metrics => rest.tokens = 0)
        /\ Count(chunk) + rest.tokens = pending.tokens
        /\ chunk.ids \o rest.ids = pending.ids
    BY <1>0, StampShares
  <2>2. pending' = rest /\ Hold(chunk) /\ UNCHANGED <<arrived, latched, over>> /\ ~over
    BY <1>2 DEF Release
  <2> HIDE DEF chunk, rest
  <2>3. /\ Count(chunk) \in Nat /\ chunk.ids \in Seq(Nat)
        /\ rest.tokens \in Nat /\ rest.ids \in Seq(Nat)
        /\ pending.tokens \in Nat /\ pending.ids \in Seq(Nat)
    BY <2>1, CountType DEF Metadata, MetaChunks
  <2>4. /\ Ids(passed) \in Seq(Nat) /\ Total(passed) \in Nat
        /\ passed \in Seq(MetaChunks) /\ \A k \in DOMAIN passed : Idless(passed[k])
        /\ Total(arrived) = Total(passed) + HeldCount + pending.tokens
        /\ Ids(arrived) = Ids(passed) \o pending.ids
        /\ arrived' = arrived
    BY <2>2
  <2>5. CASE Usage(chunk)
    <3>1. passed' = passed \o held /\ held' = <<chunk>>
      BY <2>2, <2>5 DEF Hold
    <3>2. \/ held = <<>> /\ HeldCount = 0
          \/ \E one \in MetaChunks :
                held = <<one>> /\ Idless(one) /\ HeldCount = Count(one) /\ one.ids = <<>>
      BY DEF HeldCount, Idless
    <3>3. HeldCount \in Nat
      BY <3>2, CountType
    <3>4. /\ passed' \in Seq(MetaChunks)
          /\ Total(passed') = Total(passed) + HeldCount /\ Total(passed') \in Nat
          /\ Ids(passed') = Ids(passed) \o <<>> /\ Ids(passed') \in Seq(Nat)
          /\ \A k \in DOMAIN passed' : Idless(passed'[k])
      <4> HIDE DEF JailInv, AdapterTypes, Balanced
      <4>1. CASE held = <<>> /\ HeldCount = 0
        <5>1. passed' = passed
          BY <2>4, <3>1, <4>1
        <5> QED BY <2>4, <4>1, <5>1, IdsJoin
      <4>2. ASSUME NEW one \in MetaChunks,
                   held = <<one>>, Idless(one), HeldCount = Count(one), one.ids = <<>>
            PROVE  /\ passed' \in Seq(MetaChunks)
                   /\ Total(passed') = Total(passed) + HeldCount /\ Total(passed') \in Nat
                   /\ Ids(passed') = Ids(passed) \o <<>> /\ Ids(passed') \in Seq(Nat)
                   /\ \A k \in DOMAIN passed' : Idless(passed'[k])
        <5>1. passed' = Append(passed, one)
          BY <2>4, <3>1, <4>2
        <5> QED BY <2>4, <4>2, <5>1, PassOne
      <4> QED BY <3>2, <4>1, <4>2
    <3>5. HeldCount' = Count(chunk)
      BY <3>1 DEF HeldCount
    <3>6. Ids(passed') = Ids(passed) /\ rest.ids = pending.ids
      <4> HIDE DEF JailInv, AdapterTypes, Balanced
      <4>1. chunk.ids = <<>>
        BY <2>1, <2>5
      <4> QED BY <2>1, <2>3, <2>4, <3>4, <4>1, IdsJoin
    <3>7. Total(arrived) = Total(passed') + HeldCount' + rest.tokens
      <4> HIDE DEF JailInv, AdapterTypes, Balanced
      <4>1. /\ Total(arrived) = Total(passed) + HeldCount + pending.tokens
            /\ Total(passed) \in Nat
        BY <2>4
      <4>2. Count(chunk) + rest.tokens = pending.tokens
        BY <2>1
      <4>3. /\ Count(chunk) \in Nat /\ rest.tokens \in Nat /\ pending.tokens \in Nat
        BY <2>3
      <4>4. Total(passed') = Total(passed) + HeldCount
        BY <3>4
      <4> QED BY <3>3, <3>5, <4>1, <4>2, <4>3, <4>4
    <3> QED BY <1>0, <2>1, <2>2, <2>5, <3>1, <3>4, <3>6, <3>7 DEF MetadataConserved
  <2>6. CASE ~Usage(chunk)
    <3>1. passed' = Append(passed, chunk) /\ held' = held
      BY <2>2, <2>6 DEF Hold
    <3>2. /\ passed' \in Seq(MetaChunks)
          /\ Total(passed') = Total(passed) + Count(chunk) /\ Total(passed') \in Nat
          /\ Ids(passed') = Ids(passed) \o chunk.ids /\ Ids(passed') \in Seq(Nat)
          /\ \A k \in DOMAIN passed' : Idless(passed'[k])
      BY <2>1, <2>4, <3>1, PassOne
    <3>3. HeldCount' = HeldCount /\ HeldCount \in Nat
      BY <3>1, CountType DEF HeldCount
    <3>4. (Ids(passed) \o chunk.ids) \o rest.ids = Ids(passed) \o (chunk.ids \o rest.ids)
      <4> DEFINE x == Ids(passed)
                 y == chunk.ids
                 z == rest.ids
      <4>1. x \in Seq(Nat) /\ y \in Seq(Nat) /\ z \in Seq(Nat)
        BY <2>3, <2>4
      <4> HIDE DEF x, y, z
      <4>2. (x \o y) \o z = x \o (y \o z)
        BY <4>1, IdsGroup
      <4> QED BY <4>2 DEF x, y, z
    <3>5. Ids(arrived) = Ids(passed') \o rest.ids
      BY <2>1, <2>2, <3>2, <3>4
    <3>6. Total(arrived) = Total(passed') + HeldCount' + rest.tokens
      <4> HIDE DEF JailInv, AdapterTypes, Balanced
      <4>1. Total(passed') = Total(passed) + Count(chunk) /\ HeldCount' = HeldCount
        BY <3>2, <3>3
      <4>2. Count(chunk) + rest.tokens = pending.tokens
        BY <2>1
      <4>3. /\ Total(arrived) = Total(passed) + HeldCount + pending.tokens
            /\ Total(passed) \in Nat
        BY <2>4
      <4>4. /\ Count(chunk) \in Nat /\ rest.tokens \in Nat /\ pending.tokens \in Nat
        BY <2>3
      <4> QED BY <3>3, <4>1, <4>2, <4>3, <4>4
    <3> QED BY <1>0, <2>1, <2>2, <3>1, <3>2, <3>5, <3>6 DEF MetadataConserved
  <2> QED BY <2>5, <2>6
<1> QED BY <1>1, <1>2

\* What is pending at the end goes out in one more chunk, if there is any.
LEMMA SyntheticCarries ==
  ASSUME NEW p \in Metadata, ~p.metrics => p.tokens = 0
  PROVE  \/ Synthetic(p) = <<>> /\ p.tokens = 0 /\ p.ids = <<>>
         \/ \E chunk \in MetaChunks :
               Synthetic(p) = <<chunk>> /\ Idless(chunk) /\ p.tokens = Count(chunk) /\ p.ids = chunk.ids
<1>1. CASE p.metrics \/ p.ids # <<>>
  <2> DEFINE chunk == Chunk("metadata", IF p.metrics THEN <<p.tokens>> ELSE <<>>, p.ids)
  <2>1. Synthetic(p) = <<chunk>>
    BY <1>1 DEF Synthetic
  <2>2. chunk \in MetaChunks /\ Idless(chunk) /\ p.ids = chunk.ids
    BY DEF Chunk, MetaChunks, Metadata, Idless
  <2>3. p.tokens = Count(chunk)
    BY DEF Chunk, Metadata, Count
  <2> HIDE DEF chunk
  <2> QED BY <2>1, <2>2, <2>3
<1>2. CASE ~(p.metrics \/ p.ids # <<>>)
  BY <1>2 DEF Synthetic
<1> QED BY <1>1, <1>2

\* The stream ends with its error, or with all that was still to be reported.
LEMMA AdapterEndKeeps ==
  ASSUME JailInv, End
  PROVE  JailInv'
<1>0. /\ arrived \in Seq(MetaChunks) /\ passed \in Seq(MetaChunks)
      /\ pending \in Metadata /\ jail \in Seq(JailKinds) /\ latched \in BOOLEAN
      /\ Total(arrived) \in Nat /\ Total(passed) \in Nat
      /\ Ids(arrived) \in Seq(Nat) /\ Ids(passed) \in Seq(Nat)
      /\ (~pending.metrics => pending.tokens = 0)
      /\ \A k \in DOMAIN passed : Idless(passed[k])
      /\ Total(arrived) = Total(passed) + HeldCount + pending.tokens
      /\ Ids(arrived) = Ids(passed) \o pending.ids
  BY DEF JailInv, AdapterTypes, Balanced, End
<1>1. \/ held = <<>> /\ HeldCount = 0
      \/ \E one \in MetaChunks :
            held = <<one>> /\ Idless(one) /\ HeldCount = Count(one) /\ one.ids = <<>>
  BY DEF JailInv, AdapterTypes, HeldCount, Idless
<1>2. HeldCount \in Nat /\ pending.tokens \in Nat /\ pending.ids \in Seq(Nat)
  BY <1>0, <1>1, CountType DEF Metadata
<1>3. /\ over' = TRUE /\ held' = <<>> /\ pending' = NoMetadata
      /\ arrived' = arrived /\ jail' = jail /\ latched' = latched
  BY DEF End
<1>4. NoMetadata \in Metadata /\ NoMetadata.tokens = 0
  BY DEF NoMetadata, Metadata
<1>5. SUFFICES /\ passed' \in Seq(MetaChunks)
               /\ Total(passed') \in Nat /\ Ids(passed') \in Seq(Nat)
               /\ \A k \in DOMAIN passed' : Idless(passed'[k])
               /\ MetadataConserved'
  BY <1>0, <1>3, <1>4 DEF JailInv, AdapterTypes, Balanced
<1>6. CASE latched
  <2> DEFINE last == Chunk("error", <<>>, <<>>)
  <2>1. last \in MetaChunks /\ Idless(last) /\ Count(last) = 0 /\ last.kind = "error"
    BY DEF Chunk, MetaChunks, Idless, Count
  <2>2. passed' = Append(passed, last)
    BY <1>6 DEF End
  <2> HIDE DEF last
  <2>3. /\ passed' \in Seq(MetaChunks)
        /\ Total(passed') = Total(passed) + Count(last) /\ Total(passed') \in Nat
        /\ Ids(passed') \in Seq(Nat)
        /\ \A k \in DOMAIN passed' : Idless(passed'[k])
    BY <1>0, <2>1, <2>2, PassOne
  <2>4. passed'[Len(passed')] = last
    BY <1>0, <2>2
  <2>5. Total(passed') =< Total(arrived')
    BY <1>0, <1>2, <1>3, <2>1, <2>3
  <2> QED BY <1>3, <1>6, <2>1, <2>3, <2>4, <2>5 DEF MetadataConserved
<1>7. CASE ~latched
  <2>1. PICK added \in {<<>>, <<"choice">>} :
          LET stamp == IF added = <<>> THEN <<>> ELSE <<Stamp(pending, added[1])>>
              rest == IF added = <<>> THEN pending ELSE Stamped(pending, added[1])
          IN passed' = passed \o stamp \o Synthetic(rest) \o held
    BY <1>7 DEF End
  <2> DEFINE stamp == IF added = <<>> THEN <<>> ELSE <<Stamp(pending, added[1])>>
             rest == IF added = <<>> THEN pending ELSE Stamped(pending, added[1])
             t == IF added = <<>> THEN 0 ELSE Count(Stamp(pending, added[1]))
             ids == IF added = <<>> THEN <<>> ELSE Stamp(pending, added[1]).ids
  <2>2. passed' = passed \o stamp \o Synthetic(rest) \o held
    BY <2>1
  <2>3. /\ rest \in Metadata /\ (~rest.metrics => rest.tokens = 0)
        /\ t \in Nat /\ ids \in Seq(Nat)
        /\ t + rest.tokens = pending.tokens /\ ids \o rest.ids = pending.ids
        /\ \/ stamp = <<>> /\ t = 0 /\ ids = <<>>
           \/ \E chunk \in MetaChunks :
                 stamp = <<chunk>> /\ Idless(chunk) /\ t = Count(chunk) /\ ids = chunk.ids
    <3>1. CASE added = <<>>
      BY <1>0, <1>2, <3>1
    <3>2. CASE added = <<"choice">>
      <4> DEFINE chunk == Stamp(pending, "choice")
      <4>1. /\ added # <<>> /\ added[1] = "choice" /\ "choice" \in JailKinds
        BY <3>2 DEF JailKinds
      <4>2. /\ stamp = <<chunk>> /\ rest = Stamped(pending, "choice")
            /\ t = Count(chunk) /\ ids = chunk.ids
        BY <4>1
      <4> HIDE DEF stamp, rest, t, ids
      <4>3. /\ chunk \in MetaChunks /\ Idless(chunk)
            /\ rest \in Metadata /\ (~rest.metrics => rest.tokens = 0)
            /\ Count(chunk) + rest.tokens = pending.tokens
            /\ chunk.ids \o rest.ids = pending.ids
        BY <1>0, <4>1, <4>2, StampShares
      <4> HIDE DEF chunk
      <4>4. t \in Nat /\ ids \in Seq(Nat)
        BY <4>2, <4>3, CountType DEF MetaChunks
      <4> QED BY <4>2, <4>3, <4>4
    <3> QED BY <3>1, <3>2
  <2> HIDE DEF stamp, rest, t, ids
  <2> DEFINE one == passed \o stamp
             two == one \o Synthetic(rest)
             three == two \o held
  <2>4. rest.tokens \in Nat /\ rest.ids \in Seq(Nat)
    BY <2>3 DEF Metadata
  <2>5. /\ one \in Seq(MetaChunks)
        /\ Total(one) = Total(passed) + t /\ Total(one) \in Nat
        /\ Ids(one) = Ids(passed) \o ids /\ Ids(one) \in Seq(Nat)
        /\ \A k \in DOMAIN one : Idless(one[k])
    BY <1>0, <2>3, PassSome
  <2> HIDE DEF one
  <2>6. /\ two \in Seq(MetaChunks)
        /\ Total(two) = Total(one) + rest.tokens /\ Total(two) \in Nat
        /\ Ids(two) = Ids(one) \o rest.ids /\ Ids(two) \in Seq(Nat)
        /\ \A k \in DOMAIN two : Idless(two[k])
    <3> DEFINE some == Synthetic(rest)
               count == rest.tokens
               left == rest.ids
    <3>1. \/ some = <<>> /\ count = 0 /\ left = <<>>
          \/ \E chunk \in MetaChunks :
                some = <<chunk>> /\ Idless(chunk) /\ count = Count(chunk) /\ left = chunk.ids
      BY <2>3, SyntheticCarries
    <3>2. count \in Nat /\ left \in Seq(Nat)
      BY <2>4
    <3> HIDE DEF some, count, left
    <3>3. /\ one \o some \in Seq(MetaChunks)
          /\ Total(one \o some) = Total(one) + count /\ Total(one \o some) \in Nat
          /\ Ids(one \o some) = Ids(one) \o left /\ Ids(one \o some) \in Seq(Nat)
          /\ \A k \in DOMAIN (one \o some) : Idless((one \o some)[k])
      BY <2>5, <3>1, <3>2, PassSome
    <3> QED BY <3>3 DEF some, count, left
  <2> HIDE DEF two
  <2>7. /\ three \in Seq(MetaChunks)
        /\ Total(three) = Total(two) + HeldCount /\ Total(three) \in Nat
        /\ Ids(three) = Ids(two) \o <<>> /\ Ids(three) \in Seq(Nat)
        /\ \A k \in DOMAIN three : Idless(three[k])
    <3>1. CASE held = <<>> /\ HeldCount = 0
      <4>1. three = two
        BY <2>6, <3>1
      <4> HIDE DEF three
      <4>2. Ids(two) \o <<>> = Ids(two) /\ Total(two) + HeldCount = Total(two)
        BY <2>6, <3>1
      <4> QED BY <2>6, <4>1, <4>2
    <3>2. ASSUME NEW chunk \in MetaChunks,
                 held = <<chunk>>, Idless(chunk), HeldCount = Count(chunk), chunk.ids = <<>>
          PROVE  /\ three \in Seq(MetaChunks)
                 /\ Total(three) = Total(two) + HeldCount /\ Total(three) \in Nat
                 /\ Ids(three) = Ids(two) \o <<>> /\ Ids(three) \in Seq(Nat)
                 /\ \A k \in DOMAIN three : Idless(three[k])
      <4>1. three = Append(two, chunk)
        BY <2>6, <3>2
      <4> QED BY <2>6, <3>2, <4>1, PassOne
    <3> QED BY <1>1, <3>1, <3>2
  <2> HIDE DEF three
  <2>8. passed' = three
    BY <2>2 DEF one, two, three
  <2>9. Total(three) = Total(arrived)
    <3>1. Total(three) = ((Total(passed) + t) + rest.tokens) + HeldCount
      BY <2>5, <2>6, <2>7
    <3>2. t \in Nat /\ t + rest.tokens = pending.tokens
      BY <2>3
    <3>3. Total(passed) \in Nat /\ Total(arrived) = Total(passed) + HeldCount + pending.tokens
      BY <1>0
    <3> QED BY <1>2, <2>4, <3>1, <3>2, <3>3
  <2>10. Ids(three) = Ids(arrived)
    <3> DEFINE x == Ids(passed)
               y == ids
               z == rest.ids
    <3>1. x \in Seq(Nat) /\ y \in Seq(Nat) /\ z \in Seq(Nat)
      BY <1>0, <2>3, <2>4
    <3>2. Ids(two) = (x \o y) \o z /\ Ids(arrived) = x \o (y \o z)
      BY <1>0, <2>3, <2>5, <2>6
    <3> HIDE DEF x, y, z
    <3>3. (x \o y) \o z = x \o (y \o z)
      BY <3>1, IdsGroup
    <3> QED BY <2>6, <2>7, <3>2, <3>3, IdsJoin
  <2> QED BY <1>3, <1>7, <2>7, <2>8, <2>9, <2>10 DEF MetadataConserved, Idless
<1> QED BY <1>0, <1>6, <1>7

\* No step loses or repeats metadata.
LEMMA JailNextKeeps ==
  ASSUME JailInv, [JailNext]_jailVars
  PROVE  JailInv'
<1>1. ASSUME NEW n \in 0..MaxTokens, NEW counted \in BOOLEAN,
             Arrive(Chunk("choice", IF counted THEN <<n>> ELSE <<>>, [k \in 1..n |-> Produced + k]))
      PROVE  JailInv'
  <2> DEFINE tokens == IF counted THEN <<n>> ELSE <<>>
             ids == [k \in 1..n |-> Produced + k]
             chunk == Chunk("choice", tokens, ids)
  <2>1. n \in Nat
    OBVIOUS
  <2>2. Produced \in Nat
    BY DEF Produced, JailInv, Balanced
  <2>3. ids \in Seq(Nat)
    <3>1. ids \in [1..n -> Nat]
      BY <2>1, <2>2
    <3> QED BY <2>1, <3>1
  <2>4. tokens \in Seq(Nat) /\ Len(tokens) =< 1
    BY <2>1
  <2>5. Arrive(chunk)
    BY <1>1
  <2> HIDE DEF tokens, ids
  <2>6. chunk \in MetaChunks /\ chunk.kind \in JailKinds
    BY <2>3, <2>4 DEF Chunk, MetaChunks, JailKinds
  <2> HIDE DEF chunk
  <2> QED BY <2>5, <2>6, ArriveKeeps
<1>2. CASE \E kind \in {"usage", "payload", "bare"} :
             Arrive(Chunk(kind, IF HasData(kind) THEN <<0>> ELSE <<>>, <<>>))
  <2>0. PICK kind \in {"usage", "payload", "bare"} :
          Arrive(Chunk(kind, IF HasData(kind) THEN <<0>> ELSE <<>>, <<>>))
    BY <1>2
  <2> DEFINE tokens == IF HasData(kind) THEN <<0>> ELSE <<>>
             chunk == Chunk(kind, tokens, <<>>)
  <2>1. tokens \in Seq(Nat) /\ Len(tokens) =< 1 /\ <<>> \in Seq(Nat)
    OBVIOUS
  <2>2. Arrive(chunk)
    BY <2>0
  <2> HIDE DEF tokens
  <2>3. chunk \in MetaChunks /\ chunk.kind \in JailKinds
    BY <2>1 DEF Chunk, MetaChunks, JailKinds
  <2> HIDE DEF chunk
  <2> QED BY <2>2, <2>3, ArriveKeeps
<1>3. CASE Swallow
  <2>1. jail' \in Seq(JailKinds)
    BY <1>3 DEF Swallow, JailInv, AdapterTypes
  <2> QED BY <1>3, <2>1 DEF Swallow, JailInv, AdapterTypes, Balanced, HeldCount, MetadataConserved
<1>4. CASE Fail
  BY <1>4 DEF Fail, JailInv, AdapterTypes, Balanced, HeldCount, MetadataConserved
<1>5. CASE UNCHANGED jailVars
  BY <1>5 DEF jailVars, JailInv, AdapterTypes, Balanced, HeldCount, MetadataConserved
<1> QED BY <1>1, <1>2, <1>3, <1>4, <1>5, ReleaseKeeps, AdapterEndKeeps DEF JailNext

\* apply_tool_calling_jail: however the jail holds, folds, swallows and adds
\* chunks, and however long the response, every token and every completion id
\* that came in is reported exactly once and in order, or the response ends in
\* its error.
THEOREM MetadataIsConserved == JailSpec => []MetadataConserved
<1>1. JailInit => JailInv
  <2>1. Total(<<>>) = 0 /\ Ids(<<>>) = <<>>
    BY NothingReported
  <2> SUFFICES ASSUME JailInit PROVE JailInv
    OBVIOUS
  <2>2. <<>> \in Seq(Nat) /\ <<>> \in Seq(MetaChunks) /\ <<>> \in Seq(JailKinds)
    OBVIOUS
  <2>3. /\ pending \in Metadata /\ pending.tokens = 0 /\ pending.ids = <<>>
    BY <2>2 DEF JailInit, NoMetadata, Metadata
  <2>4. AdapterTypes
    BY <2>2, <2>3 DEF JailInit, AdapterTypes
  <2>5. Balanced
    <3>1. arrived = <<>> /\ passed = <<>> /\ held = <<>>
      BY DEF JailInit
    <3>2. /\ Total(arrived) = 0 /\ Total(passed) = 0 /\ HeldCount = 0
          /\ Ids(arrived) = <<>> /\ Ids(passed) = <<>>
      BY <2>1, <3>1 DEF HeldCount
    <3>3. <<>> = <<>> \o <<>>
      BY <2>2
    <3>4. \A k \in DOMAIN passed : Idless(passed[k])
      BY <3>1
    <3> QED BY <2>2, <2>3, <3>2, <3>3, <3>4 DEF Balanced
  <2> QED BY <2>4, <2>5 DEF JailInit, JailInv, MetadataConserved
<1>2. JailInv /\ [JailNext]_jailVars => JailInv'
  BY JailNextKeeps
<1>3. JailInv => MetadataConserved
  BY DEF JailInv
<1> QED BY <1>1, <1>2, <1>3, PTL DEF JailSpec
=============================================================================
