-------------------------- MODULE ReplayEpochProofs --------------------------
(***************************************************************************)
(* What epoch.json, the rows and requests.jsonl say agrees, for any set of *)
(* workflows, any number of turns and of lines that cannot be written.     *)
(***************************************************************************)
EXTENDS ReplayEpoch, SequenceTheorems, TLAPS

Ended == {"completed", "output_limit", "incomplete", "error", "timeout", "cancelled"}
Replies == {"running", "completed", "failed"}
RowSet == [status : Ended \cup {"absent", "running"}, calls : Seq(Replies), final : BOOLEAN]
LineSet == [type : {"request", "response", "workflow_end"}, session : Sessions, call : Nat,
            status : Ended \cup Replies]

TypeOK ==
    /\ main \in {"entering", "group", "closing", "over"}
    /\ broken \in BOOLEAN
    /\ stage \in [Sessions -> {"sleeping", "waiting", "calling", "finishing", "gone"}]
    /\ cancelled \subseteq Sessions
    /\ leaving \in [Sessions -> {"nothing", "cancelled"}]
    /\ rows \in [Sessions -> RowSet]
    /\ trace \in Seq(LineSet)
    /\ epoch \in {"none", "finished", "interrupted"}

(***************************************************************************)
(* The inductive invariant.  Where a task is fixes the shape of its row.   *)
(***************************************************************************)
Open(s) == rows[s].status = "running"

Closed(s) == /\ rows[s].status \in Ended
             /\ rows[s].status = "completed" =>
                   rows[s].calls = [k \in 1 .. Turns |-> "completed"]

InPlace(s) ==
    /\ stage[s] = "sleeping" => rows[s] = NoRow
    /\ stage[s] = "waiting" =>
          Open(s) /\ \A k \in DOMAIN rows[s].calls : rows[s].calls[k] = "completed"
    /\ stage[s] = "calling" =>
          /\ Open(s) /\ Len(rows[s].calls) > 0
          /\ \A k \in DOMAIN rows[s].calls :
                rows[s].calls[k] = IF k = Len(rows[s].calls) THEN "running" ELSE "completed"
    /\ stage[s] = "finishing" => Closed(s)
    /\ stage[s] = "gone" =>
          /\ rows[s] = NoRow \/ Closed(s)
          /\ ~broken =>
                /\ rows[s].status # "absent" /\ rows[s].final
                /\ \E i \in LinesOf(s) : trace[i].type = "workflow_end"

(* Only an epoch that is lost anyway cancels a task. *)
Doomed(s) ==
    s \in cancelled \/ leaving[s] = "cancelled" \/ rows[s].status = "cancelled" => broken

(* Every line is about its row, and nothing follows a workflow_end. *)
LineTells(s, i) ==
    /\ trace[i].type \in {"request", "response"} => trace[i].call \in DOMAIN rows[s].calls
    /\ trace[i].type = "response" =>
          trace[i].status # "running" /\ trace[i].status = rows[s].calls[trace[i].call]
    /\ trace[i].type = "workflow_end" =>
          /\ trace[i].call = 0 /\ trace[i].status = rows[s].status /\ rows[s].final
          /\ stage[s] = "gone"
          /\ \A j \in LinesOf(s) : j =< i

(* Every call has a line, but the one whose line could not be written. *)
Silent(s, k) ==
    rows[s].calls[k] = "running" /\ ~(stage[s] = "calling" /\ k = Len(rows[s].calls))

CallTold(s, k) == Silent(s, k) <=> \A i \in LinesOf(s) : trace[i].call # k

Story(s) ==
    /\ InPlace(s) /\ Doomed(s)
    /\ \A i \in LinesOf(s) : LineTells(s, i)
    /\ \A k \in DOMAIN rows[s].calls : CallTold(s, k)

Phases ==
    /\ main = "entering" => \A s \in Sessions : stage[s] = "sleeping"
    /\ main = "closing" => \A s \in Sessions : stage[s] = "gone"
    /\ main = "over" => \A s \in Sessions : stage[s] \in {"sleeping", "gone"}
    /\ epoch # "none" => main = "over"
    /\ epoch = "finished" => ~broken /\ \A s \in Sessions : stage[s] = "gone"

IInv == TypeOK /\ Phases /\ \A s \in Sessions : Story(s)

(***************************************************************************)
(* The trace                                                               *)
(***************************************************************************)

(* The trace is as it was, or has one more line, of session s. *)
Grows(s) == trace' = trace \/ \E line \in LineSet : line.session = s /\ trace' = Append(trace, line)

\* What one more line does to the lines of each session.
LEMMA OneMoreLine ==
  ASSUME TypeOK, NEW line \in LineSet, trace' = Append(trace, line)
  PROVE  /\ trace' \in Seq(LineSet)
         /\ Len(trace) + 1 \notin DOMAIN trace /\ trace'[Len(trace) + 1] = line
         /\ \A i \in DOMAIN trace : trace'[i] = trace[i] /\ i < Len(trace) + 1
         /\ \A t : LinesOf(t)' = LinesOf(t) \cup
                                 (IF line.session = t THEN {Len(trace) + 1} ELSE {})
<1>1. trace \in Seq(LineSet) /\ Len(trace) \in Nat /\ DOMAIN trace = 1..Len(trace)
  BY LenProperties DEF TypeOK
<1>2. PICK new : new = Append(trace, line)
  OBVIOUS
<1>3. /\ new \in Seq(LineSet) /\ Len(new) = Len(trace) + 1
      /\ \A i \in 1..Len(trace) : new[i] = trace[i]
      /\ new[Len(trace) + 1] = line
  BY <1>1, <1>2, AppendProperties
<1>4. DOMAIN new = 1..(Len(trace) + 1)
  BY <1>3, LenProperties
<1>5. trace' = new
  BY <1>2
<1>6. ASSUME NEW t
      PROVE  LinesOf(t)' = LinesOf(t) \cup (IF line.session = t THEN {Len(trace) + 1} ELSE {})
  BY <1>1, <1>3, <1>4, <1>5 DEF LinesOf
<1> QED BY <1>1, <1>3, <1>5, <1>6

\* The lines of another session are left alone.
LEMMA OtherLines ==
  ASSUME TypeOK, NEW s \in Sessions, Grows(s), NEW t, t # s
  PROVE  LinesOf(t)' = LinesOf(t) /\ \A i \in LinesOf(t) : trace'[i] = trace[i]
<1>1. CASE trace' = trace
  BY <1>1 DEF LinesOf
<1>2. CASE trace' # trace
  <2>1. PICK line \in LineSet : line.session = s /\ trace' = Append(trace, line)
    BY <1>2 DEF Grows
  <2>2. LinesOf(t)' = LinesOf(t) /\ \A i \in DOMAIN trace : trace'[i] = trace[i]
    BY <2>1, OneMoreLine
  <2> QED BY <2>2 DEF LinesOf
<1> QED BY <1>1, <1>2

(***************************************************************************)
(* A step of one task                                                      *)
(***************************************************************************)

(* What any step of task s leaves alone. *)
StepOf(s) ==
    /\ main = "group" /\ UNCHANGED <<main, epoch>>
    /\ Grows(s)
    /\ broken => broken'
    /\ \A t \in Sessions \ {s} :
          /\ rows'[t] = rows[t] /\ stage'[t] = stage[t] /\ leaving'[t] = leaving[t]
          /\ t \in cancelled' => t \in cancelled \/ broken'

\* The story of another task stays as it is.
LEMMA OtherStory ==
  ASSUME IInv, NEW s \in Sessions, StepOf(s), NEW t \in Sessions, t # s
  PROVE  Story(t)'
<1>1. /\ rows'[t] = rows[t] /\ stage'[t] = stage[t] /\ leaving'[t] = leaving[t]
      /\ (broken => broken') /\ (t \in cancelled' => t \in cancelled \/ broken')
  BY DEF StepOf
<1>2. LinesOf(t)' = LinesOf(t) /\ \A i \in LinesOf(t) : trace'[i] = trace[i]
  BY OtherLines DEF IInv, StepOf
<1>3. Story(t)
  BY DEF IInv
<1>4. InPlace(t)'
  BY <1>1, <1>2, <1>3 DEF Story, InPlace, Open, Closed
<1>5. Doomed(t)'
  BY <1>1, <1>3 DEF Story, Doomed
<1>6. \A i \in LinesOf(t)' : LineTells(t, i)'
  BY <1>1, <1>2, <1>3 DEF Story, LineTells
<1>7. \A k \in DOMAIN rows'[t].calls : CallTold(t, k)'
  BY <1>1, <1>2, <1>3 DEF Story, CallTold, Silent
<1> QED BY <1>4, <1>5, <1>6, <1>7 DEF Story

\* A step of a task is judged by the story of that task alone.
LEMMA StepKeeps ==
  ASSUME IInv, NEW s \in Sessions, StepOf(s), TypeOK', Story(s)'
  PROVE  IInv'
<1>1. \A t \in Sessions : Story(t)'
  BY OtherStory
<1>2. Phases'
  BY DEF StepOf, IInv, Phases
<1> QED BY <1>1, <1>2 DEF IInv

(* The new row of task s, and where the task goes. *)
RowBecomes(s, status, calls, final) ==
    /\ rows' \in [Sessions -> RowSet]
    /\ rows'[s].status = status /\ rows'[s].calls = calls /\ rows'[s].final = final
    /\ \A t \in Sessions \ {s} : rows'[t] = rows[t]

\* A row is set as a whole.
LEMMA RowIsSet ==
  ASSUME TypeOK, NEW s \in Sessions, NEW row \in RowSet, rows' = [rows EXCEPT ![s] = row]
  PROVE  RowBecomes(s, row.status, row.calls, row.final)
  BY DEF TypeOK, RowBecomes

\* The parts of a row.
LEMMA RowParts ==
  ASSUME TypeOK, NEW s \in Sessions
  PROVE  /\ rows[s] \in RowSet /\ rows[s].status \in Ended \cup {"absent", "running"}
         /\ rows[s].calls \in Seq(Replies) /\ rows[s].final \in BOOLEAN
         /\ Len(rows[s].calls) \in Nat /\ DOMAIN rows[s].calls = 1..Len(rows[s].calls)
<1>1. rows[s] \in RowSet
  BY DEF TypeOK
<1>2. rows[s].status \in Ended \cup {"absent", "running"} /\ rows[s].calls \in Seq(Replies)
  BY <1>1 DEF RowSet
<1>3. rows[s].final \in BOOLEAN
  BY <1>1 DEF RowSet
<1> QED BY <1>1, <1>2, <1>3, LenProperties

\* A new status leaves calls and the final mark alone.
LEMMA StatusSet ==
  ASSUME TypeOK, NEW s \in Sessions, NEW status \in Ended \cup {"absent", "running"},
         rows' = [rows EXCEPT ![s].status = status]
  PROVE  RowBecomes(s, status, rows[s].calls, rows[s].final)
<1>1. PICK row : row = [rows[s] EXCEPT !.status = status]
  OBVIOUS
<1>2. row \in RowSet /\ row.status = status /\ row.calls = rows[s].calls /\ row.final = rows[s].final
  BY <1>1, RowParts DEF RowSet
<1>3. rows' = [rows EXCEPT ![s] = row]
  BY <1>1
<1> QED BY <1>2, <1>3, RowIsSet

\* Types of a step of task s.
LEMMA StepTypes ==
  ASSUME IInv, NEW s \in Sessions, Grows(s), rows' \in [Sessions -> RowSet],
         UNCHANGED <<main, epoch>>, broken' \in BOOLEAN, cancelled' \subseteq Sessions,
         NEW place \in {"sleeping", "waiting", "calling", "finishing", "gone"},
         stage' = [stage EXCEPT ![s] = place],
         NEW raised \in {"nothing", "cancelled"},
         leaving' = leaving \/ leaving' = [leaving EXCEPT ![s] = raised]
  PROVE  /\ TypeOK' /\ stage'[s] = place
         /\ \A t \in Sessions \ {s} : stage'[t] = stage[t] /\ leaving'[t] = leaving[t]
         /\ leaving'[s] \in {leaving[s], raised}
<1>1. trace' \in Seq(LineSet)
  BY OneMoreLine DEF IInv, TypeOK, Grows
<1>2. /\ stage' \in [Sessions -> {"sleeping", "waiting", "calling", "finishing", "gone"}]
      /\ stage'[s] = place /\ \A t \in Sessions \ {s} : stage'[t] = stage[t]
  BY DEF IInv, TypeOK
<1>3. /\ leaving' \in [Sessions -> {"nothing", "cancelled"}] /\ leaving'[s] \in {leaving[s], raised}
      /\ \A t \in Sessions \ {s} : leaving'[t] = leaving[t]
  BY DEF IInv, TypeOK
<1> QED BY <1>1, <1>2, <1>3 DEF IInv, TypeOK

(***************************************************************************)
(* The steps of workflow_run                                               *)
(***************************************************************************)

(* A line that a call may write. *)
CallLine(s, line) ==
    /\ line \in LineSet /\ line.session = s /\ line.type \in {"request", "response"}
    /\ line.call \in DOMAIN rows'[s].calls
    /\ line.type = "response" =>
          line.status # "running" /\ line.status = rows'[s].calls[line.call]

\* The lines of a task at work are lines of its calls.
LEMMA LinesOfCalls ==
  ASSUME IInv, NEW s \in Sessions, stage[s] # "gone", NEW i \in LinesOf(s)
  PROVE  /\ trace[i] \in LineSet /\ trace[i].type \in {"request", "response"}
         /\ trace[i].call \in DOMAIN rows[s].calls
         /\ trace[i].type = "response" =>
               trace[i].status # "running" /\ trace[i].status = rows[s].calls[trace[i].call]
<1>1. trace[i] \in LineSet
  BY LenProperties DEF LinesOf, IInv, TypeOK
<1>2. trace[i].type \in {"request", "response", "workflow_end"}
  BY <1>1 DEF LineSet
<1>3. LineTells(s, i)
  BY DEF IInv, Story
<1> QED BY <1>1, <1>2, <1>3 DEF LineTells

\* Lines stay true when calls are added or answered.
LEMMA LinesKept ==
  ASSUME IInv, NEW s \in Sessions, stage[s] # "gone",
         \A k \in DOMAIN rows[s].calls :
            /\ k \in DOMAIN rows'[s].calls
            /\ rows[s].calls[k] # "running" => rows'[s].calls[k] = rows[s].calls[k],
         trace' = trace \/ \E line : CallLine(s, line) /\ trace' = Append(trace, line)
  PROVE  /\ Grows(s)
         /\ \A i \in LinesOf(s)' : LineTells(s, i)'
         /\ \A i \in LinesOf(s) : i \in LinesOf(s)' /\ trace'[i] = trace[i]
<1>1. ASSUME NEW i \in LinesOf(s), trace'[i] = trace[i]
      PROVE  LineTells(s, i)'
  BY <1>1, LinesOfCalls DEF LineTells
<1>2. CASE trace' = trace
  BY <1>1, <1>2 DEF LinesOf, Grows
<1>3. CASE trace' # trace
  <2>1. PICK line : CallLine(s, line) /\ trace' = Append(trace, line)
    BY <1>3
  <2>2. line \in LineSet /\ line.session = s
    BY <2>1 DEF CallLine
  <2>3. PICK n : /\ \A i \in DOMAIN trace : trace'[i] = trace[i]
                 /\ trace'[n] = line
                 /\ LinesOf(s)' = LinesOf(s) \cup {n}
    BY <2>1, <2>2, OneMoreLine DEF IInv
  <2>4. \A i \in LinesOf(s) : trace'[i] = trace[i]
    BY <2>3 DEF LinesOf
  <2>5. LineTells(s, n)'
    BY <2>1, <2>3 DEF CallLine, LineTells
  <2> QED BY <1>1, <2>1, <2>2, <2>3, <2>4, <2>5 DEF Grows
<1> QED BY <1>2, <1>3

\* A workflow arrives.
LEMMA ArriveKeeps ==
  ASSUME IInv, NEW s \in Sessions, Arrive(s)
  PROVE  IInv'
<1>0. /\ main = "group" /\ stage[s] = "sleeping" /\ stage' = [stage EXCEPT ![s] = "waiting"]
      /\ rows' = [rows EXCEPT ![s].status = "running"]
      /\ UNCHANGED <<main, broken, cancelled, leaving, trace, epoch>>
  BY DEF Arrive, Steps, MoveTo
<1>1. RowBecomes(s, "running", rows[s].calls, rows[s].final)
  BY <1>0, StatusSet DEF IInv
<1>2. rows[s] = NoRow /\ rows[s].calls = <<>> /\ DOMAIN rows[s].calls = {}
      /\ Story(s)
  BY <1>0 DEF IInv, Story, InPlace, NoRow
<1>3. LinesOf(s)' = {}
  <2>1. LinesOf(s) = {}
    BY <1>0, <1>2, LinesOfCalls
  <2> QED BY <1>0, <2>1 DEF LinesOf
<1>4. TypeOK' /\ stage'[s] = "waiting" /\ \A t \in Sessions \ {s} : stage'[t] = stage[t]
  BY <1>0, <1>1, StepTypes DEF Grows, RowBecomes, IInv, TypeOK
<1>5. StepOf(s)
  BY <1>0, <1>1, <1>4 DEF StepOf, Grows, RowBecomes
<1>6. Story(s)'
  BY <1>0, <1>1, <1>2, <1>3, <1>4 DEF Story, InPlace, Doomed, RowBecomes, Open
<1> QED BY <1>4, <1>5, <1>6, StepKeeps

\* A call is recorded, logged and sent, or its line cannot be written.
LEMMA RequestKeeps ==
  ASSUME IInv, NEW s \in Sessions, Request(s)
  PROVE  IInv'
<1>o. PICK old : old = rows[s].calls
  OBVIOUS
<1>n. PICK n : n = Len(old) + 1
  OBVIOUS
<1>0. /\ main = "group" /\ stage[s] = "waiting"
      /\ UNCHANGED <<main, broken, cancelled, epoch>>
      /\ s \notin cancelled
  BY DEF Request, Steps
<1>1. /\ rows[s] \in RowSet /\ old \in Seq(Replies) /\ Len(old) \in Nat
      /\ DOMAIN old = 1..Len(old) /\ rows[s].status = "running" /\ old = rows[s].calls /\ n = Len(old) + 1
      /\ \A k \in DOMAIN old : old[k] = "completed"
      /\ Story(s)
  BY <1>o, <1>n, <1>0, RowParts DEF IInv, Story, InPlace, Open
<1>2. PICK calls : calls = Append(old, "running")
  OBVIOUS
<1>3. /\ calls \in Seq(Replies) /\ Len(calls) = Len(old) + 1 /\ DOMAIN calls = 1..(Len(old) + 1)
      /\ \A k \in 1..Len(old) : calls[k] = old[k]
      /\ calls[Len(old) + 1] = "running"
  <2>1. "running" \in Replies
    BY DEF Replies
  <2>2. /\ calls \in Seq(Replies) /\ Len(calls) = Len(old) + 1
        /\ \A k \in 1..Len(old) : calls[k] = old[k]
        /\ calls[Len(old) + 1] = "running"
    BY <1>1, <1>2, <2>1, AppendProperties
  <2> QED BY <2>2, LenProperties
<1>4. PICK sent : sent = [rows[s] EXCEPT !.calls = calls]
  OBVIOUS
<1>5. PICK row : row = [sent EXCEPT !.status = "error"]
  OBVIOUS
<1>6. /\ sent \in RowSet /\ sent.status = "running" /\ sent.calls = calls
      /\ row \in RowSet /\ row.status = "error" /\ row.calls = calls
  BY <1>1, <1>3, <1>4, <1>5 DEF RowSet, Ended
<1>7. PICK line : line = Line("request", s, Len(old) + 1, "running")
  OBVIOUS
<1>8. \/ /\ trace' = Append(trace, line) /\ rows' = [rows EXCEPT ![s] = sent]
         /\ stage' = [stage EXCEPT ![s] = "calling"] /\ leaving' = leaving
      \/ /\ trace' = trace /\ rows' = [rows EXCEPT ![s] = row]
         /\ stage' = [stage EXCEPT ![s] = "finishing"]
         /\ leaving' = [leaving EXCEPT ![s] = "nothing"]
  <2>1. [rows EXCEPT ![s].calls = Append(@, "running")] = [rows EXCEPT ![s] = sent]
    BY <1>1, <1>2, <1>4 DEF IInv, TypeOK
  <2>2. [[rows EXCEPT ![s] = sent] EXCEPT ![s].status = "error"] = [rows EXCEPT ![s] = row]
    BY <1>5 DEF IInv, TypeOK
  <2> QED BY <1>1, <1>7, <2>1, <2>2 DEF Request, Log, LogFails, MoveTo
<1>9. PICK new \in RowSet : /\ rows' = [rows EXCEPT ![s] = new] /\ new.calls = calls
                            /\ new \in {sent, row}
  BY <1>6, <1>8
<1>10. RowBecomes(s, new.status, calls, new.final)
  BY <1>9, RowIsSet DEF IInv
<1>11. CallLine(s, line)
  BY <1>1, <1>3, <1>7, <1>10 DEF CallLine, Line, LineSet, Replies, RowBecomes
<1>12. /\ Grows(s) /\ \A i \in LinesOf(s)' : LineTells(s, i)'
       /\ \A i \in LinesOf(s) : i \in LinesOf(s)' /\ trace'[i] = trace[i]
  <2>1. \A k \in DOMAIN rows[s].calls :
           /\ k \in DOMAIN rows'[s].calls
           /\ rows[s].calls[k] # "running" => rows'[s].calls[k] = rows[s].calls[k]
    BY <1>1, <1>3, <1>10 DEF RowBecomes
  <2>2. trace' = trace \/ \E l : CallLine(s, l) /\ trace' = Append(trace, l)
    BY <1>8, <1>11
  <2> QED BY <1>0, <2>1, <2>2, LinesKept
<1>13. TypeOK' /\ stage'[s] \in {"calling", "finishing"}
       /\ (\A t \in Sessions \ {s} : stage'[t] = stage[t] /\ leaving'[t] = leaving[t])
       /\ leaving'[s] \in {leaving[s], "nothing"}
  <2>1. PICK place \in {"calling", "finishing"} : stage' = [stage EXCEPT ![s] = place]
    BY <1>8
  <2>2. leaving' = leaving \/ leaving' = [leaving EXCEPT ![s] = "nothing"]
    BY <1>8
  <2> QED BY <1>0, <1>10, <1>12, <2>1, <2>2, StepTypes DEF RowBecomes, IInv, TypeOK
<1>14. StepOf(s)
  BY <1>0, <1>10, <1>12, <1>13 DEF StepOf, RowBecomes
<1>15. Doomed(s)'
  BY <1>0, <1>1, <1>6, <1>9, <1>10, <1>13 DEF Story, Doomed, RowBecomes
<1>16. \A k \in 1..Len(old) : CallTold(s, k)'
  <2> SUFFICES ASSUME NEW k \in 1..Len(old) PROVE CallTold(s, k)'
    OBVIOUS
  <2>1. PICK i \in LinesOf(s) : trace[i].call = k
    BY <1>1 DEF Story, CallTold, Silent
  <2>2. rows'[s].calls[k] = "completed"
    BY <1>1, <1>3, <1>10 DEF RowBecomes
  <2> QED BY <1>12, <2>1, <2>2 DEF CallTold, Silent
<1>17. CASE trace' = Append(trace, line)
  <2>1. stage'[s] = "calling" /\ rows'[s].status = "running"
    <3>1. trace' # trace
      BY <1>11, <1>17, OneMoreLine DEF CallLine, IInv
    <3> QED BY <1>6, <1>8, <3>1 DEF IInv, TypeOK
  <2>2. InPlace(s)'
    BY <1>1, <1>3, <1>10, <2>1 DEF InPlace, Open, RowBecomes
  <2>3. CallTold(s, n)'
    <3>1. PICK i \in LinesOf(s)' : trace'[i] = line
      BY <1>11, <1>17, OneMoreLine DEF CallLine, IInv
    <3>2. line.call = Len(old) + 1
      BY <1>7 DEF Line
    <3> QED BY <1>1, <1>3, <1>10, <2>1, <3>1, <3>2 DEF CallTold, Silent, RowBecomes
  <2>4. Story(s)'
    BY <1>1, <1>3, <1>10, <1>12, <1>15, <1>16, <2>2, <2>3 DEF Story, RowBecomes
  <2> QED BY <1>13, <1>14, <2>4, StepKeeps
<1>18. CASE trace' = trace
  <2>1. stage'[s] = "finishing" /\ rows'[s].status = "error"
    <3>1. trace' # Append(trace, line)
      BY <1>11, <1>18, OneMoreLine DEF CallLine, IInv
    <3> QED BY <1>6, <1>8, <3>1 DEF IInv, TypeOK
  <2>2. InPlace(s)'
    BY <2>1 DEF InPlace, Closed, Ended
  <2>3. CallTold(s, n)'
    <3>1. \A i \in LinesOf(s) : trace[i].call # Len(old) + 1
      BY <1>0, <1>1, LinesOfCalls
    <3>2. \A i \in LinesOf(s)' : trace'[i].call # Len(old) + 1
      BY <1>18, <3>1 DEF LinesOf
    <3> QED BY <1>1, <1>3, <1>10, <2>1, <3>2 DEF CallTold, Silent, RowBecomes
  <2>4. Story(s)'
    BY <1>1, <1>3, <1>10, <1>12, <1>15, <1>16, <2>2, <2>3 DEF Story, RowBecomes
  <2> QED BY <1>13, <1>14, <2>4, StepKeeps
<1> QED BY <1>8, <1>17, <1>18

\* A call is over: with the next turn, an end of the workflow, or a line lost.
LEMMA AnsweredKeeps ==
  ASSUME IInv, NEW s \in Sessions, main = "group", stage[s] = "calling",
         NEW status \in {"completed", "failed"}, NEW ending \in Ended \cup {"none"},
         NEW raised \in {"nothing", "cancelled"}, Answered(s, status, ending, raised),
         ending = "none" => status = "completed",
         ending = "completed" => status = "completed" /\ Len(rows[s].calls) = Turns,
         ending = "cancelled" \/ raised = "cancelled" => broken,
         cancelled' \subseteq cancelled
  PROVE  IInv'
<1>1. PICK old, n : old = rows[s].calls /\ n = Len(old)
  OBVIOUS
<1>2. /\ rows[s] \in RowSet /\ old \in Seq(Replies) /\ n \in Nat
      /\ DOMAIN old = 1..n /\ rows[s].status = "running" /\ n > 0
      /\ \A k \in DOMAIN old : old[k] = IF k = n THEN "running" ELSE "completed"
      /\ Story(s)
  BY <1>1, RowParts DEF IInv, Story, InPlace, Open
<1>3. PICK calls : calls = [old EXCEPT ![n] = status]
  OBVIOUS
<1>4. /\ calls \in Seq(Replies) /\ Len(calls) = n /\ DOMAIN calls = 1..n /\ calls[n] = status
      /\ \A k \in 1..n : k # n => calls[k] = "completed"
  <2>1. status \in Replies /\ n \in 1..Len(old)
    BY <1>1, <1>2 DEF Replies
  <2>2. /\ calls \in Seq(Replies) /\ Len(calls) = Len(old) /\ calls[n] = status
        /\ \A k \in 1..Len(old) : k # n => calls[k] = old[k]
    BY <1>2, <1>3, <2>1, ExceptSeq
  <2> QED BY <1>1, <1>2, <2>2, LenProperties
<1>5. PICK called : called = [rows[s] EXCEPT !.calls = calls]
  OBVIOUS
<1>6. called \in RowSet /\ called.status = "running" /\ called.calls = calls
  BY <1>2, <1>4, <1>5 DEF RowSet
<1>7. PICK line : line = Line("response", s, n, status)
  OBVIOUS
<1>8. PICK row \in RowSet, place \in {"waiting", "finishing"} :
        /\ row.calls = calls
        /\ rows' = [rows EXCEPT ![s] = row]
        /\ stage' = [stage EXCEPT ![s] = place]
        /\ place = "waiting" => row.status = "running" /\ status = "completed"
        /\ place = "finishing" => row.status \in {"error", ending} /\ row.status \in Ended
        /\ leaving' = leaving \/ leaving' = [leaving EXCEPT ![s] = raised]
           \/ leaving' = [leaving EXCEPT ![s] = "nothing"]
        /\ trace' = trace \/ trace' = Append(trace, line)
  <2>1. Called(s, status) = [rows EXCEPT ![s] = called]
    BY <1>1, <1>3, <1>5 DEF IInv, TypeOK, Called
  <2>2. ASSUME NEW e \in Ended
        PROVE  /\ [Called(s, status) EXCEPT ![s].status = e]
                     = [rows EXCEPT ![s] = [called EXCEPT !.status = e]]
               /\ [called EXCEPT !.status = e] \in RowSet
               /\ [called EXCEPT !.status = e].calls = calls
               /\ [called EXCEPT !.status = e].status = e
    BY <1>6, <2>1 DEF IInv, TypeOK, RowSet
  <2>3. CASE ending = "none" /\ trace' = Append(trace, line) /\ rows' = Called(s, status)
             /\ MoveTo(s, "waiting") /\ UNCHANGED leaving
    BY <1>6, <2>1, <2>3 DEF MoveTo
  <2>4. ASSUME NEW e \in {"error", ending} \cap Ended,
               rows' = [Called(s, status) EXCEPT ![s].status = e], MoveTo(s, "finishing"),
               \/ leaving' = [leaving EXCEPT ![s] = raised]
               \/ leaving' = [leaving EXCEPT ![s] = "nothing"],
               trace' = trace \/ trace' = Append(trace, line)
        PROVE  \E r \in RowSet, p \in {"waiting", "finishing"} :
                 /\ r.calls = calls
                 /\ rows' = [rows EXCEPT ![s] = r]
                 /\ stage' = [stage EXCEPT ![s] = p]
                 /\ p = "waiting" => r.status = "running" /\ status = "completed"
                 /\ p = "finishing" => r.status \in {"error", ending} /\ r.status \in Ended
                 /\ leaving' = leaving \/ leaving' = [leaving EXCEPT ![s] = raised]
                    \/ leaving' = [leaving EXCEPT ![s] = "nothing"]
                 /\ trace' = trace \/ trace' = Append(trace, line)
    <3>1. PICK r : r = [called EXCEPT !.status = e]
      OBVIOUS
    <3>2. r \in RowSet /\ r.calls = calls /\ r.status = e /\ rows' = [rows EXCEPT ![s] = r]
      BY <2>2, <2>4, <3>1
    <3> QED BY <2>4, <3>2 DEF MoveTo
  <2>5. \/ /\ trace' = Append(trace, line)
           /\ \/ ending = "none" /\ rows' = Called(s, status) /\ MoveTo(s, "waiting")
                 /\ UNCHANGED leaving
              \/ /\ ending # "none" /\ rows' = [Called(s, status) EXCEPT ![s].status = ending]
                 /\ leaving' = [leaving EXCEPT ![s] = raised] /\ MoveTo(s, "finishing")
        \/ /\ trace' = trace /\ rows' = [Called(s, status) EXCEPT ![s].status = "error"]
           /\ leaving' = [leaving EXCEPT ![s] = "nothing"] /\ MoveTo(s, "finishing")
    BY <1>1, <1>7 DEF Answered, Log, LogFails
  <2>6. "error" \in Ended
    BY DEF Ended
  <2> QED BY <2>3, <2>4, <2>5, <2>6
<1>9. RowBecomes(s, row.status, calls, row.final) /\ UNCHANGED <<main, broken, epoch>>
  BY <1>8, RowIsSet DEF IInv, Answered
<1>10. CallLine(s, line)
  BY <1>2, <1>4, <1>7, <1>9 DEF CallLine, Line, LineSet, Replies, RowBecomes
<1>11. /\ Grows(s) /\ \A i \in LinesOf(s)' : LineTells(s, i)'
       /\ \A i \in LinesOf(s) : i \in LinesOf(s)' /\ trace'[i] = trace[i]
  <2>1. \A k \in DOMAIN rows[s].calls :
           /\ k \in DOMAIN rows'[s].calls
           /\ rows[s].calls[k] # "running" => rows'[s].calls[k] = rows[s].calls[k]
    BY <1>1, <1>2, <1>4, <1>9 DEF RowBecomes
  <2>2. trace' = trace \/ \E l : CallLine(s, l) /\ trace' = Append(trace, l)
    BY <1>8, <1>10
  <2> QED BY <2>1, <2>2, LinesKept
<1>12. TypeOK' /\ stage'[s] = place
       /\ (\A t \in Sessions \ {s} : stage'[t] = stage[t] /\ leaving'[t] = leaving[t])
       /\ leaving'[s] \in {leaving[s], raised, "nothing"}
  <2>1. PICK r \in {raised, "nothing"} :
           leaving' = leaving \/ leaving' = [leaving EXCEPT ![s] = r]
    BY <1>8
  <2>2. r \in {"nothing", "cancelled"} /\ stage' = [stage EXCEPT ![s] = place]
        /\ place \in {"sleeping", "waiting", "calling", "finishing", "gone"}
        /\ rows' \in [Sessions -> RowSet] /\ cancelled' \subseteq Sessions /\ broken' \in BOOLEAN
    BY <1>8, <1>9, <2>1 DEF RowBecomes, IInv, TypeOK
  <2> QED BY <1>9, <1>11, <2>1, <2>2, StepTypes
<1>13. StepOf(s)
  BY <1>9, <1>11, <1>12 DEF StepOf, RowBecomes
<1>14. InPlace(s)'
  <2>1. CASE place = "waiting"
    BY <1>4, <1>8, <1>9, <1>12, <2>1 DEF InPlace, Open, RowBecomes
  <2>2. CASE place = "finishing"
    <3>1. rows'[s].status \in Ended /\ rows'[s].status \in {"error", ending} /\ rows'[s].calls = calls
      BY <1>8, <1>9, <2>2 DEF RowBecomes
    <3>2. ASSUME rows'[s].status = "completed" PROVE calls = [k \in 1 .. Turns |-> "completed"]
      <4>1. status = "completed" /\ n = Turns
        BY <1>1, <3>1, <3>2
      <4> QED BY <1>4, <4>1
    <3> QED BY <1>12, <2>2, <3>1, <3>2 DEF InPlace, Closed
  <2> QED BY <2>1, <2>2
<1>15. Doomed(s)'
  BY <1>2, <1>8, <1>9, <1>12 DEF Story, Doomed, RowBecomes, Ended
<1>16. ASSUME NEW k \in DOMAIN rows'[s].calls PROVE CallTold(s, k)'
  <2>1. k \in DOMAIN rows[s].calls /\ ~Silent(s, k)
    BY <1>1, <1>2, <1>4, <1>9 DEF Silent, RowBecomes
  <2>2. PICK i \in LinesOf(s) : trace[i].call = k
    BY <1>2, <2>1 DEF Story, CallTold
  <2>3. rows'[s].calls[k] # "running"
    BY <1>4, <1>9 DEF RowBecomes
  <2> QED BY <1>11, <2>2, <2>3 DEF CallTold, Silent
<1>17. Story(s)'
  BY <1>11, <1>14, <1>15, <1>16 DEF Story
<1> QED BY <1>12, <1>13, <1>17, StepKeeps

\* A wait is cut short.
LEMMA EndsKeeps ==
  ASSUME IInv, NEW s \in Sessions, main = "group", stage[s] = "waiting",
         NEW status \in Ended \ {"completed"}, NEW raised \in {"nothing", "cancelled"},
         Ends(s, status, raised),
         status = "cancelled" \/ raised = "cancelled" => broken,
         cancelled' \subseteq cancelled, UNCHANGED <<main, broken, trace, epoch>>
  PROVE  IInv'
<1>1. /\ rows' = [rows EXCEPT ![s].status = status]
      /\ leaving' = [leaving EXCEPT ![s] = raised]
      /\ stage' = [stage EXCEPT ![s] = "finishing"]
  BY DEF Ends, MoveTo
<1>2. RowBecomes(s, status, rows[s].calls, rows[s].final)
  BY <1>1, StatusSet DEF IInv
<1>3. Story(s)
  BY DEF IInv
<1>4. /\ Grows(s) /\ \A i \in LinesOf(s)' : LineTells(s, i)'
      /\ LinesOf(s)' = LinesOf(s)
  BY <1>2, LinesKept DEF RowBecomes, LinesOf
<1>5. TypeOK' /\ stage'[s] = "finishing" /\ leaving'[s] \in {leaving[s], raised}
      /\ (\A t \in Sessions \ {s} : stage'[t] = stage[t] /\ leaving'[t] = leaving[t])
  BY <1>1, <1>2, <1>4, StepTypes DEF RowBecomes, IInv, TypeOK
<1>6. StepOf(s)
  BY <1>2, <1>4, <1>5 DEF StepOf, RowBecomes
<1>7. InPlace(s)' /\ Doomed(s)'
  BY <1>2, <1>3, <1>5 DEF InPlace, Closed, Story, Doomed, RowBecomes
<1>8. \A k \in DOMAIN rows'[s].calls : CallTold(s, k)'
  BY <1>2, <1>3, <1>4, <1>5 DEF Story, CallTold, Silent, RowBecomes
<1>9. Story(s)'
  BY <1>4, <1>7, <1>8 DEF Story
<1> QED BY <1>5, <1>6, <1>9, StepKeeps

\* A task that is done: only an error of its own dooms the epoch.
LEMMA GoneMeans ==
  ASSUME IInv, NEW s \in Sessions, NEW raised, Gone(s, raised)
  PROVE  /\ stage' = [stage EXCEPT ![s] = "gone"] /\ broken' \in BOOLEAN
         /\ broken => broken'
         /\ raised = "error" => broken'
         /\ cancelled' \subseteq Sessions
         /\ \A t \in Sessions : t \in cancelled' => t \in cancelled \/ broken'
         /\ s \in cancelled' => broken'
<1>1. stage' = [stage EXCEPT ![s] = "gone"]
  BY DEF Gone, MoveTo
<1>2. broken' \in BOOLEAN
  BY DEF Gone, IInv, TypeOK
<1>3. CASE raised = "error"
  <2>1. broken' = TRUE
    BY <1>3 DEF Gone
  <2>2. cancelled' \subseteq Sessions
    BY <1>3 DEF Gone, Abort, StillAtWork, IInv, TypeOK
  <2> QED BY <1>1, <1>2, <2>1, <2>2
<1>4. CASE raised # "error"
  <2>1. broken' = broken /\ cancelled' = cancelled \ {s}
    BY <1>4 DEF Gone
  <2> QED BY <1>1, <1>2, <1>4, <2>1 DEF IInv, TypeOK
<1> QED BY <1>3, <1>4

\* finish_session has returned and the row is logged, or that line is lost.
LEMMA FinishedKeeps ==
  ASSUME IInv, NEW s \in Sessions, Finished(s)
  PROVE  IInv'
<1>0. /\ main = "group" /\ stage[s] = "finishing" /\ UNCHANGED <<main, leaving, epoch>>
      /\ rows' = [rows EXCEPT ![s].final = TRUE]
  BY DEF Finished, Steps
<1>1. Story(s) /\ Closed(s)
  BY <1>0 DEF IInv, Story, InPlace
<1>2. RowBecomes(s, rows[s].status, rows[s].calls, TRUE)
  <2>1. PICK row : row = [rows[s] EXCEPT !.final = TRUE]
    OBVIOUS
  <2>2. row \in RowSet /\ row.status = rows[s].status /\ row.calls = rows[s].calls
        /\ row.final = TRUE
    BY <2>1, RowParts DEF RowSet, IInv
  <2>3. rows' = [rows EXCEPT ![s] = row]
    BY <1>0, <2>1
  <2> QED BY <2>2, <2>3, RowIsSet DEF IInv
<1>3. PICK line : line = Line("workflow_end", s, 0, rows[s].status)
  OBVIOUS
<1>4. /\ line \in LineSet /\ line.session = s /\ line.type = "workflow_end"
      /\ line.call = 0 /\ line.status = rows[s].status
  BY <1>1, <1>3 DEF Line, LineSet, Closed
<1>5. PICK raised : /\ Gone(s, raised)
                    /\ \/ trace' = Append(trace, line)
                       \/ trace' = trace /\ raised = "error"
  BY <1>3 DEF Finished, Log, LogFails
<1>6. /\ stage' = [stage EXCEPT ![s] = "gone"] /\ broken' \in BOOLEAN
      /\ (broken => broken') /\ (raised = "error" => broken')
      /\ cancelled' \subseteq Sessions
      /\ (\A t \in Sessions : t \in cancelled' => t \in cancelled \/ broken')
      /\ (s \in cancelled' => broken')
  BY <1>5, GoneMeans
<1>7. Grows(s)
  BY <1>4, <1>5 DEF Grows
<1>8. TypeOK' /\ stage'[s] = "gone" /\ \A t \in Sessions \ {s} : stage'[t] = stage[t]
  BY <1>0, <1>2, <1>6, <1>7, StepTypes DEF RowBecomes
<1>9. StepOf(s)
  BY <1>0, <1>2, <1>6, <1>7, <1>8 DEF StepOf, RowBecomes
<1>10. Doomed(s)'
  BY <1>0, <1>1, <1>2, <1>6 DEF Story, Doomed, RowBecomes
<1>11. Closed(s)' /\ rows'[s].status # "absent" /\ rows'[s].final
  BY <1>1, <1>2 DEF Closed, RowBecomes, Ended
<1>12. \A k \in DOMAIN rows[s].calls : k # 0
  BY RowParts DEF IInv
<1>13. ASSUME NEW i \in LinesOf(s), trace'[i] = trace[i]
       PROVE  LineTells(s, i)'
  BY <1>0, <1>2, <1>13, LinesOfCalls DEF LineTells, RowBecomes
<1>14. CASE trace' = Append(trace, line)
  <2>1. PICK n : /\ \A i \in DOMAIN trace : trace'[i] = trace[i] /\ i =< n
                 /\ trace'[n] = line /\ n =< n
                 /\ LinesOf(s)' = LinesOf(s) \cup {n}
    <3>1. /\ \A i \in DOMAIN trace : trace'[i] = trace[i] /\ i < Len(trace) + 1
          /\ trace'[Len(trace) + 1] = line
          /\ LinesOf(s)' = LinesOf(s) \cup {Len(trace) + 1}
      BY <1>4, <1>14, OneMoreLine DEF IInv
    <3>2. Len(trace) \in Nat /\ DOMAIN trace = 1..Len(trace)
      BY LenProperties DEF IInv, TypeOK
    <3> QED BY <3>1, <3>2
  <2>2. \A i \in LinesOf(s) : trace'[i] = trace[i] /\ i =< n
    BY <2>1 DEF LinesOf
  <2>3. LineTells(s, n)'
    BY <1>2, <1>4, <1>8, <2>1, <2>2 DEF LineTells, RowBecomes
  <2>4. \A i \in LinesOf(s)' : LineTells(s, i)'
    BY <1>13, <2>1, <2>2, <2>3
  <2>5. \A k \in DOMAIN rows'[s].calls : CallTold(s, k)'
    BY <1>0, <1>1, <1>2, <1>4, <1>8, <1>12, <2>1, <2>2
       DEF Story, CallTold, Silent, RowBecomes
  <2>6. InPlace(s)'
    BY <1>4, <1>8, <1>11, <2>1 DEF InPlace
  <2>7. Story(s)'
    BY <1>10, <2>4, <2>5, <2>6 DEF Story
  <2> QED BY <1>8, <1>9, <2>7, StepKeeps
<1>15. CASE trace' = trace /\ raised = "error"
  <2>1. LinesOf(s)' = LinesOf(s)
    BY <1>15 DEF LinesOf
  <2>2. \A i \in LinesOf(s)' : LineTells(s, i)'
    BY <1>13, <1>15, <2>1
  <2>3. \A k \in DOMAIN rows'[s].calls : CallTold(s, k)'
    BY <1>0, <1>1, <1>2, <1>8, <1>15, <2>1 DEF Story, CallTold, Silent, RowBecomes
  <2>4. InPlace(s)'
    BY <1>6, <1>8, <1>11, <1>15 DEF InPlace
  <2>5. Story(s)'
    BY <1>10, <2>2, <2>3, <2>4 DEF Story
  <2> QED BY <1>8, <1>9, <2>5, StepKeeps
<1> QED BY <1>5, <1>14, <1>15

\* A cancellation finds the task where it sleeps, waits, calls or finishes.
LEMMA DeliveredKeeps ==
  ASSUME IInv, NEW s \in Sessions, Delivered(s)
  PROVE  IInv'
<1>0. main = "group" /\ s \in cancelled /\ Story(s) /\ broken
  BY DEF Delivered, IInv, Story, Doomed
<1>1. CASE stage[s] \in {"sleeping", "finishing"}
  <2>1. Gone(s, "cancelled") /\ UNCHANGED <<main, leaving, rows, trace, epoch>>
    BY <1>1 DEF Delivered
  <2>2. /\ stage' = [stage EXCEPT ![s] = "gone"] /\ broken' \in BOOLEAN /\ broken'
        /\ cancelled' \subseteq Sessions
    BY <1>0, <2>1, GoneMeans
  <2>3. Grows(s) /\ rows' \in [Sessions -> RowSet] /\ LinesOf(s)' = LinesOf(s)
    BY <2>1 DEF Grows, IInv, TypeOK, LinesOf
  <2>4. TypeOK' /\ stage'[s] = "gone" /\ \A t \in Sessions \ {s} : stage'[t] = stage[t]
    BY <2>1, <2>2, <2>3, StepTypes
  <2>5. StepOf(s)
    BY <1>0, <2>1, <2>2, <2>3, <2>4 DEF StepOf
  <2>6. InPlace(s)' /\ Doomed(s)'
    BY <1>0, <1>1, <2>1, <2>2, <2>4 DEF Story, InPlace, Closed, Doomed
  <2>7. \A i \in LinesOf(s)' : LineTells(s, i)'
    BY <1>1, <2>1, <2>3, LinesOfCalls DEF LineTells
  <2>8. \A k \in DOMAIN rows'[s].calls : CallTold(s, k)'
    BY <1>0, <1>1, <2>1, <2>3, <2>4 DEF Story, CallTold, Silent
  <2>9. Story(s)'
    BY <2>6, <2>7, <2>8 DEF Story
  <2> QED BY <2>4, <2>5, <2>9, StepKeeps
<1>2. CASE stage[s] = "waiting"
  <2>1. /\ Ends(s, "cancelled", "cancelled") /\ cancelled' \subseteq cancelled
        /\ UNCHANGED <<main, broken, trace, epoch>>
    BY <1>2 DEF Delivered
  <2>2. "cancelled" \in Ended \ {"completed"}
    BY DEF Ended
  <2> QED BY <1>0, <1>2, <2>1, <2>2, EndsKeeps
<1>3. CASE stage[s] = "calling"
  <2>1. Answered(s, "failed", "cancelled", "cancelled") /\ cancelled' \subseteq cancelled
    BY <1>3 DEF Delivered
  <2>2. "cancelled" \in Ended \cup {"none"}
    BY DEF Ended
  <2> QED BY <1>0, <1>3, <2>1, <2>2, AnsweredKeeps
<1> QED BY <1>1, <1>2, <1>3 DEF Delivered

\* The other ends of a wait or a call.
LEMMA CallKeeps ==
  ASSUME IInv, NEW s \in Sessions, Completed(s) \/ CallFails(s) \/ Horizon(s)
  PROVE  IInv'
<1>1. main = "group" /\ stage[s] \in {"waiting", "calling"}
  BY DEF Completed, CallFails, Horizon, Steps
<1>2. {"error", "timeout", "output_limit", "incomplete", "completed"} \subseteq Ended
  BY DEF Ended
<1>3. CASE Completed(s)
  <2>1. PICK e \in {"good", "output_limit", "incomplete"} :
          Answered(s, "completed",
                   IF e # "good" THEN e
                   ELSE IF Len(rows[s].calls) = Turns THEN "completed" ELSE "none",
                   "nothing")
    BY <1>3 DEF Completed
  <2>2. PICK ending : ending = IF e # "good" THEN e
                               ELSE IF Len(rows[s].calls) = Turns THEN "completed" ELSE "none"
    OBVIOUS
  <2>3. /\ ending \in Ended \cup {"none"} /\ Answered(s, "completed", ending, "nothing")
        /\ (ending = "completed" => Len(rows[s].calls) = Turns) /\ ending # "cancelled"
    BY <1>2, <2>1, <2>2
  <2>4. stage[s] = "calling" /\ cancelled' = cancelled
    BY <1>3 DEF Completed, Steps
  <2> QED BY <1>1, <2>3, <2>4, AnsweredKeeps
<1>4. CASE CallFails(s)
  <2>1. stage[s] = "calling" /\ cancelled' = cancelled /\ Answered(s, "failed", "error", "nothing")
    BY <1>4 DEF CallFails, Steps
  <2> QED BY <1>1, <1>2, <2>1, AnsweredKeeps
<1>5. CASE Horizon(s) /\ stage[s] = "waiting"
  <2>1. Ends(s, "timeout", "nothing") /\ UNCHANGED <<main, broken, cancelled, trace, epoch>>
    BY <1>5 DEF Horizon, Steps
  <2> QED BY <1>1, <1>2, <1>5, <2>1, EndsKeeps
<1>6. CASE Horizon(s) /\ stage[s] = "calling"
  <2>1. Answered(s, "failed", "timeout", "nothing") /\ cancelled' = cancelled
    BY <1>6 DEF Horizon, Steps
  <2> QED BY <1>1, <1>2, <1>6, <2>1, AnsweredKeeps
<1> QED BY <1>1, <1>3, <1>4, <1>5, <1>6

(***************************************************************************)
(* The steps of run_epoch                                                  *)
(***************************************************************************)

\* Steps that touch no row, task or line.
LEMMA EpochKeeps ==
  ASSUME IInv, UNCHANGED <<stage, leaving, rows, trace>>, TypeOK', Phases', broken => broken',
         \A s \in Sessions : s \in cancelled' => s \in cancelled \/ broken'
  PROVE  IInv'
<1>1. \A s : LinesOf(s)' = LinesOf(s)
  BY DEF LinesOf
<1>2. ASSUME NEW s \in Sessions PROVE Story(s)'
  <2>1. Story(s)
    BY DEF IInv
  <2>2. InPlace(s)' /\ Doomed(s)'
    BY <1>1, <2>1 DEF Story, InPlace, Open, Closed, Doomed
  <2>3. /\ \A i \in LinesOf(s)' : LineTells(s, i)'
        /\ \A k \in DOMAIN rows'[s].calls : CallTold(s, k)'
    BY <1>1, <2>1 DEF Story, LineTells, CallTold, Silent
  <2> QED BY <2>2, <2>3 DEF Story
<1> QED BY <1>2 DEF IInv

\* run_epoch enters, waits for its group, closes, is cancelled, or stands still.
LEMMA MainKeeps ==
  ASSUME IInv, Enter \/ GroupEnds \/ WindowCloses \/ Cancel \/ UNCHANGED epochVars
  PROVE  IInv'
<1>1. CASE Enter \/ GroupEnds
  <2>1. /\ main' \in {"group", "closing"} /\ main \in {"entering", "group"}
        /\ UNCHANGED <<broken, stage, cancelled, leaving, rows, trace, epoch>>
        /\ main' = "closing" => StillAtWork = {}
    BY <1>1 DEF Enter, GroupEnds
  <2>2. TypeOK' /\ Phases'
    BY <2>1 DEF IInv, TypeOK, Phases, StillAtWork
  <2> QED BY <2>1, <2>2, EpochKeeps
<1>2. CASE UNCHANGED epochVars
  <2>1. UNCHANGED <<main, broken, stage, cancelled, leaving, rows, trace, epoch>>
    BY <1>2 DEF epochVars
  <2>2. TypeOK' /\ Phases'
    BY <2>1 DEF IInv, TypeOK, Phases
  <2> QED BY <2>1, <2>2, EpochKeeps
<1>3. CASE main \in {"entering", "closing"} /\ WriteEpoch(FALSE)
  <2>1. /\ main' = "over" /\ epoch' \in {"none", "interrupted"}
        /\ UNCHANGED <<broken, stage, cancelled, leaving, rows, trace>>
    BY <1>3 DEF WriteEpoch
  <2>2. \A s \in Sessions : stage[s] \in {"sleeping", "gone"}
    BY <1>3 DEF IInv, Phases
  <2>3. TypeOK' /\ Phases'
    BY <2>1, <2>2 DEF IInv, TypeOK, Phases
  <2> QED BY <2>1, <2>3, EpochKeeps
<1>4. CASE WindowCloses
  <2>1. /\ main = "closing" /\ main' = "over" /\ epoch' \in {"none", "finished", "interrupted"}
        /\ epoch' = "finished" => ~broken
        /\ UNCHANGED <<broken, stage, cancelled, leaving, rows, trace>>
    BY <1>4 DEF WindowCloses, WriteEpoch
  <2>2. TypeOK' /\ Phases'
    BY <2>1 DEF IInv, TypeOK, Phases
  <2> QED BY <2>1, <2>2, EpochKeeps
<1>5. CASE Cancel /\ main = "group"
  <2>1. /\ main = "group" /\ broken' = TRUE /\ cancelled' = cancelled \cup StillAtWork
        /\ UNCHANGED <<main, stage, leaving, rows, trace, epoch>>
    BY <1>5 DEF Cancel, Abort
  <2>2. TypeOK' /\ Phases'
    BY <2>1 DEF IInv, TypeOK, Phases, StillAtWork
  <2> QED BY <2>1, <2>2, EpochKeeps
<1> QED BY <1>1, <1>2, <1>3, <1>4, <1>5 DEF Cancel

\* Before the window is entered nothing is said.
LEMMA InitKeeps ==
  ASSUME EpochInit
  PROVE  IInv
<1>1. NoRow \in RowSet /\ NoRow.calls = <<>> /\ DOMAIN NoRow.calls = {}
      /\ NoRow.status = "absent"
  <2>1. <<>> \in Seq(Replies) /\ FALSE \in BOOLEAN
    OBVIOUS
  <2>2. NoRow \in RowSet
    BY <2>1 DEF NoRow, RowSet
  <2> QED BY <2>2 DEF NoRow
<1>2. TypeOK
  <2>1. rows \in [Sessions -> RowSet]
    BY <1>1 DEF EpochInit
  <2>2. trace \in Seq(LineSet) /\ trace = <<>>
    BY DEF EpochInit
  <2>3. broken = FALSE
    BY DEF EpochInit
  <2> QED BY <2>1, <2>2, <2>3 DEF EpochInit, TypeOK
<1>3. Phases
  BY DEF EpochInit, Phases
<1>4. ASSUME NEW s \in Sessions PROVE Story(s)
  <2>1. LinesOf(s) = {} /\ stage[s] = "sleeping" /\ rows[s] = NoRow /\ s \notin cancelled
        /\ leaving[s] = "nothing"
    BY DEF EpochInit, LinesOf
  <2> QED BY <1>1, <2>1 DEF Story, InPlace, Doomed
<1> QED BY <1>2, <1>3, <1>4 DEF IInv

\* When epoch.json is there, the invariant is the promise.
LEMMA InvAgrees ==
  ASSUME IInv
  PROVE  EpochRecordsAgree
<1>1. ASSUME NEW s \in Sessions, epoch # "none" PROVE RowAgrees(s)
  <2>1. stage[s] \in {"sleeping", "gone"} /\ Story(s)
    BY <1>1 DEF IInv, Phases
  <2>2. rows[s] = NoRow \/ Closed(s)
    BY <2>1 DEF Story, InPlace
  <2>3. /\ rows[s].status # "running"
        /\ rows[s].status = "completed" => rows[s].calls = [k \in 1 .. Turns |-> "completed"]
    BY <2>2 DEF Closed, NoRow, Ended
  <2>4. \A k \in DOMAIN rows[s].calls :
           rows[s].calls[k] = "running" <=> \A i \in LinesOf(s) : trace[i].call # k
    BY <2>1 DEF Story, CallTold, Silent
  <2>5. \A i \in LinesOf(s) :
           /\ trace[i].type = "response" => trace[i].status = rows[s].calls[trace[i].call]
           /\ trace[i].type = "workflow_end" => trace[i].status = rows[s].status /\ rows[s].final
    BY <2>1 DEF Story, LineTells
  <2> QED BY <2>3, <2>4, <2>5 DEF RowAgrees
<1>2. ASSUME NEW s \in Sessions, epoch = "finished" PROVE RowWhole(s)
  <2>1. stage[s] = "gone" /\ ~broken /\ Story(s)
    BY <1>2 DEF IInv, Phases
  <2>2. rows[s].status # "absent" /\ rows[s].final /\ rows[s].status # "cancelled"
    BY <2>1 DEF Story, InPlace, Doomed
  <2>3. PICK i \in LinesOf(s) : trace[i].type = "workflow_end"
    BY <2>1 DEF Story, InPlace
  <2>4. ASSUME NEW j \in LinesOf(s) \ {i} PROVE j < i /\ trace[j].type # "workflow_end"
    <3>1. i \in Nat /\ j \in Nat
      BY LenProperties DEF LinesOf, IInv, TypeOK
    <3>2. j =< i /\ (trace[j].type = "workflow_end" => i =< j)
      BY <2>1, <2>3 DEF Story, LineTells
    <3> QED BY <3>1, <3>2
  <2> QED BY <2>2, <2>3, <2>4 DEF RowWhole
<1> QED BY <1>1, <1>2 DEF EpochRecordsAgree

(***************************************************************************)
(* Whatever fails, times out or is cancelled in an epoch, its epoch.json   *)
(* is written over rows that no task can still change and that agree with  *)
(* requests.jsonl, and only a whole epoch is called finished.  (run_epoch) *)
(***************************************************************************)
THEOREM EpochTellsOneStory == EpochSpec => []EpochRecordsAgree
<1>1. EpochInit => IInv
  BY InitKeeps
<1>2. IInv /\ [EpochNext]_epochVars => IInv'
  <2> SUFFICES ASSUME IInv, [EpochNext]_epochVars PROVE IInv'
    OBVIOUS
  <2>1. ASSUME NEW s \in Sessions, Task(s) \/ Completed(s) \/ CallFails(s) PROVE IInv'
    BY <2>1, ArriveKeeps, RequestKeeps, CallKeeps, FinishedKeeps, DeliveredKeeps DEF Task
  <2> QED BY <2>1, MainKeeps DEF EpochNext
<1>3. IInv => EpochRecordsAgree
  BY InvAgrees
<1> QED BY <1>1, <1>2, <1>3, PTL DEF EpochSpec
=============================================================================
