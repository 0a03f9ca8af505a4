------------------------ MODULE CaptureWriterProofs ------------------------
(***************************************************************************)
(* Proofs about the worker capture, for every queue capacity, number of    *)
(* records and number of processes.                                        *)
(***************************************************************************)
EXTENDS CaptureWriter, TLAPS

Clean == failures = {}

(* How far close() has come, and what the writer may assume from it. *)
Phases ==
    /\ stop => closed
    /\ main \in {"mark_closed", "set_stop"} => ~stop
    /\ main \in {"set_stop", "join", "check_alive", "status", "verdict", "publish"} => closed
    /\ main \in {"join", "check_alive", "status", "verdict", "publish"} => stop
    /\ main = "mark_closed" => ~closed
    /\ main = "enqueue" => record.sequence = sequence
    /\ (main = "enqueue" /\ record.kind = "capture_close") => ~closed
    /\ (closed /\ ~stop) => main = "set_stop"
    /\ writer \in {"summary", "summary_written", "close", "dead"} => stop /\ queue = <<>>

(* While nothing failed, a close that came back found the writer dead. *)
CleanDead ==
    (Clean /\ closed /\ main \in {"status", "verdict", "publish", "ready", "enqueue"})
        => Dead

Clear == Clean /\ writer # "count_failure"
Landed == persisted + (IF writer = "count" THEN 1 ELSE 0)
Ended == IF writer \in {"summary_written", "close", "dead"} THEN 1 ELSE 0

(* While nothing failed, file, hand and queue hold 1, 2, ... in that order. *)
Contiguous ==
    Clear =>
        /\ failed = 0 /\ dropped = 0
        /\ InHand = 1 => hand.sequence = persisted + 1
        /\ \A i \in 1..Len(queue) : queue[i].sequence = persisted + InHand + i
        /\ Len(file) = opened + Landed + Ended
        /\ \A i \in 1..Landed : /\ file[opened + i].process = pid
                                /\ file[opened + i].kind # "torn"
                                /\ file[opened + i].ended
                                /\ file[opened + i].sequence = i

(* The last record handed over before the close is capture_close. *)
LastIsClose ==
    (Clear /\ (closed \/ main = "mark_closed")) =>
        /\ queued > 0
        /\ queue # <<>> => queue[Len(queue)].kind = "capture_close"
        /\ (queue = <<>> /\ InHand = 1) => hand.kind = "capture_close"
        /\ (queue = <<>> /\ InHand = 0) => file[opened + persisted].kind = "capture_close"

Copied == (Clean /\ writer = "count") => file[opened + persisted + 1].kind = hand.kind

(* While nothing failed, the footer says so, in memory and on disk. *)
FooterHolds ==
    (Clean /\ writer \in {"summary", "summary_written", "close", "dead"}) =>
        /\ footer.valid
        /\ Exact(footer, queued)
        /\ Ended = 1 => /\ file[opened + queued + 1].kind = "writer_summary"
                        /\ file[opened + queued + 1].summary = footer
                        /\ file[opened + queued + 1].ended

(* A report that is still valid was taken from a dead writer without failures. *)
ReportHolds ==
    /\ main \in {"verdict", "publish"} => report.process = pid
    /\ (main \in {"verdict", "publish"} /\ report.valid) =>
        /\ Clean
        /\ Exact(report, queued)

StatusOfPast == status # None => status.report.process =< pid

IInv ==
    /\ TypeOK /\ Accounting /\ Phases /\ CleanDead /\ Contiguous /\ LastIsClose /\ Copied
    /\ FooterHolds /\ ReportHolds /\ StatusOfPast /\ ValidCloseIsComplete

---------------------------------------------------------------------------
(***************************************************************************)
(* The pieces an append that is cut short may leave are pieces of the      *)
(* file's type.                                                            *)
(***************************************************************************)
LEMMA LeftoverType ==
    ASSUME TypeOK, NEW row \in Row, NEW rows \in CutShort(row)
    PROVE  /\ rows \in Seq(Row)
           /\ file \o rows \in Seq(Row)
           /\ Len(file \o rows) >= Len(file)
<1>1. TornRow \in Row BY DEF TornRow, Row, TypeOK
<1>2. Unended(row) \in Row BY DEF Unended, Row
<1>3. rows = <<>> \/ rows = <<TornRow>> \/ rows = <<row>> \/ rows = <<Unended(row)>>
  BY DEF CutShort, Leftover
<1>4. rows \in Seq(Row)
  <2>1. CASE rows = <<>> BY <2>1
  <2>2. CASE rows = <<TornRow>> BY <1>1, <2>2
  <2>3. CASE rows = <<row>> BY <2>3
  <2>4. CASE rows = <<Unended(row)>> BY <1>2, <2>4
  <2> QED BY <1>3, <2>1, <2>2, <2>3, <2>4
<1> QED BY <1>4 DEF TypeOK

(* A status snapshot has its type as long as the accounting holds. *)
LEMMA StatusType ==
    ASSUME TypeOK, Accounting
    PROVE  Status \in Snapshot
BY CaptureConstants DEF TypeOK, Accounting, Status, Snapshot, InHand, InWrite, Record, Failure

(* The row of an event that the writer appends is a row of the file. *)
LEMMA EventRowType ==
    ASSUME TypeOK, NEW r \in Record
    PROVE  EventRow(r) \in Row
BY DEF TypeOK, EventRow, Row, Record

(* So is the footer that the writer appends last. *)
LEMMA FooterRowType ==
    ASSUME TypeOK, NEW f \in Snapshot
    PROVE  FooterRow(f) \in Row
BY DEF TypeOK, FooterRow, Row

(* A verdict changes only the valid flag of a snapshot. *)
LEMMA VerdictType ==
    ASSUME NEW S \in Snapshot, NEW b
    PROVE  [S EXCEPT !.valid = S.valid /\ b] \in Snapshot
<1>1. (S.valid /\ b) \in BOOLEAN OBVIOUS
<1> QED BY <1>1 DEF Snapshot

(* Every step keeps the types. *)
LEMMA TypeStep ==
    ASSUME TypeOK, Accounting, Phases, [Next]_vars
    PROVE  TypeOK'
<1> USE CaptureConstants
<1>1. CASE WriteEvent
  BY <1>1 DEF TypeOK, WriteEvent, Write, Record, Kinds, writerVars, disk
<1>2. CASE Close
  BY <1>2 DEF TypeOK, Close, Write, Record, Kinds, writerVars, disk
<1>3. CASE CloseAgain
  BY <1>3 DEF TypeOK, CloseAgain, counters, writerVars, disk
<1>4. CASE SerializationFails
  BY <1>4 DEF TypeOK, SerializationFails, counters, mainVars, writerVars, disk, Fail, AfterWrite, Failure, Stages, Record
<1>5. CASE Enqueue
  BY <1>5 DEF TypeOK, Enqueue, counters, mainVars, writerVars, disk, AfterWrite
<1>6. CASE Drop
  BY <1>6 DEF TypeOK, Drop, counters, mainVars, writerVars, disk, Fail, AfterWrite, Failure, Stages, Record
<1>7. CASE MarkClosed
  BY <1>7 DEF TypeOK, MarkClosed, counters, mainVars, writerVars, disk
<1>8. CASE SetStop
  BY <1>8 DEF TypeOK, SetStop, counters, mainVars, writerVars, disk
<1>9. CASE Join
  BY <1>9 DEF TypeOK, Join, counters, mainVars, writerVars, disk
<1>10. CASE CheckAlive
  BY <1>10 DEF TypeOK, CheckAlive, counters, mainVars, writerVars, disk, Fail, Failure, Stages
<1>11. CASE TakeStatus
  <2>1. report' \in Snapshot BY <1>11, StatusType, VerdictType DEF TakeStatus
  <2> QED BY <1>11, <2>1 DEF TypeOK, TakeStatus, counters, writerVars, disk
<1>12. CASE Verdict
  <2>1. report' \in Snapshot BY <1>12, VerdictType DEF Verdict, TypeOK
  <2> QED BY <1>12, <2>1 DEF TypeOK, Verdict, counters, writerVars, disk
<1>13. CASE Publish
  BY <1>13 DEF TypeOK, Publish, WriteCloseStatus, counters, mainVars, writerVars, disk
<1>14. CASE Get
  BY <1>14 DEF TypeOK, Get, counters, mainVars, writerVars, disk
<1>15. CASE WriteRow
  BY <1>15, EventRowType DEF TypeOK, WriteRow, counters, mainVars, writerVars, disk
<1>16. CASE CountRow
  BY <1>16 DEF TypeOK, CountRow, counters, mainVars, writerVars, disk
<1>17. CASE WriteFails
  BY <1>17, EventRowType, LeftoverType DEF TypeOK, CutShort, WriteFails, counters, mainVars, writerVars, disk
<1>18. CASE CountFailure
  BY <1>18 DEF TypeOK, CountFailure, counters, mainVars, writerVars, disk, Fail, Failure, Stages, Record
<1>19. CASE LeaveLoop
  BY <1>19, StatusType DEF TypeOK, LeaveLoop, counters, mainVars, writerVars, disk
<1>20. CASE WriteSummary
  BY <1>20, FooterRowType DEF TypeOK, WriteSummary, counters, mainVars, writerVars, disk
<1>21. CASE MarkSummary
  BY <1>21 DEF TypeOK, MarkSummary, counters, mainVars, writerVars, disk
<1>22. CASE SummaryFails
  BY <1>22, FooterRowType, LeftoverType DEF TypeOK, CutShort, SummaryFails, counters, mainVars, writerVars, disk, Fail, Failure, Stages
<1>23. CASE CloseStream
  BY <1>23 DEF TypeOK, CloseStream, counters, mainVars, writerVars, disk, Fail, Failure, Stages
<1>24. CASE Restart
  <2>1. PICK rows \in Interrupted : file' = file \o rows BY <1>24 DEF Restart
  <2>2. file' \in Seq(Row)
    <3>1. CASE writer = "write"
      BY <2>1, <3>1, EventRowType, LeftoverType DEF Interrupted, TypeOK
    <3>2. CASE writer = "summary"
      BY <2>1, <3>2, FooterRowType, LeftoverType DEF Interrupted, TypeOK
    <3>3. CASE writer \notin {"write", "summary"}
      <4>1. rows = <<>> BY <2>1, <3>3 DEF Interrupted
      <4> QED BY <2>1, <4>1 DEF TypeOK
    <3> QED BY <3>1, <3>2, <3>3
  <2>3. pid' \in 1..MaxProcesses BY <1>24 DEF Restart, TypeOK
  <2>4. StartRecord \in Record BY DEF StartRecord, Record, Kinds
  <2>5. opened' \in 0..Len(file') BY <1>24, <2>2 DEF Restart
  <2>6. queue' \in Seq(Record) /\ failures' \in SUBSET Failure BY <1>24 DEF Restart
  <2>7. status' \in [report : Snapshot, drainTimeout : BOOLEAN] \cup {None}
    BY <1>24 DEF Restart, TypeOK
  <2>8. sequence' \in 1..MaxRecords BY <1>24 DEF Restart
  <2>9. /\ queued' = 0 /\ persisted' = 0 /\ failed' = 0 /\ dropped' = 0
        /\ closed' = FALSE /\ stop' = FALSE /\ summaryWritten' = FALSE
        /\ main' = "enqueue" /\ record' = StartRecord /\ report' = None
        /\ writer' = "loop" /\ hand' = None /\ footer' = None
    BY <1>24 DEF Restart
  <2> HIDE <1>24
  <2> QED BY <2>2, <2>3, <2>4, <2>5, <2>6, <2>7, <2>8, <2>9 DEF TypeOK
<1>25. CASE UNCHANGED vars
  BY <1>25 DEF TypeOK, vars, counters, mainVars, writerVars, disk
<1> QED BY <1>1, <1>2, <1>3, <1>4, <1>5, <1>6, <1>7, <1>8, <1>9, <1>10, <1>11, <1>12, <1>13, <1>14, <1>15, <1>16, <1>17, <1>18, <1>19, <1>20, <1>21, <1>22, <1>23, <1>24, <1>25 DEF Next, MainStep, WriterStep

(* Every step keeps every record accounted for. *)
LEMMA AccountingStep ==
    ASSUME TypeOK, Accounting, [Next]_vars
    PROVE  Accounting'
<1> USE CaptureConstants
<1>1. CASE WriteEvent
  BY <1>1 DEF TypeOK, Accounting, InHand, InWrite, WriteEvent, counters, mainVars,
     writerVars, disk, Write
<1>2. CASE Close
  BY <1>2 DEF TypeOK, Accounting, InHand, InWrite, Close, counters, mainVars,
     writerVars, disk, Write
<1>3. CASE CloseAgain
  BY <1>3 DEF TypeOK, Accounting, InHand, InWrite, CloseAgain, counters, mainVars,
     writerVars, disk
<1>4. CASE SerializationFails
  BY <1>4 DEF TypeOK, Accounting, InHand, InWrite, SerializationFails, counters,
     mainVars, writerVars, disk, Fail, AfterWrite
<1>5. CASE Enqueue
  BY <1>5 DEF TypeOK, Accounting, InHand, InWrite, Enqueue, counters, mainVars,
     writerVars, disk, AfterWrite, Accepts
<1>6. CASE Drop
  BY <1>6 DEF TypeOK, Accounting, InHand, InWrite, Drop, counters, mainVars,
     writerVars, disk, Fail, AfterWrite, Accepts
<1>7. CASE MarkClosed
  BY <1>7 DEF TypeOK, Accounting, InHand, InWrite, MarkClosed, counters, mainVars,
     writerVars, disk
<1>8. CASE SetStop
  BY <1>8 DEF TypeOK, Accounting, InHand, InWrite, SetStop, counters, mainVars,
     writerVars, disk
<1>9. CASE Join
  BY <1>9 DEF TypeOK, Accounting, InHand, InWrite, Join, counters, mainVars,
     writerVars, disk
<1>10. CASE CheckAlive
  BY <1>10 DEF TypeOK, Accounting, InHand, InWrite, CheckAlive, counters, mainVars,
     writerVars, disk, Fail
<1>11. CASE TakeStatus
  BY <1>11 DEF TypeOK, Accounting, InHand, InWrite, TakeStatus, counters, mainVars,
     writerVars, disk
<1>12. CASE Verdict
  BY <1>12 DEF TypeOK, Accounting, InHand, InWrite, Verdict, counters, mainVars,
     writerVars, disk
<1>13. CASE Publish
  BY <1>13 DEF TypeOK, Accounting, InHand, InWrite, Publish, WriteCloseStatus, counters, mainVars,
     writerVars, disk
<1>14. CASE Get
  BY <1>14 DEF TypeOK, Accounting, InHand, InWrite, Get, counters, mainVars,
     writerVars, disk
<1>15. CASE WriteRow
  BY <1>15 DEF TypeOK, Accounting, InHand, InWrite, WriteRow, counters, mainVars,
     writerVars, disk
<1>16. CASE CountRow
  BY <1>16 DEF TypeOK, Accounting, InHand, InWrite, CountRow, counters, mainVars,
     writerVars, disk
<1>17. CASE WriteFails
  BY <1>17 DEF TypeOK, Accounting, InHand, InWrite, WriteFails, counters, mainVars,
     writerVars, disk
<1>18. CASE CountFailure
  BY <1>18 DEF TypeOK, Accounting, InHand, InWrite, CountFailure, counters,
     mainVars, writerVars, disk, Fail
<1>19. CASE LeaveLoop
  BY <1>19 DEF TypeOK, Accounting, InHand, InWrite, LeaveLoop, counters, mainVars,
     writerVars, disk
<1>20. CASE WriteSummary
  BY <1>20 DEF TypeOK, Accounting, InHand, InWrite, WriteSummary, counters,
     mainVars, writerVars, disk
<1>21. CASE MarkSummary
  BY <1>21 DEF TypeOK, Accounting, InHand, InWrite, MarkSummary, counters, mainVars,
     writerVars, disk
<1>22. CASE SummaryFails
  BY <1>22 DEF TypeOK, Accounting, InHand, InWrite, SummaryFails, counters,
     mainVars, writerVars, disk, Fail
<1>23. CASE CloseStream
  BY <1>23 DEF TypeOK, Accounting, InHand, InWrite, CloseStream, counters, mainVars,
     writerVars, disk, Fail
<1>24. CASE Restart
  BY <1>24 DEF TypeOK, Accounting, InHand, InWrite, Restart, counters, mainVars,
     writerVars, disk, StartRecord
<1>25. CASE UNCHANGED vars
  BY <1>25 DEF TypeOK, Accounting, InHand, InWrite, vars, counters, mainVars,
     writerVars, disk
<1> QED BY <1>1, <1>2, <1>3, <1>4, <1>5, <1>6, <1>7, <1>8, <1>9, <1>10, <1>11, <1>12, <1>13, <1>14, <1>15, <1>16, <1>17, <1>18, <1>19, <1>20, <1>21, <1>22, <1>23, <1>24, <1>25
    DEF Next, MainStep, WriterStep

(* Every step keeps the phases of close() and of the writer. *)
LEMMA PhasesStep ==
    ASSUME TypeOK, Phases, [Next]_vars
    PROVE  Phases'
<1>1. CASE WriteEvent
  BY <1>1 DEF TypeOK, Phases, WriteEvent, counters, mainVars, writerVars, disk,
     Write
<1>2. CASE Close
  BY <1>2 DEF TypeOK, Phases, Close, counters, mainVars, writerVars, disk, Write
<1>3. CASE CloseAgain
  BY <1>3 DEF TypeOK, Phases, CloseAgain, counters, mainVars, writerVars, disk
<1>4. CASE SerializationFails
  BY <1>4 DEF TypeOK, Phases, SerializationFails, counters, mainVars, writerVars,
     disk, Fail, AfterWrite
<1>5. CASE Enqueue
  BY <1>5 DEF TypeOK, Phases, Enqueue, counters, mainVars, writerVars, disk,
     AfterWrite, Accepts
<1>6. CASE Drop
  BY <1>6 DEF TypeOK, Phases, Drop, counters, mainVars, writerVars, disk, Fail,
     AfterWrite, Accepts
<1>7. CASE MarkClosed
  BY <1>7 DEF TypeOK, Phases, MarkClosed, counters, mainVars, writerVars, disk
<1>8. CASE SetStop
  BY <1>8 DEF TypeOK, Phases, SetStop, counters, mainVars, writerVars, disk
<1>9. CASE Join
  BY <1>9 DEF TypeOK, Phases, Join, counters, mainVars, writerVars, disk
<1>10. CASE CheckAlive
  BY <1>10 DEF TypeOK, Phases, CheckAlive, counters, mainVars, writerVars, disk,
     Fail
<1>11. CASE TakeStatus
  BY <1>11 DEF TypeOK, Phases, TakeStatus, counters, mainVars, writerVars, disk
<1>12. CASE Verdict
  BY <1>12 DEF TypeOK, Phases, Verdict, counters, mainVars, writerVars, disk
<1>13. CASE Publish
  BY <1>13 DEF TypeOK, Phases, Publish, WriteCloseStatus, counters, mainVars, writerVars, disk
<1>14. CASE Get
  BY <1>14 DEF TypeOK, Phases, Get, counters, mainVars, writerVars, disk
<1>15. CASE WriteRow
  BY <1>15 DEF TypeOK, Phases, WriteRow, counters, mainVars, writerVars, disk
<1>16. CASE CountRow
  BY <1>16 DEF TypeOK, Phases, CountRow, counters, mainVars, writerVars, disk
<1>17. CASE WriteFails
  BY <1>17 DEF TypeOK, Phases, WriteFails, counters, mainVars, writerVars, disk
<1>18. CASE CountFailure
  BY <1>18 DEF TypeOK, Phases, CountFailure, counters, mainVars, writerVars, disk,
     Fail
<1>19. CASE LeaveLoop
  BY <1>19 DEF TypeOK, Phases, LeaveLoop, counters, mainVars, writerVars, disk
<1>20. CASE WriteSummary
  BY <1>20 DEF TypeOK, Phases, WriteSummary, counters, mainVars, writerVars, disk
<1>21. CASE MarkSummary
  BY <1>21 DEF TypeOK, Phases, MarkSummary, counters, mainVars, writerVars, disk
<1>22. CASE SummaryFails
  BY <1>22 DEF TypeOK, Phases, SummaryFails, counters, mainVars, writerVars, disk,
     Fail
<1>23. CASE CloseStream
  BY <1>23 DEF TypeOK, Phases, CloseStream, counters, mainVars, writerVars, disk,
     Fail
<1>24. CASE Restart
  BY <1>24 DEF TypeOK, Phases, Restart, counters, mainVars, writerVars, disk,
     StartRecord
<1>25. CASE UNCHANGED vars
  BY <1>25 DEF TypeOK, Phases, vars, counters, mainVars, writerVars, disk
<1> QED BY <1>1, <1>2, <1>3, <1>4, <1>5, <1>6, <1>7, <1>8, <1>9, <1>10, <1>11, <1>12, <1>13, <1>14, <1>15, <1>16, <1>17, <1>18, <1>19, <1>20, <1>21, <1>22, <1>23, <1>24, <1>25
    DEF Next, MainStep, WriterStep

(* A step without failure leaves no returned close() with a live writer. *)
LEMMA CleanDeadStep ==
    ASSUME TypeOK, Phases, CleanDead, [Next]_vars
    PROVE  CleanDead'
<1>1. CASE WriteEvent
  BY <1>1 DEF Phases, CleanDead, Clean, Dead, WriteEvent, counters, mainVars,
     writerVars, disk, Write
<1>2. CASE Close
  BY <1>2 DEF Phases, CleanDead, Clean, Dead, Close, counters, mainVars, writerVars,
     disk, Write
<1>3. CASE CloseAgain
  BY <1>3 DEF Phases, CleanDead, Clean, Dead, CloseAgain, counters, mainVars,
     writerVars, disk
<1>4. CASE SerializationFails
  BY <1>4 DEF Phases, CleanDead, Clean, Dead, SerializationFails, counters,
     mainVars, writerVars, disk, Fail, AfterWrite
<1>5. CASE Enqueue
  BY <1>5 DEF Phases, CleanDead, Clean, Dead, Enqueue, counters, mainVars,
     writerVars, disk, AfterWrite, Accepts
<1>6. CASE Drop
  BY <1>6 DEF Phases, CleanDead, Clean, Dead, Drop, counters, mainVars, writerVars,
     disk, Fail, AfterWrite, Accepts
<1>7. CASE MarkClosed
  BY <1>7 DEF Phases, CleanDead, Clean, Dead, MarkClosed, counters, mainVars,
     writerVars, disk
<1>8. CASE SetStop
  BY <1>8 DEF Phases, CleanDead, Clean, Dead, SetStop, counters, mainVars,
     writerVars, disk
<1>9. CASE Join
  BY <1>9 DEF Phases, CleanDead, Clean, Dead, Join, counters, mainVars, writerVars,
     disk
<1>10. CASE CheckAlive
  BY <1>10 DEF Phases, CleanDead, Clean, Dead, CheckAlive, counters, mainVars,
     writerVars, disk, Fail
<1>11. CASE TakeStatus
  BY <1>11 DEF Phases, CleanDead, Clean, Dead, TakeStatus, counters, mainVars,
     writerVars, disk
<1>12. CASE Verdict
  BY <1>12 DEF Phases, CleanDead, Clean, Dead, Verdict, counters, mainVars,
     writerVars, disk
<1>13. CASE Publish
  BY <1>13 DEF Phases, CleanDead, Clean, Dead, Publish, WriteCloseStatus, counters, mainVars,
     writerVars, disk
<1>14. CASE Get
  BY <1>14 DEF Phases, CleanDead, Clean, Dead, Get, counters, mainVars, writerVars,
     disk
<1>15. CASE WriteRow
  BY <1>15 DEF Phases, CleanDead, Clean, Dead, WriteRow, counters, mainVars,
     writerVars, disk
<1>16. CASE CountRow
  BY <1>16 DEF Phases, CleanDead, Clean, Dead, CountRow, counters, mainVars,
     writerVars, disk
<1>17. CASE WriteFails
  BY <1>17 DEF Phases, CleanDead, Clean, Dead, WriteFails, counters, mainVars,
     writerVars, disk
<1>18. CASE CountFailure
  BY <1>18 DEF Phases, CleanDead, Clean, Dead, CountFailure, counters, mainVars,
     writerVars, disk, Fail
<1>19. CASE LeaveLoop
  BY <1>19 DEF Phases, CleanDead, Clean, Dead, LeaveLoop, counters, mainVars,
     writerVars, disk
<1>20. CASE WriteSummary
  BY <1>20 DEF Phases, CleanDead, Clean, Dead, WriteSummary, counters, mainVars,
     writerVars, disk
<1>21. CASE MarkSummary
  BY <1>21 DEF Phases, CleanDead, Clean, Dead, MarkSummary, counters, mainVars,
     writerVars, disk
<1>22. CASE SummaryFails
  BY <1>22 DEF Phases, CleanDead, Clean, Dead, SummaryFails, counters, mainVars,
     writerVars, disk, Fail
<1>23. CASE CloseStream
  BY <1>23 DEF Phases, CleanDead, Clean, Dead, CloseStream, counters, mainVars,
     writerVars, disk, Fail
<1>24. CASE Restart
  BY <1>24 DEF Phases, CleanDead, Clean, Dead, Restart, counters, mainVars,
     writerVars, disk, StartRecord
<1>25. CASE UNCHANGED vars
  BY <1>25 DEF Phases, CleanDead, Clean, Dead, vars, counters, mainVars, writerVars,
     disk
<1> QED BY <1>1, <1>2, <1>3, <1>4, <1>5, <1>6, <1>7, <1>8, <1>9, <1>10, <1>11, <1>12, <1>13, <1>14, <1>15, <1>16, <1>17, <1>18, <1>19, <1>20, <1>21, <1>22, <1>23, <1>24, <1>25
    DEF Next, MainStep, WriterStep

(* While nothing fails, every step keeps the records in one run. *)
LEMMA ContiguousStep ==
    ASSUME TypeOK, Accounting, Phases, Contiguous, [Next]_vars
    PROVE  Contiguous'
<1> USE CaptureConstants
<1>1. CASE WriteEvent
  BY <1>1 DEF TypeOK, Accounting, Clear, Clean, InHand, InWrite, Landed, Ended,
     Phases, Contiguous, EventRow, FooterRow, Record, Kinds, WriteEvent, counters,
     mainVars, writerVars, disk, Write
<1>2. CASE Close
  BY <1>2 DEF TypeOK, Accounting, Clear, Clean, InHand, InWrite, Landed, Ended,
     Phases, Contiguous, EventRow, FooterRow, Record, Kinds, Close, counters,
     mainVars, writerVars, disk, Write
<1>3. CASE CloseAgain
  BY <1>3 DEF TypeOK, Accounting, Clear, Clean, InHand, InWrite, Landed, Ended,
     Phases, Contiguous, EventRow, FooterRow, Record, Kinds, CloseAgain, counters,
     mainVars, writerVars, disk
<1>4. CASE SerializationFails
  BY <1>4 DEF TypeOK, Accounting, Clear, Clean, InHand, InWrite, Landed, Ended,
     Phases, Contiguous, EventRow, FooterRow, Record, Kinds, SerializationFails,
     counters, mainVars, writerVars, disk, Fail, AfterWrite
<1>5. CASE Enqueue
  <2>1. /\ Len(queue') = Len(queue) + 1
        /\ \A i \in 1..Len(queue) : queue'[i] = queue[i]
        /\ queue'[Len(queue) + 1] = record
    BY <1>5 DEF Enqueue, TypeOK
  <2>2. record.sequence = sequence BY <1>5 DEF Enqueue, Phases
  <2>3. sequence = queued + dropped + 1 BY <1>5 DEF Enqueue, Accounting, InWrite
  <2>4. Clear => queue'[Len(queue) + 1].sequence = persisted + InHand + Len(queue) + 1
    <3>1. Clear => failed = 0 /\ dropped = 0 BY DEF Contiguous
    <3>2. queued = persisted + failed + Len(queue) + InHand BY DEF Accounting
    <3>3. InHand \in Nat /\ Len(queue) \in Nat BY DEF InHand, TypeOK
    <3>4. queued \in Nat /\ persisted \in Nat BY DEF TypeOK
    <3> QED BY <2>1, <2>2, <2>3, <3>1, <3>2, <3>3, <3>4
  <2>5. UNCHANGED <<failures, writer, failed, dropped, persisted, hand, file, opened, pid>>
    BY <1>5 DEF Enqueue, writerVars, disk
  <2>6. (Clear' <=> Clear) /\ InHand' = InHand /\ Landed' = Landed /\ Ended' = Ended
    BY <2>5 DEF Clear, Clean, InHand, Landed, Ended
  <2>7. ASSUME Clear, NEW i \in 1..Len(queue')
        PROVE  queue'[i].sequence = persisted + InHand + i
    <3>1. CASE i \in 1..Len(queue) BY <2>1, <2>7, <3>1 DEF Contiguous
    <3>2. CASE i = Len(queue) + 1 BY <2>4, <2>7, <3>2 DEF InHand, TypeOK
    <3> QED BY <2>1, <3>1, <3>2 DEF TypeOK
  <2> QED BY <2>5, <2>6, <2>7 DEF Contiguous
<1>6. CASE Drop
  BY <1>6 DEF TypeOK, Accounting, Clear, Clean, InHand, InWrite, Landed, Ended,
     Phases, Contiguous, EventRow, FooterRow, Record, Kinds, Drop, counters,
     mainVars, writerVars, disk, Fail, AfterWrite, Accepts
<1>7. CASE MarkClosed
  BY <1>7 DEF TypeOK, Accounting, Clear, Clean, InHand, InWrite, Landed, Ended,
     Phases, Contiguous, EventRow, FooterRow, Record, Kinds, MarkClosed, counters,
     mainVars, writerVars, disk
<1>8. CASE SetStop
  BY <1>8 DEF TypeOK, Accounting, Clear, Clean, InHand, InWrite, Landed, Ended,
     Phases, Contiguous, EventRow, FooterRow, Record, Kinds, SetStop, counters,
     mainVars, writerVars, disk
<1>9. CASE Join
  BY <1>9 DEF TypeOK, Accounting, Clear, Clean, InHand, InWrite, Landed, Ended,
     Phases, Contiguous, EventRow, FooterRow, Record, Kinds, Join, counters,
     mainVars, writerVars, disk
<1>10. CASE CheckAlive
  BY <1>10 DEF TypeOK, Accounting, Clear, Clean, InHand, InWrite, Landed, Ended,
     Phases, Contiguous, EventRow, FooterRow, Record, Kinds, CheckAlive, counters,
     mainVars, writerVars, disk, Fail
<1>11. CASE TakeStatus
  BY <1>11 DEF TypeOK, Accounting, Clear, Clean, InHand, InWrite, Landed, Ended,
     Phases, Contiguous, EventRow, FooterRow, Record, Kinds, TakeStatus, counters,
     mainVars, writerVars, disk
<1>12. CASE Verdict
  BY <1>12 DEF TypeOK, Accounting, Clear, Clean, InHand, InWrite, Landed, Ended,
     Phases, Contiguous, EventRow, FooterRow, Record, Kinds, Verdict, counters,
     mainVars, writerVars, disk
<1>13. CASE Publish
  BY <1>13 DEF TypeOK, Accounting, Clear, Clean, InHand, InWrite, Landed, Ended,
     Phases, Contiguous, EventRow, FooterRow, Record, Kinds, Publish, WriteCloseStatus, counters,
     mainVars, writerVars, disk
<1>14. CASE Get
  <2>1. /\ hand' = queue[1]
        /\ Len(queue) > 0
        /\ Len(queue') = Len(queue) - 1
        /\ \A i \in 1..Len(queue') : queue'[i] = queue[i + 1]
    BY <1>14 DEF Get, TypeOK
  <2>2. UNCHANGED <<failures, failed, dropped, persisted, file, opened, pid>>
    BY <1>14 DEF Get, counters, disk
  <2>3. InHand = 0 /\ InHand' = 1 /\ Clear = Clean /\ Clear' = Clean'
        /\ Landed' = Landed /\ Ended' = Ended
    BY <1>14, <2>2 DEF Get, InHand, Clear, Clean, Landed, Ended, counters
  <2>4. Clean => hand'.sequence = persisted + 1
    BY <2>1, <2>3 DEF Contiguous, TypeOK
  <2>5. Clean => \A i \in 1..Len(queue') : queue'[i].sequence = persisted + 1 + i
    <3> SUFFICES ASSUME Clean, NEW i \in 1..Len(queue')
                 PROVE  queue'[i].sequence = persisted + 1 + i
      OBVIOUS
    <3>1. i + 1 \in 1..Len(queue) BY <2>1 DEF TypeOK
    <3>2. queue[i + 1].sequence = persisted + InHand + (i + 1)
      BY <3>1, <2>3 DEF Contiguous
    <3> QED BY <2>1, <2>3, <3>2 DEF TypeOK
  <2> QED BY <2>2, <2>3, <2>4, <2>5 DEF Contiguous, Clean
<1>15. CASE WriteRow
  <2>1. /\ Len(file') = Len(file) + 1
        /\ \A i \in 1..Len(file) : file'[i] = file[i]
        /\ file'[Len(file) + 1] = EventRow(hand)
    BY <1>15 DEF WriteRow, TypeOK
  <2>2. UNCHANGED <<failures, failed, dropped, persisted, hand, queue, opened, pid>>
    BY <1>15 DEF WriteRow, counters
  <2>3. /\ InHand = 1 /\ InHand' = 1 /\ Clear = Clean /\ Clear' = Clean'
        /\ Landed = persisted /\ Landed' = persisted + 1 /\ Ended = 0 /\ Ended' = 0
    BY <1>15, <2>2 DEF WriteRow, InHand, Clear, Clean, Landed, Ended, TypeOK, counters
  <2>4. hand \in Record BY <1>15 DEF WriteRow, TypeOK
  <2>5. /\ EventRow(hand).process = pid
        /\ EventRow(hand).kind # "torn"
        /\ EventRow(hand).ended
        /\ EventRow(hand).sequence = hand.sequence
    BY <2>4 DEF EventRow, Record, Kinds
  <2>6. SUFFICES ASSUME Clean
                 PROVE  /\ Len(file') = opened + persisted + 1
                        /\ \A i \in 1..(persisted + 1) :
                             /\ file'[opened + i].process = pid
                             /\ file'[opened + i].kind # "torn"
                             /\ file'[opened + i].ended
                             /\ file'[opened + i].sequence = i
    <3>1. (Clear <=> Clean) /\ (Clear' <=> Clean) BY <2>2, <2>3 DEF Clean
    <3>2. Len(file') = opened' + Landed' + Ended' <=> Len(file') = opened + persisted + 1
      BY <2>2, <2>3 DEF TypeOK
    <3> QED BY <2>2, <2>3, <3>1, <3>2 DEF Contiguous
  <2>7. Len(file) = opened + persisted /\ hand.sequence = persisted + 1
    BY <2>3, <2>6 DEF Contiguous, TypeOK
  <2>8. ASSUME NEW i \in 1..persisted
        PROVE  file'[opened + i] = file[opened + i]
    <3>1. opened + i \in 1..Len(file) BY <2>7 DEF TypeOK
    <3> QED BY <2>1, <3>1
  <2>9. ASSUME NEW i \in 1..(persisted + 1)
        PROVE  /\ file'[opened + i].process = pid
               /\ file'[opened + i].kind # "torn"
               /\ file'[opened + i].ended
               /\ file'[opened + i].sequence = i
    <3>1. CASE i \in 1..persisted BY <2>3, <2>6, <2>8, <3>1 DEF Contiguous
    <3>2. CASE i = persisted + 1 BY <2>1, <2>5, <2>7, <3>2 DEF TypeOK
    <3> QED BY <3>1, <3>2 DEF TypeOK
  <2> QED BY <2>1, <2>7, <2>9
<1>16. CASE CountRow
  BY <1>16 DEF TypeOK, Accounting, Clear, Clean, InHand, InWrite, Landed, Ended,
     Phases, Contiguous, EventRow, FooterRow, Record, Kinds, CountRow, counters,
     mainVars, writerVars, disk
<1>17. CASE WriteFails
  BY <1>17 DEF TypeOK, Accounting, Clear, Clean, InHand, InWrite, Landed, Ended,
     Phases, Contiguous, EventRow, FooterRow, Record, Kinds, WriteFails, counters,
     mainVars, writerVars, disk
<1>18. CASE CountFailure
  BY <1>18 DEF TypeOK, Accounting, Clear, Clean, InHand, InWrite, Landed, Ended,
     Phases, Contiguous, EventRow, FooterRow, Record, Kinds, CountFailure, counters,
     mainVars, writerVars, disk, Fail
<1>19. CASE LeaveLoop
  BY <1>19 DEF TypeOK, Accounting, Clear, Clean, InHand, InWrite, Landed, Ended,
     Phases, Contiguous, EventRow, FooterRow, Record, Kinds, LeaveLoop, counters,
     mainVars, writerVars, disk
<1>20. CASE WriteSummary
  <2>1. /\ Len(file') = Len(file) + 1
        /\ \A i \in 1..Len(file) : file'[i] = file[i]
    BY <1>20 DEF WriteSummary, TypeOK
  <2>2. UNCHANGED <<failures, failed, dropped, persisted, hand, queue, opened, pid>>
    BY <1>20 DEF WriteSummary, counters
  <2>3. /\ InHand = 0 /\ InHand' = 0 /\ Clear = Clean /\ Clear' = Clean'
        /\ Landed = persisted /\ Landed' = persisted /\ Ended = 0 /\ Ended' = 1
    BY <1>20, <2>2 DEF WriteSummary, InHand, Clear, Clean, Landed, Ended, TypeOK, counters
  <2>4. Clean => Len(file) = opened + persisted BY <2>3 DEF Contiguous, TypeOK
  <2>5. ASSUME Clean, NEW i \in 1..persisted
        PROVE  file'[opened + i] = file[opened + i]
    <3>1. opened + i \in 1..Len(file) BY <2>4, <2>5 DEF TypeOK
    <3> QED BY <2>1, <3>1
  <2> QED BY <2>1, <2>2, <2>3, <2>4, <2>5 DEF Contiguous, Clean, TypeOK
<1>21. CASE MarkSummary
  BY <1>21 DEF TypeOK, Accounting, Clear, Clean, InHand, InWrite, Landed, Ended,
     Phases, Contiguous, EventRow, FooterRow, Record, Kinds, MarkSummary, counters,
     mainVars, writerVars, disk
<1>22. CASE SummaryFails
  BY <1>22 DEF TypeOK, Accounting, Clear, Clean, InHand, InWrite, Landed, Ended,
     Phases, Contiguous, EventRow, FooterRow, Record, Kinds, SummaryFails, counters,
     mainVars, writerVars, disk, Fail
<1>23. CASE CloseStream
  BY <1>23 DEF TypeOK, Accounting, Clear, Clean, InHand, InWrite, Landed, Ended,
     Phases, Contiguous, EventRow, FooterRow, Record, Kinds, CloseStream, counters,
     mainVars, writerVars, disk, Fail
<1>24. CASE Restart
  BY <1>24 DEF TypeOK, Accounting, Clear, Clean, InHand, InWrite, Landed, Ended,
     Phases, Contiguous, EventRow, FooterRow, Record, Kinds, Restart, counters,
     mainVars, writerVars, disk, StartRecord
<1>25. CASE UNCHANGED vars
  BY <1>25 DEF TypeOK, Accounting, Clear, Clean, InHand, InWrite, Landed, Ended,
     Phases, Contiguous, EventRow, FooterRow, Record, Kinds, vars, counters,
     mainVars, writerVars, disk
<1> QED BY <1>1, <1>2, <1>3, <1>4, <1>5, <1>6, <1>7, <1>8, <1>9, <1>10, <1>11, <1>12, <1>13, <1>14, <1>15, <1>16, <1>17, <1>18, <1>19, <1>20, <1>21, <1>22, <1>23, <1>24, <1>25
    DEF Next, MainStep, WriterStep

(* The row just written has the kind of the record in hand. *)
LEMMA CopiedStep ==
    ASSUME TypeOK, Accounting, Contiguous, Copied, [Next]_vars
    PROVE  Copied'
<1>1. CASE WriteEvent
  BY <1>1 DEF TypeOK, Accounting, Clear, Clean, InHand, InWrite, Landed, Ended,
     Contiguous, Copied, EventRow, Record, WriteEvent, counters, mainVars,
     writerVars, disk, Write
<1>2. CASE Close
  BY <1>2 DEF TypeOK, Accounting, Clear, Clean, InHand, InWrite, Landed, Ended,
     Contiguous, Copied, EventRow, Record, Close, counters, mainVars, writerVars,
     disk, Write
<1>3. CASE CloseAgain
  BY <1>3 DEF TypeOK, Accounting, Clear, Clean, InHand, InWrite, Landed, Ended,
     Contiguous, Copied, EventRow, Record, CloseAgain, counters, mainVars,
     writerVars, disk
<1>4. CASE SerializationFails
  BY <1>4 DEF TypeOK, Accounting, Clear, Clean, InHand, InWrite, Landed, Ended,
     Contiguous, Copied, EventRow, Record, SerializationFails, counters, mainVars,
     writerVars, disk, Fail, AfterWrite
<1>5. CASE Enqueue
  BY <1>5 DEF TypeOK, Accounting, Clear, Clean, InHand, InWrite, Landed, Ended,
     Contiguous, Copied, EventRow, Record, Enqueue, counters, mainVars, writerVars,
     disk, AfterWrite, Accepts
<1>6. CASE Drop
  BY <1>6 DEF TypeOK, Accounting, Clear, Clean, InHand, InWrite, Landed, Ended,
     Contiguous, Copied, EventRow, Record, Drop, counters, mainVars, writerVars,
     disk, Fail, AfterWrite, Accepts
<1>7. CASE MarkClosed
  BY <1>7 DEF TypeOK, Accounting, Clear, Clean, InHand, InWrite, Landed, Ended,
     Contiguous, Copied, EventRow, Record, MarkClosed, counters, mainVars,
     writerVars, disk
<1>8. CASE SetStop
  BY <1>8 DEF TypeOK, Accounting, Clear, Clean, InHand, InWrite, Landed, Ended,
     Contiguous, Copied, EventRow, Record, SetStop, counters, mainVars, writerVars,
     disk
<1>9. CASE Join
  BY <1>9 DEF TypeOK, Accounting, Clear, Clean, InHand, InWrite, Landed, Ended,
     Contiguous, Copied, EventRow, Record, Join, counters, mainVars, writerVars,
     disk
<1>10. CASE CheckAlive
  BY <1>10 DEF TypeOK, Accounting, Clear, Clean, InHand, InWrite, Landed, Ended,
     Contiguous, Copied, EventRow, Record, CheckAlive, counters, mainVars,
     writerVars, disk, Fail
<1>11. CASE TakeStatus
  BY <1>11 DEF TypeOK, Accounting, Clear, Clean, InHand, InWrite, Landed, Ended,
     Contiguous, Copied, EventRow, Record, TakeStatus, counters, mainVars,
     writerVars, disk
<1>12. CASE Verdict
  BY <1>12 DEF TypeOK, Accounting, Clear, Clean, InHand, InWrite, Landed, Ended,
     Contiguous, Copied, EventRow, Record, Verdict, counters, mainVars, writerVars,
     disk
<1>13. CASE Publish
  BY <1>13 DEF TypeOK, Accounting, Clear, Clean, InHand, InWrite, Landed, Ended,
     Contiguous, Copied, EventRow, Record, Publish, WriteCloseStatus, counters, mainVars, writerVars,
     disk
<1>14. CASE Get
  BY <1>14 DEF TypeOK, Accounting, Clear, Clean, InHand, InWrite, Landed, Ended,
     Contiguous, Copied, EventRow, Record, Get, counters, mainVars, writerVars, disk
<1>15. CASE WriteRow
  <2>1. /\ file'[Len(file) + 1] = EventRow(hand)
        /\ UNCHANGED <<failures, opened, persisted, hand>>
        /\ writer = "write"
    BY <1>15 DEF WriteRow, TypeOK, counters
  <2>2. Clean => Len(file) = opened + persisted
    BY <2>1 DEF Contiguous, Clear, Landed, Ended, TypeOK
  <2>3. EventRow(hand).kind = hand.kind BY DEF EventRow
  <2> QED BY <2>1, <2>2, <2>3 DEF Copied, Clean
<1>16. CASE CountRow
  BY <1>16 DEF TypeOK, Accounting, Clear, Clean, InHand, InWrite, Landed, Ended,
     Contiguous, Copied, EventRow, Record, CountRow, counters, mainVars, writerVars,
     disk
<1>17. CASE WriteFails
  BY <1>17 DEF TypeOK, Accounting, Clear, Clean, InHand, InWrite, Landed, Ended,
     Contiguous, Copied, EventRow, Record, WriteFails, counters, mainVars,
     writerVars, disk
<1>18. CASE CountFailure
  BY <1>18 DEF TypeOK, Accounting, Clear, Clean, InHand, InWrite, Landed, Ended,
     Contiguous, Copied, EventRow, Record, CountFailure, counters, mainVars,
     writerVars, disk, Fail
<1>19. CASE LeaveLoop
  BY <1>19 DEF TypeOK, Accounting, Clear, Clean, InHand, InWrite, Landed, Ended,
     Contiguous, Copied, EventRow, Record, LeaveLoop, counters, mainVars,
     writerVars, disk
<1>20. CASE WriteSummary
  BY <1>20 DEF TypeOK, Accounting, Clear, Clean, InHand, InWrite, Landed, Ended,
     Contiguous, Copied, EventRow, Record, WriteSummary, counters, mainVars,
     writerVars, disk
<1>21. CASE MarkSummary
  BY <1>21 DEF TypeOK, Accounting, Clear, Clean, InHand, InWrite, Landed, Ended,
     Contiguous, Copied, EventRow, Record, MarkSummary, counters, mainVars,
     writerVars, disk
<1>22. CASE SummaryFails
  BY <1>22 DEF TypeOK, Accounting, Clear, Clean, InHand, InWrite, Landed, Ended,
     Contiguous, Copied, EventRow, Record, SummaryFails, counters, mainVars,
     writerVars, disk, Fail
<1>23. CASE CloseStream
  BY <1>23 DEF TypeOK, Accounting, Clear, Clean, InHand, InWrite, Landed, Ended,
     Contiguous, Copied, EventRow, Record, CloseStream, counters, mainVars,
     writerVars, disk, Fail
<1>24. CASE Restart
  BY <1>24 DEF TypeOK, Accounting, Clear, Clean, InHand, InWrite, Landed, Ended,
     Contiguous, Copied, EventRow, Record, Restart, counters, mainVars, writerVars,
     disk, StartRecord
<1>25. CASE UNCHANGED vars
  BY <1>25 DEF TypeOK, Accounting, Clear, Clean, InHand, InWrite, Landed, Ended,
     Contiguous, Copied, EventRow, Record, vars, counters, mainVars, writerVars,
     disk
<1> QED BY <1>1, <1>2, <1>3, <1>4, <1>5, <1>6, <1>7, <1>8, <1>9, <1>10, <1>11, <1>12, <1>13, <1>14, <1>15, <1>16, <1>17, <1>18, <1>19, <1>20, <1>21, <1>22, <1>23, <1>24, <1>25
    DEF Next, MainStep, WriterStep

(* No record follows capture_close into the queue. *)
LEMMA LastIsCloseStep ==
    ASSUME TypeOK, Accounting, Phases, CleanDead, Contiguous, Copied, LastIsClose, [Next]_vars
    PROVE  LastIsClose'
<1>1. CASE WriteEvent
  BY <1>1 DEF TypeOK, Accounting, Clear, Clean, InHand, InWrite, Landed, Ended,
     Phases, CleanDead, Contiguous, Copied, LastIsClose, EventRow, Record,
     WriteEvent, counters, mainVars, writerVars, disk, Write
<1>2. CASE Close
  BY <1>2 DEF TypeOK, Accounting, Clear, Clean, InHand, InWrite, Landed, Ended,
     Phases, CleanDead, Contiguous, Copied, LastIsClose, EventRow, Record, Close,
     counters, mainVars, writerVars, disk, Write
<1>3. CASE CloseAgain
  BY <1>3 DEF TypeOK, Accounting, Clear, Clean, InHand, InWrite, Landed, Ended,
     Phases, CleanDead, Contiguous, Copied, LastIsClose, EventRow, Record,
     CloseAgain, counters, mainVars, writerVars, disk
<1>4. CASE SerializationFails
  BY <1>4 DEF TypeOK, Accounting, Clear, Clean, InHand, InWrite, Landed, Ended,
     Phases, CleanDead, Contiguous, Copied, LastIsClose, EventRow, Record,
     SerializationFails, counters, mainVars, writerVars, disk, Fail, AfterWrite
<1>5. CASE Enqueue
  <2>1. /\ Len(queue') = Len(queue) + 1
        /\ queue'[Len(queue) + 1] = record
        /\ queue' # <<>>
    BY <1>5 DEF Enqueue, TypeOK
  <2>2. queued' > 0 /\ ~closed' BY <1>5 DEF Enqueue, Accepts, TypeOK
  <2>3. main' = "mark_closed" => record.kind = "capture_close"
    BY <1>5 DEF Enqueue, AfterWrite
  <2> QED BY <2>1, <2>2, <2>3 DEF LastIsClose
<1>6. CASE Drop
  BY <1>6 DEF TypeOK, Accounting, Clear, Clean, InHand, InWrite, Landed, Ended,
     Phases, CleanDead, Contiguous, Copied, LastIsClose, EventRow, Record, Drop,
     counters, mainVars, writerVars, disk, Fail, AfterWrite, Accepts
<1>7. CASE MarkClosed
  BY <1>7 DEF TypeOK, Accounting, Clear, Clean, InHand, InWrite, Landed, Ended,
     Phases, CleanDead, Contiguous, Copied, LastIsClose, EventRow, Record,
     MarkClosed, counters, mainVars, writerVars, disk
<1>8. CASE SetStop
  BY <1>8 DEF TypeOK, Accounting, Clear, Clean, InHand, InWrite, Landed, Ended,
     Phases, CleanDead, Contiguous, Copied, LastIsClose, EventRow, Record, SetStop,
     counters, mainVars, writerVars, disk
<1>9. CASE Join
  BY <1>9 DEF TypeOK, Accounting, Clear, Clean, InHand, InWrite, Landed, Ended,
     Phases, CleanDead, Contiguous, Copied, LastIsClose, EventRow, Record, Join,
     counters, mainVars, writerVars, disk
<1>10. CASE CheckAlive
  BY <1>10 DEF TypeOK, Accounting, Clear, Clean, InHand, InWrite, Landed, Ended,
     Phases, CleanDead, Contiguous, Copied, LastIsClose, EventRow, Record,
     CheckAlive, counters, mainVars, writerVars, disk, Fail
<1>11. CASE TakeStatus
  BY <1>11 DEF TypeOK, Accounting, Clear, Clean, InHand, InWrite, Landed, Ended,
     Phases, CleanDead, Contiguous, Copied, LastIsClose, EventRow, Record,
     TakeStatus, counters, mainVars, writerVars, disk
<1>12. CASE Verdict
  BY <1>12 DEF TypeOK, Accounting, Clear, Clean, InHand, InWrite, Landed, Ended,
     Phases, CleanDead, Contiguous, Copied, LastIsClose, EventRow, Record, Verdict,
     counters, mainVars, writerVars, disk
<1>13. CASE Publish
  BY <1>13 DEF TypeOK, Accounting, Clear, Clean, InHand, InWrite, Landed, Ended,
     Phases, CleanDead, Contiguous, Copied, LastIsClose, EventRow, Record, Publish, WriteCloseStatus,
     counters, mainVars, writerVars, disk
<1>14. CASE Get
  <2>1. /\ hand' = queue[1]
        /\ Len(queue) > 0
        /\ Len(queue') = Len(queue) - 1
        /\ \A i \in 1..Len(queue') : queue'[i] = queue[i + 1]
    BY <1>14 DEF Get, TypeOK
  <2>6. queue' = <<>> => Len(queue) = 1
    <3>1. queue' = <<>> => Len(queue') = 0 OBVIOUS
    <3> QED BY <2>1, <3>1 DEF TypeOK
  <2>2. UNCHANGED <<failures, main, closed, queued>>
    BY <1>14 DEF Get, counters, mainVars
  <2>3. InHand' = 1 /\ Clear = Clean /\ Clear' = Clean'
    BY <1>14, <2>2 DEF Get, InHand, Clear, Clean
  <2>4. queue' # <<>> => queue'[Len(queue')] = queue[Len(queue)]
    <3> SUFFICES ASSUME queue' # <<>> PROVE queue'[Len(queue')] = queue[Len(queue)]
      OBVIOUS
    <3>1. Len(queue') \in 1..Len(queue')
      BY <1>14, <2>1 DEF Get, TypeOK
    <3> QED BY <2>1, <3>1 DEF TypeOK
  <2>5. queue # <<>> BY <1>14 DEF Get
  <2> QED BY <2>1, <2>2, <2>3, <2>4, <2>5, <2>6 DEF LastIsClose, Clean
<1>15. CASE WriteRow
  BY <1>15 DEF TypeOK, Accounting, Clear, Clean, InHand, InWrite, Landed, Ended,
     Phases, CleanDead, Contiguous, Copied, LastIsClose, EventRow, Record, WriteRow,
     counters, mainVars, writerVars, disk
<1>16. CASE CountRow
  BY <1>16 DEF TypeOK, Accounting, Clear, Clean, InHand, InWrite, Landed, Ended,
     Phases, CleanDead, Contiguous, Copied, LastIsClose, EventRow, Record, CountRow,
     counters, mainVars, writerVars, disk
<1>17. CASE WriteFails
  BY <1>17 DEF TypeOK, Accounting, Clear, Clean, InHand, InWrite, Landed, Ended,
     Phases, CleanDead, Contiguous, Copied, LastIsClose, EventRow, Record,
     WriteFails, counters, mainVars, writerVars, disk
<1>18. CASE CountFailure
  BY <1>18 DEF TypeOK, Accounting, Clear, Clean, InHand, InWrite, Landed, Ended,
     Phases, CleanDead, Contiguous, Copied, LastIsClose, EventRow, Record,
     CountFailure, counters, mainVars, writerVars, disk, Fail
<1>19. CASE LeaveLoop
  BY <1>19 DEF TypeOK, Accounting, Clear, Clean, InHand, InWrite, Landed, Ended,
     Phases, CleanDead, Contiguous, Copied, LastIsClose, EventRow, Record,
     LeaveLoop, counters, mainVars, writerVars, disk
<1>20. CASE WriteSummary
  BY <1>20 DEF TypeOK, Accounting, Clear, Clean, InHand, InWrite, Landed, Ended,
     Phases, CleanDead, Contiguous, Copied, LastIsClose, EventRow, Record,
     WriteSummary, counters, mainVars, writerVars, disk
<1>21. CASE MarkSummary
  BY <1>21 DEF TypeOK, Accounting, Clear, Clean, InHand, InWrite, Landed, Ended,
     Phases, CleanDead, Contiguous, Copied, LastIsClose, EventRow, Record,
     MarkSummary, counters, mainVars, writerVars, disk
<1>22. CASE SummaryFails
  BY <1>22 DEF TypeOK, Accounting, Clear, Clean, InHand, InWrite, Landed, Ended,
     Phases, CleanDead, Contiguous, Copied, LastIsClose, EventRow, Record,
     SummaryFails, counters, mainVars, writerVars, disk, Fail
<1>23. CASE CloseStream
  BY <1>23 DEF TypeOK, Accounting, Clear, Clean, InHand, InWrite, Landed, Ended,
     Phases, CleanDead, Contiguous, Copied, LastIsClose, EventRow, Record,
     CloseStream, counters, mainVars, writerVars, disk, Fail
<1>24. CASE Restart
  BY <1>24 DEF TypeOK, Accounting, Clear, Clean, InHand, InWrite, Landed, Ended,
     Phases, CleanDead, Contiguous, Copied, LastIsClose, EventRow, Record, Restart,
     counters, mainVars, writerVars, disk, StartRecord
<1>25. CASE UNCHANGED vars
  BY <1>25 DEF TypeOK, Accounting, Clear, Clean, InHand, InWrite, Landed, Ended,
     Phases, CleanDead, Contiguous, Copied, LastIsClose, EventRow, Record, vars,
     counters, mainVars, writerVars, disk
<1> QED BY <1>1, <1>2, <1>3, <1>4, <1>5, <1>6, <1>7, <1>8, <1>9, <1>10, <1>11, <1>12, <1>13, <1>14, <1>15, <1>16, <1>17, <1>18, <1>19, <1>20, <1>21, <1>22, <1>23, <1>24, <1>25
    DEF Next, MainStep, WriterStep

(* While nothing fails, the footer stays exact. *)
LEMMA FooterStep ==
    ASSUME TypeOK, Accounting, Phases, CleanDead, Contiguous, FooterHolds, [Next]_vars
    PROVE  FooterHolds'
<1>1. CASE WriteEvent
  BY <1>1 DEF TypeOK, Accounting, Clear, Clean, InHand, InWrite, Landed, Ended,
     Phases, CleanDead, Contiguous, FooterHolds, FooterRow, Exact, WriteEvent,
     counters, mainVars, writerVars, disk, Write
<1>2. CASE Close
  BY <1>2 DEF TypeOK, Accounting, Clear, Clean, InHand, InWrite, Landed, Ended,
     Phases, CleanDead, Contiguous, FooterHolds, FooterRow, Exact, Close, counters,
     mainVars, writerVars, disk, Write
<1>3. CASE CloseAgain
  BY <1>3 DEF TypeOK, Accounting, Clear, Clean, InHand, InWrite, Landed, Ended,
     Phases, CleanDead, Contiguous, FooterHolds, FooterRow, Exact, CloseAgain,
     counters, mainVars, writerVars, disk
<1>4. CASE SerializationFails
  BY <1>4 DEF TypeOK, Accounting, Clear, Clean, InHand, InWrite, Landed, Ended,
     Phases, CleanDead, Contiguous, FooterHolds, FooterRow, Exact,
     SerializationFails, counters, mainVars, writerVars, disk, Fail, AfterWrite
<1>5. CASE Enqueue
  BY <1>5 DEF TypeOK, Accounting, Clear, Clean, InHand, InWrite, Landed, Ended,
     Phases, CleanDead, Contiguous, FooterHolds, FooterRow, Exact, Enqueue,
     counters, mainVars, writerVars, disk, AfterWrite, Accepts
<1>6. CASE Drop
  BY <1>6 DEF TypeOK, Accounting, Clear, Clean, InHand, InWrite, Landed, Ended,
     Phases, CleanDead, Contiguous, FooterHolds, FooterRow, Exact, Drop, counters,
     mainVars, writerVars, disk, Fail, AfterWrite, Accepts
<1>7. CASE MarkClosed
  BY <1>7 DEF TypeOK, Accounting, Clear, Clean, InHand, InWrite, Landed, Ended,
     Phases, CleanDead, Contiguous, FooterHolds, FooterRow, Exact, MarkClosed,
     counters, mainVars, writerVars, disk
<1>8. CASE SetStop
  BY <1>8 DEF TypeOK, Accounting, Clear, Clean, InHand, InWrite, Landed, Ended,
     Phases, CleanDead, Contiguous, FooterHolds, FooterRow, Exact, SetStop,
     counters, mainVars, writerVars, disk
<1>9. CASE Join
  BY <1>9 DEF TypeOK, Accounting, Clear, Clean, InHand, InWrite, Landed, Ended,
     Phases, CleanDead, Contiguous, FooterHolds, FooterRow, Exact, Join, counters,
     mainVars, writerVars, disk
<1>10. CASE CheckAlive
  BY <1>10 DEF TypeOK, Accounting, Clear, Clean, InHand, InWrite, Landed, Ended,
     Phases, CleanDead, Contiguous, FooterHolds, FooterRow, Exact, CheckAlive,
     counters, mainVars, writerVars, disk, Fail
<1>11. CASE TakeStatus
  BY <1>11 DEF TypeOK, Accounting, Clear, Clean, InHand, InWrite, Landed, Ended,
     Phases, CleanDead, Contiguous, FooterHolds, FooterRow, Exact, TakeStatus,
     counters, mainVars, writerVars, disk
<1>12. CASE Verdict
  BY <1>12 DEF TypeOK, Accounting, Clear, Clean, InHand, InWrite, Landed, Ended,
     Phases, CleanDead, Contiguous, FooterHolds, FooterRow, Exact, Verdict,
     counters, mainVars, writerVars, disk
<1>13. CASE Publish
  BY <1>13 DEF TypeOK, Accounting, Clear, Clean, InHand, InWrite, Landed, Ended,
     Phases, CleanDead, Contiguous, FooterHolds, FooterRow, Exact, Publish, WriteCloseStatus,
     counters, mainVars, writerVars, disk
<1>14. CASE Get
  BY <1>14 DEF TypeOK, Accounting, Clear, Clean, InHand, InWrite, Landed, Ended,
     Phases, CleanDead, Contiguous, FooterHolds, FooterRow, Exact, Get, counters,
     mainVars, writerVars, disk
<1>15. CASE WriteRow
  BY <1>15 DEF TypeOK, Accounting, Clear, Clean, InHand, InWrite, Landed, Ended,
     Phases, CleanDead, Contiguous, FooterHolds, FooterRow, Exact, WriteRow,
     counters, mainVars, writerVars, disk
<1>16. CASE CountRow
  BY <1>16 DEF TypeOK, Accounting, Clear, Clean, InHand, InWrite, Landed, Ended,
     Phases, CleanDead, Contiguous, FooterHolds, FooterRow, Exact, CountRow,
     counters, mainVars, writerVars, disk
<1>17. CASE WriteFails
  BY <1>17 DEF TypeOK, Accounting, Clear, Clean, InHand, InWrite, Landed, Ended,
     Phases, CleanDead, Contiguous, FooterHolds, FooterRow, Exact, WriteFails,
     counters, mainVars, writerVars, disk
<1>18. CASE CountFailure
  BY <1>18 DEF TypeOK, Accounting, Clear, Clean, InHand, InWrite, Landed, Ended,
     Phases, CleanDead, Contiguous, FooterHolds, FooterRow, Exact, CountFailure,
     counters, mainVars, writerVars, disk, Fail
<1>19. CASE LeaveLoop
  <2>1. UNCHANGED <<failures, queued>> /\ Ended' = 0 /\ footer' = Status
    BY <1>19 DEF LeaveLoop, counters, Ended
  <2>2. SUFFICES ASSUME Clean PROVE footer'.valid /\ Exact(footer', queued)
    BY <2>1 DEF FooterHolds, Clean, Exact
  <2>3. closed /\ ~Dead BY <1>19 DEF LeaveLoop, Phases, Dead
  <2>4. InWrite = 0 BY <2>2, <2>3 DEF CleanDead, InWrite
  <2>5. Clear /\ InHand = 0 /\ Len(queue) = 0
    BY <1>19, <2>2 DEF LeaveLoop, Clear, InHand, TypeOK
  <2>6. failed = 0 /\ dropped = 0 BY <2>5 DEF Contiguous
  <2>7. persisted = queued /\ sequence = queued
    BY <2>4, <2>5, <2>6 DEF Accounting, TypeOK
  <2>8. Status.valid
    <3>1. closed /\ queued = persisted + failed /\ failures = {}
      BY <2>2, <2>3, <2>6, <2>7 DEF Clean, TypeOK
    <3> QED BY <3>1 DEF Status
  <2>9. Exact(Status, queued)
    BY <2>2, <2>6, <2>7 DEF Status, Exact, Clean, TypeOK
  <2> QED BY <2>1, <2>8, <2>9
<1>20. CASE WriteSummary
  BY <1>20 DEF TypeOK, Accounting, Clear, Clean, InHand, InWrite, Landed, Ended,
     Phases, CleanDead, Contiguous, FooterHolds, FooterRow, Exact, WriteSummary,
     counters, mainVars, writerVars, disk
<1>21. CASE MarkSummary
  BY <1>21 DEF TypeOK, Accounting, Clear, Clean, InHand, InWrite, Landed, Ended,
     Phases, CleanDead, Contiguous, FooterHolds, FooterRow, Exact, MarkSummary,
     counters, mainVars, writerVars, disk
<1>22. CASE SummaryFails
  BY <1>22 DEF TypeOK, Accounting, Clear, Clean, InHand, InWrite, Landed, Ended,
     Phases, CleanDead, Contiguous, FooterHolds, FooterRow, Exact, SummaryFails,
     counters, mainVars, writerVars, disk, Fail
<1>23. CASE CloseStream
  BY <1>23 DEF TypeOK, Accounting, Clear, Clean, InHand, InWrite, Landed, Ended,
     Phases, CleanDead, Contiguous, FooterHolds, FooterRow, Exact, CloseStream,
     counters, mainVars, writerVars, disk, Fail
<1>24. CASE Restart
  BY <1>24 DEF TypeOK, Accounting, Clear, Clean, InHand, InWrite, Landed, Ended,
     Phases, CleanDead, Contiguous, FooterHolds, FooterRow, Exact, Restart,
     counters, mainVars, writerVars, disk, StartRecord
<1>25. CASE UNCHANGED vars
  BY <1>25 DEF TypeOK, Accounting, Clear, Clean, InHand, InWrite, Landed, Ended,
     Phases, CleanDead, Contiguous, FooterHolds, FooterRow, Exact, vars, counters,
     mainVars, writerVars, disk
<1> QED BY <1>1, <1>2, <1>3, <1>4, <1>5, <1>6, <1>7, <1>8, <1>9, <1>10, <1>11, <1>12, <1>13, <1>14, <1>15, <1>16, <1>17, <1>18, <1>19, <1>20, <1>21, <1>22, <1>23, <1>24, <1>25
    DEF Next, MainStep, WriterStep

(* A valid report stays backed by a dead writer. *)
LEMMA ReportStep ==
    ASSUME TypeOK, Accounting, Phases, CleanDead, Contiguous, ReportHolds, [Next]_vars
    PROVE  ReportHolds'
<1>1. CASE WriteEvent
  BY <1>1 DEF TypeOK, Accounting, Clear, Clean, InHand, InWrite, Landed, Ended,
     Phases, CleanDead, Contiguous, ReportHolds, Exact, Snapshot, WriteEvent,
     counters, mainVars, writerVars, disk, Write
<1>2. CASE Close
  BY <1>2 DEF TypeOK, Accounting, Clear, Clean, InHand, InWrite, Landed, Ended,
     Phases, CleanDead, Contiguous, ReportHolds, Exact, Snapshot, Close, counters,
     mainVars, writerVars, disk, Write
<1>3. CASE CloseAgain
  BY <1>3 DEF TypeOK, Accounting, Clear, Clean, InHand, InWrite, Landed, Ended,
     Phases, CleanDead, Contiguous, ReportHolds, Exact, Snapshot, CloseAgain,
     counters, mainVars, writerVars, disk
<1>4. CASE SerializationFails
  BY <1>4 DEF TypeOK, Accounting, Clear, Clean, InHand, InWrite, Landed, Ended,
     Phases, CleanDead, Contiguous, ReportHolds, Exact, Snapshot,
     SerializationFails, counters, mainVars, writerVars, disk, Fail, AfterWrite
<1>5. CASE Enqueue
  BY <1>5 DEF TypeOK, Accounting, Clear, Clean, InHand, InWrite, Landed, Ended,
     Phases, CleanDead, Contiguous, ReportHolds, Exact, Snapshot, Enqueue, counters,
     mainVars, writerVars, disk, AfterWrite, Accepts
<1>6. CASE Drop
  BY <1>6 DEF TypeOK, Accounting, Clear, Clean, InHand, InWrite, Landed, Ended,
     Phases, CleanDead, Contiguous, ReportHolds, Exact, Snapshot, Drop, counters,
     mainVars, writerVars, disk, Fail, AfterWrite, Accepts
<1>7. CASE MarkClosed
  BY <1>7 DEF TypeOK, Accounting, Clear, Clean, InHand, InWrite, Landed, Ended,
     Phases, CleanDead, Contiguous, ReportHolds, Exact, Snapshot, MarkClosed,
     counters, mainVars, writerVars, disk
<1>8. CASE SetStop
  BY <1>8 DEF TypeOK, Accounting, Clear, Clean, InHand, InWrite, Landed, Ended,
     Phases, CleanDead, Contiguous, ReportHolds, Exact, Snapshot, SetStop, counters,
     mainVars, writerVars, disk
<1>9. CASE Join
  BY <1>9 DEF TypeOK, Accounting, Clear, Clean, InHand, InWrite, Landed, Ended,
     Phases, CleanDead, Contiguous, ReportHolds, Exact, Snapshot, Join, counters,
     mainVars, writerVars, disk
<1>10. CASE CheckAlive
  BY <1>10 DEF TypeOK, Accounting, Clear, Clean, InHand, InWrite, Landed, Ended,
     Phases, CleanDead, Contiguous, ReportHolds, Exact, Snapshot, CheckAlive,
     counters, mainVars, writerVars, disk, Fail
<1>11. CASE TakeStatus
  <2>1. UNCHANGED <<failures, queued, pid>> /\ main' = "verdict"
    BY <1>11 DEF TakeStatus, counters
  <2>2. /\ report'.process = pid
        /\ report'.attempted = sequence /\ report'.queued = queued
        /\ report'.persisted = persisted /\ report'.failed = failed
        /\ report'.dropped = dropped /\ report'.failures = failures
        /\ report'.pending = queued - (persisted + failed)
        /\ report'.valid => closed /\ queued = persisted + failed /\ failures = {}
    BY <1>11 DEF TakeStatus, Status
  <2>3. SUFFICES ASSUME report'.valid PROVE Clean /\ Exact(report', queued)
    BY <2>1, <2>2 DEF ReportHolds, Clean, Exact
  <2>4. Clean /\ closed BY <2>2, <2>3 DEF Clean
  <2>5. Clear /\ InWrite = 0
    BY <1>11, <2>4 DEF TakeStatus, CleanDead, Clear, Dead, InWrite
  <2>6. failed = 0 /\ dropped = 0 BY <2>5 DEF Contiguous
  <2>7. persisted = queued /\ sequence = queued
    BY <2>2, <2>3, <2>5, <2>6 DEF Accounting, TypeOK
  <2> QED BY <2>2, <2>4, <2>6, <2>7 DEF Exact, Clean, TypeOK
<1>12. CASE Verdict
  BY <1>12 DEF TypeOK, Accounting, Clear, Clean, InHand, InWrite, Landed, Ended,
     Phases, CleanDead, Contiguous, ReportHolds, Exact, Snapshot, Verdict, counters,
     mainVars, writerVars, disk
<1>13. CASE Publish
  BY <1>13 DEF TypeOK, Accounting, Clear, Clean, InHand, InWrite, Landed, Ended,
     Phases, CleanDead, Contiguous, ReportHolds, Exact, Snapshot, Publish, WriteCloseStatus, counters,
     mainVars, writerVars, disk
<1>14. CASE Get
  BY <1>14 DEF TypeOK, Accounting, Clear, Clean, InHand, InWrite, Landed, Ended,
     Phases, CleanDead, Contiguous, ReportHolds, Exact, Snapshot, Get, counters,
     mainVars, writerVars, disk
<1>15. CASE WriteRow
  BY <1>15 DEF TypeOK, Accounting, Clear, Clean, InHand, InWrite, Landed, Ended,
     Phases, CleanDead, Contiguous, ReportHolds, Exact, Snapshot, WriteRow,
     counters, mainVars, writerVars, disk
<1>16. CASE CountRow
  BY <1>16 DEF TypeOK, Accounting, Clear, Clean, InHand, InWrite, Landed, Ended,
     Phases, CleanDead, Contiguous, ReportHolds, Exact, Snapshot, CountRow,
     counters, mainVars, writerVars, disk
<1>17. CASE WriteFails
  BY <1>17 DEF TypeOK, Accounting, Clear, Clean, InHand, InWrite, Landed, Ended,
     Phases, CleanDead, Contiguous, ReportHolds, Exact, Snapshot, WriteFails,
     counters, mainVars, writerVars, disk
<1>18. CASE CountFailure
  BY <1>18 DEF Dead, TypeOK, Accounting, Clear, Clean, InHand, InWrite, Landed, Ended,
     Phases, CleanDead, Contiguous, ReportHolds, Exact, Snapshot, CountFailure,
     counters, mainVars, writerVars, disk, Fail
<1>19. CASE LeaveLoop
  BY <1>19 DEF TypeOK, Accounting, Clear, Clean, InHand, InWrite, Landed, Ended,
     Phases, CleanDead, Contiguous, ReportHolds, Exact, Snapshot, LeaveLoop,
     counters, mainVars, writerVars, disk
<1>20. CASE WriteSummary
  BY <1>20 DEF TypeOK, Accounting, Clear, Clean, InHand, InWrite, Landed, Ended,
     Phases, CleanDead, Contiguous, ReportHolds, Exact, Snapshot, WriteSummary,
     counters, mainVars, writerVars, disk
<1>21. CASE MarkSummary
  BY <1>21 DEF TypeOK, Accounting, Clear, Clean, InHand, InWrite, Landed, Ended,
     Phases, CleanDead, Contiguous, ReportHolds, Exact, Snapshot, MarkSummary,
     counters, mainVars, writerVars, disk
<1>22. CASE SummaryFails
  BY <1>22 DEF Dead, TypeOK, Accounting, Clear, Clean, InHand, InWrite, Landed, Ended,
     Phases, CleanDead, Contiguous, ReportHolds, Exact, Snapshot, SummaryFails,
     counters, mainVars, writerVars, disk, Fail
<1>23. CASE CloseStream
  BY <1>23 DEF Dead, TypeOK, Accounting, Clear, Clean, InHand, InWrite, Landed, Ended,
     Phases, CleanDead, Contiguous, ReportHolds, Exact, Snapshot, CloseStream,
     counters, mainVars, writerVars, disk, Fail
<1>24. CASE Restart
  BY <1>24 DEF TypeOK, Accounting, Clear, Clean, InHand, InWrite, Landed, Ended,
     Phases, CleanDead, Contiguous, ReportHolds, Exact, Snapshot, Restart, counters,
     mainVars, writerVars, disk, StartRecord
<1>25. CASE UNCHANGED vars
  BY <1>25 DEF TypeOK, Accounting, Clear, Clean, InHand, InWrite, Landed, Ended,
     Phases, CleanDead, Contiguous, ReportHolds, Exact, Snapshot, vars, counters,
     mainVars, writerVars, disk
<1> QED BY <1>1, <1>2, <1>3, <1>4, <1>5, <1>6, <1>7, <1>8, <1>9, <1>10, <1>11, <1>12, <1>13, <1>14, <1>15, <1>16, <1>17, <1>18, <1>19, <1>20, <1>21, <1>22, <1>23, <1>24, <1>25
    DEF Next, MainStep, WriterStep

(* The published status is never from a later process. *)
LEMMA PastStep ==
    ASSUME TypeOK, ReportHolds, StatusOfPast, [Next]_vars
    PROVE  StatusOfPast'
<1>1. CASE WriteEvent
  BY <1>1 DEF TypeOK, ReportHolds, StatusOfPast, WriteEvent, counters, mainVars,
     writerVars, disk, Write
<1>2. CASE Close
  BY <1>2 DEF TypeOK, ReportHolds, StatusOfPast, Close, counters, mainVars,
     writerVars, disk, Write
<1>3. CASE CloseAgain
  BY <1>3 DEF TypeOK, ReportHolds, StatusOfPast, CloseAgain, counters, mainVars,
     writerVars, disk
<1>4. CASE SerializationFails
  BY <1>4 DEF TypeOK, ReportHolds, StatusOfPast, SerializationFails, counters,
     mainVars, writerVars, disk, Fail, AfterWrite
<1>5. CASE Enqueue
  BY <1>5 DEF TypeOK, ReportHolds, StatusOfPast, Enqueue, counters, mainVars,
     writerVars, disk, AfterWrite, Accepts
<1>6. CASE Drop
  BY <1>6 DEF TypeOK, ReportHolds, StatusOfPast, Drop, counters, mainVars,
     writerVars, disk, Fail, AfterWrite, Accepts
<1>7. CASE MarkClosed
  BY <1>7 DEF TypeOK, ReportHolds, StatusOfPast, MarkClosed, counters, mainVars,
     writerVars, disk
<1>8. CASE SetStop
  BY <1>8 DEF TypeOK, ReportHolds, StatusOfPast, SetStop, counters, mainVars,
     writerVars, disk
<1>9. CASE Join
  BY <1>9 DEF TypeOK, ReportHolds, StatusOfPast, Join, counters, mainVars,
     writerVars, disk
<1>10. CASE CheckAlive
  BY <1>10 DEF TypeOK, ReportHolds, StatusOfPast, CheckAlive, counters, mainVars,
     writerVars, disk, Fail
<1>11. CASE TakeStatus
  BY <1>11 DEF TypeOK, ReportHolds, StatusOfPast, TakeStatus, counters, mainVars,
     writerVars, disk
<1>12. CASE Verdict
  BY <1>12 DEF TypeOK, ReportHolds, StatusOfPast, Verdict, counters, mainVars,
     writerVars, disk
<1>13. CASE Publish
  BY <1>13 DEF TypeOK, ReportHolds, StatusOfPast, Publish, WriteCloseStatus, counters, mainVars,
     writerVars, disk
<1>14. CASE Get
  BY <1>14 DEF TypeOK, ReportHolds, StatusOfPast, Get, counters, mainVars,
     writerVars, disk
<1>15. CASE WriteRow
  BY <1>15 DEF TypeOK, ReportHolds, StatusOfPast, WriteRow, counters, mainVars,
     writerVars, disk
<1>16. CASE CountRow
  BY <1>16 DEF TypeOK, ReportHolds, StatusOfPast, CountRow, counters, mainVars,
     writerVars, disk
<1>17. CASE WriteFails
  BY <1>17 DEF TypeOK, ReportHolds, StatusOfPast, WriteFails, counters, mainVars,
     writerVars, disk
<1>18. CASE CountFailure
  BY <1>18 DEF TypeOK, ReportHolds, StatusOfPast, CountFailure, counters, mainVars,
     writerVars, disk, Fail
<1>19. CASE LeaveLoop
  BY <1>19 DEF TypeOK, ReportHolds, StatusOfPast, LeaveLoop, counters, mainVars,
     writerVars, disk
<1>20. CASE WriteSummary
  BY <1>20 DEF TypeOK, ReportHolds, StatusOfPast, WriteSummary, counters, mainVars,
     writerVars, disk
<1>21. CASE MarkSummary
  BY <1>21 DEF TypeOK, ReportHolds, StatusOfPast, MarkSummary, counters, mainVars,
     writerVars, disk
<1>22. CASE SummaryFails
  BY <1>22 DEF TypeOK, ReportHolds, StatusOfPast, SummaryFails, counters, mainVars,
     writerVars, disk, Fail
<1>23. CASE CloseStream
  BY <1>23 DEF TypeOK, ReportHolds, StatusOfPast, CloseStream, counters, mainVars,
     writerVars, disk, Fail
<1>24. CASE Restart
  <2>1. status' = status /\ pid' = pid + 1 BY <1>24 DEF Restart
  <2>2. status # None => status.report.process \in Nat /\ pid \in Nat
    BY DEF TypeOK, Snapshot
  <2> QED BY <2>1, <2>2 DEF StatusOfPast
<1>25. CASE UNCHANGED vars
  BY <1>25 DEF TypeOK, ReportHolds, StatusOfPast, vars, counters, mainVars,
     writerVars, disk
<1> QED BY <1>1, <1>2, <1>3, <1>4, <1>5, <1>6, <1>7, <1>8, <1>9, <1>10, <1>11, <1>12, <1>13, <1>14, <1>15, <1>16, <1>17, <1>18, <1>19, <1>20, <1>21, <1>22, <1>23, <1>24, <1>25
    DEF Next, MainStep, WriterStep

(* Every step keeps a valid close status true of the disk. *)
LEMMA ValidStep ==
    ASSUME IInv, [Next]_vars
    PROVE  ValidCloseIsComplete'
<1>1. CASE UNCHANGED <<pid, writer, file, opened, status>>
  <2>1. ValidCloseIsComplete BY DEF IInv
  <2> QED BY <1>1, <2>1 DEF ValidCloseIsComplete, Exact, Dead, Parses, CutBefore
<1>2. CASE WriterStep
  <2>1. ~Dead
    BY <1>2 DEF WriterStep, Dead, Get, WriteRow, CountRow, WriteFails, CountFailure,
                LeaveLoop, WriteSummary, MarkSummary, SummaryFails, CloseStream
  <2>2. UNCHANGED <<pid, status>>
    BY <1>2 DEF WriterStep, Get, WriteRow, CountRow, WriteFails, CountFailure, LeaveLoop,
                WriteSummary, MarkSummary, SummaryFails, CloseStream, disk
  <2>3. ValidCloseIsComplete BY DEF IInv
  <2> QED BY <2>1, <2>2, <2>3 DEF ValidCloseIsComplete
<1>3. CASE Publish
  <2>1. /\ UNCHANGED <<pid, writer, file, opened, queued>>
        /\ status' = [report |-> report, drainTimeout |-> ~Dead]
        /\ main = "publish"
    BY <1>3 DEF Publish, WriteCloseStatus, counters, writerVars
  <2>2. SUFFICES ASSUME report.valid
                 PROVE  LET n == report.attempted
                        IN /\ Dead
                           /\ Len(file) = opened + n + 1
                           /\ \A i \in 1..n : /\ file[opened + i].process = pid
                                              /\ file[opened + i].kind # "torn"
                                              /\ file[opened + i].sequence = i
                           /\ \A i \in 1..(n + 1) :
                                 Parses(file, opened + i) <=> ~(i = 1 /\ CutBefore)
                           /\ file[opened + n].kind = "capture_close"
                           /\ file[opened + n + 1].kind = "writer_summary"
                           /\ file[opened + n + 1].summary.valid
                           /\ Exact(report, n)
                           /\ Exact(file[opened + n + 1].summary, n)
    BY <2>1 DEF ValidCloseIsComplete, Exact, Dead, Parses, CutBefore
  <2>3. Clean /\ Exact(report, queued) BY <2>1, <2>2 DEF IInv, ReportHolds
  <2>4. report.attempted = queued BY <2>3 DEF Exact
  <2>5. closed /\ Dead BY <2>1, <2>3 DEF IInv, Phases, CleanDead
  <2>6. /\ Clear /\ InHand = 0 /\ Landed = persisted /\ Ended = 1
        /\ queue = <<>> /\ Len(queue) = 0
    BY <2>3, <2>5 DEF IInv, Phases, TypeOK, Dead, Clear, InHand, Landed, Ended
  <2>7. persisted = queued
    <3>1. failed = 0 BY <2>6 DEF IInv, Contiguous
    <3> QED BY <2>6, <3>1 DEF IInv, Accounting, TypeOK
  <2>8. /\ Len(file) = opened + queued + 1
        /\ \A i \in 1..queued : /\ file[opened + i].process = pid
                                /\ file[opened + i].kind # "torn"
                                /\ file[opened + i].ended
                                /\ file[opened + i].sequence = i
    BY <2>6, <2>7 DEF IInv, Contiguous
  <2>9. file[opened + queued].kind = "capture_close"
    BY <2>5, <2>6, <2>7 DEF IInv, LastIsClose
  <2>10. /\ file[opened + queued + 1].kind = "writer_summary"
         /\ file[opened + queued + 1].summary = footer
         /\ file[opened + queued + 1].ended
         /\ footer.valid /\ Exact(footer, queued)
    BY <2>3, <2>5, <2>6 DEF IInv, FooterHolds, Dead
  <2>11. ASSUME NEW i \in 1..(queued + 1)
         PROVE  Parses(file, opened + i) <=> ~(i = 1 /\ CutBefore)
    <3>1. queued \in Nat /\ opened \in Nat BY DEF IInv, TypeOK
    <3>2. file[opened + i].kind # "torn" /\ file[opened + i].ended
      <4>1. CASE i \in 1..queued BY <2>8, <4>1
      <4>2. CASE i = queued + 1
        <5>1. opened + i = opened + queued + 1 BY <3>1, <4>2
        <5> QED BY <2>10, <5>1
      <4> QED BY <3>1, <4>1, <4>2
    <3>3. CASE i = 1
      <4>1. (opened + i) - 1 = opened /\ (opened + i > 1 <=> opened > 0) BY <3>1, <3>3
      <4>2. Parses(file, opened + i) <=> (opened + i > 1 => file[(opened + i) - 1].ended)
        BY ONLY <3>2 DEF Parses
      <4>3. Parses(file, opened + i) <=> (opened > 0 => file[opened].ended)
        BY <4>1, <4>2
      <4> QED BY <3>3, <4>3, Zenon DEF CutBefore
    <3>4. CASE i # 1
      <4>1. i - 1 \in 1..queued /\ (opened + i) - 1 = opened + (i - 1) BY <3>1, <3>4
      <4>2. file[(opened + i) - 1].ended BY <2>8, <4>1
      <4>3. Parses(file, opened + i) BY ONLY <3>2, <4>2 DEF Parses
      <4> QED BY <3>4, <4>3
    <3> QED BY <3>3, <3>4
  <2> QED BY <2>3, <2>4, <2>5, <2>8, <2>9, <2>10, <2>11
<1>4. CASE Restart
  <2>1. status' = status /\ pid' = pid + 1 BY <1>4 DEF Restart
  <2>2. status # None => status.report.process \in Nat /\ pid \in Nat
    BY DEF IInv, TypeOK, Snapshot
  <2>3. status # None => status.report.process # pid + 1
    BY <2>2 DEF IInv, StatusOfPast
  <2> QED BY <2>1, <2>3 DEF ValidCloseIsComplete
<1>5. CASE WriteEvent \/ Close \/ CloseAgain \/ UNCHANGED vars
  BY <1>1, <1>5
     DEF WriteEvent, Close, Write, CloseAgain, vars, writerVars, disk
<1>6. CASE MainStep
  BY <1>1, <1>3, <1>6
     DEF MainStep, SerializationFails, Enqueue, Drop, MarkClosed, SetStop, Join,
         CheckAlive, TakeStatus, Verdict, writerVars, disk
<1> QED BY <1>2, <1>4, <1>5, <1>6 DEF Next

---------------------------------------------------------------------------
(* The inductive invariant holds when the first worker has opened its capture. *)
LEMMA InitIInv == Init => IInv
<1> SUFFICES ASSUME Init PROVE IInv OBVIOUS
<1> USE CaptureConstants
<1>1. TypeOK
  <2>1. StartRecord \in Record BY DEF StartRecord, Record, Kinds
  <2>2. queue \in Seq(Record) /\ file \in Seq(Row) /\ opened \in 0..Len(file)
    BY DEF Init
  <2>3. pid \in 1..MaxProcesses /\ sequence \in 1..MaxRecords BY DEF Init
  <2>4. /\ queued = 0 /\ persisted = 0 /\ failed = 0 /\ dropped = 0 /\ failures = {}
        /\ closed = FALSE /\ stop = FALSE /\ summaryWritten = FALSE
        /\ main = "enqueue" /\ record = StartRecord /\ report = None
        /\ writer = "loop" /\ hand = None /\ footer = None /\ status = None
    BY DEF Init
  <2> HIDE DEF Init
  <2> QED BY <2>1, <2>2, <2>3, <2>4 DEF TypeOK
<1>2. Accounting BY DEF Init, Accounting, InHand, InWrite
<1>3. Phases /\ CleanDead BY DEF Init, Phases, CleanDead, StartRecord
<1>4. Contiguous /\ LastIsClose /\ Copied
  BY DEF Init, Contiguous, LastIsClose, Copied, InHand, Landed, Ended
<1>5. FooterHolds /\ ReportHolds /\ StatusOfPast /\ ValidCloseIsComplete
  BY DEF Init, FooterHolds, ReportHolds, StatusOfPast, ValidCloseIsComplete
<1> QED BY <1>1, <1>2, <1>3, <1>4, <1>5 DEF IInv

(* Every step of the capture, of the writer thread and of the validator preserves it. *)
LEMMA NextIInv == IInv /\ [Next]_vars => IInv'
BY TypeStep, AccountingStep, PhasesStep, CleanDeadStep, ContiguousStep, CopiedStep,
   LastIsCloseStep, FooterStep, ReportStep, PastStep, ValidStep DEF IInv

(***************************************************************************)
(* In every behaviour of the capture the inductive invariant holds.        *)
(***************************************************************************)
THEOREM Inductive == Spec => []IInv
BY InitIInv, NextIInv, PTL DEF Spec

(***************************************************************************)
(* In every behaviour of the capture, for every capacity and bound, the    *)
(* variables keep their types.                                             *)
(***************************************************************************)
THEOREM TypeCorrect == Spec => []TypeOK
<1>1. IInv => TypeOK BY DEF IInv
<1> QED BY <1>1, Inductive, PTL

(***************************************************************************)
(* No interleaving of write(), the writer thread, close() and kills loses  *)
(* count of a record, and the queue stays within its capacity.             *)
(***************************************************************************)
THEOREM AccountingHolds == Spec => []Accounting
<1>1. IInv => Accounting BY DEF IInv
<1> QED BY <1>1, Inductive, PTL

(***************************************************************************)
(* The valid_capture that close() publishes is always the truth about the  *)
(* rows this process wrote, whatever processes were killed before it and   *)
(* wherever; the first of these rows is a line of the file exactly when    *)
(* the last append before the process was not cut short.                   *)
(***************************************************************************)
THEOREM ValidCloseHolds == Spec => []ValidCloseIsComplete
<1>1. IInv => ValidCloseIsComplete BY DEF IInv
<1> QED BY <1>1, Inductive, PTL

---------------------------------------------------------------------------
(***************************************************************************)
(* The validator.  What it reads but close() does not look at: whose rows  *)
(* these are, that the first is capture_start, and that nothing follows    *)
(* the footer.                                                             *)
(***************************************************************************)
RowsByProcess ==
    \A i \in DOMAIN file : /\ i =< opened => file[i].process < pid
                           /\ i > opened => file[i].process = pid

StartIsFirst ==
    /\ record.sequence = 1 => record.kind = "capture_start"
    /\ \A i \in DOMAIN queue : queue[i].sequence = 1 => queue[i].kind = "capture_start"
    /\ (InHand = 1 /\ hand.sequence = 1) => hand.kind = "capture_start"
    /\ \A i \in DOMAIN file :
          (i > opened /\ file[i].kind \in Kinds /\ file[i].sequence = 1)
              => file[i].kind = "capture_start"

FooterIsLast ==
    \A i \in DOMAIN file :
        (i > opened /\ IsFooter(file[i])) =>
            i = Len(file) /\ writer \in {"summary_written", "close", "dead"}

Spoken(r) == r.attempted > 0 /\ (r.valid => r.summaryWritten)

ReportsSpeak ==
    /\ main \in {"verdict", "publish"} => Spoken(report)
    /\ status # None => Spoken(status.report)

FileInv == RowsByProcess /\ StartIsFirst /\ FooterIsLast /\ ReportsSpeak

(* The file has one more row. *)
Longer(row) ==
    /\ Len(file') = Len(file) + 1 /\ DOMAIN file' = 1..(Len(file) + 1)
    /\ \A i \in 1..Len(file) : file'[i] = file[i]
    /\ file'[Len(file) + 1] = row

(* The rows of a sequence are numbered from one. *)
LEMMA FileDomain ==
    ASSUME TypeOK
    PROVE  Len(file) \in Nat /\ DOMAIN file = 1..Len(file) /\ opened \in 0..Len(file)
BY DEF TypeOK

(* An append adds one piece, and so does one that is cut short, if any. *)
LEMMA AppendIsLonger ==
    ASSUME TypeOK, NEW row \in Row
    PROVE  /\ file' = Append(file, row) => Longer(row)
           /\ \A rows \in Leftover(row) :
                 file' = file \o rows => file' = file \/ Longer(row) \/ Longer(TornRow)
           /\ \A rows \in CutShort(row) :
                 file' = file \o rows => \/ file' = file \/ Longer(row) \/ Longer(TornRow)
                                         \/ Longer(Unended(row))
<1>1. file \in Seq(Row) /\ TornRow \in Row /\ Unended(row) \in Row
  BY DEF TypeOK, TornRow, Unended, Row
<1>2. ASSUME NEW r \in Row, file' = Append(file, r) PROVE Longer(r)
  BY <1>1, <1>2 DEF Longer
<1>3. ASSUME NEW r \in Row, file' = file \o <<r>> PROVE Longer(r)
  BY <1>1, <1>3 DEF Longer
<1>4. ASSUME NEW rows \in Leftover(row), file' = file \o rows
      PROVE  file' = file \/ Longer(row) \/ Longer(TornRow)
  <2>1. CASE rows = <<>> BY <1>1, <1>4, <2>1
  <2>2. CASE rows = <<TornRow>> BY <1>1, <1>3, <1>4, <2>2
  <2>3. CASE rows = <<row>> BY <1>3, <1>4, <2>3
  <2> QED BY <2>1, <2>2, <2>3 DEF Leftover
<1>5. file' = file \o <<Unended(row)>> => Longer(Unended(row))
  BY <1>1, <1>3
<1> QED BY <1>2, <1>4, <1>5 DEF CutShort

(* Where rows come from: the record in hand, the footer, or a torn append. *)
Event == writer = "write" /\ writer' \in {"count", "count_failure"} /\ Longer(EventRow(hand))
Footer == writer = "summary" /\ writer' \in {"summary_written", "close"} /\ Longer(FooterRow(footer))
Torn == /\ writer = "write" => writer' = "count_failure"
        /\ writer = "summary" => writer' = "close"
        /\ writer \in {"write", "summary"} /\ Longer(TornRow)

(* A step of a living process leaves the file alone or appends one row. *)
LEMMA OneRow ==
    ASSUME TypeOK, [Next]_vars, ~Restart
    PROVE  UNCHANGED <<pid, opened>> /\ (file' = file \/ Event \/ Footer \/ Torn)
<1>1. CASE WriteEvent \/ Close \/ CloseAgain \/ UNCHANGED vars
  BY <1>1 DEF WriteEvent, Close, Write, CloseAgain, vars, disk
<1>2. CASE MainStep
  BY <1>2 DEF MainStep, SerializationFails, Enqueue, Drop, MarkClosed, SetStop, Join,
              CheckAlive, TakeStatus, Verdict, Publish, WriteCloseStatus, disk
<1>3. CASE Get \/ CountRow \/ CountFailure \/ LeaveLoop \/ MarkSummary \/ CloseStream
  BY <1>3 DEF Get, CountRow, CountFailure, LeaveLoop, MarkSummary, CloseStream, disk
<1>4. CASE WriteRow \/ WriteFails
  <2>1. /\ writer = "write" /\ UNCHANGED <<pid, opened>>
        /\ \/ writer' = "count" /\ file' = Append(file, EventRow(hand))
           \/ writer' = "count_failure"
              /\ \E rows \in Leftover(EventRow(hand)) : file' = file \o rows
    BY <1>4 DEF WriteRow, WriteFails
  <2>2. EventRow(hand) \in Row BY <2>1, EventRowType DEF TypeOK
  <2> QED BY <2>1, <2>2, AppendIsLonger DEF Event, Torn
<1>5. CASE WriteSummary \/ SummaryFails
  <2>1. /\ writer = "summary" /\ UNCHANGED <<pid, opened>>
        /\ \/ writer' = "summary_written" /\ file' = Append(file, FooterRow(footer))
           \/ writer' = "close"
              /\ \E rows \in Leftover(FooterRow(footer)) : file' = file \o rows
    BY <1>5 DEF WriteSummary, SummaryFails
  <2>2. FooterRow(footer) \in Row BY <2>1, FooterRowType DEF TypeOK
  <2> QED BY <2>1, <2>2, AppendIsLonger DEF Footer, Torn
<1> QED BY <1>1, <1>2, <1>3, <1>4, <1>5 DEF Next, WriterStep

(* A kill leaves the file alone or appends one row of the process killed. *)
LEMMA RestartRow ==
    ASSUME TypeOK, Restart
    PROVE  /\ pid' = pid + 1 /\ opened' = Len(file') /\ DOMAIN file' = 1..Len(file')
           /\ file' = file \/ \E row : row.process = pid /\ Longer(row)
<1>1. PICK rows \in Interrupted : file' = file \o rows
  BY DEF Restart
<1>2. file' = file \/ \E row : row.process = pid /\ Longer(row)
  <2>1. CASE writer = "write"
    <3>1. EventRow(hand) \in Row /\ rows \in CutShort(EventRow(hand))
      BY <1>1, <2>1, EventRowType DEF TypeOK, Interrupted
    <3>2. file' = file \/ Longer(EventRow(hand)) \/ Longer(TornRow) \/ Longer(Unended(EventRow(hand)))
      BY <1>1, <3>1, AppendIsLonger
    <3>3. EventRow(hand).process = pid /\ TornRow.process = pid /\ Unended(EventRow(hand)).process = pid
      BY DEF EventRow, TornRow, Unended
    <3> QED BY <3>2, <3>3
  <2>2. CASE writer = "summary"
    <3>1. FooterRow(footer) \in Row /\ rows \in CutShort(FooterRow(footer))
      BY <1>1, <2>2, FooterRowType DEF TypeOK, Interrupted
    <3>2. file' = file \/ Longer(FooterRow(footer)) \/ Longer(TornRow) \/ Longer(Unended(FooterRow(footer)))
      BY <1>1, <3>1, AppendIsLonger
    <3>3. FooterRow(footer).process = pid /\ TornRow.process = pid /\ Unended(FooterRow(footer)).process = pid
      BY DEF FooterRow, TornRow, Unended
    <3> QED BY <3>2, <3>3
  <2>3. CASE writer \notin {"write", "summary"}
    <3>1. rows = <<>> BY <1>1, <2>3 DEF Interrupted
    <3> QED BY <1>1, <3>1 DEF TypeOK
  <2> QED BY <2>1, <2>2, <2>3
<1>3. pid' = pid + 1 /\ opened' = Len(file')
  BY DEF Restart
<1>4. DOMAIN file' = 1..Len(file')
  BY <1>2, FileDomain DEF Longer
<1> QED BY <1>2, <1>3, <1>4

(* Rows stay with the process that wrote them. *)
LEMMA RowsStep ==
    ASSUME TypeOK, RowsByProcess, [Next]_vars
    PROVE  RowsByProcess'
<1>1. CASE Restart
  <2>1. pid \in Nat /\ \A i \in DOMAIN file : file[i].process < pid + 1
    <3>1. \A i \in DOMAIN file : file[i].process < pid \/ file[i].process = pid
      BY FileDomain DEF RowsByProcess
    <3>2. \A i \in DOMAIN file : file[i].process \in Nat
      <4>1. \A i \in DOMAIN file : file[i] \in Row BY DEF TypeOK
      <4>2. \A r \in Row : r.process \in 1..MaxProcesses BY DEF Row
      <4>3. 1..MaxProcesses \subseteq Nat BY CaptureConstants
      <4> QED BY <4>1, <4>2, <4>3
    <3>3. pid \in Nat BY DEF TypeOK
    <3> QED BY <3>1, <3>2, <3>3
  <2>2. \A i \in DOMAIN file' : file'[i].process < pid + 1
    <3>1. CASE file' = file BY <2>1, <3>1
    <3>2. CASE \E row : row.process = pid /\ Longer(row)
      BY <2>1, <3>2, FileDomain DEF Longer
    <3> QED BY <1>1, <3>1, <3>2, RestartRow
  <2>3. \A i \in DOMAIN file' : i =< opened' /\ ~(i > opened')
    BY <1>1, RestartRow, FileDomain DEF Longer
  <2> QED BY <1>1, <2>2, <2>3, RestartRow DEF RowsByProcess
<1>2. CASE ~Restart
  <2>1. UNCHANGED <<pid, opened>> BY <1>2, OneRow
  <2>2. CASE file' = file BY <2>1, <2>2 DEF RowsByProcess
  <2>3. ASSUME NEW row, row.process = pid, Longer(row) PROVE RowsByProcess'
    BY <2>1, <2>3, FileDomain DEF RowsByProcess, Longer
  <2>4. /\ EventRow(hand).process = pid /\ FooterRow(footer).process = pid
        /\ TornRow.process = pid
    BY DEF EventRow, FooterRow, TornRow
  <2> QED BY <1>2, <2>2, <2>3, <2>4, OneRow DEF Event, Footer, Torn
<1> QED BY <1>1, <1>2

(* Nothing is written after a footer. *)
LEMMA FooterLastStep ==
    ASSUME TypeOK, FooterIsLast, [Next]_vars
    PROVE  FooterIsLast'
<1>1. CASE Restart
  BY <1>1, RestartRow, FileDomain DEF FooterIsLast, Longer
<1>2. CASE ~Restart /\ file' = file
  <2>1. UNCHANGED <<pid, opened>> BY <1>2, OneRow
  <2>2. writer \in {"summary_written", "close", "dead"} =>
           writer' \in {"summary_written", "close", "dead"}
    BY <1>2 DEF Next, WriteEvent, Close, Write, CloseAgain, MainStep, SerializationFails,
       Enqueue, Drop, MarkClosed, SetStop, Join, CheckAlive, TakeStatus, Verdict, Publish, WriteCloseStatus,
       WriterStep, Get, WriteRow, CountRow, WriteFails, CountFailure, LeaveLoop, WriteSummary,
       MarkSummary, SummaryFails, CloseStream, writerVars, vars
  <2> QED BY <1>2, <2>1, <2>2 DEF FooterIsLast
<1>3. CASE ~Restart /\ (Event \/ Footer \/ Torn)
  <2>1. UNCHANGED <<pid, opened>> BY <1>3, OneRow
  <2>2. \A i \in DOMAIN file : i > opened => ~IsFooter(file[i])
    BY <1>3 DEF FooterIsLast, Event, Footer, Torn
  <2>3. ~IsFooter(TornRow)
    BY DEF IsFooter, TornRow
  <2>4. writer = "write" => ~IsFooter(EventRow(hand))
    BY DEF TypeOK, IsFooter, EventRow, Record, Kinds
  <2>5. PICK row : /\ Longer(row)
                   /\ IsFooter(row) => writer' \in {"summary_written", "close"}
    BY <1>3, <2>3, <2>4 DEF Event, Footer, Torn
  <2> QED BY <2>1, <2>2, <2>5, FileDomain DEF FooterIsLast, Longer
<1> QED BY <1>1, <1>2, <1>3, OneRow

(* The record numbered one is capture_start wherever it is. *)
LEMMA StartStep ==
    ASSUME TypeOK, StartIsFirst, Phases, [Next]_vars
    PROVE  StartIsFirst'
<1>1. record'.sequence = 1 => record'.kind = "capture_start"
  <2>1. CASE Write("event") \/ Write("capture_close")
    BY <2>1 DEF Write, TypeOK
  <2>2. CASE Restart
    BY <2>2 DEF Restart, StartRecord
  <2>3. CASE UNCHANGED record
    BY <2>3 DEF StartIsFirst
  <2>4. Write("event") \/ Write("capture_close") \/ Restart \/ UNCHANGED record
    BY DEF Next, WriteEvent, Close, CloseAgain, MainStep, SerializationFails,
       Enqueue, Drop, MarkClosed, SetStop, Join, CheckAlive, TakeStatus, Verdict, Publish, WriteCloseStatus,
       WriterStep, Get, WriteRow, CountRow, WriteFails, CountFailure, LeaveLoop, WriteSummary,
       MarkSummary, SummaryFails, CloseStream, mainVars, vars
  <2> QED BY <2>1, <2>2, <2>3, <2>4
<1>2. \A i \in DOMAIN queue' : queue'[i].sequence = 1 => queue'[i].kind = "capture_start"
  <2>1. CASE Enqueue
    <3>1. queue' = Append(queue, record) /\ queue \in Seq(Record) /\ record \in Record
      BY <2>1 DEF Enqueue, TypeOK
    <3>2. \A i \in DOMAIN queue' : queue'[i] = record \/ (i \in DOMAIN queue /\ queue'[i] = queue[i])
      BY <3>1
    <3> QED BY <3>2 DEF StartIsFirst
  <2>2. CASE Get
    <3>1. queue' = Tail(queue) /\ queue \in Seq(Record) /\ queue # <<>>
      BY <2>2 DEF Get, TypeOK
    <3>2. \A i \in DOMAIN queue' : i + 1 \in DOMAIN queue /\ queue'[i] = queue[i + 1]
      BY <3>1
    <3> QED BY <3>2 DEF StartIsFirst
  <2>3. CASE Restart
    BY <2>3 DEF Restart
  <2>4. CASE UNCHANGED queue
    BY <2>4 DEF StartIsFirst
  <2>5. Enqueue \/ Get \/ Restart \/ UNCHANGED queue
    BY DEF Next, WriteEvent, Close, Write, CloseAgain, MainStep, SerializationFails,
       Drop, MarkClosed, SetStop, Join, CheckAlive, TakeStatus, Verdict, Publish, WriteCloseStatus,
       WriterStep, WriteRow, CountRow, WriteFails, CountFailure, LeaveLoop, WriteSummary,
       MarkSummary, SummaryFails, CloseStream, vars
  <2> QED BY <2>1, <2>2, <2>3, <2>4, <2>5
<1>3. (InHand' = 1 /\ hand'.sequence = 1) => hand'.kind = "capture_start"
  <2>1. CASE Get
    <3>1. hand' = queue[1] /\ 1 \in DOMAIN queue
      BY <2>1 DEF Get, TypeOK
    <3> QED BY <3>1 DEF StartIsFirst
  <2>2. CASE InHand' = 0
    BY <2>2
  <2>3. CASE UNCHANGED hand /\ InHand' = InHand
    BY <2>3 DEF StartIsFirst
  <2>4. Get \/ InHand' = 0 \/ (UNCHANGED hand /\ InHand' = InHand)
    BY DEF InHand, Next, WriteEvent, Close, Write, CloseAgain, MainStep, SerializationFails,
       Enqueue, Drop, MarkClosed, SetStop, Join, CheckAlive, TakeStatus, Verdict, Publish, WriteCloseStatus,
       WriterStep, WriteRow, CountRow, WriteFails, CountFailure, LeaveLoop, WriteSummary,
       MarkSummary, SummaryFails, CloseStream, Restart, writerVars, vars
  <2> QED BY <2>1, <2>2, <2>3, <2>4
<1>4. \A i \in DOMAIN file' :
         (i > opened' /\ file'[i].kind \in Kinds /\ file'[i].sequence = 1)
             => file'[i].kind = "capture_start"
  <2>1. CASE Restart
    BY <2>1, RestartRow
  <2>2. CASE ~Restart /\ file' = file
    BY <2>2, OneRow DEF StartIsFirst
  <2>3. CASE ~Restart /\ Event
    <3>1. EventRow(hand).sequence = 1 => EventRow(hand).kind = "capture_start"
      BY <2>3 DEF Event, EventRow, StartIsFirst, InHand
    <3> QED BY <2>3, <3>1, OneRow, FileDomain DEF Event, Longer, StartIsFirst
  <2>4. CASE ~Restart /\ (Footer \/ Torn)
    <3>1. FooterRow(footer).kind \notin Kinds /\ TornRow.kind \notin Kinds
      BY DEF FooterRow, TornRow, Kinds
    <3> QED BY <2>4, <3>1, OneRow, FileDomain DEF Footer, Torn, Longer, StartIsFirst
  <2> QED BY <2>1, <2>2, <2>3, <2>4, OneRow
<1> QED BY <1>1, <1>2, <1>3, <1>4 DEF StartIsFirst

(* A report counts at least capture_start, and is valid only with a footer. *)
LEMMA SpeakStep ==
    ASSUME TypeOK, ReportsSpeak, [Next]_vars
    PROVE  ReportsSpeak'
<1>1. CASE TakeStatus
  <2>1. /\ report'.attempted = sequence /\ report'.summaryWritten = summaryWritten
        /\ report'.valid => summaryWritten
    BY <1>1 DEF TakeStatus, Status
  <2> QED BY <1>1, <2>1 DEF TakeStatus, disk, ReportsSpeak, Spoken, TypeOK
<1>2. CASE Verdict
  <2>1. main = "verdict" /\ report \in Snapshot /\ report' = [report EXCEPT !.valid = @ /\ Dead]
        /\ status' = status
    BY <1>2 DEF Verdict, TypeOK, disk
  <2>2. /\ report'.attempted = report.attempted
        /\ report'.summaryWritten = report.summaryWritten
        /\ report'.valid => report.valid
    BY <2>1 DEF Snapshot
  <2> QED BY <2>1, <2>2 DEF ReportsSpeak, Spoken
<1>3. CASE Publish
  BY <1>3 DEF Publish, WriteCloseStatus, ReportsSpeak, Spoken
<1>4. CASE Restart
  BY <1>4 DEF Restart, ReportsSpeak, Spoken
<1>5. CASE UNCHANGED <<report, status>> /\ main' \notin {"verdict", "publish"}
  BY <1>5 DEF ReportsSpeak, Spoken
<1>6. CASE UNCHANGED <<report, status, main>>
  BY <1>6 DEF ReportsSpeak, Spoken
<1>7. CASE WriteEvent \/ Close \/ CloseAgain \/ MainStep
  BY <1>1, <1>2, <1>3, <1>5, <1>7 DEF WriteEvent, Close, Write, CloseAgain, MainStep,
     SerializationFails, Enqueue, Drop, AfterWrite, MarkClosed, SetStop, Join, CheckAlive, disk
<1>8. CASE WriterStep \/ UNCHANGED vars
  BY <1>6, <1>8 DEF WriterStep, Get, WriteRow, CountRow, WriteFails, CountFailure, LeaveLoop,
     WriteSummary, MarkSummary, SummaryFails, CloseStream, mainVars, disk, vars
<1> QED BY <1>4, <1>7, <1>8 DEF Next

(* What the validator relies on holds in every behaviour. *)
LEMMA FileInvHolds == Spec => []FileInv
<1>1. Init => FileInv
  BY DEF Init, FileInv, RowsByProcess, StartIsFirst, StartRecord, FooterIsLast, ReportsSpeak,
         InHand
<1>2. IInv /\ FileInv /\ [Next]_vars => FileInv'
  BY RowsStep, StartStep, FooterLastStep, SpeakStep DEF IInv, FileInv
<1> QED BY <1>1, <1>2, Inductive, PTL DEF Spec

(***************************************************************************)
(* The validator and close() never disagree about a capture whose file     *)
(* was new: what close() declares valid passes, and nothing else does.     *)
(***************************************************************************)
THEOREM ValidatorAgrees == Spec => []ValidatorAgreesWithClose
<1>1. IInv /\ FileInv => ValidatorAgreesWithClose
  <2> SUFFICES ASSUME IInv, FileInv, status # None, status.report.process = pid
               PROVE  Validate(file, status) <=> (status.report.valid /\ opened = 0)
    BY DEF ValidatorAgreesWithClose
  <2>0. Len(file) \in Nat /\ DOMAIN file = 1..Len(file) /\ opened \in 0..Len(file)
        /\ pid \in Nat
    BY FileDomain DEF IInv, TypeOK
  <2>1. ASSUME Validate(file, status) PROVE status.report.valid /\ opened = 0
    <3>1. status.report.valid /\ \A i \in DOMAIN file : file[i].process = pid
      BY <2>1 DEF Validate
    <3>2. opened > 0 => file[1].process < pid
      BY <2>0 DEF FileInv, RowsByProcess
    <3> QED BY <2>0, <3>1, <3>2
  <2>2. ASSUME status.report.valid, opened = 0 PROVE Validate(file, status)
    <3>1. PICK n : n = status.report.attempted
      OBVIOUS
    <3>2. /\ ~status.drainTimeout
          /\ Len(file) = n + 1
          /\ \A i \in 1..n : /\ file[i].process = pid
                             /\ file[i].kind # "torn"
                             /\ file[i].sequence = i
          /\ \A i \in 1..(n + 1) : Parses(file, i)
          /\ file[n].kind = "capture_close"
          /\ file[n + 1].kind = "writer_summary"
          /\ file[n + 1].summary.valid
          /\ Exact(status.report, n)
          /\ Exact(file[n + 1].summary, n)
      <4>1. ValidCloseIsComplete /\ n \in Nat
        BY <3>1 DEF IInv, TypeOK, Snapshot
      <4>2. ~CutBefore BY <2>2 DEF CutBefore
      <4> QED BY <2>0, <2>2, <3>1, <4>1, <4>2 DEF ValidCloseIsComplete
    <3>3. n \in Nat /\ n > 0 /\ status.report.summaryWritten
      BY <2>2, <3>1 DEF IInv, TypeOK, Snapshot, FileInv, ReportsSpeak, Spoken
    <3>4. \A i \in DOMAIN file : file[i].process = pid
      BY <2>0, <2>2 DEF FileInv, RowsByProcess
    <3>5. Footers(file) = {Len(file)}
      <4>1. IsFooter(file[n + 1]) /\ n + 1 \in DOMAIN file
        BY <2>0, <3>2, <3>3 DEF IsFooter
      <4>2. \A i \in DOMAIN file : IsFooter(file[i]) => i = Len(file)
        BY <2>0, <2>2 DEF FileInv, FooterIsLast
      <4> QED BY <3>2, <4>1, <4>2 DEF Footers
    <3>6. file[1].kind = "capture_start"
      <4>1. 1 \in DOMAIN file /\ 1 # Len(file) /\ 1 \in 1..n
        BY <2>0, <3>2, <3>3
      <4>2. file[1] \in Row /\ file[1].kind # "torn" /\ ~IsFooter(file[1]) /\ file[1].sequence = 1
        BY <2>2, <2>0, <3>2, <4>1 DEF FileInv, FooterIsLast, IInv, TypeOK
      <4>3. file[1].kind \in Kinds
        BY <4>2 DEF Row, IsFooter
      <4> QED BY <2>2, <4>1, <4>2, <4>3 DEF FileInv, StartIsFirst
    <3>7. \A i \in DOMAIN file : Parses(file, i)
      BY <2>0, <3>2, <3>3
    <3>8. n = Len(file) - 1 /\ n + 1 = Len(file)
      BY <3>2, <3>3
    <3> QED BY <2>2, <3>2, <3>3, <3>4, <3>5, <3>6, <3>7, <3>8 DEF Validate
  <2> QED BY <2>1, <2>2
<1> QED BY <1>1, Inductive, FileInvHolds, PTL

(***************************************************************************)
(* A close status that an earlier process left is never accepted for a     *)
(* file to which a later one has appended.                                 *)
(***************************************************************************)
THEOREM StaleIsRejected == Spec => []StaleStatusRejected
<1>1. IInv /\ FileInv => StaleStatusRejected
  <2> SUFFICES ASSUME IInv, FileInv, status # None, status.report.process < pid,
                      Len(file) > opened
               PROVE  ~Validate(file, status)
    BY DEF StaleStatusRejected
  <2>1. Len(file) \in DOMAIN file /\ Len(file) > opened
    BY FileDomain DEF IInv
  <2>2. file[Len(file)].process = pid
    BY <2>1 DEF FileInv, RowsByProcess
  <2>3. status.report.process # pid
    BY DEF IInv, TypeOK, Snapshot
  <2> QED BY <2>1, <2>2, <2>3 DEF Validate
<1> QED BY <1>1, Inductive, FileInvHolds, PTL
=============================================================================
