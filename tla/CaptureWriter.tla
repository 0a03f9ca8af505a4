--------------------------- MODULE CaptureWriter ---------------------------
(***************************************************************************)
(* The worker capture of capture_worker.py and the validator that decides  *)
(* whether its output may be measured.                                     *)
(*                                                                         *)
(* The engine's event loop (the main thread) hands records to a bounded    *)
(* queue; a daemon thread writes them to an append-only file, then a       *)
(* footer that repeats the accounting.  When the engine ends, the same     *)
(* main thread closes the capture, waits for the writer for a bounded      *)
(* time, and publishes the authoritative close status in a second file.    *)
(* The process may be killed at any point and started again on the same    *)
(* two files.                                                              *)
(***************************************************************************)
EXTENDS Naturals, Sequences, FiniteSets

CONSTANTS
    QueueCapacity,  \* queue_capacity of Capture.__init__
    MaxRecords,     \* bound: write() calls of one process
    MaxProcesses    \* bound: processes started on the same files

ASSUME CaptureConstants ==
    /\ QueueCapacity \in Nat \ {0}
    /\ MaxRecords \in Nat \ {0}
    /\ MaxProcesses \in Nat \ {0}

VARIABLES
    pid,        \* capture_process_id of the running process
    sequence, queued, persisted, failed, dropped,  \* the five counters
    failures,   \* the failure list, as a set of [sequence, stage]
    queue,      \* queue.Queue of serialized records
    closed, stop, summaryWritten,
    main,       \* where the main thread is
    record,     \* the record write() is handing over
    report,     \* the status close() is assembling
    writer,     \* where the writer thread is
    hand,       \* the record the writer took from the queue
    footer,     \* the summary the writer is about to write
    file,       \* what was appended to the events file, one piece per append
    opened,     \* number of pieces in the file when this process opened it
    status      \* the content of <events>.close.json

counters == <<sequence, queued, persisted, failed, dropped>>
mainVars == <<main, record, report>>
writerVars == <<writer, hand, footer, summaryWritten>>
disk == <<file, opened, status>>
vars == <<pid, counters, failures, queue, closed, stop, mainVars, writerVars, disk>>

None == [none |-> TRUE]
Kinds == {"capture_start", "event", "capture_close"}
Record == [sequence : 1..MaxRecords, kind : Kinds]
Stages == {"serialization", "enqueue", "write", "writer_summary",
           "stream_close", "close_timeout"}
Failure == [sequence : 0..MaxRecords, stage : Stages]   \* 0 stands for None

(***************************************************************************)
(* The pieces of the events file.  A row ends with its newline; one that   *)
(* was cut short does not, and whatever is appended next, by this process  *)
(* or by a later one (open("a") writes no newline first), goes on in the   *)
(* same line.                                                              *)
(***************************************************************************)
EventRow(r) == [process |-> pid, kind |-> r.kind, sequence |-> r.sequence, ended |-> TRUE]
FooterRow(f) == [process |-> pid, kind |-> "writer_summary", summary |-> f, ended |-> TRUE]
TornRow == [process |-> pid, kind |-> "torn", ended |-> FALSE]
Unended(row) == [row EXCEPT !.ended = FALSE]

(***************************************************************************)
(* What an append that raises may leave: no byte, part of the row, or the  *)
(* whole row (which also stands for a rest that the stream's buffer        *)
(* delivers later).  A kill may also leave all of it but the newline; an   *)
(* append that raises there counts as torn, its failure being recorded.    *)
(***************************************************************************)
Leftover(row) == {<<>>, <<TornRow>>, <<row>>}
CutShort(row) == Leftover(row) \cup {<<Unended(row)>>}

(* The line that holds piece i is that piece and nothing else, and parses. *)
Parses(rows, i) ==
    /\ rows[i].kind # "torn"
    /\ i > 1 => rows[i - 1].ended
    /\ i < Len(rows) => rows[i].ended

StartRecord == [sequence |-> 1, kind |-> "capture_start"]

Dead == writer = "dead"

(* Mutant: failures are left out of the verdict. *)
StatusIgnoresFailures ==
    [process |-> pid,
     attempted |-> sequence, queued |-> queued, persisted |-> persisted,
     failed |-> failed, dropped |-> dropped,
     pending |-> queued - (persisted + failed),
     failures |-> failures,
     valid |-> closed /\ queued = persisted + failed,
     summaryWritten |-> summaryWritten]

(* Capture.status(): one snapshot under the condition's lock. *)
Status ==
    [process |-> pid,
     attempted |-> sequence, queued |-> queued, persisted |-> persisted,
     failed |-> failed, dropped |-> dropped,
     pending |-> queued - (persisted + failed),
     failures |-> failures,
     valid |-> closed /\ queued = persisted + failed /\ failures = {},
     summaryWritten |-> summaryWritten]

(***************************************************************************)
(* A process starts: __init__ opens the file for append, starts the writer *)
(* thread and then writes the capture_start record.                        *)
(***************************************************************************)
Init ==
    /\ pid = 1
    /\ sequence = 1 /\ queued = 0 /\ persisted = 0 /\ failed = 0 /\ dropped = 0
    /\ failures = {} /\ queue = <<>>
    /\ closed = FALSE /\ stop = FALSE /\ summaryWritten = FALSE
    /\ main = "enqueue" /\ record = StartRecord
    /\ report = None
    /\ writer = "loop" /\ hand = None /\ footer = None
    /\ file = <<>> /\ opened = 0
    /\ status = None

Fail(seq, stage) == failures' = failures \cup {[sequence |-> seq, stage |-> stage]}

---------------------------------------------------------------------------
(***************************************************************************)
(* The main thread.                                                        *)
(***************************************************************************)

(* write(): the number is taken and the record serialized outside the lock. *)
Write(kind) ==
    /\ main = "ready"
    /\ sequence < MaxRecords
    /\ sequence' = sequence + 1
    /\ record' = [sequence |-> sequence + 1, kind |-> kind]
    /\ main' = "enqueue"
    /\ UNCHANGED <<pid, queued, persisted, failed, dropped, failures, queue, closed,
                   stop, report, writerVars, disk>>

(* Bound: one number stays free for the record of close(). *)
WriteEvent == (closed \/ sequence + 1 < MaxRecords) /\ Write("event")

(* A callback that returns leaves the loop ready; close() goes on instead. *)
AfterWrite == main' = IF record.kind = "capture_close" THEN "mark_closed" ELSE "ready"

(* json.dumps raises; only an event carries fields of the engine. *)
SerializationFails ==
    /\ main = "enqueue"
    /\ record.kind = "event"
    /\ dropped' = dropped + 1
    /\ Fail(record.sequence, "serialization")
    /\ AfterWrite
    /\ UNCHANGED <<pid, sequence, queued, persisted, failed, queue, closed, stop,
                   record, report, writerVars, disk>>

Accepts == ~closed /\ Len(queue) < QueueCapacity

Enqueue ==
    /\ main = "enqueue"
    /\ Accepts
    /\ queue' = Append(queue, record)
    /\ queued' = queued + 1
    /\ AfterWrite
    /\ UNCHANGED <<pid, sequence, persisted, failed, dropped, failures, closed, stop,
                   record, report, writerVars, disk>>

Drop ==
    /\ main = "enqueue"
    /\ ~Accepts
    /\ dropped' = dropped + 1
    /\ Fail(record.sequence, "enqueue")
    /\ AfterWrite
    /\ UNCHANGED <<pid, sequence, queued, persisted, failed, queue, closed, stop,
                   record, report, writerVars, disk>>

(* close() for the first time begins with its own record. *)
Close == ~closed /\ Write("capture_close")

(* close() of a capture that is closed already goes straight to the join. *)
CloseAgain ==
    /\ main = "ready"
    /\ closed
    /\ main' = "join"
    /\ UNCHANGED <<pid, counters, failures, queue, closed, stop, record, report,
                   writerVars, disk>>

MarkClosed ==
    /\ main = "mark_closed"
    /\ closed' = TRUE
    /\ main' = "set_stop"
    /\ UNCHANGED <<pid, counters, failures, queue, stop, record, report, writerVars, disk>>

SetStop ==
    /\ main = "set_stop"
    /\ stop' = TRUE
    /\ main' = "join"
    /\ UNCHANGED <<pid, counters, failures, queue, closed, record, report, writerVars, disk>>

(* thread.join(timeout): returns when the thread is dead, or after the timeout. *)
Join ==
    /\ main = "join"
    /\ main' = "check_alive"
    /\ UNCHANGED <<pid, counters, failures, queue, closed, stop, record, report,
                   writerVars, disk>>

CheckAlive ==
    /\ main = "check_alive"
    /\ IF Dead THEN UNCHANGED failures ELSE Fail(0, "close_timeout")
    /\ main' = "status"
    /\ UNCHANGED <<pid, counters, queue, closed, stop, record, report, writerVars, disk>>

TakeStatus ==
    /\ main = "status"
    /\ report' = [Status EXCEPT !.valid = @ /\ summaryWritten]
    /\ main' = "verdict"
    /\ UNCHANGED <<pid, counters, failures, queue, closed, stop, record, writerVars, disk>>

(* The verdict looks at the thread once more, after the snapshot. *)
Verdict ==
    /\ main = "verdict"
    /\ report' = [report EXCEPT !.valid = @ /\ Dead]
    /\ main' = "publish"
    /\ UNCHANGED <<pid, counters, failures, queue, closed, stop, record, writerVars, disk>>

(* write_close_status: a temporary file takes the place of the old status. *)
WriteCloseStatus(result) == status' = result

(* drain_timeout is a third look; the hook that calls close() writes the result. *)
Publish ==
    /\ main = "publish"
    /\ WriteCloseStatus([report |-> report, drainTimeout |-> ~Dead])
    /\ main' = "ready"
    /\ report' = None
    /\ UNCHANGED <<pid, counters, failures, queue, closed, stop, record, writerVars,
                   file, opened>>

---------------------------------------------------------------------------
(***************************************************************************)
(* The writer thread.                                                      *)
(***************************************************************************)

Get ==
    /\ writer = "loop"
    /\ queue # <<>>
    /\ hand' = Head(queue)
    /\ queue' = Tail(queue)
    /\ writer' = "write"
    /\ UNCHANGED <<pid, counters, failures, closed, stop, mainVars, footer,
                   summaryWritten, disk>>

WriteRow ==
    /\ writer = "write"
    /\ file' = Append(file, EventRow(hand))
    /\ writer' = "count"
    /\ UNCHANGED <<pid, counters, failures, queue, closed, stop, mainVars, hand, footer,
                   summaryWritten, opened, status>>

CountRow ==
    /\ writer = "count"
    /\ persisted' = persisted + 1
    /\ hand' = None
    /\ writer' = "loop"
    /\ UNCHANGED <<pid, sequence, queued, failed, dropped, failures, queue, closed, stop,
                   mainVars, footer, summaryWritten, disk>>

(* stream.write or stream.flush raises. *)
WriteFails ==
    /\ writer = "write"
    /\ \E rows \in Leftover(EventRow(hand)) : file' = file \o rows
    /\ writer' = "count_failure"
    /\ UNCHANGED <<pid, counters, failures, queue, closed, stop, mainVars, hand, footer,
                   summaryWritten, opened, status>>

CountFailure ==
    /\ writer = "count_failure"
    /\ failed' = failed + 1
    /\ Fail(hand.sequence, "write")
    /\ hand' = None
    /\ writer' = "loop"
    /\ UNCHANGED <<pid, sequence, queued, persisted, dropped, queue, closed, stop,
                   mainVars, footer, summaryWritten, disk>>

(* Mutant: the writer waits until everything queued was persisted. *)
LeaveLoopWhenPersisted ==
    /\ writer = "loop"
    /\ stop
    /\ queued = persisted
    /\ footer' = Status
    /\ writer' = "summary"
    /\ UNCHANGED <<pid, counters, failures, queue, closed, stop, mainVars, hand,
                   summaryWritten, disk>>

(* The loop's condition: stop is set and then the queue is seen empty. *)
LeaveLoop ==
    /\ writer = "loop"
    /\ stop
    /\ queue = <<>>
    /\ footer' = Status
    /\ writer' = "summary"
    /\ UNCHANGED <<pid, counters, failures, queue, closed, stop, mainVars, hand,
                   summaryWritten, disk>>

WriteSummary ==
    /\ writer = "summary"
    /\ file' = Append(file, FooterRow(footer))
    /\ writer' = "summary_written"
    /\ UNCHANGED <<pid, counters, failures, queue, closed, stop, mainVars, hand, footer,
                   summaryWritten, opened, status>>

MarkSummary ==
    /\ writer = "summary_written"
    /\ summaryWritten' = TRUE
    /\ writer' = "close"
    /\ UNCHANGED <<pid, counters, failures, queue, closed, stop, mainVars, hand, footer,
                   disk>>

SummaryFails ==
    /\ writer = "summary"
    /\ \E rows \in Leftover(FooterRow(footer)) : file' = file \o rows
    /\ Fail(0, "writer_summary")
    /\ writer' = "close"
    /\ UNCHANGED <<pid, counters, queue, closed, stop, mainVars, hand, footer,
                   summaryWritten, opened, status>>

CloseStream ==
    /\ writer = "close"
    /\ UNCHANGED failures \/ Fail(0, "stream_close")
    /\ writer' = "dead"
    /\ UNCHANGED <<pid, counters, queue, closed, stop, mainVars, hand, footer,
                   summaryWritten, disk>>

---------------------------------------------------------------------------
(***************************************************************************)
(* The process is killed, possibly in the middle of an append, and started *)
(* again on the same files.                                                *)
(***************************************************************************)
Interrupted ==
    CASE writer = "write" -> CutShort(EventRow(hand))
      [] writer = "summary" -> CutShort(FooterRow(footer))
      [] OTHER -> {<<>>}

Restart ==
    /\ pid < MaxProcesses
    /\ pid' = pid + 1
    /\ sequence' = 1 /\ queued' = 0 /\ persisted' = 0 /\ failed' = 0 /\ dropped' = 0
    /\ failures' = {} /\ queue' = <<>>
    /\ closed' = FALSE /\ stop' = FALSE /\ summaryWritten' = FALSE
    /\ main' = "enqueue" /\ record' = StartRecord
    /\ report' = None
    /\ writer' = "loop" /\ hand' = None /\ footer' = None
    /\ \E rows \in Interrupted : file' = file \o rows
    /\ opened' = Len(file')
    /\ UNCHANGED status

MainStep ==
    \/ SerializationFails \/ Enqueue \/ Drop \/ MarkClosed \/ SetStop
    \/ Join \/ CheckAlive \/ TakeStatus \/ Verdict \/ Publish

WriterStep ==
    \/ Get \/ WriteRow \/ CountRow \/ WriteFails \/ CountFailure
    \/ LeaveLoop \/ WriteSummary \/ MarkSummary \/ SummaryFails \/ CloseStream

Next ==
    \/ WriteEvent \/ Close \/ CloseAgain
    \/ MainStep \/ WriterStep \/ Restart

(***************************************************************************)
(* A thread that is inside a call keeps running; the engine need not make  *)
(* another call, and nothing kills the process for sure.                   *)
(***************************************************************************)
Spec == Init /\ [][Next]_vars
FairSpec == Spec /\ WF_vars(MainStep) /\ WF_vars(WriterStep)

---------------------------------------------------------------------------
(***************************************************************************)
(* validate_capture.py: the decision on the two files.                     *)
(***************************************************************************)
IsFooter(row) == row.kind = "writer_summary"
Footers(rows) == {i \in DOMAIN rows : IsFooter(rows[i])}

(* Mutant: the footer alone decides, whatever the close status says. *)
ValidateTrustsFooter(rows, st) ==
    /\ st # None
    /\ \A i \in DOMAIN rows : Parses(rows, i)
    /\ Footers(rows) = {Len(rows)}
    /\ rows[Len(rows)].summary.valid

(* Mutant: rows after the first footer are not looked at. *)
ValidateStopsAtFooter(rows, st) ==
    /\ st # None
    /\ st.report.valid /\ st.report.summaryWritten /\ ~st.drainTimeout
    /\ \E i \in Footers(rows) :
          /\ \A j \in Footers(rows) : i =< j
          /\ rows[i].summary.valid
          /\ rows[i].process = st.report.process

(* Every record of the report was attempted, queued and persisted. *)
Exact(r, n) ==
    /\ r.attempted = n /\ r.queued = n /\ r.persisted = n
    /\ r.failed = 0 /\ r.dropped = 0 /\ r.pending = 0
    /\ r.failures = {}

(* One footer, the last row: the rows before it are the events. *)
Validate(rows, st) ==
    /\ st # None
    /\ \A i \in DOMAIN rows : Parses(rows, i)
    /\ st.report.valid /\ st.report.summaryWritten /\ ~st.drainTimeout
    /\ Footers(rows) = {Len(rows)}
    /\ LET n == Len(rows) - 1
           summary == rows[Len(rows)].summary
       IN /\ summary.valid
          /\ n > 0
          /\ rows[1].kind = "capture_start"
          /\ rows[n].kind = "capture_close"
          /\ \A i \in DOMAIN rows : rows[i].process = st.report.process
          /\ \A i \in 1..n : rows[i].sequence = i
          /\ Exact(st.report, n)
          /\ Exact(summary, n)

---------------------------------------------------------------------------
(***************************************************************************)
(* Properties.                                                             *)
(***************************************************************************)
Snapshot ==
    [process : 1..MaxProcesses,
     attempted : Nat, queued : Nat, persisted : Nat, failed : Nat, dropped : Nat,
     pending : Nat, failures : SUBSET Failure, valid : BOOLEAN, summaryWritten : BOOLEAN]

Row ==
    [process : 1..MaxProcesses, kind : Kinds, sequence : 1..MaxRecords, ended : BOOLEAN]
        \cup [process : 1..MaxProcesses, kind : {"writer_summary"}, summary : Snapshot,
              ended : BOOLEAN]
        \cup [process : 1..MaxProcesses, kind : {"torn"}, ended : {FALSE}]

(* Every variable of the capture keeps its type. *)
TypeOK ==
    /\ pid \in 1..MaxProcesses
    /\ sequence \in 1..MaxRecords
    /\ queued \in Nat /\ persisted \in Nat /\ failed \in Nat /\ dropped \in Nat
    /\ failures \in SUBSET Failure
    /\ queue \in Seq(Record)
    /\ closed \in BOOLEAN /\ stop \in BOOLEAN /\ summaryWritten \in BOOLEAN
    /\ main \in {"ready", "enqueue", "mark_closed", "set_stop", "join", "check_alive",
                 "status", "verdict", "publish"}
    /\ record \in Record
    /\ report \in Snapshot \cup {None}
    /\ main \in {"verdict", "publish"} => report \in Snapshot
    /\ writer \in {"loop", "write", "count", "count_failure", "summary",
                   "summary_written", "close", "dead"}
    /\ hand \in Record \cup {None}
    /\ writer \in {"write", "count", "count_failure"} => hand \in Record
    /\ footer \in Snapshot \cup {None}
    /\ writer \in {"summary", "summary_written"} => footer \in Snapshot
    /\ file \in Seq(Row)
    /\ opened \in 0..Len(file)
    /\ status \in [report : Snapshot, drainTimeout : BOOLEAN] \cup {None}

InHand == IF writer \in {"write", "count", "count_failure"} THEN 1 ELSE 0
InWrite == IF main = "enqueue" THEN 1 ELSE 0

(***************************************************************************)
(* At every point of both threads each number write() took is accounted    *)
(* for: it was dropped, persisted or failed, or it is in the caller, in    *)
(* the queue or in the writer's hand; the queue never exceeds its          *)
(* capacity.  (Capture.write, Capture._writer, Capture.status)             *)
(***************************************************************************)
Accounting ==
    /\ sequence = queued + dropped + InWrite
    /\ queued = persisted + failed + Len(queue) + InHand
    /\ Len(queue) =< QueueCapacity

(***************************************************************************)
(* A close status of the running process that says valid_capture is the    *)
(* truth about the disk: the writer is dead, and the rows of this process  *)
(* are all records attempted until the close, in order and without gap,    *)
(* followed by a footer that is valid too.  Every one of these rows is a   *)
(* line that parses, except the first when an earlier process was killed   *)
(* in the middle of a line: __init__ opens the file with "a" and goes on   *)
(* in that line, and close() never learns of it.  (Capture.__init__,       *)
(* Capture.close)                                                          *)
(***************************************************************************)
CutBefore == opened > 0 /\ ~file[opened].ended

ValidCloseIsComplete ==
    (status # None /\ status.report.process = pid /\ status.report.valid) =>
        LET n == status.report.attempted
        IN /\ Dead /\ ~status.drainTimeout
           /\ Len(file) = opened + n + 1
           /\ \A i \in 1..n : /\ file[opened + i].process = pid
                              /\ file[opened + i].kind # "torn"
                              /\ file[opened + i].sequence = i
           /\ \A i \in 1..(n + 1) : Parses(file, opened + i) <=> ~(i = 1 /\ CutBefore)
           /\ file[opened + n].kind = "capture_close"
           /\ file[opened + n + 1].kind = "writer_summary"
           /\ file[opened + n + 1].summary.valid
           /\ Exact(status.report, n)
           /\ Exact(file[opened + n + 1].summary, n)

(***************************************************************************)
(* The validator accepts exactly the captures a close declared valid, as   *)
(* long as the file was empty when the process opened it: neither a late   *)
(* footer nor an earlier process can make it disagree with close().        *)
(* (validate_capture, test_slow_footer_cannot_override_...)                *)
(***************************************************************************)
ValidatorAgreesWithClose ==
    (status # None /\ status.report.process = pid) =>
        (Validate(file, status) <=> (status.report.valid /\ opened = 0))

(***************************************************************************)
(* A close status left by an earlier process is never accepted for a file  *)
(* to which a later process has appended.  (Path.open("a"), os.replace)    *)
(***************************************************************************)
StaleStatusRejected ==
    (status # None /\ status.report.process < pid /\ Len(file) > opened) =>
        ~Validate(file, status)

(***************************************************************************)
(* Once close() has set the stop event the writer drains the queue and     *)
(* ends, unless the process is killed.  (Capture._writer)                  *)
(***************************************************************************)
WriterEnds ==
    \A p \in 1..MaxProcesses : (stop /\ pid = p) ~> (Dead \/ pid # p)
=============================================================================
