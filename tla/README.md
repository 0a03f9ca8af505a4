# A TLA+ verification of ReedCode

ReedCode is a coding-agent harness and the inference experiments run with it:
an agent that drives a model and a task container, drivers that run and record
studies, instruments that measure an inference server from outside and from
inside, and a set of Dynamo experiments (a headroom simulation, a replay, a
next-turn preparation policy and a fix of speculative prefill).  Its own code is
Python on asyncio with a few threads, and Rust: the fix, and the files of Dynamo
it is a patch of or that the experiments examine.

The value of such a repository is the *measurement*: what it writes down must be
what happened, or say that it is not.  The properties below are therefore mostly
about records that tell the truth when tasks are cancelled, threads outlive
their callers, servers restart and writes fail.

Source paths below are relative to `src/`;
`NTP/` abbreviates `experiments/next-turn-preparation-20261015/source/`,
`FIX/` `experiments/dynamo-upstream/001-speculative-prefill/fix/` and
`EV/` `experiments/dynamo-upstream/006-fixed-rpc-registration/evidence/`.

## 1. Inventory

| Component | State it keeps | Operations | Interacts with | What is hard | What makes it correct |
|---|---|---|---|---|---|
| Worker capture, `NTP/capture_worker.py` (`Capture`) and `NTP/validate_capture.py` | five counters, failure list, bounded queue, closed and stop flags; on disk the append-only events file and the close status | `write`, `_drain` (writer thread), `close`, restart, `validate` | engine loop and writer thread share the counters under a lock; the validator reads the files later | two threads, a queue at its limit, failing writes, a join that times out, a killed process on the same files | a capture declared valid is complete and in order; the validator agrees |
| Capture hooks, `NTP/capture_worker.py` (`install_capture`) | in-flight requests | wrappers of scheduler calls | calls `Capture.write` | a wrapper that raises after the call it wraps | one record per call |
| Preparation policy, `NTP/controller.py` (`RollingPreparation`), transport `NTP/http_capture.py` | attempt rows, current job, job tasks, prediction threads, pending file writes | `before_dispatch`, `after_response`, `_prepare`, `drain` | called by the session; jobs run on its event loop, predictions on threads | cancellation at any await, threads that outlive a cancelled job | one job at a time, the foreground first, nothing sent after a cancel |
| Preparation session, `NTP/controller.py` (`run_session`), `NTP/sandbox.py` | messages, turn rows, outcome, deadline | model call, tool calls, drain, flush, persist | drives policy, model, sandbox | cancellation inside `finally`, a deadline that bounds the drain | history stays well-formed, saved rows are final |
| Headroom simulation, `dynamo_headroom.py` | event heap, LRU cache, ready queue, intents, totals | six event handlers and dispatch | none (deterministic) | events of one instant, obsolete work, wakeups | cache and budget accounting, no lost work, termination |
| Coding agent, `reedcode_harbor_agent.py`, notice in `dynamo_support.py` | message history, totals, trace, staging directory | turn loop, tools, `write_file`, summary | model backend, metrics window, container | cancellation at every await, cleanup that may itself fail | history, totals, summary and container agree with what happened |
| Model backend, `model_backend.py` | none | normalise requests and responses | agent | responses without usage | unknown usage stays unknown |
| Per-call server metrics, `server_metrics.py` | two scrapes and gauge samples | `__aenter__`, sampler task, `__aexit__`, `_delta` | wraps a model call | overlap with foreign traffic, cancelled sampler | a delta is attributed only when it may be |
| Epoch metrics, `dynamo_metrics.py` | samples, identities, errors, stop event | `__aenter__`, sampler, drain, report | wraps a replay epoch; server and sidecar | restarts between requests, sampler outliving the body | a valid delta is one process's work |
| Identity sidecar, `metrics_identity.py` | pinned process | snapshot | queried by epoch metrics | the pinned process is gone, pid reuse | fails closed |
| Output retention, `output_policy.py` | none | `retain_output`, settings | agent | boundaries of byte limits | bounded, keeps head and tail |
| Stream assembly, `chat_stream.py` | partial calls | per-chunk update | agent, replay | interleaved deltas, broken streams | every complete call once |
| Study runners, `run_experiments.py`, `run_dynamo.py` | manifest saved as a whole | plan, attempt, save, interrupt | run the agent as a subprocess | crash between attempt and save | the manifest never claims what did not happen |
| Replay, `dynamo_replay.py` | per-workflow results | `run_epoch`, `execute` | epoch metrics, stream assembly | concurrent workflows, one deadline | all or nothing per epoch |
| Speculative prefill fix, `FIX/dynamo/speculative_prefill.rs`, `accumulator.rs`, `contract.rs`, `FIX/renderer/` | a task per watched request, a semaphore, cancellation tokens, the accumulated turn | wrap stream, accumulate, render and encode on a blocking thread, dispatch, wind down | wraps the client's stream, calls the engine behind it, owned by the preprocessor | cancellation between any two polls, closures that cannot be cancelled, deadlines, a follow-up that is not known yet | the warmup is a prefix of the next prompt, resources come back, nothing is sent once called off |
| Response stream, `FIX/dynamo/preprocessor.rs` | per-choice buffers of six stages | split reasoning, strip markers, defer, hold usage, count, normalise | backend output in, client chunks out | markers cut anywhere, choices interleaved, flushes that cascade at the end | the wire says what the whole text says, in order |
| Tool call jail adapter, `FIX/dynamo/preprocessor.rs` | metadata that waits for a chunk | buffer on the way in, stamp on the way out | around the jail of dynamo-parsers | chunks held, folded or swallowed; an error in between | every token and id once |
| Request preprocessing, `FIX/dynamo/preprocessor.rs` | none | normalise, render, encode | feeds the fix and the engine | null bytes, arguments, template options | the same history renders to the same tokens |
| Endpoint lifecycle, `EV/frontend-startup-*-endpoint.rs` | handlers, health targets, tracker, discovery entries | start, rollback, shutdown, cleanup, sleep, wake | request plane server, discovery | each step may fail after others took effect; calls race the cleanup | what is published is served, a shutdown drains |
| HTTP frontend, `EV/frontend-startup-main-http.rs` | endpoint flags, update channel, trace registration | check, initialise, build, watch, drain | model watcher and manager | a removal handled after the catalogue changed again | the flags follow the catalogue |
| Prefix prediction, `NTP/prepare.py`; reports and analyses, `reporting.py`, `dynamo_report.py`, `profile_trajectory.py`, `NTP/analyze.py` and its neighbours; `NTP/reproduce.py`; upstream code carried for reference | none of their own | batch computations | saved files | - | - |

`PROJECT.json` gives each component its status and lists the hazards with the
line at which each bites.

## 2. Modules

| Module | Models | Extends |
|---|---|---|
| `CaptureWriter` | `Capture` and `validate` | - |
| `CaptureWriterProofs` | theorems about `CaptureWriter` | `CaptureWriter` |
| `Preparation` | `RollingPreparation`, the writes of `HttpCapture` | - |
| `PreparationSession` | `run_session` | `Preparation` |
| `PreparationProofs` | theorems about both and the refinement between them | `PreparationSession` |
| `Headroom` | `Simulation` of `dynamo_headroom.py` | - |
| `HeadroomProofs` | theorems about `Headroom` | `Headroom` |
| `AgentRun` | `ReedCodeAgent.run` and what it awaits | - |
| `AgentRunProofs` | theorems about `AgentRun` | `AgentRun` |
| `EpochMetrics` | `EpochMetrics`, server and sidecar | - |
| `EpochMetricsProofs` | theorems about `EpochMetrics` | `EpochMetrics` |
| `StudyRunner` | `main` of `run_experiments.py` and `run_dynamo.py`, `execute` of `dynamo_replay.py` | - |
| `StudyRunnerProofs` | theorems about `StudyRunner` | `StudyRunner` |
| `ReplayEpoch` | `run_epoch` of `dynamo_replay.py` | - |
| `ReplayEpochProofs` | theorems about `ReplayEpoch` | `ReplayEpoch` |
| `ChatStream` | `stream_completion` of `chat_stream.py` | - |
| `ToolTurn` | `maybe_wrap_stream`'s stream and `CompletedToolTurn` | - |
| `ContinuationPrefix` | the template, `qwen_tool_prefix` and what `prefill_task` renders | - |
| `WarmupPolicy` | what the warmups promise, abstractly | - |
| `SpeculativePrefill` | the warmup tasks; implements `WarmupPolicy` | - |
| `ResponseStages` | the stages of the response stream, as operators | - |
| `ResponseStream` | the chain a request gets, its outputs and its end | `ResponseStages` |
| `ToolCallJail` | `apply_tool_calling_jail` | - |
| `EndpointLifecycle` | `start_with_registration`, cleanup, sleep and wake | - |
| `HttpFrontend` | `run`, the watcher's and the enabler's task | - |
| `DynamoProofs` | theorems about four parts of Dynamo | `SpeculativePrefill`, `EndpointLifecycle`, `HttpFrontend`, `ToolCallJail` |

`MCX` is the module a run loads: it extends `X` and, where needed, defines the
values of its constants.  `MCHarness`, `MCStreams` and `MCDynamo` load several
components **side by side**: those about which something is proved are
extended, so that the run checks the very definitions of the theorems and
evaluates the assumptions, the others are an `INSTANCE`; the variable `component`
says which one a behaviour is about, and the variables of the others stay at one
of their initial states.  The components of such a run do not interact (those
that do are composed: `PreparationSession` with `Preparation`, `ResponseStream`
with its stages); the run is the union of their state spaces, and the fairness of
a component is stated for the behaviours that are its own.

Each module also holds, next to an operator, the variant of it that a plausible
slip in the code would give; every property is shown to fail with one of those in
place of the original, so that no property holds for want of something to violate
it.  A property that is a conjunction of named parts has such a variant for
several of its parts.

### CaptureWriter

The main thread (`main`) and the writer thread (`writer`) take one step per
region between two lock operations, queue operations or file operations, which
is where another thread can come in.  `write` is `Write`, then
`SerializationFails`, `Enqueue` or `Drop`; `close` is `MarkClosed`, the
`capture_close` record, `SetStop`, `Join` (which may time out), the looks at the
thread (`CheckAlive`, `TakeStatus`, `Verdict`) and `Publish`; `_writer` is `Get`,
`WriteRow` or `WriteFails`, `CountRow` or `CountFailure`, `LeaveLoop`, the
footer, and `CloseStream`.

`file` is what was appended, one piece per append.  A failing append leaves
nothing, a torn piece or the whole row; a kill may also leave a row that lacks
only its newline.  `open("a")` writes no newline first, so what follows a piece
that was cut short goes on in its line and is lost with it: `Parses` says which
pieces are lines of their own, and the validator reads no others.  `Restart` kills
the process at any point and starts another on the same two files; `opened` is
where it began to append.  If the killed process left a cut line, the first row of
the next one is lost, and its `close` still says `valid_capture`:
`ValidCloseIsComplete` states that one exception, and `ValidatorAgreesWithClose`
shows that the validator refuses the file anyway, because it did not begin with
this process.  `Validate` is the validator on the lines and the status.  Record
contents are abstracted to a sequence number and whether it is the start, an
event or the close record; `Capture.drain()` only reads and is left out.

### Preparation and PreparationSession

A job is an asyncio task; its action is what runs between two awaits, and a
cancel takes effect only at its next step.  `asyncio.shield` keeps the
prediction thread (`cpu`) running after the job is cancelled.  The done callback
is merged with the end of the job: asyncio schedules it for the next turn of the
loop, and nothing in between reads what it changes.  Token ids are abstracted to
"some", "none" or "raised", timestamps to the fact that they were set.

`PreparationSession` extends it with `run_session`: `at` is the await or loop
head.  `Responses` are the answers `ChatModel.complete` can give, as far as
`response_issue` tells them apart.  `Expire` lets the deadline pass at any time.
`PolicySpec` states that each step of the session is, to the policy, a step of
`Preparation` with its open foreground, or a stutter: what is checked of the
policy against *any* foreground holds of this one.

### Headroom

`events` is the heap, a set of events with serial numbers; `First` is the event
that `heappop` would give, by time, then `EVENT_ORDER`, then serial number.  An
instant is open while events at `now` are left; dispatch follows when it closes,
as in the code's loop.  Each turn is chosen from the given sets when it starts,
so one run covers every workload made of them.  `reserve()` evicts the least
recently used keys that may go: the position of a free key in `lru` has a rank
among the free ones (`Rank`), and what is kept is read off in order (`Pick`).  An
update is ignored unless its index is that of the announced turn, as in the
code.  Times are whole milliseconds.  The recorded trace and the timing totals
are left out; the budget counters are kept.

### AgentRun

`pc` is the await at which `run` is suspended, so each action is the code up to
the next await and each `Cancel...` action the delivery of a cancellation there.
`reply` carries the response or exception through `__aexit__` of the metrics
window.  `write_file` goes through mkdir, upload, write and cleanup with the
handling of errors at each; the script in the container is a command that
succeeds or fails.  A malformed metrics URL behaves as no URL.  Texts, paths and
timings are abstracted.  The history and the trace are read by position: the calls
of the history are the set of their positions, the rows of a kind are counted as
a set, and a token total is the running total of its column.

### EpochMetrics

`main` and the sampler each perform scrapes of up to three requests (identity,
metrics, identity); every request is an await, between any two of which the
server may begin or end work or restart, and the sidecar may restart.  One
counter stands for the counter families: the report treats each alike.  A
metrics answer is taken at one instant, and the family statuses `missing` and
`series_changed` are left out.  The server publishes the end of a request in
its gauge and its counter at once.  `server_metrics.py:238` warns that a counter
may come late; the drain waits for three quiet intervals on that account, and
what is published after them no report of this code can see, so
`ValidDeltaIsTheWork` is about a server that is not later than that.

### StudyRunner

One state machine for the three drivers, since they share `save_manifest` and
`export_run` and differ in when they save and what they catch; `runner` says
which one a behaviour is about.  `manifest` is the dictionary in memory,
`pending` and `disk` are `manifest.tmp` and `manifest.json`.  A save is two
steps, `Write` and `Replace`; `after` is where the driver goes on.  `jobs` is
what really became of the process of each attempt, the ghost against which the
manifest is judged.  A save may fail at either step, a download, a snapshot
check, a launch, an export or a report may raise, the keyboard may interrupt
anywhere (a replay only at its awaits, where asyncio delivers it), and the
driver may be killed.  `InTry` and `InAttempt` say which of these positions the
driver's `except` clause covers.  The plan is abstracted to its length, the
snapshots to a check, the reports to a step; rewards are 0, 1 or none.

A position outside those clauses leaves the state of the study on disk as it
was: after a trial file that does not parse, or a changed snapshot, a
retention study is still `running` on disk.  The properties therefore speak of
rows and of the exit code, and do not claim that every end is marked.

### ReplayEpoch and ChatStream

`run_epoch` waits for a `TaskGroup` inside the metrics window.  `stage` of a
workflow is its await; a task that raises, or a cancellation of `run_epoch`,
cancels the others once, and each finds its cancellation at its next step.
Appending a line to `requests.jsonl` may fail at every line, which is what takes
an epoch down half way.  The window is seen from outside (it closes in finite
time, which `WindowCloses` of `EpochMetrics` shows), and so is the server.
Capturing a workload is a pure conversion and left out.

`ChatStream` reads chunk after chunk into a message, with every check of
`stream_completion`; the result is compared with `Whole`, the stream read as a
whole.  `content` and the two reasoning keys are handled alike and are one key;
usage and model are copied and left out.

### ToolTurn and ContinuationPrefix

`ToolTurn` folds each item the client receives into one assistant turn and sends
it to the warmup task when the stream ends as a complete tool turn.  The
reference `WholeTurn` reads the stream as a whole.  Arguments are sequences of
JSON tokens, so that a call may be cut anywhere; the one value of a call's type
is left out.

`ContinuationPrefix` is the Jinja template over token sequences, the request that
a client builds from the conversation (`Prompt`: null bytes stripped, arguments
normalised), and `qwen_tool_prefix`, which renders the history with a marker in
place of the tool results and cuts at the marker.  A conversation alternates a
client that asks or answers calls with a server that answers; contents include
markers, null bytes, parts, inline thinking and text that looks like a tool
response.  `WarmIsTheHistory` compares what was sent ahead with what the next
request really renders to, token for token and in the same cache namespace.

### SpeculativePrefill and WarmupPolicy

`pc` of a warmup is where its task is.  Five of its values lie inside one poll,
where a cancellation made by another thread is not seen: that is the window in
which a warmup could be sent too late.  `closure` is the blocking closure, which
holds its permit until it returns whatever became of its task.  `slot` is
`context_slot`, from which wind-down stops the request downstream.  Timers may
fire whenever the task is parked under them.  The downstream engine is external.

`WarmupPolicy` has three variables: the stage of each warmup, the warmups whose
preparation occupies a slot, and the owners that were switched off.
`KeepsPolicy` is the refinement, with `stage` a function of `pc` and `busy` of
`closure`.

### ResponseStages and ResponseStream

A pull of the client takes one backend output through the whole chain, so one
action of `ResponseStream` is one output through all stages, and the last action
is the end of the stream, where each stage flushes into the next.  The selection
operators (`Guided`, `Parses`, `StripsDisabled`, ...) are the conditions of
`postprocessor_parsing_stream_with_constraint`; `Legacy` and `Unified` are the
order of the stages on either route and `Uses` which of them a request gets.
A request with a required or named tool goes through the legacy jail, a stage of
its own with a usage hold behind it: the jail (external) hands a choice's text
over as it arrives or all of it at the end (`guided_tool_streaming`), and nothing
follows an error; the `ParserV2` route, an external parser in the jail's place, is
left out.  Text is a sequence of seven symbols: white space, text, a JSON
opener, the two halves of the start marker, the end marker and tool call markup.
The reasoning parsers are external and modelled as a splitter that holds half a
marker back.  `WholeSplit` is the reference: what the text of a choice amounts to
when it comes in one piece.

Three places where the code departs from its own comments are exceptions written
into the properties, each with what does hold there:

- `strip_leading_reasoning_start_from_stream` flushes its buffer, one chunk, when
  the stream ends, after an error too, although the comment at
  `preprocessor.rs:697` calls an error terminal; and, in a structured-response
  request for Mistral, which gets no hold stage (5079), behind the usage chunk.
  Where the jail follows, neither happens (`EndsInOrder`);
- a delta without text between the pieces of a start marker gives the held piece
  to the client (6987), although the comment at 6923 says split markers are
  stripped cleanly.  The history variable `broken` names the choices this
  happened to; their text must arrive with the marker left in
  (`WireMatchesText`);
- on the route without a unified parser, a forced request's reasoning is deferred
  before it is counted (5085), so the count may be short; it is above zero if the
  client is shown any reasoning (`ReasoningIsCounted`).

### ToolCallJail

The jail holds, folds, swallows or adds chunks as it likes; the adapter takes
token count and completion ids off each chunk and stamps them on what comes out,
on a synthetic chunk at the end if nothing did.  What a sequence of chunks reports
(`Reported`) is a running total, for what came in and for what was sent on.  Text
recovery of unfinished GLM calls changes no metadata and is left out.

### EndpointLifecycle and HttpFrontend

Every await of the code is a point where another task runs.  The request plane
server, discovery and the graceful shutdown tracker are sets and a counter, and
a call to one of the first two may fail without an effect.  `Builds` has main and
v1.5.0 with a fixed port; the latter evaluates `get_actual_tcp_rpc_port()?` as an
argument of `unwrap_or` (`EV/frontend-startup-release-endpoint.rs:335`), so a
sleep or wake call is refused while nothing is bound although the comment at 329
says a fixed port has no such dependency.  A wake or sleep call is made at any
time: the code does not look at where the endpoint stands, so a wake may publish
an instance before the start has ended or after the cleanup withdrew it (finding
3).  The history variables `strays` and `refused` name the instances that entered
discovery that way and those discovery refused to withdraw; any other published
instance is one the server dispatches to (`PublishedIsServed`).

`HttpFrontend` is `run` from its refusals to the drain, and for a dynamic engine
the watcher, which changes the catalogue and then sends an update on a bounded
channel, and the enabler, which receives updates and reads the catalogue as it
is by then. For a removal it looks up the units of the card one after the other
and clears the flags of those without a model after the last; the catalogue may
change between any two of these steps. A failure before the watcher is spawned
leaves through `abort`, which still drains the trace registration. Route
handlers, TLS and metrics are left out.

## 3. Runs

| Run | Bounds | Shows |
|---|---|---|
| `capture` | 1 process, queue of 1, 3 records | the validator accepts a file exactly when the close said `valid_capture`, whatever was lost, torn or late; the writer ends after a stop |
| `capture_restart` | 2 processes, queue of 1, 2 records | a close that says `valid_capture` is over a file with every record of its process, in order, with close record and footer, but for the first row after a cut line; a worker killed at any point and restarted never makes an old status vouch for new rows |
| `session` | 2 turns of 1 call and 1 tool, or 1 turn of 2 calls and 2 tools; 2 attempts | one live job, cancelled before each foreground dispatch; rows agree with jobs; nothing is sent by a cancelled job; one attempt per model call, each call answered before the next request, `finished` only if every turn ended with an answer; rows saved while nothing was reported pending never change; the refinement; termination |
| `headroom` | 2 workflows of 2 turns, cache 3, budget 3, chunk 2, horizon 9, all three policies | cache soundness, balance of the speculative accounts, work that future timing has begun is never overtaken by a revision or a cancellation, no ready request or prefix worth preparing is forgotten, a workflow that is over stays so and gets no GPU time, the run settles |
| `agent` | 2 turns, 2 calls, 1 cancellation | history is paired, totals add up, the end is reported as it was, staging is removed, success means written, the run ends |
| `agent_cancel_summary`, `agent_cancel_swallowed` | 1 turn, 1 call, 1 cancellation | the two findings below |
| `epoch` | 2 requests, 1 restart, 1 fault, 5 drains, process start and creation time exported or not; or the sidecar as only witness with 1 request or 1 fault, 1 restart of server and sidecar, 4 drains | a valid report covers one process, its samples are in order, its delta is exactly the work of the window; a window cut short is invalid; the window closes |
| `harness` | study: 2 tasks, 2 attempts, three drivers; replay: 2 workflows of 2 turns, 2 lines that cannot be written; chat: 5 chunks of 13 kinds | wherever a driver stops, the manifest on disk is whole, has a row for every attempt that was started and no result that no process left; a saved row is never lost or rewritten; success means that every planned attempt ended well; rows, trace and `epoch.json` of an epoch agree and it ends; a completion is what its stream spells out |
| `streams` | turn: 4 items of 13 kinds; continuation: 6 messages; jail: 4 chunks of at most 1 token; response: 3 outputs of 2 choices, 11 kinds of request | the warmup gets the whole tool turn; what is sent ahead is a prefix of the follow-up; tokens and ids are reported once; the wire is what the whole text says and ends in order; reasoning is not undercounted |
| `dynamo` | 2 warmups, 2 preprocessors, 1 permit; 2 endpoints, 2 faults, 3 calls, both builds; 3 models, 5 changes, channel of 2, every configuration | permits and downstream requests come back, nothing is sent late, tasks end, the refinement; published endpoints are served, a shutdown drains; endpoint flags follow the catalogue |
| `endpoint_wake` | 1 endpoint, 1 call, no faults | finding 3 |

Why the bounds suffice.  A queue of one overflows on the second record, and
three records are the start, an event and the close, each of which can be lost,
torn or late.  Two processes are the smallest restart, and the model treats a
third as it treats the second (the proof covers any number).  Two turns reach the
carry-over between turns and a job of the first turn that is still in cleanup in
the second; two calls reach the call after a failed one.  In the
simulation two workflows compete for a cache that cannot hold both, a chunk is
smaller than a prefix, and the horizon leaves room for a late event.  The
drain needs four scrapes for its three quiet intervals; a fifth leaves room for
work or a restart that breaks the quiet once.  Two attempts
are one that is saved while another is under way, and two tasks an oracle that
fails after one that passed.  Two lines that cannot be written are one in a
workflow and one in a workflow it cancels.  Three outputs of two choices cut a
marker in two with the other choice in between; four items hold both halves of a
call, its finish and a frame after it.  One permit for two warmups makes one of
them wait, and the proof covers any number.  Two faults are a failed
registration and a failed rollback.  Five changes of the catalogue bring a model,
its sibling and back while the channel of two is full.  All bounds are constants
whose comment says `bound:`; the others are parameters of the code.

`streams` and `dynamo` allow the model to stop: their streams, tasks and runtimes
end and clients may do nothing.  The captures, the session, the agent, the epoch
and the three parts of `harness` have an explicit end, and anything else that
stops is a deadlock.

Fairness.  `FairSpec` of the capture: weak fairness of each thread while it is
inside a call or its loop (operating-system scheduling; file operations return).
`SessionSpec`: weak fairness of the session's body, whose model calls, tools and
waits are bounded by timeouts.  `Headroom`: weak fairness of the loop.
`AgentRun`: weak fairness of the run, each await of which has a timeout;
cancellations are not fair.  `EpochMetrics`: weak fairness of the client, whose
requests and drain have timeouts; the server and its restarts are not fair.
`ReplayEpoch`: weak fairness of each workflow's own steps (its waits and its
horizon are timers, `finish_session` has a timeout) and of the group and the
window; the server need never answer.  `SpeculativePrefill`: weak fairness of a
woken task and of its two timers; neither the client, nor the blocking closure,
nor the engine is fair.  `EndpointLifecycle`: weak fairness of the start, the
cleanup and a call under way (the executor runs ready tasks and the outside
answers, if only with an error); no one has to start, stop or call.

## 4. Proofs

Eight modules hold theorems, each for every value of the constants.  Below, for
each: what is proved, from which assumptions, and what the inductive invariant
adds to the property.  What a theorem assumes of the constants is a named
`ASSUME` of the component's module, which TLC evaluates in the run that extends
it.  The inductive invariants were checked with TLC on small instances before
they were proved.

| Module | Theorem | States |
|---|---|---|
| `CaptureWriterProofs` | `TypeCorrect`, `AccountingHolds` | `Spec => []TypeOK`, `[]Accounting` |
| | `ValidCloseHolds` | `Spec => []ValidCloseIsComplete` |
| | `ValidatorAgrees` | `Spec => []ValidatorAgreesWithClose` |
| | `StaleIsRejected` | `Spec => []StaleStatusRejected` |
| `PreparationProofs` | `PolicyInOrder`, `SessionInOrder` | `Spec => []BackgroundInOrder`, and of `SessionSpec` |
| | `PolicyNeverSendsCancelled`, `SessionNeverSendsCancelled` | `Spec => NeverSentAfterCancel`, and of `SessionSpec` |
| | `SessionImplementsPolicy` | `SessionSpec => PolicySpec` |
| | `SessionSavesFinal` | `SessionSpec => []SavedIsFinal` |
| | `SessionTellsWhatHappened` | `SessionSpec => []SessionRecordsAgree` |
| `EpochMetricsProofs` | `ReportSound` | `Spec => []ReportIsSound` |
| | `DeltaIsTheWork` | `Spec => []ValidDeltaIsTheWork` |
| `StudyRunnerProofs` | `ManifestTellsTruth` | `Spec => []DiskTellsTruth` |
| | `SuccessStandsForWholeStudy` | `Spec => []SuccessIsWhole` |
| | `SavedStudyGrows` | `Spec => SavedStudyOnlyGrows` |
| `ReplayEpochProofs` | `EpochTellsOneStory` | `EpochSpec => []EpochRecordsAgree` |
| `AgentRunProofs` | `AgentAccounted` | `Spec => []RunIsAccounted` |
| | `AgentCleansUp` | `Spec => []NoStagingLeftBehind` |
| | `AgentWriteIsReported` | `Spec => SuccessMeansWritten` |
| `HeadroomProofs` | `HeadroomInvariance` | `Spec => []HeadroomInv` |
| | `FutureTimingSafe` | `Spec => []FutureTimingNeverOvertaken` |
| | `IdleLosesNothing` | `Spec => []NoLostWork` |
| | `CacheAccounted` | `Spec => []BlocksAccounted` |
| | `DecidedOnce` | `Spec => NeverRevived`, the action half of `RunSettles` |
| `DynamoProofs` | `TypeCorrect` | `Spec => []TypeOK` of `SpeculativePrefill` |
| | `WarmupsAreAccounted` | `Spec => []WarmupsAccounted` |
| | `NoLateDispatchHolds` | `Spec => NoLateDispatch` |
| | `ImplementsPolicy` | `Spec => KeepsPolicy`, the refinement of `WarmupPolicy` |
| | `DiscoveredIsServed` | `EndpointSpec => []PublishedIsServed` |
| | `TrackerIsExact` | `EndpointSpec => []TrackerCounts` |
| | `FlagsFollowCatalog` | `FrontendSpec => []EndpointsFollowCatalog` |
| | `MetadataIsConserved` | `JailSpec => []MetadataConserved` |

### CaptureWriterProofs

For every queue capacity, number of records and number of restarts (assumption
`CaptureConstants`: each a positive natural).  `Accounting` with `TypeOK` is
inductive.  `ValidCloseIsComplete` is not: it speaks of the published status and
the file, and that the two agree depends on how both threads came to where they
are.  The inductive invariant `IInv` adds:

- `Phases`: which positions of the two threads and which flags go together;
- `Contiguous`: as long as nothing failed, the rows of this process, each with its
  newline, the record in the writer's hand and the queue hold 1, 2, ... in order;
- `LastIsClose`, `Copied`: the record after which the capture is closed is the
  close record, and a record keeps its number and kind on its way to the file;
- `FooterHolds`: the footer repeats counters that no longer change;
- `CleanDead`, `ReportHolds`: a writer that ended without failure wrote all,
  and a report that may become valid was taken from such a writer;
- `StatusOfPast`: before this process publishes, the status in the file belongs
  to an earlier one.

Each action has a lemma that it preserves each part it can disturb;
`NextIInv` combines them and `Inductive` gives `[]IInv`.

The two theorems about the validator need what the *whole* file looks like,
rows of earlier processes included: `FileInv` says that rows carry the number of
their process in ascending order, that the first row of a process is its start
record unless writing it failed, that nothing of a process follows its footer,
and what a status that was ever published said of the writer.  A validator that
reads a status of an earlier process then finds a row behind the footer, or one
of another process, and rejects.

### PreparationProofs

For the policy enabled or not and any bound on the attempts
(`PreparationConstants`), and for tasks of any turns, calls and tools within that
bound (`SessionConstants`).  `BackgroundInOrder` is inductive once every row is
tied to its job, thread and capture write by how far the job is (`RowFollowsJob`)
and the only live job is the active one (`JobsInOrder`).  `SessionImplementsPolicy`
has one case per step of the session: it is a step of `Preparation` with its
open foreground, or leaves the policy alone; so what was proved of the policy
holds of the session.  `SavedIsFinal` adds what `drain` promises (`QuietIsOver`:
after a report that nothing is pending, no job and no thread is left) and where
the session may be by then (`DrainFollowsSession`, `SavedFollowsDrain`).

`SessionRecordsAgree` needs what is true inside a turn, where the history is not
yet paired (`RecordInv`): all calls but the `todo` that still wait are answered
right after their message (`Paired`), the running turn has no outcome yet and a
finished one ended with the answer it stands for (`TurnSoFar`), and the calls of
the turns so far, as a set of pairs of turn and call, number the model calls
made and the rows appended (`CallsCounted`).

### EpochMetricsProofs

For any requests, restarts of server and sidecar, samples, drains and failed
requests (`EpochConstants`).  A verdict is computed once, from the whole log, so
the proof has two halves.  `ReportIsTrue` is about `Report` alone: if a log is as
the invariant says and the report calls it valid, then its samples are of one
process and its delta is the difference of what began.  The invariant is about
the log while it grows:

- `OneScrape`: at most one of the two tasks is inside a scrape, and where;
- `InOrder`: samples come in the order of the phases, which is why a sampler
  that outlived the body would be seen;
- `TrueOfServer`, `OneStory`: two samples of one process, or a sample and the
  server, differ by what began, ended and runs, and counts only grow;
- `FirstSample`: the boundaries are the first and the newest sample;
- `Bracketed`: as long as no request failed, every sample has its bracket; a
  bracket whose two identities are the present monitor's encloses a sample of the
  process that monitor has pinned; and equal brackets enclose samples of one
  process.  This is where the sidecar earns its trust: it answers only for the
  process it pinned, and a restarted sidecar has another identity.

### StudyRunnerProofs

For any number of tasks and attempts and any of the three drivers, wherever
they fail (`StudyAssumption`: the three runners, naturals, and `None`
different from what it stands in for).  The invariant is by position: `Stop`
is where the driver is, or will be once the save it is in is done.  `SaveInv`
says what of the study is on disk at each position and that the manifest in
memory extends it, `JobInv` that finished rows say what their process left and
that a process has a row on disk before it starts, `RowInv` that all rows but
the current one are finished, `PreflightInv` that no attempt precedes the last
oracle, and `ExitInv` that a code of success was computed from a whole study.
`SavedStudyOnlyGrows` is an action property; it follows from `SaveInv` before the
one step that changes the disk.

### ReplayEpochProofs

For any workflows, turns and failing lines, without an assumption.  `InPlace`
fixes the shape of a row by where its task is, `Doomed` says that only an epoch
that is lost anyway cancels a task, `LineTells` that every line is about its row
and nothing follows a `workflow_end`, `CallTold` that every call of a row is in
the trace.  The lines of a workflow are the set of their positions, which lets
the proof speak of them without a filtered sequence.

### AgentRunProofs

For any number of turns, of calls in a response and of cancellations
(`AgentConstants`: naturals, and `None` is neither a number nor a Boolean).  The
properties speak of a request that goes out and of a summary that is written; the
invariant says what is true between those moments:

- `HistoryInv`: the outputs answer the calls in their order, by an order on the
  identifiers (turn, then place in the response), and the calls without an output
  are those that wait in `calls`;
- `Accounted`: counters and totals follow the rows of the trace at every moment,
  not only in a summary; `SummaryTells` ties the summary to them;
- `EndInv`: how the loop was left is what `stop_reason` will say;
- `WriteInv`: what `write_file` knows when its cleanup runs, and where a staging
  directory can have been left.

That a total is the sum of a column for a trace of any length takes an induction.
The library's induction theorems take an operator, but an induction over a *set*
of numbers does not (`SetInduction`, from the well-foundedness of the naturals):
the running total exists for every length (`TotalExists`), and one more row adds
what it says (`TotalOfAppend`).

### HeadroomProofs

For any finite set of workflows, any turns that `validate()` admits, any cache,
budget, chunk, horizon and each policy (`HeadroomConstants`).  There are two
layers.  `HeadroomInv` keeps heap, intents, running job and clock in step:
no event lies in the past and each belongs to a workflow that has come that far
(`HeapInv`), queue and GPU hold announced work (`WorkInv`), the moment at which
future timing may begin is itself an event (`EligibleInv`), and no revision of
the turn that is being prepared is left in the heap (`OvertakenInv`).  The last
is what makes `FutureTimingNeverOvertaken` inductive: the job starts at the
last update of its turn or later, so the updates that are still in the heap
belong to another.  `NoLostWork` follows at the moment of dispatch, for every way
in which `dispatch` can end with an idle GPU; `NeverRevived` is an action
property with a lemma per handler.

`CacheInv` is the second layer.  `reserve()` chooses what to evict by rank, so it
rests on lemmas about ranks in a finite set of positions (`Ranks`, `LastRanks`,
`Picked`): what is kept and what is reserved together fit in the cache and have
no key twice (`ReservationFits`, `ReservationSound`).  `AccountInv` says where
every block that was computed ahead is: used, waiting in the cache, or in the
hands of the running job.

### DynamoProofs

*Warmups.*  For every finite set of warmups, every set of preprocessors, every
owner and every number of permits (assumptions `WarmupsAssumption`,
`OwnerAssumption`, `PermitsAssumption`).  The permits are counted against the set
of closures that hold one, so each step that starts or ends a closure is a lemma
about the cardinality of a finite set that gains or loses one element.  What was
left behind needs to know, for each place of a task, which closures, slots and
requests go with it: that is `Progress`, which the inductive invariant
`WarmupInv` adds to `TypeOK` and the accounts.  The refinement is the initial
condition and one lemma per action, each a step of the policy or a stutter.

*Endpoints.*  `DiscoveredIsServed` holds for any endpoints, faults, calls and
builds, with sleep and wake calls at any time (`EndpointAssumption` types the two
bounds).  The invariant (`EndpointInv`) ties the handler and the discovery entry
to the position of the endpoint (`InPlace`): it is listed while it serves, because
discovery refused its withdrawal, or because a wake came when it was not serving.
`TrackerIsExact` needs finitely many endpoints: the tracker is the number of
graceful endpoints that are registered, which is the safety half of
`ShutdownDrains`.

*Frontend.*  `FlagsFollowCatalog` holds for any models, channel size and number
of changes. `FrontendAssumption` types the constants and says that no two single
model types share an endpoint type; the removal of a type retracts its endpoints
without looking at the other types, so the code relies on that. The property
speaks of a moment at which nothing is on its way; the invariant (`FrontendInv`)
speaks of all the others: an endpoint that is needed is enabled, or an addition
is on its way (`NeededComes`); one that is not is about to be looked at or
retracted (`UnneededGoes`); and an addition that is no longer true is followed
by its removal (`AdditionsAreUndone`).

*Jail adapter.*  `MetadataIsConserved` holds for responses of any length and
chunks of any size, without an assumption.  The property compares the two ends
of a stream that is over; the invariant (`JailInv`) is the balance in between:
the tokens that came in are those sent on, those on the usage chunk that is held
and those pending, and the ids that came in are those sent on followed by those
pending (`Balanced`).  What a sequence reports is a running total, handled like
those of `AgentRun` (`ReportOfAppend`).

### Only model-checked

- Liveness (`WriterEnds`, `SessionEnds`, `RunEnds`, `WindowCloses`, `ReplayEnds`,
  `TasksEnd`, `ShutdownDrains`, and that a run of the simulation ends, the other
  half of `RunSettles`): fairness and `ENABLED` are outside what the prover
  handles.
- `CompletionIsTheStream` and `SentIsWholeTurn`: an assembled message is compared
  with the stream read as a whole, with pieces filtered and joined over chunks
  and, inside a chunk, over its parts.  That is induction over data two levels
  deep; only the one level of a running total is proved here (`AgentRunProofs`,
  `DynamoProofs`).
- `WarmIsTheHistory`, `WireMatchesText`, `EndsInOrder` and `ReasoningIsCounted`:
  they are about what a template renders and what a chain of stages, folded over
  chunks and over each other, makes of a text.  The stages are operators passed to
  folds, which none of the provers can instantiate.

## 5. Findings

1. `agent_cancel_summary`.  `tests/test_harness.py:375`,
   `test_cancellation_propagates_with_summary`, expects a cancelled run to end
   with a summary.  The `finally` clause of `run` first awaits
   `finish_session`, which catches `Exception` only; a cancellation delivered
   there skips `context.metadata` and the summary row.
2. `agent_cancel_swallowed`.  The agent relies on cancellation for its deadline
   (`reedcode_harbor_agent.py:357`).  `ServerMetricsWindow.__aexit__` awaits the
   sampler it cancelled under `suppress(CancelledError)`; a cancellation of the
   run that arrives at that await is suppressed with it and the run goes on.
3. `endpoint_wake`.  The comment at `EV/frontend-startup-main-endpoint.rs:271`
   says the cleanup task "unregisters on cancellation".
   `register_endpoint_instance` does not look at the shutdown token, so a wake
   whose discovery call is in flight when the cleanup withdraws the instance
   publishes it again, and nothing withdraws it any more.

The exceptions listed under `ResponseStream` and `EndpointLifecycle` in section 2
are disagreements of the same kind; the properties of the passing runs state them
and say what holds instead.

## 6. Not modelled, and the plan

Next in the plan:

1. The capture hooks on top of `CaptureWriter`; the attribution warnings of
   `ServerMetricsWindow`; `retain_output` and pair exclusion as algorithms.
2. `ReplayEpoch` composed with `EpochMetrics` instead of seeing it from outside.
3. The unified routes' parsers in the place of one external splitter.

Theorems worth proving next: that `StudyRunner` implements a ledger in which an
attempt is recorded once and its result never changes; and `SentIsWholeTurn` and
`CompletionIsTheStream`, with the reference readings restated as running totals.

Left out for good: prompt construction and token lists of the Python
experiments (data, not control), reading `/proc` and HTTP parsing (pure I/O),
batch analyses of saved files, and of Dynamo the media, embedding and completion
routes, the schemas of guided decoding, metrics and audit payloads.

The Rust files hold about 46,000 lines, and most of them are not there to be
modelled twice.  `preprocessor.rs` comes in three copies of 11,500 to 12,800
lines (main, v1.5.0, patched) and `speculative_prefill.rs` in four, which differ
in the lines the experiments are about; well over a third of each
`preprocessor.rs` is its tests.  The models translate the patched copy, and of
it the parts that keep state between two chunks or two tasks; the rest converts
one request at a time.  The definitions of the models stand for about 2800 of
those lines, one in sixteen: by size most of the Rust code is outside them.
