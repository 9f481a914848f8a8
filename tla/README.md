# ASRFlow: a verification project

TLA+ models of ASRFlow, a gateway that turns audio streamed over WebSocket into
sentences with a two-pass recogniser, with TLC runs on small instances and TLAPS
proofs. Paths below are relative to the repository root (`src/` prefix dropped
where it is obvious); `PROJECT.json` ties every definition to the lines it models.

## 1. The system

A client opens a WebSocket, STARTs a session and streams PCM. Each chunk goes into
the session's ring buffer, through a streaming first pass that confirms text, and
through a VAD that reports where utterances begin and end. When an utterance ends
(or is cut by force) its audio interval becomes a *sentence*, shown at once with
the first-pass text and handed to a second pass (an LLM behind a micro-batching
queue), whose text is authoritative. STOP waits for the second passes and closes
the session. A session whose connection is lost is suspended and can be resumed.

```
client ── WebSocketGateway ── SessionPipeline ──┬── VAD engine        (per-session cache)
              │    │               │            ├── streaming engine  (per-session cache,
              │    │               │            │     forward batcher thread)
              │    │          ClientSession     └── FinalQueue ── second-pass engine
              │    └── SessionManager (table, resume window, eviction, transcripts)
              └── AdmissionController         ASRRealtimeService (wiring, maintenance,
                                              shutdown), NacosRegistry, HTTP, metrics
```

| Component (source) | State it keeps | Operations | What makes it correct | Module |
|---|---|---|---|---|
| `ClientSession` (`core/session.py`) | speech flags, watermark, accumulated text, sentence records, pending tasks, active/stopping/detached | read and written by pipeline, manager and gateway | sentences ordered, each settled once; text in one place | SessionPipeline, SessionLifecycle, Delivery |
| `SessionPipeline` (`pipeline/session_pipeline.py`) | segment start of the open utterance | audio chunk, COMMIT, STOP, second-pass task | no text lost or doubled whoever cuts; nothing after `session_finished` | SessionPipeline, SentenceLog |
| VAD engines (`core/vad`) | cache with its own clock | `process_chunk`, `flush` | boundaries in order, on the audio's timeline | SessionPipeline, VadEngine |
| `FinalQueue` (`core/final_asr/qwen_queue.py`) | queue, dispatcher, batches, semaphore, EWMA | submit, timeout, batch, deliver, stop | each caller one answer, its own; concurrency bounded | FinalQueue |
| `SessionManager` (`core/session_manager.py`) | table id → session | create, detach, reattach, remove, expire, evict, finalise, persist | a session leaves the table once, in one way | SessionLifecycle |
| `WebSocketGateway` (`server/websocket_server.py`) | per connection: its session, receive loop, send loop, bounded output queue | START, audio, COMMIT, STOP, disconnect | a connection acts on its own session; messages in order, each once; a lost connection is noticed, a STOP answered | SessionLifecycle, Delivery, RingBuffer, Service (partly) |
| `ASRRealtimeService` (`server/service.py`) | wiring, tasks, order of the parts | start, maintain, stop | an advertised service serves; what is suspended at stop is not forgotten | Service, SessionLifecycle (partly) |
| `AdmissionController` (`server/admission.py`) | two timers, saturated | evaluate, allow | refuses under lasting load, recovers | Admission, Service |
| Self-healing engines (`core/engine_health.py`) | model, failure counts, two locks | call, report failure, reload | one reload in flight; no model taken from under its user; every outage ends | EngineHealth, VadEngine, ForwardBatcher |
| Streaming first pass (`core/streaming_asr`) | batcher queue and thread, per-stream caches | submit, group, forward, retry, stop | each request answered once; a stream's cache integrates its own chunks, once and in order; every sample is analysed once, and every frame integrated once unless its forward fails | ForwardBatcher, FirstPass, AudioPath (partly) |
| `AudioRingBuffer` (`core/ring_buffer.py`) | bytes, write position, clock | write, read a range, clear | a range returns the audio heard at that time | RingBuffer, AudioPath |
| Speaker tracking (`core/speaker`) | centroids, counts | identify, re-cluster | labels renumbered consistently | not modelled |
| `NacosRegistry` (`core/registry`) | `_registered`, token | login, register, beat, deregister | listed while serving, not listed after stop | NacosRegistry, Service |
| second-pass HTTP engine, guard, ITN, hotwords, punctuation, energy | none | pure functions | - | not modelled |
| settings, HTTP views, metrics, demo, benchmark, scripts, tests | - | - | - | not modelled |

How they interact. Everything in the gateway runs on one asyncio event loop; a
connection handles its messages one after another (`_receive_loop` awaits each
handler), while second-pass tasks, the send loop, the maintenance loop, finalisers
of suspended sessions and other connections interleave at every await. Model calls
run in executor threads or in the forward batcher's thread. The hard behaviours,
one `hazards` entry each in `PROJECT.json`, are of five sorts:

* five cutters (VAD end, forced cut, watchdog, COMMIT, STOP) act on one timeline with
  three clocks (ring buffer, VAD cache, wall) and different notions of where an
  utterance began;
* second passes end in any order, late, empty, failed or never, against a STOP that
  waits for them, a queue that times them out, and a batch that answers as a whole;
* resumes, expiries, idle evictions, removals, replacements and shutdown race for
  one table entry, each looking the session up by an id that may be reused;
* engines fail and reload under callers that hold older observations;
* bounded queues whose reader may be gone.

## 2. The modules

### SentenceLog: what a session promises

The abstract specification: an append-only log of disjoint nonempty intervals; each
entry is open, then settled at most once (final or abandoned); nothing changes after
the log is closed. `Extend` allows several entries at once because one audio chunk
may cut several sentences. It has no code of its own: it is what
`docs/client-integration-guide.md` tells a client to rely on, and what
`SessionPipeline` is shown to implement.

### SessionPipeline: one session and the pipeline that serves it

State: `now` (the ring buffer's `total_ms`), `wall` (`time.time()`), `vad` (the
session's VAD cache: its clock, its last boundary, whether a segment is open), `s`
(the `ClientSession`, plus the pipeline's `_segment_start`), `stop` (how far
`process_stop` has come). Text is a sequence of tokens numbered in the order in
which the first pass returns them, so that a token lost or doubled is visible; `dropped`
remembers those the pipeline threw away, by L0 (a near-silent chunk outside speech) or by
the watchdog when it is over its limit.

| Action | Code | Contents |
|---|---|---|
| `Audio` | `process_audio_chunk` | `Accumulate` (L0 silence gate), two `HandleVadSegment` (segment start, end, endpoint), `MaybeEmitPartial` (latch and L1), `ForceCut`, `MaybeWatchdog` (L2, rate limit, discard), in the code's order |
| `ProcessCommit` | `process_commit` | skip paths, VAD reset and clock origin, endpoint |
| `ProcessStop` | `process_stop` up to its wait | VAD flush, the utterance still open, leftover text |
| `Resume` | resume under a new pipeline | the segment start is forgotten |
| `FinalStep`, `CancelFinal` | `_process_final_segment` | text, empty text; cancelled |
| `StopTimeout`, `SessionFinished` | `wait_for_pending_tasks`, end of `process_stop` | cancels what runs; transcript and closing message |

A handler is a composition of operators from the session's record to its next one,
one per method of the pipeline. It is one action: the connection runs no other
handler meanwhile, and second-pass tasks, which may run at its awaits, read and
write only their own sentence record. What the models (ASR, VAD) compute is
nondeterministic: any number of tokens confirmed or held back, any boundary within a
lookback of the VAD's clock (`VadResults`, at most two segments per chunk), or an
outage that reports nothing and consumes nothing. A `generate` that raises midway
(`fsmn_vad.py:118-123`) is taken to have consumed the audio of the chunk or none of it; that
it may have opened or closed a segment inside the cache without reporting it is not modelled.

### FinalQueue: the second-pass queue

State: the bounded queue, the batch being collected, dispatched batches, where each
job is, the engine's result (a text, a TimeoutError, another exception), free permits,
each caller's future (`reply`) and how often each job was counted as a fallback (what the
EWMA averages). Actions: `Submit`
(queued or refused; starts the dispatcher), `Timeout` and `CancelCaller` (the
caller's `wait_for`), `Collect` and `Dispatch` (the dispatcher; the window closes at any moment),
`FilterBatch`, `Acquire`, `EngineReturns`, `Deliver` (`_process_batch`, `_run_one`),
`Stop` and `Drain` (`stop`, split at its await so that a submit can come between).

### SessionLifecycle: from START to the transcript

State: the service's phase, the table, the sessions ever created (numbered, so that
an id reused is told from the session that had it), and each connection's phase and
session. Actions: `OpenConnection`, `Start`, `StartAgain`, `StartResume`,
`StopMessage`/`StopReturns`, `Disconnect` (the `finally` of `handle_connection`:
detach, or stop and remove), `CloseReturns`, the maintenance loop's `Expire` and
`EvictIdle`, the retirement of a session that has left the table (`FinalizeBegins`,
`FinalizeReturns`, `Persist`, `CleanUp`: separate, because each follows an await),
`Shutdown` and `Exit`. Expiry and idleness may be found at any moment; time is not modelled.

### EngineHealth and its two hosts

`EngineHealth` is `SelfHealingMixin` (`core/engine_health.py`): whether a model is
loaded, the failures counted, whether a reload is claimed, and the reload workers that
are loading or about to say they have loaded. It has no `Next`: its steps
(`NoteError`, `NoteSuccess`, `ClaimReload`, `Unload`, `Load`, `FinishReload`) are the
blocks the code runs under one lock each, and its hosts say who takes them.

`VadEngine` (`core/vad/fsmn_vad.py`) is the host with many callers: executor threads of
all sessions that run the one model under the inference lock. `caller[c]` says
where a thread is in `process_chunk`. `Enter` takes the lock and finds a model;
`Succeeds` and `Fails` count the outcome and leave; `StartReload` and `DropModel` are the two
halves of `_start_reload`, which runs after the lock was released and has to take it
again; `Worker` is `_reload_worker`.

`ForwardBatcher` (`core/streaming_asr/onnx_batched_streaming.py`) is the host with one
thread, and models what the thread is for: requests of several streams forwarded
together. Session threads take `Submit`, `Return`, `Timeout` and `FlushNothing`; the
thread takes `Top`, `Get`, `Join`, `Execute` (`_loop`, and the grouping of `_execute`), then
`RunGroup` for each group, `RunSolo` for each request of a group whose merged forward failed,
and `EndBatch`, which may start a reload. A cache is the sequence of requests its
stream's forwards have integrated; the history field `fed` is what the stream has
submitted in this sentence, and `troubled` remembers that a request of it was
late, lost, or in a forward that failed half-way, after which nothing is
promised of the cache until the sentence ends. Shapes of features and caches are
chosen freely when a batch is grouped; a forward fails before or after it has written caches.

### RingBuffer, FirstPass and AudioPath: from a message to tokens

`RingBuffer` (`core/ring_buffer.py`, and `_validate_audio_frame` before it) is the
circular buffer byte by byte: `Store` is the write in two parts, `GetRange` and `Segment` the
read with its clamps and its rounding to milliseconds. A byte is the number of its
arrival; the history variable `heard` is what the gate has let through, so that what is
read can be compared with what was said.

`FirstPass` (`onnx_batched_streaming.py`, `process_chunk`, `_prepare_requests`,
`_add_overlap_chunk`, `_cif_search`) has operators only, on the cache of one sentence:
`ProcessChunk` gathers samples to strides, `Chunk` and `LastChunk` make the overlapping
windows, `Forward` and `CifSearch` integrate the frames whose turn it is and carry the
rest to the next forward. A frame is its number and has a weight; a token is counted.
The cache also remembers what it was fed, what was analysed, which frames had their turn in
a forward, which were integrated, how many tokens came back and how often a forward failed.
`Submit` takes an outcome: a forward runs as far as the CIF cache never (a timeout, an
unloaded model, a failing encoder), once, or twice (a merged forward that fails in the
decoder and is repeated alone), and returns the tokens of the last run or none.
`Unflushed` is a flush while the model is reloaded.

`AudioPath` composes them (`process_audio_chunk` up to the VAD, `_handle_sentence_endpoint`
and `_discard_unsent_partial` as far as the stream is concerned): `Hear` writes a message
and feeds it, or leaves it `Unheard` (reload, silence, an exception before); `EndSentence`
flushes, or does not during a reload; `Discard` and `CleanUp` start afresh.

### Delivery: how results reach a client

`Delivery` models, for one session and the connections of its client one after another,
the receive loop, the send loop and the bounded output queue of each
(`server/websocket_server.py`), the second passes that put their finals when they are done
(`session_pipeline.py`, `_process_final_segment`), and the queue without a reader that
`detach_session` gives the pipeline. A handler that is to put several messages keeps them
in `todo` and takes one step per `put`, which waits for room: `Connect`, `Receive`, `Stop`
fill it, `Put`, `WaitOver`, `WaitTimesOut` empty it, `Return` goes back to the loop. `Lose`,
`Send`, `SendFails` are the connection and its send loop, `Leave` the `finally` of the
handler, `TaskDone` and `TaskPuts` a second pass, `Expire` and `FinalizerEnds` the
finaliser. `got` is what the client has received. What is cut and when is left to
`SessionPipeline`, sessions that replace each other to `SessionLifecycle`.

### Admission, NacosRegistry and Service

`Admission` (`server/admission.py`) is the hysteresis: `Wired` says which probes the
constructor of the service keeps, `Evaluate(d)` is one evaluation `d` seconds after the
last, with the two timers as ages. A probe is low, middle or high, which is what half its
limit and its limit tell apart. `NacosRegistry` (`core/registry/nacos_registry.py`) takes
one step per request: `Login`, `Register`, `Beat`, `WakeUp` (the round of the loop),
`StopRegistry` (which cancels a request in flight) and `Deregister`. The server and the
network are external: requests fail, or arrive late although no answer came; tokens
expire; the server restarts and forgets. Neither has a `Next`.

`Service` (`server/service.py`) composes both: the parts are started and stopped in the
code's order (`StartPart`, `StartGateway`, `Started`; `Signal`, `LeaveRegistry`,
`CloseGateway`, `StopPart`), the process may die anywhere in between (`Die`), sessions come
(`NewSession`, `_admit_new_session`) and go, and their work moves the averages (`Measure`).

The `MC...` modules instantiate them for TLC; the eight `..._proofs`
modules hold the theorems about the module they are named after.

## 3. The runs

Every passing run checks deadlock; the only self-loops are states in which the
system really is at rest (`Finished`, `Quiet`, `Over`, `AtRest`).

| Run | Shows |
|---|---|
| `pipeline` | Through every order of audio, VAD reports and outages, COMMIT, STOP, resume and finals: sentences are ordered and disjoint (`SentencesOrdered`); session, pipeline and VAD cache agree whether an utterance is open (`OneUtteranceOpen`); every token the first pass returned is in one sentence, waits to be cut, or was thrown away by L0 or by the rate-limited watchdog (`TextConserved`), and STOP leaves none behind (`NoTextLostAtStop`); text outside speech and open utterances stay within their limits (`AccumulationBounded`); no hour holds more forced adjudications than allowed although the window forgets (`WatchdogRateLimited`); and the session implements `SentenceLog` (`ImplementsLog`) |
| `final_queue` | The engine's concurrency stays within its limit and permits are conserved (`ConcurrencyBounded`), each caller gets its own answer (`OwnAnswer`), a job is counted as a fallback for the answer its caller got and for nothing else (`CountedAsAnswered`), and every caller is answered (`CallersAnswered`), through overflow, timeouts, cancellation, and stop racing submit |
| `lifecycle` | Each session is in the table under its own id, or leaves it once and in one way (`OneFate`); a session in the table and not detached is active (`TableIsActive`); no session nobody holds stays (`OrphansSettle`) |
| `vad_engine` | However many threads fail on the model at once, one reload is in flight (`OneReload`), no model is dropped or replaced under the thread that runs it (`ModelHeldWhileUsed`), and an outage ends with a model in service and the next reload possible (`OutageEnds`) |
| `forward_batcher` | Streams that share forwards do not disturb one another (`CachesIsolated`), no request is lost or run twice by grouping and retries (`NoneForgotten`), and every request is answered and the thread ends at stop (`Served`), through merged and solo failures, timeouts, outages, and stop |
| `audio_path` | Whatever the lengths of the messages (empty, odd, a fraction of a millisecond, oversized) and wherever they wrap: the buffer holds the end of what was heard (`TailKept`) and an utterance is read back as it was heard (`RangeFaithful`); every sample fed is analysed once and in order and every frame but the right context has one turn, although forwards fail; what was integrated is in the tokens fired or in the carry (`HeardOnce`); and a sentence without a failure yields the tokens of one pass over the whole, although it was seen through overlapping windows and its tail may need two (`SentenceWhole`) |
| `delivery` | On each connection a sentence's final follows its provisional, each once, nothing follows `session_finished`, and nothing is announced again after a resume (`InOrder`); the transcript holds every final sent, and those put while the client was away (`FinalsInTranscript`); the loss of a connection is noticed whoever is blocked on its queue, except by a handler blocked on it itself (`LossNoticed`); a STOP is answered as long as the connection lasts (`StopAnswered`) |
| `service` | A listed instance can be connected to, unless the process died, a deregistration failed or a request without an answer was under way at stop (`AdvertisedServing`); once the network holds, it is listed and stays so (`Relisted`); a refusal ends after the load has gone, as long as the averages are moved again and again (`RefusalEnds`, whose premise `WorkGoesOn` says so) |
| `pipeline_outage`, `lifecycle_stale`, `final_queue_timeout`, `service_unwired` | violations, section 6 |

Bounds, and why the interesting cases happen within them.

* `pipeline`: 4 units of audio in chunks of 1 or 2, 4 tokens, `MaxSpeech` 3, watchdog
  after 2 tokens with a limit of 1 per window of 1. A session can cut four
  sentences, by each of the five cutters; the forced cut fires inside an utterance; the
  watchdog fires, is rate-limited and recovers; COMMIT meets an utterance just
  opened, just force-cut or already closed. The look-back windows are 3 so that they
  reach before 0 and behind the watermark. `VadLookback` 1 lets a boundary fall on either
  side of a cut. A final comes back with a text: that it may be empty (`Results`) only
  changes what the transcript shows, and the proofs are for any `Results`. The wall clock
  goes to `MaxWall` 3, so that an adjudication leaves the window of an hour and another
  is allowed.
* `final_queue`: three jobs, a queue of 2 (overflow), batches of up to 3, one permit (jobs of two
  batches compete). Arrivals are ordered: jobs are interchangeable.
* `lifecycle`: three connections, two ids, two sessions created. Two sessions are the least for
  replacement, reuse of an id and a stale connection; the runs that look for
  violations allow three.
* `vad_engine`: three callers and a threshold of 2: one reloads, one runs the new model,
  one is still on its way out of the old one. Counts above the threshold are not
  told apart by the code, so the model stops there.
* `forward_batcher`: two streams with two and one requests, batches of 2, a threshold of
  2: a batch may hold requests of both streams or two of the same, one of which
  has timed out; a third is queued behind them. A stream reaches its second sentence.
* `audio_path`: a buffer of 3 ms of 4 bytes and 27 bytes of audio, so that it is
  overwritten more than once; one failure per sentence (`MaxFailed` 1), at any forward of
  it or at its flush; messages of 0, 3, 6 and 15 bytes leave every remainder of a
  sample, a millisecond and the buffer. A stride is two frames of two samples: a message
  completes none, one or two, a tail is shorter than a frame, fits the last window or
  needs two. The weights differ from frame to frame and make the carry nonzero.
* `delivery`: two connections, two sentences, two replies, queues of 2: a queue fills,
  with a final of an earlier connection blocked on it, while the next connection stops.
* `service`: two probes, the streaming wait and the fallback rate, which different work
  moves (one may be middling, or stand still, while the other is calm), one session at a
  time, two faults (a restart and an outage, or two of a kind), timers of 2 with
  evaluations 1 or 2 apart.

Fairness. `SessionPipeline`, safety only: its `Spec` has no fairness, since a STOP need not
end (it and the second passes put into a bounded queue, `session_pipeline.py:411, 739`; the
speaker task is awaited without bound, `:547`; and the finaliser's `wait_for` may cancel it,
`session_manager.py:207`). When a STOP is answered is `StopAnswered` of `Delivery`.
`FinalQueue`: the dispatcher's task is scheduled, `stop` runs to its end, timers
fire; nothing is assumed of the engine, whose call may never return.
`SessionLifecycle`: the maintenance loop comes round, an open window or an idle
session is old enough in the end, `process_stop` is bounded, tasks and disk writes
go on. Nothing obliges a client to do anything. `VadEngine`: the reload worker and each
thread between two locks go on; nothing is assumed about who gets the lock, so a thread
may wait for ever to enter or to drop the model, and a model that never loads is not
considered (the code retries without end). `ForwardBatcher`: its thread goes on;
nothing is assumed of the callers, nor that a reload ends. `Delivery`: the event loop
goes on, the second pass has its hard timeout and the waits theirs, and a message handed
to a connection is sent or the connection ends over it, since the keepalive drops a
client that does not read (`ping_timeout`); a client need not send or resume anything.
`Service`: the registry's and the controller's tasks go round; nothing is assumed of the
clients, the load, the signal or the network. What they have to contribute is a premise of
the property: that the network holds (`Relisted`), that the averages catch up with the load
again and again (`RefusalEnds`). The code does not see to the latter: a session kept alive by
PING (`websocket_server.py:166-173`) or streaming only silence (`session_pipeline.py:145`)
moves no average of the streaming engine, and `final_fallback_rate` moves only with
finals. `AudioPath` has safety properties only. All of it is weak fairness.

Every property is paired in `PROJECT.json` with a fault of the code (a dropped clamp, a
reset forgotten, results paired with the wrong list, ...), defined next to
the definition it replaces and marked `Fault:`, under which TLC finds it violated.

## 4. What is proved

Every invariant and action property the passing runs check is a theorem as well, for
all values of the constants that satisfy the named assumptions; no bound is assumed to
be small, and the bounds of the runs (`MaxNow`, `MaxTokens`, `MaxBytes`, ...) may be any
number. So is the refinement of `SentenceLog`. What stays with TLC is at the end.

`SessionPipeline_proofs` proves, from `ConfigAssumption` (types, and that the windows
looked back, 2000 and 3000 ms in the code, are not 0):

* `TypeCorrect`, `SentencesAlwaysOrdered`, `UtterancesAgree`: `TypeOK`,
  `SentencesOrdered`, `OneUtteranceOpen`;
* `TextAlwaysConserved`: `TextConserved`;
* `NothingLostAtStop`: `NoTextLostAtStop`, if `WatchdogSpan > 0`;
* `AccumulationAlwaysBounded`: `AccumulationBounded`, if `WatchdogMinChars > 0`;
* `AlwaysRateLimited`: `WatchdogRateLimited`;
* `AlwaysTheLog`: `Spec => ImplementsLog`.

The two hypotheses are true of the defaults (30000 ms, 8 characters), but `settings.py`
does not check either. With a span of 0 the watchdog's cut at STOP has no audio, and the
leftover text is not cut; with a minimum of 0 the watchdog cuts on every chunk outside
speech, and "fewer characters than the minimum" is true of no text.

All follow from `Invariant`: `Spec => []IInv`; none is inductive by itself. Whether a
forced cut ends within the audio depends on the watermark being within it and at or
after every sentence's end; whether a VAD end placed before the last forced cut is
harmless depends on the clamp; whether a COMMIT leaves the utterance closed in the cache
as well as in the session depends on the VAD's clock and origin moving together; and
whether text can be cut at all depends on audio lying between the watermark and now
(`Cuttable`), since a cut of no length would drop it. `IInv` is a conjunction of parts
about the session's record and a time: `Sound(q, t)`, its types and sentences (`WellCut`);
`Tidy(q, l, t, w)`, its text - each token in one place and in order (`Placed`), the
sentences `l` of the handler's beginning untouched (`Grown`), `Cuttable`, and the forced
adjudications, of which the session remembers a suffix that holds every one of the last
hour (`Limited`); `Bounded`; and parts that relate the record to the VAD cache (`InStep`)
and to the end of STOP (`Concluded`). The operators a handler is composed of take a
record to a record, so each has a lemma for each part; one lemma per action composes
them, and `NextInv` splits on the actions of `Next`. That a token is in exactly one
place is first shown without counting. For the refinement, `Grown` says that a handler only
appends open entries, which is `Extend`; a second pass that ends is `Settle`, the end of
STOP is `Close`, and everything else a stutter.

`FinalQueue_proofs` proves, for any jobs, queue, batches, timeouts and stops:
`QueueTypeCorrect` (`TypeOK`), `AnswersAreOwn` (`OwnAnswer`), `FailuresCounted`
(`CountedAsAnswered`), `EngineBounded` (`ConcurrencyBounded`). The answers and the counts need no
invariant about batches: `PairedWithItsOwn` shows that whatever list `gather` was given,
`zip` pairs a job with what the engine made for it, and `Ledger` says of each job alone what
its future and its count may be (`StepKeepsLedger`: only an open future is answered,
once). For the semaphore, only it may move a job into the engine or out of it, so no
other step that changes a job's phase may find it there: `Places` says that until its
batch is filtered a job is at one place (queue, batch being collected, one dispatched
batch) and that its phase says at which. The cardinality then moves by one
(`AcquireBounded`, `ReturnBounded`). `Room` has the types and limits; `WithoutTyped` is an
induction on the length of the batch that is filtered. The assumption beyond types is that
the names of failures are not names of jobs (`QueueAssumption`).

`SessionLifecycle_proofs` proves, for any ids and any number of connections and sessions:
`LifecycleTypeCorrect` (`TypeOK`), `EachHasOneFate` (`OneFate`), `TableAlwaysActive`
(`TableIsActive`). `Fates` relates a table to a sequence of sessions, as values. Three lemmas
say which changes keep it: a session created over another (`Created`), one that leaves
the table (`Retired`), and one changed where it is (`Changed`). A resume after its window is
the second and then the first, in one step of the lock; every other action is one of the
three. The connections add that one about to remove its session has one.

`VadEngine_proofs` proves, for any set of callers (finite or not) and any threshold:
`EngineTypeCorrect` (`TypeOK`), `OneReloadAtATime` (`OneReload`), `ModelHeld`
(`ModelHeldWhileUsed`). `OneReload` counts, and a count is not inductive: the invariant
`ReloadSlot` says the same without counting (two unloading callers are one; an unloading
caller excludes both stages of the worker; a claimed reload is at one of the three places).
`ModelHeldWhileUsed` needs it, since the worker replaces the model without a lock: only
because a model is absent while one loads, and nobody enters without a model, is no
caller inside when it arrives. The assumptions are `HealthAssumption` (the threshold is
positive, which `_init_health` ensures) and `CallersAssumption` (`Nobody` is not a caller).

`ForwardBatcher_proofs` proves, for any streams, numbers of requests and size of batch:
`BatcherTypeCorrect` (`TypeOK`), `CachesAlwaysIsolated` (`CachesIsolated`), `NoneEverForgotten`
(`NoneForgotten`). `NoneForgotten` counts where a request is; the invariant says the same with
the sets of requests that the queue, the batch, the groups and the retries hold (`Keys`,
`GroupKeys`): each holds a request once (`Single`, `Divided`), no two the same, and together
they hold the open ones (`Hand`). A step of the thread then moves one request, or a set,
from one to another, and grouping only divides a set. `Cached` says of a stream that
nothing has disturbed that its cache is what it fed, but for the one request it waits
for; that this one is at one place makes its forward append it once, and a merged forward
writes back the last row of each stream (`LastRow`). The counts come last: a set of places
that holds a request once has one element (`WhereCount`, `GroupCount`).

`AudioPath_proofs` proves, for every size of the buffer, limit and length of the messages,
every stride, context and weights: `BufferTypeCorrect` (`TypeOK`), `TailAlwaysKept` (`TailKept`),
`RangeAlwaysFaithful` (`RangeFaithful`), `AlwaysHeardOnce` (`HeardOnce`), `SentencesAlwaysWhole`
(`SentenceWhole`).

* The buffer. `TailKept` indexes with a modulus, as `get_range` does. The inductive invariant
  has none: what lies before the head was written last (`BeforeHead`), what lies behind it
  one turn earlier once there has been a turn (`BehindHead`), and until then the head is the
  total. `StoreInv` shows that the write in two parts preserves them. `RangeFaithful` follows
  from `TailKept` and from what the clamps and the rounding of `get_range` leave of an
  interval (`IntervalKept`, `ReadRound`, `RangeRead`). `BufferAssumption` matters:
  were `MaxFrameMs > SizeMs`, a message could exceed the buffer and the timeline would fall
  behind the audio.
* The stream. `Listening` says what the cache is between two messages: what was analysed and
  what is left make up what was fed, the frames kept are the last ones, the frames
  that had their turn are all but the right context, what has fired and the carry make up
  the sum of the weights of the frames integrated, and without a failure these are the same
  frames. `SubmitIs` says what each outcome of a forward leaves of that. `ProcessChunkIs` carries it over a message (`ChunkIs` for a stride,
  `StridesAre` for all of them, `AllTakes` for the loop of the integrate-and-fire: fired
  times the threshold, plus the carry, is the sum of the weights), and `FlushIs` turns it into
  `SentenceWhole`, in the two cases of whether the tail fits the last window (`UnflushedIs`:
  a sentence that was not flushed claims nothing). The loops are
  recursive functions over sequences; what they compute is proved by induction on the
  natural numbers, which `Reaches` derives from the least element of a set.
* `AudioAssumption` says that the limit of a message is a whole number of samples (32
  bytes a ms for 2 s in the code; otherwise a clipped message would shift the samples of
  the next by a byte) and that every frame that may occur has a weight.

`Delivery_proofs` proves, for any number of connections, sentences and replies and any size
of the queues: `DeliveryTypeCorrect` (`TypeOK`), `FinalsFollow` (`InOrder`), `TranscriptComplete`
(`FinalsInTranscript`). The invariant says that the session has one handler or finaliser at a
time (`Turns`), what a handler may still have to put (`Plans`), that nothing precedes the
first message of a connection (`Opening`), that each message, queued or received, is
explained by a second pass and that nothing but replies follows the transcript (`Content`,
`Explained`, `Closed`), and that what was received and then, while the send loop runs, what
is queued is one ordered line (`Lines`). That a message may be put at the end of the line
is a lemma for each kind: what would have to come after it is in no plan and no second pass.

`Service_proofs` proves, for all thresholds, with or without authentication, and for any
number of faults: `ServiceTypeCorrect` (`TypeOK`), `ListedServes` (`AdvertisedServing`). `InStep` says
where the registry is in each phase of start and stop, `Known` what it knows of its
listing: what is listed is registered or in doubt, a request that may still arrive is a
doubt, and a registry that has ended without a doubt left nothing behind.

Only model-checked: liveness (`CallersAnswered`, `OrphansSettle`, `OutageEnds`,
`Served`, `LossNoticed`, `StopAnswered`, `Relisted`, `RefusalEnds`), which needs `ENABLED` and
fairness and is beyond this prover; and the four violations of section 6, which are
counterexamples. `SentenceWhole` relates the loops of the code to the sum of the
weights of a sentence and to one pass over all of it, for every sentence without a failure; the float
arithmetic behind them is abstracted (section 5).

## 5. Abstractions

* Speaker labels, re-clustering, the history context, message contents, metrics and
  logging are left out of `SessionPipeline`: they do not influence when or where a
  sentence is cut. The guard, ITN and punctuation are functions of a text; that they
  may leave it empty is an outcome of `FinishFinal`.
* The awaits inside a handler are not separate steps. A disconnect does not cancel a
  handler; an exception in its middle (`server/websocket_server.py:83`) is `Unheard` in
  `AudioPath` and not a behaviour of `SessionPipeline`.
* `Resume` stands for detach and reattach: in between the session is inactive and its
  handlers return at once. What the table does meanwhile is `SessionLifecycle`.
* Durations in `FinalQueue` and `SessionLifecycle` are replaced by "at any moment".
  This adds behaviours (a timeout before its time) and removes none.
* `ForwardBatcher` abstracts a forward to the requests it integrates; feature extraction, the
  tail's padding and the numeric kernels are left out, and a failure between the encoder and the decoder is one
  that has or has not written the caches.
* A second session created by a concurrent START is bounded by `MaxSessions`, not by
  the code.
* `AudioPath`: the frontend and the encoder are external. A stride yields exactly its
  frames, a tail one frame per 960 samples and perhaps one more, and the weight of a frame
  does not depend on the window it is seen in; the float arithmetic of the
  integrate-and-fire is done with integers. A request its caller gave up is run before the
  stream's next one or never; one that is still queued when the next one joins its batch (and
  then reads the same carry), or when the sentence has ended, is in `ForwardBatcher` only,
  as the `troubled` of the stream. A frontend that raises in the middle of a chunk is not modelled.
* `Delivery`: partials and replies are all alike and left out of `got`; the extra
  `{"event": "stopped"}` after a text STOP is a reply; one session, which no other replaces.
  The 50 ms that a refusal waits before closing are not modelled.
* `Service`: the averages move in steps towards the load; the probes of the passing run
  are wired as `tests/test_admission.py` wires them, those of `service_unwired` as the
  engines declare them. Registration is off by default; the run has it on, with a login.

## 6. What the checks found

Four runs state something the repository's documents or comments say and end in a
counterexample (`findings` in `PROJECT.json` has the quotations and lines).

* `pipeline_outage`: while the VAD model is unloaded its clock stands still and the
  audio's does not; later starts are placed too early for the rest of the cache's life.
* `lifecycle_stale`: the loss of an old connection suspends the newer session that
  now has its id.
* `final_queue_timeout`: the fallback rate is to be a share of second passes, but a
  TimeoutError the engine raises (`qwen_engine.py:208`) is marked where the result is delivered
  (`qwen_queue.py:230`) and again, as a timeout of the queue, in the submit it is raised in
  (`qwen_queue.py:136`).
* `service_unwired`: the engines declare the probes as properties, `callable()` of their
  values is false, and the admission controller is given none.

Seen while modelling, without a run of their own:

* A VAD end at or before the watermark leaves text that a partial has shown outside
  speech; the rate-limited watchdog discards it without a final
  (`session_pipeline.py:336`, against the comment at :296).
* An empty authoritative text appears in the transcript as the first pass's
  (`session.py:35`; `docs/client-integration-guide.md:285` calls the empty text authoritative).
* A caller told to reload by failures of the old model may unload the new one
  (`engine_health.py:75`, against the comment at :58).
* Sessions suspended at shutdown are neither finalised nor saved (`service.py:266`,
  `docs/client-integration-guide.md:398`).
* A handler that waits for room in its own queue when the send loop has ended waits for
  ever, contrary to `websocket_server.py:338`; `gateway.stop` then waits for it
  (`Stuck` in `Delivery`). A second pass already blocked on the queue when the session is
  detached stays blocked until the wait of STOP times out, contrary to
  `session_manager.py:72-75`.
* A client that replays from `last_end_ms` after a resume (the guide's 4.6) makes the
  server hear twice the audio that was received and not yet cut (`websocket_server.py:262`).
* The averages move only when a session does work: with the probes wired, a refusal would
  last as long as no session is left, or those left are silent, only ping, or make no
  sentence that moves `final_fallback_rate` (the premise `WorkGoesOn` of `RefusalEnds`).
* A forward that times out, fails or finds no model costs the frames of its turn, although
  they have been analysed (`onnx_batched_streaming.py:80-87, 546`), and a merged forward that fails
  in the decoder and is repeated integrates them twice; a flush during a reload
  (`:478`) leaves the tail unheard. Nothing tells the sentence's caller (`HeardOnce`,
  `SentenceWhole`).
* A STOP may block for ever (section 3, fairness), and the finaliser of a suspended session
  may cancel one before `session_finished` (`session_manager.py:207-210`).
* A registration whose answer is lost, or a request in flight at stop, may leave the
  instance listed until its heartbeats are missed; the status of the deregistration is
  only logged.
* The first pass says nothing of a sentence shorter than one stride of 600 ms. A left
  context of 0, which only the defaults exclude (`settings.py:428`), would make the slice
  `[:, -cs[0]:]` keep every frame.

## 7. Plan

What would add most next.

1. **Proofs**: of the safety properties none is left; the step simulations that would give
   `VadEngine` and `ForwardBatcher` one common abstract reload, and of the liveness properties
   the measures that decrease, as invariants of their own.
2. **Speaker labels**: the renumbering of labels after re-clustering against a definition
   of "the same speaker keeps its label", once the clustering is a free choice of partition.
3. **The handler of a chunk in steps**: the awaits inside `process_audio_chunk` with an
   exception at each, composed with a final that arrives in between.

Not modelled: numeric kernels (fbank, encoder, decoder, embeddings, clustering), HTTP views,
metrics, configuration parsing, main's model download, demo, benchmark, scripts and
deployment - stateless, or without influence on the behaviour; text rewriting (guard, ITN,
hotwords, punctuation), of which `SessionPipeline` keeps that the result may be empty.
