# A TLA+ model of the TTS server

This directory holds TLA+ modules that model the server under `src/`, TLC
configurations that check them on small instances, and TLAPS proofs of their
main safety properties for every instance.  Paths below are relative to
`src/src/` unless they start with `docs/`, `tests/` or `README.md`.

## 1. The system

The server turns text into speech.  It is a staged pipeline around one
*heartbeat* thread:

1. **Entry** (`entry/`): gRPC handlers, one thread per call.  They
   authenticate, parse, and send a message into `request_channel`.
2. **Channels** (`framework/copy_channel.h`): queues with deep copies between
   threads.
3. **Heartbeat** (`heartbeat/`): `tick` drains the channels, handles each
   message against the *data board* (`databoard/`: session pool, pending
   requests, metrics), emits what is complete, closes what is finished or
   expired, and returns a `ChangeSet`.
4. **Execution** (`main.cpp`): the same thread hands client writes to
   `dispatch_to_writers` and runs local synthesis jobs, whose results go back
   into `request_channel`.  Frames for the upstream service have no consumer in
   `main.cpp`; `upstream/` holds the parts that would consume them.

Around it: an event bus with worker threads, a reactor with a timer and two
thread pools, listeners for logging and metrics, and the shutdown sequence.

### Inventory

| Part | State | Operations that change it | Interacts with | What is hard | Properties |
|---|---|---|---|---|---|
| Session pool | session map, LRU list | add, mark_*, close, expiry | heartbeat | two structures kept in step; order of use; limit; ages | `PoolConsistent`, `LruSorted`, `SessionsOnlyAdvance` |
| Pending store | map of requests | add, remove, set_state, bind, append | heartbeat | states nobody sets; two ways from a session to its request | `SessionBacklink`, `NothingTerminalSurvives`, `FinalOnce` |
| Metrics (inflight) | unsigned counter | inc, dec | admission | wrap-around, leaks | `InflightWithin`, `InflightExact`, `InflightDrains` |
| Heartbeat | batch, ChangeSet, changed sessions | one per message kind, emit, evolve | all | events of removed or reused sessions | those above, `FinalOnce` |
| gRPC service | `writers_`, `local_queues_`, per-call queue | handlers, dispatch_to_writers | heartbeat thread | lookup under a lock, use after it; registration after sending | `StreamWritesGoThroughQueue`, `NothingLeftRegistered`, `InflightExact`, `CallsReturn` |
| Process | `g_stop`, threads | signal, shutdown, joins | all | everyone waiting for everyone; stops that miss a worker | `ShutdownCompletes`, `JobsAnswered` |
| Upstream service (external) | connections | connect, speak, fail, drop | heartbeat, through `ws_event_channel` | late, missing and crossing events | `PoolMirrorsLinks` |
| Event bus | inbox, slots, workers | publish, subscribe, start, stop | every listener | lost wakeups, snapshots, stop | `Fifo`, `NoSleepOnWork`, `NoCallAfterUnsubscribe`, `EventsDispatched`, `StopsUnlessMissed` |
| Copy channel | buffer, closed flag | send, recv, recv_for, swap, close | every stage | lost wakeups, close | `ImplementsQueue`, `WakeupsSuffice`, `RecvReturns` |
| Thread pool | queue, stop flag | submit, loop, shutdown | reactor | flag set without the mutex | `StartsInOrder`, `TasksStart`, `StopReturns` |
| Reactor, timer | heap, running flag | schedule, pop, run, stop | pools | order, lateness, stale clock, order of stopping | `LeavesRunOrLate`, `RunsInDeadlineOrder`, `EntriesServed`, `StopReturns`, `EntriesPostToLivePool` |
| WebSocket transport | two threads, write queue, flags | open, send, callbacks, close | scheduler, libwebsockets | close from its own threads; context destroyed in use; drops | `WritesInOrder`, `NoGapInFrames`, `TakenIsWritten`, `CloseCompletes`, `SelfJoinOnlyIfEnded`, `SurvivesDisconnect` |
| Upstream codecs | none (per request: audio) | parse, translate, decode | heartbeat | damaged audio, absent fields | `AudioAllOrNothing` |
| Request parser | none (per call: first chunk) | parse_unary, parse_chunk | entry | defaults, unknown values, the kind of a first chunk | `AsAskedOrRefused`, `StreamShape` |
| Configuration, local engines, resampler, mediator | configuration, engine | start, synthesis | heartbeat, mediator | an engine that could not be loaded; ends of the input | `ServedWhereAsked`, `ResampledInsideInput` |
| JWT, listeners, voice catalogue, tasks, clock | little or none | | | | section 6 |

## 2. Modules

| Module | Models | Notes |
|---|---|---|
| `SessionPool` | `databoard/session_pool.h` | operators on a record of session map and LRU list |
| `PendingRequestStore` | `databoard/pending_request_store.h` | operators on a function from request ids |
| `Heartbeat` | `heartbeat/*`, the job loop of `main.cpp` | actions without a Next; extends the two above |
| `UpstreamPipeline` | Heartbeat, ChangeSet execution, MiniMax | the path `docs/DEVELOPMENT.md` section 7 draws and `tests/test_heartbeat_e2e.cpp` drives |
| `Server` | Heartbeat, `entry/tts_service_impl.h`, `main.cpp` | the process as it is wired |
| `EventBus` | `framework/event_bus.*` | |
| `CopyChannel` | `framework/copy_channel.h` | implements `FifoQueue` |
| `ThreadPool` | `framework/thread_pool.h` | actions without a Next; its starts implement `FifoQueue` |
| `Reactor` | `framework/reactor.h`, `framework/priority_timer.h` | actions without a Next |
| `ReactorPools` | the reactor and the pool it owns | composes the two above; tasks posted directly and by timer entries; stop, and run again |
| `LwsTransport` | `upstream/lws_transport.cpp`, `upstream_client.h`, `ws_task_scheduler.h` | its write queue implements `FifoQueue` |
| `FifoQueue` | what a queue promises | abstract |
| `RequestParser` | `entry/request_parser.cpp` | |
| `UpstreamCodec` | `upstream/ws_frame_codec.cpp`, `minimax_protocol_adapter.h`, `hex_codec.h` | from a received text to the audio of a request |
| `LocalEngine` | `config.cpp`, the start of `main.cpp`, `local/*`, `entry/mediator_tts_service_impl.h` | who synthesizes, and what the resampler makes of it |
| `MC*` | instances for TLC | `MCConversions` runs parser, codec and engine one at a time |
| `HeartbeatProofs`, `AccountingProofs` | lemmas | the pool, the iteration and what it counts; the two compositions share them |
| `UpstreamProofs`, `SessionProofs`, `PipelineProofs` | theorems and lemmas | `UpstreamPipeline`: types, pool and failures; the lives of its sessions; what it owes its clients |
| `ServerProofs` | theorems | `Server` |
| `FrameworkProofs` | theorems | `CopyChannel`, and `ReactorPools` with its timer and its pool |
| `EdgeProofs` | theorems | `EventBus`, `LwsTransport`, `LocalEngine` and `RequestParser` |

**State.** Variables carry the names of the members they model (`pool`,
`pending`, `inflight`, `request_channel`, `local_queues`, `writers`, `queue`,
`closed`, `stop`).  Variables marked *history* in their declaration record what
happened for a property and decide nothing.

**Granularity.** The heartbeat thread is the only writer of the board, so a
tick interleaves with other threads at the channels alone; still each message,
each emission and each closed session is a step of its own.  gRPC handlers are
split where they take a lock or touch a channel.  Code that waits on a
condition variable is split into test and wait, since some callers notify
without the mutex.  In `CopyChannel`, where every flag is set under the mutex,
test and wait are one step.  `pop_expired` pops one entry per step, with the
mutex of the timer held.  In `Server` the two blocking stops of `main` are steps
of their own, and each can miss a worker as `ReactorPools` and `EventBus` show in
detail; such a stop returns only if the worker wakes up spuriously.

**Data.** A text is the request it belongs to and audio is the sequence of
texts it was made from: this is what `OwnAudio` tells apart.  Session ids are
numbers drawn in order; the code draws 64 random bits.  Request ids are
model values, distinct as the code's counter makes them.  The clock has the
granularity of the pool's timeouts and stands still within a tick.  `inflight`
is counted modulo `Modulus`, which stands for 2^64, so a decrement too many
wraps as it does in the code.  A sample is a small integer, with `FullScale`
for 32767.  The resampler computes with doubles and the module with fractions;
the two agree where a position that is a whole number is one in the code too.

**Undefined behaviour.** In `LwsTransport` a thread can use the libwebsockets
context while another destroys it, or join a thread another one joins: the
model then either faults, which ends the process, or goes on as if nothing had
happened.  A jthread that joins itself throws and nothing catches: always a
fault.  The read of `write_queue_` behind `write_mtx_` (line 165) is taken
together with the pop; a sender that pushes in between asks for the callback
itself.  What is handed to the scheduler is never empty, so the test for an
empty payload drops no frame.

## 3. Runs

| Run | What it shows |
|---|---|
| `upstream_pool` | LRU order, lives of sessions, back links, clean-up and agreement with the connections, over two upstream requests whose connections connect, speak, fail and drop in any order, and a clock that reaches the idle timeout. |
| `upstream_mixed` | The pool at its limit of one session, inflight and single final answers over a stream call, local or upstream, and a bidirectional call of two chunks, both cancellable. |
| `server` | The process: a stream call, local or upstream, and a bidirectional one of two chunks, with shutdown at any moment.  Safety, and under fairness that calls return, jobs are answered and the process ends: if every client ends its stream, only a stop of the reactor or of the bus that missed a worker keeps `main` from its end. |
| `bus` | Event bus with two workers, two events and a listener that comes and goes; stopping it hangs only on a worker that was between its test and its wait. |
| `channel` | CopyChannel with senders, receivers, time-outs, spurious wakeups and close, as an implementation of `FifoQueue`. |
| `reactor` | Reactor and pool: entries with equal and different deadlines, skippable and not, on a clock with two steps to the second; tasks posted by anybody; stop, and run again.  Nothing leaves the timer but by running in order or by being late, tasks start in order, entries find the pool alive, and stop returns unless its notification missed a worker. |
| `transport` | One connection with its two threads, frames of this and of another session, errors, drops and closes at any moment.  Frames are written in order and without a gap, what was taken is written, close completes, and only a reported error or close makes a thread join itself. |
| `conversions` | Every combination of rate, channels, format, voice and backend and chunked calls of up to three chunks; every sequence of two upstream texts, with every part of a piece of audio and every spoiled character; every start of the server, every choice of who serves, and every resampling of three samples. |

Four runs expect a violation.  Each checks a statement of the documentation
or of a test that the code does not keep; `PROJECT.json` quotes it.

| Run | Property | Statement | What happens |
|---|---|---|---|
| `inflight_leak` | `InflightDrains` | docs/API.md:250 | Failed and cancelled requests keep their unit of inflight. |
| `register_race` | `StreamAnswerFindsQueue` | docs/API.md:101 | The answer comes before the call has registered. |
| `bidi_return` | `StreamOutlivesAnswers` | docs/API.md:230-234 | The writer is used after the call has returned. |
| `peer_close` | `SurvivesDisconnect` | docs/DEVELOPMENT.md:237 | The service closes a connection that stood: the CLOSED callback runs on the service thread and `close_internal` joins that thread (line 73). |

The modules state further things that the documentation says and the code does
not do.  TLC refutes each of them on instances of this size when a
configuration names it; no run claims them.

| Definition | Statement | What happens |
|---|---|---|
| `UpstreamPipeline!FinalChunkIsEmitted` | docs/DEVELOPMENT.md:221 | Nothing sets an upstream request to `Streaming`, so it is never emitted. |
| `UpstreamPipeline!OwnAudio` | docs/DEVELOPMENT.md:67, 220 | A reused session credits the audio of one text to another request. |
| `UpstreamPipeline!BoundSessionNotIdleClosed` | README.md:126 | A session that works for a request is reclaimed as idle. |
| `UpstreamPipeline!LifetimeRespected` | README.md:127 | `created_at` is never set: age is host uptime. |
| `Server!ChunkAnswerFindsWriter` | docs/API.md:205-209 | The first answer removes the writer of the call. |
| `Server!RefusedCallFails` | docs/API.md:318 | A refused call ends with `OK`. |
| `EventBus!StopTerminates` | tests/test_event_bus.cpp:60 | `close()` can miss a worker that is about to wait; `StopsUnlessMissed` says that nothing else keeps `stop_workers` from returning. |
| `LocalEngine!DisabledMeansUpstream` | README.md:117 | `TTS_LOCAL_ENABLED=false` is checked and then not used: the engine is made and preferred all the same. |
| `LocalEngine!NotLoadedMeansError` | docs/API.md:60, 317 | Where sherpa cannot be loaded the factory falls back to the mock: a request for the local backend is answered with the mock's audio and `OK`. |
| `RequestParser!Forces16k` | docs/DEVELOPMENT.md:57, docs/API.md:28 | 8000 Hz is accepted (docs/API.md:50 agrees with the code). |
| `RequestParser!UpstreamTakesFlacAndWav` | docs/API.md:52 | FLAC and WAV are refused for every backend (docs/API.md:316 agrees with the code). |
| `RequestParser!OpenFormatIsPcm` | docs/API.md:52 | A format left open is MP3. |

`AsAskedOrRefused` is about the request that the parser passes on, not about the
audio: the local engine yields 16 kHz PCM whatever was asked
(`main.cpp:166-168`), so a call for 8000 Hz or MP3 that is served locally gets
that.  `MediatorTtsServiceImpl` never answers `UNAVAILABLE` (docs/API.md:317)
for the reason given for `NotLoadedMeansError`.  The mock reports the duration
it had before it stretched or cut its audio, and `TTS_POOL_IDLE_MS` loses what
is below a second.  A piece of upstream audio cut to an even number of digits
is taken for a shorter one.  Once stopped, the pools of a reactor that is run again stay
stopped and keep what is posted.

The runs of the pipeline set `HarnessBinds`: the embedding then calls
`bind_session` as the end-to-end test does.  Without it no upstream request is
ever emitted, and the properties about emission would say
nothing.

### Bounds and why they are enough

* Pool: two places and two sessions are enough for an order in the list, a
  reuse in the presence of another session, and failures that cross.
  `upstream_mixed` has one place, so a second request meets a full pool.
* `HighWatermark = 2` with three or more requests reaches refusal and
  the watermark itself; `Modulus = 8` is above every value the correct counter
  takes, so a wrap is seen.
* `MaxChunks = 2` for the bidirectional calls of pipeline and process covers a second message of the same
  request, which overwrites the record of the first.
* `MaxAudio` is 1: a text is one final chunk.  Non-final chunks only append.
* The clock runs one unit past the idle timeout, or to the lifetime.
* Two workers or receivers are needed for a notification to reach the wrong
  one.
* `reactor`: two entries or tasks together (`MaxWork`) give every order of two
  of a kind and of one of each; `SkipThreshold` is 0, where the code has one
  second, so that two clock steps reach an entry that is too late; the reactor
  runs at most twice.  A second `stop` finds the pool's flag set.
* `transport`: three frames have a first, a last and one between; two
  pieces of received text come between writes.
* `conversions`: chunked calls of up to three chunks (`MaxReads`); pieces of no, one and two bytes with digits of both kinds;
  rates below, at and
  above 16 kHz, one of them no multiple; samples inside and outside full scale.
* `MCUpstream` takes the steps of senders and of MiniMax only where the tick
  can notice them (`SendersBetweenPhases`); elsewhere they commute with the
  steps of the tick.  In `upstream_pool` at most four upstream events wait for
  a tick (`MaxWaiting`): two of each of two sessions, in any order.
* `MCServer` advances the clock only when there is an upstream request: nothing
  else reads it in that composition (`ClockMatters`).
* Symmetry is used for stream request ids in `MCUpstream` alone, with
  safety properties.

Deadlock is checked for `UpstreamPipeline`, `Server` and `CopyChannel`.  The
bus, the reactor and a connection stop by design, and a parsed call ends.

## 4. Fairness

Weak fairness for a thread stands for a scheduler that runs every runnable
thread: the heartbeat and main thread, a polling handler (whose loop also ends
at its deadline of 60 seconds, or with cancellation), the notifier after its
push, a receiver, the reactor loop, the pool workers, and the three threads of
a connection.  Strong fairness is used for bus workers alone, since they compete
for a mutex that is free again and again; it stands for a mutex that does not
starve a waiter for ever.  A bidirectional
client owes nothing: `server->Shutdown()` without a deadline waits for its
handler, so `ShutdownCompletes` has as its premise that clients do end their
streams (`ClientsHangUp`).  Nobody is obliged to call, to publish, to
schedule, to open, to close or to signal, and no spurious wakeup is owed.

## 5. What is proved

Eight modules hold theorems; each holds for every value of the constants that
satisfies the named assumption of its module.

| Theorem | Statement |
|---|---|
| `UpstreamProofs!PipelineTypes`, `ServerProofs!ServerTypes`, `EdgeProofs!BusTypes`, `FrameworkProofs!ChannelTypes`, `FrameworkProofs!ReactorTypes` | type invariants |
| `UpstreamProofs!PipelinePool` | `PoolConsistent` |
| `UpstreamProofs!PipelineNothingTerminal` | `NothingTerminalSurvives` |
| `PipelineProofs!PipelineInflight` | `InflightWithin` |
| `PipelineProofs!PipelineFinalOnce` | `FinalOnce` |
| `PipelineProofs!PipelineBacklink` | `SessionBacklink` |
| `PipelineProofs!PipelineSessionsAdvance` | `SessionsOnlyAdvance`, given `StreamsOnly` |
| `PipelineProofs!PipelineLruSorted` | `LruSorted`, given `StreamsOnly` |
| `PipelineProofs!PipelineMirror` | `PoolMirrorsLinks`, given `StreamsOnly` and that nobody cancels |
| `ServerProofs!ServerInflightExact` | `InflightExact`, given `BidiLocal` |
| `ServerProofs!ServerStreamWrites` | `StreamWritesGoThroughQueue` |
| `ServerProofs!ServerNothingLeft` | `NothingLeftRegistered` |
| `EdgeProofs!BusFifo`, `BusNoSleepOnWork` | `Fifo`, `NoSleepOnWork` |
| `EdgeProofs!BusNoCallAfterUnsubscribe` | `NoCallAfterUnsubscribe` |
| `EdgeProofs!TransportIsQueue` | what is taken and written implements `FifoQueue` |
| `EdgeProofs!TransportNoGap` | `NoGapInFrames` |
| `EdgeProofs!TransportSelfJoin` | `SelfJoinOnlyIfEnded` |
| `EdgeProofs!EngineServedWhereAsked` | `ServedWhereAsked` |
| `EdgeProofs!EngineResampledInsideInput` | `ResampledInsideInput` |
| `EdgeProofs!ParserAsAskedOrRefused`, `ParserStreamShape` | `AsAskedOrRefused`, `StreamShape` |
| `FrameworkProofs!ChannelWakeups`, `ChannelCloseWakes` | `WakeupsSuffice`, `ClosedWakesAll` |
| `FrameworkProofs!ChannelIsQueue` | the channel implements `FifoQueue` |
| `FrameworkProofs!ReactorLivePool` | `EntriesPostToLivePool` |
| `FrameworkProofs!ReactorLeavesRunOrLate`, `ReactorDeadlineOrder` | `LeavesRunOrLate`, `RunsInDeadlineOrder` |
| `FrameworkProofs!ReactorStartsInOrder` | the starts of tasks implement `FifoQueue` |

The type invariants of `UpstreamPipeline`, `Server`, `EventBus` and
`CopyChannel`, and `ClosedWakesAll`, are proved rather than checked by a run.

How the arguments go:

* **Pool.** `HeartbeatProofs` shows for each pool operation that it keeps
  map and list in step (the list is injective and its range is the domain of
  the map), and lifts this to each action of a tick, with the
  invariant `HbInv`: types, and the pool's consistency, which types alone do not
  carry because the next session id must be fresh.  `UpstreamProofs` and
  `ServerProofs` add the variables of the composition.
* **Nothing terminal.** `Reported`: a session in error is among the tick's
  `changed_sessions`, and between ticks that set is empty and the store holds
  no failed or cancelled request.  `ErroredAfter` shows that only
  `mark_errored` adds a session in error; its handler reports it at once, and
  `evolve` ends only when no reported session is left to close.
* **Inflight.** `Load` counts the work in hand: jobs in the ChangeSet, local
  answers in the queues, and upstream requests in the store.  `TickFlow` sorts
  the steps of an iteration into a few kinds (a request is taken on, answered,
  refused, dropped, or only messages move), and `TickLoad` says what each does
  to `Load` and to `inflight`.  In the pipeline a failed request leaves the
  store and keeps its unit, so `Load <= inflight` is what is inductive; with
  `inflight <= HighWatermark < Modulus` no decrement wraps.  In the process
  nothing fails or cancels an upstream request (`Wired`), and the two stay
  equal.  `ServerInflightExact` assumes `BidiLocal`, that bidirectional calls,
  if there are any, are served locally: they name no backend, so this is the
  case of a preferred engine that is ready.  Without it the second chunk of a
  call overwrites the record of the first, whose unit is then never given back.
* **Final answers.** `Owed(r)` counts what can still become a final write for
  `r`: messages in the queues, jobs, the record in the store and writes in the
  ChangeSet.  `Owed(r)` and the finals written together never exceed the
  messages sent for `r`, whatever the upstream service repeats, and a stream
  call sends one.
* **Back links.** `Backlinked` adds to `SessionBacklink` that a stream request
  with a session has no message left to be handled; otherwise a second
  `handle_request` could bind it again.  The bound on `Owed` provides this when
  the request is taken on.  A bidirectional call sends several, and the property
  leaves it out.
* **Lives of sessions.** What the state of a session may do next depends on
  which of its events can still come, and that on its link.  `Wired`: a session
  is dialled by one frame, is heard of only once it has been dialled, and no
  `Connected` comes behind another event of its session.  `Alive` ties this to
  the states: a session is `Connecting` until its `Connected` is handled and no
  longer, a request whose audio is complete has a session that got connected,
  and the requests of a session in error can neither be bound nor emitted.  So
  `Connected` finds its session `Connecting` and an emission finds it connected,
  and `SessionsOnlyAdvance` follows step by step.  Both are stated over a set
  of dialling sessions and a set of links (`WiredTo`, `Lives`), so that a tick,
  which leaves the links alone, and a step of a link are shown apart.
* **`StreamsOnly`.** The last three theorems of the pipeline assume that
  bidirectional calls, if there are any, are served locally.  A bidirectional
  call that goes upstream can take a second session while the first is still
  connecting; when the call is emitted, a session may then be set to
  `Draining` before it is connected, and its `Connected` sets it back to
  `Ready`.  The run `upstream_pool` has no bidirectional call either.
* **LRU order.** `Sorted`: nothing was active later than now, and the list,
  leaving out sessions that were never active, is ordered by last activity.
  A reuse moves its session to the front with the time of now; a removal keeps
  the order of the others (`LruApart`, `SortedBy`).
* **Pool and links.** `PoolMirrorsLinks` speaks of the pause between two
  ticks.  `Mirrored` says what holds at every step: a pooled session is about
  to be dialled, has a link that has not failed, has the end of its link on the
  way, or is marked as in error; every link and every dial to come belongs to a
  pooled session or to one the tick has decided to close; and a failed request
  has lost its session or has one in error (`FailedLost`).  At the end of a tick
  the frames are sent, the closes done and no session is in error, and the
  property is what is left (`MirroredSettles`).  A cancellation fails a
  request whose session is sound, which is then closed while the pool
  keeps it; hence the condition that `CancelRids` is empty.
* **Stream writes.** The inductive invariant says that a stream call whose
  writer is registered has its queue registered too (queue before writer, and
  both erased in one critical section), and that what the heartbeat looked up
  under the lock was right when it looked.
* **No lost wakeup.** In the bus, the mutex is held exactly by the worker
  between its test and its wait; so a push cannot fall into that window.  In
  the channel, while a receiver is parked the values buffered are at most the
  notifications to come plus the receivers awake.
* **No call after unsubscription.** `AbsentOK`: a listener that has gone is in
  no slot, so a snapshot taken after a push holds nobody who was gone at the
  push; and the event a worker has in hand was pushed before.
* **Deadline order.** `TimerOK`: the batch is in the order of deadline and
  sequence number; while the mutex is held it comes before all that is left in
  the timer, and afterwards before everything left with a number below `mark`,
  the next number when the batch was complete.  What is scheduled while the
  batch runs may have an earlier deadline and has a number from `mark` on.
  Popping the top keeps this because the top comes before the rest
  (`AppendInOrder`), running the head because the rest of an ordered batch is
  ordered (`TailInOrder`).  A loop still running when `stop` came is joined
  before `run` starts another: otherwise a batch could be lost.
* **Refinement.** A send maps to `Put`, a receive and `swap_out_all` to
  `TakeFirst`, close to `Shut`, every other step to a stutter.  In the pool a
  submission is `Put` and a start `TakeFirst`; in the transport `send_text` is
  `Put` and the WRITEABLE callback `TakeFirst`.  Both need only that the
  queues hold frames or tasks (`FramesOK`, `TasksOK`).
* **Live pool.** `LoopBeforePool`: in the first run the pool's flag is set
  only once `stop` is past its join, and then the loop has ended.
* **No gap.** `TakenOK` follows a connection through its three times: nothing
  taken yet, connected and taken up to the last frame dispatched, closed for
  good.  It needs that nothing is taken before the link is up and that the
  link comes up once.
* **Parser.** `ParserOK` says of every message sent which input it came
  from, and that `first` holds exactly while nothing has been read.  The fields
  of a parsed request are found one conversion at a time (`UnaryFields`), from
  which it is seen that an unknown format is refused and everything else passed
  on as asked.
* **Engine.** `EngineOK`: a server that serves has an engine, so a request for
  the local backend finds one.  The resampler is shown with integer
  arithmetic: a position divided by the rate stays in front of the end because
  the length was rounded up (`ResampleInside`), a weighted sum of two neighbours
  lies between them (`WeightedBetween`), and so does its rounding
  (`LrIntBetween`).
* **Self-join.** `ClosingIsEnded`: the connecting and the service thread are
  in `close_internal` only after an error or a close was reported.

Only model-checked:

* liveness and anything under fairness, which the prover does not handle;
* `AudioAllOrNothing`: the audio of a request is a concatenation of decoded
  pieces, and what a concatenation of any number of them holds needs
  induction over data.

Nothing is claimed of `SessionsOnlyAdvance`, `LruSorted` and `PoolMirrorsLinks`
where bidirectional calls go upstream, nor of `PoolMirrorsLinks` under
cancellation.

## 6. Not modelled, and why

* The buffer in which the transport splits received text into lines: no
  document says how texts are split into pieces, and a property of it would
  have nothing to be compared with.
* The encoders of outgoing frames, the waveform and the durations of the mock, the inference of
  sherpa and the mixing of several channels, for which nothing calls.
* `MockWsTransport`, a double for tests that calls back synchronously.
* JWT verification is cryptography; a call may be rejected.
* Configuration values that are only copied.  `TTS_POOL_*` is read and not used:
  `databoard/data_board.h` fixes the pool's limits, which are constants here.
* Observability listens and counts; `GetMetrics` reads.
* Nothing under `src/` composes the transport with the heartbeat: `main.cpp`
  instantiates neither.  `UpstreamPipeline` has the connections as the service
  and the end-to-end test show them, `LwsTransport` one connection in detail.
* The voice catalogue is a table; tasks are callables with a name.
* Whether the local engine may be used by two threads at once, as the mediator
  and the heartbeat do without a lock, is a matter of sherpa's inference.
* A restart of the bus, `publish_sync`, and the pool operations nothing calls.

## 7. Plan

1. The connections of `UpstreamPipeline` as what `LwsTransport` shows of itself,
   once the code composes the two.
2. A restart of the bus, once something restarts it.
