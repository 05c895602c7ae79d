# mod_audio_stream: a verification project in TLA+

`mod_audio_stream` is a FreeSWITCH module that forwards the audio of a call to a
WebSocket server and plays audio it receives back into the call. This directory
holds TLA+ models of its concurrent core, the TLC configurations that check them
on small instances, and TLAPS proofs of what holds for every instance. All paths
and line numbers below are relative to `src/`.

## 1. The system

### Components, their state and operations

| Component | Where | State | Operations |
|---|---|---|---|
| WebSocket client, life cycle | `ws_client.{h,cpp}` | `state_`, `running_`, `thread_`, `threadStarted_`, socket, `rxbuf_`, `lastActivity_`, five callback slots | `connect`, `disconnect`, `isConnected`, the worker `threadFunc` |
| WebSocket client, send queue | `ws_client.{h,cpp}` | `sendQueue_` under `sendMutex_` | `sendBinary`, `sendMessage`, `drainSendQueue`, `sendFrame` |
| WebSocket client, wire format | `ws_client.cpp` | none | `doHandshake`, `sendFrame`'s header and mask, `processFrame`'s parser, `setUrl` |
| AudioStreamer | `audio_streamer_glue.cpp` | the client, `m_cleanedUp`, raw-audio mode and rate | callbacks bound by `bindCallbacks`, `eventCallback`, `onBinaryData`, `processMessage` |
| Session | `audio_streamer_glue.cpp`, `mod_audio_stream.c` | the channel's private `MY_BUG_NAME`, the media bug, `tech_pvt` (mutex, `pAudioStreamer`, the word of flags with `cleanup_started`, `close_requested`, `audio_paused`) | `start_capture`, `stream_session_init`, `stream_session_cleanup`, `stream_session_destroy`, `stream_session_send_text`, `capture_callback` |
| Forward path | `audio_streamer_glue.cpp`, `stream_frame` | `sbuffer`, `resampler` | one call per captured frame |
| Playback | `audio_streamer_glue.cpp` | `playback_buffer`, `playback_in_response`, `playback_seq`, `playback_chunks_remaining`, `playback_resampler` | writes in `eventCallback` and `onBinaryData`, `stream_frame_write`, `stream_session_break`, `stream_session_pauseresume` |
| API | `mod_audio_stream.c` | none of its own | `stream_function`, dialplan application |
| Pure functions | `stream_utils.cpp`, `base64.cpp` | none | `validate_ws_uri`, `is_valid_utf8`, base64 |

### How they interact

Four kinds of threads meet in one stream.

* **API threads** execute `start`, `stop`, `send_text`, `pause`, `resume` and
  `break`. They find the stream through the channel's private, which they read
  without a lock, and lock `tech_pvt->mutex` afterwards.
* **The media thread** of the channel calls `capture_callback` every 20 ms: READ
  runs `stream_frame`, WRITE runs `stream_frame_write`. Both only *try* the mutex.
* **The worker** of the `WebSocketClient`, one per stream, dials, upgrades, polls,
  reads, drains the send queue and runs the callbacks. Message callbacks look the
  bug up through the session and lock `tech_pvt->mutex`; the error callback closes
  the bug, and thereby runs the whole teardown on the worker itself.
* **The core** closes the bug when the channel hangs up; its CLOSE callback is
  another cleanup. Removing the bug from `stop` calls CLOSE too, from inside the
  teardown.

The streamer is owned through `shared_ptr`: one held by `tech_pvt->pAudioStreamer`,
one copied by every operation in progress, one locked from a `weak_ptr` by every
callback. `tech_pvt` and the bug live in the session's memory pool.

### What is hard

* the teardown: four threads may begin it, it waits for one of them (join) and for
  another to leave the bug (remove), and it destroys the mutex they share;
* `state_` and `running_`: atomics, but written by two threads without
  compare-and-swap, and read before something that takes time;
* six flags in one word, some of them stored under the mutex and some without
  (`mod_audio_stream.h:35-40`): a store writes back what it loaded of the others, and
  the flag that keeps two teardowns apart is one of them;
* the send queue on a non-blocking socket: frames that go out in part or not at
  all, retried from the back of the queue, with the mutex held;
* the counters of playback, which are kept apart from the buffer they describe,
  with a fast path and a bit-field store outside the mutex;
* the forward path: frames, packets and resampled pieces of different lengths share
  one buffer, two separate tests decide when it is full, and a pause empties the bug
  and stores its flag without the mutex;
* receiving: bytes arrive cut up in any way, and what a binary message means depends
  on the last text, on a channel variable read while the connection is already being
  opened, and on a resampler two callbacks share;
* time: a blocking upgrade, a non-blocking TLS handshake, a poll timeout that
  carries the ping timer.

`PROJECT.json` lists these as hazards with the line at which each bites and the
properties that would notice it.

### What makes each component correct

* **Send queue**: bounded; no accepted frame lost or sent twice; order kept as long
  as the socket allows it; a drain always ends, because the media thread waits for
  its mutex; frames are sent in the end if the peer reads.
* **Client**: callbacks in the order users rely on, `isConnected()` consistent with
  them, a close code that tells the truth, `disconnect()` that returns and
  after which nothing runs; the queue drains; an idle line is pinged.
* **Playback**: the buffer never overrun; a break is final; counters equal to the
  buffer; events as documented; responses end.
* **Session**: one teardown per stream, complete, deadlock free, and harmless for
  threads that cannot know of it, as far as the flag it rests on is not undone.
* **Forward path**: where frames and buffer go together, no audio lost between the bug
  and the client until the client is found not connected, packets of exactly `STREAM_BUFFER_SIZE`, nothing of a pause sent
  after it, a backlog read in the end.
* **Wire**: the frames of the peer come out of the bytes again, whole, once each and in
  order, and none is left lying.
* **Messages**: texts announced as documented; audio played as being of the rate that
  `README.md` gives it, through a resampler for that rate.
* **Pure functions**: UTF-8 as in the Unicode standard, base64 and frame lengths read
  back as written, the URI that was checked is the one that is dialled.

## 2. The plan

In order of importance; composition in brackets.

| # | Modules | Abstract specification | Status |
|---|---|---|---|
| 1 | `SendQueue`, `SendQueueProofs` | `FrameChannel` | done |
| 2 | `WsClient` [uses `FrameChannel`], `WsClientProofs` | `WsLifecycle` | done |
| 3 | `Playback`, `PlaybackProofs` | `PlaybackTracking` | done |
| 4 | `Session` [uses `WsLifecycle`], `SessionProofs` | `WsLifecycle`, of each client | done |
| 5 | `Forward`, `ForwardProofs` | invariants over packets and frames | done |
| 6 | `Wire`, `Messages`, `Receive` [joins the two], `MCReceive`, `ReceiveProofs` | what was sent against what is played | done |
| 7 | `Codec`, `CodecProofs`, `Uri`, `UriProofs` | definitions from the standards | done |

Every invariant and every action property that a passing run checks is also stated by
a theorem; what is left to the runs alone is liveness. There are twelve runs, one for
each question; the pure functions have theorems instead of runs.

## 3. The modules

### FrameChannel and SendQueue

`FrameChannel` is what callers of the queue may rely on: a bounded buffer whose
items are delivered at most once, in no promised order. `SendQueue` is
`sendBinary`/`sendMessage` (`Push`) and `drainSendQueue` (`BeginDrain`, `Pop`,
`SendWhole`, `SendShort`, `EndDrain`). The lock variable is `sendMutex_` as the
drain holds it; a push is one critical section and hence one step. Frames are
opaque; `sendFrame` writes all of a frame, none of it, or a part, which is recorded
in `torn`: the state says so, and no property uses it, since `Conserved` and `OrderKept`
count whole writes and what a peer makes of a torn frame is not modelled. The local counter `retries` is compared with the length of a queue
that changes in the loop, as in the code.

### WsLifecycle and WsClient

`WsLifecycle` is the contract seen through callbacks, `isConnected()` and
`disconnect()`. `WsClient` is the worker (`pc` is its place in `threadFunc`), the
senders (`SeeOpen`, `Push`: the look at `state_` and the append are two steps) and
one call of `disconnect()` (`CallDisconnect`, `StoreClosing`, `StopRunning`,
`Reap`: each access to `state_` and `running_` is a step). The queue is
`FrameChannel` with capacity `MAX_SEND_QUEUE`. `PhaseOf` maps `pc` to the phases of
the contract. Before a ClientHello is sent, `SSL_CTX_new` may fail (`ContextFails`). The peer is
external: it answers a ClientHello (`HelloAnswered`), the upgrade (`UpgradeDone`, `UpgradeFails`), sends frames, reads or does not.

Two calls of `disconnect()` happen in the program, but never two at once on a live
client: the teardown calls it once (`cleanup_started`, see `Session`), and the
destructor's call comes after, so the module has one call, from an application
thread at any time or from `onError_` on the worker.

### PlaybackTracking and Playback

`PlaybackTracking` is what `README.md` promises of the playback events. `Playback`
counts audio in fractions of a frame. Its critical sections are single steps
(`Message`, `PlayFrame`, `LoseFrame`, `RunShort`, `Break`); the two accesses made
outside the mutex are steps of their own: `PassFastPath` reads
`playback_in_response`, and `PauseLoad`/`PauseStore` are the read-modify-write of
the word that holds `audio_paused` *and* `playback_in_response`
(`mod_audio_stream.h:35-40`). That store may undo a change made in between; which
of the outcomes a build produces is not the model's to say, so it allows both.
`switch_buffer_write` writes all or nothing, and the code ignores its result. The
constant `Pauses` says whether anybody pauses the stream.

### Session

Every thread is a stack of frames, one per call in progress; calls nest, since the
error callback runs CLOSE, which removes the bug, which calls CLOSE again. The
steps of `stream_session_cleanup` are `Fetch`, `Claim` (or `ComeTooLate`), `TakeOver`,
`Remove`, `Quieten` (or `NoStreamer`), `Join`, `Destroy`. `refs` is the set of owners of
the `shared_ptr`; the streamer is destroyed when it becomes empty. The worker
follows the phases of `WsLifecycle` and nothing else, so it does whatever that
contract allows; `Client(s)` is that contract's view of stream `s`, and `UsesClient` says
that the other threads keep their side of it. `WsClient` implements the contract, so
that what `Session` assumes of a client is what `WsClient` does.

`cleanup_started`, `close_requested`, `audio_paused` and `playback_in_response` are bits
of one word, and a store of any of them is a load of the word (`Load`) and, later, a
store of all of it (`Store`). Two of the stores are made without the mutex, that of
`pauseresume` (`LoadPause`, `StorePause`) and that of `media_bug_close` (`LoadRequest`,
`StoreRequest`); those of the teardown (`Claim`, `TakeOver`), of `break`, of
`stream_frame_write` (`LockQueue`, `UnlockQueue`) and of the worker's playback are made
under it. Where a store writes back a bit that has changed since the load, the history
variable `lost` records it. A teardown that was let in by an undone `cleanup_started` finds
that the streamer has been taken (`NoStreamer`), and destroys the mutex without having
waited for the worker. `MediaWrite` looks at `cleanup_started` only; that it also passes
the fast path of `Playback` is left out, which gives it more behaviours.

What the FreeSWITCH core does is external, modelled from how `src/` uses it:
a bug is not removed while a thread is in one of the channel's bug callbacks
(`MayRemove`); removing a bug calls CLOSE; `switch_core_media_bug_close` calls CLOSE
without detaching the bug; memory from the session pool outlives every call. The
nested mutex is never locked twice by one thread in these sections, so it is
modelled as a plain one.

A thread that locks the mutex after `destroy_tech_pvt`, or holds it at that time,
enters `misuse`, and the behaviour stops there: what follows is undefined. For the
media thread and the worker `SafeLocks` says this never happens. API threads can
reach it (they read the private, the stream is torn down, they lock); the hazard
list has it.

### Forward

The start of a stream (the test of the sampling rate in `stream_function`, the buffer
sizes of `stream_data_init`), `stream_frame` and `stream_session_pauseresume`. Audio is
measured in units of 10 ms, so that rates and channels, which only scale bytes, drop
out; what is left is the relation of frame length, buffer size and packet. A frame in
the bug carries whether it was captured in a pause; a packet in `pending_send` carries
its length and the number of the last frame read for it; `read`, `packed` and `heard`
count the frames read, put into packets and written, so that a gap shows, and `missed`
records that `NotConnected` has thrown packets away. A stream is started with a rate
that `stream_function` accepts (`Accepted`) and `stream_data_init` can make buffers
for (`CanBeMade`): 0 and the negative multiples of 8000 pass the first test and
fail there. `ReadFrame` is one turn of the loop in
any of its three forms (unbuffered, buffered, resampled); the lock, the loop's end,
`isConnected` and every `writeBinary` are steps of their own, since the others run in
between. `OtherLoads`/`OtherStores` are the holders of the mutex who store
`playback_in_response` and with it the word of `audio_paused`; `PauseFlush` and
`PauseStore` are the two halves of `pauseresume`. `Yield` is what one frame leaves in
`sbuffer` when the resampler has no room for all of it.

### Wire, Messages and Receive

`Wire` is the read branch of the poll loop and `processFrame`. A byte of the model is
a part of a frame a read may end after: frames have sizes, and `rx`, `taken` and
`ends` count. On TLS the peer's records, what OpenSSL has taken off the socket
(`decrypted`) and what `SSL_read` has handed out (`taken`) are three different things,
and `poll` sees only the socket. Records are of any length, with several frames in one
or one frame in several (`Records`), so that bytes beyond a read may stay with OpenSSL
(`Withheld`). `running_` is looked at by the loop test only (`LoopTest`), so that a poll
in progress still reads and parses after `disconnect()` has cleared it; `poll` may
return with nothing (`PollTimesOut`). The size of a frame is that of a frame which is
really sent: that the sum of header and payload length (`ws_client.cpp:708`) could wrap
for a header nobody sends with such a payload is not in the model. `Messages` is `processMessage`, `eventCallback` and
`onBinaryData`: a text is a record of the fields the code looks at, `ProcessMessage`
its outcome, `Play` the resampler and the write. The stream goes through the stages
of `start_capture`: created (the connection is being opened), rated
(`STREAM_SAMPLE_RATE` has been read), published (the bug can be found), cleaned.
`Receive` joins both. A callback is three steps, so that the stream may be cleaned
up between its test of `m_cleanedUp` and its effect. Ghost variables `block` and
`event` keep what was last played and fired, and of which frame, so that properties can
compare them with `sent`. What they are compared with is `README.md`: `RateMeant` is the
rate it gives to audio, `IsResponse` what it calls a response. Where the code does
something else the property has an exception with a name (section 6). `MCReceive` has the frames of the run.

### Codec and Uri

Pure functions, as operators of one character, one base64 quantum, one header, one
URI. The whole-text loops around them are not there: they only move on from one item
to the next. In `Codec` the code's masks and shifts are remainders and quotients,
and every function has a definition beside it that comes from the standard (table 3-7
of the Unicode standard, RFC 4648, RFC 6455). In `Uri` a text is a sequence of
character classes, and loops and `strchr` are described by where they end (`Ends`).

## 4. What is checked

Passing runs:

| Run | Instance | Properties |
|---|---|---|
| `SendQueue` | 4 items, capacity 3 | `TypeOK`, `QueueBounded`, `Conserved`, `OrderKept`, `DrainEnds`, `EventuallySent`, `ImplementsChannel` |
| `WsClient` | wss, heart beat, 2 items, capacity 1, 2 frames from the peer | `TypeOK`, `DisconnectJoins`, `ImplementsLifecycle`, `DisconnectReturns`, `QueueDrains`, `IdleLinePinged` |
| `Playback` | messages of ½, 1, 1½ and 2 frames, 3 of them, room for 3 frames | `TypeOK`, `BreakSilences`, `CountsMatch`, `TracksWholeFrames`, `ResponseEnds`, `WholeFramesPlayed` |
| `Session` | 1 stream, an API thread that starts and breaks, one that stops, sends text and pauses, media thread, core, worker | `TypeOK`, `OneTeardown`, `SafeLocks`, `TeardownComplete`, `UsesClient`, `CommandsReturn` |
| `Forward` | frames of 10 to 40 ms; no buffer, 20, 40, 60 ms and the refused 50; 8 and 16 kHz and the refused 0 and 11.025; 3 frames in the bug, 7 in all | `TypeOK`, `NothingDropped`, `PacketsWhole`, `PauseHolds`, `BacklogDrained` |
| `Receive` | 3 frames out of 9 kinds, reads of 2 units, plain and TLS with records of any length, `STREAM_SAMPLE_RATE` unset or 32000 | `TypeOK`, `Reassembled`, `PlayedAsMeant`, `PlayedAtNativeRate`, `EventsAsDocumented`, `HandledInTheEnd` |

What they show. The retry at the back of the queue cannot exceed its capacity,
lose or repeat a frame, or spin under the mutex; order is lost only when a drain
sends one frame after failing on another. The crossing stores of `state_` and
`running_` never confuse the order of callbacks or leave `disconnect()` waiting, if
the peer answers the upgrade. A break is final despite the fast path and the
racing store of `pause`. For audio in whole frames (what `README.md` recommends)
counters, buffer and events agree. A stream is torn down completely and without
deadlock; once only, and with the two threads that cannot know of it excluded before
its mutex goes, in that order, as long as no unlocked store of the flag word undoes
`cleanup_started`. Where that happens (a `pause` that loaded the word before a teardown
set the flag, and a second teardown waiting for the mutex) a stream is torn down twice and
the mutex destroyed under a worker that may hold it; the properties name the exception
(`lost`). On the forward path audio is lost where frame and buffer do not go together
(`Fits`), and where the client is found not connected (`missed`: all pending packets are
thrown away); nowhere else. A pause leaks only through the word that `audio_paused` shares
with `playback_in_response`. Whatever the cuts, the callbacks hear every message once and
in order, and every frame is dealt with unless its last bytes stay within OpenSSL
(`Withheld`). What is played is of the rate `README.md` gives it, and announced as it
says, except in the cases of section 6. `IdleLinePinged` shows that the stamp of the last
activity is renewed and looked at; time is one bit and the poll timeout is not modelled,
so it says nothing of the rate of pings.

Violated properties, each a statement of the repository that the code does not keep:

| Run | Property | What the run shows |
|---|---|---|
| `WsClientTls` | `ErrorMeansRefused` | the socket is non-blocking when `SSL_connect` is called once; WANT_READ is taken for a refusal |
| `WsClientSilentPeer` | `DisconnectReturns` | the upgrade response is read without a timeout; `disconnect()` waits for it for ever |
| `WsClientLastWords` | `LastWordsSent` | the text of `stop <text>` is queued and the loop left without a last drain |
| `PlaybackFastPath` | `NothingQueued` | without any pause: four messages of half a frame count as no chunk, the first frame played completes the queue, and the fast path turns back on a whole frame |
| `SessionErrorPath` | `ClientOutlivesWorker` | after a connection error the worker destroys the client it is running in |
| `SessionRestart` | `ClosureMeansHangup` | a `stop` overtaken by the next `start` tears the new stream down as if the channel had hung up |

`WsClientSilentPeer` uses `LonelySpec`, the fairness that does not depend on the
peer. The same property holds in run `WsClient`, where the peer answers or hangs up.

Every property of a passing run has a mutant in `PROJECT.json`: a definition of the
model replaced by the faulty variant of the same name that stands in front of it
in the module (a dropped guard, an off-by-one, a missing reset), with which TLC
finds the property violated.

### Bounds

* `Items`, `MAX_SEND_QUEUE`: 4 items and 3 places have one item refused, and a
  drain that fails, succeeds and goes round again. In `WsClient` 2 items compete
  for 1 place; what a longer queue does is `SendQueue`'s business.
* `MaxFrames = 2`: two frames in one read or in two, a close frame before or after
  another frame.
* `Sizes`, `FrameBytes`, `Capacity`, `MaxMessages`: a half frame is the smallest
  remainder there is; three messages of two frames overrun the buffer. The proofs
  have no such bounds.
* `Ptimes`, `BufferSizes`: every length of a frame from 10 to 40 ms against one, two and
  three packets' worth of buffer, so that frames fit, do not fit, and overrun. With
  `MaxBacklog = 3` one call fills and empties `sbuffer` and starts again. `MaxFrames = 7`
  frames of a stream are one more than the largest buffer takes of the smallest frames,
  so that a packet of six and the beginning of the next occur.
* `MCFrames`: metadata with and without a rate; audio with a rate of its own, cut by
  every read; audio of a rate that is refused; blank Opus, which is taken for metadata; a
  container, which is not decoded; binary audio; a fragment; a close frame. Three of them
  are metadata, binary audio and a change of rate, in any order. Playback at 8000 against
  16000, 24000, 32000 and 48000 needs resamplers of every other rate. The proofs have none of
  these bounds.
* `Streams`: one for the properties of a stream, since a second one makes the
  start/start race possible (two threads pass the test for an attached bug, and the
  second private overwrites the first), which no property of a single stream
  survives (`OneTeardown` does, and is proved for any number of overlapping streams;
  section 5 says when the others hold of several); two for `SessionRestart`. `Api = 2`:
  `Starters`, `Stoppers`, `Senders`, `Pausers` and `Breakers` say who gives which command,
  so that a start or a break meets a stop, a `send_text` or a pause; further teardowns come
  from the core and the worker. The proofs have no such bounds. Calls nest at most three deep, which `TypeOK`
  checks.

### Fairness

* Threads run: weak fairness of the worker's own steps, of a `disconnect()` in
  progress, of the drain. They do not block, except where a guard says so.
* `poll` returns (strong fairness, since `EINTR` sends the worker round the loop in
  between): its timeout is 1 or 5 s.
* A peer that reads (`PeerReads`): strong fairness of a successful write. Only
  `QueueDrains` and `EventuallySent` need it.
* A peer that answers the upgrade or closes (`PeerAnswers`): only
  `DisconnectReturns` needs it, and without it does not hold.
* `Playback`: the core calls the bug at every frame, and one of many tries finds
  the mutex free (strong fairness of `TakeLock`).
* `Forward`: a call runs on and whoever holds the mutex gives it back (weak fairness);
  the core calls `stream_frame` for every frame (strong fairness of `EnterFrame` while
  the mutex is free) and `switch_mutex_trylock` succeeds once in a while (strong
  fairness of `TryLock`). The code does nothing for the latter; the others hold the
  mutex for the time of a copy.
* `Receive`: the worker runs on, and `poll` returns when the socket is readable (weak
  fairness of `WorkerStep`). The peer need not send anything.
* `Session`: a mutex that is free again and again is got in the end; the worker
  leaves its loop once asked, which is `DisconnectReturns` of `WsClient`.

Deadlock checking is off where the modelled life ends (all items sent, the client
closed or its loop left, a destroyed mutex locked). It is on for `Playback` and
`Forward`, which never end.

## 5. What is proved

All theorems are for arbitrary constants under the assumptions of the modules
(`CapacityAssumption`, `ConfigAssumption`, `SizeAssumption`, `ForwardAssumption`,
`WireAssumption`, `StreamAssumption`, `ReceiveAssumption`, `NamesDistinct`), which TLC
evaluates in the runs.

* **`SendQueueProofs`**: `TypeCorrect`, `Bounded`, `Conservation`, `Order`.
  `QueueBounded` is not inductive: `Requeue` pushes without a test. The invariant
  adds that outside a drain nothing is in flight (`MutexInv`) and that `retries`
  never exceeds the queue's length; then the place the item came from is
  still free. `Conserved` is inductive together with that invariant.
  `Order` rests on the rotation argument of `InOrder`: a drain
  that has failed `retries` times holds the tried items at the back, in order.
  `QueueIsChannel` is the refinement of `FrameChannel`: the channel takes an item out of its set when it is delivered, so no copy may be
  left in the queue. `Conserved` gives that by counting: sent, in flight and queued
  are as many items as were accepted and the same ones, and no item is accepted
  twice; a sequence as long as its range is large has no duplicates (`RangeSize`).
* **`WsClientProofs`**: `TypeCorrect`, `Joins` and `KeepsContract`, the last being
  the refinement `Spec => Life!LifeSpec`. The invariant relates `pc`, `thread`,
  `state` and the caller's place: the worker is past OPEN for good when the thread
  is reaped, and CLOSING is stored only by somebody who asked.
* **`PlaybackProofs`**: `TypeCorrect`, `BreakIsFinal`, `CountersAgree`,
  `EventsTrack`. `BreakSilences` is not inductive: the flag may be set again after
  a break by `PauseStore`, so it rests on the buffer being empty
  (`EmptyWhenSilent`). The counters need two facts of arithmetic,
  `WholeAndRest` and `Frames`, about sizes that are multiples of a frame.
* **`ForwardProofs`**: `TypeCorrect`, `AudioKept`, `WholePackets`, `PauseKept`, all from
  `Invariance`. `NothingDropped` counts: what `sbuffer` holds is the frames read since the
  last packet, and a packet is as long as the frames since the one before it. It needs
  the order of the counters and of the packets (`Counters`), and that `sbuffer`, where
  frames and buffer fit, is short of full by a whole frame (`Buffers`), which is
  arithmetic about multiples; `PauseHolds`
  needs what each thread has loaded and not yet stored (`Flags`): while a pause is in
  force the bug holds nothing captured in it except through a store that crossed.
* **`ReceiveProofs`**: `TypeCorrect`, `AllReassembled`, `NativeRate`, `AsMeant`,
  `EventsRight`. The wire's invariant (`WireInv`) adds to `Reassembled` that the frames
  lie one behind the other (`Laid`), that OpenSSL hands out no more than it has
  (`WithinRecords`), that a callback runs for a message which is there as a whole
  (`AtMessage`), and that `processFrame` never gets behind a close frame (`NotClosed`).
  The streamer's (`StreamInv`) adds that the rate noted belongs to the resampler
  (`Kept`), and that in raw mode the rate is that of the last metadata among the frames
  dealt with, or `STREAM_SAMPLE_RATE` read after it (`RawRight`). Both `AsMeant` and
  `EventsRight` go in two steps: the invariant is about what the code takes a message for
  (`PlayedAsTaken`, `EventsByCode`), and lemmas compare that with what `README.md` says
  (`TakenAsMeant`, `Responses`), which leaves the exceptions the two properties name.
  `Classified` gives every outcome of `processMessage`. What was said of past frames stays true when
  others are sent (`SamePrefix`).
* **`SessionProofs`**, about any number of API threads and of streams.
  Every step of `Session` is allowed in all of them, the unlocked stores of the flag word
  included. What an undone flag (`lost`) breaks is excepted: in the properties `OneTeardown`,
  `SafeLocks` and `UsesClient` by their definitions, for `TypeOK` and `TeardownComplete` in
  the theorems; that these two survive it, as TLC finds, is only model-checked.
  `TornDownOnce` holds of every behaviour, however many streams overlap: where no flag
  is undone, `cleanup_started` stays set once it is set, and it is tested and set under one
  lock of the mutex. `ClientsAreUsedRight` says that `Session` keeps the contract with
  its clients, and `ClientContract` that the client of each stream is one of `WsLifecycle`,
  where no flag is undone. Both are about behaviours in which whoever destroys a
  `tech_pvt` had the streamer (`Found`), so that none skipped `disconnect()`; streams that
  are started alone are such (`StreamersFound`). Their invariant
  (`Usage`) is what a call, wherever it stands on a stack, knows of its stream: that it
  has been started (`Knows`), by one thread (`OneStarts`), that its worker was asked,
  and before `destroy_tech_pvt` that it has ended, unless the worker itself is there.
  `TypeCorrect`, `LocksAreSafe` and `TeardownIsComplete` hold of streams that are started
  alone (`StartsAlone`), until a flag is undone: when `start` looks, no other call is in progress but a `stop`
  that has not looked for the bug yet, and no worker of an earlier stream runs. With a single
  stream that is no restriction (`OneStream`), which gives `OneStreamIsSafe` from `Spec`
  alone, `UsesClient` included. With overlapping streams the three do not hold, as TLC shows with two:
  a teardown that a start has overtaken, or the worker of an earlier stream, finds the
  new stream through the private and tears that down, from inside its own (calls nest
  four deep), or locks a mutex it has no part in. The invariant (`IInv`) is about one stream `c`, the current
  one: every call is about it (`Local`), the others are over (`Over`), one thread at a
  time sets it up or tears it down (`Alone`), how
  far that has got decides what the other threads may still find (`SettingUp`, `Tearing`,
  `Torn`, `Closings`, `Bugs`), and a destroyed mutex is out of reach of the media thread,
  of the worker and of whoever looks for the bug (`Mutexes`). What a step writes to a stack
  is said once for each way of writing (`Goes`, `Calls`, `Returns`, `Nests`, `Learns`),
  so that the invariant speaks of labels and not of sequences. TLC checked `IInv` with
  two streams and two API threads, and `Usage` with two streams that overlap, before
  they were proved.
* **`CodecProofs`**: `Utf8IsWellFormed`, `AlphabetReadBack`, `ChunkReadBack`,
  `LengthReadBack`: the formats, for every byte, sextet, chunk and length.
* **`UriProofs`**: `SameHost`, `SamePort`, `CutOffStaysValid`: two functions written
  separately agree on every URI, of any length.

Only model-checked: everything with fairness (`DrainEnds`, `EventuallySent`,
`DisconnectReturns`, `QueueDrains`, `IdleLinePinged`, `ResponseEnds`,
`WholeFramesPlayed`, `CommandsReturn`, `BacklogDrained`, `HandledInTheEnd`), which is
out of the prover's reach.
That a whole text goes through `is_valid_utf8` or base64 is an induction over its
length, which the prover cannot do either; the theorems are about one step of it.

## 6. What is not modelled

* The XOR mask of a frame, the text of the HTTP upgrade with `Sec-WebSocket-Accept`,
  the scheme and the default ports of a URI, and the number a port stands for.
  `processFrame` in `WsClient` sees whole frames only; `Wire` has the rest.
* The loops of base64, a third-party file, over a text.
* How `stream_function` splits its arguments; it keeps no state, and each of its branches
  calls one operation that is modelled.
* `send_initial_metadata` and the connection events, which change no state here.
* `playback_paused` is never set by the code and therefore absent.
* The callback slots are assigned by `markCleanedUp` while the worker may be
  calling them: a data race on `std::function` with no meaning a model could give
  it. `Session` takes the assignment for atomic and `quiet` for its result.
* Module load and shutdown, JSON, Opus, Speex, OpenSSL, logging.

What the models leave out by a condition in a property, and the code does:

* Frames of 30 ms and a buffer of 40 ms: the second frame does not fit, is dropped, and
  so is every later one, since `sbuffer` never becomes exactly full
  (`audio_streamer_glue.cpp:825-829`). Frames of 40 ms, resampled without a buffer, lose
  half of every frame (`:854`). `Fits` excludes both.
* On TLS, bytes of a record beyond the 8192 of a read stay with OpenSSL until the peer
  sends again (`ws_client.cpp:433`); `HandledInTheEnd` excepts them (`Withheld`).
* After a store of the flag word that undid `cleanup_started` or `close_requested`
  (`audio_streamer_glue.cpp:693`, `:221`), `OneTeardown`, `SafeLocks`, `UsesClient` and
  `ClosureMeansHangup` claim nothing (`lost`), and `CountsMatch` and `TracksWholeFrames`
  nothing after one that undid `playback_in_response`.

What `README.md` of the repository says and the code contradicts, as exceptions of
`PlayedAsMeant` and `EventsAsDocumented`, which hold of everything else:

| `README.md` | The code | Exception |
|---|---|---|
| `:87`, `STREAM_SAMPLE_RATE` is the "default sample rate for raw binary stream" | `rawAudio` metadata without a `sampleRate` sets 8000 (`audio_streamer_glue.cpp:427`) | `DefaultForgotten` |
| `:139`, "sample rate from metadata overrides `STREAM_SAMPLE_RATE`" | the variable is read after the connection has been started (`:578-584`), and overrides metadata that came first | `MetadataOverridden` |
| `:131`, raw audio of "any 8kHz-multiple sample rate" | rates above 64000 are refused (`:479`) | `TooFast` |
| `:143`, play is "fired for each incoming JSON `streamAudio` response" | raw or opus audio of which nothing is left after decoding is taken for metadata (`:280`): json is fired, raw mode switched on, and later binary audio is of its rate | `TakenForMetadata`, `RateOfBlankAudio` |
