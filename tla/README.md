# SHRUTI: models, checks and proofs

SHRUTI turns two or three phones into a microphone array. Each phone captures 20 ms
audio frames, frames them as packets and streams them over a WebSocket to a laptop, which
queues them per phone, cuts aligned windows out of them and localises, beamforms and
transcribes the speaker. This directory holds TLA+ models of the parts of that system
whose correctness depends on order, interleaving, loss and limits, the TLC runs that
check them and the TLAPS proofs about them.

Paths below are short for the repository's: `laptop/` is `apps/laptop/shruti_array/`,
`android/` is `apps/android/app/src/main/kotlin/dev/shruti/`.

## 1. Inventory

| Component | State | Operations | Talks to | What is hard | What makes it correct |
|---|---|---|---|---|---|
| `PacketServer` `laptop/ingest/websocket_server.py` | `_connections` (queue, packet_times, sequence, dropped_frames each), `registered_phone_id` per socket, counters | accept a socket, `_on_packet`, the `finally` of `_handle_connection` | phones over WebSockets; `DspLoop` takes from the queues; the dashboard reads the gauge | one coroutine a socket, a reconnect beside a stale socket, duplicates, reordering, loss, a full queue, the rate window | the consumer sees a lossy but ordered stream; books balance; a connection has exactly one owner |
| `DspLoop` `laptop/dsp_loop.py` and `StreamAligner` `laptop/sync/alignment.py` | `_buffers`, `_streams`, `_master_id`, `_subscribers` | `buffer_pcm`, `pop_from_queues`, `aligned_window`, `step`, `drop_phone`, `register`, `frames` | the server's queues, subscribers, the operator | membership changing between steps, backlog, the one-second cap, slow subscribers | a buffer is the end of what its queue delivered, in order; windows advance and are paid for; a dropped phone leaves nothing in the loop |
| Live pipeline `tools/live_two_phones_radar.py` | composition of the two above | `live_loop` | everything | phones dying and coming back | frames keep coming |
| `TransportClient` `android/transport/TransportClient.kt` | bounded queue, `webSocket`, `backoffMs`, counters, all shared without a lock | `send`, `senderLoop`, `ensureConnected`, `closeQuietly`, three callbacks | service coroutines, OkHttp threads, the laptop | every interleaving of five threads; failures at any point; backoff | order per producer, every drop of the queue counted, one live socket, no stall, reconnection |
| `CaptureService`, `ChirpService` `android/capture/`, `android/sync/` | a sequence counter and a scope per instance | `onStartCommand`, the loops, `onDestroy` | `TransportClient`, through it `PacketServer` | restarts and double starts against a connection that outlives them, two services behind one duplicate filter, sockets that overtake one another | numbers are unique; a loop's own stream is never its duplicate |
| `InboundWebSocketServer` `android/transport/` | `started`, `server`, `clients`, a lock for each socket's output | `start`, `stop`, `broadcast`, accept loops, readers | capture and chirp loops, dialling laptops | accept against stop, a write that blocks under the lock, PONG against packet | what a laptop reads is whole; a blocked broadcast has a way out |
| `phone_dialer` `laptop/ingest/` | statistics of a dial | `dial_one`, `dial_many` | the inbound server | a corrupt packet, timeouts, a laptop that sleeps | messages arrive whole |
| Wire protocol `laptop/protocol.py`, `Protocol.kt` | none | frame, parse, verify | both ends | field widths, order of checks, damage anywhere | round trip; nothing altered is accepted |
| `MultiSpeakerTracker` `laptop/tracker.py` | tracks, `next_id` | `update` | `DspLoop`'s `step` | boundaries of radius, limit and timeout; pruning after association | speakers are told apart and keep their track |
| `LoopRecorder` `laptop/recorder.py` | chunks per phone | `record`, `finalise` | `DspLoop`'s frames, the loaders | positional channels; a death between two files | a file holds its own phone |
| Fallback, replay, demo `laptop/fallback.py`, `replay.py`, `demo.py` | files picked; buffers | `pick_most_recent_per_phone`, `read_wav`, `batch_ingest`, the replay and demo loops | the recorder's and the phones' files, `DspLoop` | files half written, of another run, of another length | nothing torn is loaded; stems stay in step |
| `AuditService`, `WavFileWriter` | a WAV file | record, patch the header | the fallback reader | an end before the patch | an unpatched file is not taken for a capture |
| Metrics server `laptop/ingest/metrics_server.py` and the live tool's loop `tools/live_two_phones_radar.py` | gauges, mode, transcript, accumulated audio | requests, button, hotkey, one turn of the loop | dashboard viewers, the packet server, the recogniser | several requests, the loop and a key between two awaits; two owners of one mode | the recogniser misses nothing and repeats little |
| Boot stamp `laptop/boot.py` | a file | `mark_boot` | the live tool, the metrics server | two programs, a kill between create and write | the stamp comes to rest and is what everyone reports |
| Speech models `tools/fetch_asr.py`, `laptop/asr/` | four files, an engine | `fetch`, `get_asr_engine`, `transcribe` | the network | an interrupted download, another model in the same place | what counts as fetched loads |
| TDOA and chirp correlation `laptop/tdoa/`, `laptop/sync/correlation.py` | none | `find_offset`, `find_offset_sub_sample`; `gcc_phat` is not modelled | the aligner, `step` | circular indices at both ends | lags are right in size and sign |
| Beamforming, rendering, logging, configuration, harness | none | numeric and text functions | | | out of reach of this method |

The hazards of the code, each at its line and with the properties that cover it, are
listed in `PROJECT.json`.

## 2. Modules

| Module | Models | Extends / composes |
|---|---|---|
| `PacketServer` | the packet receiver; actions `Connect`, `RejectSize`, `RejectMalformed`, `RateLimited`, `Duplicate`, `Accept`, `Close`, and from outside `Take` (the DSP loop) and `Tick` (the clock) | |
| `LossyStream` | abstract: what a receiver promises about each phone | implemented by `PacketServer` |
| `PacketServerMC`, `PacketServerClaims` | instances; a documented claim | `PacketServer` |
| `PacketServerProofs` | theorems | `PacketServer`, the TLAPS library |
| `DspLoop` | the DSP loop with the aligner's membership | |
| `DspLoopMC` | instances; documented claims | `DspLoop` |
| `DspLoopProofs` | theorems | `DspLoop`, the TLAPS library |
| `TransportClient` | the phone's sender, one shared access a step | |
| `LossyLink` | abstract: what the phone's transport promises its services | implemented by `TransportClient`, a theorem |
| `TransportClientMC` | a documented claim | `TransportClient` |
| `TransportClientProofs` | theorems | `TransportClient`, the TLAPS library |
| `PhoneSession` | capture and chirp services of a phone feeding the server | composes with `PacketServer` |
| `PhoneSessionMC` | instances | `PhoneSession` |
| `PhoneSessionProofs` | theorems about both halves together | `PhoneSession`, `PacketServerProofs` |
| `LivePipeline` | server and loop as the live tool composes them, without bounds on how long they run | |
| `LivePipelineProofs` | theorems | `LivePipeline`, TLAPS |
| `WavFiles` | WAV files as their readers see them: header against data, names, picks | no state; used by `BatchTools` |
| `BatchTools` | recorder, audit files, `batch_ingest` and the loaders around one directory | `WavFiles` |
| `ArrayDrivers` | the loops of replay, demo and soak, with the tracker | |
| `ModelFetch` | the download of a speech model and the choice of an engine | |
| `BootStamp` | `mark_boot` of several programs | |
| `LiveShow` | the live tool's event loop: dsp loop, hotkey, recogniser, metrics server | |
| `DialIn` | the phone's inbound server and the laptop's dialer, thread by thread | |
| `DialInProofs` | theorems | `DialIn`, the TLAPS library |
| `Lags` | the correlators' index arithmetic | |
| `Wire` | framing, header checks and CRC-32C, bit by bit | |
| `LaptopPrograms` | which of these is run: `shruti-array <cmd>` or a tool of its own | composes the eight above |
| `LaptopProgramsMC` | its instance | `LaptopPrograms` |
| `ToolsProofs` | theorems about each of the programs without threads | `LiveShow`, `BatchTools`, `ArrayDrivers`, `BootStamp`, `ModelFetch`, the TLAPS library |
| `LaptopProofs` | theorems about a session, and about `Wire` and `Lags` | `LaptopPrograms`, `ToolsProofs`, `DialInProofs` |

### How state and actions correspond to the code

*PacketServer.* asyncio switches coroutines at an await only. `_on_packet` awaits nothing
but `_lock`, which is never held across a switch, so one call of it, and one run of the
`finally` block, is one action. `_on_packet`'s returns are one action each; a valid packet
always creates or finds the connection and notes the packet (`Lookup`, `Store`,
`Counted`) before the three outcomes part. A packet is its size and CRC verdict, identity
and sequence. `BYTES_RECEIVED` and the log are left out. `now` is `time.time()`. The
histories `acceptedAt`, `taken` and `silent` are read by no action.

*DspLoop.* The methods await nothing, so each is one action. A sample is the number of
the instant it was captured at; 0 stands for the silence a heartbeat carries. `step()`
with its numeric middle abstracted is three actions: not all phones ready, a frame, and the
exception on an empty array. What reaches `frames` is which phones a frame holds, their
samples, and the array element each channel is steered with. What arrives is what
`PacketServer` puts on a phone's queue: frames in order, of which any may be missing
(`ArriveAudio`), heartbeats, with the oldest packet evicted from a full queue (`Queued`), and
the queue gone when the phone hangs up (`Disconnect`). The history `delivered` is what a queue
handed over; no action reads it.

*TransportClient.* The fields are volatile and shared by the producers, the sender thread
and OkHttp's threads, so every access of one is an action: `send()` is up to three steps,
`closeQuietly` two, `ensureConnected` a read, a connect and an assignment, the doubling of
`backoffMs` a read and a write, between which a callback may reset it. A socket's number
may be used again once nothing refers to it, which keeps the state finite without bounding
the number of reconnects. The context is set before the sender starts; an exception of
`ensureConnected` is the one it can raise then, a URL that does not parse. OkHttp is external
and modelled from how it is used: connecting in the background, `send()` returning false on
a closed or failed socket, one terminal callback per socket.

*PhoneSession.* A coroutine is where it is in its loop and the number it drew. The
transport is reduced to what `LossyLink` says and `TransportClient` is proved to implement: its
queue keeps order and may lose packets. `Ship` hands the oldest to the current socket, and
`Reconnect` opens another; every socket is a line of its own, read by its own handler
(`Deliver`), so that what an old socket still carries may be read after what came over a newer
one. The server's own actions are reused unchanged.

*LivePipeline.* Packets are counted and not told apart, so that the system runs forever and
liveness means something; a buffer counts packets as well. An iteration of `live_loop` is
one action, since it awaits its sleep only. A packet is queued (`Stream`) or refused
(`Refuse`), for the rate limit or for its number. Of the numbers the model keeps which phones
are `behind`: restarted, and numbering from 0 under the record of their last life. They are
refused until they catch up or the old socket is pruned.

*WavFiles, BatchTools.* A file is the samples its header promises and the samples behind
it; a name is its form and its numbers, of which `extract_phone_id_from_stem` reads one.
`Readable` is Python's `wave` module: it raises on a header that is not there and on the
placeholder's sizes, and `read_wav` divides what it read by the frames promised and raises
when the width comes out wrong. `_write_mono_wav` is two actions (`OpenWav`, `CloseWav`),
between which a loader may look or the recorder die; `batch_ingest` reads one file an action.
The directory is ordered by last write, which is what the modification times are used for.

*ArrayDrivers.* A turn of `replay_directory`, of the demo or of the soak is one action: buffer a window of
every phone, `step()`, sleep. The window replay buffers is padded at the end of the stem.
Positions are points of a line, and what `localize_2d` finds is an input. `update` of the
tracker is one operator, association and spawning before pruning, as in the code. What may
pass between two turns belongs to the run: replay and demo sleep for a window, soak does not. A
reflection may be located anywhere, beside a speaker too, and then moves his track as it does
in the code; the history `blurred` keeps the speakers this happened to.

*ModelFetch, BootStamp.* One file operation an action: `write_text` and `write_bytes` truncate
first and write then; the time that is stamped is taken before (`TakeTime`). `disturbed` is a
history.

*LiveShow.* A turn of `live_loop` runs between two awaits and is one action; the handler of a
request is one action for each of its awaits (line, headers); the refresh of the gauges may raise
(`GetFails`). `mode` stands in both
`live_loop` and `MetricsHTTPServer`, as in the code. Gauges nobody's decision depends on
(uptime, azimuth, pitch, sync) are left out.

*DialIn.* An action is what a thread does between two points at which it may wait: the monitor
of `clients`, the lock of an output, a write. A message is written in two pieces, each of
which needs room in the kernel's buffer. `CloseSocket` and `RemoveClient` are the two halves
of `close()`, `StopClients` and `StopServer` of `stop()`, `Broadcast` and `EnterMonitor` of the
way into `broadcast`; the accept thread checks `started` in a step of its own. The text of the
upgrade request, and writer threads, which do nothing but end, are left out.

*Lags.* Signals are short integer sequences and the correlation is the sum which the FFTs compute,
so that `_window_lag`, the wrap to a signed lag, the parabola and the truncation of `int()`
are exact. `Total` is the running sum, `NextPow2` the code's doubling loop. The chirp is a
constant, any signal that is not silent, since nothing in the search depends on which it is.
`gcc_phat` divides every bin of its spectrum by its magnitude and is left out.

*Wire.* A number is the set of its bits; `pack` puts fields where `struct` does, and cuts flags
and phone id to a byte; CRC-32C is the table-driven one of `protocol.py` with its self-test,
a step for each byte (`ByteStep`) over a table of eight turns (`TableStep`).

## 3. Runs

Passing runs check properties; the others show a documented promise that the code does
not keep, with the shortest execution that breaks it.

| Run | Bounds | Shows |
|---|---|---|
| `PacketServer` | 3 sockets, 2 phones, queue 2, rate 2 in a window of 1 tick, 4 packets, sequences 0..3, 2 ticks | order, gap accounting, books, rate, gauge, ownership and the refinement of `LossyStream` |
| `DspLoop` | 2 phones, 3 audio frames each, any of which may be missing, 1 heartbeat, queue 3, frames of 2 samples, buffer 3, 3 steps, 2 registrations, drops or hang-ups, 1 subscriber with queue 2 | buffers, windows, membership, fan-out |
| `TransportClient` | 2 producers of 3 packets, queue 2, backoff in 2 doublings, 2 sockets in use at once, any number of reconnects | order, counted drops, a single live socket, and that the queue drains |
| `PhoneSession` | 1 phone with 2 services, 2 coroutines, 2 instances a service, 2 sockets that may overtake one another, 4 packets received | numbering against the duplicate filter |
| `LivePipeline` | 2 phones, one of which dies and returns, 2 deaths | frames keep coming when the operator drops a phone that stays away, and when one that comes back is refused at first |
| `LaptopPrograms` | see below | files, drivers, tracker, model, boot stamp, live loop and dashboard, dialling in, the chirp search and packet format: twelve properties, each of one program |
| `PacketServerStarved` | no clock | evictions are not in `shruti_dropped_frames_total` (docs/TROUBLESHOOTING.md:38) |
| `DspLoopDisjoint` | no membership change | a backlog is handed out twice (dsp_loop.py:222) |
| `DspLoopSteering` | no heartbeat | the survivor of a drop is steered with another phone's position (dsp_loop.py:147) |
| `TransportClientReconnect` | as `TransportClient` | a socket that fails at once stays in use for good (docs/OPERATIONS.md:87) |
| `PhoneSessionRestart` | as `PhoneSession` | a restarted service is refused (CHANGELOG.md:65) |
| `LivePipelineKill` | as `LivePipeline`, no operator | the live loop stops with the first phone that dies (test_dsp_loop_kill_phone.py:3) |

*Why the bounds are enough to be interesting.* The server's queue overflows (three
accepted packets against a cap of two), the rate limit is exceeded (four packets against
two) and recovers after the window, the first phone has an old and a new socket at the same
time, and a phone's connection is created, pruned and created again. The DSP buffer's cap
is not a multiple of the frame, so it cuts inside one; a backlog of more than a window
occurs; both phones can be dropped. In the transport both producers can stand between their
two offers while the sender takes and a callback runs. Every bound is a constant named in
the module and stated in a guard.

*`LaptopPrograms`* is one run because the programs share no state: a session is with one of
them, so its states add up (1.25 million) instead of multiplying. Its bounds are: `files`, two
recorded phones in either order and two audit phones, frames of 2 samples, 1 frame, 2 captures,
a directory that starts empty or with a scene of the corpus: enough for a recording over an
older one, for a death inside any file, and for a loader in between; `drivers`, stems of 5 and
20 samples against a window of 2, two and three phones and one for which the array has no
element, two speakers, one reflection beside a speaker and one far off, two tracks at most, time 12: a
stem ends inside a window, the list of tracks is full, tracks expire, a reflection takes a
track along; `fetch`, two models and a placeholder, three calls; `boot`, two
programs and four starts; `live`, two viewers, two phones, two frames of which one is kept;
`dial`, one dial, two producers, one piece of room, two starts, two messages: both producers,
the reader and `stop` can want the socket at once, and an old accept loop outlives its socket; `lags`, a chirp of 3 samples that
resembles itself one sample on, recordings of 3 to 13 samples, lag windows of 1 to 4 and none,
every place of the chirp, so that it starts on either side of half the transform; `wire`, three headers with the extreme values of every
field, bursts of 1, 8 and 32 bits at every position, every size from nothing to two bytes too many.

*Deadlock.* All runs say `CHECK_DEADLOCK FALSE`: the bounded counters are used up in the
end, and the code may rightly wait for packets forever. That nothing waits for ever when it
should not is what `Drains` and `KeepsGoing` say.

*Mutants.* Every property of a passing run has a mutant: a definition changed the way a
plausible bug would change it (an evicted packet uncounted, a boundary moved, a close that
is forgotten), under which the run finds the property violated. The mutated forms stand
before the definitions they vary, marked "Mutant".

### Fairness

* `TransportClient`: the sender thread and a callback that has begun are run by the
  scheduler, and a producer in the middle of `send()` finishes it: weak fairness each. No
  fairness for `Start`, `Send`, `OnOpen` or a socket's end: nothing makes a service send or
  the network come up or fail. `Drains` needs no more, because a `send()` on a socket that
  is neither open nor dead is accepted by OkHttp's own queue, and a sleep ends.
* `LivePipeline`: the event loop runs `live_loop` after each sleep; a living phone captures a
  frame every 20 ms, and while its numbers are not behind a record, its packets are queued: 51
  a second or so are within the limit of 400 in two seconds (websocket_server.py:64-65). The
  WebSocket keep-alive ends the socket of a dead phone, and with it the record a restarted phone
  is behind. The drill adds an operator who drops a phone that stays away. Deaths, returns,
  refusals and catching up are not fair.

## 4. Proofs

Thirty-three of the thirty-six properties of the passing runs are proved for every value of the
constants. What a theorem assumes of the constants is the named ASSUME of its module, which TLC
evaluates in the runs. The reader who wants the argument of a proof first finds it in the
invariant named with it below.

### `PacketServerProofs`

For every finite set of phones, every set of sockets, every queue length, rate limit and bound
(`ServerAssumption`, `NoConnAssumption`):

* `TypeCorrect`, `QueuesInOrder`, `DroppedFramesExact`: from one inductive invariant, `IInv ==
  TypeOK /\ QueueInOrder /\ GapsAccounted /\ Fresh`. `QueueInOrder` and `GapsAccounted` are not
  inductive: a packet that creates a connection starts it at sequence -1 with an empty queue,
  and the histories of its phone must be at their initial values for the two to hold of it.
  `Fresh` says that they are for every phone without a connection, which is what `Close`
  establishes. The proof has one step per action; the work is in the lemmas about a connection
  (`NotePacketFields`, `PutDroppingOldestOrdered`, `EnqueuedOrdered`) and in
  `OneConnectionMoves`, which reduces an action to the one phone it touches.
* `BooksComplete`: `EveryPacketCounted` is inductive relative to `IInv`.
* `GaugeExact`: relative to `IInv`, with `StoreConnected`, `CloseConnected` and `TakeConnected`
  saying what each step does to the set of connected phones.
* `OneOwner`: assuming `FixedIdentities` (a socket carries one identity), with `RegisteredOwn`:
  a socket has registered only what it carries, and what an open socket registered last is
  connected. Without the assumption the statement is false: see the hazard at
  websocket_server.py:144.
* `Refinement`: every step of `PacketServer` is a step of `LossyStream` or leaves its variables
  unchanged. Order and the range of what is taken come from `QueueInOrder`.
* `RateLimitHolds`: `RateBounded` counts a history the code does not have. The invariant
  `RateInv` is an injection: every accepted packet within the window has a place of its own in
  `packet_times` with its time in it. Noting a packet shifts the places by what was dropped from
  the front, all of it stale (`DroppedAreStale`, `NotingExplains`); a packet is accepted only
  while `packet_times` is no longer than the limit, and an injection into it counts.

### `TransportClientProofs`

For any finite set of producers, any sockets, queue and backoff (`TransportAssumption`), with
every access of a shared field a step:

* `TypeCorrect`: needs `SenderShape`, which says in which of its states the sender has a packet
  in hand and a socket in its variable.
* `OneLiveSocket`: `SocketInv` says where a socket that is not retired can be: in the field, or,
  while the sender stands before the assignment, in its variable. From this at most one is live,
  whichever callbacks have started.
* `OrderOfSends`: wire, hand and queue are one sequence, `Underway`. `OrderInv` says that it is
  in order for each producer and ends below what that producer places next. `OneMove` lists all
  that a step can do to it (drop the head, drop one in the middle, append) and `KeptStep` that
  each keeps the order.
* `TransportIsLossyLink`: every step of the threads is a step of `LossyLink` or changes nothing
  it speaks of. What the sender holds and what is queued are one line (`Pending`). A packet has
  entered or been turned away when its producer is done with it, which is at the first offer or
  at the second; a failed iteration or a dead socket loses the first of the line, and a
  producer that makes room the first or, behind the sender's back, the second.
* `DropsAreCounted`: `DropsCounted` is inductive given `SenderShape`; the lemmas count the
  producers between their two offers. It is about the queue: what the sender took out of it and
  then lost is section 5's.

### `DspLoopProofs`

For any phones, frame, window, buffer and queue lengths (`DspAssumption`), from one invariant
`LoopInv`: `TypeCorrect`, `BuffersAreRuns`, `NothingLeftBehind`, `WindowsArePaid`,
`WindowsGoForward`, `ReadersInOrder`.

The audio of a phone is one line (`Line`): what its queue has delivered, and behind it the
packets that wait. The line is in order and the buffer is the end of its delivered part. A
packet that arrives is put at the far end, after any gap; an eviction or a hang-up takes packets
out before they are delivered; a pop moves the boundary by one packet; the cap, a window and
`drop_phone` cut off a beginning. So the description survives without an induction over samples.
Windows go forward because a window ends where the buffer begins afterwards (`FramesPast`);
`Paid` counts windows against what was delivered.

### `PhoneSessionProofs`

The phone never looks at the server, so `PhoneInv` stands alone and gives `NumbersAreUnique`:
what is under way was numbered by its instance's counter, and once, and on every line the packets
of one loop are in the order of their numbers (`LinesSorted`), below the one in the loop's hand
(`HandsLast`). With the links typed by it, `SessionServes`: every step of a session is a step of
`PacketServer` or leaves the server alone, so that every theorem of `PacketServerProofs` holds of
a session (of `OneOwner` only with its assumption): `SessionStreams` draws these conclusions,
`LossyStream` among them, and `SessionTypeCorrect` uses it at once. `OwnStreamIsHeard` is where the
two halves meet: `Ahead` says that what a loop still has on a socket is newer than what the
connection accepted from it over that socket, for as long as that is what it accepted last. No
bound on launches, services or sockets is assumed; what can be refused is what another loop or
another socket overtook.

### `LivePipelineProofs`

`TypeCorrect` needs `QueuesConnected` (a phone without a connection has an empty queue) and
`DeadAreOrphans` (the record of a dead phone is one that will be pruned). That frames keep coming
is liveness and TLC's.

### `ToolsProofs`

* `NoFrameUnheard` (`LiveShow`): `LiveInv` adds the types; the work is that what `Kept` leaves is
  the end of the run (`Collected`).
* `EveryTurnAFrame`, `TracksAreSpeakers` (`ArrayDrivers`): `Owns` follows a speaker nobody has
  blurred: as long as his track is within the timeout it stands where he may be heard, and no
  other is within reach of him, be it a speaker's or a reflection's (`Far`, `FarApart`). The
  assumption is that speakers stand further apart than the association radius and twice the
  jitter; reflections may be anywhere. That association takes the closest track then never
  takes another's follows from the triangle inequality.
* `TornIsRefused`, `LatestRunLoads`, `NamesAreRight` (`BatchTools`):
  `WritesInTurn` says of a recorder that writes alone that each phone's file is either still
  ahead of it or the newest of that phone; at the end none is ahead, which is `LatestRunLoads`.
  `SameOrder` is what the mapping by position rests on.
* `StampIsSettled` (`BootStamp`): an action property, with several first starts and kills at any
  point. Who finds a stamp does not write one, so the programs that write are those that found
  none, and once these are done nothing sets out to write (`StampStays`).
* `FetchLeavesModel` (`ModelFetch`): `Behind` says that the files before the one being looked at
  are not empty and, undisturbed, whole. `AdvancedStep` is the step from file to file.

### `DialInProofs`

For any producers, dials, starts and kernel buffers; producers and dials are different things
(`DialInAssumption`):

* `DialsAreWhole`: `DialInv`. Whoever holds an output is the one that writes there (`Held`,
  `AtWork`), the pieces on their way fit together (`Fits`), and as long as both ends are there
  the last of them says how far the holder is (`InStep`). When the socket breaks in the middle
  of a message nothing follows, so half a message is never continued by another.
* `BlockedIsWatched`: what `BroadcastHasWayOut` says without ENABLED. A socket that is open has
  a reader that has not closed it (`OpenIsRead`); a producer that is blocked holds the output,
  so the reader is not writing; and what it needs to close the socket is not the monitor.

### `LaptopProofs`

* `SessionsAreSafe`: the eleven properties proved of single programs hold in a session with any of
  them. Its lemma `ProgramsApart` says that a session implements the specification of each.
* `HeadersReadBack` (`Wire`): every field of every header, over its whole width, reads back as
  it was framed, and the samples do, whatever the checksum. The fields do not overlap
  (`SealedBits`), so each is read by itself (`FieldReads`). `FramedIsVerified` adds that the
  sample count reads back as the number itself (`ValueOfBits`) and that the receiver computes
  the checksum the sender did, for it depends on the bytes before it only (`CrcOfPrefix`).
* `BurstsAreSeen`: two accepted packets never differ by a burst of up to 32 bits, wherever it
  lies, header and checksum included. The register of the CRC is linear over exclusive or
  (`TurnIsLinear`), so the difference of two computations is the computation of the difference;
  a turn can be undone because the polynomial has bit 31 (`TurnBack`), so a difference that is
  not empty stays so; and a burst is 32 bits at most, which one word of the register holds at the
  end of it (`RegisterExists`, `BurstIsSeen`). With `OtherSizesAreRefused` and an invariant that
  says what is on the wire was framed or damaged once, this is `PacketsReadBack`.
* `LagsAreRead`: `LagsAreSigned` for every chirp that is not silent, every recording and window.
  The argument: a padded signal that fills at most half of the transform differs from each of
  its rotations (`RotationIsSeen`), and the sum of the squares of the differences is positive,
  so it is strictly most like itself un-rotated (`LikestItself`); the recording is the chirp
  rotated by the delay (`PlacedApart`), so the correlation has its only peak there
  (`CorrelationPeaks`). The window keeps it (`WindowKeepsPeak`), the parabola moves it by less
  than a sample (`RefinedByLess`), and the index is read as a lag on the right side of half the
  transform (`PeakIsFound`).
* `LagInWindow` (`Lags`): whatever the correlation and its length, if any entry within the
  window is positive the peak that `find_offset` takes is within it, though zeros are what
  stands outside. A peak exists because a least prefix without one cannot (`PeakExists`).

Both parts reason about recursive functions: running sums, the halves of a number, the
register of the CRC, the doubling of a power of two. The induction theorems of the library cannot
be instantiated here, so each function's existence is derived from the least element of the set
of lengths at which it would fail (`UpTo`, `RunExists`).

What is assumed of the constants is that the chirp is heard, bursts have 1 to 32 bits and headers
have fields of their types (`LagsAssumption`, `WireAssumption`).

### Only model-checked

* Liveness: `Drains`, `KeepsGoing`; and ENABLED, in `BroadcastHasWayOut`, whose state part is
  `BlockedIsWatched`.
* The violations of section 3, which are executions.

## 5. Behaviours met on the way

The six runs that expect a violation are in section 3. What follows the models show as well.

### Where the code and its own words differ

No run is spent on these. No property covers the case either: the properties stated are about what the
code does keep.

* `TransportClient.kt:29-30` says of a failure that "the oldest packet is dropped instead, and the
  drop is counted". The packet whose `send` failed (129-143) is lost and counted nowhere. Line 63 calls
  `sentCount` the packets "successfully delivered to the WebSocket": one for which OkHttp's
  `send()` returned false counts too. `DropsCounted` says what `droppedCount` does count, the
  packets that left the queue unsent.
* `ChirpService.kt:45-50` (and CHANGELOG.md:59, 81) says that a counter of their own keeps the
  heartbeats from being dropped by the laptop's sequence check. `MainActivity` starts both
  services (202-207), and the check has one number for both: heartbeats, one in two seconds against fifty
  frames in one, are behind the audio at once and are dropped. `OwnStreamHeard` says that this, a
  second loop or another socket is the only way to be dropped.
* `phone_dialer.py:74-75` says that packets which fail their CRC are counted and dropped:
  `verify_packet` raises, which ends the dial, and nothing is counted (143).
* `metrics_server.py:138-140` says that what is polled "reflects the current state, not a stale
  gauge". The hotkey changes the mode in `live_loop` without telling the server, whose gauge is
  then wrong until the button is used.
* `boot.py:37-40` says that "the original boot time wins". Two first starts at once may report
  different times and keep either; a kill between creating and writing the stamp leaves an
  empty file, which no program survives reading. `StampSettles` says what is left: once the first
  writers are done the stamp is for good.
* `gcc_phat.py:25-33` gives the opposite sign of what is returned, which the tests follow; and a
  delay of one sample has the index `n - 1`, is taken for an edge and read as 0 (line 51). The
  function is not modelled; the lines are quoted as read.
* `WavFileWriter.kt:63-66`: a finished audit file promises half its samples, against the comment.
* `audit.py:54-58` takes a file's phone from the part of its name before the first underscore, and 0
  if that is not a number; the fallback's loader knows four forms of names and else none
  (`fallback.py` 84-113). On the names the recorder writes (`toggle-..._phone1`) the two differ.
* `correlation.py:61-64` promises "sub-sample precision"; `int()` cuts the estimate back to whole
  samples (90-94). `LagsAreSigned` says that it is less than a sample off.

### Where nothing is promised

* `InboundWebSocketServer`: a reader that is answering a PING waits for the output a blocked
  broadcast holds, and both wait for the laptop: the read timeout does not apply to writes.
  A client whose reader ended before `clients.add` (lines 244-246) stays in the set until it is
  written to or `stop` runs; one accepted while `stop` runs is added after the set was cleared; a failed
  handshake leaves its socket open; the accept thread may see `started` still false and end;
  `broadcast` counts clients to which the write failed. A PONG echoes the payload still
  masked, so that the laptop's keep-alive never finds its answer.
* `PacketServer` and `DspLoop`: a gap in what a queue delivers is closed up in the buffer, which
  nothing marks, so that after a loss the phones' windows are of different instants. After
  `drop_phone` packets stay on the phone's queue and are poured in when it is registered again.
* `find_offset`: a chirp that starts half a transform into the recording, or later, has an index
  that is read from the other side (line 51): the offset comes out too small by the length of the
  transform and with the wrong sign. The transform is the power of two at or above the sum of the
  two lengths, so this needs a recording of more than half of it; `align_using_chirp` admits
  offsets of half a second, and the tests' offsets are small. `LagsAreSigned` says within which
  range the sign is right.
* `MultiSpeakerTracker`: a reflection located within the radius of a speaker's track takes the
  track along, and the speaker may then be given another. `SpeakersToldApart` is about the
  speakers this did not happen to.
* `MetricsHTTPServer`: a malformed request line leaves the connection open; headers are awaited
  without a timeout; a boot stamp that cannot be read leaves every poll unanswered.
* `fetch_asr`: a file an interrupted download left behind counts as present for good, and a
  recogniser that does not load is tried again at every turn.
* `LoopRecorder`: after `drop_phone` the remaining channels are recorded under the names of
  the phones before them.
* `pick_most_recent_per_phone`: the newest file of each phone, whatever run it is of; a phone's
  own audit file, or a second recorder's, is mixed with a run's. `LatestRunTogether` is about a
  capture after which nobody else wrote.

## 6. Not modelled, and the plan

Not modelled because there is no state or order to check: beamforming, `localize_2d` and chirp
synthesis and `gcc_phat` (floating-point), the recogniser and the voice themselves, rendering, logging,
configuration, the regression harness and the benchmarks, the audit
tool, the dialer's counters; `next_rung`, a table that nothing but
its own command reads, and `file_drop_check`, which nothing calls; the setup screen and
identity preferences, which are inputs of `PhoneSession` and `PacketServer`; the text radar;
gauges that are written from one place and read by nobody.

Not modelled yet: the aligner's offsets and drift; a clock that steps back in
`PacketServer`; `Metrics.merge`.

Theorems next: that what the reader of a subscription sees is what `step` produced while it was
open; a bound on how many packets a restarted service loses to the duplicate filter; the
refinement of `LossyStream` carried from a session on to the windows of `DspLoop`.
