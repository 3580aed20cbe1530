------------------------------- MODULE DspLoop -------------------------------
(***************************************************************************)
(* The real-time DSP loop, apps/laptop/shruti_array/dsp_loop.py, with the  *)
(* membership half of sync/alignment.py (StreamAligner).                   *)
(*                                                                         *)
(* The loop runs in one asyncio task and awaits nothing between draining   *)
(* the queues and the end of step(): each method is one action.  What      *)
(* interleaves with it is the packet server putting packets on its queues, *)
(* evicting the oldest and forgetting a phone that hangs up; the           *)
(* operator's drop_phone and register; and the subscribers that read       *)
(* frames().  Of a phone's frames any may be missing, lost on the way or   *)
(* refused by the server; those it queues come in order, which is what     *)
(* PacketServer shows (ImplementsStream).                                  *)
(*                                                                         *)
(* Audio is abstracted to where it comes from.  Sample n > 0 of a phone is *)
(* the n-th sample it captured and all phones capture sample n at the same *)
(* time; a heartbeat's samples are Silence.  Packet k > 0 is audio frame k *)
(* and Heartbeat stands for any heartbeat.  Phone ids are indexes of the   *)
(* array geometry, from 0, as in config.ArrayGeometry.element().           *)
(***************************************************************************)
EXTENDS Integers, FiniteSets, Sequences, SequencesExt

CONSTANTS
  Phones,        \* phone ids, 0..n-1
  Startup,       \* the phones registered before the loop starts, in order
  Subscribers,   \* consumers of frames()
  FrameLen,      \* samples of an audio packet (960)
  HeartbeatLen,  \* samples of a heartbeat packet (8)
  WindowFrames,  \* window_n_frames
  QueueCap,      \* queue_size of the packet server
  BufferCap,     \* sample_rate_hz: one second of samples
  MaxPop,        \* max_packets_per_phone
  SubscriberCap, \* maxsize of a subscriber's queue
  NoMaster,      \* _master_id is None
  MaxFrames,     \* bound: audio frames captured per phone
  MaxHeartbeats, \* bound: heartbeat packets
  MaxSteps,      \* bound: calls of step()
  MaxChanges     \* bound: registrations, drops and hang-ups after start-up

Silence == 0
Heartbeat == 0
NeedSamples == FrameLen * WindowFrames

ASSUME DspAssumption ==
  /\ Phones \subseteq Nat
  /\ FrameLen \in Nat \ {0} /\ HeartbeatLen \in Nat /\ WindowFrames \in Nat \ {0}
  /\ BufferCap \in Nat /\ BufferCap >= NeedSamples
  /\ QueueCap \in Nat \ {0}
  /\ MaxPop \in Nat \ {0} /\ SubscriberCap \in Nat \ {0}
  /\ NoMaster \notin Phones
  /\ Startup \in Seq(Phones)
  /\ \A i, j \in 1..Len(Startup) : Startup[i] = Startup[j] => i = j
  /\ MaxFrames \in Nat /\ MaxHeartbeats \in Nat /\ MaxSteps \in Nat /\ MaxChanges \in Nat

VARIABLES
  streams,           \* the keys of the aligner's _streams, in insertion order
  master,            \* the aligner's _master_id
  buffers,           \* _buffers; an absent key is the empty buffer
  queues,            \* per phone: the PacketServer queue
  arrived,           \* per phone: the newest frame queued
  heartbeats,        \* heartbeats queued, of all phones
  delivered,         \* history: per phone, the samples popped of its queue
  frames_processed,
  windows_emitted,
  frames,            \* history: the LoopFrames returned by step()
  subscribed,        \* per subscriber: whether its queue is in _subscribers
  inbox,             \* per subscriber: its queue, as indexes into frames
  seen,              \* history: the last frame index a subscriber read
  raised,            \* whether step() raised
  changes

vars == <<streams, master, buffers, queues, arrived, heartbeats, delivered,
          frames_processed, windows_emitted, frames, subscribed, inbox, seen, raised, changes>>

Registered == ToSet(streams)

-----------------------------------------------------------------------------
(* Decoding and the rolling buffer. *)

\* Mutant: the payload is not cut off before the CRC.
SamplesWithCrc(packet) ==
  IF packet = Heartbeat THEN [i \in 1..HeartbeatLen |-> Silence]
  ELSE [i \in 1..(FrameLen + 1) |-> (packet - 1) * FrameLen + i]

\* packet_to_samples: the packet type is not looked at.
SamplesOf(packet) ==
  IF packet = Heartbeat THEN [i \in 1..HeartbeatLen |-> Silence]
  ELSE [i \in 1..FrameLen |-> (packet - 1) * FrameLen + i]

Newest(s, n) == SubSeq(s, Len(s) - n + 1, Len(s))

\* Mutant: a full buffer keeps its oldest samples.
BufferOldest(buffer, samples) ==
  LET all == buffer \o samples
  IN  IF Len(all) > BufferCap THEN SubSeq(all, 1, BufferCap) ELSE all

\* buffer_pcm: append, then keep the last second.
BufferPcm(buffer, samples) ==
  LET all == buffer \o samples
  IN  IF Len(all) > BufferCap THEN Newest(all, BufferCap) ELSE all

\* Mutant: packets of phones the aligner does not know are popped too.
PoppedUnknown(p) == IF Len(queues[p]) < MaxPop THEN Len(queues[p]) ELSE MaxPop

\* What pop_from_queues takes of a phone's queue.
Popped(p) ==
  IF p \notin Registered THEN 0
  ELSE IF Len(queues[p]) < MaxPop THEN Len(queues[p]) ELSE MaxPop

Ready == \A p \in Registered : Len(buffers[p]) >= NeedSamples

-----------------------------------------------------------------------------
Init ==
  /\ streams = Startup
  /\ master = IF Startup = <<>> THEN NoMaster ELSE Head(Startup)
  /\ buffers = [p \in Phones |-> <<>>]
  /\ queues = [p \in Phones |-> <<>>]
  /\ arrived = [p \in Phones |-> 0]
  /\ heartbeats = 0
  /\ delivered = [p \in Phones |-> <<>>]
  /\ frames_processed = 0
  /\ windows_emitted = 0
  /\ frames = <<>>
  /\ subscribed = [c \in Subscribers |-> FALSE]
  /\ inbox = [c \in Subscribers |-> <<>>]
  /\ seen = [c \in Subscribers |-> 0]
  /\ raised = FALSE
  /\ changes = 0

\* PacketServer._on_packet: a full queue gives up its oldest packet.
Queued(queue, packet) ==
  Append(IF Len(queue) = QueueCap THEN Tail(queue) ELSE queue, packet)

\* The server puts a frame on the phone's queue; the frames between the last
\* one and this never came or were not accepted.
ArriveAudio(p) ==
  \E k \in (arrived[p] + 1)..MaxFrames :
    /\ arrived' = [arrived EXCEPT ![p] = k]
    /\ queues' = [queues EXCEPT ![p] = Queued(@, k)]
    /\ UNCHANGED <<streams, master, buffers, heartbeats, delivered, frames_processed, windows_emitted,
                   frames, subscribed, inbox, seen, raised, changes>>

ArriveHeartbeat(p) ==
  /\ heartbeats < MaxHeartbeats
  /\ heartbeats' = heartbeats + 1
  /\ queues' = [queues EXCEPT ![p] = Queued(@, Heartbeat)]
  /\ UNCHANGED <<streams, master, buffers, arrived, delivered, frames_processed, windows_emitted,
                 frames, subscribed, inbox, seen, raised, changes>>

\* The phone hangs up: the server forgets its connection and the queue with it.
Disconnect(p) ==
  /\ queues[p] # <<>>
  /\ changes < MaxChanges
  /\ queues' = [queues EXCEPT ![p] = <<>>]
  /\ changes' = changes + 1
  /\ UNCHANGED <<streams, master, buffers, arrived, heartbeats, delivered, frames_processed,
                 windows_emitted, frames, subscribed, inbox, seen, raised>>

\* StreamAligner.register: the first phone ever registered is the master.
Register(p) ==
  /\ changes < MaxChanges
  /\ p \notin Registered
  /\ streams' = Append(streams, p)
  /\ master' = IF master = NoMaster THEN p ELSE master
  /\ changes' = changes + 1
  /\ UNCHANGED <<buffers, queues, arrived, heartbeats, delivered, frames_processed,
                 windows_emitted, frames, subscribed, inbox, seen, raised>>

\* drop_phone: the buffer goes and StreamAligner.unregister removes the stream;
\* _master_id is not touched.
DropPhone(p) ==
  /\ changes < MaxChanges
  /\ buffers' = [buffers EXCEPT ![p] = <<>>]
  /\ streams' = IF p \in Registered
                  THEN RemoveAt(streams, CHOOSE i \in DOMAIN streams : streams[i] = p)
                  ELSE streams
  /\ changes' = changes + 1
  /\ UNCHANGED <<master, queues, arrived, heartbeats, delivered, frames_processed,
                 windows_emitted, frames, subscribed, inbox, seen, raised>>

\* A buffer after n packets of a queue have been put in it, one by one, and the
\* history of what the queue delivered.
Poured(buffer, samples, queue, n) ==
  LET after[i \in 0..n] ==
        IF i = 0 THEN [buffer |-> buffer, all |-> samples]
        ELSE [buffer |-> BufferPcm(after[i - 1].buffer, SamplesOf(queue[i])),
              all    |-> after[i - 1].all \o SamplesOf(queue[i])]
  IN  after[n]

PouredOf(p) == Poured(buffers[p], delivered[p], queues[p], Popped(p))

\* pop_from_queues: up to MaxPop packets of every registered phone.
PopFromQueues ==
  /\ ~raised
  /\ \E p \in Phones : Popped(p) > 0
  /\ buffers' = [p \in Phones |-> PouredOf(p).buffer]
  /\ queues' = [p \in Phones |->
       SubSeq(queues[p], Popped(p) + 1, Len(queues[p]))]
  /\ delivered' = [p \in Phones |-> PouredOf(p).all]
  /\ UNCHANGED <<streams, master, arrived, heartbeats, frames_processed, windows_emitted,
                 frames, subscribed, inbox, seen, raised, changes>>

Call ==
  /\ ~raised
  /\ frames_processed < MaxSteps
  /\ frames_processed' = frames_processed + 1

\* step() with a phone short of a full window: None.
StepNotReady ==
  /\ Call
  /\ ~Ready
  /\ UNCHANGED <<streams, master, buffers, queues, arrived, heartbeats, delivered, windows_emitted,
                 frames, subscribed, inbox, seen, raised, changes>>

\* aligned_window: the channels are the last samples of every buffer, what is
\* removed are the first.
Channel(p) == Newest(buffers[p], NeedSamples)

\* Mutant: the window is copied and not removed.
Uncropped(p) == buffers[p]

\* Mutant: the samples removed are those handed out.
CroppedNewest(p) == SubSeq(buffers[p], 1, Len(buffers[p]) - NeedSamples)

Cropped(p) == SubSeq(buffers[p], NeedSamples + 1, Len(buffers[p]))

\* The beamformer's geometry: the first elements of the layout, one a channel.
LoopFrame ==
  [phones |-> streams,
   channels |-> [i \in 1..Len(streams) |-> Channel(streams[i])],
   elements |-> [i \in 1..Len(streams) |-> i - 1]]

\* Mutant: the subscribers' queues have no maxsize.
FanOutUnbounded(n) ==
  inbox' = [c \in Subscribers |->
              IF subscribed[c] THEN Append(inbox[c], n) ELSE inbox[c]]

\* put_nowait to every subscriber; a full queue misses the frame.
FanOut(n) ==
  inbox' = [c \in Subscribers |->
              IF subscribed[c] /\ Len(inbox[c]) < SubscriberCap
              THEN Append(inbox[c], n) ELSE inbox[c]]

StepEmit ==
  /\ Call
  /\ Ready
  /\ streams # <<>>
  /\ buffers' = [p \in Phones |-> IF p \in Registered THEN Cropped(p) ELSE buffers[p]]
  /\ frames' = Append(frames, LoopFrame)
  /\ windows_emitted' = windows_emitted + 1
  /\ FanOut(Len(frames'))
  /\ UNCHANGED <<streams, master, queues, arrived, heartbeats, delivered, subscribed, seen, raised, changes>>

\* With no phone registered ready() holds, the window is the empty list and
\* the min() over its channels raises.
StepRaise ==
  /\ Call
  /\ streams = <<>>
  /\ raised' = TRUE
  /\ UNCHANGED <<streams, master, buffers, queues, arrived, heartbeats, delivered, windows_emitted,
                 frames, subscribed, inbox, seen, changes>>

\* frames(): the queue is registered at the first __anext__ and removed when
\* the generator is closed; a new subscription has a new, empty queue.
Subscribe(c) ==
  /\ ~subscribed[c]
  /\ subscribed' = [subscribed EXCEPT ![c] = TRUE]
  /\ inbox' = [inbox EXCEPT ![c] = <<>>]
  /\ UNCHANGED <<streams, master, buffers, queues, arrived, heartbeats, delivered, frames_processed,
                 windows_emitted, frames, seen, raised, changes>>

Unsubscribe(c) ==
  /\ subscribed[c]
  /\ subscribed' = [subscribed EXCEPT ![c] = FALSE]
  /\ UNCHANGED <<streams, master, buffers, queues, arrived, heartbeats, delivered, frames_processed,
                 windows_emitted, frames, inbox, seen, raised, changes>>

ReadFrame(c) ==
  /\ subscribed[c]
  /\ inbox[c] # <<>>
  /\ inbox' = [inbox EXCEPT ![c] = Tail(@)]
  /\ seen' = [seen EXCEPT ![c] = Head(inbox[c])]
  /\ UNCHANGED <<streams, master, buffers, queues, arrived, heartbeats, delivered, frames_processed,
                 windows_emitted, frames, subscribed, raised, changes>>

Step == StepNotReady \/ StepEmit \/ StepRaise

Next ==
  \/ \E p \in Phones :
       \/ ArriveAudio(p) \/ ArriveHeartbeat(p) \/ Disconnect(p) \/ Register(p) \/ DropPhone(p)
  \/ PopFromQueues
  \/ Step
  \/ \E c \in Subscribers : Subscribe(c) \/ Unsubscribe(c) \/ ReadFrame(c)

Spec == Init /\ [][Next]_vars

-----------------------------------------------------------------------------
Samples == 0..(MaxFrames * FrameLen)
Frames == [phones : Seq(Phones), channels : Seq(Seq(Samples)), elements : Seq(Nat)]

TypeOK ==
  /\ streams \in Seq(Phones)
  /\ master \in Phones \cup {NoMaster}
  /\ buffers \in [Phones -> Seq(Samples)]
  /\ queues \in [Phones -> Seq(Nat)]
  /\ arrived \in [Phones -> 0..MaxFrames]
  /\ heartbeats \in Nat
  /\ delivered \in [Phones -> Seq(Samples)]
  /\ frames_processed \in Nat
  /\ windows_emitted \in Nat
  /\ frames \in Seq(Frames)
  /\ subscribed \in [Subscribers -> BOOLEAN]
  /\ inbox \in [Subscribers -> Seq(Nat)]
  /\ seen \in [Subscribers -> Nat]
  /\ raised \in BOOLEAN
  /\ changes \in Nat

Ascending(s) ==
  \A i, j \in 1..Len(s) : i < j /\ s[i] # Silence /\ s[j] # Silence => s[i] < s[j]

\* The rolling buffer of a phone is the end of what its queue delivered, at most
\* a second of it, with nothing missing, repeated or out of place, and what
\* waits in the queue is later than all of it: whatever the queue evicts or
\* loses with its connection, and whatever the cap, a pop, a window or
\* drop_phone removes, goes at the old end (dsp_loop.py 130-153, 202-215, 235;
\* websocket_server.py 210-220).  A gap in what was delivered stays closed up:
\* nothing marks it in the buffer.
BufferIsRun ==
  \A p \in Phones :
    /\ Len(buffers[p]) <= BufferCap
    /\ Len(buffers[p]) <= Len(delivered[p])
    /\ buffers[p] = Newest(delivered[p], Len(buffers[p]))
    /\ Ascending(buffers[p])
    /\ \A i \in 1..Len(delivered[p]), k \in 1..Len(queues[p]) :
         queues[p][k] # Heartbeat => delivered[p][i] < Head(SamplesOf(queues[p][k]))

\* A phone the aligner does not know leaves nothing in the loop: after
\* drop_phone its packets are skipped, so a phone that is registered again
\* starts from an empty buffer and not from what it said before (lines 145-153,
\* 197-201).
DroppedIsSilent == \A p \in Phones \ Registered : buffers[p] = <<>>

\* No window from thin air: the samples removed for the windows a phone took
\* part in, and those still buffered, were all delivered by its queue.
WindowsPaidFor ==
  \A p \in Phones :
    LET taken == Cardinality({i \in 1..Len(frames) : p \in ToSet(frames[i].phones)})
    IN  taken * NeedSamples + Len(buffers[p]) <= Len(delivered[p])

Audio(s) == {s[i] : i \in DOMAIN s} \ {Silence}

Later(new, old) ==
  Audio(new) # {} => \A x \in Audio(old) : \E y \in Audio(new) : x <= y

\* A phone's windows never go back in time, across drops and registrations:
\* when a later frame has audio of it, the newest of that is not older than
\* anything in an earlier frame.
WindowsAdvance ==
  \A i, j \in 1..Len(frames) : i < j =>
    \A m \in 1..Len(frames[i].phones), n \in 1..Len(frames[j].phones) :
      frames[i].phones[m] = frames[j].phones[n] =>
        Later(frames[j].channels[n], frames[i].channels[m])

\* A subscriber reads frames in the order they were produced and none twice,
\* its queue is bounded, and a slow one misses frames without holding up the
\* loop (lines 347-353, 359-367).
SubscriberInOrder ==
  \A c \in Subscribers :
    subscribed[c] =>
      /\ Len(inbox[c]) <= SubscriberCap
      /\ \A i \in 1..Len(inbox[c]) : seen[c] < inbox[c][i]
      /\ \A i, j \in 1..Len(inbox[c]) : i < j => inbox[c][i] < inbox[c][j]

=============================================================================
