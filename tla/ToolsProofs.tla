----------------------------- MODULE ToolsProofs -----------------------------
(***************************************************************************)
(* Theorems about the laptop's programs: the live tool, the recorder and   *)
(* the loaders, the drivers of the loop, the boot stamp and the model      *)
(* download; for any number of viewers, phones, frames, files, starts and  *)
(* attempts.                                                               *)
(***************************************************************************)
EXTENDS LiveShow, BatchTools, ArrayDrivers, BootStamp, ModelFetch,
        TLAPS, FiniteSetTheorems, SequenceTheorems

(****************************** LiveShow *********************************)

LiveSpec == LiveInit /\ [][LiveNext]_liveVars

\* What the event loop holds between two turns; the mode is one of two, and the
\* last frame the recogniser heard has been produced.
LiveTyped ==
  /\ show.mode \in {0, 1}
  /\ show.frames \in Nat /\ show.heardTo \in Nat /\ show.heardTo <= show.frames
  /\ show.audio \in Seq(Nat)
  /\ dash.transcript \in Nat
  /\ DOMAIN show = {"mode", "frames", "audio", "heardTo"}
  /\ DOMAIN dash = {"mode", "transcript"}
  /\ show = [mode |-> show.mode, frames |-> show.frames, audio |-> show.audio,
             heardTo |-> show.heardTo]
  /\ dash = [mode |-> dash.mode, transcript |-> dash.transcript]

LiveInv == LiveTyped /\ AudioUnbroken

\* What is kept of a run of frames is the end of it, and no longer than Keep.
LEMMA KeptIsEnd ==
  ASSUME NEW chunk \in Seq(Nat), NEW outcome
  PROVE  LET k == IF Len(chunk) < Keep THEN Len(chunk) ELSE Keep
         IN  /\ Kept(chunk, outcome) \in Seq(Nat)
             /\ Len(Kept(chunk, outcome)) = k
             /\ \A i \in 1..k : Kept(chunk, outcome)[i] = chunk[Len(chunk) - k + i]
<1> DEFINE n == Len(chunk)
           k == IF n < Keep THEN n ELSE Keep
           m == n - k + 1
<1>1. n \in Nat /\ k \in 0..n /\ k <= Keep /\ m \in Int
  BY LiveShowAssumption
<1>2. n - m + 1 = k /\ (m <= n <=> k > 0) /\ \A i \in 1..k : m + i - 1 = n - k + i
  BY <1>1
<1>3. \A i \in m..n : chunk[i] \in Nat
  BY <1>1
<1>4. Kept(chunk, outcome) = SubSeq(chunk, m, n)
  BY DEF Kept
<1>8. m \in Int /\ n \in Int
  BY <1>1
<1> HIDE DEF m, n
<1> DEFINE sub == SubSeq(chunk, m, n)
<1>5. /\ sub \in Seq(Nat)
      /\ Len(sub) = (IF m <= n THEN n - m + 1 ELSE 0)
      /\ \A i \in 1..(n - m + 1) : sub[i] = chunk[m + i - 1]
  BY <1>8, <1>3, SubSeqProperties, SMT
<1> HIDE DEF sub
<1>6. Len(sub) = k
  <2> HIDE DEF k
  <2>1. CASE k > 0
    BY <1>1, <1>2, <1>5, <2>1
  <2>2. CASE k = 0
    BY <1>1, <1>2, <1>5, <2>2
  <2> QED BY <1>1, <2>1, <2>2
<1>7. \A i \in 1..k : sub[i] = chunk[n - k + i]
  BY <1>1, <1>2, <1>5
<1>9. Kept(chunk, outcome) = sub
  BY <1>4 DEF sub
<1> QED BY <1>9, <1>5, <1>6, <1>7 DEF n

\* The audio of a turn, before the recogniser is given it: an unbroken run that
\* ends at the last frame.
LEMMA ChunkUnbroken ==
  ASSUME NEW a \in Seq(Nat), NEW frames \in Nat, NEW produced \in BOOLEAN,
         \A i \in DOMAIN a : a[i] = frames - Len(a) + i
  PROVE  LET frame == frames + (IF produced THEN 1 ELSE 0)
             chunk == a \o (IF produced THEN <<frame>> ELSE <<>>)
         IN  /\ chunk \in Seq(Nat)
             /\ Len(chunk) - frame = Len(a) - frames
             /\ \A i \in DOMAIN chunk : chunk[i] = frame - Len(chunk) + i
<1>1. CASE produced
  <2> DEFINE frame == frames + 1
             chunk == a \o <<frame>>
  <2>1. <<frame>> \in Seq(Nat) /\ Len(<<frame>>) = 1 /\ <<frame>>[1] = frame
    OBVIOUS
  <2>2. chunk = Append(a, frame)
    OBVIOUS
  <2>3. /\ chunk \in Seq(Nat) /\ Len(chunk) = Len(a) + 1
        /\ \A i \in 1..Len(a) : chunk[i] = a[i]
        /\ chunk[Len(a) + 1] = frame
    BY <2>2, AppendProperties
  <2> HIDE DEF chunk
  <2>4. ASSUME NEW i \in 1..Len(chunk) PROVE chunk[i] = frame - Len(chunk) + i
    <3>1. Len(a) \in Nat /\ DOMAIN a = 1..Len(a)
      OBVIOUS
    <3>2. CASE i \in 1..Len(a)
      <4>1. chunk[i] = frames - Len(a) + i
        BY <2>3, <3>1, <3>2
      <4> QED BY <4>1, <2>3, <3>1
    <3>3. CASE i = Len(a) + 1
      BY <2>3, <3>1, <3>3
    <3> QED BY <2>3, <3>1, <3>2, <3>3
  <2> QED BY <1>1, <2>3, <2>4 DEF chunk
<1>2. CASE ~produced
  <2>1. a \o <<>> = a /\ frames + 0 = frames
    OBVIOUS
  <2> QED BY <1>2, <2>1
<1> QED BY <1>1, <1>2

\* The frames collected say what they should of the last one produced.
Collected(a, frames, heardTo) ==
  /\ \A i \in DOMAIN a : a[i] = frames - Len(a) + i
  /\ Len(a) <= Keep + frames - heardTo
  /\ frames - heardTo <= Len(a)

\* A turn of the loop, whatever the recogniser does in it.
LEMMA LiveTurns ==
  ASSUME LiveInv, LoopTurns PROVE LiveInv'
<1> PICK key \in BOOLEAN, produced \in BOOLEAN, due \in BOOLEAN,
         outcome \in {"text", "nothing", "raises"} : Turn(key, produced, due, outcome)
  BY DEF LoopTurns
<1> DEFINE frame == show.frames + (IF produced THEN 1 ELSE 0)
           chunk == show.audio \o (IF produced THEN <<frame>> ELSE <<>>)
           hears   == due /\ chunk # <<>>
           heardTo == IF hears THEN Last(chunk) ELSE show.heardTo
           audio == IF hears THEN Kept(chunk, outcome) ELSE chunk
<1>1. /\ show' = [mode |-> IF key THEN 1 - show.mode ELSE show.mode,
                  frames |-> frame, audio |-> audio, heardTo |-> heardTo]
      /\ dash' = IF hears /\ outcome = "text" THEN [dash EXCEPT !.transcript = Last(chunk)]
                 ELSE dash
      /\ UNCHANGED <<connected, gauges, viewer>>
  BY DEF Turn
<1>2. /\ show.frames \in Nat /\ show.heardTo \in Nat /\ show.heardTo <= show.frames
      /\ show.audio \in Seq(Nat) /\ dash.transcript \in Nat /\ show.mode \in {0, 1}
      /\ dash = [mode |-> dash.mode, transcript |-> dash.transcript]
      /\ dash.transcript <= show.heardTo
      /\ Collected(show.audio, show.frames, show.heardTo)
  BY DEF LiveInv, LiveTyped, AudioUnbroken, Collected
<1>3. /\ chunk \in Seq(Nat)
      /\ Len(chunk) - frame = Len(show.audio) - show.frames
      /\ \A i \in DOMAIN chunk : chunk[i] = frame - Len(chunk) + i
  BY <1>2, ChunkUnbroken DEF Collected
<1>4. frame \in Nat /\ frame >= show.frames
  BY <1>2
<1> HIDE DEF frame, chunk
<1>5. Collected(chunk, frame, show.heardTo)
  <2>1. Len(chunk) \in Nat /\ Len(show.audio) \in Nat /\ Keep \in Nat
    BY <1>2, <1>3, LiveShowAssumption
  <2> DEFINE c == Len(chunk)
             a == Len(show.audio)
  <2>2. c \in Nat /\ a \in Nat /\ c - frame = a - show.frames
    BY <1>3, <2>1
  <2>3. show.frames - show.heardTo <= a /\ a <= Keep + show.frames - show.heardTo
    BY <1>2 DEF Collected
  <2> HIDE DEF c, a
  <2>4. frame - show.heardTo <= c /\ c <= Keep + frame - show.heardTo
    <3>1. show.frames \in Nat /\ show.heardTo \in Nat /\ frame \in Nat /\ Keep \in Nat
      BY <1>2, <1>4, <2>1
    <3> QED BY ONLY <2>2, <2>3, <3>1
  <2> QED BY <1>3, <2>4 DEF Collected, c
<1>6. ASSUME chunk # <<>> PROVE Last(chunk) = frame
  <2>1. Len(chunk) \in Nat /\ Len(chunk) # 0 /\ DOMAIN chunk = 1..Len(chunk)
    BY <1>3, <1>6
  <2> QED BY <1>3, <1>4, <2>1 DEF Last
<1>7. /\ heardTo \in Nat /\ heardTo <= frame /\ show.heardTo <= heardTo
      /\ audio \in Seq(Nat) /\ Collected(audio, frame, heardTo)
  <2>1. CASE hears
    <3> DEFINE n == Len(chunk)
               k == IF n < Keep THEN n ELSE Keep
    <3>1. heardTo = frame /\ audio = Kept(chunk, outcome)
      BY <2>1, <1>6
    <3>2. /\ audio \in Seq(Nat) /\ Len(audio) = k
          /\ \A i \in 1..k : audio[i] = chunk[n - k + i]
      BY <1>3, <3>1, KeptIsEnd
    <3> HIDE DEF audio, heardTo
    <3>3. n \in Nat /\ Keep \in Nat /\ k \in 0..n /\ k <= Keep
      BY <1>3, LiveShowAssumption
    <3>4. ASSUME NEW i \in 1..k
          PROVE  n - k + i \in 1..n /\ chunk[n - k + i] = frame - k + i
      <4>1. n - k + i \in 1..n
        BY <3>3
      <4>2. chunk[n - k + i] = frame - n + (n - k + i)
        BY <1>3, <4>1
      <4> QED BY <1>4, <3>3, <4>1, <4>2
    <3>5. DOMAIN audio = 1..k
      BY <3>2, <3>3
    <3> QED BY <1>2, <1>4, <3>1, <3>2, <3>3, <3>4, <3>5 DEF Collected
  <2>2. CASE ~hears
    BY <2>2, <1>2, <1>3, <1>4, <1>5
  <2> QED BY <2>1, <2>2
<1>8. /\ dash'.mode = dash.mode /\ dash'.transcript \in Nat /\ dash'.transcript <= heardTo
      /\ DOMAIN dash' = {"mode", "transcript"}
      /\ dash' = [mode |-> dash'.mode, transcript |-> dash'.transcript]
  <2>1. CASE hears /\ outcome = "text"
    <3>1. dash' = [mode |-> dash.mode, transcript |-> heardTo]
      BY <1>1, <1>2, <2>1
    <3> QED BY <1>7, <3>1
  <2>2. CASE ~(hears /\ outcome = "text")
    BY <1>1, <1>2, <1>7, <2>2
  <2> QED BY <2>1, <2>2
<1> HIDE DEF audio, heardTo, hears
<1>9. /\ show'.mode \in {0, 1} /\ show'.frames = frame /\ show'.audio = audio
      /\ show'.heardTo = heardTo
      /\ show' = [mode |-> show'.mode, frames |-> show'.frames, audio |-> show'.audio,
                  heardTo |-> show'.heardTo]
      /\ DOMAIN show' = {"mode", "frames", "audio", "heardTo"}
  BY <1>1, <1>2
<1>10. LiveTyped'
  BY <1>4, <1>7, <1>8, <1>9 DEF LiveTyped
<1>12. AudioUnbroken'
  BY <1>7, <1>8, <1>9 DEF AudioUnbroken, Collected
<1> QED BY <1>10, <1>12 DEF LiveInv

\* The button and a poll, and the steps that only move a handler on.
LEMMA LiveSteps == LiveInv /\ [LiveNext]_liveVars => LiveInv'
<1> SUFFICES ASSUME LiveInv, [LiveNext]_liveVars PROVE LiveInv'
  OBVIOUS
<1>1. ASSUME UNCHANGED <<show, dash>> PROVE LiveInv'
  BY <1>1 DEF LiveInv, LiveTyped, AudioUnbroken
<1>2. CASE UNCHANGED liveVars
  BY <1>1, <1>2 DEF liveVars
<1>3. CASE PhoneComesOrGoes
  BY <1>1, <1>3 DEF PhoneComesOrGoes
<1>4. CASE LoopTurns
  BY <1>4, LiveTurns
<1>5. ASSUME NEW v \in Viewers, Connect(v) \/ NoRequest(v) \/ Request(v) \/ HangUp(v)
      PROVE  LiveInv'
  BY <1>1, <1>5 DEF Connect, NoRequest, Request, HangUp, NothingElse
<1>6. ASSUME NEW v \in Viewers, Toggle(v) PROVE LiveInv'
  <2>1. /\ show.mode \in {0, 1}
        /\ show = [mode |-> show.mode, frames |-> show.frames, audio |-> show.audio,
                   heardTo |-> show.heardTo]
        /\ dash = [mode |-> dash.mode, transcript |-> dash.transcript]
    BY DEF LiveInv, LiveTyped
  <2>2. /\ show' = [mode |-> 1 - show.mode, frames |-> show.frames, audio |-> show.audio,
                    heardTo |-> show.heardTo]
        /\ dash' = [mode |-> 1 - show.mode, transcript |-> dash.transcript]
    BY <1>6, <2>1 DEF Toggle, on_toggle
  <2>3. /\ show'.mode \in {0, 1} /\ show'.frames = show.frames /\ show'.audio = show.audio
        /\ show'.heardTo = show.heardTo
        /\ show' = [mode |-> show'.mode, frames |-> show'.frames, audio |-> show'.audio,
                    heardTo |-> show'.heardTo]
        /\ DOMAIN show' = {"mode", "frames", "audio", "heardTo"}
    BY <2>1, <2>2
  <2>4. /\ dash'.mode = show'.mode /\ dash'.transcript = dash.transcript
        /\ dash' = [mode |-> dash'.mode, transcript |-> dash'.transcript]
        /\ DOMAIN dash' = {"mode", "transcript"}
    BY <2>2
  <2>5. LiveTyped'
    BY <2>3, <2>4 DEF LiveInv, LiveTyped
  <2>6. AudioUnbroken'
    BY <2>3, <2>4 DEF LiveInv, AudioUnbroken
  <2> QED BY <2>5, <2>6 DEF LiveInv
<1>7. ASSUME NEW v \in Viewers,
             GetFails(v) \/ \E path \in Paths \ {"toggle"}, get \in BOOLEAN : Get(v, path, get)
      PROVE  LiveInv'
  BY <1>1, <1>7 DEF Get, GetFails
<1> QED BY <1>2, <1>3, <1>4, <1>5, <1>6, <1>7 DEF LiveNext

\* In every behaviour of the event loop.
LEMMA LiveInvariant == LiveSpec => []LiveInv
<1>1. LiveInit => LiveInv
  <2> SUFFICES ASSUME LiveInit PROVE LiveInv
    OBVIOUS
  <2>1. LiveTyped
    BY DEF LiveInit, LiveTyped
  <2>2. AudioUnbroken
    BY LiveShowAssumption DEF LiveInit, AudioUnbroken
  <2> QED BY <2>1, <2>2 DEF LiveInv
<1> QED BY <1>1, LiveSteps, PTL DEF LiveSpec

\* The recogniser hears every frame, and its failures do not make what it is
\* given grow, for every length kept (live_two_phones_radar.py 157-181).
THEOREM NoFrameUnheard == LiveSpec => []AudioUnbroken
<1>1. LiveInv => AudioUnbroken
  BY DEF LiveInv
<1> QED BY <1>1, LiveInvariant, PTL

(**************************** ArrayDrivers ********************************)

DriverSpec == DriverInit /\ [][DriverNext]_driverVars

Track == [pos : Int, seen : Nat]

\* The tracker is of its type, and its tracks were seen by time t.
TrackerTyped(tr, t) ==
  /\ tr.next_id \in Nat
  /\ tr.tracks \in [DOMAIN tr.tracks -> Track]
  /\ \A i \in DOMAIN tr.tracks : i \in Nat /\ i < tr.next_id /\ tr.tracks[i].seen <= t

VoicesTyped(v, t) ==
  \A s \in Speakers : v[s].seen \in Nat /\ v[s].seen <= t

\* What a driver and its tracker hold between two turns.
DriverTyped ==
  /\ setup \in Setups
  /\ now \in Nat
  /\ loop.raised \in BOOLEAN
  /\ TrackerTyped(tracker, now) /\ VoicesTyped(voice, now)

\* Who was given a track was given one that had been spawned.
Given(tr, v) ==
  \A s \in Speakers : v[s].id # Nowhere => v[s].id \in Nat /\ v[s].id < tr.next_id

\* A speaker's id is the id of his track, which was seen when he was last heard,
\* or of no track, and that only when he has been silent for the timeout.
OwnTrack(tr, v, t) ==
  v.id # Nowhere =>
    /\ t - v.seen <= Timeout => v.id \in DOMAIN tr.tracks
    /\ v.id \in DOMAIN tr.tracks => tr.tracks[v.id].seen = v.seen

Far(s, pos) == Distance(Home[s], pos) > Radius + Jitter

\* The tracks as a speaker near whom nothing else was located sees them: at most one
\* is his and the others are far; the others' are not his, nor is his theirs.
Owns(s, tr, v, t) ==
  /\ \A i \in DOMAIN tr.tracks : tr.tracks[i].pos \in Places(s) \/ Far(s, tr.tracks[i].pos)
  /\ \A i, j \in DOMAIN tr.tracks :
       tr.tracks[i].pos \in Places(s) /\ tr.tracks[j].pos \in Places(s) => i = j
  /\ OwnTrack(tr, v[s], t)
  /\ v[s].id \in DOMAIN tr.tracks => tr.tracks[v[s].id].pos \in Places(s)
  /\ ~v[s].switched
  /\ \A r \in Speakers \ {s} :
       /\ v[r].id \in DOMAIN tr.tracks => tr.tracks[v[r].id].pos \notin Places(s)
       /\ v[s].id # Nowhere => v[r].id # v[s].id

\* The sources of the phones have produced the same number of samples.
SourcesInStep ==
  setup.program # "replay" => \A p, q \in Stems : source[p] = source[q]

DriverInv ==
  /\ DriverTyped /\ StemsInStep /\ SourcesInStep /\ Given(tracker, voice)
  /\ \A s \in Speakers \ blurred : Owns(s, tracker, voice, now)

\* Where a speaker is heard is near where else he is, and near no other speaker
\* and nothing far.
LEMMA PlacesNear ==
  ASSUME NEW s \in Speakers, NEW a \in Places(s), NEW b \in Places(s)
  PROVE  a \in Int /\ b \in Int /\ Distance(a, b) <= Radius
<1>1. PICK j \in -Jitter..Jitter, k \in -Jitter..Jitter : a = Home[s] + j /\ b = Home[s] + k
  BY DEF Places
<1>2. /\ Home[s] \in Int /\ Jitter \in Nat /\ 2 * Jitter <= Radius /\ Radius \in Nat
  BY ArrayDriversAssumption
<1> QED BY <1>1, <1>2 DEF Distance

LEMMA PlacesApart ==
  ASSUME NEW s \in Speakers, NEW r \in Speakers, s # r, NEW a \in Places(s), NEW b \in Places(r)
  PROVE  Distance(a, b) > Radius
<1>1. PICK j \in -Jitter..Jitter, k \in -Jitter..Jitter : a = Home[s] + j /\ b = Home[r] + k
  BY DEF Places
<1>2. /\ Home[s] \in Int /\ Home[r] \in Int /\ Jitter \in Nat /\ Radius \in Nat
      /\ Distance(Home[s], Home[r]) > Radius + 2 * Jitter
  BY ArrayDriversAssumption
<1> QED BY <1>1, <1>2 DEF Distance

LEMMA FarApart ==
  ASSUME NEW s \in Speakers, NEW a \in Places(s), NEW g \in Int, Far(s, g)
  PROVE  Distance(a, g) > Radius /\ Distance(g, a) > Radius /\ g \notin Places(s)
<1>1. PICK j \in -Jitter..Jitter : a = Home[s] + j
  BY DEF Places
<1>2. /\ Home[s] \in Int /\ Jitter \in Nat /\ Radius \in Nat
      /\ Distance(Home[s], g) > Radius + Jitter
  BY ArrayDriversAssumption DEF Far
<1>3. Distance(a, g) > Radius /\ Distance(g, a) > Radius
  BY <1>1, <1>2 DEF Distance
<1>4. \A k \in -Jitter..Jitter : g # Home[s] + k
  BY <1>2 DEF Distance
<1> QED BY <1>3, <1>4 DEF Places

LEMMA PlacesDisjoint ==
  ASSUME NEW s \in Speakers, NEW r \in Speakers, NEW a \in Places(s), a \in Places(r)
  PROVE  s = r
<1>1. ASSUME s # r PROVE FALSE
  <2>1. Distance(a, a) > Radius
    BY <1>1, PlacesApart
  <2>2. a \in Int
    BY PlacesNear
  <2> QED BY <2>1, <2>2, ArrayDriversAssumption DEF Distance
<1> QED BY <1>1

\* The tracks that an observation at pos moves or spawns.
Spawned(pos) ==
  IF FindClosest(tracker.tracks, pos) = {} /\ Cardinality(DOMAIN tracker.tracks) < MaxTracks
    THEN {tracker.next_id} ELSE {}

Moved(pos) == FindClosest(tracker.tracks, pos) \cup Spawned(pos)

\* At most one track is moved, and only one within the radius; if a single one is
\* within the radius it is that one.  A track that is spawned has a new id.
LEMMA Associates ==
  ASSUME TrackerTyped(tracker, now), NEW pos \in Int, NEW t
  PROVE  LET old == tracker.tracks
             new == Associated(pos, t)
             Near(i) == Distance(old[i].pos, pos) <= Radius
         IN  /\ DOMAIN new.tracks = DOMAIN old \cup Moved(pos)
             /\ \A i \in Moved(pos) : new.tracks[i] = [pos |-> pos, seen |-> t]
             /\ \A i \in DOMAIN old \ Moved(pos) : new.tracks[i] = old[i]
             /\ \A i, j \in Moved(pos) : i = j
             /\ \A i \in Moved(pos) : (i \in DOMAIN old /\ Near(i)) \/ i = tracker.next_id
             /\ \A i \in DOMAIN old :
                  Near(i) /\ (\A j \in DOMAIN old : Near(j) => j = i) => i \in Moved(pos)
             /\ new.next_id \in Nat /\ new.next_id >= tracker.next_id
             /\ \A i \in Moved(pos) : i \in Nat /\ i < new.next_id
<1> DEFINE old == tracker.tracks
           new == Associated(pos, t)
           best == FindClosest(old, pos)
           n == tracker.next_id
           Near(i) == Distance(old[i].pos, pos) <= Radius
           near == {i \in DOMAIN old : Near(i)}
           least == {i \in near : \A j \in near :
                       Distance(old[i].pos, pos) <= Distance(old[j].pos, pos)}
<1>1. n \in Nat /\ \A i \in DOMAIN old : i \in Nat /\ i < n /\ old[i].pos \in Int
  BY DEF TrackerTyped, Track
<1>2. best = {i \in least : \A j \in least : j <= i}
  BY DEF FindClosest, Closest
<1>3. new = [tracks |-> [i \in DOMAIN old \cup Spawned(pos) |->
                IF i \in best \cup Spawned(pos) THEN [pos |-> pos, seen |-> t] ELSE old[i]],
             next_id |-> IF Spawned(pos) = {} THEN n ELSE n + 1]
  BY DEF Associated, Spawned
<1>4. Moved(pos) = best \cup Spawned(pos) /\ Spawned(pos) \subseteq {n}
  BY DEF Moved, Spawned
<1>5. best # {} => Spawned(pos) = {}
  BY DEF Spawned
<1>6. best \subseteq near /\ \A i, j \in best : i = j
  <2>1. best \subseteq least /\ least \subseteq near /\ near \subseteq Nat
    BY <1>1, <1>2
  <2>2. \A i, j \in best : i <= j /\ j <= i
    BY <1>2
  <2> QED BY <2>1, <2>2
<1>7. ASSUME NEW i \in DOMAIN old, Near(i), \A j \in DOMAIN old : Near(j) => j = i
      PROVE  i \in best
  <2>1. near = {i}
    BY <1>7
  <2>2. Distance(old[i].pos, pos) \in Int
    BY <1>1 DEF Distance
  <2>3. least = {i}
    BY <2>1, <2>2
  <2> QED BY <1>1, <1>2, <2>3
<1> HIDE DEF new, best, least
<1>8. /\ DOMAIN new.tracks = DOMAIN old \cup Moved(pos)
      /\ \A i \in Moved(pos) : new.tracks[i] = [pos |-> pos, seen |-> t]
      /\ \A i \in DOMAIN old \ Moved(pos) : new.tracks[i] = old[i]
  BY <1>3, <1>4, <1>6
<1>9. \A i, j \in Moved(pos) : i = j
  BY <1>4, <1>5, <1>6
<1>10. /\ new.next_id \in Nat /\ new.next_id >= n
       /\ \A i \in Moved(pos) : i \in Nat /\ i < new.next_id
  BY <1>1, <1>3, <1>4, <1>6
<1>11. \A i \in Moved(pos) : (i \in DOMAIN old /\ Near(i)) \/ i = n
  BY <1>4, <1>6
<1> QED BY <1>4, <1>7, <1>8, <1>9, <1>10, <1>11 DEF new

\* Pruning at time t takes no track of a speaker who was heard within the timeout.
LEMMA PruneKeeps ==
  ASSUME NEW tr, NEW v, NEW t \in Nat, TrackerTyped(tr, t), Given(tr, v)
  PROVE  /\ TrackerTyped(Pruned(tr, t), t) /\ Given(Pruned(tr, t), v)
         /\ \A s \in Speakers : Owns(s, tr, v, t) => Owns(s, Pruned(tr, t), v, t)
<1> DEFINE new == Pruned(tr, t)
           kept == {j \in DOMAIN tr.tracks : t - tr.tracks[j].seen <= Timeout}
<1>1. /\ new.next_id = tr.next_id /\ DOMAIN new.tracks = kept
      /\ \A i \in kept : new.tracks[i] = tr.tracks[i]
      /\ new.tracks = [i \in kept |-> tr.tracks[i]]
  BY DEF Pruned
<1>2. TrackerTyped(new, t) /\ Given(new, v)
  BY <1>1 DEF TrackerTyped, Given
<1> HIDE DEF new
<1>3. ASSUME NEW s \in Speakers, Owns(s, tr, v, t) PROVE Owns(s, new, v, t)
  <2>1. OwnTrack(new, v[s], t)
    BY <1>1, <1>3 DEF Owns, OwnTrack
  <2> QED BY <1>1, <1>3, <2>1 DEF Owns
<1> QED BY <1>2, <1>3 DEF new

\* As time goes by nothing is owned by another.
LEMMA LaterOwned ==
  ASSUME NEW tr, NEW v, NEW n \in Nat, NEW t \in Nat, n <= t,
         TrackerTyped(tr, n), VoicesTyped(v, n)
  PROVE  /\ TrackerTyped(tr, t) /\ VoicesTyped(v, t)
         /\ \A s \in Speakers : Owns(s, tr, v, n) => Owns(s, tr, v, t)
<1>1. TrackerTyped(tr, t) /\ VoicesTyped(v, t)
  <2>1. \A i \in DOMAIN tr.tracks : tr.tracks[i].seen \in Nat
    BY DEF TrackerTyped, Track
  <2> QED BY <2>1 DEF TrackerTyped, VoicesTyped
<1>2. ASSUME NEW s \in Speakers, Owns(s, tr, v, n) PROVE Owns(s, tr, v, t)
  <2>1. v[s].seen \in Nat /\ Timeout \in Nat
    BY ArrayDriversAssumption DEF VoicesTyped
  <2>2. t - v[s].seen <= Timeout => n - v[s].seen <= Timeout
    BY <2>1
  <2>3. OwnTrack(tr, v[s], t)
    BY <1>2, <2>2 DEF OwnTrack, Owns
  <2> QED BY <1>2, <2>3 DEF Owns
<1> QED BY <1>1, <1>2

\* The track a speaker is given is the one that was moved or spawned, pruned or not.
LEMMA TrackGiven ==
  ASSUME NEW t \in Nat, now \in Nat, now < t, TrackerTyped(tracker, now), NEW pos \in Int
  PROVE  LET id == TrackOf(Pruned(Associated(pos, t), t), pos, t)
         IN  /\ Moved(pos) = {} => id = Nowhere
             /\ Moved(pos) # {} => id \in Moved(pos)
<1> DEFINE old == tracker.tracks
           new == Associated(pos, t)
           left == Pruned(new, t)
           M == Moved(pos)
           ids == {i \in DOMAIN left.tracks : left.tracks[i] = [pos |-> pos, seen |-> t]}
<1>1. /\ DOMAIN new.tracks = DOMAIN old \cup M
      /\ \A i \in M : new.tracks[i] = [pos |-> pos, seen |-> t]
      /\ \A i \in DOMAIN old \ M : new.tracks[i] = old[i]
  BY Associates
<1>2. \A i \in DOMAIN old : old[i].seen \in Nat /\ old[i].seen <= now
  BY DEF TrackerTyped, Track
<1> HIDE DEF new, M
<1>3. /\ DOMAIN left.tracks = {j \in DOMAIN new.tracks : t - new.tracks[j].seen <= Timeout}
      /\ \A i \in DOMAIN left.tracks : left.tracks[i] = new.tracks[i]
  BY DEF Pruned
<1> HIDE DEF left
<1>4. M \subseteq ids
  <2> SUFFICES ASSUME NEW i \in M PROVE i \in ids
    OBVIOUS
  <2>1. new.tracks[i].seen = t /\ t - t = 0 /\ 0 <= Timeout /\ i \in DOMAIN new.tracks
    BY <1>1, ArrayDriversAssumption
  <2> QED BY <1>1, <1>3, <2>1
<1>5. ids \subseteq M
  <2> SUFFICES ASSUME NEW i \in ids, i \notin M PROVE FALSE
    OBVIOUS
  <2>1. i \in DOMAIN old /\ old[i] = [pos |-> pos, seen |-> t]
    BY <1>1, <1>3
  <2> QED BY <1>2, <2>1
<1>6. TrackOf(left, pos, t) = IF ids = {} THEN Nowhere ELSE CHOOSE i \in ids : TRUE
  BY DEF TrackOf
<1>7. ids = M
  BY <1>4, <1>5
<1> HIDE DEF ids
<1>8. /\ M = {} => TrackOf(left, pos, t) = Nowhere
      /\ M # {} => TrackOf(left, pos, t) \in M
  BY <1>6, <1>7
<1> QED BY <1>8 DEF left, new, M

\* What the voices are after something was located at pos.
Told(v, pos, t) ==
  \A r \in Speakers :
    IF pos \in Places(r)
      THEN /\ v[r].id = TrackOf(Pruned(Associated(pos, t), t), pos, t) /\ v[r].seen = t
           /\ v[r].switched => \/ voice[r].switched
                               \/ /\ voice[r].id # Nowhere
                                  /\ t - voice[r].seen <= Timeout
                                  /\ v[r].id # voice[r].id
      ELSE v[r] = voice[r]

\* The tracks and the voices stay of their types.
LEMMA LocatedTyped ==
  ASSUME NEW t \in Nat, now \in Nat, now < t, TrackerTyped(tracker, now),
         VoicesTyped(voice, now), Given(tracker, voice), NEW pos \in Int, NEW v, Told(v, pos, t)
  PROVE  /\ TrackerTyped(Associated(pos, t), t) /\ VoicesTyped(v, t)
         /\ Given(Associated(pos, t), v)
<1> DEFINE old == tracker.tracks
           new == Associated(pos, t)
           M == Moved(pos)
<1>1. TrackerTyped(tracker, t) /\ VoicesTyped(voice, t)
  BY LaterOwned
<1>2. /\ DOMAIN new.tracks = DOMAIN old \cup M
      /\ \A i \in M : new.tracks[i] = [pos |-> pos, seen |-> t]
      /\ \A i \in DOMAIN old \ M : new.tracks[i] = old[i]
      /\ new.next_id \in Nat /\ new.next_id >= tracker.next_id
      /\ \A i \in M : i \in Nat /\ i < new.next_id
      /\ new.tracks = [i \in DOMAIN new.tracks |-> new.tracks[i]]
  <2>1. new.tracks = [i \in DOMAIN new.tracks |-> new.tracks[i]]
    BY DEF Associated
  <2> QED BY <2>1, Associates
<1> DEFINE id == TrackOf(Pruned(new, t), pos, t)
<1>3. /\ M = {} => id = Nowhere
      /\ M # {} => id \in M
  BY TrackGiven
<1> HIDE DEF new, M, id
<1>4. TrackerTyped(new, t)
  <2>1. \A i \in DOMAIN new.tracks :
           i \in Nat /\ i < new.next_id /\ new.tracks[i].seen <= t /\ new.tracks[i] \in Track
    <3>1. ASSUME NEW i \in M
          PROVE i \in Nat /\ i < new.next_id /\ new.tracks[i].seen <= t /\ new.tracks[i] \in Track
      BY <1>2, <3>1 DEF Track
    <3>2. ASSUME NEW i \in DOMAIN old \ M
          PROVE i \in Nat /\ i < new.next_id /\ new.tracks[i].seen <= t /\ new.tracks[i] \in Track
      BY <1>1, <1>2, <3>2 DEF TrackerTyped
    <3> QED BY <1>2, <3>1, <3>2
  <2> QED BY <1>2, <2>1 DEF TrackerTyped
<1>5. tracker.next_id \in Nat
  BY DEF TrackerTyped
<1>6. ASSUME NEW r \in Speakers
      PROVE  /\ v[r].seen \in Nat /\ v[r].seen <= t
             /\ v[r].id # Nowhere => v[r].id \in Nat /\ v[r].id < new.next_id
  <2>1. CASE pos \in Places(r)
    <3>1. v[r].id = id /\ v[r].seen = t
      BY <2>1 DEF Told, id, new
    <3> QED BY <1>2, <1>3, <3>1
  <2>2. CASE pos \notin Places(r)
    <3>1. v[r] = voice[r]
      BY <2>2 DEF Told
    <3> QED BY <1>1, <1>2, <1>5, <3>1 DEF VoicesTyped, Given
  <2> QED BY <2>1, <2>2
<1> QED BY <1>4, <1>6 DEF VoicesTyped, Given, new

\* Something located far from a speaker moves no track of his.
LEMMA FarKeeps ==
  ASSUME NEW t \in Nat, now \in Nat, now < t, TrackerTyped(tracker, now),
         VoicesTyped(voice, now), Given(tracker, voice), NEW pos \in Int, NEW v, Told(v, pos, t),
         NEW s \in Speakers, Owns(s, tracker, voice, now), Far(s, pos)
  PROVE  Owns(s, Associated(pos, t), v, t)
<1> DEFINE old == tracker.tracks
           new == Associated(pos, t)
           M == Moved(pos)
           id == TrackOf(Pruned(new, t), pos, t)
<1>1. Owns(s, tracker, voice, t) /\ pos \notin Places(s)
  <2>1. Home[s] \in Places(s)
    <3>1. Home[s] \in Int /\ Jitter \in Nat
      BY ArrayDriversAssumption
    <3>2. 0 \in -Jitter..Jitter /\ Home[s] = Home[s] + 0
      BY <3>1
    <3> QED BY <3>2 DEF Places
  <2> QED BY <2>1, LaterOwned, FarApart
<1>2. /\ DOMAIN new.tracks = DOMAIN old \cup M
      /\ \A i \in M : new.tracks[i] = [pos |-> pos, seen |-> t]
      /\ \A i \in DOMAIN old \ M : new.tracks[i] = old[i]
      /\ \A i \in M : (i \in DOMAIN old /\ Distance(old[i].pos, pos) <= Radius) \/ i = tracker.next_id
  BY Associates
<1>3. /\ M = {} => id = Nowhere
      /\ M # {} => id \in M
  BY TrackGiven
<1> HIDE DEF new, M
<1>4. v[s] = voice[s]
  BY <1>1 DEF Told
<1>5. tracker.next_id \in Nat /\ \A i \in DOMAIN old : i \in Nat /\ i < tracker.next_id
  BY DEF TrackerTyped
<1>6. ASSUME NEW i \in DOMAIN old, old[i].pos \in Places(s) PROVE i \notin M
  <2>1. Distance(old[i].pos, pos) > Radius
    BY <1>6, FarApart
  <2>2. Distance(old[i].pos, pos) \in Int /\ Radius \in Nat
    BY <1>6, PlacesNear, ArrayDriversAssumption DEF Distance
  <2> QED BY <1>2, <1>5, <2>1, <2>2
<1>7. \A i \in DOMAIN new.tracks : new.tracks[i].pos \in Places(s) =>
        i \in DOMAIN old /\ i \notin M /\ old[i].pos \in Places(s)
  BY <1>1, <1>2
<1>8. voice[s].id # Nowhere =>
        /\ voice[s].id \notin M
        /\ voice[s].id \in DOMAIN new.tracks => voice[s].id \in DOMAIN old
  <2>1. voice[s].id # Nowhere => voice[s].id \in Nat /\ voice[s].id # tracker.next_id
    BY <1>5 DEF Given
  <2>2. voice[s].id \in DOMAIN old => voice[s].id \notin M
    BY <1>1, <1>6 DEF Owns
  <2> QED BY <1>2, <2>1, <2>2
<1>9. OwnTrack(new, v[s], t)
  BY <1>1, <1>2, <1>4, <1>8 DEF Owns, OwnTrack
<1>10. v[s].id \in DOMAIN new.tracks => new.tracks[v[s].id].pos \in Places(s)
  <2>1. \A i \in DOMAIN new.tracks : i \in Nat
    BY LocatedTyped DEF TrackerTyped, new
  <2>2. v[s].id \in DOMAIN new.tracks => v[s].id # Nowhere
    BY <2>1, ArrayDriversAssumption
  <2> QED BY <1>1, <1>2, <1>4, <1>8, <2>2 DEF Owns
<1>11. ASSUME NEW r \in Speakers \ {s}
       PROVE  /\ v[r].id \in DOMAIN new.tracks => new.tracks[v[r].id].pos \notin Places(s)
              /\ v[s].id # Nowhere => v[r].id # v[s].id
  <2>1. CASE pos \in Places(r)
    <3>1. v[r].id = id
      BY <2>1 DEF Told, new
    <3>2. id # Nowhere => id \in M
      BY <1>3
    <3>3. id \in DOMAIN new.tracks => id # Nowhere
      BY LocatedTyped, ArrayDriversAssumption DEF TrackerTyped, new
    <3> HIDE DEF id
    <3> QED BY <1>1, <1>2, <1>4, <1>8, <3>1, <3>2, <3>3
  <2>2. CASE pos \notin Places(r)
    <3>1. v[r] = voice[r]
      BY <2>2 DEF Told
    <3>2. v[r].id \in DOMAIN new.tracks => new.tracks[v[r].id].pos \notin Places(s)
      BY <1>1, <1>7, <3>1, <1>2 DEF Owns
    <3> QED BY <1>1, <1>4, <3>1, <3>2 DEF Owns
  <2> QED BY <2>1, <2>2
<1>12. \A i \in DOMAIN new.tracks : new.tracks[i].pos \in Places(s) \/ Far(s, new.tracks[i].pos)
  BY <1>1, <1>2 DEF Owns
<1>13. \A i, j \in DOMAIN new.tracks :
         new.tracks[i].pos \in Places(s) /\ new.tracks[j].pos \in Places(s) => i = j
  BY <1>1, <1>7 DEF Owns
<1>14. ~v[s].switched
  BY <1>1, <1>4 DEF Owns
<1> QED BY <1>9, <1>10, <1>11, <1>12, <1>13, <1>14 DEF Owns, new

\* A speaker who is heard moves his own track and no other's, or is given a new one
\* or, when there is no room, none.
LEMMA NearKeeps ==
  ASSUME NEW t \in Nat, now \in Nat, now < t, TrackerTyped(tracker, now),
         VoicesTyped(voice, now), Given(tracker, voice), NEW v,
         NEW s \in Speakers, Owns(s, tracker, voice, now), NEW pos \in Places(s), Told(v, pos, t)
  PROVE  Owns(s, Associated(pos, t), v, t)
<1> DEFINE old == tracker.tracks
           new == Associated(pos, t)
           M == Moved(pos)
           id == TrackOf(Pruned(new, t), pos, t)
<1>0. pos \in Int
  BY PlacesNear
<1>1. Owns(s, tracker, voice, t)
  BY LaterOwned
<1>2. /\ DOMAIN new.tracks = DOMAIN old \cup M
      /\ \A i \in M : new.tracks[i] = [pos |-> pos, seen |-> t]
      /\ \A i \in DOMAIN old \ M : new.tracks[i] = old[i]
      /\ \A i, j \in M : i = j
      /\ \A i \in M : (i \in DOMAIN old /\ Distance(old[i].pos, pos) <= Radius) \/ i = tracker.next_id
      /\ \A i \in DOMAIN old :
           /\ Distance(old[i].pos, pos) <= Radius
           /\ \A j \in DOMAIN old : Distance(old[j].pos, pos) <= Radius => j = i
           => i \in M
  BY <1>0, Associates
<1>3. /\ M = {} => id = Nowhere
      /\ M # {} => id \in M
  BY <1>0, TrackGiven
<1>4. /\ v[s].id = id /\ v[s].seen = t
      /\ v[s].switched => \/ voice[s].switched
                          \/ /\ voice[s].id # Nowhere /\ t - voice[s].seen <= Timeout
                             /\ v[s].id # voice[s].id
  BY DEF Told
<1>5. \A r \in Speakers \ {s} : v[r] = voice[r]
  BY PlacesDisjoint DEF Told
<1> HIDE DEF new, M, id
<1>6. tracker.next_id \in Nat /\ \A i \in DOMAIN old : i \in Nat /\ i < tracker.next_id /\ old[i].pos \in Int
  BY DEF TrackerTyped, Track
\* The tracks within the radius are the speaker's own.
<1>7. ASSUME NEW i \in DOMAIN old
      PROVE  Distance(old[i].pos, pos) <= Radius <=> old[i].pos \in Places(s)
  <2>1. ASSUME old[i].pos \in Places(s) PROVE Distance(old[i].pos, pos) <= Radius
    BY <2>1, PlacesNear
  <2>2. Distance(old[i].pos, pos) \in Int /\ Radius \in Nat
    BY <1>0, <1>6, ArrayDriversAssumption DEF Distance
  <2>3. ASSUME Far(s, old[i].pos) PROVE Distance(old[i].pos, pos) > Radius
    BY <1>6, <2>3, FarApart
  <2> QED BY <1>1, <2>1, <2>2, <2>3 DEF Owns
<1>8. \A i \in M \cap DOMAIN old : old[i].pos \in Places(s)
  BY <1>2, <1>6, <1>7
<1>9. ASSUME NEW i \in DOMAIN old, old[i].pos \in Places(s) PROVE M = {i}
  <2>1. \A j \in DOMAIN old : Distance(old[j].pos, pos) <= Radius => j = i
    BY <1>1, <1>7, <1>9 DEF Owns
  <2>2. i \in M
    BY <1>2, <1>7, <1>9, <2>1
  <2> QED BY <1>2, <2>2
<1>10. OwnTrack(new, v[s], t) /\ (v[s].id \in DOMAIN new.tracks => new.tracks[v[s].id].pos \in Places(s))
  <2>1. \A i \in DOMAIN new.tracks : i \in Nat
    BY <1>0, LocatedTyped DEF TrackerTyped, new
  <2>2. v[s].id \in DOMAIN new.tracks => v[s].id # Nowhere
    BY <2>1, ArrayDriversAssumption
  <2>3. v[s].id # Nowhere => v[s].id \in M
    BY <1>3, <1>4
  <2> QED BY <1>2, <1>4, <2>2, <2>3 DEF OwnTrack
<1>11. ~v[s].switched
  <2>1. ASSUME voice[s].id # Nowhere, t - voice[s].seen <= Timeout PROVE v[s].id = voice[s].id
    <3>1. voice[s].id \in DOMAIN old /\ old[voice[s].id].pos \in Places(s)
      BY <1>1, <2>1 DEF Owns, OwnTrack
    <3>2. M = {voice[s].id}
      BY <1>9, <3>1
    <3> QED BY <1>3, <1>4, <3>2
  <2> QED BY <1>1, <1>4, <2>1 DEF Owns
<1>12. ASSUME NEW r \in Speakers \ {s}, voice[r].id # Nowhere PROVE voice[r].id \notin M
  <2>1. voice[r].id \in Nat /\ voice[r].id # tracker.next_id
    BY <1>6, <1>12 DEF Given
  <2>2. voice[r].id \in DOMAIN old => old[voice[r].id].pos \notin Places(s)
    BY <1>1 DEF Owns
  <2> QED BY <1>2, <1>8, <2>1, <2>2
<1>13. ASSUME NEW r \in Speakers \ {s}
       PROVE  /\ v[r].id \in DOMAIN new.tracks => new.tracks[v[r].id].pos \notin Places(s)
              /\ v[s].id # Nowhere => v[r].id # v[s].id
  <2>1. \A i \in DOMAIN new.tracks : i # Nowhere
    BY <1>0, LocatedTyped, ArrayDriversAssumption DEF TrackerTyped, new
  <2>2. v[r] = voice[r]
    BY <1>5
  <2>3. v[r].id \in DOMAIN new.tracks => new.tracks[v[r].id].pos \notin Places(s)
    BY <1>1, <1>2, <1>12, <2>1, <2>2 DEF Owns
  <2>4. v[s].id # Nowhere => v[s].id \in M
    BY <1>3, <1>4
  <2> QED BY <1>12, <2>2, <2>3, <2>4
<1>14. \A i \in DOMAIN new.tracks : new.tracks[i].pos \in Places(s) \/ Far(s, new.tracks[i].pos)
  BY <1>1, <1>2 DEF Owns
<1>15. \A i, j \in DOMAIN new.tracks :
         new.tracks[i].pos \in Places(s) /\ new.tracks[j].pos \in Places(s) => i = j
  <2>1. \A l \in DOMAIN new.tracks : new.tracks[l].pos \in Places(s) => l \in M
    <3> SUFFICES ASSUME NEW l \in DOMAIN new.tracks, new.tracks[l].pos \in Places(s), l \notin M
                 PROVE  FALSE
      OBVIOUS
    <3>1. l \in DOMAIN old /\ old[l].pos \in Places(s)
      BY <1>2
    <3> QED BY <1>9, <3>1
  <2> QED BY <1>2, <2>1
<1> QED BY <1>10, <1>11, <1>13, <1>14, <1>15 DEF Owns, new

\* Voices that are equal speaker by speaker are equal in all that is said of them.
LEMMA SameVoices ==
  ASSUME NEW tr, NEW v, NEW w, NEW t, \A s \in Speakers : w[s] = v[s],
         VoicesTyped(v, t), Given(tr, v)
  PROVE  /\ VoicesTyped(w, t) /\ Given(tr, w)
         /\ \A s \in Speakers : Owns(s, tr, v, t) => Owns(s, tr, w, t)
<1>1. VoicesTyped(w, t) /\ Given(tr, w)
  BY DEF VoicesTyped, Given
<1>2. \A s \in Speakers : Owns(s, tr, v, t) => Owns(s, tr, w, t)
  BY DEF Owns
<1> QED BY <1>1, <1>2

\* A turn of the driver's loop: each phone's whole window, the step and its frame,
\* and what the tracker makes of what was heard.
LEMMA DriverSteps == DriverInv /\ [DriverNext]_driverVars => DriverInv'
<1> SUFFICES ASSUME DriverInv, [DriverNext]_driverVars PROVE DriverInv'
  OBVIOUS
<1>1. CASE UNCHANGED driverVars
  BY <1>1 DEF driverVars, DriverInv, DriverTyped, StemsInStep, SourcesInStep, Stems
<1>2. ASSUME NEW d \in setup.pauses, NEW pos \in Heard, Iterate(now + d, pos)
      PROVE  DriverInv'
  <2> DEFINE t == now + d
             filled == [p \in Stems |-> loop.buffered[p] + Fed(p, t).real + Fed(p, t).pad]
             ready == \A p \in Stems : filled[p] >= Window
  <2>1. /\ ~loop.raised /\ now' = t /\ setup' = setup
        /\ heard' = [p \in Stems |-> Fed(p, t)]
        /\ source' = IF setup.program = "replay" THEN source
                     ELSE [p \in Stems |-> source[p] + Window]
        /\ loop' = [buffered |-> [p \in Stems |-> filled[p] - (IF ready THEN Window ELSE 0)],
                    calls |-> loop.calls + 1,
                    frames |-> loop.frames + (IF ready /\ ~Raises THEN 1 ELSE 0),
                    drops |-> loop.drops + (IF ready /\ pos = Nowhere /\ setup.program = "soak"
                                              THEN 1 ELSE 0),
                    raised |-> ready /\ Raises]
        /\ tracker' = IF ready /\ ~Raises THEN Updated(pos, t) ELSE tracker
        /\ \A s \in Speakers :
             voice'[s] = IF pos \notin Places(s) \/ ~ready \/ Raises THEN voice[s]
               ELSE LET id == TrackOf(tracker', pos, t)
                    IN  [id |-> id, seen |-> t,
                         switched |-> \/ voice[s].switched
                                      \/ /\ voice[s].id # Nowhere
                                         /\ t - voice[s].seen <= Timeout
                                         /\ id # voice[s].id]
        /\ blurred' = IF ready /\ ~Raises THEN blurred \cup Blurs(pos) ELSE blurred
    BY <1>2 DEF Iterate
  <2>2. /\ setup \in Setups /\ now \in Nat /\ t \in Nat /\ now < t /\ Window \in Nat
        /\ Timeout \in Nat
    <3>1. setup \in Setups /\ now \in Nat
      BY DEF DriverInv, DriverTyped
    <3>2. d \in Nat \ {0}
      BY <3>1, ArrayDriversAssumption
    <3> QED BY <3>1, <3>2, ArrayDriversAssumption
  <2>3. \A p \in Stems : filled[p] = Window
    <3> SUFFICES ASSUME NEW p \in Stems PROVE filled[p] = Window
      OBVIOUS
    <3>1. loop.buffered[p] = 0
      BY <2>1 DEF DriverInv, StemsInStep
    <3>2. setup.size[p] \in Nat
      BY <2>2, ArrayDriversAssumption DEF Stems
    <3> QED BY <2>2, <3>1, <3>2 DEF Fed, Chunk
  <2>a. \A p, q \in Stems : Fed(p, t).from = Fed(q, t).from
    BY DEF Fed, Chunk, DriverInv, SourcesInStep
  <2>4. ready
    BY <2>2, <2>3
  <2> HIDE DEF filled, ready, t
  <2>5. StemsInStep' /\ SourcesInStep' /\ loop'.raised \in BOOLEAN
    <3>1. Stems' = Stems
      BY <2>1 DEF Stems
    <3>2. loop'.raised = Raises /\ (~Raises => loop'.frames = loop'.calls)
      BY <2>1, <2>4 DEF DriverInv, StemsInStep, Raises
    <3>3. \A p \in Stems : loop'.buffered[p] = 0
      BY <2>1, <2>2, <2>3, <2>4
    <3>4. \A p, q \in Stems : heard'[p].from = heard'[q].from
      BY <2>1, <2>a
    <3>5. loop'.raised \in BOOLEAN
      BY <3>2 DEF Raises
    <3>6. SourcesInStep'
      BY <2>1, <3>1 DEF DriverInv, SourcesInStep
    <3> QED BY <3>1, <3>2, <3>3, <3>4, <3>5, <3>6 DEF StemsInStep
  <2>6. /\ TrackerTyped(tracker, t) /\ VoicesTyped(voice, t)
        /\ TrackerTyped(tracker, now) /\ VoicesTyped(voice, now) /\ Given(tracker, voice)
        /\ \A s \in Speakers \ blurred :
             Owns(s, tracker, voice, now) /\ Owns(s, tracker, voice, t)
    BY <2>2, LaterOwned DEF DriverInv, DriverTyped
  <2>7. /\ TrackerTyped(tracker', t) /\ VoicesTyped(voice', t) /\ Given(tracker', voice')
        /\ \A s \in Speakers \ blurred' : Owns(s, tracker', voice', t)
    <3>1. \A s \in Speakers : pos \in Places(s) => pos \in Int /\ pos # Nowhere
      BY PlacesNear, ArrayDriversAssumption
    <3>2. pos = Nowhere \/ pos \in Int
      BY <1>2, <3>1, ArrayDriversAssumption DEF Heard
    <3>3. CASE Raises
      <4>1. /\ tracker' = tracker /\ \A s \in Speakers : voice'[s] = voice[s]
            /\ blurred' = blurred
        BY <2>1, <3>3
      <4> QED BY <2>6, <4>1, SameVoices
    <3>4. CASE ~Raises /\ pos = Nowhere
      <4>1. /\ tracker' = Pruned(tracker, t) /\ \A s \in Speakers : voice'[s] = voice[s]
            /\ blurred \subseteq blurred'
        BY <2>1, <2>4, <3>1, <3>4 DEF Updated
      <4>2. /\ VoicesTyped(voice', t) /\ Given(tracker, voice')
            /\ \A s \in Speakers \ blurred : Owns(s, tracker, voice', t)
        BY <2>6, <4>1, SameVoices
      <4> QED BY <2>2, <2>6, <4>1, <4>2, PruneKeeps
    <3>5. CASE ~Raises /\ pos # Nowhere
      <4>1. tracker' = Pruned(Associated(pos, t), t) /\ blurred' = blurred \cup Blurs(pos)
        BY <2>1, <2>4, <3>5 DEF Updated
      <4>2. Told(voice', pos, t)
        <5>1. ASSUME NEW r \in Speakers, pos \in Places(r)
              PROVE  /\ voice'[r].id = TrackOf(tracker', pos, t) /\ voice'[r].seen = t
                     /\ voice'[r].switched => \/ voice[r].switched
                                              \/ /\ voice[r].id # Nowhere
                                                 /\ t - voice[r].seen <= Timeout
                                                 /\ voice'[r].id # voice[r].id
          <6> DEFINE id == TrackOf(tracker', pos, t)
                     changed == \/ voice[r].switched
                                \/ /\ voice[r].id # Nowhere
                                   /\ t - voice[r].seen <= Timeout
                                   /\ id # voice[r].id
          <6>1. voice'[r] = [id |-> id, seen |-> t, switched |-> changed]
            BY <2>1, <2>4, <3>5, <5>1, Zenon
          <6> HIDE DEF id, changed
          <6>2. voice'[r].id = id /\ voice'[r].seen = t /\ voice'[r].switched = changed
            BY <6>1
          <6> QED BY <6>2 DEF id, changed
        <5>2. \A r \in Speakers : pos \notin Places(r) => voice'[r] = voice[r]
          BY <2>1
        <5> QED BY <4>1, <5>1, <5>2 DEF Told
      <4>3. /\ TrackerTyped(Associated(pos, t), t) /\ VoicesTyped(voice', t)
            /\ Given(Associated(pos, t), voice')
        BY <2>2, <2>6, <3>2, <3>5, <4>2, LocatedTyped
      <4>4. ASSUME NEW s \in Speakers \ blurred' PROVE Owns(s, Associated(pos, t), voice', t)
        <5>1. s \notin blurred /\ s \notin Blurs(pos)
          BY <4>1, <4>4
        <5>2. pos \in Places(s) \/ Far(s, pos)
          <6>1. Home[s] \in Int /\ pos \in Int /\ Radius + Jitter \in Int
            BY <3>2, <3>5, ArrayDriversAssumption
          <6>2. Distance(Home[s], pos) \in Int
            BY <6>1 DEF Distance
          <6> QED BY <3>5, <5>1, <6>1, <6>2 DEF Blurs, Far
        <5>3. CASE pos \in Places(s)
          BY <2>2, <2>6, <4>2, <5>1, <5>3, NearKeeps
        <5>4. CASE Far(s, pos)
          BY <2>2, <2>6, <3>2, <3>5, <4>2, <5>1, <5>4, FarKeeps
        <5> QED BY <5>2, <5>3, <5>4
      <4> QED BY <2>2, <4>1, <4>3, <4>4, PruneKeeps
    <3> QED BY <3>3, <3>4, <3>5
  <2> QED BY <2>1, <2>2, <2>5, <2>7 DEF DriverInv, DriverTyped
<1> QED BY <1>1, <1>2 DEF DriverNext

\* In every behaviour of a driver.
LEMMA DriverInvariant == DriverSpec => []DriverInv
<1>1. DriverInit => DriverInv
  <2> SUFFICES ASSUME DriverInit PROVE DriverInv
    OBVIOUS
  <2>1. DriverTyped
    BY DEF DriverInit, DriverTyped, TrackerTyped, VoicesTyped, Unheard, Track
  <2>2. StemsInStep
    BY DEF DriverInit, StemsInStep, Silent
  <2>3. Given(tracker, voice) /\ \A s \in Speakers : Owns(s, tracker, voice, now)
    <3>1. /\ DOMAIN tracker.tracks = {}
          /\ \A s \in Speakers : voice[s].id = Nowhere /\ ~voice[s].switched
      BY DEF DriverInit, Unheard
    <3> QED BY <3>1 DEF Owns, OwnTrack, Given
  <2>4. SourcesInStep
    BY DEF DriverInit, SourcesInStep, Stems
  <2> QED BY <2>1, <2>2, <2>3, <2>4 DEF DriverInv
<1> QED BY <1>1, DriverSteps, PTL DEF DriverSpec

\* Every turn hands the loop one whole window of every phone, all beginning at the
\* same instant, and each step is a frame: for stems of any lengths, windows and
\* pauses (replay.py 89-107; demo.py 105-109; soak.py 121-127).
THEOREM EveryTurnAFrame == DriverSpec => []StemsInStep
<1>1. DriverInv => StemsInStep
  BY DEF DriverInv
<1> QED BY <1>1, DriverInvariant, PTL

\* A speaker near whom no reflection was ever located shares his track with no
\* other speaker, and heard again within the timeout has the track he had: for any
\* number of speakers, reflections and tracks, any radius and timeout, wherever the
\* other reflections are (tracker.py 56-91).
THEOREM TracksAreSpeakers == DriverSpec => []SpeakersToldApart
<1>1. DriverInv => SpeakersToldApart
  BY DEF DriverInv, Owns, SpeakersToldApart
<1> QED BY <1>1, DriverInvariant, PTL

(****************************** BatchTools ********************************)

BatchSpec == BatchInit /\ [][BatchNext]_batchVars

Stem == [form : {"run", "beam", "lead", "out", "ch", "clean"}, phone : Nat, key : Nat]
File == [stem : Stem, hdr : Nat \cup {NoHeader, Open}, dat : Nat, rate : Nat]

\* The recorder's files, with at least one sample each; those of phones, and at the
\* end of the list the beamformed output.
ToWrite(todo, run) ==
  /\ todo \in Seq(File)
  /\ \A i \in DOMAIN todo : todo[i].stem.key = run
  /\ \A i \in DOMAIN todo : todo[i].hdr = todo[i].dat /\ todo[i].dat > 0
  /\ \A i \in DOMAIN todo : todo[i].stem.form = IF i = Len(todo) THEN "beam" ELSE "run"

BatchTyped ==
  /\ dir \in Seq(File)
  /\ DOMAIN session = DOMAIN Idle
  /\ session.pc \in {"idle", "recording", "finalising"}
  /\ session.run \in Nat /\ session.beamformed \in Nat
  /\ session.phone_ids \in Seq(Nat)
  /\ \A p \in DOMAIN session.channels : session.channels[p].len \in Nat
  /\ session.pc = "recording" => ToSet(session.phone_ids) \subseteq DOMAIN session.channels
  /\ session.pc = "finalising" => ToWrite(session.todo, session.run) /\ session.todo # <<>>
  /\ DOMAIN job = DOMAIN NoJob
  /\ job.channels \in Seq(File)

\* The loop and the recorder have the same phones, in the same order, until one is
\* dropped.
SameOrder == ~session.dropped => session.live = session.phone_ids

RunStem(p) == [form |-> "run", phone |-> p, key |-> session.run]

\* The file of this name is the phone's newest, and readable.
Newest(d, stem) ==
  \E i \in DOMAIN d :
    /\ d[i].stem = stem /\ Readable(d[i])
    /\ \A j \in DOMAIN d :
         extract_phone_id_from_stem(d[j].stem) = stem.phone => j <= i

\* A recorder that writes alone has every phone's file either ahead of it or as the
\* newest of that phone.
WritesInTurn ==
  session.pc = "finalising" /\ session.alone =>
    \A p \in ToSet(session.phone_ids) :
      (\E k \in DOMAIN session.todo : session.todo[k].stem = RunStem(p)) \/ Newest(dir, RunStem(p))

LatestTogether ==
  \A stem \in complete : stem.form = "run" /\ stem.phone \in Nat /\ Newest(dir, stem)

\* What has been loaded was readable.
Loaded == \A i \in DOMAIN job.channels : Readable(job.channels[i])

BatchInv ==
  /\ BatchTyped /\ SameOrder /\ RecordedAsOwn /\ Loaded
  /\ WritesInTurn /\ LatestTogether

\* A readable file has every sample that its header promises, and one at least.
LEMMA ReadableWhole ==
  ASSUME NEW f \in File, Readable(f)
  PROVE  f.hdr \in Nat /\ SamplesOf(f) = f.hdr /\ f.hdr > 0
<1>1. f.dat \in Nat /\ f.hdr \in Nat
  BY DEF File, Readable
<1> DEFINE h == f.hdr
           d == f.dat
           n == IF h < d THEN h ELSE d
<1>2. (2 * n) \div (IF h > 1 THEN h ELSE 1) = 2
  BY DEF Readable, SampleWidth, SamplesOf
<1> HIDE DEF h, d
<1>3. n \in Nat /\ n <= h /\ h \in Nat
  BY <1>1 DEF h, d
<1> HIDE DEF n
<1>4. CASE h > 1
  <2>1. (2 * n) \div h = 2
    BY <1>2, <1>4
  <2>2. 2 * h <= 2 * n
    BY <1>3, <1>4, <2>1
  <2> QED BY <1>1, <1>3, <1>4, <2>2 DEF h, n, d, SamplesOf
<1>5. CASE ~(h > 1)
  <2>1. (2 * n) \div 1 = 2
    BY <1>2, <1>5
  <2>2. n = 1
    BY <1>3, <2>1
  <2> QED BY <1>1, <1>3, <1>5, <2>2 DEF h, n, d, SamplesOf
<1> QED BY <1>4, <1>5

\* A set of naturals has a least element, and a bounded one has a greatest.
LEMMA LeastIn ==
  ASSUME NEW S \in SUBSET Nat, S # {}
  PROVE  \E x \in S : \A y \in S : x <= y
<1>1. PICK x \in S : \A y \in S : <<y, x>> \notin OpToRel(<, Nat)
  BY WFMin, NatLessThanWellFounded
<1>2. \A y \in S : <<y, x>> \in Nat \X Nat /\ x \in Nat /\ y \in Nat
  OBVIOUS
<1>3. \A y \in S : ~(y < x)
  BY <1>1, <1>2 DEF OpToRel
<1> QED BY <1>2, <1>3

LEMMA MinIn ==
  ASSUME NEW S \in SUBSET Nat, S # {}
  PROVE  Min(S) \in S
BY LeastIn DEF Min

LEMMA MaxIn ==
  ASSUME NEW S \in SUBSET Nat, S # {}, NEW n \in Nat, \A x \in S : x <= n
  PROVE  Max(S) \in S /\ \A y \in S : y <= Max(S)
<1> DEFINE T == {n - x : x \in S}
<1>1. T \in SUBSET Nat /\ T # {}
  <2>1. \A x \in S : n - x \in Nat
    OBVIOUS
  <2> QED BY <2>1
<1>2. PICK t \in T : \A u \in T : t <= u
  BY <1>1, LeastIn
<1>3. PICK m \in S : t = n - m
  OBVIOUS
<1>4. \A y \in S : m >= y
  <2> SUFFICES ASSUME NEW y \in S PROVE m >= y
    OBVIOUS
  <2>1. n - m <= n - y
    BY <1>2, <1>3
  <2> QED BY <2>1
<1>5. Max(S) \in S /\ \A y \in S : Max(S) >= y
  BY <1>4 DEF Max
<1> QED BY <1>5

\* sorted() lists the elements of a finite set of naturals.
LEMMA AscendingLists ==
  ASSUME NEW S \in SUBSET Nat, IsFiniteSet(S)
  PROVE  Ascending(S) \in Seq(S)
<1> DEFINE n == Cardinality(S)
           Below(p) == {q \in S : q < p}
           rank == [p \in S |-> Cardinality(Below(p)) + 1]
<1>1. n \in Nat
  BY FS_CardinalityType
<1>2. \A p \in S : IsFiniteSet(Below(p)) /\ Cardinality(Below(p)) \in 0..(n - 1)
  <2> SUFFICES ASSUME NEW p \in S
               PROVE  IsFiniteSet(Below(p)) /\ Cardinality(Below(p)) \in 0..(n - 1)
    OBVIOUS
  <2>1. Below(p) \in SUBSET (S \ {p})
    OBVIOUS
  <2>2. IsFiniteSet(S \ {p}) /\ Cardinality(S \ {p}) = n - 1
    BY FS_RemoveElement
  <2> HIDE DEF Below
  <2>3. IsFiniteSet(Below(p)) /\ Cardinality(Below(p)) <= n - 1
    BY <2>1, <2>2, FS_Subset
  <2>4. Cardinality(Below(p)) \in Nat
    BY <2>3, FS_CardinalityType
  <2> QED BY <1>1, <2>3, <2>4
<1>3. ASSUME NEW p \in S, NEW q \in S, p < q PROVE rank[p] < rank[q]
  <2>1. p \in Below(q) /\ Below(p) \in SUBSET (Below(q) \ {p})
    <3>1. \A r \in S : r < p => r < q /\ r # p
      BY <1>3
    <3> QED BY <1>3, <3>1
  <2>2. IsFiniteSet(Below(q)) /\ Cardinality(Below(q)) \in Nat /\ Cardinality(Below(p)) \in Nat
    BY <1>2
  <2>3. rank[p] = Cardinality(Below(p)) + 1 /\ rank[q] = Cardinality(Below(q)) + 1
    OBVIOUS
  <2> HIDE DEF Below, rank
  <2>4. /\ IsFiniteSet(Below(q) \ {p})
        /\ Cardinality(Below(q) \ {p}) = Cardinality(Below(q)) - 1
    BY <2>1, <2>2, FS_RemoveElement
  <2>5. Cardinality(Below(p)) <= Cardinality(Below(q) \ {p})
    BY <2>1, <2>4, FS_Subset
  <2> QED BY <2>2, <2>3, <2>4, <2>5
<1>4. rank \in [S -> 1..n]
  <2>1. \A p \in S : Cardinality(Below(p)) + 1 \in 1..n
    BY <1>1, <1>2
  <2> QED BY <2>1
<1>5. \A p, q \in S : rank[p] = rank[q] => p = q
  <2> SUFFICES ASSUME NEW p \in S, NEW q \in S, rank[p] = rank[q] PROVE p = q
    OBVIOUS
  <2>1. rank[p] \in Int /\ rank[q] \in Int
    BY <1>4
  <2> HIDE DEF rank
  <2>2. ~(p < q) /\ ~(q < p)
    BY <1>3, <2>1
  <2> QED BY <2>2
<1>6. \A k \in 1..n : \E p \in S : rank[p] = k
  <2> HIDE DEF rank, n
  <2>1. IsFiniteSet(1..n) /\ Cardinality(1..n) = n
    BY <1>1, FS_Interval
  <2>2. rank \in Injection(S, 1..n)
    BY <1>4, <1>5 DEF Injection, IsInjective
  <2>3. rank \in Surjection(S, 1..n)
    BY <2>1, <2>2, FS_Injection DEF n
  <2> QED BY <2>3 DEF Surjection
<1>7. ASSUME NEW i \in 1..n PROVE (CHOOSE p \in S : Cardinality(Below(p)) = i - 1) \in S
  <2>1. PICK p \in S : rank[p] = i
    BY <1>6
  <2>2. Cardinality(Below(p)) + 1 = i /\ Cardinality(Below(p)) \in Int
    BY <1>2, <2>1
  <2>3. Cardinality(Below(p)) = i - 1
    BY <2>2
  <2> HIDE DEF Below
  <2> QED BY <2>3
<1> DEFINE at(i) == CHOOSE p \in S : Cardinality(Below(p)) = i - 1
<1>8. Ascending(S) = [i \in 1..n |-> at(i)]
  BY DEF Ascending
<1>9. \A i \in 1..n : at(i) \in S
  BY <1>7
<1> HIDE DEF n, Below, at
<1>10. [i \in 1..n |-> at(i)] \in Seq(S)
  BY <1>1, <1>9
<1> QED BY <1>8, <1>10

\* A sequence without its k-th element.
LEMMA WithoutOne ==
  ASSUME NEW S, NEW d \in Seq(S), NEW k \in DOMAIN d
  PROVE  /\ RemoveAt(d, k) \in Seq(S)
         /\ Len(RemoveAt(d, k)) = Len(d) - 1
         /\ \A i \in 1..(Len(d) - 1) : RemoveAt(d, k)[i] = IF i < k THEN d[i] ELSE d[i + 1]
<1> DEFINE n == Len(d)
           a == SubSeq(d, 1, k - 1)
           b == SubSeq(d, k + 1, n)
<1>1. n \in Nat /\ k \in 1..n /\ DOMAIN d = 1..n
  OBVIOUS
<1>2. /\ 1 \in Int /\ k - 1 \in Int /\ k + 1 \in Int /\ n \in Int
      /\ \A i \in 1..(k - 1) : d[i] \in S
      /\ \A i \in (k + 1)..n : d[i] \in S
  <2>1. \A i \in 1..n : d[i] \in S
    OBVIOUS
  <2> QED BY <1>1, <2>1
<1> HIDE DEF n
<1>3. /\ a \in Seq(S) /\ Len(a) = (IF 1 <= k - 1 THEN (k - 1) - 1 + 1 ELSE 0)
      /\ \A i \in 1..((k - 1) - 1 + 1) : a[i] = d[1 + i - 1]
  BY <1>2, SubSeqProperties
<1>4. /\ b \in Seq(S) /\ Len(b) = (IF k + 1 <= n THEN n - (k + 1) + 1 ELSE 0)
      /\ \A i \in 1..(n - (k + 1) + 1) : b[i] = d[(k + 1) + i - 1]
  BY <1>2, SubSeqProperties
<1> HIDE DEF a, b
<1>5. Len(a) = k - 1 /\ Len(b) = n - k
  BY <1>1, <1>3, <1>4
<1>6. /\ \A i \in 1..(k - 1) : a[i] = d[i]
      /\ \A i \in 1..(n - k) : b[i] = d[k + i]
  <2>1. (k - 1) - 1 + 1 = k - 1 /\ n - (k + 1) + 1 = n - k
    BY <1>1
  <2>2. /\ \A i \in 1..(k - 1) : 1 + i - 1 = i
        /\ \A i \in 1..(n - k) : (k + 1) + i - 1 = k + i
    BY <1>1
  <2> QED BY <1>3, <1>4, <2>1, <2>2
<1>7. /\ a \o b \in Seq(S) /\ Len(a \o b) = Len(a) + Len(b)
      /\ \A i \in 1..(Len(a) + Len(b)) : (a \o b)[i] = IF i <= Len(a) THEN a[i] ELSE b[i - Len(a)]
  BY <1>3, <1>4, ConcatProperties
<1>8. RemoveAt(d, k) = a \o b
  BY DEF RemoveAt, a, b, n
<1> DEFINE c == a \o b
<1> HIDE DEF c
<1>9. Len(c) = n - 1
  BY <1>1, <1>5, <1>7 DEF c
<1>10. ASSUME NEW i \in 1..(n - 1) PROVE c[i] = IF i < k THEN d[i] ELSE d[i + 1]
  <2>1. c[i] = IF i <= k - 1 THEN a[i] ELSE b[i - (k - 1)]
    <3>1. \A j \in 1..(Len(a) + Len(b)) : c[j] = IF j <= Len(a) THEN a[j] ELSE b[j - Len(a)]
      BY <1>7 DEF c
    <3>2. i \in 1..((k - 1) + (n - k))
      BY <1>1
    <3> QED BY <1>5, <3>1, <3>2
  <2>2. CASE i < k
    BY <1>1, <1>6, <2>1, <2>2
  <2>3. CASE ~(i < k)
    <3>1. i - (k - 1) \in 1..(n - k) /\ k + (i - (k - 1)) = i + 1
      BY <1>1, <2>3
    <3> QED BY <1>1, <1>6, <2>1, <2>3, <3>1
  <2> QED BY <2>2, <2>3
<1> QED BY <1>7, <1>8, <1>9, <1>10 DEF c, n

\* A file that is written is the newest, and the others keep their order.
LEMMA WrittenLast ==
  ASSUME dir \in Seq(File), NEW wav \in File
  PROVE  LET d == Written(wav)
         IN  /\ d \in Seq(File) /\ Len(d) > 0 /\ d[Len(d)] = wav
             /\ \E old \in [1..(Len(d) - 1) -> DOMAIN dir] :
                  /\ \A i \in 1..(Len(d) - 1) : d[i] = dir[old[i]]
                  /\ \A i, j \in 1..(Len(d) - 1) : old[i] <= old[j] => i <= j
                  /\ \A k \in DOMAIN dir : dir[k].stem # wav.stem => \E i \in 1..(Len(d) - 1) : old[i] = k
<1> DEFINE older == {i \in DOMAIN dir : dir[i].stem = wav.stem}
           k == CHOOSE i \in older : TRUE
           kept == IF older = {} THEN dir ELSE RemoveAt(dir, k)
           n == Len(dir)
           d == Written(wav)
<1>1. d = Append(kept, wav)
  BY DEF Written
<1>2. n \in Nat /\ DOMAIN dir = 1..n
  OBVIOUS
<1>3. /\ kept \in Seq(File)
      /\ \E old \in [1..Len(kept) -> DOMAIN dir] :
           /\ \A i \in 1..Len(kept) : kept[i] = dir[old[i]]
           /\ \A i, j \in 1..Len(kept) : old[i] <= old[j] => i <= j
           /\ \A l \in DOMAIN dir : dir[l].stem # wav.stem => \E i \in 1..Len(kept) : old[i] = l
  <2>1. CASE older = {}
    <3> DEFINE old == [i \in 1..n |-> i]
    <3>1. old \in [1..n -> DOMAIN dir]
      BY <1>2
    <3>2. kept = dir
      BY <2>1
    <3>3. /\ \A i \in 1..n : dir[i] = dir[old[i]]
          /\ \A i, j \in 1..n : old[i] <= old[j] => i <= j
          /\ \A l \in DOMAIN dir : \E i \in 1..n : old[i] = l
      BY <1>2
    <3> HIDE DEF old, kept
    <3> QED BY <3>1, <3>2, <3>3
  <2>2. CASE older # {}
    <3> DEFINE old == [i \in 1..(n - 1) |-> IF i < k THEN i ELSE i + 1]
    <3>1. k \in DOMAIN dir /\ dir[k].stem = wav.stem /\ kept = RemoveAt(dir, k)
      BY <2>2
    <3> HIDE DEF k, kept
    <3>2. /\ kept \in Seq(File) /\ Len(kept) = n - 1
          /\ \A i \in 1..(n - 1) : kept[i] = IF i < k THEN dir[i] ELSE dir[i + 1]
      BY <3>1, WithoutOne
    <3>3. old \in [1..(n - 1) -> DOMAIN dir]
      <4>1. \A i \in 1..(n - 1) : (IF i < k THEN i ELSE i + 1) \in DOMAIN dir
        BY <1>2, <3>1
      <4> QED BY <4>1
    <3>4. \A i \in 1..(n - 1) : kept[i] = dir[old[i]]
      BY <3>2
    <3>5. \A i, j \in 1..(n - 1) : old[i] <= old[j] => i <= j
      BY <1>2, <3>1
    <3>6. ASSUME NEW l \in DOMAIN dir, dir[l].stem # wav.stem
          PROVE  \E i \in 1..(n - 1) : old[i] = l
      <4>1. l # k
        BY <3>1, <3>6
      <4>2. CASE l < k
        BY <1>2, <3>1, <4>2
      <4>3. CASE l > k
        <5>1. l - 1 \in 1..(n - 1) /\ ~(l - 1 < k) /\ (l - 1) + 1 = l
          BY <1>2, <3>1, <4>3
        <5> QED BY <5>1
      <4> QED BY <1>2, <3>1, <4>1, <4>2, <4>3
    <3> HIDE DEF old
    <3>7. kept \in Seq(File) /\ 1..Len(kept) = 1..(n - 1)
      BY <3>2
    <3>8. /\ old \in [1..Len(kept) -> DOMAIN dir]
          /\ \A i \in 1..Len(kept) : kept[i] = dir[old[i]]
          /\ \A i, j \in 1..Len(kept) : old[i] <= old[j] => i <= j
          /\ \A l \in DOMAIN dir : dir[l].stem # wav.stem => \E i \in 1..Len(kept) : old[i] = l
      BY <3>3, <3>4, <3>5, <3>6, <3>7, Zenon
    <3> QED BY <3>7, <3>8
  <2> QED BY <2>1, <2>2
<1> HIDE DEF kept, d
<1>4. /\ d \in Seq(File) /\ Len(d) = Len(kept) + 1 /\ d[Len(kept) + 1] = wav
      /\ \A i \in 1..Len(kept) : d[i] = kept[i]
  BY <1>1, <1>3, AppendProperties
<1>5. Len(kept) \in Nat /\ Len(d) - 1 = Len(kept) /\ Len(d) > 0
  BY <1>3, <1>4
<1> QED BY <1>3, <1>4, <1>5 DEF d

\* A readable file that is written is its phone's newest, and a file of another
\* phone, or of none, leaves the newest what it was.
LEMMA WrittenNewest ==
  ASSUME dir \in Seq(File), NEW wav \in File
  PROVE  /\ Readable(wav) => Newest(Written(wav), wav.stem)
         /\ \A stem \in Stem :
              /\ stem.form = "run"
              /\ extract_phone_id_from_stem(wav.stem) # stem.phone
              /\ Newest(dir, stem)
              => Newest(Written(wav), stem)
<1> DEFINE d == Written(wav)
           m == Len(d) - 1
<1>1. /\ d \in Seq(File) /\ m \in Nat /\ DOMAIN d = 1..(m + 1) /\ d[m + 1] = wav
  BY WrittenLast
<1>2. PICK old \in [1..m -> DOMAIN dir] :
        /\ \A i \in 1..m : d[i] = dir[old[i]]
        /\ \A i, j \in 1..m : old[i] <= old[j] => i <= j
        /\ \A k \in DOMAIN dir : dir[k].stem # wav.stem => \E i \in 1..m : old[i] = k
  BY WrittenLast
<1> HIDE DEF d, m
<1>3. Readable(wav) => Newest(d, wav.stem)
  BY <1>1 DEF Newest
<1>4. ASSUME NEW stem \in Stem, stem.form = "run",
             extract_phone_id_from_stem(wav.stem) # stem.phone, Newest(dir, stem)
      PROVE  Newest(d, stem)
  <2>1. PICK k \in DOMAIN dir :
          /\ dir[k].stem = stem /\ Readable(dir[k])
          /\ \A j \in DOMAIN dir :
               extract_phone_id_from_stem(dir[j].stem) = stem.phone => j <= k
    BY <1>4 DEF Newest
  <2>2. extract_phone_id_from_stem(stem) = stem.phone
    BY <1>4 DEF extract_phone_id_from_stem
  <2>3. PICK i \in 1..m : old[i] = k
    BY <1>2, <1>4, <2>1, <2>2
  <2>4. d[i].stem = stem /\ Readable(d[i]) /\ i \in DOMAIN d
    BY <1>1, <1>2, <2>1, <2>3
  <2>5. ASSUME NEW j \in DOMAIN d, extract_phone_id_from_stem(d[j].stem) = stem.phone
        PROVE  j <= i
    <3>1. j # m + 1
      BY <1>1, <1>4, <2>5
    <3>2. j \in 1..m
      BY <1>1, <3>1
    <3>3. old[j] <= k
      BY <1>2, <2>1, <2>5, <3>2
    <3> QED BY <1>2, <2>3, <3>2, <3>3
  <2> QED BY <2>4, <2>5 DEF Newest
<1> QED BY <1>3, <1>4 DEF d

Fields == {"pc", "run", "phone_ids", "live", "dropped", "channels", "beamformed", "todo",
           "alone", "part"}

LEMMA IdleFields == DOMAIN Idle = Fields /\ DOMAIN NoJob = {"picks", "todo", "channels"}
BY DEF Idle, Fields, NoJob

LEMMA GivenListed ==
  ASSUME NEW given \in Recorded
  PROVE  /\ Ascending(ToSet(given)) \in Seq(ToSet(given)) /\ ToSet(given) \in SUBSET Nat
         /\ ToSet(Ascending(ToSet(given))) \subseteq ToSet(given)
<1>1. given \in Seq(Nat) /\ Len(given) \in Nat /\ DOMAIN given = 1..Len(given)
  BY BatchToolsAssumption
<1>2. ToSet(given) \in SUBSET Nat
  BY <1>1 DEF ToSet
<1>3. given \in [1..Len(given) -> ToSet(given)]
  BY <1>1 DEF ToSet
<1>4. given \in Surjection(1..Len(given), ToSet(given))
  BY <1>1, <1>3 DEF Surjection, ToSet
<1>5. IsFiniteSet(1..Len(given))
  BY <1>1, FS_Interval
<1>6. IsFiniteSet(ToSet(given))
  BY <1>4, <1>5, FS_Surjection
<1> DEFINE S == ToSet(given)
<1> HIDE DEF S
<1>7. Ascending(S) \in Seq(S)
  BY <1>2, <1>6, AscendingLists DEF S
<1>8. ToSet(Ascending(S)) \subseteq S
  BY <1>7 DEF ToSet
<1> QED BY <1>2, <1>7, <1>8 DEF S

\* What a recording's file is, of whatever length.
LEMMA WavIsFile ==
  ASSUME NEW form \in {"run", "beam"}, NEW p \in Nat, NEW len \in Nat, session.run \in Nat
  PROVE  /\ Wav(form, p, len) \in File
         /\ Wav(form, p, len).hdr = Wav(form, p, len).dat /\ Wav(form, p, len).dat > 0
         /\ Wav(form, p, len).stem = [form |-> form, phone |-> p, key |-> session.run]
<1> DEFINE n == IF len = 0 THEN 1 ELSE len
<1>1. n \in Nat /\ n > 0
  OBVIOUS
<1>2. Wav(form, p, len) = [stem |-> [form |-> form, phone |-> p, key |-> session.run],
                           hdr |-> n, dat |-> n, rate |-> 48]
  BY DEF Wav
<1> HIDE DEF n
<1>3. form \in {"run", "beam", "lead", "out", "ch", "clean"}
  OBVIOUS
<1>4. [form |-> form, phone |-> p, key |-> session.run] \in Stem
  BY <1>3 DEF Stem
<1>5. Wav(form, p, len) \in File
  BY <1>1, <1>2, <1>4 DEF File
<1> QED BY <1>1, <1>2, <1>5

\* A whole file with samples in it is readable.
LEMMA WholeReadable ==
  ASSUME NEW f \in File, f.hdr = f.dat, f.dat > 0 PROVE Readable(f)
<1>1. f.dat \in Nat /\ SamplesOf(f) = f.dat
  BY DEF File, SamplesOf
<1> DEFINE n == f.dat
<1> HIDE DEF n
<1>2. ASSUME NEW m \in Nat, m > 0 PROVE (2 * m) \div (IF m > 1 THEN m ELSE 1) = 2
  <2>1. CASE m > 1
    BY <2>1, Z3
  <2>2. CASE m = 1
    BY <2>2
  <2> QED BY <1>2, <2>1, <2>2
<1>3. SampleWidth(f) = (2 * n) \div (IF n > 1 THEN n ELSE 1) /\ n \in Nat /\ n > 0
  BY <1>1 DEF SampleWidth, n
<1> QED BY <1>1, <1>2, <1>3 DEF Readable

\* A program other than the recorder writes a file.
LEMMA ForeignKeeps ==
  ASSUME BatchInv, NEW wav \in File, Foreign(wav), DOMAIN job' = DOMAIN job,
         job'.channels = <<>> \/ job' = job
  PROVE  BatchInv'
<1>1. /\ dir' = Written(wav) /\ complete' = {} /\ session' = [session EXCEPT !.alone = FALSE]
  BY DEF Foreign
<1>2. DOMAIN session = Fields
  BY IdleFields DEF BatchInv, BatchTyped
<1>3. /\ DOMAIN session' = Fields /\ session'.alone = FALSE
      /\ session'.pc = session.pc /\ session'.run = session.run
      /\ session'.phone_ids = session.phone_ids /\ session'.live = session.live
      /\ session'.dropped = session.dropped /\ session'.channels = session.channels
      /\ session'.beamformed = session.beamformed /\ session'.todo = session.todo
  BY <1>1, <1>2 DEF Fields
<1>4. dir' \in Seq(File)
  BY <1>1, WrittenLast DEF BatchInv, BatchTyped
<1>5. job'.channels \in Seq(File) /\ Loaded'
  <2>1. CASE job'.channels = <<>>
    BY <2>1 DEF Loaded
  <2>2. CASE job' = job
    BY <2>2 DEF BatchInv, BatchTyped, Loaded
  <2> QED BY <2>1, <2>2
<1>6. BatchTyped'
  BY <1>3, <1>4, <1>5, IdleFields DEF BatchInv, BatchTyped
<1>7. SameOrder' /\ RecordedAsOwn'
  BY <1>3 DEF BatchInv, SameOrder, RecordedAsOwn
<1> QED BY <1>1, <1>3, <1>5, <1>6, <1>7 DEF BatchInv, WritesInTurn, LatestTogether

\* The recorder moves on without touching a file.
LEMMA SessionMoves ==
  ASSUME BatchInv, UNCHANGED <<dir, complete, job>>,
         DOMAIN session' = Fields, session'.pc \in {"idle", "recording"}, session'.run \in Nat,
         session'.beamformed \in Nat, session'.phone_ids \in Seq(Nat),
         \A p \in DOMAIN session'.channels : session'.channels[p].len \in Nat,
         session'.pc = "recording" => ToSet(session'.phone_ids) \subseteq DOMAIN session'.channels,
         ~session'.dropped =>
           /\ session'.live = session'.phone_ids
           /\ \A p \in DOMAIN session'.channels : session'.channels[p].src \subseteq {p}
  PROVE  BatchInv'
<1>1. BatchTyped'
  BY IdleFields DEF BatchInv, BatchTyped
<1>2. SameOrder' /\ RecordedAsOwn'
  BY DEF SameOrder, RecordedAsOwn
<1>3. Loaded' /\ WritesInTurn' /\ LatestTogether'
  BY DEF BatchInv, Loaded, WritesInTurn, LatestTogether
<1> QED BY <1>1, <1>2, <1>3 DEF BatchInv

\* A recording begins, goes on, and ends before its files are written.
LEMMA RecorderKeeps ==
  ASSUME BatchInv,
         \/ \E given \in Recorded : StartRun(given)
         \/ Record \/ DropPhone \/ Die
  PROVE  BatchInv'
<1> USE IdleFields
<1>1. /\ DOMAIN session = Fields /\ session.run \in Nat /\ session.beamformed \in Nat
      /\ session.phone_ids \in Seq(Nat) /\ FrameLen \in Nat
      /\ \A p \in DOMAIN session.channels : session.channels[p].len \in Nat
      /\ session.pc = "recording" => ToSet(session.phone_ids) \subseteq DOMAIN session.channels
      /\ ~session.dropped =>
           /\ session.live = session.phone_ids
           /\ \A p \in DOMAIN session.channels : session.channels[p].src \subseteq {p}
  BY BatchToolsAssumption DEF BatchInv, BatchTyped, SameOrder, RecordedAsOwn
<1>2. ASSUME NEW given \in Recorded, StartRun(given) PROVE BatchInv'
  <2> DEFINE ids == Ascending(ToSet(given))
  <2>1. PICK run \in {session.run, session.run + 1} \ {0} :
          session' = [Idle EXCEPT !.pc = "recording", !.run = run, !.phone_ids = ids, !.live = ids,
                        !.channels = [p \in ToSet(given) |-> [len |-> 0, src |-> {}]]]
    BY <1>2 DEF StartRun, SortedIds
  <2>2. ids \in Seq(ToSet(given)) /\ ToSet(given) \in SUBSET Nat /\ ToSet(ids) \subseteq ToSet(given)
    BY GivenListed
  <2> HIDE DEF ids
  <2>3. ids \in Seq(Nat)
    BY <2>2
  <2>4. session' = [pc |-> "recording", run |-> run, phone_ids |-> ids, live |-> ids,
                    dropped |-> FALSE, channels |-> [p \in ToSet(given) |-> [len |-> 0, src |-> {}]],
                    beamformed |-> 0, todo |-> <<>>, alone |-> FALSE, part |-> FALSE]
    BY <2>1 DEF Idle
  <2>5. /\ DOMAIN session' = Fields /\ session'.pc = "recording" /\ session'.run = run
        /\ session'.phone_ids = ids /\ session'.live = ids /\ session'.beamformed = 0
        /\ DOMAIN session'.channels = ToSet(given)
        /\ \A p \in ToSet(given) : session'.channels[p].len = 0 /\ session'.channels[p].src = {}
    BY <2>4 DEF Fields
  <2>6. UNCHANGED <<dir, complete, job>>
    BY <1>2 DEF StartRun
  <2>7. run \in Nat
    BY <1>1
  <2> QED BY <2>2, <2>3, <2>5, <2>6, <2>7, SessionMoves
<1>3. CASE Record
  <2> DEFINE n_known == Min({Len(session.phone_ids), Len(session.live)})
             From(p) == {session.live[i] : i \in {j \in 1..n_known : session.phone_ids[j] = p}}
             after == [p \in DOMAIN session.channels |->
                         IF From(p) = {} THEN session.channels[p]
                         ELSE [len |-> session.channels[p].len + FrameLen,
                               src |-> session.channels[p].src \cup From(p)]]
  <2>1. /\ session.pc = "recording"
        /\ session' = [session EXCEPT !.beamformed = session.beamformed + FrameLen,
                                      !.channels = after]
        /\ UNCHANGED <<dir, complete, job>>
    BY <1>3 DEF Record
  <2>2. ~session.dropped => \A p : From(p) \subseteq {p}
    BY <1>1
  <2> HIDE DEF From
  <2>3. /\ DOMAIN after = DOMAIN session.channels
        /\ \A p \in DOMAIN after : after[p].len \in Nat
        /\ ~session.dropped => \A p \in DOMAIN after : after[p].src \subseteq {p}
    BY <1>1, <2>2
  <2> HIDE DEF after
  <2>4. /\ DOMAIN session' = Fields /\ session'.pc = "recording" /\ session'.run = session.run
        /\ session'.phone_ids = session.phone_ids /\ session'.live = session.live
        /\ session'.beamformed = session.beamformed + FrameLen
        /\ session'.channels = after /\ session'.dropped = session.dropped
    BY <1>1, <2>1 DEF Fields
  <2> QED BY <1>1, <2>1, <2>3, <2>4, SessionMoves
<1>4. CASE DropPhone
  <2>1. PICK live : /\ session.pc = "recording"
                    /\ session' = [session EXCEPT !.live = live, !.dropped = TRUE]
                    /\ UNCHANGED <<dir, complete, job>>
    BY <1>4 DEF DropPhone
  <2>2. /\ DOMAIN session' = Fields /\ session'.pc = "recording" /\ session'.run = session.run
        /\ session'.phone_ids = session.phone_ids /\ session'.dropped
        /\ session'.beamformed = session.beamformed /\ session'.channels = session.channels
    BY <1>1, <2>1 DEF Fields
  <2> QED BY <1>1, <2>1, <2>2, SessionMoves
<1>5. CASE Die
  <2>1. session' = [Idle EXCEPT !.run = session.run] /\ UNCHANGED <<dir, complete, job>>
    BY <1>5 DEF Die, Finished
  <2>2. session' = [pc |-> "idle", run |-> session.run, phone_ids |-> <<>>, live |-> <<>>,
                    dropped |-> FALSE, channels |-> <<>>, beamformed |-> 0, todo |-> <<>>,
                    alone |-> FALSE, part |-> FALSE]
    BY <2>1 DEF Idle
  <2>3. /\ DOMAIN session' = Fields /\ session'.pc = "idle" /\ session'.run = session.run
        /\ session'.phone_ids = <<>> /\ session'.live = <<>>
        /\ session'.beamformed = 0 /\ DOMAIN session'.channels = {}
    BY <2>2 DEF Fields
  <2>4. /\ session'.beamformed \in Nat /\ session'.phone_ids \in Seq(Nat)
        /\ session'.live = session'.phone_ids
        /\ \A p \in DOMAIN session'.channels :
             session'.channels[p].len \in Nat /\ session'.channels[p].src \subseteq {p}
    BY <2>3
  <2> QED BY <1>1, <2>1, <2>3, <2>4, SessionMoves
<1> QED BY <1>2, <1>3, <1>4, <1>5

\* The list of files that a recording leaves to be written.
LEMMA FinaliseKeeps == ASSUME BatchInv, Finalise PROVE BatchInv'
<1> DEFINE ids == session.phone_ids
           n == Len(ids)
           runs == [i \in DOMAIN ids |-> Wav("run", ids[i], session.channels[ids[i]].len)]
           beam == Wav("beam", 0, session.beamformed)
           todo == runs \o <<beam>>
<1>1. /\ DOMAIN session = Fields /\ session.run \in Nat /\ session.beamformed \in Nat
      /\ ids \in Seq(Nat) /\ n \in Nat /\ DOMAIN ids = 1..n
      /\ \A p \in DOMAIN session.channels : session.channels[p].len \in Nat
      /\ ToSet(ids) \subseteq DOMAIN session.channels
  BY IdleFields DEF BatchInv, BatchTyped, Finalise
<1>2. /\ session' = [session EXCEPT !.pc = "finalising", !.alone = TRUE, !.todo = todo]
      /\ UNCHANGED <<dir, complete, job>>
  BY DEF Finalise
<1>3. ASSUME NEW i \in 1..n
      PROVE  /\ runs[i] \in File /\ runs[i].hdr = runs[i].dat /\ runs[i].dat > 0
             /\ runs[i].stem = RunStem(ids[i])
  <2>1. ids[i] \in Nat /\ ids[i] \in DOMAIN session.channels
    BY <1>1 DEF ToSet
  <2>2. session.channels[ids[i]].len \in Nat
    BY <1>1, <2>1
  <2> QED BY <1>1, <2>1, <2>2, WavIsFile DEF RunStem
<1>4. /\ beam \in File /\ beam.hdr = beam.dat /\ beam.dat > 0
      /\ beam.stem = [form |-> "beam", phone |-> 0, key |-> session.run]
  BY <1>1, WavIsFile
<1>5. runs \in Seq(File) /\ Len(runs) = n
  <2>1. runs = [i \in 1..n |-> runs[i]]
    BY <1>1
  <2>2. \A i \in 1..n : runs[i] \in File
    BY <1>3
  <2> HIDE DEF runs, n
  <2>3. [i \in 1..n |-> runs[i]] \in Seq(File)
    BY <1>1, <2>2
  <2>4. DOMAIN runs = 1..n
    BY <2>1
  <2> QED BY <1>1, <2>1, <2>3, <2>4
<1> HIDE DEF runs, beam
<1>6. todo = Append(runs, beam)
  BY <1>4, <1>5
<1> HIDE DEF todo
<1>7. /\ todo \in Seq(File) /\ Len(todo) = n + 1 /\ DOMAIN todo = 1..(n + 1)
      /\ \A i \in 1..n : todo[i] = runs[i]
      /\ todo[n + 1] = beam
  BY <1>1, <1>4, <1>5, <1>6, AppendProperties
<1> HIDE DEF n
<1>8. ToWrite(todo, session.run) /\ todo # <<>>
  <2>1. \A i \in DOMAIN todo : i = n + 1 \/ i \in 1..n
    BY <1>1, <1>7
  <2>2. \A i \in 1..n : i # n + 1
    BY <1>1
  <2>3. \A i \in DOMAIN todo : todo[i].hdr = todo[i].dat /\ todo[i].dat > 0
    BY <1>3, <1>4, <1>7, <2>1
  <2>4. ASSUME NEW i \in DOMAIN todo
        PROVE  /\ todo[i].stem.form = IF i = Len(todo) THEN "beam" ELSE "run"
               /\ todo[i].stem.key = session.run
    <3>1. CASE i = n + 1
      BY <1>4, <1>7, <3>1
    <3>2. CASE i \in 1..n
      <4>1. todo[i].stem = RunStem(ids[i]) /\ i # Len(todo)
        BY <1>3, <1>7, <2>2, <3>2
      <4> QED BY <4>1 DEF RunStem
    <3> QED BY <2>1, <3>1, <3>2
  <2>5. todo # <<>>
    BY <1>1, <1>7
  <2> QED BY <1>7, <2>3, <2>4, <2>5 DEF ToWrite
<1>9. /\ DOMAIN session' = Fields /\ session'.pc = "finalising" /\ session'.todo = todo
      /\ session'.run = session.run /\ session'.phone_ids = ids /\ session'.live = session.live
      /\ session'.beamformed = session.beamformed /\ session'.channels = session.channels
      /\ session'.dropped = session.dropped
  BY <1>1, <1>2 DEF Fields
<1> HIDE DEF ids
<1>10. BatchTyped'
  BY <1>1, <1>2, <1>8, <1>9, IdleFields DEF BatchInv, BatchTyped, ids
<1>11. WritesInTurn'
  <2> SUFFICES ASSUME NEW p \in ToSet(ids)
               PROVE  \E k \in DOMAIN todo : todo[k].stem = RunStem(p)
    BY <1>2, <1>9 DEF WritesInTurn, RunStem
  <2>1. PICK i \in 1..n : p = ids[i]
    BY <1>1 DEF ToSet
  <2>2. i \in DOMAIN todo /\ todo[i].stem = RunStem(p)
    BY <1>1, <1>3, <1>7, <2>1
  <2> QED BY <2>2
<1>12. SameOrder' /\ RecordedAsOwn' /\ Loaded' /\ LatestTogether'
  BY <1>2, <1>9 DEF BatchInv, SameOrder, RecordedAsOwn, Loaded, LatestTogether, ids
<1> QED BY <1>10, <1>11, <1>12 DEF BatchInv

\* A file that is opened, and one that lacks a sample, keep their name.
LEMMA TornIsFile ==
  ASSUME NEW f \in File, f.dat > 0
  PROVE  /\ [f EXCEPT !.hdr = NoHeader, !.dat = 0] \in File
         /\ [f EXCEPT !.hdr = NoHeader, !.dat = 0].stem = f.stem
         /\ [f EXCEPT !.dat = @ - 1] \in File
         /\ [f EXCEPT !.dat = @ - 1].stem = f.stem
<1>1. PICK a \in Stem, b \in Nat \cup {NoHeader, Open}, c \in Nat, d \in Nat :
        f = [stem |-> a, hdr |-> b, dat |-> c, rate |-> d]
  BY DEF File
<1>2. [f EXCEPT !.hdr = NoHeader, !.dat = 0] = [stem |-> a, hdr |-> NoHeader, dat |-> 0, rate |-> d]
  <2> DEFINE g == [f EXCEPT !.hdr = NoHeader]
  <2>1. g = [stem |-> a, hdr |-> NoHeader, dat |-> c, rate |-> d]
    BY <1>1
  <2>2. [f EXCEPT !.hdr = NoHeader, !.dat = 0] = [g EXCEPT !.dat = 0]
    OBVIOUS
  <2> HIDE DEF g
  <2>3. [g EXCEPT !.dat = 0] = [stem |-> a, hdr |-> NoHeader, dat |-> 0, rate |-> d]
    BY <2>1
  <2> QED BY <2>2, <2>3
<1>3. [f EXCEPT !.dat = @ - 1] = [stem |-> a, hdr |-> b, dat |-> c - 1, rate |-> d]
  BY <1>1
<1>4. c - 1 \in Nat /\ f.stem = a
  BY <1>1
<1>5. [stem |-> a, hdr |-> NoHeader, dat |-> 0, rate |-> d] \in File
  BY DEF File
<1>6. [stem |-> a, hdr |-> b, dat |-> c - 1, rate |-> d] \in File
  BY <1>4 DEF File
<1> QED BY <1>2, <1>3, <1>4, <1>5, <1>6

\* The writer of the recorder's files: one at a time, each first torn and then
\* whole, the beamformed output last.
LEMMA WriterKeeps == ASSUME BatchInv, OpenWav \/ CloseWav PROVE BatchInv'
<1> DEFINE todo == session.todo
           wav == Head(todo)
           n == Len(todo)
<1>1. /\ DOMAIN session = Fields /\ session.pc = "finalising" /\ session.run \in Nat
      /\ session.beamformed \in Nat /\ session.phone_ids \in Seq(Nat)
      /\ ToWrite(todo, session.run) /\ todo # <<>> /\ dir \in Seq(File)
      /\ \A p \in DOMAIN session.channels : session.channels[p].len \in Nat
  BY IdleFields DEF BatchInv, BatchTyped, OpenWav, CloseWav
<1>2. /\ todo \in Seq(File) /\ n \in Nat /\ n > 0 /\ DOMAIN todo = 1..n
      /\ wav = todo[1] /\ wav \in File /\ wav.hdr = wav.dat /\ wav.dat > 0
      /\ wav.stem.key = session.run
      /\ wav.stem.form = IF n = 1 THEN "beam" ELSE "run"
  <2>1. todo \in Seq(File) /\ n \in Nat /\ n > 0 /\ DOMAIN todo = 1..n
    BY <1>1 DEF ToWrite
  <2>2. 1 \in DOMAIN todo /\ wav = todo[1] /\ todo[1] \in File
    BY <2>1
  <2>3. /\ todo[1].hdr = todo[1].dat /\ todo[1].dat > 0 /\ todo[1].stem.key = session.run
        /\ todo[1].stem.form = IF 1 = n THEN "beam" ELSE "run"
    BY <1>1, <2>2 DEF ToWrite
  <2> QED BY <2>1, <2>2, <2>3
<1> HIDE DEF todo, wav, n
\* Whose file the first of the list is.
<1>3. ASSUME NEW p \in Nat, extract_phone_id_from_stem(wav.stem) = p
      PROVE  n # 1 /\ wav.stem = RunStem(p)
  <2>1. wav.stem \in Stem /\ NoPhone \notin Nat
    BY <1>2, WavFilesAssumption DEF File
  <2>2. wav.stem.form = "run"
    BY <1>2, <1>3, <2>1 DEF extract_phone_id_from_stem
  <2>3. wav.stem.phone = p /\ wav.stem.key = session.run
    BY <1>2, <1>3, <2>2 DEF extract_phone_id_from_stem
  <2> QED BY <1>2, <2>1, <2>2, <2>3 DEF RunStem, Stem
<1>4. \A p \in ToSet(session.phone_ids) :
        p \in Nat /\ RunStem(p) \in Stem /\ RunStem(p).form = "run" /\ RunStem(p).phone = p
  BY <1>1 DEF ToSet, RunStem, Stem
<1>5. session.alone => \A p \in ToSet(session.phone_ids) :
        (\E k \in DOMAIN todo : todo[k].stem = RunStem(p)) \/ Newest(dir, RunStem(p))
  BY <1>1 DEF BatchInv, WritesInTurn, todo
<1>6. CASE OpenWav
  <2>1. PICK torn \in File : torn.stem = wav.stem /\ dir' = Written(torn)
    <3>1. \/ dir' = Written([wav EXCEPT !.hdr = NoHeader, !.dat = 0])
          \/ dir' = Written([wav EXCEPT !.dat = @ - 1])
      BY <1>6 DEF OpenWav, wav, todo
    <3> QED BY <1>2, <3>1, TornIsFile
  <2>2. /\ session' = [session EXCEPT !.part = TRUE] /\ complete' = {} /\ job' = job
    BY <1>6 DEF OpenWav
  <2>3. /\ DOMAIN session' = Fields /\ session'.pc = "finalising" /\ session'.todo = todo
        /\ session'.run = session.run /\ session'.phone_ids = session.phone_ids
        /\ session'.live = session.live /\ session'.beamformed = session.beamformed
        /\ session'.channels = session.channels /\ session'.dropped = session.dropped
        /\ session'.alone = session.alone
    BY <1>1, <2>2 DEF Fields, todo
  <2>4. dir' \in Seq(File)
    BY <1>1, <2>1, WrittenLast
  <2>5. BatchTyped'
    BY <1>1, <2>2, <2>3, <2>4, IdleFields DEF BatchInv, BatchTyped, todo
  <2>6. WritesInTurn'
    <3> SUFFICES ASSUME session.alone, NEW p \in ToSet(session.phone_ids)
                 PROVE  (\E k \in DOMAIN todo : todo[k].stem = RunStem(p)) \/ Newest(dir', RunStem(p))
      BY <2>3 DEF WritesInTurn, RunStem
    <3>1. CASE extract_phone_id_from_stem(wav.stem) = p
      BY <1>2, <1>3, <1>4, <3>1
    <3>2. CASE extract_phone_id_from_stem(wav.stem) # p /\ Newest(dir, RunStem(p))
      BY <1>1, <1>4, <2>1, <3>2, WrittenNewest
    <3> QED BY <1>5, <3>1, <3>2
  <2>7. SameOrder' /\ RecordedAsOwn' /\ Loaded' /\ LatestTogether'
    BY <2>2, <2>3 DEF BatchInv, SameOrder, RecordedAsOwn, Loaded, LatestTogether
  <2> QED BY <2>5, <2>6, <2>7 DEF BatchInv
<1>7. CASE CloseWav
  <2>1. dir' = Written(wav) /\ job' = job
    BY <1>7 DEF CloseWav, wav, todo
  <2>2. dir' \in Seq(File)
    BY <1>1, <1>2, <2>1, WrittenLast
  <2>3. Newest(dir', wav.stem)
    BY <1>1, <1>2, <2>1, WrittenNewest, WholeReadable
  <2>4. ASSUME NEW p \in ToSet(session.phone_ids), Newest(dir, RunStem(p))
        PROVE  Newest(dir', RunStem(p))
    <3>1. CASE extract_phone_id_from_stem(wav.stem) = p
      BY <1>3, <1>4, <2>3, <3>1
    <3>2. CASE extract_phone_id_from_stem(wav.stem) # p
      BY <1>1, <1>2, <1>4, <2>1, <2>4, <3>2, WrittenNewest
    <3> QED BY <3>1, <3>2
  <2>5. CASE n > 1
    <3> DEFINE rest == Tail(todo)
    <3>1. /\ session' = [session EXCEPT !.todo = rest, !.part = FALSE] /\ complete' = {}
      BY <1>7, <2>5 DEF CloseWav, todo, n
    <3>2. /\ rest \in Seq(File) /\ Len(rest) = n - 1
          /\ \A i \in 1..Len(rest) : rest[i] = todo[i + 1]
      <4>1. todo # <<>>
        BY <1>1
      <4> QED BY <1>2, <4>1, HeadTailProperties DEF n
    <3> HIDE DEF rest
    <3>3. DOMAIN rest = 1..(n - 1) /\ rest # <<>> /\ \A i \in 1..(n - 1) : i + 1 \in 1..n
      BY <1>2, <2>5, <3>2
    <3>4. ToWrite(rest, session.run)
      <4>1. \A i \in 1..(n - 1) : (i + 1 = n) = (i = n - 1)
        BY <1>2
      <4>2. \A i \in 1..(n - 1) :
              /\ rest[i].hdr = rest[i].dat /\ rest[i].dat > 0 /\ rest[i].stem.key = session.run
              /\ rest[i].stem.form = IF i + 1 = n THEN "beam" ELSE "run"
        <5>1. \A i \in 1..(n - 1) : i + 1 \in DOMAIN todo /\ rest[i] = todo[i + 1]
          BY <1>2, <3>2, <3>3
        <5>2. \A k \in DOMAIN todo :
                /\ todo[k].hdr = todo[k].dat /\ todo[k].dat > 0 /\ todo[k].stem.key = session.run
                /\ todo[k].stem.form = IF k = n THEN "beam" ELSE "run"
          BY <1>1 DEF ToWrite, n
        <5> HIDE DEF n
        <5> QED BY <5>1, <5>2
      <4>3. \A i \in 1..(n - 1) :
              rest[i].stem.form = IF i = Len(rest) THEN "beam" ELSE "run"
        BY <3>2, <4>1, <4>2
      <4> QED BY <3>2, <3>3, <4>2, <4>3 DEF ToWrite
    <3>5. /\ DOMAIN session' = Fields /\ session'.pc = "finalising" /\ session'.todo = rest
          /\ session'.run = session.run /\ session'.phone_ids = session.phone_ids
          /\ session'.live = session.live /\ session'.beamformed = session.beamformed
          /\ session'.channels = session.channels /\ session'.dropped = session.dropped
          /\ session'.alone = session.alone
      BY <1>1, <3>1 DEF Fields
    <3>6. BatchTyped'
      BY <1>1, <2>1, <2>2, <3>3, <3>4, <3>5, IdleFields DEF BatchInv, BatchTyped
    <3>7. WritesInTurn'
      <4> SUFFICES ASSUME session.alone, NEW p \in ToSet(session.phone_ids)
                   PROVE  \/ \E k \in DOMAIN rest : rest[k].stem = RunStem(p)
                          \/ Newest(dir', RunStem(p))
        BY <3>5 DEF WritesInTurn, RunStem
      <4>1. ASSUME NEW k \in DOMAIN todo, todo[k].stem = RunStem(p)
            PROVE  \/ \E l \in DOMAIN rest : rest[l].stem = RunStem(p)
                   \/ Newest(dir', RunStem(p))
        <5>1. CASE k = 1
          BY <1>2, <2>3, <4>1, <5>1
        <5>2. CASE k # 1
          <6>1. k - 1 \in DOMAIN rest /\ rest[k - 1] = todo[k]
            BY <1>2, <3>2, <3>3, <5>2
          <6> QED BY <4>1, <6>1
        <5> QED BY <5>1, <5>2
      <4> QED BY <1>5, <2>4, <4>1
    <3>8. SameOrder' /\ RecordedAsOwn' /\ Loaded' /\ LatestTogether'
      BY <2>1, <3>1, <3>5 DEF BatchInv, SameOrder, RecordedAsOwn, Loaded, LatestTogether
    <3> QED BY <3>6, <3>7, <3>8 DEF BatchInv
  <2>6. CASE n = 1
    <3>1. /\ session' = [Idle EXCEPT !.run = session.run]
          /\ complete' = IF session.alone
               THEN {Wav("run", p, 0).stem : p \in ToSet(session.phone_ids)} ELSE {}
      BY <1>7, <2>6 DEF CloseWav, Finished, todo, n
    <3>2. session' = [pc |-> "idle", run |-> session.run, phone_ids |-> <<>>, live |-> <<>>,
                      dropped |-> FALSE, channels |-> <<>>, beamformed |-> 0, todo |-> <<>>,
                      alone |-> FALSE, part |-> FALSE]
      BY <3>1 DEF Idle
    <3>3. /\ DOMAIN session' = Fields /\ session'.pc = "idle" /\ session'.run = session.run
          /\ session'.phone_ids = <<>> /\ session'.live = <<>>
          /\ session'.beamformed = 0 /\ DOMAIN session'.channels = {}
      BY <3>2 DEF Fields
    <3>4. session'.beamformed \in Nat /\ session'.phone_ids \in Seq(Nat)
      BY <3>3
    <3>5. BatchTyped'
      BY <1>1, <2>1, <2>2, <3>3, <3>4, IdleFields DEF BatchInv, BatchTyped
    <3>6. WritesInTurn' /\ SameOrder' /\ RecordedAsOwn' /\ Loaded'
      BY <2>1, <3>3 DEF BatchInv, SameOrder, RecordedAsOwn, Loaded, WritesInTurn
    <3>7. LatestTogether'
      <4> SUFFICES ASSUME session.alone, NEW p \in ToSet(session.phone_ids)
                   PROVE  LET stem == Wav("run", p, 0).stem
                          IN  stem.form = "run" /\ stem.phone \in Nat /\ Newest(dir', stem)
        BY <3>1 DEF LatestTogether
      <4>1. Wav("run", p, 0).stem = RunStem(p)
        BY DEF Wav, RunStem
      <4>2. \A k \in DOMAIN todo : k = 1
        BY <1>2, <2>6
      <4>3. \A k \in DOMAIN todo : todo[k].stem # RunStem(p)
        BY <1>2, <1>4, <2>6, <4>2
      <4> QED BY <1>4, <1>5, <2>4, <4>1, <4>3
    <3> QED BY <3>5, <3>6, <3>7 DEF BatchInv
  <2> QED BY <1>2, <2>5, <2>6
<1> QED BY <1>6, <1>7

\* A loader reads on.
LEMMA JobMoves ==
  ASSUME BatchInv, UNCHANGED <<dir, session, complete>>, DOMAIN job' = DOMAIN NoJob,
         job'.channels \in Seq(File), Loaded'
  PROVE  BatchInv'
BY DEF BatchInv, BatchTyped, SameOrder, RecordedAsOwn, WritesInTurn, LatestTogether,
       RunStem, ToWrite

LEMMA ProductNatural ==
  ASSUME NEW m \in Nat, NEW n \in Nat PROVE m * n \in Nat
OBVIOUS

\* An audit file comes, a load begins and reads on, and its output is written.
LEMMA LoaderKeeps ==
  ASSUME BatchInv,
         \/ \E p \in Auditors : Pull(p)
         \/ StartLoad \/ ReadNext \/ batch_ingest
  PROVE  BatchInv'
<1>1. /\ dir \in Seq(File) /\ job.channels \in Seq(File) /\ Loaded
      /\ DOMAIN job = {"picks", "todo", "channels"}
  BY IdleFields DEF BatchInv, BatchTyped
<1>2. ASSUME NEW p \in Auditors, Pull(p) PROVE BatchInv'
  <2>1. PICK rate \in {44, 48}, n \in 0..MaxFrames, patched \in BOOLEAN :
          Foreign(AuditFile(p, rate, n * FrameLen, patched))
    BY <1>2 DEF Pull
  <2>2. job' = job
    BY <1>2 DEF Pull
  <2> DEFINE m == n * FrameLen
  <2>3. m \in Nat
    BY ProductNatural, BatchToolsAssumption
  <2> HIDE DEF m
  <2>4. m \div 2 \in Nat
    BY <2>3
  <2>5. AuditFile(p, rate, m, patched) \in File
    <3>1. p \in Nat
      BY BatchToolsAssumption
    <3>2. [form |-> "lead", phone |-> p, key |-> 0] \in Stem
      BY <3>1 DEF Stem
    <3> QED BY <2>3, <2>4, <3>2 DEF AuditFile, File
  <2> QED BY <2>1, <2>2, <2>5, ForeignKeeps DEF m
<1>3. CASE StartLoad
  <2>1. /\ job' = [picks |-> pick_most_recent_per_phone(dir), todo |-> Ascending(PhonesIn(dir)),
                   channels |-> <<>>]
        /\ UNCHANGED <<dir, session, complete>>
    BY <1>3 DEF StartLoad
  <2>2. DOMAIN job' = {"picks", "todo", "channels"} /\ job'.channels = <<>>
    BY <2>1
  <2> QED BY <2>1, <2>2, JobMoves, IdleFields DEF Loaded
<1>4. CASE ReadNext
  <2>1. PICK i \in DOMAIN dir :
          /\ job' = IF Readable(dir[i])
                       /\ (job.channels = <<>> \/ job.channels[1].rate = dir[i].rate)
                    THEN [job EXCEPT !.todo = Tail(@), !.channels = Append(@, dir[i])]
                    ELSE NoJob
          /\ UNCHANGED <<dir, session, complete>>
    BY <1>4 DEF ReadNext
  <2>2. CASE job' = NoJob
    <3>1. DOMAIN job' = {"picks", "todo", "channels"} /\ job'.channels = <<>>
      BY <2>2 DEF NoJob
    <3>2. Loaded' /\ job'.channels \in Seq(File)
      BY <3>1 DEF Loaded
    <3>3. UNCHANGED <<dir, session, complete>>
      BY <2>1
    <3> QED BY <3>1, <3>2, <3>3, JobMoves, IdleFields
  <2>3. CASE /\ Readable(dir[i])
             /\ job' = [job EXCEPT !.todo = Tail(@), !.channels = Append(@, dir[i])]
    <3> DEFINE wav == dir[i]
               c == job.channels
               d == Append(c, wav)
    <3>1. DOMAIN job' = {"picks", "todo", "channels"} /\ job'.channels = d
      BY <1>1, <2>3
    <3>2. wav \in File
      BY <1>1
    <3> HIDE DEF wav
    <3>3. /\ c \in Seq(File) /\ d \in Seq(File) /\ Len(d) = Len(c) + 1 /\ d[Len(c) + 1] = wav
          /\ \A k \in 1..Len(c) : d[k] = c[k]
      BY <1>1, <3>2, AppendProperties
    <3> HIDE DEF d
    <3>4. \A k \in 1..Len(c) : Readable(c[k])
      BY <1>1 DEF Loaded
    <3>5. \A k \in DOMAIN d : k \in 1..Len(c) \/ k = Len(c) + 1
      BY <3>3
    <3>6. Readable(wav)
      BY <2>3 DEF wav
    <3>7. \A k \in DOMAIN d : Readable(d[k])
      BY <3>3, <3>4, <3>5, <3>6
    <3>8. Loaded'
      BY <3>1, <3>7 DEF Loaded
    <3> QED BY <2>1, <3>1, <3>3, <3>8, JobMoves, IdleFields
  <2> QED BY <2>1, <2>2, <2>3
<1>5. CASE batch_ingest
  <2> DEFINE S == {SamplesOf(job.channels[i]) : i \in DOMAIN job.channels}
             n == Min(S)
             wav == [stem |-> [form |-> "out", phone |-> job.channels[1].stem.phone, key |-> 0],
                      hdr |-> n, dat |-> n, rate |-> job.channels[1].rate]
  <2>1. job.channels # <<>> /\ job' = NoJob
    BY <1>5 DEF batch_ingest
  <2>2. Foreign(wav) \/ UNCHANGED <<dir, session, complete>>
    BY <1>5 DEF batch_ingest
  <2>3. DOMAIN job' = {"picks", "todo", "channels"} /\ job'.channels = <<>>
    BY <2>1 DEF NoJob
  <2>4. CASE UNCHANGED <<dir, session, complete>>
    BY <2>3, <2>4, JobMoves, IdleFields DEF Loaded
  <2>5. CASE Foreign(wav)
    <3>1. \A i \in DOMAIN job.channels : job.channels[i] \in File /\ Readable(job.channels[i])
      BY <1>1 DEF Loaded
    <3>2. \A i \in DOMAIN job.channels : SamplesOf(job.channels[i]) \in Nat
      <4> TAKE i \in DOMAIN job.channels
      <4>1. job.channels[i].hdr \in Nat /\ SamplesOf(job.channels[i]) = job.channels[i].hdr
        BY <3>1, ReadableWhole
      <4> QED BY <4>1
    <3>3. 1 \in DOMAIN job.channels
      BY <1>1, <2>1
    <3>4. S \in SUBSET Nat /\ S # {}
      BY <3>2, <3>3
    <3> HIDE DEF S
    <3>5. n \in Nat
      BY <3>4, MinIn
    <3> HIDE DEF n
    <3>6. job.channels[1] \in File
      BY <3>1, <3>3
    <3>7. job.channels[1].stem.phone \in Nat /\ job.channels[1].rate \in Nat
      BY <3>6 DEF File, Stem
    <3>8. [form |-> "out", phone |-> job.channels[1].stem.phone, key |-> 0] \in Stem
      BY <3>7 DEF Stem
    <3>9. wav \in File
      BY <3>5, <3>7, <3>8 DEF File
    <3> HIDE DEF wav
    <3> QED BY <1>1, <2>3, <2>5, <3>9, ForeignKeeps
  <2> QED BY <2>2, <2>4, <2>5
<1> QED BY <1>2, <1>3, <1>4, <1>5

LEMMA BatchSteps == BatchInv /\ [BatchNext]_batchVars => BatchInv'
<1> SUFFICES ASSUME BatchInv, [BatchNext]_batchVars PROVE BatchInv'
  OBVIOUS
<1>1. CASE UNCHANGED batchVars
  BY <1>1 DEF batchVars, BatchInv, BatchTyped, SameOrder, RecordedAsOwn, WritesInTurn,
     LatestTogether, Loaded, RunStem, ToWrite
<1>2. CASE (\E given \in Recorded : StartRun(given)) \/ Record \/ DropPhone \/ Die
  BY <1>2, RecorderKeeps
<1>3. CASE Finalise
  BY <1>3, FinaliseKeeps
<1>4. CASE OpenWav \/ CloseWav
  BY <1>4, WriterKeeps
<1>5. CASE (\E p \in Auditors : Pull(p)) \/ StartLoad \/ ReadNext \/ batch_ingest
  BY <1>5, LoaderKeeps
<1> QED BY <1>1, <1>2, <1>3, <1>4, <1>5 DEF BatchNext

\* The corpus's files, with which a directory may begin.
LEMMA CorpusFiles == synth_suite(Elements, FrameLen) \in Seq(File)
<1> DEFINE chans == [i \in 1..Elements |-> SceneFile("ch", i - 1, FrameLen)]
           a == SceneFile("clean", 0, FrameLen)
           b == SceneFile("clean", 1, FrameLen)
<1>1. Elements \in Nat /\ FrameLen \in Nat
  BY BatchToolsAssumption
<1>2. ASSUME NEW form \in {"ch", "clean"}, NEW p \in Nat PROVE SceneFile(form, p, FrameLen) \in File
  <2>1. [form |-> form, phone |-> p, key |-> 0] \in Stem
    BY DEF Stem
  <2> QED BY <1>1, <2>1 DEF SceneFile, File
<1>3. a \in File /\ b \in File
  BY <1>2
<1>4. \A i \in 1..Elements : SceneFile("ch", i - 1, FrameLen) \in File
  <2> TAKE i \in 1..Elements
  <2>1. i - 1 \in Nat
    BY <1>1
  <2> QED BY <1>2, <2>1
<1>5. synth_suite(Elements, FrameLen) = chans \o <<a, b>>
  BY DEF synth_suite
<1>6. chans \in Seq(File)
  BY <1>1, <1>4
<1> HIDE DEF chans, a, b
<1>7. <<a, b>> \in Seq(File)
  BY <1>3
<1> QED BY <1>5, <1>6, <1>7, ConcatProperties

\* In every behaviour of the recorder, the loaders and who else writes files.
LEMMA BatchInvariant == BatchSpec => []BatchInv
<1>1. BatchInit => BatchInv
  <2> SUFFICES ASSUME BatchInit PROVE BatchInv
    OBVIOUS
  <2>1. dir \in Seq(File)
    <3>1. dir = <<>> \/ dir = synth_suite(Elements, FrameLen)
      BY DEF BatchInit
    <3>2. <<>> \in Seq(File)
      OBVIOUS
    <3> QED BY <3>1, <3>2, CorpusFiles
  <2>2. /\ DOMAIN session = Fields /\ session.pc = "idle" /\ session.run = 0
        /\ session.beamformed = 0 /\ session.phone_ids = <<>> /\ session.live = <<>>
        /\ session.channels = <<>> /\ job.channels = <<>> /\ complete = {}
        /\ DOMAIN job = {"picks", "todo", "channels"}
    BY IdleFields DEF BatchInit, Idle, NoJob
  <2>3. BatchTyped
    BY <2>1, <2>2, IdleFields DEF BatchTyped
  <2>4. SameOrder /\ RecordedAsOwn /\ Loaded /\ WritesInTurn /\ LatestTogether
    BY <2>2 DEF SameOrder, RecordedAsOwn, Loaded, WritesInTurn, LatestTogether
  <2> QED BY <2>3, <2>4 DEF BatchInv
<1> QED BY <1>1, BatchSteps, PTL DEF BatchSpec

\* Nothing torn is ever beamformed or replayed, whenever the loader looks and
\* wherever a writer died, for files of any lengths (fallback.py 68-81 against
\* recorder.py 72-79).
THEOREM TornIsRefused == BatchSpec => []NothingTorn
<1>1. BatchInv => NothingTorn
  <2> SUFFICES ASSUME BatchInv, NEW i \in DOMAIN job.channels
               PROVE  SamplesOf(job.channels[i]) = job.channels[i].hdr
    BY DEF NothingTorn
  <2>1. job.channels[i] \in File /\ Readable(job.channels[i])
    BY DEF BatchInv, BatchTyped, Loaded
  <2> QED BY <2>1, ReadableWhole
<1> QED BY <1>1, BatchInvariant, PTL

\* A load gets the phones of the recording that was written last, whole, from that
\* recording, for any number of phones (recorder.py 146-179, fallback.py 116-144).
THEOREM LatestRunLoads == BatchSpec => []LatestRunTogether
<1>1. BatchInv => LatestRunTogether
  <2> SUFFICES ASSUME BatchInv, NEW stem \in complete
               PROVE  /\ pick_most_recent_per_phone(dir)[stem.phone] = stem
                      /\ Readable(dir[Max(FilesOf(dir, stem.phone))])
    BY DEF LatestRunTogether
  <2> DEFINE files == FilesOf(dir, stem.phone)
             n == Len(dir)
  <2>1. dir \in Seq(File) /\ n \in Nat /\ DOMAIN dir = 1..n
    BY DEF BatchInv, BatchTyped
  <2>2. stem.form = "run" /\ stem.phone \in Nat /\ stem.phone # NoPhone
    BY WavFilesAssumption DEF BatchInv, LatestTogether
  <2>3. PICK i \in DOMAIN dir :
          /\ dir[i].stem = stem /\ Readable(dir[i])
          /\ \A j \in DOMAIN dir :
               extract_phone_id_from_stem(dir[j].stem) = stem.phone => j <= i
    BY DEF BatchInv, LatestTogether, Newest
  <2>4. extract_phone_id_from_stem(dir[i].stem) = stem.phone
    BY <2>2, <2>3 DEF extract_phone_id_from_stem
  <2>5. files \in SUBSET Nat /\ i \in files /\ \A j \in files : j <= i
    BY <2>1, <2>3, <2>4 DEF FilesOf
  <2> HIDE DEF files
  <2> DEFINE newest == Max(files)
  <2>6. newest \in files /\ \A y \in files : y <= newest
    <3>1. i \in Nat /\ files # {}
      BY <2>5
    <3> QED BY <2>5, <3>1, MaxIn
  <2> HIDE DEF newest
  <2>7. newest = i
    <3>1. newest \in Nat /\ i \in Nat /\ newest <= i /\ i <= newest
      BY <2>5, <2>6
    <3> QED BY <3>1
  <2>8. stem.phone \in PhonesIn(dir)
    BY <2>2, <2>4 DEF PhonesIn
  <2>9. pick_most_recent_per_phone(dir)[stem.phone] = dir[newest].stem
    BY <2>8 DEF pick_most_recent_per_phone, files, newest
  <2> QED BY <2>3, <2>7, <2>9 DEF files, newest
<1> QED BY <1>1, BatchInvariant, PTL

\* The audio under a phone's name is that phone's, in whatever order the caller
\* listed any number of phones (recorder.py 108-144 against alignment.py 98-99).
THEOREM NamesAreRight == BatchSpec => []RecordedAsOwn
<1>1. BatchInv => RecordedAsOwn
  BY DEF BatchInv
<1> QED BY <1>1, BatchInvariant, PTL

(****************************** BootStamp ********************************)

BootTypeOK ==
  /\ file \in Nat \cup {Absent, Empty}
  /\ clock \in Nat
  /\ process \in [Processes -> [pc : {"down", "time", "open", "opened", "read", "up"},
                               boot : Nat \cup {Absent}]]

\* A program writes the time it took.
TimesTaken == \A p \in Processes : process[p].pc \in {"open", "opened"} => process[p].boot \in Nat

BootInv == BootTypeOK /\ TimesTaken

LEMMA BootStarts == BootInit => BootInv
  BY BootStampAssumption DEF BootInit, Down, BootInv, BootTypeOK, TimesTaken

\* Every step of a program, and its death between any two of them, preserves the
\* invariant.
LEMMA BootSteps == BootInv /\ [BootNext]_bootVars => BootInv'
<1> SUFFICES ASSUME BootInv, [BootNext]_bootVars PROVE BootInv'
  OBVIOUS
<1> USE BootStampAssumption DEF BootInv, BootTypeOK, TimesTaken
<1>1. ASSUME NEW p \in Processes, StartUp(p) PROVE BootInv'
  BY <1>1 DEF StartUp, At, AfterCheck
<1>2. ASSUME NEW p \in Processes, TakeTime(p) PROVE BootInv'
  BY <1>2 DEF TakeTime
<1>3. ASSUME NEW p \in Processes, OpenStamp(p) PROVE BootInv'
  BY <1>3 DEF OpenStamp, At
<1>4. ASSUME NEW p \in Processes, WriteStamp(p) PROVE BootInv'
  BY <1>4 DEF WriteStamp, At
<1>5. ASSUME NEW p \in Processes, ReadStamp(p) PROVE BootInv'
  BY <1>5 DEF ReadStamp, Down
<1>6. ASSUME NEW p \in Processes, Killed(p) PROVE BootInv'
  BY <1>6 DEF Killed, Down
<1>7. CASE UNCHANGED bootVars
  BY <1>7 DEF bootVars
<1> QED BY <1>1, <1>2, <1>3, <1>4, <1>5, <1>6, <1>7 DEF BootNext

LEMMA BootInvariant == BootSpec => []BootInv
  BY BootStarts, BootSteps, PTL DEF BootSpec

\* What StampSettles says of a step.
StampStays ==
  Settled => /\ Settled' /\ file' = file
             /\ \A p \in Processes :
                  process'[p].pc = "up" /\ process[p].pc # "up" => process'[p].boot = file

\* From a settled stamp a program starts to read, reads, or dies.
LEMMA StampStep == BootInv /\ [BootNext]_bootVars => StampStays
<1> SUFFICES ASSUME BootInv, [BootNext]_bootVars, Settled PROVE StampStays
  BY DEF StampStays
<1>1. /\ file \in Nat /\ \A p \in Processes : process[p].pc \notin {"time", "open", "opened"}
      /\ file # Absent /\ file # Empty
      /\ process \in [Processes -> [pc : {"down", "time", "open", "opened", "read", "up"},
                                    boot : Nat \cup {Absent}]]
  BY BootStampAssumption DEF BootInv, BootTypeOK, Settled, Writing
<1>2. ASSUME UNCHANGED <<file, process>> PROVE StampStays
  BY <1>1, <1>2 DEF StampStays, Settled, Writing
<1>3. ASSUME NEW p \in Processes, StartUp(p) PROVE StampStays
  BY <1>1, <1>3 DEF StartUp, At, AfterCheck, StampStays, Settled, Writing
<1>4. ASSUME NEW p \in Processes, ReadStamp(p) PROVE StampStays
  BY <1>1, <1>4 DEF ReadStamp, Down, StampStays, Settled, Writing
<1>5. ASSUME NEW p \in Processes, Killed(p) PROVE StampStays
  BY <1>1, <1>5 DEF Killed, Down, StampStays, Settled, Writing
<1>6. ASSUME NEW p \in Processes PROVE ~TakeTime(p) /\ ~OpenStamp(p) /\ ~WriteStamp(p)
  BY <1>1 DEF TakeTime, OpenStamp, WriteStamp
<1> QED BY <1>2, <1>3, <1>4, <1>5, <1>6 DEF BootNext, bootVars

\* For any number of programs, starts and kills, two first starts at once among
\* them: the stamp that is left when those who found no file are done or dead is
\* for good, and every program that comes up returns it (boot.py 34-45).
THEOREM StampIsSettled == BootSpec => StampSettles
<1>1. BootInv /\ [BootNext]_bootVars => [StampStays]_bootVars
  BY StampStep
<1> QED BY <1>1, BootInvariant, PTL DEF BootSpec, StampSettles, StampStays

(****************************** ModelFetch *******************************)

Sizes == {"missing", "empty", "part", "whole"}

FetchTypeOK ==
  /\ model \in [Files -> [of : SUBSET (Targets \cup Placeholders), size : Sizes]]
  /\ fetcher \in [pc : {"idle", "look", "write", "data", "returned"},
                 target : SUBSET (Targets \cup Placeholders), i : Files]
  /\ disturbed \in BOOLEAN

\* The files before the one that is looked for have something in them, all of
\* them when fetch has returned; and while nothing was disturbed a file is missing
\* or whole, but for the one that is being written.
Behind ==
  /\ \A f \in Files :
       fetcher.pc = "returned" \/ (fetcher.pc \in {"look", "write", "data"} /\ f < fetcher.i)
         => model[f].size \in {"part", "whole"}
  /\ ~disturbed => \A f \in Files :
       \/ model[f].size \in {"missing", "whole"}
       \/ fetcher.pc = "data" /\ f = fetcher.i

FetchInv == FetchTypeOK /\ Behind

LEMMA FourFiles == Cardinality(Files) = 4
<1>1. \A a, b \in Int : Cardinality(a..b) = IF a > b THEN 0 ELSE b - a + 1
  BY FS_Interval, Zenon
<1>2. 1 \in Int /\ 4 \in Int
  BY SMT
<1>3. Cardinality(1..4) = IF 1 > 4 THEN 0 ELSE 4 - 1 + 1
  BY <1>1, <1>2, Zenon
<1>4. (IF 1 > 4 THEN 0 ELSE 4 - 1 + 1) = 4
  BY SMT
<1>5. Files = 1..4
  BY DEF Files
<1> QED BY <1>3, <1>4, <1>5, Zenon

\* The step to the next file, or out of the last one.
LEMMA AdvancedStep ==
  ASSUME FetchTypeOK
  PROVE  /\ Advanced \in [pc : {"look", "returned"},
                          target : SUBSET (Targets \cup Placeholders), i : Files]
         /\ Advanced.pc = "look" => fetcher.i < 4 /\ Advanced.i = fetcher.i + 1
         /\ Advanced.pc = "returned" => fetcher.i = 4
<1>1. fetcher \in [pc : {"idle", "look", "write", "data", "returned"},
                  target : SUBSET (Targets \cup Placeholders), i : Files]
  BY DEF FetchTypeOK
<1>2. CASE fetcher.i < 4
  <2>1. Advanced = [fetcher EXCEPT !.pc = "look", !.i = @ + 1]
    BY <1>2, FourFiles DEF Advanced
  <2>2. Advanced = [pc |-> "look", target |-> fetcher.target, i |-> fetcher.i + 1]
    BY <1>1, <2>1
  <2>3. fetcher.i + 1 \in Files /\ fetcher.target \in SUBSET (Targets \cup Placeholders)
    BY <1>1, <1>2 DEF Files
  <2> QED BY <1>2, <2>2, <2>3
<1>3. CASE ~(fetcher.i < 4)
  <2>1. Advanced = [fetcher EXCEPT !.pc = "returned"]
    BY <1>3, FourFiles DEF Advanced
  <2> QED BY <1>1, <1>3, <2>1 DEF Files
<1> QED BY <1>2, <1>3

\* Nothing is there before the first call.
LEMMA FetchStarts == FetchInit => FetchInv
<1> SUFFICES ASSUME FetchInit PROVE FetchInv
  OBVIOUS
<1>1. FetchTypeOK
  <2>1. Missing \in [of : SUBSET (Targets \cup Placeholders), size : Sizes]
    BY DEF Missing, Sizes
  <2>2. 1 \in Files
    BY DEF Files
  <2> QED BY <2>1, <2>2 DEF FetchInit, FetchTypeOK
<1>2. \A f \in Files : model[f] = [of |-> {}, size |-> "missing"]
  BY DEF FetchInit, Missing
<1>3. Behind
  BY <1>2 DEF FetchInit, Behind
<1> QED BY <1>1, <1>3 DEF FetchInv

\* Every call, download, interruption and use preserves the invariant.
LEMMA FetchSteps == FetchInv /\ [FetchNext]_fetchVars => FetchInv'
<1> SUFFICES ASSUME FetchInv, [FetchNext]_fetchVars PROVE FetchInv'
  OBVIOUS
<1> USE DEF FetchInv
<1>1. ASSUME NEW target \in Targets \cup Placeholders, fetch(target) PROVE FetchInv'
  <2>1. FetchTypeOK'
    BY <1>1 DEF fetch, FetchTypeOK, Files
  <2>2. Behind'
    BY <1>1 DEF fetch, FetchTypeOK, Behind, Files
  <2> QED BY <2>1, <2>2
<1>2. CASE Look
  <2>1. CASE Present(fetcher.i)
    <3>1. fetcher' = Advanced /\ model' = model /\ disturbed' = disturbed
      BY <1>2, <2>1 DEF Look
    <3>2. model[fetcher.i].size \in {"part", "whole"}
      BY <2>1 DEF Present, Exists, FetchTypeOK, Sizes
    <3>3. fetcher.pc = "look" /\ fetcher.i \in Files
      BY <1>2 DEF Look, FetchTypeOK
    <3>4. FetchTypeOK'
      BY <3>1, AdvancedStep DEF FetchTypeOK
    <3>5. Behind'
      BY <3>1, <3>2, <3>3, AdvancedStep DEF Behind, Files
    <3> QED BY <3>4, <3>5
  <2>2. CASE ~Present(fetcher.i)
    <3>1. fetcher' \in {[fetcher EXCEPT !.pc = "write"], [fetcher EXCEPT !.pc = "idle"]}
      BY <1>2, <2>2 DEF Look
    <3>2. fetcher.pc = "look" /\ model' = model /\ disturbed' = disturbed
      BY <1>2 DEF Look
    <3>3. FetchTypeOK'
      BY <3>1, <3>2 DEF FetchTypeOK
    <3>4. Behind'
      BY <3>1, <3>2 DEF FetchTypeOK, Behind, Files
    <3> QED BY <3>3, <3>4
  <2> QED BY <2>1, <2>2
<1>3. CASE OpenFile
  <2>1. FetchTypeOK'
    BY <1>3 DEF OpenFile, Put, FetchTypeOK, Sizes
  <2>2. Behind'
    BY <1>3 DEF OpenFile, Put, FetchTypeOK, Behind, Files
  <2> QED BY <2>1, <2>2
<1>4. CASE WriteFile
  <2>1. fetcher.pc = "data" /\ fetcher.i \in Files /\ disturbed' = disturbed
    BY <1>4 DEF WriteFile, FetchTypeOK
  <2>2. fetcher' = Advanced
    BY <1>4 DEF WriteFile
  <2>3. model' = [model EXCEPT ![fetcher.i] = [of |-> fetcher.target, size |-> "whole"]]
    BY <1>4 DEF WriteFile, Put
  <2>4. \A f \in Files : model'[f].size = IF f = fetcher.i THEN "whole" ELSE model[f].size
    BY <2>1, <2>3 DEF FetchTypeOK
  <2>5. FetchTypeOK'
    <3>1. (model \in [Files -> [of : SUBSET (Targets \cup Placeholders), size : Sizes]])'
      BY <2>1, <2>3 DEF FetchTypeOK, Sizes
    <3> QED BY <2>1, <2>2, <3>1, AdvancedStep DEF FetchTypeOK
  <2>6. Behind'
    BY <2>1, <2>2, <2>4, AdvancedStep DEF Behind, Files
  <2> QED BY <2>5, <2>6
<1>5. CASE Interrupt
  <2>1. FetchTypeOK'
    BY <1>5 DEF Interrupt, Put, FetchTypeOK, Sizes
  <2>2. Behind'
    BY <1>5 DEF Interrupt, Put, FetchTypeOK, Behind
  <2> QED BY <2>1, <2>2
<1>6. CASE get_asr_engine \/ transcribe
  BY <1>6 DEF get_asr_engine, transcribe, FetchTypeOK, Behind
<1>7. CASE UNCHANGED fetchVars
  BY <1>7 DEF fetchVars, FetchTypeOK, Behind
<1> QED BY <1>1, <1>2, <1>3, <1>4, <1>5, <1>6, <1>7 DEF FetchNext

\* A fetch that returns has left four files with something in them, and if nothing
\* disturbed it a recogniser that loads: after any number of failures and
\* interruptions, and for any models (fetch_asr.py 132-171).
THEOREM FetchLeavesModel == FetchSpec => []FetchedModelLoads
<1>1. FetchInv => FetchedModelLoads
  BY DEF FetchInv, FetchTypeOK, Behind, FetchedModelLoads, Loadable
<1> QED BY FetchStarts, FetchSteps, <1>1, PTL DEF FetchSpec

=============================================================================
