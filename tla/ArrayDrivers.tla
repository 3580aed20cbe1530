---------------------------- MODULE ArrayDrivers ----------------------------
(***************************************************************************)
(* The programs that drive DspLoop without phones: replay.py, which plays  *)
(* stems, and demo.py and tools/soak.py, which synthesise them; and        *)
(* tracker.py, which every step() of the loop updates.                     *)
(*                                                                         *)
(* Time is counted in samples since the program began.  Positions are      *)
(* points of a line.  What localize_2d finds is an input: one of the       *)
(* speakers within Jitter of where it stands, a reflection anywhere, or    *)
(* nothing.                                                                *)
(***************************************************************************)
EXTENDS Integers, FiniteSets

CONSTANTS
  Setups,    \* the runs to look at: [program, size, pauses], size: phone -> stem length;
             \* pauses: what may pass between two iterations
  ArrayElements,  \* elements of the default array geometry
  Window,    \* samples of a window
  Home,      \* where the speakers stand
  Jitter,    \* how far off a speaker may be heard
  Ghosts,    \* where reflections are heard
  Radius, Timeout, MaxTracks,  \* of MultiSpeakerTracker
  Nowhere,   \* no position
  MaxNow     \* bound: time

Speakers == DOMAIN Home
Distance(a, b) == IF a < b THEN b - a ELSE a - b

ASSUME ArrayDriversAssumption ==
  /\ \A s \in Setups : s.size \in [DOMAIN s.size -> Nat] /\ DOMAIN s.size \subseteq Nat
  /\ \A s \in Setups : \A d \in s.pauses :
       d \in Nat \ {0} /\ (s.program # "soak" => d >= Window)  \* soak does not sleep
  /\ Home \in [Speakers -> Int] /\ Ghosts \subseteq Int
  /\ Radius \in Nat /\ Nowhere \notin Int
  /\ ArrayElements \in Nat /\ Window \in Nat \ {0}
  /\ Jitter \in Nat /\ 2 * Jitter <= Radius
  /\ \A s, r \in Speakers : s # r => Distance(Home[s], Home[r]) > Radius + 2 * Jitter
  /\ Timeout \in Nat /\ MaxTracks \in Nat /\ MaxNow \in Nat

VARIABLES
  setup,    \* the program and its stems
  now,
  loop,     \* DspLoop: samples buffered per phone, step() calls, frames; soak's drops
  source,   \* per phone: SyntheticPhoneSource._n
  heard,    \* per phone: the chunk last buffered
  tracker,  \* [tracks, next_id]; a track's place in the list is the order of its
            \* id, so the list is a function from the ids in it to [pos, seen]
  voice,    \* history, per speaker: track it was last given, when, and whether it
            \* ever changed tracks within the timeout
  blurred   \* history: the speakers near whom a reflection was ever located

driverVars == <<setup, now, loop, source, heard, tracker, voice, blurred>>

Stems == DOMAIN setup.size
Silent == [from |-> 0, real |-> 0, pad |-> 0]
Unheard == [id |-> Nowhere, seen |-> 0, switched |-> FALSE]

DriverInit ==
  /\ setup \in Setups
  /\ now = 0
  /\ loop = [buffered |-> [p \in Stems |-> 0], calls |-> 0, frames |-> 0, drops |-> 0,
             raised |-> FALSE]
  /\ source = [p \in Stems |-> 0]
  /\ heard = [p \in Stems |-> Silent]
  /\ tracker = [tracks |-> <<>>, next_id |-> 0]
  /\ voice = [s \in Speakers |-> Unheard]
  /\ blurred = {}

(***************************** tracker.py ********************************)

\* Those of the tracks that are nearest to pos, and of these the last in the list.
Closest(tracks, near, pos) ==
  LET D(i)  == Distance(tracks[i].pos, pos)
      least == {i \in near : \A j \in near : D(i) <= D(j)}
  IN  {i \in least : \A j \in least : j <= i}

\* Mutant: the radius is forgotten.
FindAnyClosest(tracks, pos) == Closest(tracks, DOMAIN tracks, pos)

\* _find_closest: the track it returns, {} for None.
FindClosest(tracks, pos) ==
  Closest(tracks, {i \in DOMAIN tracks : Distance(tracks[i].pos, pos) <= Radius}, pos)

\* The nearest track is moved to pos; if there is none and room, one is spawned.
Associated(pos, t) ==
  LET old   == tracker.tracks
      best  == FindClosest(old, pos)
      spawn == IF best = {} /\ Cardinality(DOMAIN old) < MaxTracks THEN {tracker.next_id} ELSE {}
  IN  [tracks |-> [i \in DOMAIN old \cup spawn |->
                     IF i \in best \cup spawn THEN [pos |-> pos, seen |-> t] ELSE old[i]],
       next_id |-> IF spawn = {} THEN tracker.next_id ELSE tracker.next_id + 1]

Pruned(tr, t) ==
  [tracks  |-> [i \in {j \in DOMAIN tr.tracks : t - tr.tracks[j].seen <= Timeout} |-> tr.tracks[i]],
   next_id |-> tr.next_id]

\* update(position, now_s): a track is found or spawned, then stale ones go.
Updated(pos, t) == Pruned(IF pos = Nowhere THEN tracker ELSE Associated(pos, t), t)

(***************************** The drivers *******************************)

\* Mutant: only a stem that is over is padded.
ChunkUnpadded(size, from) ==
  [from |-> from,
   real |-> IF from + Window <= size THEN Window ELSE IF from < size THEN size - from ELSE 0,
   pad  |-> IF from < size THEN 0 ELSE Window]

\* What a driver buffers for a phone: replay the window of the stem that begins
\* at the elapsed time, with zeros past its end; the others frames of a tone.
Chunk(size, from) ==
  LET real == IF from + Window < size THEN Window
              ELSE IF from < size THEN size - from ELSE 0
  IN  [from |-> from, real |-> real, pad |-> Window - real]

Fed(p, t) ==
  IF setup.program = "replay" THEN Chunk(setup.size[p], t)
  ELSE [from |-> source[p], real |-> Window, pad |-> 0]

\* localize_2d needs two pairs, and an element for every phone id.
Localises == Cardinality(Stems) >= 3
Places(s) == {Home[s] + j : j \in -Jitter..Jitter}
Heard == IF Localises THEN {Nowhere} \cup Ghosts \cup UNION {Places(s) : s \in Speakers}
         ELSE {Nowhere}

\* The speakers whose track a reflection at pos may move, split or hide.
Blurs(pos) ==
  {s \in Speakers : /\ pos # Nowhere /\ pos \notin Places(s)
                    /\ Distance(Home[s], pos) <= Radius + Jitter}

\* step() with a phone that has no element raises out of the program.
Raises == Localises /\ \E p \in Stems : p >= ArrayElements

TrackOf(tr, pos, t) ==
  LET ids == {i \in DOMAIN tr.tracks : tr.tracks[i] = [pos |-> pos, seen |-> t]}
  IN  IF ids = {} THEN Nowhere ELSE CHOOSE i \in ids : TRUE

\* One turn of the driver's loop: audio for every phone, one step(), a sleep.
Iterate(t, pos) ==
  LET filled == [p \in Stems |-> loop.buffered[p] + Fed(p, t).real + Fed(p, t).pad]
      ready  == \A p \in Stems : filled[p] >= Window
  IN  /\ ~loop.raised
      /\ now' = t
      /\ heard' = [p \in Stems |-> Fed(p, t)]
      /\ source' = IF setup.program = "replay" THEN source
                   ELSE [p \in Stems |-> source[p] + Window]
      /\ loop' = [buffered |-> [p \in Stems |-> filled[p] - (IF ready THEN Window ELSE 0)],
                  calls |-> loop.calls + 1,
                  frames |-> loop.frames + (IF ready /\ ~Raises THEN 1 ELSE 0),
                  drops |-> loop.drops + (IF ready /\ pos = Nowhere /\ setup.program = "soak"
                                            THEN 1 ELSE 0),
                  raised |-> ready /\ Raises]
      /\ tracker' = IF ready /\ ~Raises THEN Updated(pos, t) ELSE tracker
      /\ voice' = [s \in Speakers |->
           IF pos \notin Places(s) \/ ~ready \/ Raises THEN voice[s]
           ELSE LET id == TrackOf(tracker', pos, t)
                IN  [id |-> id, seen |-> t,
                     switched |-> \/ voice[s].switched
                                  \/ /\ voice[s].id # Nowhere
                                     /\ t - voice[s].seen <= Timeout
                                     /\ id # voice[s].id]]
      /\ blurred' = IF ready /\ ~Raises THEN blurred \cup Blurs(pos) ELSE blurred
      /\ UNCHANGED setup

DriverNext ==
  \E d \in setup.pauses, pos \in Heard : now + d <= MaxNow /\ Iterate(now + d, pos)

-----------------------------------------------------------------------------
\* Whatever the lengths of the stems and whether they are over, every turn hands
\* the loop one whole window of every phone, all beginning at the same instant of
\* the recording: each step is a frame and nothing is left over to drift
\* (replay.py 89-107; demo.py 105-109; soak.py 121-127).
StemsInStep ==
  ~loop.raised =>
    /\ loop.frames = loop.calls
    /\ \A p \in Stems : loop.buffered[p] = 0
    /\ \A p, q \in Stems : heard[p].from = heard[q].from

\* A speaker near whom no reflection was ever located has a track to himself: he
\* shares it with no other speaker, those with reflections around them included,
\* and heard again within the timeout he has the one he had, however full the list
\* of tracks and although pruning comes after association (tracker.py 56-91).
SpeakersToldApart ==
  \A s \in Speakers \ blurred :
    /\ ~voice[s].switched
    /\ \A r \in Speakers \ {s} : voice[s].id # Nowhere => voice[r].id # voice[s].id

=============================================================================
