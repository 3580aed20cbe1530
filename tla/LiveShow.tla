------------------------------ MODULE LiveShow ------------------------------
(***************************************************************************)
(* The event loop of the live tool next to its packet server: the dsp loop *)
(* with its hotkey, recogniser and transcript, and the metrics server that *)
(* the dashboard polls and whose button switches between beamformed and    *)
(* raw audio.  A task runs without interruption between two awaits.        *)
(*                                                                         *)
(* Frames are numbered; the recogniser is an input: it hears something,    *)
(* nothing, or raises.                                                     *)
(***************************************************************************)
EXTENDS Integers, SequencesExt

CONSTANTS
  Viewers,     \* connections to the metrics server
  LivePhones,  \* phones that may be connected to the packet server
  Keep,        \* frames kept for continuity
  MaxLive      \* bound: frames produced

ASSUME LiveShowAssumption ==
  LivePhones \subseteq Nat /\ Keep \in Nat \ {0} /\ MaxLive \in Nat

Paths == {"toggle", "transcript", "metrics", "other"}
Dots == 0..2     \* the phones the dashboard has a dot for

VARIABLES
  connected,  \* all_phone_ids()
  show,       \* live_loop: [mode, frames, audio, heardTo]; audio is accumulated_audio,
              \* heardTo the last frame the recogniser was given
  dash,       \* MetricsHTTPServer: [mode, transcript]
  gauges,     \* METRICS: [active, healthy, beamform]; -1 before it is set
  viewer      \* per connection: how far its handler is

liveVars == <<connected, show, dash, gauges, viewer>>

LiveInit ==
  /\ connected = {}
  /\ show = [mode |-> 1, frames |-> 0, audio |-> <<>>, heardTo |-> 0]
  /\ dash = [mode |-> 1, transcript |-> 0]
  /\ gauges = [active |-> -1, healthy |-> {}, beamform |-> -1]
  /\ viewer = [v \in Viewers |-> "gone"]

\* A phone registers with the packet server or leaves it.
PhoneComesOrGoes ==
  /\ \E p \in LivePhones : connected' = SymDiff(connected, {p})
  /\ UNCHANGED <<show, dash, gauges, viewer>>

(******************************* live_loop *******************************)

\* Mutant: what is kept is settled after the recogniser returned.
KeptAfter(chunk, outcome) ==
  IF outcome = "raises" THEN chunk
  ELSE SubSeq(chunk, Len(chunk) - (IF Len(chunk) < Keep THEN Len(chunk) ELSE Keep) + 1,
              Len(chunk))

\* The last half second is kept for continuity, before the recogniser is called.
Kept(chunk, outcome) ==
  SubSeq(chunk, Len(chunk) - (IF Len(chunk) < Keep THEN Len(chunk) ELSE Keep) + 1, Len(chunk))

\* One turn of live_loop: a key, a frame if there was one, and the recogniser if
\* its period is over and there is audio.  What it raises is swallowed.
Turn(key, produced, due, outcome) ==
  LET frame == show.frames + (IF produced THEN 1 ELSE 0)
      chunk == show.audio \o (IF produced THEN <<frame>> ELSE <<>>)
      asr   == due /\ chunk # <<>>
  IN  /\ show' = [mode    |-> IF key THEN 1 - show.mode ELSE show.mode,
                  frames  |-> frame,
                  audio   |-> IF asr THEN Kept(chunk, outcome) ELSE chunk,
                  heardTo |-> IF asr THEN Last(chunk) ELSE show.heardTo]
      /\ dash' = IF asr /\ outcome = "text" THEN [dash EXCEPT !.transcript = Last(chunk)]
                 ELSE dash
      /\ UNCHANGED <<connected, gauges, viewer>>

LoopTurns ==
  \E key, produced, due \in BOOLEAN, outcome \in {"text", "nothing", "raises"} :
    (produced => show.frames < MaxLive) /\ Turn(key, produced, due, outcome)

(**************************** MetricsHTTPServer ***************************)

Goto(v, pc) == viewer' = [viewer EXCEPT ![v] = pc]
NothingElse == UNCHANGED <<connected, show, dash, gauges>>

Connect(v) == viewer[v] = "gone" /\ Goto(v, "line") /\ NothingElse

\* No request line within the timeout, or an empty one: closed.  A malformed one
\* ends the handler and leaves the connection open.
NoRequest(v) ==
  /\ viewer[v] = "line"
  /\ Goto(v, "gone") \/ Goto(v, "forgotten")
  /\ NothingElse

\* A request line: its headers are awaited without a timeout.
Request(v) == viewer[v] = "line" /\ Goto(v, "headers") /\ NothingElse

\* The viewer closes its end, which also ends the headers.
HangUp(v) == viewer[v] = "forgotten" /\ Goto(v, "gone") /\ NothingElse

\* on_toggle(): the loop's new mode.
on_toggle(mode) == 1 - mode

\* POST or GET /api/toggle, answered with the new mode.
Toggle(v) ==
  /\ viewer[v] = "headers"
  /\ show' = [show EXCEPT !.mode = 1 - @]
  /\ dash' = [dash EXCEPT !.mode = on_toggle(show.mode)]
  /\ gauges' = [gauges EXCEPT !.beamform = on_toggle(show.mode)]
  /\ Goto(v, "gone")
  /\ UNCHANGED connected

\* _refresh_dashboard_gauges.
Refreshed ==
  [active |-> Cardinality(connected), healthy |-> connected \cap Dots, beamform |-> dash.mode]

\* /api/transcript answers any method and refreshes nothing; of the rest, all but
\* GET is refused; every other GET refreshes the gauges and is answered.
Get(v, path, get) ==
  /\ viewer[v] = "headers"
  /\ gauges' = IF get /\ path # "transcript" THEN Refreshed ELSE gauges
  /\ Goto(v, "gone")
  /\ UNCHANGED <<connected, show, dash>>

\* The refresh raises, for a boot stamp that cannot be read before it set a gauge or
\* one that is missing when it had set the mode's: the handler ends unanswered.
GetFails(v) ==
  /\ viewer[v] = "headers"
  /\ gauges' \in {gauges, [gauges EXCEPT !.beamform = dash.mode]}
  /\ Goto(v, "gone") \/ Goto(v, "forgotten")
  /\ UNCHANGED <<connected, show, dash>>

LiveNext ==
  \/ PhoneComesOrGoes \/ LoopTurns
  \/ \E v \in Viewers :
       \/ Connect(v) \/ NoRequest(v) \/ Request(v) \/ HangUp(v) \/ Toggle(v)
       \/ GetFails(v) \/ \E path \in Paths \ {"toggle"}, get \in BOOLEAN : Get(v, path, get)

-----------------------------------------------------------------------------
\* The recogniser hears every frame once it is due, and what it is given does not
\* grow with its failures: the audio collected is the unbroken run of frames that
\* begins at most Keep before the first it has not heard
\* (live_two_phones_radar.py 157-181).
AudioUnbroken ==
  LET a == show.audio
  IN  /\ \A i \in DOMAIN a : a[i] = show.frames - Len(a) + i
      /\ Len(a) <= Keep + show.frames - show.heardTo
      /\ show.frames - show.heardTo <= Len(a)
      /\ dash.transcript <= show.heardTo

=============================================================================
