------------------------------ MODULE DspLoopMC ------------------------------
(* Small instances of DspLoop for TLC, and the promises of its documentation *)
(* that the runs put to the test.                                            *)
EXTENDS DspLoop

TwoPhones == <<0, 1>>

\* aligned_window: "The pop is destructive: each call advances the buffer."
\* No captured sample is handed out in two windows.
WindowsDisjoint ==
  \A i, j \in 1..Len(frames) : i < j =>
    \A m \in 1..Len(frames[i].phones), n \in 1..Len(frames[j].phones) :
      frames[i].phones[m] = frames[j].phones[n] =>
        ToSet(frames[i].channels[m]) \cap ToSet(frames[j].channels[n]) \subseteq {Silence}

\* drop_phone: "subsequent step() calls operate on the surviving elements
\* only."  Every channel is steered with its own phone's element.
SteeredByOwnElement ==
  \A i \in 1..Len(frames) : frames[i].elements = frames[i].phones

=============================================================================
