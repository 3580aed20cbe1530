-------------------------- MODULE LaptopProgramsMC --------------------------
(* The small instance of LaptopPrograms that TLC checks.                     *)
EXTENDS LaptopPrograms

\* Two phones, in either order of a caller's list.
RecordedLists == {<<0, 1>>, <<1, 0>>}

\* Stems that are shorter than the run and longer, two phones and three, a phone
\* for which the array has no element, and the synthetic drivers.
Sized(driver, phones, sizes, pauses) ==
  {[program |-> driver, size |-> f, pauses |-> pauses] : f \in [phones -> sizes]}
SetupsSmall ==
  Sized("replay", {0, 1}, {5, 20}, {2, 3}) \cup Sized("replay", {0, 1, 2}, {5, 20}, {2, 3})
    \cup Sized("replay", {0, 1, 3}, {5}, {2, 3}) \cup Sized("soak", {0, 1}, {0}, {1, 2})
    \cup Sized("demo", {0, 1, 2}, {0}, {2, 3})

\* Two speakers well apart.
Homes == <<0, 6>>

\* A chirp that is somewhat like itself one sample on.
ChirpShort == <<2, 1, -1>>

\* Audio with the highest sequence number, a heartbeat without samples and with an
\* id that is more than a byte, and a chirp.
WireHeader(type, id, seq, n) ==
  [packet_type |-> BitsOf(type), flags |-> BitsOf(1), phone_id |-> id, sequence |-> seq,
   sample_rate_hz |-> BitsOf(48000), sample_count |-> n, timestamp_us |-> {0, 31, 32, 63}]
HeadersSmall ==
  {WireHeader(1, {0}, 0..31, 1), WireHeader(3, {1, 8}, {}, 0), WireHeader(2, {1}, {0, 31}, 2)}

=============================================================================
