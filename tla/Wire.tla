-------------------------------- MODULE Wire --------------------------------
(***************************************************************************)
(* The packet format, protocol.py and its twin Protocol.kt: a header of 30 *)
(* bytes, 16-bit samples and a CRC-32C.  A number on the wire is the set   *)
(* of its bits that are one, bit 0 the lowest, so that a 32-bit field has  *)
(* its whole range; a packet is [size, bits], its size in bytes and bit    *)
(* 8k + i for bit i of byte k: little-endian fields lie in it as they are. *)
(***************************************************************************)
EXTENDS Integers, FiniteSetsExt

\* The bits of a number of at most 31 bits, which is halved again and again.
BitsOf(n) ==
  LET half[i \in 0..30] == IF i = 0 THEN n ELSE half[i - 1] \div 2
  IN  {i \in 0..30 : half[i] % 2 = 1}

Raised(s, k) == {i + k : i \in s}
\* The w bits from position k on.
Field(s, k, w) == {i \in 0..w - 1 : i + k \in s}
\* The number with these bits of at most 16, the highest first.
ValueOf(s) ==
  LET value[i \in 0..16] ==
        IF i = 0 THEN 0 ELSE 2 * value[i - 1] + (IF 16 - i \in s THEN 1 ELSE 0)
  IN  value[16]

HEADER_SIZE == 30
CRC_SIZE    == 4
MAGIC       == BitsOf(1398100564)    \* 0x53555254
VERSION     == BitsOf(1)
PacketTypes == {BitsOf(1), BitsOf(2), BitsOf(3)}
MAX_PAYLOAD_SAMPLES == 16384

(****************************** CRC-32C **********************************)

\* The reflected Castagnoli polynomial, 0x82F63B78.
CRC32C_POLY == BitsOf(49691512) \cup {31}

\* One turn of the inner loop of _build_crc32c_table.
TableStep(crc) ==
  LET shifted == Field(crc, 1, 31)
  IN  IF 0 \in crc THEN SymDiff(shifted, CRC32C_POLY) ELSE shifted

CRC32C_TABLE ==
  [byte \in SUBSET (0..7) |->
    LET crc[turn \in 0..8] == IF turn = 0 THEN byte ELSE TableStep(crc[turn - 1])
    IN  crc[8]]

Byte(s, k) == Field(s, 8 * k, 8)

\* The loop body of _crc32c.
ByteStep(crc, byte) ==
  SymDiff(Field(crc, 8, 24), CRC32C_TABLE[SymDiff(Field(crc, 0, 8), byte)])

\* _crc32c of the first n bytes.
crc32c(s, n) ==
  LET crc[k \in 0..n] == IF k = 0 THEN 0..31 ELSE ByteStep(crc[k - 1], Byte(s, k - 1))
  IN  SymDiff(0..31, crc[n])

(************************ framing and verification ***********************)

\* Header.pack: flags and phone id are cut to a byte.
pack(h) ==
  UNION {MAGIC, Raised(VERSION, 32), Raised(h.packet_type, 40),
         Raised(h.flags \cap 0..7, 48), Raised(h.phone_id \cap 0..7, 56),
         Raised(h.sequence, 64), Raised(h.sample_rate_hz, 96),
         Raised(BitsOf(h.sample_count), 128), Raised(h.timestamp_us, 176)}

\* frame_packet: more samples than the maximum are refused.
Frameable(h) == h.sample_count <= MAX_PAYLOAD_SAMPLES

frame_packet(h, samples) ==
  LET body == pack(h) \cup Raised(samples, 8 * HEADER_SIZE)
      size == HEADER_SIZE + 2 * h.sample_count
  IN  [size |-> size + CRC_SIZE, bits |-> body \cup Raised(crc32c(body, size), 8 * size)]

parse_header(s) ==
  [packet_type |-> Field(s, 40, 8), flags |-> Field(s, 48, 8), phone_id |-> Field(s, 56, 8),
   sequence |-> Field(s, 64, 32), sample_rate_hz |-> Field(s, 96, 32),
   sample_count |-> ValueOf(Field(s, 128, 16)), timestamp_us |-> Field(s, 176, 64)]

HeaderAccepted(packet) ==
  /\ packet.size >= HEADER_SIZE
  /\ Field(packet.bits, 0, 32) = MAGIC
  /\ Field(packet.bits, 32, 8) = VERSION
  /\ Field(packet.bits, 40, 8) \in PacketTypes
  /\ parse_header(packet.bits).sample_count <= MAX_PAYLOAD_SAMPLES

\* Mutant: a packet may be longer than its header says.
LengthAtLeast(packet, expected) == packet.size >= expected

LengthFits(packet, expected) == packet.size = expected

\* verify_packet returns a header and does not raise.
Verified(packet) ==
  /\ packet.size >= HEADER_SIZE + CRC_SIZE
  /\ HeaderAccepted(packet)
  /\ LET size == HEADER_SIZE + 2 * parse_header(packet.bits).sample_count
     IN  /\ LengthFits(packet, size + CRC_SIZE)
         /\ Field(packet.bits, 8 * size, 32) = crc32c(packet.bits, size)

payload(packet) ==
  Field(packet.bits, 8 * HEADER_SIZE, 16 * parse_header(packet.bits).sample_count)

\* The self-test at import: the CRC of "123456789" is 0xE3069283.
Crc32cOfDigits == crc32c(UNION {Raised(BitsOf(48 + k), 8 * (k - 1)) : k \in 1..9}, 9)

ASSUME Crc32cSelfTest == Crc32cOfDigits = BitsOf(1661375107) \cup {31}

(*********************** a packet and what becomes of it *****************)

CONSTANTS
  Headers,   \* what a sender puts into its headers
  Bursts     \* numbers of neighbouring bits the network may flip

ASSUME WireAssumption ==
  /\ \A h \in Headers :
       h \in [packet_type : PacketTypes, flags : SUBSET Nat, phone_id : SUBSET Nat,
             sequence : SUBSET (0..31), sample_rate_hz : SUBSET (0..31),
             sample_count : Nat, timestamp_us : SUBSET (0..63)]
  /\ Bursts \subseteq 1..32

VARIABLE wire   \* [header, samples, packet, altered]

WireInit == wire = [header |-> {}, packet |-> [size |-> 0, bits |-> {}], altered |-> FALSE]

Samples(n) == {i \in 0..16 * n - 1 : i % 3 = 0}

Send(h) ==
  /\ wire.header = {} /\ Frameable(h)
  /\ wire' = [header |-> {h}, packet |-> frame_packet(h, Samples(h.sample_count)), altered |-> FALSE]

Altered(packet) == wire' = [wire EXCEPT !.packet = packet, !.altered = TRUE]

FlipBits(from, n) ==
  /\ wire.header # {} /\ ~wire.altered /\ from + n <= 8 * wire.packet.size
  /\ Altered([wire.packet EXCEPT !.bits = SymDiff(@, from..from + n - 1)])

\* The packet is cut short, or something follows it.
Resize(size) ==
  /\ wire.header # {} /\ ~wire.altered /\ size # wire.packet.size
  /\ Altered([size |-> size, bits |-> wire.packet.bits \cap 0..8 * size - 1])

WireNext ==
  \/ \E h \in Headers : Send(h)
  \/ \E n \in Bursts, from \in 0..8 * wire.packet.size : FlipBits(from, n)
  \/ \E size \in 0..wire.packet.size + 2 : Resize(size)

-----------------------------------------------------------------------------
\* What one end frames the other reads back field by field, with ids beyond a byte
\* cut to it and sequence numbers up to 2^32 - 1; and nothing else is accepted in
\* its place: no flipped bits anywhere, no byte missing and none too many
\* (protocol.py 80-177, 187-206).
FramedIsReadBack ==
  \A h \in wire.header :
    /\ Verified(wire.packet) <=> ~wire.altered
    /\ ~wire.altered =>
         /\ parse_header(wire.packet.bits) =
              [h EXCEPT !.phone_id = @ \cap 0..7, !.flags = @ \cap 0..7]
         /\ payload(wire.packet) = Samples(h.sample_count)

=============================================================================
