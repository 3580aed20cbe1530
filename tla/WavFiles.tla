------------------------------ MODULE WavFiles ------------------------------
(***************************************************************************)
(* The WAV files that the recorder, the phones' audit mode and the corpus  *)
(* generator leave behind, as the tools that read them see them: what      *)
(* Python's wave module makes of a header and the data behind it, whose    *)
(* capture a file name says it is, and which file is picked for a phone.   *)
(*                                                                         *)
(* A file name (a stem) is a record of its form and the numbers in it:     *)
(*   run   <run_id>_phone<phone>     LoopRecorder                          *)
(*   beam  <run_id>_beamformed       LoopRecorder                          *)
(*   lead  <phone>_<...>             AuditService, pulled from the phone   *)
(*   out   <phone>_beamformed        an output of batch_ingest             *)
(*   ch    ch<phone>                 the synthetic corpus                  *)
(*   clean target_clean, interferer_clean   the synthetic corpus           *)
(* A file is [stem, hdr, dat, rate]: the samples its header promises       *)
(* (NoHeader before one is written), the samples behind it and the sample  *)
(* rate.  A directory is the sequence of its files, last written last.     *)
(***************************************************************************)
EXTENDS Integers, SequencesExt

CONSTANTS
  NoPhone,   \* extract_phone_id_from_stem found no phone
  NoHeader,  \* no header is written yet
  Open       \* AuditService's placeholder header: sizes 0 and 0xFFFFFFFF

ASSUME WavFilesAssumption ==
  /\ NoPhone \notin Nat
  /\ NoHeader \notin Nat /\ Open \notin Nat /\ NoHeader # Open

\* The samples read_wav returns.
SamplesOf(f) == IF f.hdr < f.dat THEN f.hdr ELSE f.dat

\* All files here are 16-bit mono.  With n frames promised and fewer there, the
\* width comes out below two.
SampleWidth(f) == (2 * SamplesOf(f)) \div (IF f.hdr > 1 THEN f.hdr ELSE 1)

\* Mutant: the width is the header's, not that of what was read.
TrustHeader(f) == f.hdr \in Nat

\* read_wav succeeds: the wave module finds a header (an empty file, and a RIFF
\* size of zero, raise), and the width it works out is one it supports.
Readable(f) == f.hdr \in Nat /\ SampleWidth(f) = 2

\* Beamformed output is nobody's; then a number before the first "_", after
\* "ch", or after the last "_phone".
extract_phone_id_from_stem(stem) ==
  IF stem.form \in {"run", "lead", "ch"} THEN stem.phone ELSE NoPhone

\* list_batch_files for one phone: places in the directory, newest last.
FilesOf(dir, phone) ==
  {i \in DOMAIN dir : extract_phone_id_from_stem(dir[i].stem) = phone}

PhonesIn(dir) == {extract_phone_id_from_stem(dir[i].stem) : i \in DOMAIN dir} \ {NoPhone}

\* Mutant: oldest first.
PickOldest(dir) == [p \in PhonesIn(dir) |-> dir[Min(FilesOf(dir, p))].stem]

\* The most recently written file of each phone that has one.
pick_most_recent_per_phone(dir) ==
  [p \in PhonesIn(dir) |-> dir[Max(FilesOf(dir, p))].stem]

\* AuditService after n samples: the header is a placeholder until
\* patchHeaderSize writes the number of samples where the data chunk's size in
\* bytes belongs, so that the wave module sees half as many frames.
AuditFile(p, rate, n, patched) ==
  [stem |-> [form |-> "lead", phone |-> p, key |-> 0],
   hdr |-> IF patched THEN n \div 2 ELSE Open, dat |-> n, rate |-> rate]

\* A scene of synth_suite: one file per element, and its two sources.
SceneFile(form, p, n) ==
  [stem |-> [form |-> form, phone |-> p, key |-> 0], hdr |-> n, dat |-> n, rate |-> 48]

synth_suite(elements, n) ==
  [i \in 1..elements |-> SceneFile("ch", i - 1, n)] \o <<SceneFile("clean", 0, n), SceneFile("clean", 1, n)>>

=============================================================================
