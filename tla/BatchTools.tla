----------------------------- MODULE BatchTools -----------------------------
(***************************************************************************)
(* The programs that meet in a directory of WAV files: recorder.py, driven *)
(* by the demo or the live tool, which writes a set of files when its run  *)
(* ends; the phones' audit mode, whose files are copied over; and          *)
(* fallback.py and replay.py, which load the newest file of every phone.   *)
(* They run in terminals of their own, so a load may happen while files    *)
(* are being written, and the recorder may die at any point.               *)
(***************************************************************************)
EXTENDS WavFiles

CONSTANTS
  Recorded,  \* the orders in which a caller may list the phones it records
  Auditors,  \* the phones that record in audit mode
  Elements,  \* elements of the default array geometry
  FrameLen,  \* samples of a loop frame and of an audit buffer
  MaxFrames, \* bound: frames of a recording, and buffers of an audit
  MaxCaptures \* bound: recordings begun and audit files copied

ASSUME BatchToolsAssumption ==
  /\ Recorded \subseteq Seq(Nat)
  /\ Auditors \subseteq Nat /\ Elements \in Nat \ {0} /\ FrameLen \in Nat \ {0}
  /\ MaxFrames \in Nat /\ MaxCaptures \in Nat

VARIABLES
  dir,       \* the directory
  captures,  \* recordings begun and audit files copied
  session,   \* the recorder
  complete,  \* history: the names of a recording whose files, all of them and no
             \* others, were the last to be written
  job        \* the loader

batchVars == <<dir, captures, session, complete, job>>

Idle == [pc |-> "idle", run |-> 0, phone_ids |-> <<>>, live |-> <<>>, dropped |-> FALSE,
         channels |-> <<>>, beamformed |-> 0, todo |-> <<>>, alone |-> FALSE, part |-> FALSE]

NoJob == [picks |-> <<>>, todo |-> <<>>, channels |-> <<>>]

BatchInit ==
  /\ dir \in {<<>>, synth_suite(Elements, FrameLen)}
  /\ captures = 0 /\ session = Idle /\ complete = {} /\ job = NoJob

\* A file is written: it is the newest, and its older self is gone.
Written(file) ==
  LET older == {i \in DOMAIN dir : dir[i].stem = file.stem}
      kept  == IF older = {} THEN dir ELSE RemoveAt(dir, CHOOSE i \in older : TRUE)
  IN  Append(kept, file)

(***************************** The recorder *******************************)

\* Mutant: the ids stay in the caller's order.
AsGiven(given) == given

\* sorted(): the i-th has i - 1 below it.
Ascending(S) ==
  [i \in 1..Cardinality(S) |-> CHOOSE p \in S : Cardinality({q \in S : q < p}) = i - 1]

\* phone_ids = sorted(set(phone_ids)).
SortedIds(given) == Ascending(ToSet(given))

\* LoopRecorder(...) beside a DspLoop that knows the same phones.  The default
\* run id is a time in whole seconds: two runs of one second share it.
StartRun(given) ==
  /\ session.pc = "idle" /\ captures < MaxCaptures
  /\ \E run \in {session.run, session.run + 1} \ {0} :
       session' = [Idle EXCEPT
         !.pc = "recording", !.run = run, !.phone_ids = SortedIds(given),
         !.live = Ascending(ToSet(given)),
         !.channels = [p \in ToSet(given) |-> [len |-> 0, src |-> {}]]]
  /\ captures' = captures + 1
  /\ UNCHANGED <<dir, complete, job>>

\* record(frame): channel i of the frame goes to the i-th expected phone.
Record ==
  /\ session.pc = "recording" /\ session.beamformed < MaxFrames * FrameLen
  /\ LET n_known == Min({Len(session.phone_ids), Len(session.live)})
         From(p) == {session.live[i] : i \in {j \in 1..n_known : session.phone_ids[j] = p}}
     IN  session' = [session EXCEPT
           !.beamformed = @ + FrameLen,
           !.channels = [p \in DOMAIN @ |->
             IF From(p) = {} THEN @[p]
             ELSE [len |-> @[p].len + FrameLen, src |-> @[p].src \cup From(p)]]]
  /\ UNCHANGED <<dir, captures, complete, job>>

\* DspLoop.drop_phone while a recording runs.
DropPhone ==
  /\ session.pc = "recording" /\ Len(session.live) > 1
  /\ \E p \in ToSet(session.live) :
       session' = [session EXCEPT !.live = SelectSeq(@, LAMBDA q : q # p), !.dropped = TRUE]
  /\ UNCHANGED <<dir, captures, complete, job>>

\* A file of the recording; a sample of silence if nothing came.
Wav(form, p, len) ==
  LET n == IF len = 0 THEN 1 ELSE len
  IN  [stem |-> [form |-> form, phone |-> p, key |-> session.run],
       hdr |-> n, dat |-> n, rate |-> 48]

\* The run is over, or was interrupted: finalise() works through the phones in
\* ascending order and then the beamformed output.
Finalise ==
  /\ session.pc = "recording"
  /\ session' = [session EXCEPT !.pc = "finalising", !.alone = TRUE,
       !.todo = [i \in DOMAIN session.phone_ids |->
                   LET p == session.phone_ids[i] IN Wav("run", p, session.channels[p].len)]
                \o <<Wav("beam", 0, session.beamformed)>>]
  /\ UNCHANGED <<dir, captures, complete, job>>

\* _write_mono_wav truncates the file, then writes header and samples; less than
\* all may be there when another program looks, or when the recorder dies.
OpenWav ==
  /\ session.pc = "finalising" /\ ~session.part
  /\ session' = [session EXCEPT !.part = TRUE]
  /\ LET file == Head(session.todo)
     IN  \/ dir' = Written([file EXCEPT !.hdr = NoHeader, !.dat = 0])
         \/ dir' = Written([file EXCEPT !.dat = @ - 1])
  /\ complete' = {}
  /\ UNCHANGED <<captures, job>>

Finished == [Idle EXCEPT !.run = session.run]

CloseWav ==
  /\ session.pc = "finalising" /\ session.part
  /\ dir' = Written(Head(session.todo))
  /\ IF Len(session.todo) > 1
       THEN /\ session' = [session EXCEPT !.todo = Tail(@), !.part = FALSE]
            /\ complete' = {}
       ELSE /\ session' = Finished
            /\ complete' = IF session.alone
                 THEN {Wav("run", p, 0).stem : p \in ToSet(session.phone_ids)} ELSE {}
  /\ UNCHANGED <<captures, job>>

\* The recorder's process dies.
Die ==
  /\ session.pc # "idle"
  /\ session' = Finished
  /\ UNCHANGED <<dir, captures, complete, job>>

(************************* Audit files and loaders ************************)

\* Somebody else wrote a file.
Foreign(file) ==
  /\ dir' = Written(file)
  /\ complete' = {}
  /\ session' = [session EXCEPT !.alone = FALSE]

\* The operator copies a phone's audit file, of a recording that ran to its end
\* or not, in full or cut short, from a phone at the same sample rate or another.
Pull(p) ==
  /\ captures < MaxCaptures
  /\ \E rate \in {44, 48}, n \in 0..MaxFrames, patched \in BOOLEAN :
       Foreign(AuditFile(p, rate, n * FrameLen, patched))
  /\ captures' = captures + 1
  /\ UNCHANGED job

\* batch_ingest and _load_stem_channels pick a file for each phone, if there
\* are two phones at least.
StartLoad ==
  /\ job = NoJob
  /\ Cardinality(PhonesIn(dir)) >= 2
  /\ job' = [picks |-> pick_most_recent_per_phone(dir),
             todo |-> Ascending(PhonesIn(dir)), channels |-> <<>>]
  /\ UNCHANGED <<dir, captures, session, complete>>

\* read_wav of the next phone; an unreadable file, or another sample rate than
\* the first one's, ends the load.
ReadNext ==
  /\ job.todo # <<>>
  /\ \E i \in DOMAIN dir :
       /\ dir[i].stem = job.picks[Head(job.todo)]
       /\ job' = IF Readable(dir[i])
                    /\ (job.channels = <<>> \/ job.channels[1].rate = dir[i].rate)
                 THEN [job EXCEPT !.todo = Tail(@), !.channels = Append(@, dir[i])]
                 ELSE NoJob
  /\ UNCHANGED <<dir, captures, session, complete>>

\* batch_ingest with every channel loaded: more channels than elements, and the
\* beamformer raises; else the channels are cut to the shortest and the output
\* is written, here next to the captures.
batch_ingest ==
  /\ job.channels # <<>> /\ job.todo = <<>>
  /\ job' = NoJob
  /\ LET n == Min({SamplesOf(job.channels[i]) : i \in DOMAIN job.channels})
     IN  IF Len(job.channels) > Elements
           THEN UNCHANGED <<dir, session, complete>>
           ELSE Foreign([stem |-> [form |-> "out", phone |-> job.channels[1].stem.phone, key |-> 0],
                         hdr |-> n, dat |-> n, rate |-> job.channels[1].rate])
  /\ UNCHANGED captures

BatchNext ==
  \/ \E given \in Recorded : StartRun(given)
  \/ Record \/ DropPhone \/ Finalise \/ OpenWav \/ CloseWav \/ Die
  \/ \E p \in Auditors : Pull(p)
  \/ StartLoad \/ ReadNext \/ batch_ingest

-----------------------------------------------------------------------------
\* Nothing torn is ever beamformed or replayed: a channel that was loaded has
\* every sample its header promises, although the loader takes no lock and looks
\* at files while they are written or after their writer died (fallback.py 68-81
\* against recorder.py 72-79).
NothingTorn ==
  \A i \in DOMAIN job.channels : SamplesOf(job.channels[i]) = job.channels[i].hdr

\* When the last thing written is the whole set of files of one recording, a
\* load gets its phones from that set and from no older or torn file
\* (recorder.py 146-179, fallback.py 116-144).
LatestRunTogether ==
  \A stem \in complete :
    /\ pick_most_recent_per_phone(dir)[stem.phone] = stem
    /\ Readable(dir[Max(FilesOf(dir, stem.phone))])

\* As long as no phone is dropped, the audio under a phone's name is that
\* phone's, in whatever order the caller listed the phones (recorder.py 108-144
\* against alignment.py 98-99).
RecordedAsOwn ==
  ~session.dropped =>
    \A p \in DOMAIN session.channels : session.channels[p].src \subseteq {p}

=============================================================================
