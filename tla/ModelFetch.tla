----------------------------- MODULE ModelFetch -----------------------------
(***************************************************************************)
(* tools/fetch_asr.py, which downloads the four files of a speech model    *)
(* into a directory, and the live tool's recogniser, which is chosen when  *)
(* the tool starts and reads the files when it is first used.  A fetch may *)
(* fail or be interrupted and be repeated, for the same model or another.  *)
(***************************************************************************)
EXTENDS Naturals, FiniteSets

CONSTANTS
  Targets,       \* models with URLs
  Placeholders,  \* models whose URLs are not filled in
  MaxFetches     \* bound: calls of fetch

ASSUME ModelFetchAssumption ==
  Targets \cap Placeholders = {} /\ MaxFetches \in Nat

Files == 1..4   \* encoder, decoder, joiner, tokens, in the order of download

VARIABLES
  model,      \* per file: [of, size]; size: missing, empty, part or whole
  fetcher,    \* [pc, target, i]; pc: idle, look, write, data, returned
  fetches,    \* calls so far
  disturbed,  \* history: a download was interrupted, or two models were fetched
  asr         \* the tool's engine: none, mock, sherpa (not loaded yet) or loaded

fetchVars == <<model, fetcher, fetches, disturbed, asr>>

Missing == [of |-> {}, size |-> "missing"]
Exists(f) == model[f].size # "missing"

FetchInit ==
  /\ model = [f \in Files |-> Missing]
  /\ fetcher = [pc |-> "idle", target |-> {}, i |-> 1]
  /\ fetches = 0 /\ disturbed = FALSE /\ asr = "none"

\* fetch(target): a placeholder returns at once, and main says it is done.
fetch(target) ==
  /\ fetcher.pc \in {"idle", "returned"} /\ fetches < MaxFetches
  /\ fetches' = fetches + 1
  /\ fetcher' = IF target \in Placeholders THEN [fetcher EXCEPT !.pc = "idle"]
                ELSE [pc |-> "look", target |-> {target}, i |-> 1]
  /\ disturbed' = (disturbed \/ \E f \in Files : model[f].of \notin {{}, {target}})
  /\ UNCHANGED <<model, asr>>

\* Mutant: the size of what is there is not looked at.
PresentIfExists(f) == Exists(f)

\* Already present: the file exists and is not empty, whatever is in it.
Present(f) == Exists(f) /\ model[f].size # "empty"

Advanced ==
  IF fetcher.i < Cardinality(Files) THEN [fetcher EXCEPT !.pc = "look", !.i = @ + 1]
  ELSE [fetcher EXCEPT !.pc = "returned"]

\* _download looks for the file and asks for the URL: the body comes in full, or
\* the program exits.
Look ==
  /\ fetcher.pc = "look"
  /\ fetcher' \in IF Present(fetcher.i) THEN {Advanced}
                  ELSE {[fetcher EXCEPT !.pc = "write"], [fetcher EXCEPT !.pc = "idle"]}
  /\ UNCHANGED <<model, fetches, disturbed, asr>>

Put(size) == model' = [model EXCEPT ![fetcher.i] = [of |-> fetcher.target, size |-> size]]

\* write_bytes truncates the file and writes it.
OpenFile ==
  /\ fetcher.pc = "write"
  /\ Put("empty")
  /\ fetcher' = [fetcher EXCEPT !.pc = "data"]
  /\ UNCHANGED <<fetches, disturbed, asr>>

WriteFile ==
  /\ fetcher.pc = "data"
  /\ Put("whole")
  /\ fetcher' = Advanced
  /\ UNCHANGED <<fetches, disturbed, asr>>

\* Ctrl-C, or a full disk, while the file is written.
Interrupt ==
  /\ fetcher.pc = "data"
  /\ Put("part") \/ UNCHANGED model
  /\ fetcher' = [fetcher EXCEPT !.pc = "idle"]
  /\ disturbed' = TRUE
  /\ UNCHANGED <<fetches, asr>>

\* get_asr_engine: the recogniser is chosen by the encoder's file alone.
get_asr_engine ==
  /\ asr' = IF Exists(1) THEN "sherpa" ELSE "mock"
  /\ UNCHANGED <<model, fetcher, fetches, disturbed>>

\* _ensure_recognizer finds all four files and the engine can read them.
Loadable == \A f \in Files : model[f].size = "whole"

\* transcribe: loads the recogniser when it is first used.  live_loop swallows
\* what it raises, so a recogniser that does not load is tried again every time.
transcribe ==
  /\ asr \in {"sherpa", "mock"}
  /\ asr' = IF asr = "sherpa" /\ Loadable THEN "loaded" ELSE asr
  /\ UNCHANGED <<model, fetcher, fetches, disturbed>>

FetchNext ==
  \/ \E target \in Targets \cup Placeholders : fetch(target)
  \/ Look \/ OpenFile \/ WriteFile \/ Interrupt \/ get_asr_engine \/ transcribe

FetchSpec == FetchInit /\ [][FetchNext]_fetchVars

-----------------------------------------------------------------------------
\* A fetch that returns leaves four files with something in them, however many
\* attempts failed or were interrupted before; and if no download ever was, and
\* one model only was fetched, a recogniser that loads (fetch_asr.py 132-171).
FetchedModelLoads ==
  fetcher.pc = "returned" =>
    /\ \A f \in Files : model[f].size \in {"part", "whole"}
    /\ ~disturbed => Loadable

=============================================================================
