----------------------------- MODULE BootStamp ------------------------------
(***************************************************************************)
(* boot.py: the file that keeps the time of the laptop's first start.  The *)
(* live tool and the metrics server of a second terminal both call         *)
(* mark_boot when they start, and may be killed at any point of it.        *)
(***************************************************************************)
EXTENDS Naturals, FiniteSets

CONSTANTS
  Processes,  \* programs that stamp
  Absent,     \* there is no file
  Empty,      \* the file is created, or truncated, and not written yet
  MaxClock    \* bound: starts, each at a time of its own

ASSUME BootStampAssumption ==
  /\ IsFiniteSet(Processes) /\ MaxClock \in Nat
  /\ Absent \notin Nat /\ Empty \notin Nat /\ Absent # Empty

VARIABLES
  file,     \* the stamp
  clock,
  process   \* per process: [pc, boot], boot being the time it took for its stamp and
            \* then the time mark_boot returned

bootVars == <<file, clock, process>>

Down == [pc |-> "down", boot |-> 0]

BootInit == file = Absent /\ clock = 0 /\ process = [p \in Processes |-> Down]

At(p, pc) == process' = [process EXCEPT ![p].pc = pc]

\* Mutant: whether there is a stamp is not looked at.
ChecksNothing == "time"

\* path.exists().
AfterCheck == IF file = Absent THEN "time" ELSE "read"

StartUp(p) ==
  /\ process[p].pc = "down" /\ clock < MaxClock
  /\ clock' = clock + 1
  /\ At(p, AfterCheck)
  /\ UNCHANGED file

\* str(time.time()), the argument of write_text.
TakeTime(p) ==
  /\ process[p].pc = "time"
  /\ process' = [process EXCEPT ![p] = [pc |-> "open", boot |-> clock]]
  /\ UNCHANGED <<file, clock>>

\* write_text opens the file, which truncates it, then writes.
OpenStamp(p) ==
  /\ process[p].pc = "open"
  /\ file' = Empty
  /\ At(p, "opened")
  /\ UNCHANGED clock

WriteStamp(p) ==
  /\ process[p].pc = "opened"
  /\ file' = process[p].boot
  /\ At(p, "read")
  /\ UNCHANGED clock

\* float(path.read_text()): an empty file raises, and the program does not start.
ReadStamp(p) ==
  /\ process[p].pc = "read"
  /\ process' = [process EXCEPT ![p] =
       IF file = Empty THEN Down ELSE [pc |-> "up", boot |-> file]]
  /\ UNCHANGED <<file, clock>>

Killed(p) ==
  /\ process[p].pc # "down"
  /\ process' = [process EXCEPT ![p] = Down]
  /\ UNCHANGED <<file, clock>>

BootNext ==
  \E p \in Processes :
    \/ StartUp(p) \/ TakeTime(p) \/ OpenStamp(p) \/ WriteStamp(p) \/ ReadStamp(p) \/ Killed(p)

BootSpec == BootInit /\ [][BootNext]_bootVars

-----------------------------------------------------------------------------
\* The stamp is there and nobody who found none is still on the way to writing one.
Writing(p) == process[p].pc \in {"time", "open", "opened"}
Settled == file \in Nat /\ \A p \in Processes : ~Writing(p)

\* Once the programs that found no file are done or dead, one of them or several at
\* once, the stamp they left is for good: no start, kill or restart writes it or
\* sets out to, and every program that comes up returns it (boot.py 34-45).
StampSettles ==
  [][Settled => /\ Settled' /\ file' = file
                /\ \A p \in Processes :
                     process'[p].pc = "up" /\ process[p].pc # "up" => process'[p].boot = file
    ]_bootVars

=============================================================================
