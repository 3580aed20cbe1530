--------------------------- MODULE LaptopPrograms ---------------------------
(***************************************************************************)
(* One session at the laptop away from the packet server: which of the     *)
(* other programs is started, by `shruti-array <cmd>` or by a tool of its  *)
(* own.  They share no state, so a session is with one of them:            *)
(*   files    recorder, audit files, fallback, replay's loader: BatchTools *)
(*   drivers  replay, demo, soak with their tracker: ArrayDrivers          *)
(*   fetch    the model download and the recogniser: ModelFetch            *)
(*   boot     two programs that stamp the boot time: BootStamp             *)
(*   live     the live tool's event loop: LiveShow                         *)
(*   dial     phone_dialer and the phones' server: DialIn                  *)
(*   lags     a correlator, given two signals: Lags                        *)
(*   wire     the two ends of the packet format: Wire                      *)
(***************************************************************************)
EXTENDS BatchTools, ArrayDrivers, ModelFetch, BootStamp, LiveShow, DialIn, Lags, Wire

VARIABLE program   \* the one that was started

programVars ==
  <<program, batchVars, driverVars, fetchVars, bootVars, liveVars, dialVars, trial,
    wire>>

Programs == {"files", "drivers", "fetch", "boot", "live", "dial", "lags", "wire"}

ProgramsInit ==
  /\ program \in Programs
  /\ BatchInit /\ DriverInit /\ FetchInit /\ BootInit /\ LiveInit /\ DialInInit
  /\ LagsInit /\ WireInit
  /\ program # "drivers" => setup = CHOOSE s \in Setups : TRUE
  /\ program # "files" => dir = <<>>

ProgramsNext ==
  /\ UNCHANGED program
  /\ \/ /\ program = "files" /\ BatchNext
        /\ UNCHANGED <<driverVars, fetchVars, bootVars, liveVars, dialVars, trial, wire>>
     \/ /\ program = "drivers" /\ DriverNext
        /\ UNCHANGED <<batchVars, fetchVars, bootVars, liveVars, dialVars, trial, wire>>
     \/ /\ program = "fetch" /\ FetchNext
        /\ UNCHANGED <<batchVars, driverVars, bootVars, liveVars, dialVars, trial, wire>>
     \/ /\ program = "boot" /\ BootNext
        /\ UNCHANGED <<batchVars, driverVars, fetchVars, liveVars, dialVars, trial, wire>>
     \/ /\ program = "live" /\ LiveNext
        /\ UNCHANGED <<batchVars, driverVars, fetchVars, bootVars, dialVars, trial, wire>>
     \/ /\ program = "dial" /\ DialInNext
        /\ UNCHANGED <<batchVars, driverVars, fetchVars, bootVars, liveVars, trial, wire>>
     \/ /\ program = "lags" /\ LagsNext
        /\ UNCHANGED <<batchVars, driverVars, fetchVars, bootVars, liveVars, dialVars, wire>>
     \/ /\ program = "wire" /\ WireNext
        /\ UNCHANGED <<batchVars, driverVars, fetchVars, bootVars, liveVars, dialVars, trial>>

ProgramsSpec == ProgramsInit /\ [][ProgramsNext]_programVars

=============================================================================
