-------------------------- MODULE InserterProcess --------------------------
(***************************************************************************)
(* The process as a whole (cmd/litime-timescaledb-inserter/main.go): main  *)
(* starts the battery manager and, if devices are configured, the Victron  *)
(* collector, writes the battery readings itself until the manager closes  *)
(* its stream, waits for both and exits.                                   *)
(*                                                                         *)
(* The two pipelines are taken as what ReadingQueue and VictronCollector   *)
(* are shown to implement: a ReadingStream each.                           *)
(***************************************************************************)
EXTENDS Naturals, Sequences

CONSTANTS
  Reading,   \* the readings either pipeline can take
  Capacity,  \* how many can be on their way to the database
  MaxAccept  \* bound: readings a pipeline takes in one run

ASSUME CapacityAssumption == Capacity \in Nat \ {0}

ASSUME AcceptAssumption == MaxAccept \in Nat

VARIABLES
  main,         \* "starting", "startVictron", "writing", "managerDone",
                \* "victronDone", "returning" or "exited"
  status,       \* the exit status, "none" while the process runs
  poolClosed,   \* the deferred Close of the database pool has run
  cancelled,    \* SIGINT or SIGTERM has cancelled the root context
  managerDone,  \* what Manager.Run has sent: "nothing", "nil" or "error"
  victron,      \* "off", "running" or "notConfigured"
  bAccepted, bHandled, bStage,  \* the battery readings' stream
  vAccepted, vHandled, vStage   \* the Victron readings' stream

batteryVars == <<bAccepted, bHandled, bStage>>
victronVars == <<vAccepted, vHandled, vStage>>
streamVars == <<batteryVars, victronVars>>
restVars == <<poolClosed, cancelled, managerDone, victron>>
controlVars == <<main, status, restVars>>
vars == <<controlVars, streamVars>>

Batteries == INSTANCE ReadingStream
               WITH accepted <- bAccepted, handled <- bHandled, stage <- bStage

Chargers == INSTANCE ReadingStream
              WITH accepted <- vAccepted, handled <- vHandled, stage <- vStage

Running == status = "none"

Init ==
  /\ main = "starting"
  /\ status = "none"
  /\ poolClosed = FALSE
  /\ cancelled = FALSE
  /\ managerDone = "nothing"
  /\ victron = "off"
  /\ Batteries!Init
  /\ Chargers!Init

\* os.Exit(1): the process is gone, its goroutines and deferred calls with it.
Abort == status' = "failure" /\ main' = "exited"

Cancel ==
  /\ Running
  /\ ~cancelled
  /\ cancelled' = TRUE
  /\ UNCHANGED <<main, status, poolClosed, managerDone, victron, batteryVars,
                 victronVars>>

(***************************************************************************)
(* main.                                                                   *)
(***************************************************************************)

\* Something on the way to "go manager.Run" fails: the configuration, the
\* telemetry, the database, the adapter.
StartupFails ==
  /\ main = "starting"
  /\ Abort
  /\ UNCHANGED <<restVars, streamVars>>

StartManager ==
  /\ main = "starting"
  /\ main' = "startVictron"
  /\ UNCHANGED <<status, restVars, streamVars>>

\* The manager is running already when startVictron returns an error.
VictronStartFails ==
  /\ main = "startVictron"
  /\ Abort
  /\ UNCHANGED <<restVars, streamVars>>

StartVictron ==
  /\ main = "startVictron"
  /\ victron' \in {"running", "notConfigured"}
  /\ main' = "writing"
  /\ UNCHANGED <<status, poolClosed, cancelled, managerDone, batteryVars,
                 victronVars>>

\* One pass of the range loop, insert included.
WriteBatteryReading ==
  /\ main = "writing"
  /\ Batteries!Handle
  /\ UNCHANGED <<controlVars, victronVars>>

\* Faulty variant: main selects on the root context and leaves its loop.
LeavesLoopOnSignal ==
  /\ main = "writing"
  /\ cancelled \/ Batteries!End
  /\ bStage' = "ended"
  /\ main' = "managerDone"
  /\ UNCHANGED <<status, restVars, bAccepted, bHandled, victronVars>>

EndOfBatteryReadings ==
  /\ main = "writing"
  /\ Batteries!End
  /\ main' = "managerDone"
  /\ UNCHANGED <<status, restVars, victronVars>>

\* Faulty variant: the manager's error is noted and otherwise ignored.
TakeManagerDoneIgnoresError ==
  /\ main = "managerDone"
  /\ managerDone # "nothing"
  /\ main' = "victronDone"
  /\ UNCHANGED <<status, restVars, streamVars>>

\* <-managerDone; an error ends the process there and then.
TakeManagerDone ==
  /\ main = "managerDone"
  /\ managerDone # "nothing"
  /\ IF managerDone = "error"
     THEN Abort
     ELSE main' = "victronDone" /\ UNCHANGED status
  /\ UNCHANGED <<restVars, streamVars>>

\* Faulty variant: main does not wait for the Victron pipeline.
SkipVictronDone ==
  /\ main = "victronDone"
  /\ main' = "returning"
  /\ UNCHANGED <<status, restVars, streamVars>>

\* <-victronDone; without Victron devices it was ready from the start.
TakeVictronDone ==
  /\ main = "victronDone"
  /\ victron = "notConfigured" \/ vStage = "ended"
  /\ main' = "returning"
  /\ UNCHANGED <<status, restVars, streamVars>>

\* The deferred calls of main, and the return.
Return ==
  /\ main = "returning"
  /\ poolClosed' = TRUE
  /\ status' = "success"
  /\ main' = "exited"
  /\ UNCHANGED <<cancelled, managerDone, victron, batteryVars, victronVars>>

Main ==
  \/ StartManager
  \/ StartVictron
  \/ WriteBatteryReading
  \/ EndOfBatteryReadings
  \/ TakeManagerDone
  \/ TakeVictronDone
  \/ Return

(***************************************************************************)
(* The two pipelines.                                                      *)
(***************************************************************************)

ManagerStarted == Running /\ main # "starting"

AcceptBatteryReading ==
  /\ ManagerStarted
  /\ Len(bAccepted) < MaxAccept
  /\ \E r \in Reading : Batteries!Accept(r)
  /\ UNCHANGED <<controlVars, victronVars>>

\* Faulty variant: a cancelled Run sends its result without having closed the
\* stream of readings.
RunReturnsUnsealed ==
  /\ ManagerStarted
  /\ managerDone = "nothing"
  /\ bStage = "open"
  /\ \/ cancelled /\ managerDone' = "nil" /\ UNCHANGED batteryVars
     \/ bAccepted = <<>> /\ Batteries!Seal /\ managerDone' = "error"
  /\ UNCHANGED <<main, status, poolClosed, cancelled, victron, victronVars>>

\* Manager.Run's deferred closeReadings: Run ends with nil once the context
\* is done and its supervisors are, or with an error of the startup scan,
\* before there is any reading; a context that is done during the scan causes
\* one too.
ManagerSeals ==
  /\ ManagerStarted
  /\ managerDone = "nothing"
  /\ Batteries!Seal
  /\ \/ cancelled /\ managerDone' = "nil"
     \/ bAccepted = <<>> /\ managerDone' = "error"
  /\ UNCHANGED <<main, status, poolClosed, cancelled, victron, victronVars>>

AcceptVictronReading ==
  /\ Running
  /\ victron = "running"
  /\ Len(vAccepted) < MaxAccept
  /\ \E r \in Reading : Chargers!Accept(r)
  /\ UNCHANGED <<controlVars, batteryVars>>

\* Faulty variant: the insert is repeated as long as there is a reading.
WriteVictronAgain ==
  /\ Running
  /\ victron = "running"
  /\ vStage # "ended"
  /\ vAccepted # <<>>
  /\ vHandled' = Append(vHandled, vAccepted[1])
  /\ UNCHANGED <<controlVars, batteryVars, vAccepted, vStage>>

WriteVictronReading ==
  /\ Running
  /\ victron = "running"
  /\ Chargers!Handle
  /\ UNCHANGED <<controlVars, batteryVars>>

\* Collector.Run returns only when the context is done.
CollectorSeals ==
  /\ Running
  /\ victron = "running"
  /\ cancelled
  /\ Chargers!Seal
  /\ UNCHANGED <<controlVars, batteryVars>>

VictronEnds ==
  /\ Running
  /\ victron = "running"
  /\ Chargers!End
  /\ UNCHANGED <<controlVars, batteryVars>>

Next ==
  \/ Cancel
  \/ StartupFails
  \/ VictronStartFails
  \/ Main
  \/ AcceptBatteryReading
  \/ ManagerSeals
  \/ AcceptVictronReading
  \/ WriteVictronReading
  \/ CollectorSeals
  \/ VictronEnds

SafeSpec == Init /\ [][Next]_vars

\* The pipelines' own liveness, shown for ReadingQueue and VictronCollector,
\* and the shutdown of the supervisors, shown for BatterySupervisor.
Spec ==
  /\ SafeSpec
  /\ WF_vars(Main)
  /\ WF_vars(cancelled /\ ManagerSeals)
  /\ WF_vars(WriteVictronReading)
  /\ WF_vars(CollectorSeals)
  /\ WF_vars(VictronEnds)
-----------------------------------------------------------------------------
(***************************************************************************)
(* Properties.                                                             *)
(***************************************************************************)

TypeOK ==
  /\ main \in {"starting", "startVictron", "writing", "managerDone",
               "victronDone", "returning", "exited"}
  /\ status \in {"none", "success", "failure"}
  /\ poolClosed \in BOOLEAN
  /\ cancelled \in BOOLEAN
  /\ managerDone \in {"nothing", "nil", "error"}
  /\ victron \in {"off", "running", "notConfigured"}
  /\ bAccepted \in Seq(Reading)
  /\ bHandled \in Seq(Reading)
  /\ vAccepted \in Seq(Reading)
  /\ vHandled \in Seq(Reading)
  /\ bStage \in {"open", "sealed", "ended"}
  /\ vStage \in {"open", "sealed", "ended"}
  /\ Len(bAccepted) - Len(bHandled) \in 0 .. Capacity
  /\ Len(vAccepted) - Len(vHandled) \in 0 .. Capacity

\* The database pool is closed, and the process reports success, only after a
\* signal and with every reading of either pipeline written or given up by
\* its own insert: none is left in a queue or in the middle of a write.
CleanExitLeavesNothing ==
  poolClosed \/ status = "success" =>
    /\ cancelled
    /\ bHandled = bAccepted
    /\ vHandled = vAccepted

\* The battery readings are written out before the process ends, once main has
\* got as far as its loop: the signal may come while a slow database is behind
\* by a whole queue, or find main in the middle of an insert.
BatteryReadingsNeverAbandoned ==
  managerDone # "nothing" /\ victron # "off" /\ status # "none" =>
    bHandled = bAccepted

\* A signal ends the process, whatever it was doing when the signal came.
SignalEndsProcess == cancelled ~> ~Running

\* A battery manager that gave up is not left running as an idle process, and
\* never ends as a success.
ManagerErrorEndsProcess ==
  managerDone = "error" ~> status = "failure"

(***************************************************************************)
(* What the documentation says, and the code does otherwise.               *)
(***************************************************************************)

\* victron.go, insertVictron: a background context is used "so that readings
\* still queued at shutdown are not abandoned mid-write".
VictronReadingsNeverAbandoned ==
  cancelled /\ status # "none" => vHandled = vAccepted
=============================================================================
