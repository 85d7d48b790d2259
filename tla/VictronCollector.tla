-------------------------- MODULE VictronCollector --------------------------
(***************************************************************************)
(* The Victron side: Collector.Run, scanOnce, handle and publish           *)
(* (internal/victron/collector.go) on one goroutine, and the drain loop of *)
(* startVictron (cmd/litime-timescaledb-inserter/victron.go) on another.   *)
(*                                                                         *)
(* The collector never connects: what it knows of a device in one scan is  *)
(* one of the Sightings below, and its counters are all that tells a       *)
(* silent device from a misconfigured one.  A scan, and the decoding of an *)
(* advertisement, belong to external libraries.                            *)
(*                                                                         *)
(* ParseDevices has parsed every address, so the skip of one that does not *)
(* parse and the return without any address are never taken.  It does not  *)
(* refuse two devices whose IDs differ by blanks only; they would share an *)
(* entry of seen, and are left out.                                        *)
(***************************************************************************)
EXTENDS Integers, Sequences, FiniteSets

CONSTANTS
  Device,      \* the configured devices
  BufferSize,  \* capacity of the readings channel
  MaxScans     \* bound: scans that return a result

\* NewCollector replaces a size that is not positive by 64.
ASSUME BufferSizeAssumption == BufferSize \in Nat \ {0}

ASSUME ScansAssumption == MaxScans \in Nat

\* What one scan can show of a device, in the order handle finds out: no
\* advertisement, none of Victron's, one without instant readout, one of a
\* record type without a parser, one the key does not fit, one whose payload
\* does not parse, and one that gives a reading.
Sightings == {"absent", "foreign", "noReadout", "unsupported", "keyMismatch",
              "garbled", "reading"}

\* The counters kept per device.
Counters == {"missed", "unsupported", "decryptFailures", "decodeFailures",
             "dropped", "readings"}

Reading == Device \X (1 .. MaxScans)

VARIABLES
  pc,            \* "scan", "handle", "wait", "closing" or "returned"
  scan,          \* scan[d]: what the current scan shows of device d
  pending,       \* the results of the current scan not handled yet
  seen,          \* the devices handle has reported as seen in this scan
  count,         \* count[c][d]: counter c of device d
  scanFailures,  \* the counter of failed scans
  scans,         \* scans that returned a result so far
  silent,        \* history: silent[d], scans in which d sent no readable state
  cancelled,     \* the root context is done
  queue,         \* what the channel holds, oldest first
  sealed,        \* closeReadings has closed the channel
  writer,        \* where the drain loop is
  writing,       \* the reading being inserted, as a sequence of 0 or 1
  accepted,      \* history: every reading sent on the channel
  handled        \* history: every reading insertVictron has returned for

resultVars == <<scan, pending, seen, scans, silent>>
counterVars == <<count, scanFailures>>
writerVars == <<writer, writing, handled>>
streamVars == <<queue, sealed, writerVars, accepted>>
collectorVars == <<pc, resultVars, counterVars, cancelled>>
vars == <<collectorVars, streamVars>>

Init ==
  /\ pc = "scan"
  /\ scan = [d \in Device |-> "absent"]
  /\ pending = {}
  /\ seen = {}
  /\ count = [c \in Counters |-> [d \in Device |-> 0]]
  /\ scanFailures = 0
  /\ scans = 0
  /\ silent = [d \in Device |-> 0]
  /\ cancelled = FALSE
  /\ queue = <<>>
  /\ sealed = FALSE
  /\ writer = "receive"
  /\ writing = <<>>
  /\ accepted = <<>>
  /\ handled = <<>>

(***************************************************************************)
(* The collector's goroutine.                                              *)
(***************************************************************************)

\* ScanForDevices returns an error.  Not counted once the context is done.
ScanFails ==
  /\ pc = "scan"
  /\ scanFailures < MaxScans
  /\ pc' = "wait"
  /\ scanFailures' = scanFailures + (IF cancelled THEN 0 ELSE 1)
  /\ UNCHANGED <<resultVars, count, cancelled, streamVars>>

\* ScanForDevices returns what it saw; the devices it did not see are missing
\* from the result.
ScanReturns ==
  /\ pc = "scan"
  /\ scans < MaxScans
  /\ pc' = "handle"
  /\ scans' = scans + 1
  /\ seen' = {}
  /\ \E result \in [Device -> Sightings] :
       /\ scan' = result
       /\ pending' = {d \in Device : result[d] # "absent"}
       /\ silent' = [d \in Device |->
            silent[d] +
              IF result[d] \in {"absent", "foreign", "noReadout"} THEN 1 ELSE 0]
  /\ UNCHANGED <<counterVars, cancelled, streamVars>>

\* Faulty variant: a device whose advertisement could not be decrypted is not
\* reported as seen.
SeenIfDecrypted(sighting) ==
  sighting \notin {"absent", "foreign", "noReadout", "keyMismatch"}

\* What handle returns.
Seen(sighting) == sighting \notin {"absent", "foreign", "noReadout"}

\* Faulty variant: the channel takes one reading more than its capacity.
PublishesOverfull(d) ==
  scan[d] = "reading" /\ ~sealed /\ Len(queue) <= BufferSize

Publishes(d) == scan[d] = "reading" /\ ~sealed /\ Len(queue) < BufferSize

\* Faulty variant: a reading that found the queue full goes uncounted.
CounterOfLosesDrops(d) ==
  CASE scan[d] = "unsupported" -> {"unsupported"}
    [] scan[d] = "keyMismatch" -> {"decryptFailures"}
    [] scan[d] = "garbled" -> {"decodeFailures"}
    [] Publishes(d) -> {"readings"}
    [] OTHER -> {}

\* The counter that handle increments, if any.
CounterOf(d) ==
  CASE scan[d] = "unsupported" -> {"unsupported"}
    [] scan[d] = "keyMismatch" -> {"decryptFailures"}
    [] scan[d] = "garbled" -> {"decodeFailures"}
    [] scan[d] = "reading" -> IF Publishes(d) THEN {"readings"} ELSE {"dropped"}
    [] OTHER -> {}

Increment(cs, ds) ==
  count' = [c \in Counters |-> [d \in Device |->
              count[c][d] + IF c \in cs /\ d \in ds THEN 1 ELSE 0]]

\* One result handled, with what becomes of the queue.
HandleSending(d, sent, newQueue) ==
  /\ pc = "handle"
  /\ d \in pending
  /\ pending' = pending \ {d}
  /\ seen' = IF Seen(scan[d]) THEN seen \cup {d} ELSE seen
  /\ Increment(CounterOf(d), {d})
  /\ IF sent
     THEN queue' = newQueue /\ accepted' = Append(accepted, <<d, scans>>)
     ELSE UNCHANGED <<queue, accepted>>
  /\ UNCHANGED <<pc, scan, scans, silent, scanFailures, cancelled, sealed,
                 writerVars>>

\* Faulty variant: a full queue makes the scan loop wait for the writer.
HandleBlocks(d) ==
  /\ scan[d] = "reading" => Publishes(d)
  /\ HandleSending(d, Publishes(d), Append(queue, <<d, scans>>))

\* Faulty variant: what was just sent pushes out the oldest queued reading.
HandleOverwrites(d) ==
  HandleSending(d, scan[d] = "reading",
    Append(IF Publishes(d) THEN queue ELSE Tail(queue), <<d, scans>>))

\* handle for one result, publish included: the send never blocks.
Handle(d) == HandleSending(d, Publishes(d), Append(queue, <<d, scans>>))

\* The last loop of scanOnce: every configured device not seen is missed.
RecordMissed ==
  /\ pc = "handle"
  /\ pending = {}
  /\ pc' = "wait"
  /\ Increment({"missed"}, Device \ seen)
  /\ UNCHANGED <<resultVars, scanFailures, cancelled, streamVars>>

Tick ==
  /\ pc = "wait"
  /\ scans < MaxScans
  /\ pc' = "scan"
  /\ UNCHANGED <<resultVars, counterVars, cancelled, streamVars>>

\* case <-ctx.Done() in Run.
Stop ==
  /\ pc = "wait"
  /\ cancelled
  /\ pc' = "closing"
  /\ UNCHANGED <<resultVars, counterVars, cancelled, streamVars>>

\* Faulty variant: Run returns and leaves its channel open.
CloseForgotten ==
  /\ pc = "closing"
  /\ pc' = "returned"
  /\ UNCHANGED <<resultVars, counterVars, cancelled, streamVars>>

\* The deferred closeReadings; nobody else is publishing.
CloseReadings ==
  /\ pc = "closing"
  /\ sealed' = TRUE
  /\ pc' = "returned"
  /\ UNCHANGED <<resultVars, counterVars, cancelled, queue, writerVars,
                 accepted>>

Work ==
  \/ ScanFails
  \/ ScanReturns
  \/ \E d \in Device : Handle(d)
  \/ RecordMissed
  \/ CloseReadings

(***************************************************************************)
(* The drain goroutine of startVictron.                                    *)
(***************************************************************************)

Receive ==
  /\ writer = "receive"
  /\ queue # <<>>
  /\ writing' = <<Head(queue)>>
  /\ queue' = Tail(queue)
  /\ writer' = "insert"
  /\ UNCHANGED <<collectorVars, sealed, handled, accepted>>

\* insertVictron returns, at the latest after CALLBACK_TIMEOUT, whether or not
\* the row was written; the cancelled root context does not reach it.
Insert ==
  /\ writer = "insert"
  /\ handled' = handled \o writing
  /\ writing' = <<>>
  /\ writer' = "receive"
  /\ UNCHANGED <<collectorVars, queue, sealed, accepted>>

EndOfRangeWhen(condition) ==
  /\ writer = "receive"
  /\ condition
  /\ writer' = "drained"
  /\ UNCHANGED <<collectorVars, queue, sealed, writing, handled, accepted>>

\* Faulty variant: the loop ends when the collector returns, drained or not.
EndWithCollector == EndOfRangeWhen(pc = "returned")

EndOfRange == EndOfRangeWhen(queue = <<>> /\ sealed)

\* done <- <-collectorDone
ReportDone ==
  /\ writer = "drained"
  /\ pc = "returned"
  /\ writer' = "done"
  /\ UNCHANGED <<collectorVars, queue, sealed, writing, handled, accepted>>

Write == Receive \/ Insert \/ EndOfRange \/ ReportDone

Cancel ==
  /\ ~cancelled
  /\ cancelled' = TRUE
  /\ UNCHANGED <<pc, resultVars, counterVars, streamVars>>

Next == Work \/ Tick \/ Stop \/ Write \/ Cancel

SafeSpec == Init /\ [][Next]_vars

\* Scans end, because ScanDuration bounds them.  A select that finds both cases
\* ready chooses at random, so a done context is not passed over forever.
\* Nothing here makes the database answer.
Spec == SafeSpec /\ WF_vars(Work) /\ SF_vars(Stop)

\* The drain goroutine runs and inserts return, with an error after
\* CALLBACK_TIMEOUT at the latest.
DatabaseAnswers == WF_vars(Write)
-----------------------------------------------------------------------------
(***************************************************************************)
(* Properties.                                                             *)
(***************************************************************************)

TypeOK ==
  /\ pc \in {"scan", "handle", "wait", "closing", "returned"}
  /\ scan \in [Device -> Sightings]
  /\ pending \subseteq Device
  /\ seen \subseteq Device
  /\ count \in [Counters -> [Device -> 0 .. MaxScans]]
  /\ scanFailures \in 0 .. MaxScans
  /\ scans \in 0 .. MaxScans
  /\ silent \in [Device -> 0 .. MaxScans]
  /\ cancelled \in BOOLEAN
  /\ queue \in Seq(Reading)
  /\ Len(queue) <= BufferSize
  /\ sealed \in BOOLEAN
  /\ writer \in {"receive", "insert", "drained", "done"}
  /\ writing \in Seq(Reading)
  /\ accepted \in Seq(Reading)
  /\ handled \in Seq(Reading)

\* The missed counter is the one to alert on: between two scans it is the
\* number of scans in which the device sent no readable state, and nothing
\* else.  A wrong key, an unknown record type, a payload that does not parse
\* and a full queue do not touch it, nor does a scan that failed.
MissedMeansSilent ==
  pc # "handle" => \A d \in Device : count["missed"][d] = silent[d]

\* Every scan that returned says exactly one thing about every configured
\* device: its counters add up to the number of such scans.
OneVerdictPerScan ==
  pc # "handle" =>
    \A d \in Device :
      count["missed"][d] + count["unsupported"][d] + count["decryptFailures"][d]
        + count["decodeFailures"][d] + count["dropped"][d]
        + count["readings"][d] = scans

\* startVictron's done channel reports only when the collector has returned
\* and every reading it counted as published has been through insertVictron.
DoneMeansDrained ==
  writer = "done" =>
    /\ pc = "returned"
    /\ \A d \in Device :
         count["readings"][d] =
           Cardinality({i \in DOMAIN handled : handled[i][1] = d})

\* SIGTERM reaches the collector between scans and, in the end, its drain loop,
\* if inserts return.
ShutdownCompletes == DatabaseAnswers => (cancelled ~> writer = "done")

\* A scan's results are handled without waiting for the database, even one
\* that never answers again: publish does not block the scan loop.
ScanLoopNeverWaits == pc = "handle" ~> pc = "wait"

Stage ==
  IF writer \in {"drained", "done"} THEN "ended"
  ELSE IF sealed THEN "sealed" ELSE "open"

Stream == INSTANCE ReadingStream
            WITH Capacity <- BufferSize + 1, stage <- Stage

\* The collector's queue and drain loop keep the same promise as the battery
\* manager's: bounded, in order, once each, ended only when run dry, and run
\* dry in the end if inserts return.
ImplementsStream == Stream!SafeSpec /\ (DatabaseAnswers => Stream!Fairness)
=============================================================================
