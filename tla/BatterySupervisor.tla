------------------------- MODULE BatterySupervisor -------------------------
(***************************************************************************)
(* Manager.Run and one superviseBattery goroutine per battery              *)
(* (internal/litime/manager.go): resolve, connect, poll, disconnect, sleep *)
(* with a growing backoff, until the context is cancelled; then the wait   *)
(* group lets Run close the readings.                                      *)
(*                                                                         *)
(* All batteries, the startup scan and the Victron collector share one     *)
(* radio: the Bluetooth library lets one of them scan or connect at a time *)
(* on an adapter.  The library itself is external.                         *)
(***************************************************************************)
EXTENDS Integers, FiniteSets

CONSTANTS
  Battery,     \* the configured batteries
  ByName,      \* those matched by name, which have to be scanned for
  MinBackoff,  \* minReconnectBackoff
  MaxBackoff,  \* maxReconnectBackoff
  MaxMishaps,  \* bound: how often a battery vanishes, its polling fails or a
               \* double of it turns up
  Free,        \* the radio is idle
  Startup,     \* the radio is used by Run's own scan
  Victron      \* the radio is used by the Victron collector

ASSUME ByNameAssumption == ByName \subseteq Battery

ASSUME BackoffAssumption ==
  /\ MinBackoff \in Nat \ {0}
  /\ MaxBackoff \in Nat
  /\ MinBackoff <= MaxBackoff

ASSUME RadioAssumption ==
  /\ Free \notin Battery \cup {Startup, Victron}
  /\ Startup \notin Battery \cup {Victron}
  /\ Victron \notin Battery

ASSUME MishapsAssumption == MaxMishaps \in Nat

VARIABLES
  run,         \* where Manager.Run is
  closed,      \* closeReadings has closed the stream
  cancelled,   \* the root context is done
  pc,          \* pc[b]: where the goroutine of battery b is
  address,     \* address[b]: whose address b's goroutine has: none yet, the
               \* battery's "own", or that of a "double" of the same name
  backoff,     \* backoff[b]: how long b's next sleep is
  link,        \* the batteries this process holds a connection to
  gauge,       \* gauge[b]: the connected gauge: 1 (up), 0 (down) or never recorded
  connects,    \* connects[b]: connections established
  reconnects,  \* reconnects[b]: the reconnect counter
  radio,       \* who is scanning or connecting
  answering,   \* environment: the batteries in range that answer
  doubles,     \* environment: the names a second device in range advertises
  mishaps      \* environment: mishaps so far, up to MaxMishaps

metricVars == <<gauge, connects, reconnects>>
goroutineVars == <<pc, address, backoff, link, metricVars>>
envVars == <<answering, doubles, mishaps>>
outsideVars == <<run, closed, cancelled, envVars>>
vars == <<goroutineVars, radio, outsideVars>>

Init ==
  /\ run = "start"
  /\ closed = FALSE
  /\ cancelled = FALSE
  /\ pc = [b \in Battery |-> "off"]
  /\ address = [b \in Battery |-> "none"]
  /\ backoff = [b \in Battery |-> MinBackoff]
  /\ link = {}
  /\ gauge = [b \in Battery |-> "unset"]
  /\ connects = [b \in Battery |-> 0]
  /\ reconnects = [b \in Battery |-> 0]
  /\ radio = Free
  /\ answering \in SUBSET Battery
  /\ doubles = {}
  /\ mishaps = 0

Goto(b, label) == pc' = [pc EXCEPT ![b] = label]

(***************************************************************************)
(* resolveAddresses.  Every call looks for all configured names at once,   *)
(* and the library ends a scan early when it has met as many devices as    *)
(* there are names (ScanWithTargetCount).  A scan may miss anything.       *)
(***************************************************************************)

Advertising == ((ByName \cap answering) \X {"own"}) \cup (doubles \X {"double"})

ScanResults ==
  {heard \in SUBSET Advertising : Cardinality(heard) <= Cardinality(ByName)}

\* The scans that miss nothing they had the time to meet: they hear everything
\* there is, or end at the target count before that.
CompleteScans ==
  {heard \in ScanResults :
     heard = Advertising \/ Cardinality(heard) = Cardinality(ByName)}

\* Two devices that answer to one name cannot be told apart: the whole
\* resolution fails.
Ambiguous(heard) == \E b \in ByName : {b} \X {"own", "double"} \subseteq heard

Resolved(heard) ==
  [b \in {h[1] : h \in heard} |-> (CHOOSE h \in heard : h[1] = b)[2]]

\* The resolution goes through and has an address for b.
Finds(heard, b) == ~Ambiguous(heard) /\ b \in DOMAIN Resolved(heard)

\* What a scan that returns addresses can return.
Resolutions == {Resolved(heard) : heard \in {h \in ScanResults : ~Ambiguous(h)}}

\* The device that b's goroutine has the address of is there and answers.
Answers(b) == IF address[b] = "double" THEN b \in doubles ELSE b \in answering

(***************************************************************************)
(* Run: the startup resolveAddresses, the goroutines, wg.Wait and the      *)
(* deferred closeReadings.                                                 *)
(***************************************************************************)

\* Addresses need no scan; with nothing to look up by name the radio is left
\* alone.  Each parses, because ParseBatteries has parsed it before, so that
\* the error return for one that does not is never taken.
ResolveByAddress ==
  /\ run = "start"
  /\ address' = [b \in Battery |-> IF b \in ByName THEN "none" ELSE "own"]
  /\ run' = IF ByName = {} THEN "supervising" ELSE "scan"
  /\ UNCHANGED <<closed, cancelled, pc, backoff, link, metricVars, radio,
                 envVars>>

StartupTakeRadio ==
  /\ run = "scan"
  /\ radio = Free
  /\ radio' = Startup
  /\ run' = "scanning"
  /\ UNCHANGED <<closed, cancelled, goroutineVars, envVars>>

StartupScanEnds ==
  /\ run = "scanning"
  /\ radio' = Free
  /\ run' = "supervising"
  /\ \E found \in Resolutions :
       address' = [b \in Battery |->
                     IF b \in DOMAIN found THEN found[b] ELSE address[b]]
  /\ UNCHANGED <<closed, cancelled, pc, backoff, link, metricVars, envVars>>

\* The scan returns an error, or finds one name twice: Run gives up.
StartupScanFails ==
  /\ run = "scanning"
  /\ radio' = Free
  /\ run' = "failed"
  /\ UNCHANGED <<closed, cancelled, goroutineVars, envVars>>

Launch(b) ==
  /\ run = "supervising"
  /\ pc[b] = "off"
  /\ Goto(b, "top")
  /\ UNCHANGED <<address, backoff, link, metricVars, radio, outsideVars>>

WaitUntil(condition) ==
  /\ run = "supervising"
  /\ condition
  /\ run' = "waited"
  /\ UNCHANGED <<closed, cancelled, goroutineVars, radio, envVars>>

\* Faulty variant: Run does not wait for the goroutines it has started.
WaitsForNobody == WaitUntil(cancelled)

WaitGroupDone == WaitUntil(\A b \in Battery : pc[b] = "done")

\* The deferred closeReadings runs on both of Run's ways out.
CloseReadings ==
  /\ run \in {"waited", "failed"}
  /\ closed' = TRUE
  /\ run' = "returned"
  /\ UNCHANGED <<cancelled, goroutineVars, radio, envVars>>

RunSteps ==
  \/ ResolveByAddress
  \/ StartupTakeRadio
  \/ StartupScanEnds
  \/ StartupScanFails
  \/ WaitGroupDone
  \/ CloseReadings

(***************************************************************************)
(* superviseBattery.                                                       *)
(***************************************************************************)

\* The loop condition, and the branch on haveAddress.
LoopTop(b) ==
  /\ pc[b] = "top"
  /\ Goto(b, IF cancelled THEN "done"
             ELSE IF address[b] = "none" THEN "scan" ELSE "connect")
  /\ UNCHANGED <<address, backoff, link, metricVars, radio, outsideVars>>

TakeRadio(b) ==
  /\ pc[b] \in {"scan", "connect"}
  /\ radio = Free
  /\ radio' = b
  /\ Goto(b, IF pc[b] = "scan" THEN "scanning" ELSE "connecting")
  /\ UNCHANGED <<address, backoff, link, metricVars, outsideVars>>

\* The rescan finds the battery, or what passes for it: the code goes on to
\* connect without another look at the context, and never resolves again.
ScanFinds(b, heard) ==
  /\ pc[b] = "scanning"
  /\ Finds(heard, b)
  /\ radio' = Free
  /\ address' = [address EXCEPT ![b] = Resolved(heard)[b]]
  /\ Goto(b, "connect")
  /\ UNCHANGED <<backoff, link, metricVars, outsideVars>>

ScanMissThen(b, label) ==
  /\ pc[b] = "scanning"
  /\ radio' = Free
  /\ Goto(b, label)
  /\ UNCHANGED <<address, backoff, link, metricVars, outsideVars>>

\* Faulty variant: a battery that is not found is given up.
ScanMissGivesUp(b) == ScanMissThen(b, "done")

\* The rescan fails, finds some name twice, or does not see the battery: sleep
\* and retry.
ScanMisses(b) == ScanMissThen(b, "sleep")

ConnectSucceeds(b) ==
  /\ pc[b] = "connecting"
  /\ Answers(b)
  /\ radio' = Free
  /\ link' = link \cup {b}
  /\ connects' = [connects EXCEPT ![b] = @ + 1]
  /\ Goto(b, "connected")
  /\ UNCHANGED <<address, backoff, gauge, reconnects, outsideVars>>

\* Connect returns an error, for any reason at any time.
ConnectFails(b) ==
  /\ pc[b] = "connecting"
  /\ radio' = Free
  /\ gauge' = [gauge EXCEPT ![b] = "down"]
  /\ Goto(b, "sleep")
  /\ UNCHANGED <<address, backoff, link, connects, reconnects, outsideVars>>

ConnectedWith(b, wait) ==
  /\ pc[b] = "connected"
  /\ gauge' = [gauge EXCEPT ![b] = "up"]
  /\ backoff' = [backoff EXCEPT ![b] = wait]
  /\ Goto(b, "poll")
  /\ UNCHANGED <<address, link, connects, reconnects, radio, outsideVars>>

\* Faulty variant: the backoff is left where the failures had driven it.
RecordConnectedKeepsBackoff(b) == ConnectedWith(b, backoff[b])

RecordConnected(b) == ConnectedWith(b, MinBackoff)

PollUntil(b, condition) ==
  /\ pc[b] = "poll"
  /\ condition
  /\ Goto(b, "disconnect")
  /\ UNCHANGED <<address, backoff, link, metricVars, radio, outsideVars>>

\* Faulty variant: the polling loop has no case for the cancelled context.
PollIgnoresCancel(b) == PollUntil(b, ~Answers(b))

\* pollUntilStale returns: the device is silent, or the context is done.
PollEnds(b) == PollUntil(b, ~Answers(b) \/ cancelled)

\* pollUntilStale returns although the battery is there: QueryData failed, or
\* the check found lastSeen too old (StaleDetection says when).
QueryFails(b) ==
  /\ pc[b] = "poll"
  /\ mishaps < MaxMishaps
  /\ mishaps' = mishaps + 1
  /\ Goto(b, "disconnect")
  /\ UNCHANGED <<run, closed, cancelled, address, backoff, link, metricVars,
                 radio, answering, doubles>>

DisconnectAndShow(b, shown) ==
  /\ pc[b] = "disconnect"
  /\ link' = link \ {b}
  /\ gauge' = [gauge EXCEPT ![b] = shown]
  /\ Goto(b, "lost")
  /\ UNCHANGED <<address, backoff, connects, reconnects, radio, outsideVars>>

\* Faulty variant: the gauge is only taken down when the battery was lost.
DisconnectKeepsGauge(b) ==
  DisconnectAndShow(b, IF cancelled THEN gauge[b] ELSE "down")

Disconnect(b) == DisconnectAndShow(b, "down")

LostCounting(b, counted) ==
  /\ pc[b] = "lost"
  /\ Goto(b, IF cancelled THEN "done" ELSE "sleep")
  /\ reconnects' = [reconnects EXCEPT ![b] = @ + IF counted THEN 1 ELSE 0]
  /\ UNCHANGED <<address, backoff, link, gauge, connects, radio, outsideVars>>

\* Faulty variant: a connection given up for shutdown counts as lost.
LostCountsShutdown(b) == LostCounting(b, TRUE)

\* The look at the context after Disconnect, and recordReconnect.
Lost(b) == LostCounting(b, ~cancelled)

\* Faulty variant: doubling without the cap.
NextBackoffUncapped(current) == current * 2

NextBackoff(current) ==
  IF current * 2 > MaxBackoff THEN MaxBackoff ELSE current * 2

SleepElapses(b) ==
  /\ pc[b] = "sleep"
  /\ backoff' = [backoff EXCEPT ![b] = NextBackoff(@)]
  /\ Goto(b, "top")
  /\ UNCHANGED <<address, link, metricVars, radio, outsideVars>>

SleepCancelled(b) ==
  /\ pc[b] = "sleep"
  /\ cancelled
  /\ Goto(b, "done")
  /\ UNCHANGED <<address, backoff, link, metricVars, radio, outsideVars>>

\* The steps of a supervisor that need no luck and no radio.
Proceed(b) ==
  \/ Launch(b)
  \/ LoopTop(b)
  \/ RecordConnected(b)
  \/ PollEnds(b)
  \/ Disconnect(b)
  \/ Lost(b)
  \/ SleepElapses(b)
  \/ SleepCancelled(b)

\* What a scan or a connection attempt comes to.
Attempt(b) ==
  \/ \E heard \in ScanResults : ScanFinds(b, heard)
  \/ ScanMisses(b)
  \/ ConnectSucceeds(b)
  \/ ConnectFails(b)

Supervise(b) == Proceed(b) \/ TakeRadio(b) \/ Attempt(b) \/ QueryFails(b)

(***************************************************************************)
(* The world: the signal, the other user of the radio, batteries that come *)
(* and go.                                                                 *)
(***************************************************************************)

Cancel ==
  /\ ~cancelled
  /\ cancelled' = TRUE
  /\ UNCHANGED <<run, closed, goroutineVars, radio, envVars>>

VictronScan ==
  /\ \/ radio = Free /\ ~cancelled /\ radio' = Victron
     \/ radio = Victron /\ radio' = Free
  /\ UNCHANGED <<goroutineVars, outsideVars>>

Appears(b) ==
  /\ b \notin answering
  /\ answering' = answering \cup {b}
  /\ UNCHANGED <<run, closed, cancelled, goroutineVars, radio, doubles,
                 mishaps>>

Vanishes(b) ==
  /\ b \in answering
  /\ mishaps < MaxMishaps
  /\ mishaps' = mishaps + 1
  /\ answering' = answering \ {b}
  /\ UNCHANGED <<run, closed, cancelled, goroutineVars, radio, doubles>>

\* A second device that advertises the name of b comes into range.
DoubleAppears(b) ==
  /\ b \in ByName \ doubles
  /\ mishaps < MaxMishaps
  /\ mishaps' = mishaps + 1
  /\ doubles' = doubles \cup {b}
  /\ UNCHANGED <<run, closed, cancelled, goroutineVars, radio, answering>>

DoubleVanishes(b) ==
  /\ b \in doubles
  /\ doubles' = doubles \ {b}
  /\ UNCHANGED <<run, closed, cancelled, goroutineVars, radio, answering,
                 mishaps>>

World ==
  \/ Cancel
  \/ VictronScan
  \/ \E b \in Battery :
       \/ Appears(b)
       \/ Vanishes(b)
       \/ DoubleAppears(b)
       \/ DoubleVanishes(b)

Next == RunSteps \/ (\E b \in Battery : Supervise(b)) \/ World

SafeSpec == Init /\ [][Next]_vars

VictronReleases == radio = Victron /\ VictronScan

\* A rescan that misses nothing ends for b as resolveAddresses decides.
CompleteScan(b) ==
  \E heard \in CompleteScans :
    IF Finds(heard, b) THEN ScanFinds(b, heard) ELSE ScanMisses(b)

\* Goroutines run, scans and connection attempts end (both are bounded by
\* timeouts), and the library's lock starves nobody (Go's mutexes hand over
\* in order under contention).  Disconnect and QueryData return: they take
\* neither a context nor a timeout, so the code rests on the library here.
\* Of the scans that b's goroutine makes, not every one misses something, and
\* an attempt on a battery that answers does not fail forever.  That a complete
\* scan finds b is not assumed.
Fairness ==
  /\ WF_vars(RunSteps)
  /\ SF_vars(StartupTakeRadio)
  /\ WF_vars(VictronReleases)
  /\ \A b \in Battery :
       /\ WF_vars(Proceed(b))
       /\ SF_vars(TakeRadio(b))
       /\ WF_vars(Attempt(b))
       /\ SF_vars(CompleteScan(b))
       /\ SF_vars(ConnectSucceeds(b))

Spec == SafeSpec /\ Fairness
-----------------------------------------------------------------------------
(***************************************************************************)
(* Properties.                                                             *)
(***************************************************************************)

TypeOK ==
  /\ run \in {"start", "scan", "scanning", "supervising", "failed", "waited",
              "returned"}
  /\ closed \in BOOLEAN
  /\ cancelled \in BOOLEAN
  /\ pc \in [Battery -> {"off", "top", "scan", "scanning", "connect",
                         "connecting", "connected", "poll", "disconnect",
                         "lost", "sleep", "done"}]
  /\ address \in [Battery -> {"none", "own", "double"}]
  /\ backoff \in [Battery -> MinBackoff .. MaxBackoff]
  /\ link \subseteq Battery
  /\ gauge \in [Battery -> {"unset", "down", "up"}]
  /\ connects \in [Battery -> Nat]
  /\ reconnects \in [Battery -> Nat]
  /\ radio \in Battery \cup {Free, Startup, Victron}
  /\ answering \subseteq Battery
  /\ doubles \subseteq ByName
  /\ mishaps \in 0 .. MaxMishaps

\* When the stream of readings ends, every goroutine that Run started is gone,
\* no connection is left open and no battery is still shown as connected, at
\* whatever step of connecting or polling the shutdown caught it.
NothingLeftConnected ==
  closed =>
    /\ link = {}
    /\ \A b \in Battery : pc[b] \in {"off", "done"} /\ gauge[b] # "up"

\* Each connection ever made is accounted for: it was counted as lost once, or
\* still stands, or was given up because the process is shutting down.  And
\* each loss has a cause, which a shutdown is not.
LossesCounted ==
  \A b \in Battery :
    /\ connects[b] - reconnects[b] \in
         CASE pc[b] \in {"connected", "poll", "disconnect", "lost"} -> {1}
           [] pc[b] = "done" -> {0, 1}
           [] OTHER -> {0}
    /\ reconnects[b] <= mishaps

\* The backoff follows the outage: it shrinks only on an open connection, and
\* the first retry after a loss waits the shortest time, however many failures
\* came before the connection that was lost.
BackoffFollowsOutage ==
  [][\A b \in Battery :
       /\ backoff'[b] < backoff[b] => b \in link
       /\ pc[b] = "lost" /\ pc'[b] = "sleep" => backoff'[b] = MinBackoff]_vars

\* SIGTERM gets through: wherever the supervisors are, in a sleep, in a queue
\* for the radio, connecting or polling, the stream is closed in the end.
ShutdownCompletes == cancelled ~> closed

\* One flat or out-of-range battery never stalls the rest, and one that shows
\* up late is found: a battery that answers from some time on is being polled
\* again and again, whatever the other batteries and the Victron collector do.
\* It takes an end of doubles, and none of this battery's own: while any name
\* is on the air twice, a scan that meets both devices fails for every battery.
FlatBatteryNeverStallsOthers ==
  \A b \in Battery :
    <>[](b \in answering /\ doubles = {} /\ ~cancelled) /\ [](b \notin doubles)
      => <>(run = "failed") \/ []<>(pc[b] = "poll")

(***************************************************************************)
(* What the documentation says, and the code does otherwise.               *)
(***************************************************************************)

\* resolveAddresses: "picking arbitrarily would attribute readings to the
\* wrong battery", and README.md: "Startup fails [...] if more than one device
\* answers to a configured name."  So a name is never resolved to another
\* device while the battery that was meant is there as well.
NamesAreNeverGuessed ==
  [][\A b \in ByName :
       address[b] = "none" /\ address'[b] = "double" => b \notin answering]_vars
=============================================================================
