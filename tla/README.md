# TLA+ specifications of litime-timescaledb-inserter

The program keeps a Bluetooth connection to every configured LiTime battery,
asks each for a reading on an interval, listens for Victron advertisements on
the same radio, and writes everything to TimescaleDB.  This directory models
its concurrent core, checks it with TLC and proves its safety with TLAPS.
Paths below are relative to the repository's root; `manager.go` is
`internal/litime/manager.go`, `collector.go` is `internal/victron/collector.go`,
`main.go` and `victron.go` are in `cmd/litime-timescaledb-inserter/`.

    tlc -config MCReadingQueue.cfg MCReadingQueue      # any run: config, module
    tlapm ReadingQueueProofs.tla

## The system

| Component | State | Operations | Talks to |
| --- | --- | --- | --- |
| Battery reading queue (`manager.go`, `main.go`) | channel `readings`, `closeMu`, `closed`, drop counters | `handleNotification`, `publish`, `closeReadings`, `for range` + `insert` | Bluetooth dispatch goroutines call in; main's goroutine drains; `Run` closes |
| Battery supervision (`manager.go`) | per battery: address, backoff, client; gauge and counters | `Run`, `superviseBattery`, `sleep`, `nextBackoff` | the radio (shared), the queue (through `closeReadings`), the root context |
| Stale detection (`manager.go`) | `lastSeen` of a connection, ticker | `connect`, `handleNotification`, `pollUntilStale` | supervision (its verdict), callbacks |
| Address resolution (`manager.go`) | none; its result is each supervisor's address | `resolveAddresses` | supervision, radio |
| Victron collector (`collector.go`, `victron.go`) | channel, `closed`, per-device counters | `Run`, `scanOnce`, `handle`, `publish`, `closeReadings`, the drain goroutine | radio, database, main through `done` |
| Process lifecycle (`main.go`, `victron.go`) | main's position, `managerDone`, `victronDone`, database pool | startup, drain loop, the two waits, exit | everything |
| Battery and device configuration (`battery.go`, `device.go`) | none | `ParseBatteries`, `ParseDevices` | startup |
| Row mapping (`timescale.go`, `victron.go`) | none | `Insert*`, `auxValue` | database |
| Adapter selection, metrics instruments, env config, logging | none of their own | | |

What is hard in it:

* The Bluetooth stack's notification goroutine outlives `Disconnect`, so a
  callback can be at any point of `publish` while `Run` closes the channel.  A
  send on a closed channel is a panic; a send that waits stalls the stack.
* The context can be cancelled while a supervisor sleeps, queues for the radio,
  scans, connects, polls or disconnects.
* Silence is the only sign that a battery is gone.  It is measured right after
  a query, with a clock started before a connection attempt that may have had
  to wait, and notifications of an earlier connection may still arrive.
* The supervisors, the startup scan and the Victron scans share one radio.
* A slow database fills the queues.  Shutdown has to empty them, with two
  pipelines whose ends main awaits one after the other.
* A rescan for one battery looks for the names of all of them, and one name that
  two devices advertise makes it fail for all, as long as it meets both.
* The configuration is two maps and a map of keys, ranged over in random order
  with an exit at the first mistake.
* Columns, arguments and struct fields agree by position only, and "not
  available" has to stay apart from zero through three conversions.
* Counters are the only evidence of what went wrong, so each reading, scan and
  loss has to be counted once and under the right name.

What makes each component correct:

* *Reading queue*: no send on the closed channel, no callback that waits, every
  reading delivered once and in order or counted as dropped, and never both; the
  consumer's loop ends after the close, with nothing left behind.
* *Supervision*: shutdown leaves no connection and no gauge behind and always
  completes; losses are counted once; the backoff grows through an outage and
  starts over after one; a flat battery never stalls another.
* *Stale detection*: a silent connection ends within a known time; a battery
  that had no chance to answer is not blamed.
* *Victron collector*: `missed` means silence and nothing else; every scan says
  one thing of every device; `done` means drained.
* *Configuration*: the verdict does not depend on the map order, no device is
  configured twice, and options that are accepted can work.
* *Rows*: every column has its field, and two readings that differ make rows that
  differ.
* *Process*: a clean exit leaves nothing unwritten; a signal or an error of the
  manager ends the process.

`PROJECT.json` lists the components, the hazards at their lines, and for every
definition the lines it translates.

## The modules

| Module | What it is |
| --- | --- |
| `ReadingStream` | abstract: what the path from a callback to the database promises |
| `ReadingQueue` | battery pipeline: callbacks, lock, channel, writer; implements `ReadingStream` |
| `BatterySupervisor` | `Run`, address resolution and the supervisors, on a shared radio |
| `StaleDetection` | one battery's connection and polling, with time |
| `VictronCollector` | Victron pipeline; implements `ReadingStream` |
| `RecordMapping` | from a reading to the row of one of the three tables |
| `Configuration` | the two parsers and the option checks, in main's order |
| `InserterProcess` | main over two instances of `ReadingStream` |
| `MC*` | the instances TLC checks |
| `ReadingQueueProofs`, `BatterySupervisorProofs`, `StaleDetectionProofs`, `VictronCollectorProofs`, `RecordMappingProofs`, `ConfigurationProofs`, `InserterProcessProofs` | TLAPS proofs about the module of the name |
| `StreamLemmas` | facts about sequences that both pipelines' proofs use |

Definitions called "faulty variant" are not part of any behaviour.  Each is an
action or operator with a plausible mistake in it, put in place of the correct
one to see that the property it endangers notices (`PROJECT.json`, `mutants`).

### ReadingQueue

| Model | Code |
| --- | --- |
| `NotificationMalformed`, `NotificationParsed` | the head of `handleNotification` |
| `PublishLock`, `PublishCheckClosed`, `PublishSelect`, `PublishReturn` | `publish` step by step: `RLock`, the look at `closed`, the `select`, the deferred `RUnlock` with the `switch` on the result |
| `CloseRequest` ... `CloseUnlock` | `closeReadings`: asking for the write lock, getting it, `closed = true`, `close`, unlock |
| `Receive`, `Insert`, `EndOfRange` | main's range loop and `insert` |
| `rlocked`, `closer` | `closeMu`, with the rule of Go's `RWMutex` that a waiting writer keeps new readers out |
| `panicked` | a goroutine reached the send with the channel closed |

Each value of `Reading` is one notification.  What it contains does not matter
to any property.  The counters are sets of notifications rather than numbers,
so that a property can say which reading each counted: `malformed`
(`recordParseFailure`), `notified` (`recordNotification`), `full`
(`recordDropped`), `failed` (`insertErrors`); `late` is not counted by the code.
`OneVerdictPerReading` is the balance of these books.  `accepted` and `handled` are history variables; nothing reads
them but `Arrived`, which makes every notification arrive once.

### BatterySupervisor

`pc[b]` follows the loop of `superviseBattery`, with a step for every call that
can take time or fail and one for every look at the context.  `Run` is the
variable `run`.  The radio is external: the library lets one scan or connection
attempt at a time use an adapter, which is the variable `radio`.  A battery is
in `answering` or not; it comes (`Appears`) and goes (`Vanishes`) as it likes.
`ConnectFails` and `ScanMisses` can happen to a battery that answers too.
The gauge has three values because a gauge that was never recorded does not
exist for a scraper: a battery matched by name that has not been found sleeps and
retries without `recordConnected`, so it has no gauge rather than a 0.

`resolveAddresses` is modelled with its matching.  `Advertising` is what is on
the air: the batteries that answer and, in `doubles`, second devices that have
the name of one.  A scan returns any part of it, but no more devices than there
are names, because `ScanWithTargetCount(len(names))` ends it then (`ScanResults`);
it fails as a whole if it met one name twice (`Ambiguous`); otherwise each name
found gets the address of the device that was met (`Resolved`).  `address[b]`
says whose address the goroutine of `b` has: none yet, the battery's `"own"`, or
that of a `"double"`.  It is never resolved again.  The error return for an
address that does not parse (`manager.go:184`) is left out: `ParseBatteries` has
parsed it before.

### StaleDetection

Clocks are ages.  `Pass` is one unit of time; it cannot pass while the goroutine
has something to do at once.  `ConnectTime` and `QueryTime` bound the two calls
into the library; `ConnectTime` includes waiting for the radio.  A query may be
longer than the scrape interval: the ticker then keeps one tick for after it.  `Notification`
has two parameters: whether it belongs to the present connection, and whether it
parses.  `unanswered`, `quiet` and `verdict` are history variables that the
properties use to speak of what the battery did, as opposed to what the code
measured.

### VictronCollector

`Sightings` are the ways in which `handle` can end, each by one of its returns.
A scan result is any function from devices to sightings; results are handled in
any order.  `Handle` is the whole of `handle` with `publish`: the collector runs
on one goroutine and closes its own channel, so there is no race to split it
for.  `silent` is a history variable that counts what `missed` is meant to count.

### RecordMapping

A Go field goes by the name of its column, so that a row can be compared with its
reading.  What the devices can report is a constant per kind (`LitimeData`,
`SolarChargers`, `BatteryMonitors`), with the shape the libraries' structs have as
an assumption.  The lists of columns are those of the `.pgsql` files, the lists of
arguments those of the `Exec` calls, and `Row` joins them by position as `$1`,
`$2`, ... do.  `Joined` is how a measurement takes fields from a reading and its
payload.  The conversions are modelled by what they do: `Converted` (with `Int32`
and `Int16`), `Minutes`, `AlarmText`, `AuxValue`, `MapCellVoltages`.  The state is the reading a writer
has received and the row it makes of it; there is one action per kind of reading
(`Insert`, `InsertSolarCharger`, `InsertBatteryMonitor`), the dispatch of
`insertVictron` in their guards.  `ReadBack` is the other way: what somebody who
has only the row can tell of the fields that were converted.  When inserts happen,
and whether they succeed, is in the two pipelines.

### Configuration

A text from the environment is a pair of what is left after `TrimSpace` and
whether there were blanks around it.  `RangeBatteries` and `RangeDevices` are one
round of the parsers' loops each, for any entry not ranged over yet: this is Go's
random map order.  The tests of one round are joined in one condition, as nothing
happens between them but an error.  `AddressOf` maps spellings to addresses, for
`ParseBatteries` compares texts and `ParseDevices` normalised addresses.
The fallback of `ParseBatteries` (`UseFallback`) may be any text that is not empty:
it is neither trimmed nor tried as an address.  `DeviceVerdict` does not repeat the
lookups of `ParseDevices`: it says what they are for, with a key naming a device if
their IDs are the same text without blanks.
`NewManager` and `NewCollector` are operators from the given options to those in
use, or to none; `options` holds them from when the manager or the collector is
built.  The stages follow main: batteries, database, manager, devices,
collector.

### InserterProcess

`main` follows `main.go` from startup to exit.  The two pipelines are instances
of `ReadingStream` (`Batteries`, `Chargers`), which stand for `ReadingQueue` and
`VictronCollector` because those implement it.  `os.Exit(1)` is `Abort`: it ends
the process with goroutines and deferred calls where they are.

## The runs

| Run | Shows |
| --- | --- |
| `reading_queue` | two callbacks race each other, the close and the writer: `NeverSendsOnClosed`, `DeliveredInOrder`, `OneVerdictPerReading`; `CallbackReturns` without any assumption on the database; `ShutdownDrains` and `ImplementsStream` (safety always, liveness if inserts return) |
| `battery_supervisor` | `NothingLeftConnected`, `LossesCounted`, `BackoffFollowsOutage` with a cancellation at any step; `ShutdownCompletes`, `FlatBatteryNeverStallsOthers`, the latter once no name is on the air twice |
| `stale_detection` | `SilenceIsDetected`, `StaleAfterUnansweredQuery`, `SilentConnectionEnds` |
| `victron_collector` | `MissedMeansSilent`, `OneVerdictPerScan`, `DoneMeansDrained`; `ScanLoopNeverWaits` without any assumption on the database; `ShutdownCompletes` and `ImplementsStream` |
| `record_mapping` | `TypeOK` (the numbers fit their columns), `EveryColumnItsField`, `RowsLoseNothing` |
| `configuration` | `BatteryVerdict`, `DeviceVerdict`, `NoDeviceTwice`, `AcceptedOptionsWork` |
| `inserter_process` | `CleanExitLeavesNothing`, `BatteryReadingsNeverAbandoned`, `SignalEndsProcess`, `ManagerErrorEndsProcess` |
| `battery_supervisor_names`, `stale_detection_slow_connect`, `inserter_process_victron`, `configuration_batteries`, `configuration_keys` | the five disagreements below; TLC finds a counterexample |

Deadlock is not checked where the system may stop: after shutdown, or when the
bounded environment has nothing left to offer.  `stale_detection` never stops,
and there it is checked.

### Bounds, and why they are enough

* Two dispatchers are enough for two callbacks to race each other and the close.
  Four readings against a channel of two let the channel fill, empty and refuse.
  What TLC finds for these sizes is proved for all (below), except
  liveness; so it is for every bound in this list.
* Two batteries, both matched by name: one that is matched by address behaves like
  one whose name was resolved at startup, and two names are what it takes for a
  scan to meet one of them twice, fail for both, and go through once the double is
  gone.  The run
  `battery_supervisor_names` has one of each kind.  `MaxMishaps` (1) bounds how
  often a battery vanishes, is given up although it is there, or a second device
  of its name appears; failing connection attempts and scans are not bounded, nor
  is how late a battery shows up, so outages of any length occur without a
  mishap.  Backoffs 2 and 3 include a doubling that is cut off, as 5 s, ..., 5 min
  do.
* Interval 3, timeout 11, connecting up to 4, a query up to 4: ticks, timeouts and
  the end of a query fall together and apart, a query can outlast the interval, and
  the timeout is the shortest that `StaleAfterUnansweredQuery` speaks of.
* Two devices, two scans, all seven sightings, a queue of one: a second reading
  finds the queue full.
* Two IDs and a blank one, each with and without blanks around it; one address in
  two spellings, a second address and a name; one valid key and one that is not;
  up to two entries per variable, which is what a pair of entries in conflict
  takes.  Option values lie on both sides of every default and limit.
* In the rows, numbers are not available, 0 or 1, times to go none, 0, one and 99
  minutes, model IDs the ends of `uint16`, record types 1 and 255, with every kind
  of aux input; batteries have four, two or no cells.
* Two readings, capacity two, up to `MaxAccept` accepted per pipeline.

### Fairness

* A goroutine that can take a step does (weak fairness of `Publish`, `Close`,
  `Proceed`, `RunSteps`, `Work`, `Main`).
* Inserts return, because each has its own `CALLBACK_TIMEOUT`: `DatabaseAnswers`.
  It is an assumption of the properties that need it and of no other;
  `CallbackReturns` and `ScanLoopNeverWaits` do without.
* Scans and connection attempts end: both are given a timeout.
* `QueryData` (`manager.go:410`) and `Disconnect` (`manager.go:298`) return.  They
  are given neither a context nor a timeout, so this is taken on trust from the
  library; a supervisor that is stuck in one of them keeps `Run` from returning, and
  `ShutdownCompletes` says nothing of that.  It is part of the weak fairness of
  `Proceed`, in which the steps after the two calls are.
* The radio's lock starves nobody (strong fairness of `TakeRadio`): it is a Go
  mutex, which passes to the longest waiter under contention.
* `FlatBatteryNeverStallsOthers` also assumes that of a supervisor's scans not all
  miss something that is on the air (strong fairness of `CompleteScan`), and that
  attempts on a battery that answers do not all fail (`ConnectSucceeds`).  That is
  about the world, not about the code.  A complete scan is one that hears all there
  is or ends at the target count; what comes of it is for `resolveAddresses` to
  decide, and that it finds the battery is not assumed.  It does not, as long as it
  meets some name twice: the property therefore speaks of the time after the last
  double has gone, and of a battery whose own name was never another's.
* A `select` with two ready cases picks at random, so `ctx.Done()` is not passed
  over forever (strong fairness of `Stop`).
* Nothing makes a notification, a battery, a signal or an error happen.

## What is proved

Every invariant that a passing run checks, the action property
`BackoffFollowsOutage`, and the safety half of both refinements are theorems:
TLAPS checks them for every value of the constants that meets the assumptions
named in the modules.  Each proof module has one inductive invariant, `IInv`, and
one lemma per part of it; most parts say where a goroutine must be for a fact to
hold, which is what the property leaves out.

### ReadingQueueProofs

For any number of dispatchers and readings and any capacity above zero
(`BufferSizeAssumption`: `NewManager` replaces others by 256; `NoneAssumption`).

* `TypeCorrect`, `NoSendOnClosed`, `InOrder`, `BooksBalance`: `TypeOK` (with the
  channel within its capacity), `NeverSendsOnClosed`, `DeliveredInOrder`,
  `OneVerdictPerReading`.
* `Refinement`: `SafeSpec => Stream!SafeSpec`, the safety half of
  `ImplementsStream`.

`LockInv` is the argument for `closeMu`: a dispatcher between `RLock` and
`RUnlock` is in `rlocked`, the closer gets past its request only while `rlocked`
is empty, and a dispatcher that is about to send has seen `closed` false while it
held the lock, so the channel cannot be closed under it.  `WriterInv` says that
exactly one reading is being written while the loop is in `insert`, and none
otherwise, which the capacity and the order depend on.  `HeldInv` says that a
dispatcher carries a reading exactly while it is in the callback, and `HeldApart`
that no two carry the same one: without it a callback that returns could leave its
reading in another, and the books would not balance.  The refinement maps `Insert`
to `Handle`, `PublishSelect` to `Accept` if the send happens, `CloseChannel` to
`Seal`, `EndOfRange` to `End`, and every other step to a stutter.

### BatterySupervisorProofs

For any batteries and names, any limits of the backoff with `0 < MinBackoff <=
MaxBackoff` (`BackoffAssumption`) and any number of mishaps.

* `TypeCorrect`, `NothingLeft`, `LossesAccounted`: `TypeOK`,
  `NothingLeftConnected`, `LossesCounted`.
* `BackoffReset`: the action property `BackoffFollowsOutage`.

`RunInv` says which goroutines there are at each point of `Run`; `LinkInv` ties
the connection, the gauge and the shortest backoff to a stretch of the
supervisor's loop; `CountInv` says at which labels the counter of losses is one
behind the connections.  `CauseInv` is the reason why no loss is counted without
cause.  The count alone is not inductive: it is raised steps after the mishap that
calls for it, and a double that goes out of range costs a connection although it
was counted as a mishap when it appeared.  So a loss that is already certain
(`Owed`) and a mishap that can still cause one (`InHand`) are added to it.

### StaleDetectionProofs

For any interval and timeout `NewManager` accepts (`IntervalAssumption`) and any
time that connecting and a query may take (`BoundAssumption` asks for bounds, and for
nothing of their size: the code does not keep a query shorter than an interval).

* `TypeCorrect`: all clocks stay within their bounds.
* `SilenceDetected`: a connection is never silent for longer than
  `StaleTimeout + ScrapeInterval + QueryTime`.
* `ChanceToAnswer`: if a connection attempt, one interval and one query fit into the
  timeout, and two queries and an interval do, a connection is given up as stale only
  after a query ahead of the last one has gone unanswered.

The inductive invariant has `PhaseInv` (a verdict is only known of a connection that
is gone, and `lastSeen` is no older than the attempt), `AgeInv` (how old `lastSeen` and the silence can be at each point
between two checks) and `ChanceInv` (the same until the first query since the last
sign of life has been checked; a reading that came early in a long query may be as old
as that query, hence the second condition of `ChanceToAnswer`).

### VictronCollectorProofs

For any devices, any capacity above zero and any number of scans.

* `TypeCorrect`, `MissedCorrect`, `VerdictsCorrect`, `DrainedWhenDone`: `TypeOK`,
  `MissedMeansSilent`, `OneVerdictPerScan`, `DoneMeansDrained`.
* `Refinement`: `SafeSpec => Stream!SafeSpec`, the safety half of
  `ImplementsStream`.

`SeenInv` says what the map `seen` of `scanOnce` holds in the middle of a scan,
and `VerdictInv` is the two balances for a scan of which some results have been
handled and others not: they are exact only between scans.  `WriterInv` and
`StreamInv` follow the readings; the latter counts the readings of a device among
those sent (`OneReadingMore`).  The refinement maps `Handle` to `Accept` if
`publish` sends, `CloseReadings` to `Seal`, `Insert` to `Handle` and `EndOfRange` to
`End`.

### RecordMappingProofs

For any readings of the shape the libraries give them: any values, any number of
cells, any `uint16` model ID and `uint8` record type.

* `TypeCorrect`, `ColumnsCorrect`, `NothingLost`: `TypeOK`, `EveryColumnItsField`,
  `RowsLoseNothing`.

`RowByPosition` is the lemma about `Exec`: if no column is named twice, each has the
argument at its position.  `LitimeRow`, `SolarRow` and `MonitorRow` apply it to the
three statements, and `Int16OfByte` and `MinutesAndBack` are why the two numeric
conversions can be undone.  `NothingLost` needs what `MonitorAssumption` takes from
the Victron library: a time to go is whole minutes, and of the three aux readings
only the one of the aux input's type is filled in.

### ConfigurationProofs

For any texts, addresses, keys and integer options, and maps of any size.

* `TypeCorrect`, `BatteriesDecided`, `DevicesDecided`, `DevicesDistinct`,
  `OptionsWork`: `TypeOK`, `BatteryVerdict`, `DeviceVerdict`, `NoDeviceTwice`,
  `AcceptedOptionsWork`.

`BatteryInv` and `DeviceInv` are the loops' invariants: what has been ranged over so
far is free of every mistake, whichever entries those are, and gave one result each
(`OneResultEach`).  `Distinct` follows from the devices' addresses being in `seen`.
`DevicesDecided` has two directions of different strength, as the code has: devices
that are accepted are good in the sense of the operator's IDs, blanks or not; a refusal
is shown to have a reason where no ID was written with blanks (`NoBlanksLeft`).

### InserterProcessProofs

For any readings and any capacity.

* `TypeCorrect`, `CleanExit`, `NeverAbandoned`: `TypeOK`, `CleanExitLeavesNothing`,
  `BatteryReadingsNeverAbandoned`.

`StreamsInv` is all that is used of the two pipelines: one that has ended has handed
over what it accepted.  `MainInv` says what main knows by where it stands, each wait
adding a fact that the exit needs.

### What is only model-checked

Liveness under fairness, as the prover does not cover it: `CallbackReturns`,
`ShutdownDrains`, `ShutdownCompletes`, `FlatBatteryNeverStallsOthers`,
`SilentConnectionEnds`, `ScanLoopNeverWaits`, `SignalEndsProcess`,
`ManagerErrorEndsProcess` and the liveness half of `ImplementsStream`.  The
counterexamples of the next section are TLC's.

## Where documentation and code disagree

* "Startup fails with the addresses to use if more than one device answers to a
  configured name." (`README.md:55`), since "picking arbitrarily would attribute
  readings to the wrong battery" (`manager.go:222`).  The scan is told to end at as
  many devices as there are names.  With one name it ends at the first device that
  has it, so the second is never met and the test for several matches cannot
  fire; with more names it can still end too early.  The address is kept for
  good.  Run `battery_supervisor_names`.
* `StaleTimeout` is documented as "how long a battery may stay silent"
  (`manager.go:34`).  `lastSeen` starts before `Connect`, which may queue for the
  radio, so a connection that took long to set up is cycled at its first check.
  Run `stale_detection_slow_connect`; `ChanceToAnswer` says when it cannot happen.
* `insertVictron` uses a background context "so that readings still queued at
  shutdown are not abandoned mid-write" (`victron.go:82`).  A signal during the
  battery manager's startup scan makes `Run` return an error, and main exits
  without waiting for the Victron readings.  Run `inserter_process_victron`.
* "Two IDs pointing at one battery would double every measurement"
  (`battery.go:75`) is why duplicates are refused, but they are recognised by their
  text: one address in upper and in lower case passes.  Run
  `configuration_batteries`.
* "a key naming a device that is not configured is almost always a typo", hence a
  startup error (`README.md:103`).  With keys and no device at all, `ParseDevices`
  returns before it looks at the keys.  Run `configuration_keys`.

Disagreements without a run of their own:

* `litime_battery_reconnects` is documented as "Connections re-established."
  (`README.md:193`, and in the same sense `metrics.go:44`), but `superviseBattery`
  raises it when a connection is lost, before any attempt, so that a battery which
  never returns shows 1.  `LossesCounted` says what the counter does count.
* "every configured device needs an entry in each" variable and a key of a device
  "that is not configured" is the error (`README.md:103`, `device.go:79`), but the two
  lookups of `ParseDevices` trim one side only.  A device configured as `" shunt "`
  finds its key under `"shunt"`, and is then refused because that key "has no matching
  entry" (`device.go:83`); a key under `" shunt "` is not found for the device
  `"shunt"` (`device.go:60`).  `DeviceVerdict` therefore promises nothing of refusals
  where an ID has blanks.
* "one flat or out-of-range battery never stalls the rest" (`manager.go:138`, and
  `README.md:169`) holds of flat batteries, but not of names.  While two devices that
  have one name are met by the same scan, `resolveAddresses` fails for every battery
  (`manager.go:225`), also for one that the scan did find.  With three names, of which
  one belongs to a flat battery and one is on the air twice, a scan that misses nothing
  meets the two every time, and the third battery is not polled as long as that
  lasts.  `FlatBatteryNeverStallsOthers` excludes it.

## What is not modelled

* The Bluetooth and Victron libraries and the database, beyond how the code uses
  them: they are not in the repository.
* Logging, tracing, the metrics library, environment parsing, the choice of an
  adapter: no property depends on them.
* Decoding a notification or an advertisement: libraries.  What becomes of the
  decoded fields is `RecordMapping`; what the enums' `String` returns is not.
* Two battery IDs that differ by blanks: both parsers accept them as one ID
  (`Configuration` shows that they are accepted), and the supervisors then share
  one address.  No text in the repository says what should happen.  Two Victron
  devices of that sort would share an entry in `seen` (`collector.go:187`);
  `VictronCollector` takes the IDs as different.
* What `scanOnce` does with an address that does not parse, or without any
  (`collector.go:147`-`162`), and `resolveAddresses` likewise (`manager.go:184`): the
  parsers of the configuration have parsed every address, so neither is reached.
* `SCAN_TIMEOUT` and `CALLBACK_TIMEOUT`, which the code neither defaults nor
  checks: that scans end and inserts return is assumed of them.
* How long a shutdown takes.  `ImplementsStream` bounds the inserts that remain
  after the close by the size of the queue and one, and each has its own
  `CALLBACK_TIMEOUT`.
* `Disconnect` and `Connect` inside the library.  That a failed `Connect` leaves
  no connection behind is taken from the code, which does not disconnect then.
* Reading the clock twice: `lastSeen` and `ObservedAt` are separate calls of
  `time.Now`, with no effect on a property.

## Plan

1. Composition: `InserterProcess` with `BatterySupervisor` in place of the single
   step in which its manager ends, and `StaleDetection` as what `pollUntilStale`
   promises to a supervisor.
2. Proofs about that composition, from the invariants of its parts.
