--------------------------- MODULE Configuration ---------------------------
(***************************************************************************)
(* From the environment to a running process, as far as the configuration  *)
(* decides: ParseBatteries (internal/litime/battery.go), NewManager's and  *)
(* NewCollector's options, ParseDevices (internal/victron/device.go), in   *)
(* the order in which main calls them.                                     *)
(*                                                                         *)
(* Both parsers range over Go maps, whose order is random, and stop at the *)
(* first entry they do not like.  A text from the environment is a pair:   *)
(* what is left of it without surrounding blanks, and whether it had any.  *)
(* An address can be spelled in more than one way, a name cannot.          *)
(***************************************************************************)
EXTENDS Integers, FiniteSets

CONSTANTS
  Id,          \* IDs an operator may choose
  Spelling,    \* texts that parse as a device address
  Name,        \* texts that do not
  Empty,       \* the empty text
  AddressOf,   \* AddressOf[s]: the address that s spells
  Key,         \* texts that parse as an advertisement key
  NoKey,       \* a text that does not
  Seconds,     \* option values to try, the absurd ones included
  MaxEntries   \* bound: entries of a configured map

ASSUME TextAssumption ==
  /\ Empty \notin Id \cup Spelling \cup Name
  /\ Spelling \cap Name = {}
  /\ NoKey \notin Key
  /\ DOMAIN AddressOf = Spelling

ASSUME NumberAssumption == Seconds \subseteq Int /\ MaxEntries \in Nat

VARIABLES
  stage,     \* the parser that is running, or its verdict, or where main is
  entries,   \* the map being parsed: LITIME_BATTERIES, then VICTRON_DEVICES
  keys,      \* VICTRON_KEYS
  todo,      \* the keys of entries not ranged over yet
  seen,      \* the targets met so far
  parsed,    \* the batteries or devices built so far
  options    \* what the manager or the collector just built goes on with

vars == <<stage, entries, keys, todo, seen, parsed, options>>
locals == <<entries, keys, todo, seen, parsed, options>>

RawId == (Id \cup {Empty}) \X BOOLEAN
RawText == (Spelling \cup Name \cup {Empty}) \X BOOLEAN

Maps(From, To) ==
  UNION {[ks -> To] :
           ks \in {s \in SUBSET From : Cardinality(s) <= MaxEntries}}

Init ==
  /\ stage = "batteries"
  /\ entries \in Maps(RawId, RawText)
  /\ keys = <<>>
  /\ todo = DOMAIN entries
  /\ seen = {}
  /\ parsed = {}
  /\ options = <<>>

\* Faulty variant: the text is taken as it was written.
NotTrimmed(raw) == raw

TrimSpace(raw) == raw[1]

Refuse(verdict) == stage' = verdict /\ UNCHANGED locals

Record(raw, target, result) ==
  /\ todo' = todo \ {raw}
  /\ seen' = seen \cup {target}
  /\ parsed' = parsed \cup {result}
  /\ UNCHANGED <<stage, entries, keys, options>>

(***************************************************************************)
(* ParseBatteries.                                                         *)
(***************************************************************************)

\* Without LITIME_BATTERIES the older single name counts.  It is taken as it was
\* written, and for a name even if it parses as an address.
UseFallback ==
  /\ stage = "batteries"
  /\ entries = <<>>
  /\ \E fallback \in RawText :
       IF fallback = <<Empty, FALSE>>
       THEN Refuse("batteriesRefused")
       ELSE /\ stage' = "batteriesParsed"
            /\ parsed' =
                 {[id |-> fallback, match |-> "name", value |-> fallback]}
            /\ UNCHANGED <<entries, keys, todo, seen, options>>

\* One round of the loop.  Whether a battery was met before is decided by the
\* text of its target.
RangeBatteries(raw) ==
  LET id == TrimSpace(raw)
      value == TrimSpace(entries[raw])
      match == IF value \in Spelling THEN "address" ELSE "name"
  IN  /\ stage = "batteries"
      /\ raw \in todo
      /\ IF id = Empty \/ value = Empty \/ value \in seen
         THEN Refuse("batteriesRefused")
         ELSE Record(raw, value, [id |-> id, match |-> match, value |-> value])

BatteriesParsed ==
  /\ stage = "batteries"
  /\ entries # <<>>
  /\ todo = {}
  /\ stage' = "batteriesParsed"
  /\ UNCHANGED locals

(***************************************************************************)
(* Between the parsers: the database, and the options of the manager.      *)
(***************************************************************************)

OrDefault(value, default) == IF value <= 0 THEN default ELSE value

\* Faulty variant: the intervals are compared before they get their defaults.
NewManagerComparesFirst(o) ==
  IF o.stale > 0 /\ o.stale <= o.scrape THEN {}
  ELSE {[scrape |-> OrDefault(o.scrape, 10), stale |-> OrDefault(o.stale, 90),
         buffer |-> OrDefault(o.buffer, 256)]}

\* The options NewManager goes on with; none if it returns an error.
NewManager(o) ==
  LET used == [scrape |-> OrDefault(o.scrape, 10),
               stale |-> OrDefault(o.stale, 90),
               buffer |-> OrDefault(o.buffer, 256)]
  IN  IF used.stale <= used.scrape THEN {} ELSE {used}

NewCollector(o) ==
  LET used == [interval |-> OrDefault(o.interval, 60),
               duration |-> OrDefault(o.duration, 5),
               buffer |-> OrDefault(o.buffer, 64)]
  IN  IF used.duration >= used.interval THEN {} ELSE {used}

ManagerOptions == [scrape : Seconds, stale : Seconds, buffer : Seconds]

CollectorOptions == [interval : Seconds, duration : Seconds, buffer : Seconds]

\* NewTimescaleClient opens the pool and pings the database.
OpenDatabase ==
  /\ stage = "batteriesParsed"
  /\ stage' \in {"manager", "failed"}
  /\ entries' = <<>>
  /\ todo' = {}
  /\ seen' = {}
  /\ parsed' = {}
  /\ UNCHANGED <<keys, options>>

\* What NewManager returns with an error ends the process.
BuildManager ==
  /\ stage = "manager"
  /\ \E o \in ManagerOptions :
       \/ NewManager(o) = {} /\ stage' = "failed" /\ UNCHANGED options
       \/ options' \in NewManager(o) /\ stage' = "managerBuilt"
  /\ UNCHANGED <<entries, keys, todo, seen, parsed>>

\* From here on the options are the manager's own.
RunManager ==
  /\ stage = "managerBuilt"
  /\ stage' = "managerRuns"
  /\ options' = <<>>
  /\ UNCHANGED <<entries, keys, todo, seen, parsed>>

\* The manager runs already when startVictron looks at its two variables.
ReadDevices ==
  /\ stage = "managerRuns"
  /\ stage' = "devices"
  /\ entries' \in Maps(RawId, RawText)
  /\ keys' \in Maps(RawId, Key \cup {NoKey})
  /\ todo' = DOMAIN entries'
  /\ UNCHANGED <<seen, parsed, options>>

(***************************************************************************)
(* ParseDevices, and NewCollector's options.                               *)
(***************************************************************************)

\* VICTRON_DEVICES is not set: no devices, and no error.
NoDevices ==
  /\ stage = "devices"
  /\ entries = <<>>
  /\ stage' = "devicesParsed"
  /\ UNCHANGED locals

\* Faulty variant: devices are told apart by the text of their address.
AsWritten(text) == text

\* ParseAddress, and the upper-cased form it is compared in.
Normalised(text) == AddressOf[text]

RangeDevices(raw) ==
  LET id == TrimSpace(raw)
      text == TrimSpace(entries[raw])
      hasKey == <<id, FALSE>> \in DOMAIN keys
      key == keys[<<id, FALSE>>]
  IN  /\ stage = "devices"
      /\ raw \in todo
      /\ IF \/ id = Empty
            \/ text \notin Spelling
            \/ ~hasKey
            \/ hasKey /\ key \notin Key
            \/ text \in Spelling /\ Normalised(text) \in seen
         THEN Refuse("devicesRefused")
         ELSE Record(raw, Normalised(text),
                     [id |-> id, address |-> AddressOf[text], key |-> key])

\* Faulty variant: keys are not looked at once every device has one.
NeverOrphaned(raw) == FALSE

\* The second loop: a key that names no configured device.
Orphaned(raw) == <<TrimSpace(raw), FALSE>> \notin DOMAIN entries

RangeKeys ==
  /\ stage = "devices"
  /\ entries # <<>>
  /\ todo = {}
  /\ stage' = IF \E raw \in DOMAIN keys : Orphaned(raw)
              THEN "devicesRefused" ELSE "devicesParsed"
  /\ UNCHANGED locals

\* The collector has its devices by address, and the maps are done with.
StartCollector ==
  /\ stage = "devicesParsed"
  /\ parsed # {}
  /\ \E o \in CollectorOptions :
       \/ NewCollector(o) = {} /\ stage' = "failed" /\ UNCHANGED options
       \/ options' \in NewCollector(o) /\ stage' = "running"
  /\ entries' = <<>>
  /\ keys' = <<>>
  /\ seen' = {}
  /\ UNCHANGED <<todo, parsed>>

Next ==
  \/ UseFallback
  \/ \E raw \in RawId : raw \in todo /\ RangeBatteries(raw)
  \/ BatteriesParsed
  \/ OpenDatabase
  \/ BuildManager
  \/ RunManager
  \/ ReadDevices
  \/ NoDevices
  \/ \E raw \in RawId : raw \in todo /\ RangeDevices(raw)
  \/ RangeKeys
  \/ StartCollector

SafeSpec == Init /\ [][Next]_vars
-----------------------------------------------------------------------------
(***************************************************************************)
(* Properties.                                                             *)
(***************************************************************************)

TypeOK ==
  /\ stage \in {"batteries", "batteriesRefused", "batteriesParsed", "manager",
                "managerBuilt", "managerRuns", "devices", "devicesRefused",
                "devicesParsed", "running", "failed"}
  /\ DOMAIN entries \subseteq RawId
  /\ \A raw \in DOMAIN entries : entries[raw] \in RawText
  /\ DOMAIN keys \subseteq RawId
  /\ todo \subseteq DOMAIN entries
  /\ \A p \in parsed : p.id \in Id \cup RawText

\* Go's random map order never decides whether the batteries are accepted: they
\* are refused exactly if an ID or a target is blank or two targets are the
\* same text, and when they are accepted, none is missing.
BatteryVerdict ==
  LET Acceptable ==
        \A raw \in DOMAIN entries :
          /\ raw[1] # Empty
          /\ entries[raw][1] # Empty
          /\ \A other \in DOMAIN entries \ {raw} :
               entries[other][1] # entries[raw][1]
  IN  entries # <<>> =>
        /\ stage = "batteriesRefused" => ~Acceptable
        /\ stage = "batteriesParsed" =>
             Acceptable /\ Cardinality(parsed) = Cardinality(DOMAIN entries)

\* Nor does it decide about the Victron devices.  A key names a device if their
\* IDs are the same text without surrounding blanks.  Devices that are accepted
\* have a valid address and a valid key that names them, no two have one
\* address, every key names one of them, and none is missing.  If no ID was
\* written with blanks, devices are refused only for lack of one of these.  (If
\* one was, they may be refused for no good reason: the two lookups of
\* ParseDevices each trim one side only.)
DeviceVerdict ==
  LET Named(k, raw) == k[1] = raw[1]
      Acceptable ==
        /\ \A raw \in DOMAIN entries :
             /\ raw[1] # Empty
             /\ entries[raw][1] \in Spelling
             /\ \E k \in DOMAIN keys : Named(k, raw) /\ keys[k] \in Key
             /\ \A other \in DOMAIN entries \ {raw} :
                  entries[other][1] \in Spelling =>
                    AddressOf[entries[other][1]] # AddressOf[entries[raw][1]]
        /\ \A k \in DOMAIN keys : \E raw \in DOMAIN entries : Named(k, raw)
      NoBlanks == \A raw \in DOMAIN entries \cup DOMAIN keys : ~raw[2]
  IN  entries # <<>> =>
        /\ stage = "devicesRefused" /\ NoBlanks => ~Acceptable
        /\ stage = "devicesParsed" =>
             Acceptable /\ Cardinality(parsed) = Cardinality(DOMAIN entries)

\* No two devices of the collector have one address, however it was written:
\* the collector looks devices up by address, and one would hide the other.
NoDeviceTwice ==
  stage \in {"devicesParsed", "running"} =>
    \A d, e \in parsed : d.address = e.address => d = e

\* Options that are accepted, defaults filled in, are ones the other modules
\* assume: a battery may be silent for more than one scrape interval, the queues
\* have room, and the radio is free between two Victron scans.
AcceptedOptionsWork ==
  /\ stage = "managerBuilt" =>
       /\ options.scrape > 0
       /\ options.stale > options.scrape
       /\ options.buffer > 0
  /\ stage = "running" =>
       /\ options.duration > 0
       /\ options.interval > options.duration
       /\ options.buffer > 0

(***************************************************************************)
(* What the documentation says, and the code does otherwise.               *)
(***************************************************************************)

\* battery.go: two IDs that point at one battery "would double every
\* measurement", which is why duplicates are refused.
NoBatteryTwice ==
  stage = "batteriesParsed" =>
    \A b, c \in parsed :
      /\ b.match = "address"
      /\ c.match = "address"
      /\ AddressOf[b.value] = AddressOf[c.value]
      => b.id = c.id

\* README.md: "a key naming a device that is not configured is almost always a
\* typo", hence a startup error.
NoKeyWithoutDevice ==
  stage = "devicesParsed" =>
    \A raw \in DOMAIN keys : \E d \in parsed : d.id = raw[1]
=============================================================================
