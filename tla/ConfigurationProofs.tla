------------------------ MODULE ConfigurationProofs ------------------------
(***************************************************************************)
(* Proofs about Configuration for any texts, any maps and any options.     *)
(***************************************************************************)
EXTENDS Configuration, FiniteSetTheorems, TLAPS

\* The keys of the map that the loop has been through.
Ranged == DOMAIN entries \ todo

\* Each of the entries ranged over has given one result, and no two the same.
OneResultEach ==
  /\ IsFiniteSet(Ranged)
  /\ IsFiniteSet(parsed)
  /\ Cardinality(parsed) = Cardinality(Ranged)

\* What the loop over the batteries has established so far: the entries it has
\* been through are good, and what it has seen is their targets.
BatteryInv ==
  stage = "batteries" \/ (stage = "batteriesParsed" /\ entries # <<>>) =>
    /\ seen = {entries[raw][1] : raw \in Ranged}
    /\ \A b \in parsed : b.value \in seen
    /\ \A raw \in Ranged : raw[1] # Empty /\ entries[raw][1] # Empty
    /\ \A raw, other \in Ranged :
         entries[raw][1] = entries[other][1] => raw = other
    /\ OneResultEach
    /\ stage = "batteriesParsed" => todo = {}

\* The parsers start from nothing.
FreshInv ==
  stage \in {"manager", "managerBuilt", "managerRuns"} =>
    seen = {} /\ parsed = {}

\* The same for the devices, told apart by the address they spell.
DeviceInv ==
  stage \in {"devices", "devicesParsed"} =>
    /\ seen = {AddressOf[entries[raw][1]] : raw \in Ranged}
    /\ \A d \in parsed : d.address \in seen
    /\ \A raw \in Ranged :
         /\ raw[1] # Empty
         /\ entries[raw][1] \in Spelling
         /\ <<raw[1], FALSE>> \in DOMAIN keys
         /\ keys[<<raw[1], FALSE>>] \in Key
    /\ \A raw, other \in Ranged :
         AddressOf[entries[raw][1]] = AddressOf[entries[other][1]] => raw = other
    /\ OneResultEach
    /\ stage = "devicesParsed" /\ entries # <<>> =>
         /\ todo = {}
         /\ \A raw \in DOMAIN keys : <<raw[1], FALSE>> \in DOMAIN entries

\* No two devices that have been built share an address.
Distinct ==
  stage \in {"devices", "devicesParsed", "running"} =>
    \A d, e \in parsed : d.address = e.address => d = e

IInv ==
  /\ TypeOK
  /\ BatteryInv
  /\ BatteryVerdict
  /\ FreshInv
  /\ DeviceInv
  /\ DeviceVerdict
  /\ Distinct
  /\ AcceptedOptionsWork

LEMMA MapsType ==
  ASSUME NEW From, NEW To, NEW f \in Maps(From, To)
  PROVE  DOMAIN f \subseteq From /\ \A x \in DOMAIN f : f[x] \in To
  BY DEF Maps

\* An ID that was written without blanks is what the lookups look for.
LEMMA NoBlanksLeft ==
  ASSUME NEW raw \in RawId, ~raw[2]
  PROVE  raw = <<raw[1], FALSE>>
  <1>1. PICK id \in Id \cup {Empty}, blanks \in BOOLEAN : raw = <<id, blanks>>
    BY DEF RawId
  <1>2. raw[1] = id /\ raw[2] = blanks
    BY <1>1
  <1>3. blanks = FALSE
    BY <1>2, Zenon
  <1> QED
    BY <1>1, <1>2, <1>3

\* Handling one more entry gives one more result.
LEMMA OneMoreResult ==
  ASSUME OneResultEach, NEW raw \in todo, raw \in DOMAIN entries, NEW result,
         result \notin parsed, entries' = entries, todo' = todo \ {raw},
         parsed' = parsed \cup {result}
  PROVE  OneResultEach'
  <1>1. Ranged' = Ranged \cup {raw} /\ raw \notin Ranged
    BY DEF Ranged
  <1>2. /\ IsFiniteSet(Ranged \cup {raw})
        /\ Cardinality(Ranged \cup {raw}) = Cardinality(Ranged) + 1
    BY <1>1, FS_AddElement DEF OneResultEach
  <1>3. /\ IsFiniteSet(parsed \cup {result})
        /\ Cardinality(parsed \cup {result}) = Cardinality(parsed) + 1
    BY FS_AddElement DEF OneResultEach
  <1> QED
    BY <1>1, <1>2, <1>3 DEF OneResultEach

LEMMA NothingRanged ==
  ASSUME todo = DOMAIN entries, parsed = {}
  PROVE  Ranged = {} /\ OneResultEach
  BY FS_EmptySet DEF Ranged, OneResultEach

LEMMA InitIInv == Init => IInv
  <1> SUFFICES ASSUME Init PROVE IInv
    OBVIOUS
  <1>1. /\ DOMAIN entries \subseteq RawId
        /\ \A raw \in DOMAIN entries : entries[raw] \in RawText
    BY MapsType DEF Init
  <1>2. TypeOK
    BY <1>1 DEF Init, TypeOK
  <1>3. Ranged = {} /\ OneResultEach
    BY NothingRanged DEF Init
  <1>4. BatteryInv
    BY <1>3 DEF Init, BatteryInv
  <1> QED
    BY <1>2, <1>4 DEF Init, IInv, BatteryVerdict, FreshInv, DeviceInv,
                      DeviceVerdict, Distinct, AcceptedOptionsWork

\* One round of ParseBatteries: a refusal has a reason, and no order of the
\* entries can hide it; a battery recorded keeps what the loop has established.
LEMMA BatteryRound ==
  ASSUME IInv, NEW raw \in RawId, raw \in todo, RangeBatteries(raw)
  PROVE  IInv'
  <1> DEFINE id == raw[1]
             value == entries[raw][1]
             match == IF value \in Spelling THEN "address" ELSE "name"
             battery == [id |-> id, match |-> match, value |-> value]
  <1>1. stage = "batteries" /\ raw \in DOMAIN entries
    BY DEF RangeBatteries, IInv, TypeOK
  <1>2. /\ seen = {entries[r][1] : r \in Ranged}
        /\ \A b \in parsed : b.value \in seen
        /\ \A r \in Ranged : r[1] # Empty /\ entries[r][1] # Empty
        /\ \A r, other \in Ranged : entries[r][1] = entries[other][1] => r = other
        /\ OneResultEach
    BY <1>1 DEF IInv, BatteryInv
  <1>3. CASE id = Empty \/ value = Empty \/ value \in seen
    <2>1. /\ stage' = "batteriesRefused"
          /\ UNCHANGED <<entries, keys, todo, seen, parsed, options>>
      BY <1>3 DEF RangeBatteries, Refuse, locals, TrimSpace
    <2>2. BatteryVerdict'
      <3>1. ASSUME value \in seen
            PROVE  \E other \in DOMAIN entries \ {raw} :
                     entries[other][1] = entries[raw][1]
        BY <1>2, <3>1 DEF Ranged
      <3> QED
        BY <1>1, <1>3, <2>1, <3>1 DEF BatteryVerdict
    <2> QED
      BY <2>1, <2>2 DEF IInv, TypeOK, BatteryInv, FreshInv, DeviceInv,
                        DeviceVerdict, Distinct, AcceptedOptionsWork
  <1>4. CASE ~(id = Empty \/ value = Empty \/ value \in seen)
    <2>1. /\ todo' = todo \ {raw}
          /\ seen' = seen \cup {value}
          /\ parsed' = parsed \cup {battery}
          /\ UNCHANGED <<stage, entries, keys, options>>
      BY <1>4 DEF RangeBatteries, Record, TrimSpace
    <2>2. TypeOK'
      <3>1. id \in Id
        BY <1>4 DEF RawId
      <3>2. battery.id = id
        OBVIOUS
      <3>3. \A p \in parsed' : p.id \in Id \cup RawText
        BY <2>1, <3>1, <3>2 DEF IInv, TypeOK
      <3> QED
        BY <2>1, <3>3 DEF IInv, TypeOK
    <2>3. Ranged' = Ranged \cup {raw} /\ raw \notin Ranged
      BY <1>1, <2>1 DEF Ranged
    <2>4. BatteryInv'
      <3>1. battery.value = value
        OBVIOUS
      <3>2. battery \notin parsed
        BY <1>2, <1>4, <3>1
      <3>3. OneResultEach'
        BY <1>1, <1>2, <2>1, <3>2, OneMoreResult
      <3>4. seen' = {entries'[r][1] : r \in Ranged'}
        BY <1>2, <2>1, <2>3
      <3>5. \A b \in parsed' : b.value \in seen'
        BY <1>2, <2>1, <3>1
      <3>6. \A r \in Ranged' : r[1] # Empty /\ entries'[r][1] # Empty
        BY <1>2, <1>4, <2>1, <2>3
      <3>7. \A r, other \in Ranged' :
              entries'[r][1] = entries'[other][1] => r = other
        BY <1>2, <1>4, <2>1, <2>3
      <3> QED
        BY <1>1, <2>1, <3>3, <3>4, <3>5, <3>6, <3>7 DEF BatteryInv
    <2> QED
      BY <1>1, <2>1, <2>2, <2>4
         DEF IInv, BatteryVerdict, FreshInv, DeviceInv, DeviceVerdict, Distinct,
             AcceptedOptionsWork
  <1> QED
    BY <1>3, <1>4

\* One round of the first loop of ParseDevices.
LEMMA DeviceRound ==
  ASSUME IInv, NEW raw \in RawId, raw \in todo, RangeDevices(raw)
  PROVE  IInv'
  <1> DEFINE id == raw[1]
             text == entries[raw][1]
             key == keys[<<id, FALSE>>]
             device == [id |-> id, address |-> AddressOf[text], key |-> key]
             Bad == \/ id = Empty
                    \/ text \notin Spelling
                    \/ <<id, FALSE>> \notin DOMAIN keys
                    \/ key \notin Key
                    \/ AddressOf[text] \in seen
  <1>1. stage = "devices" /\ raw \in DOMAIN entries
    BY DEF RangeDevices, IInv, TypeOK
  <1>2. /\ seen = {AddressOf[entries[r][1]] : r \in Ranged}
        /\ \A d \in parsed : d.address \in seen
        /\ \A r \in Ranged :
             /\ r[1] # Empty
             /\ entries[r][1] \in Spelling
             /\ <<r[1], FALSE>> \in DOMAIN keys
             /\ keys[<<r[1], FALSE>>] \in Key
        /\ \A r, other \in Ranged :
             AddressOf[entries[r][1]] = AddressOf[entries[other][1]] => r = other
        /\ OneResultEach
    BY <1>1 DEF IInv, DeviceInv
  <1>3. CASE Bad
    <2>1. /\ stage' = "devicesRefused"
          /\ UNCHANGED <<entries, keys, todo, seen, parsed, options>>
      BY <1>3 DEF RangeDevices, Refuse, locals, TrimSpace, Normalised
    <2>2. DeviceVerdict'
      <3>1. ASSUME AddressOf[text] \in seen
            PROVE  \E other \in DOMAIN entries \ {raw} :
                     /\ entries[other][1] \in Spelling
                     /\ AddressOf[entries[other][1]] = AddressOf[entries[raw][1]]
        BY <1>2, <3>1 DEF Ranged
      <3>2. ASSUME \A k \in DOMAIN keys : ~k[2],
                   NEW k \in DOMAIN keys, k[1] = id, keys[k] \in Key
            PROVE  <<id, FALSE>> \in DOMAIN keys /\ key \in Key
        <4>1. k \in RawId
          BY DEF IInv, TypeOK
        <4>2. k = <<id, FALSE>>
          BY <3>2, <4>1, NoBlanksLeft
        <4> QED
          BY <3>2, <4>2
      <3> QED
        BY <1>1, <1>3, <2>1, <3>1, <3>2 DEF DeviceVerdict
    <2> QED
      BY <2>1, <2>2 DEF IInv, TypeOK, BatteryInv, FreshInv, DeviceInv,
                        BatteryVerdict, Distinct, AcceptedOptionsWork
  <1>4. CASE ~Bad
    <2>1. /\ todo' = todo \ {raw}
          /\ seen' = seen \cup {AddressOf[text]}
          /\ parsed' = parsed \cup {device}
          /\ UNCHANGED <<stage, entries, keys, options>>
      BY <1>4 DEF RangeDevices, Record, TrimSpace, Normalised
    <2>2. device.address = AddressOf[text] /\ device.id = id
      OBVIOUS
    <2>3. TypeOK'
      <3>1. id \in Id
        BY <1>4 DEF RawId
      <3>2. \A p \in parsed' : p.id \in Id \cup RawText
        BY <2>1, <2>2, <3>1 DEF IInv, TypeOK
      <3> QED
        BY <2>1, <3>2 DEF IInv, TypeOK
    <2>4. Ranged' = Ranged \cup {raw} /\ raw \notin Ranged
      BY <1>1, <2>1 DEF Ranged
    <2>5. DeviceInv'
      <3>1. device \notin parsed
        BY <1>2, <1>4, <2>2
      <3>2. OneResultEach'
        BY <1>1, <1>2, <2>1, <3>1, OneMoreResult
      <3>3. seen' = {AddressOf[entries'[r][1]] : r \in Ranged'}
        BY <1>2, <2>1, <2>4
      <3>4. \A d \in parsed' : d.address \in seen'
        BY <1>2, <2>1, <2>2
      <3>5. \A r \in Ranged' :
              /\ r[1] # Empty
              /\ entries'[r][1] \in Spelling
              /\ <<r[1], FALSE>> \in DOMAIN keys'
              /\ keys'[<<r[1], FALSE>>] \in Key
        BY <1>2, <1>4, <2>1, <2>4
      <3>6. \A r, other \in Ranged' :
              AddressOf[entries'[r][1]] = AddressOf[entries'[other][1]]
                => r = other
        BY <1>2, <1>4, <2>1, <2>4
      <3> QED
        BY <1>1, <2>1, <3>2, <3>3, <3>4, <3>5, <3>6 DEF DeviceInv
    <2>6. Distinct'
      BY <1>1, <1>2, <1>4, <2>1, <2>2 DEF IInv, Distinct
    <2> QED
      BY <1>1, <2>1, <2>3, <2>5, <2>6
         DEF IInv, BatteryVerdict, FreshInv, BatteryInv, DeviceVerdict,
             AcceptedOptionsWork
  <1> QED
    BY <1>3, <1>4

\* The steps that end a loop, or go from one parser to the next.
LEMMA OtherSteps ==
  ASSUME IInv,
         \/ UseFallback \/ BatteriesParsed \/ OpenDatabase \/ RunManager
         \/ ReadDevices \/ NoDevices \/ RangeKeys
  PROVE  IInv'
  <1> USE DEF IInv
  <1>1. CASE UseFallback
    <2>1. /\ stage = "batteries" /\ entries = <<>> /\ UNCHANGED <<entries, keys, todo>>
          /\ stage' \in {"batteriesRefused", "batteriesParsed"}
      BY <1>1 DEF UseFallback, Refuse, locals
    <2>2. \A p \in parsed' : p.id \in Id \cup RawText
      <3>1. CASE UNCHANGED parsed
        BY <3>1 DEF TypeOK
      <3>2. ASSUME NEW fallback \in RawText,
                   parsed' = {[id |-> fallback, match |-> "name",
                               value |-> fallback]}
            PROVE  \A p \in parsed' : p.id \in Id \cup RawText
        BY <3>2
      <3> QED
        BY <1>1, <3>1, <3>2 DEF UseFallback, Refuse, locals
    <2> QED
      BY <2>1, <2>2 DEF TypeOK, BatteryInv, BatteryVerdict, FreshInv, DeviceInv,
                        DeviceVerdict, Distinct, AcceptedOptionsWork
  <1>2. CASE BatteriesParsed
    <2>1. /\ stage = "batteries" /\ entries # <<>> /\ todo = {}
          /\ stage' = "batteriesParsed"
          /\ UNCHANGED <<entries, keys, todo, seen, parsed, options>>
      BY <1>2 DEF BatteriesParsed, locals
    <2>2. Ranged = DOMAIN entries
      BY <2>1 DEF Ranged
    <2>3. BatteryVerdict' /\ BatteryInv'
      BY <2>1, <2>2 DEF BatteryInv, BatteryVerdict, OneResultEach, Ranged
    <2> QED
      BY <2>1, <2>3 DEF TypeOK, FreshInv, DeviceInv, DeviceVerdict, Distinct,
                        AcceptedOptionsWork
  <1>3. CASE OpenDatabase
    <2>1. /\ stage' \in {"manager", "failed"}
          /\ entries' = <<>> /\ todo' = {} /\ seen' = {} /\ parsed' = {}
          /\ UNCHANGED keys
      BY <1>3 DEF OpenDatabase
    <2>2. DOMAIN entries' = {}
      BY <2>1
    <2> QED
      BY <2>1, <2>2 DEF TypeOK, BatteryInv, BatteryVerdict, FreshInv, DeviceInv,
                        DeviceVerdict, Distinct, AcceptedOptionsWork
  <1>4. CASE RunManager
    BY <1>4 DEF RunManager, TypeOK, BatteryInv, BatteryVerdict, FreshInv,
                DeviceInv, DeviceVerdict, Distinct, AcceptedOptionsWork
  <1>5. CASE ReadDevices
    <2>1. /\ stage = "managerRuns" /\ stage' = "devices"
          /\ todo' = DOMAIN entries' /\ UNCHANGED <<seen, parsed>>
          /\ seen = {} /\ parsed = {}
      BY <1>5 DEF ReadDevices, FreshInv
    <2>2. /\ DOMAIN entries' \subseteq RawId /\ DOMAIN keys' \subseteq RawId
          /\ \A raw \in DOMAIN entries' : entries'[raw] \in RawText
      BY <1>5, MapsType DEF ReadDevices
    <2>3. Ranged' = {} /\ OneResultEach'
      BY <2>1, FS_EmptySet DEF Ranged, OneResultEach
    <2> QED
      BY <2>1, <2>2, <2>3
         DEF TypeOK, BatteryInv, BatteryVerdict, FreshInv, DeviceInv,
             DeviceVerdict, Distinct, AcceptedOptionsWork
  <1>6. CASE NoDevices
    <2>1. /\ stage = "devices" /\ stage' = "devicesParsed" /\ entries = <<>>
          /\ UNCHANGED <<entries, keys, todo, seen, parsed, options>>
      BY <1>6 DEF NoDevices, locals
    <2> QED
      BY <2>1 DEF TypeOK, BatteryInv, BatteryVerdict, FreshInv, DeviceInv,
                  DeviceVerdict, Distinct, AcceptedOptionsWork, OneResultEach,
                  Ranged
  <1>7. CASE RangeKeys
    <2>1. /\ stage = "devices" /\ entries # <<>> /\ todo = {}
          /\ stage' = IF \E raw \in DOMAIN keys : <<raw[1], FALSE>> \notin DOMAIN entries
                      THEN "devicesRefused" ELSE "devicesParsed"
          /\ UNCHANGED <<entries, keys, todo, seen, parsed, options>>
      BY <1>7 DEF RangeKeys, Orphaned, TrimSpace, locals
    <2>2. Ranged = DOMAIN entries
      BY <2>1 DEF Ranged
    <2>3. Ranged' = Ranged /\ (OneResultEach => OneResultEach')
      BY <2>1 DEF Ranged, OneResultEach
    <2>4. DeviceInv'
      BY <2>1, <2>2, <2>3 DEF DeviceInv
    <2>5. Cardinality(parsed) = Cardinality(DOMAIN entries)
      BY <2>1, <2>2 DEF DeviceInv, OneResultEach
    <2>6. DeviceVerdict'
      <3>1. CASE stage' = "devicesRefused"
        <4>1. PICK k \in DOMAIN keys : <<k[1], FALSE>> \notin DOMAIN entries
          BY <2>1, <3>1
        <4>2. ASSUME \A raw \in DOMAIN entries : ~raw[2]
              PROVE  ~ \E raw \in DOMAIN entries : k[1] = raw[1]
          <5>1. ASSUME NEW raw \in DOMAIN entries, k[1] = raw[1]
                PROVE  FALSE
            <6>1. raw = <<raw[1], FALSE>>
              BY <4>2, NoBlanksLeft DEF TypeOK
            <6> QED
              BY <4>1, <5>1, <6>1
          <5> QED
            BY <5>1
        <4> QED
          BY <2>1, <3>1, <4>2 DEF DeviceVerdict
      <3>2. CASE stage' = "devicesParsed"
        <4>1. \A raw \in DOMAIN entries :
                \E k \in DOMAIN keys : k[1] = raw[1] /\ keys[k] \in Key
          <5> SUFFICES ASSUME NEW raw \in DOMAIN entries
                       PROVE  \E k \in DOMAIN keys :
                                k[1] = raw[1] /\ keys[k] \in Key
            OBVIOUS
          <5> DEFINE k == <<raw[1], FALSE>>
          <5>1. k \in DOMAIN keys /\ keys[k] \in Key
            BY <2>1, <2>2 DEF DeviceInv
          <5>2. k[1] = raw[1]
            OBVIOUS
          <5> QED
            BY <5>1, <5>2
        <4>2. \A k \in DOMAIN keys : \E raw \in DOMAIN entries : k[1] = raw[1]
          <5> SUFFICES ASSUME NEW k \in DOMAIN keys
                       PROVE  \E raw \in DOMAIN entries : k[1] = raw[1]
            OBVIOUS
          <5> DEFINE raw == <<k[1], FALSE>>
          <5>1. raw \in DOMAIN entries
            BY <2>1, <3>2
          <5>2. k[1] = raw[1]
            OBVIOUS
          <5> QED
            BY <5>1, <5>2
        <4>3. \A raw \in DOMAIN entries :
                /\ raw[1] # Empty
                /\ entries[raw][1] \in Spelling
                /\ \A other \in DOMAIN entries \ {raw} :
                     AddressOf[entries[other][1]] # AddressOf[entries[raw][1]]
          BY <2>1, <2>2 DEF DeviceInv
        <4> QED
          BY <2>1, <2>5, <3>2, <4>1, <4>2, <4>3 DEF DeviceVerdict
      <3> QED
        BY <2>1, <3>1, <3>2
    <2> QED
      BY <2>1, <2>4, <2>6 DEF TypeOK, FreshInv, BatteryInv, BatteryVerdict,
                              Distinct, AcceptedOptionsWork
  <1> QED
    BY <1>1, <1>2, <1>3, <1>4, <1>5, <1>6, <1>7

\* The two constructors, the ones that look at the options.
LEMMA ConstructorSteps ==
  ASSUME IInv, BuildManager \/ StartCollector
  PROVE  IInv'
  <1> USE DEF IInv
  <1>1. CASE BuildManager
    <2>1. /\ stage = "manager" /\ stage' \in {"failed", "managerBuilt"}
          /\ UNCHANGED <<entries, keys, todo, seen, parsed>>
      BY <1>1 DEF BuildManager
    <2>2. AcceptedOptionsWork'
      <3>1. ASSUME NEW o \in ManagerOptions, options' \in NewManager(o)
            PROVE  /\ options'.scrape > 0
                   /\ options'.stale > options'.scrape
                   /\ options'.buffer > 0
        <4> DEFINE scrape == OrDefault(o.scrape, 10)
                   stale == OrDefault(o.stale, 90)
                   buffer == OrDefault(o.buffer, 256)
        <4>1. o.scrape \in Int /\ o.stale \in Int /\ o.buffer \in Int
          BY NumberAssumption DEF ManagerOptions
        <4>2. scrape \in Nat \ {0} /\ stale \in Nat \ {0} /\ buffer \in Nat \ {0}
          BY <4>1 DEF OrDefault
        <4> HIDE DEF scrape, stale, buffer
        <4>3. /\ options' = [scrape |-> scrape, stale |-> stale, buffer |-> buffer]
              /\ ~(stale <= scrape)
          BY <3>1 DEF NewManager, scrape, stale, buffer
        <4> QED
          BY <4>2, <4>3
      <3> QED
        BY <1>1, <2>1, <3>1 DEF BuildManager, AcceptedOptionsWork
    <2> QED
      BY <2>1, <2>2 DEF TypeOK, BatteryInv, BatteryVerdict, FreshInv, DeviceInv,
                        DeviceVerdict, Distinct
  <1>2. CASE StartCollector
    <2>1. /\ stage = "devicesParsed" /\ stage' \in {"failed", "running"}
          /\ entries' = <<>> /\ keys' = <<>> /\ UNCHANGED <<todo, parsed>>
      BY <1>2 DEF StartCollector
    <2>2. AcceptedOptionsWork'
      <3>1. ASSUME NEW o \in CollectorOptions, options' \in NewCollector(o)
            PROVE  /\ options'.duration > 0
                   /\ options'.interval > options'.duration
                   /\ options'.buffer > 0
        <4> DEFINE interval == OrDefault(o.interval, 60)
                   duration == OrDefault(o.duration, 5)
                   buffer == OrDefault(o.buffer, 64)
        <4>1. o.interval \in Int /\ o.duration \in Int /\ o.buffer \in Int
          BY NumberAssumption DEF CollectorOptions
        <4>2. /\ interval \in Nat \ {0} /\ duration \in Nat \ {0}
              /\ buffer \in Nat \ {0}
          BY <4>1 DEF OrDefault
        <4> HIDE DEF interval, duration, buffer
        <4>3. /\ options' = [interval |-> interval, duration |-> duration,
                             buffer |-> buffer]
              /\ ~(duration >= interval)
          BY <3>1 DEF NewCollector, interval, duration, buffer
        <4> QED
          BY <4>2, <4>3
      <3> QED
        BY <1>2, <2>1, <3>1 DEF StartCollector, AcceptedOptionsWork
    <2>3. todo = {}
      <3>1. CASE entries = <<>>
        BY <3>1 DEF TypeOK
      <3> QED
        BY <2>1, <3>1 DEF DeviceInv
    <2> QED
      BY <2>1, <2>2, <2>3
         DEF TypeOK, BatteryInv, BatteryVerdict, FreshInv, DeviceInv,
             DeviceVerdict, Distinct
  <1> QED
    BY <1>1, <1>2

\* The inductive invariant holds in every reachable state.
THEOREM Invariance == SafeSpec => []IInv
  <1>1. ASSUME IInv, [Next]_vars
        PROVE  IInv'
    <2>1. CASE UNCHANGED vars
      <3>1. UNCHANGED <<stage, entries, keys, todo, seen, parsed, options>>
        BY <2>1 DEF vars
      <3>2. Ranged' = Ranged /\ (OneResultEach => OneResultEach')
        BY <3>1 DEF Ranged, OneResultEach
      <3>3. BatteryInv' /\ BatteryVerdict'
        BY <1>1, <3>1, <3>2 DEF IInv, BatteryInv, BatteryVerdict
      <3>4. DeviceInv'
        BY <1>1, <3>1, <3>2 DEF IInv, DeviceInv
      <3>5. DeviceVerdict'
        BY <1>1, <3>1 DEF IInv, DeviceVerdict
      <3>6. TypeOK' /\ FreshInv' /\ Distinct' /\ AcceptedOptionsWork'
        BY <1>1, <3>1 DEF IInv, TypeOK, FreshInv, Distinct, AcceptedOptionsWork
      <3> QED
        BY <3>3, <3>4, <3>5, <3>6 DEF IInv
    <2> QED
      BY <1>1, <2>1, BatteryRound, DeviceRound, OtherSteps, ConstructorSteps
         DEF Next
  <1> QED
    BY InitIInv, <1>1, PTL DEF SafeSpec

\* Every variable keeps its type.
THEOREM TypeCorrect == SafeSpec => []TypeOK
  <1>1. IInv => TypeOK
    BY DEF IInv
  <1> QED
    BY Invariance, <1>1, PTL

\* Whatever the order of the map, the batteries are refused exactly for a
\* reason in the map, and accepted complete.
THEOREM BatteriesDecided == SafeSpec => []BatteryVerdict
  <1>1. IInv => BatteryVerdict
    BY DEF IInv
  <1> QED
    BY Invariance, <1>1, PTL

\* Whatever the order of the maps, devices are accepted only if each has a valid
\* key that names it and no key is left over, and refused only for a reason in
\* the maps where no ID has blanks around it.
THEOREM DevicesDecided == SafeSpec => []DeviceVerdict
  <1>1. IInv => DeviceVerdict
    BY DEF IInv
  <1> QED
    BY Invariance, <1>1, PTL

\* The collector never looks up one address and finds two devices.
THEOREM DevicesDistinct == SafeSpec => []NoDeviceTwice
  <1>1. IInv => NoDeviceTwice
    BY DEF IInv, Distinct, NoDeviceTwice
  <1> QED
    BY Invariance, <1>1, PTL

\* Any options the constructors accept, for any values tried, are usable.
THEOREM OptionsWork == SafeSpec => []AcceptedOptionsWork
  <1>1. IInv => AcceptedOptionsWork
    BY DEF IInv
  <1> QED
    BY Invariance, <1>1, PTL
=============================================================================
