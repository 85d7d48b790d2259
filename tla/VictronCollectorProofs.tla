----------------------- MODULE VictronCollectorProofs -----------------------
(***************************************************************************)
(* Proofs about VictronCollector for any devices, any capacity and any     *)
(* number of scans.                                                        *)
(***************************************************************************)
EXTENDS VictronCollector, StreamLemmas, FiniteSetTheorems

\* TypeOK without the bounds on the counters, which follow from the verdicts.
ControlTypeOK ==
  /\ pc \in {"scan", "handle", "wait", "closing", "returned"}
  /\ scan \in [Device -> Sightings]
  /\ pending \subseteq Device
  /\ seen \subseteq Device
  /\ count \in [Counters -> [Device -> Nat]]
  /\ scanFailures \in 0 .. MaxScans
  /\ scans \in 0 .. MaxScans
  /\ pc = "handle" => scans # 0
  /\ silent \in [Device -> Nat]
  /\ cancelled \in BOOLEAN

StreamTypeOK ==
  /\ queue \in Seq(Reading)
  /\ Len(queue) <= BufferSize
  /\ sealed \in BOOLEAN
  /\ writer \in {"receive", "insert", "drained", "done"}
  /\ writing \in Seq(Reading)
  /\ accepted \in Seq(Reading)
  /\ handled \in Seq(Reading)

\* While results are handled, a device has been reported as seen if its result
\* is dealt with and showed its state.
SeenInv ==
  pc = "handle" =>
    seen = {d \in Device : d \notin pending /\ Seen(scan[d])}

\* How many scans have had their verdict on a device.
Verdicts(d) ==
  count["missed"][d] + count["unsupported"][d] + count["decryptFailures"][d]
    + count["decodeFailures"][d] + count["dropped"][d] + count["readings"][d]

\* The scan that is being handled counts for a device from when it has been
\* seen; one that was silent is not counted as missed until the end.
VerdictInv ==
  \A d \in Device :
    /\ Verdicts(d) + (IF pc = "handle" /\ d \notin seen THEN 1 ELSE 0) = scans
    /\ count["missed"][d]
         + (IF pc = "handle" /\ ~Seen(scan[d]) THEN 1 ELSE 0) = silent[d]

\* The drain loop holds a reading exactly while it inserts, and is past its
\* range only on a closed and empty channel.
WriterInv ==
  /\ sealed <=> pc = "returned"
  /\ writer = "insert" <=> writing # <<>>
  /\ Len(writing) <= 1
  /\ writer \in {"drained", "done"} => sealed /\ queue = <<>>

\* The readings of device d among those of a sequence, by position.
ReadingsOf(s, d) == {i \in DOMAIN s : s[i][1] = d}

\* What was counted as published is what was sent, and is where it should be.
StreamInv ==
  /\ Joins(accepted, handled, writing, queue)
  /\ \A d \in Device :
       count["readings"][d] = Cardinality(ReadingsOf(accepted, d))

IInv ==
  /\ ControlTypeOK
  /\ StreamTypeOK
  /\ SeenInv
  /\ VerdictInv
  /\ WriterInv
  /\ StreamInv

\* One more reading in a sequence is one more of its device and of no other.
LEMMA OneReadingMore ==
  ASSUME NEW s \in Seq(Reading), NEW r \in Reading, NEW d \in Device
  PROVE  Cardinality(ReadingsOf(Append(s, r), d))
           = Cardinality(ReadingsOf(s, d)) + (IF r[1] = d THEN 1 ELSE 0)
  <1> DEFINE n == Len(s) + 1
  <1>1. /\ DOMAIN s = 1 .. Len(s) /\ Len(s) \in Nat
        /\ DOMAIN Append(s, r) = 1 .. n
        /\ \A i \in 1 .. Len(s) : Append(s, r)[i] = s[i]
        /\ Append(s, r)[n] = r
    BY AppendProperties, LenProperties
  <1>2. /\ IsFiniteSet(ReadingsOf(s, d))
        /\ n \notin ReadingsOf(s, d)
    <2>1. IsFiniteSet(DOMAIN s)
      BY <1>1, FS_Interval
    <2> QED
      BY <2>1, <1>1, FS_Subset DEF ReadingsOf
  <1>3. CASE r[1] = d
    <2>1. ReadingsOf(Append(s, r), d) = ReadingsOf(s, d) \cup {n}
      BY <1>1, <1>3 DEF ReadingsOf
    <2>2. Cardinality(ReadingsOf(s, d) \cup {n}) = Cardinality(ReadingsOf(s, d)) + 1
      BY <1>2, FS_AddElement
    <2> QED
      BY <1>3, <2>1, <2>2
  <1>4. CASE r[1] # d
    <2>1. ReadingsOf(Append(s, r), d) = ReadingsOf(s, d)
      BY <1>1, <1>4 DEF ReadingsOf
    <2>2. Cardinality(ReadingsOf(s, d)) \in Nat
      BY <1>2, FS_CardinalityType
    <2> QED
      BY <1>4, <2>1, <2>2
  <1> QED
    BY <1>3, <1>4

LEMMA InitIInv == Init => IInv
  <1> SUFFICES ASSUME Init PROVE IInv
    OBVIOUS
  <1> USE DEF Init
  <1>1. ControlTypeOK
    <2>1. 0 \in 0 .. MaxScans
      BY ScansAssumption
    <2>2. count \in [Counters -> [Device -> Nat]] /\ silent \in [Device -> Nat]
      OBVIOUS
    <2>3. scan \in [Device -> Sightings]
      BY DEF Sightings
    <2> QED
      BY <2>1, <2>2, <2>3 DEF ControlTypeOK
  <1>2. <<>> \in Seq(Reading) /\ Len(<<>>) = 0
    BY EmptySeq
  <1>3. StreamTypeOK
    <2>1. queue \in Seq(Reading) /\ writing \in Seq(Reading)
      BY <1>2
    <2>2. accepted \in Seq(Reading) /\ handled \in Seq(Reading)
      BY <1>2
    <2>3. Len(queue) <= BufferSize
      BY <1>2, BufferSizeAssumption
    <2> QED
      BY <2>1, <2>2, <2>3 DEF StreamTypeOK
  <1>4. SeenInv /\ WriterInv
    BY <1>2 DEF SeenInv, WriterInv
  <1>5. VerdictInv
    <2>1. ASSUME NEW d \in Device
          PROVE  \A c \in Counters : count[c][d] = 0
      OBVIOUS
    <2>2. ASSUME NEW d \in Device
          PROVE  Verdicts(d) = 0
      BY <2>1 DEF Verdicts, Counters
    <2>3. \A d \in Device : count["missed"][d] = 0 /\ silent[d] = 0
      BY <2>1 DEF Counters
    <2> QED
      BY <2>2, <2>3 DEF VerdictInv
  <1>6. StreamInv
    <2>1. Joins(accepted, handled, writing, queue)
      BY <1>2, ConcatEmptySeq DEF Joins
    <2>2. ASSUME NEW d \in Device
          PROVE  count["readings"][d] = Cardinality(ReadingsOf(accepted, d))
      <3>1. ReadingsOf(accepted, d) = {}
        BY DEF ReadingsOf
      <3>2. count["readings"][d] = 0
        BY DEF Counters
      <3> QED
        BY <3>1, <3>2, FS_EmptySet
    <2> QED
      BY <2>1, <2>2 DEF StreamInv
  <1> QED
    BY <1>1, <1>3, <1>4, <1>5, <1>6 DEF IInv

LEMMA TypeStep ==
  ASSUME ControlTypeOK, StreamTypeOK, WriterInv, [Next]_vars
  PROVE  ControlTypeOK' /\ StreamTypeOK'
  <1> USE ScansAssumption
      DEF ControlTypeOK, StreamTypeOK, resultVars, counterVars, writerVars,
          streamVars, collectorVars
  <1>1. ASSUME ScanFails
        PROVE  ControlTypeOK' /\ StreamTypeOK'
    BY <1>1 DEF ScanFails
  <1>2. ASSUME ScanReturns
        PROVE  ControlTypeOK' /\ StreamTypeOK'
    <2>1. silent' \in [Device -> Nat]
      BY <1>2 DEF ScanReturns
    <2>2. scans' \in 1 .. MaxScans
      BY <1>2 DEF ScanReturns
    <2> QED
      BY <1>2, <2>1, <2>2 DEF ScanReturns
  <1>3. ASSUME NEW cs, NEW ds, Increment(cs, ds)
        PROVE  count' \in [Counters -> [Device -> Nat]]
    BY <1>3 DEF Increment
  <1>4. ASSUME NEW d \in Device, Handle(d)
        PROVE  ControlTypeOK' /\ StreamTypeOK'
    <2>1. <<d, scans>> \in Reading
      BY <1>4 DEF Handle, HandleSending, Reading
    <2>2. /\ queue' \in Seq(Reading)
          /\ Len(queue') <= BufferSize
          /\ accepted' \in Seq(Reading)
      <3>1. CASE Publishes(d)
        <4>1. \A s \in Seq(Reading) :
                /\ Append(s, <<d, scans>>) \in Seq(Reading)
                /\ Len(Append(s, <<d, scans>>)) = Len(s) + 1
          BY <2>1, AppendProperties
        <4>2. Len(queue) \in Nat /\ Len(queue) < BufferSize
          BY <3>1, LenProperties DEF Publishes
        <4>3. /\ queue' = Append(queue, <<d, scans>>)
              /\ accepted' = Append(accepted, <<d, scans>>)
          BY <1>4, <3>1 DEF Handle, HandleSending
        <4>4. queue' \in Seq(Reading) /\ accepted' \in Seq(Reading)
          BY <4>1, <4>3, Zenon
        <4>5. Len(queue') = Len(queue) + 1
          BY <4>1, <4>3, Zenon
        <4> QED
          BY <4>2, <4>4, <4>5, BufferSizeAssumption
      <3>2. CASE ~Publishes(d)
        BY <1>4, <3>2 DEF Handle, HandleSending
      <3> QED
        BY <3>1, <3>2
    <2>3. count' \in [Counters -> [Device -> Nat]]
      BY <1>3, <1>4 DEF Handle, HandleSending
    <2> QED
      BY <1>4, <2>2, <2>3 DEF Handle, HandleSending
  <1>5. ASSUME RecordMissed
        PROVE  ControlTypeOK' /\ StreamTypeOK'
    <2>1. count' \in [Counters -> [Device -> Nat]]
      BY <1>3, <1>5 DEF RecordMissed
    <2> QED
      BY <1>5, <2>1 DEF RecordMissed
  <1>6. ASSUME Tick \/ Stop \/ CloseReadings \/ Cancel
        PROVE  ControlTypeOK' /\ StreamTypeOK'
    BY <1>6 DEF Tick, Stop, CloseReadings, Cancel
  <1>7. ASSUME Receive
        PROVE  ControlTypeOK' /\ StreamTypeOK'
    <2>1. /\ Head(queue) \in Reading
          /\ Tail(queue) \in Seq(Reading)
          /\ Len(Tail(queue)) = Len(queue) - 1
          /\ Len(queue) \in Nat
      BY <1>7, HeadTailProperties, LenProperties DEF Receive
    <2>2. <<Head(queue)>> \in Seq(Reading)
      BY <2>1
    <2>3. Len(Tail(queue)) <= BufferSize
      BY <2>1, BufferSizeAssumption
    <2> QED
      BY <1>7, <2>1, <2>2, <2>3 DEF Receive
  <1>8. ASSUME Insert
        PROVE  ControlTypeOK' /\ StreamTypeOK'
    <2>1. handled \o writing \in Seq(Reading) /\ <<>> \in Seq(Reading)
      BY ConcatProperties, EmptySeq
    <2> QED
      BY <1>8, <2>1 DEF Insert
  <1>9. ASSUME EndOfRange \/ ReportDone
        PROVE  ControlTypeOK' /\ StreamTypeOK'
    BY <1>9 DEF EndOfRange, EndOfRangeWhen, ReportDone
  <1>10. CASE UNCHANGED vars
    BY <1>10 DEF vars
  <1> QED
    BY <1>1, <1>2, <1>4, <1>5, <1>6, <1>7, <1>8, <1>9, <1>10 DEF Next, Work, Write

\* Handling a result moves its device from pending to seen, if it showed its
\* state; a new scan starts over.
LEMMA SeenStep ==
  ASSUME ControlTypeOK, SeenInv, [Next]_vars
  PROVE  SeenInv'
  <1> USE DEF ControlTypeOK, SeenInv, Seen, resultVars, collectorVars
  <1>1. ASSUME ScanReturns
        PROVE  SeenInv'
    BY <1>1 DEF ScanReturns
  <1>2. ASSUME NEW d \in Device, Handle(d)
        PROVE  SeenInv'
    BY <1>2 DEF Handle, HandleSending
  <1>3. CASE ScanFails \/ RecordMissed \/ CloseReadings \/ Tick \/ Stop \/ Cancel
    BY <1>3 DEF ScanFails, RecordMissed, CloseReadings, Tick, Stop, Cancel
  <1>4. CASE Write \/ UNCHANGED vars
    BY <1>4 DEF Write, Receive, Insert, EndOfRange, EndOfRangeWhen, ReportDone,
                vars
  <1> QED
    BY <1>1, <1>2, <1>3, <1>4 DEF Next, Work

\* Only handling a result and the loop over the devices not seen touch the
\* counters, and each gives its device one verdict of the current scan.
LEMMA VerdictStep ==
  ASSUME ControlTypeOK, ControlTypeOK', SeenInv, VerdictInv, [Next]_vars
  PROVE  VerdictInv'
  <1> USE DEF resultVars, counterVars, collectorVars
  <1>a. ASSUME NEW d \in Device, NEW c \in Counters
        PROVE  count[c][d] \in Nat
    BY DEF ControlTypeOK
  <1>b. ASSUME NEW cs, NEW ds, Increment(cs, ds), NEW c \in Counters,
               NEW d \in Device
        PROVE  count'[c][d] = count[c][d] + (IF c \in cs /\ d \in ds THEN 1 ELSE 0)
    BY <1>b DEF Increment
  <1>1. ASSUME ScanReturns
        PROVE  VerdictInv'
    <2>1. /\ pc = "scan" /\ pc' = "handle" /\ seen' = {} /\ scans' = scans + 1
          /\ UNCHANGED count
      BY <1>1 DEF ScanReturns
    <2>2. ASSUME NEW d \in Device
          PROVE  silent'[d] = silent[d] + (IF ~Seen(scan[d])' THEN 1 ELSE 0)
      BY <1>1 DEF ScanReturns, Seen
    <2>3. ASSUME NEW d \in Device
          PROVE  Verdicts(d)' = Verdicts(d) /\ Verdicts(d) = scans /\ scans \in Nat
      BY <2>1, <1>a, ScansAssumption DEF VerdictInv, Verdicts, ControlTypeOK, Counters
    <2>4. ASSUME NEW d \in Device
          PROVE  /\ silent[d] \in Nat
                 /\ count'["missed"][d] = silent[d]
      BY <2>1, <1>a DEF VerdictInv, ControlTypeOK, Counters
    <2> QED
      BY <2>1, <2>2, <2>3, <2>4 DEF VerdictInv
  <1>2. ASSUME NEW e \in Device, Handle(e)
        PROVE  VerdictInv'
    <2>1. /\ pc = "handle" /\ pc' = "handle" /\ e \in pending /\ e \notin seen
          /\ seen' = IF Seen(scan[e]) THEN seen \cup {e} ELSE seen
          /\ Increment(CounterOf(e), {e})
          /\ UNCHANGED <<scan, scans, silent>>
      BY <1>2 DEF Handle, HandleSending, SeenInv
    <2>2. ASSUME NEW d \in Device \ {e}, NEW c \in Counters
          PROVE  count'[c][d] = count[c][d]
      BY <2>1, <1>a, <1>b
    <2>3. \A c \in Counters :
            count'[c][e] = count[c][e] + (IF c \in CounterOf(e) THEN 1 ELSE 0)
      BY <2>1, <1>b
    <2>4. \/ ~Seen(scan[e]) /\ CounterOf(e) = {}
          \/ /\ Seen(scan[e])
             /\ \E c \in Counters \ {"missed"} : CounterOf(e) = {c}
      BY DEF ControlTypeOK, Sightings, Seen, CounterOf, Counters
    <2>5. count'["missed"][e] = count["missed"][e]
      BY <2>3, <2>4, <1>a DEF Counters
    <2>6. Verdicts(e)' = Verdicts(e) + (IF Seen(scan[e]) THEN 1 ELSE 0)
      <3>1. CASE CounterOf(e) = {}
        BY <2>3, <2>4, <3>1, <1>a DEF Verdicts, Counters
      <3>2. ASSUME NEW c \in Counters \ {"missed"}, CounterOf(e) = {c}, Seen(scan[e])
            PROVE  Verdicts(e)' = Verdicts(e) + 1
        <4>1. \A b \in Counters :
                count'[b][e] = count[b][e] + (IF b = c THEN 1 ELSE 0)
          BY <2>3, <3>2
        <4> QED
          BY <4>1, <1>a DEF Verdicts, Counters
      <3> QED
        BY <2>4, <3>1, <3>2
    <2>7. ASSUME NEW d \in Device \ {e}
          PROVE  /\ Verdicts(d)' = Verdicts(d)
                 /\ count'["missed"][d] = count["missed"][d]
                 /\ d \in seen' <=> d \in seen
      BY <2>1, <2>2 DEF Verdicts, Counters
    <2>8. /\ Verdicts(e) \in Nat
          /\ Verdicts(e) + 1 = scans
          /\ Seen(scan[e])' <=> Seen(scan[e])
          /\ e \in seen' <=> Seen(scan[e])
      BY <2>1, <1>a DEF VerdictInv, Verdicts, Counters, Seen
    <2>9. /\ Verdicts(e)' + (IF pc' = "handle" /\ e \notin seen' THEN 1 ELSE 0) = scans'
          /\ count'["missed"][e]
               + (IF pc' = "handle" /\ ~Seen(scan[e])' THEN 1 ELSE 0) = silent'[e]
      BY <2>1, <2>5, <2>6, <2>8 DEF VerdictInv
    <2>10. ASSUME NEW d \in Device \ {e}
           PROVE  /\ Verdicts(d)' + (IF pc' = "handle" /\ d \notin seen' THEN 1 ELSE 0) = scans'
                  /\ count'["missed"][d]
                       + (IF pc' = "handle" /\ ~Seen(scan[d])' THEN 1 ELSE 0) = silent'[d]
      BY <2>1, <2>7 DEF VerdictInv, Seen
    <2> QED
      BY <2>9, <2>10 DEF VerdictInv
  <1>3. ASSUME RecordMissed
        PROVE  VerdictInv'
    <2>1. /\ pc = "handle" /\ pc' = "wait" /\ pending = {}
          /\ Increment({"missed"}, Device \ seen)
          /\ UNCHANGED <<scan, seen, scans, silent>>
      BY <1>3 DEF RecordMissed
    <2>2. ASSUME NEW d \in Device
          PROVE  /\ d \in seen <=> Seen(scan[d])
                 /\ Verdicts(d)' = Verdicts(d) + (IF d \notin seen THEN 1 ELSE 0)
                 /\ count'["missed"][d]
                      = count["missed"][d] + (IF d \notin seen THEN 1 ELSE 0)
      <3>1. d \in seen <=> Seen(scan[d])
        BY <2>1 DEF SeenInv
      <3>2. \A c \in Counters :
              count'[c][d] = count[c][d]
                + (IF c \in {"missed"} /\ d \in Device \ seen THEN 1 ELSE 0)
        BY <2>1, <1>b
      <3> QED
        BY <3>1, <3>2, <1>a DEF Verdicts, Counters
    <2>3. ASSUME NEW d \in Device
          PROVE  Verdicts(d) \in Nat /\ count["missed"][d] \in Nat
      BY <1>a DEF Verdicts, Counters
    <2> QED
      BY <2>1, <2>2, <2>3 DEF VerdictInv
  <1>4. ASSUME pc # "handle", pc' # "handle", UNCHANGED <<count, scans, silent>>
        PROVE  VerdictInv'
    BY <1>4 DEF VerdictInv, Verdicts
  <1>5. ASSUME UNCHANGED <<pc, scan, seen, scans, silent, count>>
        PROVE  VerdictInv'
    BY <1>5 DEF VerdictInv, Verdicts, Seen
  <1>6. CASE ScanFails \/ CloseReadings \/ Tick \/ Stop
    BY <1>4, <1>6 DEF ScanFails, CloseReadings, Tick, Stop
  <1>7. CASE Cancel \/ Write \/ UNCHANGED vars
    BY <1>5, <1>7 DEF Cancel, Write, Receive, Insert, EndOfRange, EndOfRangeWhen,
                      ReportDone, vars
  <1> QED
    BY <1>1, <1>2, <1>3, <1>6, <1>7 DEF Next, Work

\* The loop's own state changes only in its own steps, and nothing enters the
\* channel after it was closed.
LEMMA WriterStep ==
  ASSUME StreamTypeOK, ControlTypeOK, WriterInv, [Next]_vars
  PROVE  WriterInv'
  <1> USE DEF StreamTypeOK, WriterInv, resultVars, counterVars, writerVars,
              streamVars, collectorVars
  <1>1. ASSUME NEW d \in Device, Handle(d)
        PROVE  WriterInv'
    BY <1>1 DEF Handle, HandleSending, Publishes
  <1>2. CASE ScanFails \/ ScanReturns \/ RecordMissed \/ Tick \/ Stop \/ Cancel
    BY <1>2 DEF ScanFails, ScanReturns, RecordMissed, Tick, Stop, Cancel
  <1>3. CASE CloseReadings
    BY <1>3 DEF CloseReadings
  <1>4. CASE Receive
    BY <1>4 DEF Receive
  <1>5. CASE Insert
    BY <1>5, EmptySeq DEF Insert
  <1>6. CASE EndOfRange \/ ReportDone
    BY <1>6 DEF EndOfRange, EndOfRangeWhen, ReportDone
  <1>7. CASE UNCHANGED vars
    BY <1>7 DEF vars
  <1> QED
    BY <1>1, <1>2, <1>3, <1>4, <1>5, <1>6, <1>7 DEF Next, Work, Write

\* What is counted as published is what is sent, and it stays in one of the
\* three places a reading can be in.
LEMMA StreamStep ==
  ASSUME ControlTypeOK, StreamTypeOK, WriterInv, StreamInv, [Next]_vars
  PROVE  StreamInv'
  <1> USE DEF resultVars, counterVars, writerVars, streamVars, collectorVars
  <1>1. ASSUME NEW e \in Device, Handle(e)
        PROVE  StreamInv'
    <2>1. UNCHANGED <<handled, writing, scans>>
      BY <1>1 DEF Handle, HandleSending
    <2>2. ASSUME NEW d \in Device
          PROVE  count'["readings"][d] = count["readings"][d]
                   + (IF d = e /\ Publishes(e) THEN 1 ELSE 0)
      <3>1. "readings" \in CounterOf(e) <=> Publishes(e)
        BY DEF CounterOf, Publishes
      <3> QED
        BY <1>1, <3>1 DEF Handle, HandleSending, Increment, Counters
    <2>3. CASE Publishes(e)
      <3>1. <<e, scans>> \in Reading
        BY <1>1 DEF Handle, HandleSending, Reading, ControlTypeOK
      <3>2. /\ queue' = Append(queue, <<e, scans>>)
            /\ accepted' = Append(accepted, <<e, scans>>)
        BY <1>1, <2>3 DEF Handle, HandleSending
      <3>3. Joins(accepted', handled', writing', queue')
        BY <2>1, <3>1, <3>2, SentLast DEF StreamTypeOK, StreamInv
      <3>4. ASSUME NEW d \in Device
            PROVE  count'["readings"][d] = Cardinality(ReadingsOf(accepted', d))
        <4>1. Cardinality(ReadingsOf(Append(accepted, <<e, scans>>), d))
                = Cardinality(ReadingsOf(accepted, d))
                    + (IF <<e, scans>>[1] = d THEN 1 ELSE 0)
          BY <3>1, OneReadingMore DEF StreamTypeOK
        <4>2. <<e, scans>>[1] = e
          OBVIOUS
        <4>3. count["readings"][d] = Cardinality(ReadingsOf(accepted, d))
          BY DEF StreamInv
        <4>4. Cardinality(ReadingsOf(accepted', d))
                = count["readings"][d] + (IF e = d THEN 1 ELSE 0)
          BY <3>2, <4>1, <4>2, <4>3
        <4> QED
          BY <2>2, <2>3, <4>4
      <3> QED
        BY <3>3, <3>4 DEF StreamInv, ReadingsOf
    <2>4. CASE ~Publishes(e)
      <3>1. UNCHANGED <<queue, accepted>>
        BY <1>1, <2>4 DEF Handle, HandleSending
      <3>2. ASSUME NEW d \in Device
            PROVE  count'["readings"][d] = count["readings"][d]
        BY <2>2, <2>4 DEF ControlTypeOK, Counters
      <3> QED
        BY <2>1, <3>1, <3>2 DEF StreamInv, ReadingsOf
    <2> QED
      BY <2>3, <2>4
  <1>2. CASE RecordMissed
    <2>1. UNCHANGED <<accepted, handled, writing, queue>>
      BY <1>2 DEF RecordMissed
    <2>2. ASSUME NEW d \in Device
          PROVE  count'["readings"][d] = count["readings"][d]
      BY <1>2 DEF RecordMissed, Increment, Counters, ControlTypeOK
    <2> QED
      BY <2>1, <2>2 DEF StreamInv, ReadingsOf
  <1>3. CASE Receive
    <2>1. writing = <<>> /\ queue # <<>>
      BY <1>3 DEF Receive, WriterInv
    <2>2. Joins(accepted, handled, <<Head(queue)>>, Tail(queue))
      BY <2>1, ReceivedFirst DEF StreamTypeOK, StreamInv
    <2>3. /\ writing' = <<Head(queue)>> /\ queue' = Tail(queue)
          /\ UNCHANGED <<accepted, handled, count>>
      BY <1>3 DEF Receive
    <2> QED
      BY <2>2, <2>3 DEF StreamInv, ReadingsOf
  <1>4. CASE Insert
    <2>1. Joins(accepted, handled \o writing, <<>>, queue)
      BY InsertedNext DEF StreamTypeOK, StreamInv
    <2>2. /\ writing' = <<>> /\ handled' = handled \o writing
          /\ UNCHANGED <<accepted, queue, count>>
      BY <1>4 DEF Insert
    <2> QED
      BY <2>1, <2>2 DEF StreamInv, ReadingsOf
  <1>5. ASSUME UNCHANGED <<accepted, handled, writing, queue, count>>
        PROVE  StreamInv'
    BY <1>5 DEF StreamInv, ReadingsOf
  <1>6. CASE ScanFails \/ ScanReturns \/ CloseReadings \/ Tick \/ Stop \/ Cancel
    BY <1>5, <1>6 DEF ScanFails, ScanReturns, CloseReadings, Tick, Stop, Cancel
  <1>7. CASE EndOfRange \/ ReportDone \/ UNCHANGED vars
    BY <1>5, <1>7 DEF EndOfRange, EndOfRangeWhen, ReportDone, vars
  <1> QED
    BY <1>1, <1>2, <1>3, <1>4, <1>6, <1>7 DEF Next, Work, Write

\* The inductive invariant holds in every reachable state.
THEOREM Invariance == SafeSpec => []IInv
  <1>1. ASSUME IInv, [Next]_vars
        PROVE  IInv'
    <2>1. /\ ControlTypeOK /\ StreamTypeOK /\ SeenInv /\ VerdictInv
          /\ WriterInv /\ StreamInv
      BY <1>1 DEF IInv
    <2>2. ControlTypeOK' /\ StreamTypeOK'
      BY <1>1, <2>1, TypeStep
    <2>3. SeenInv'
      BY <1>1, <2>1, SeenStep
    <2>4. VerdictInv'
      BY <1>1, <2>1, <2>2, VerdictStep
    <2>5. WriterInv'
      BY <1>1, <2>1, WriterStep
    <2>6. StreamInv'
      BY <1>1, <2>1, StreamStep
    <2> QED
      BY <2>2, <2>3, <2>4, <2>5, <2>6 DEF IInv
  <1> QED
    BY InitIInv, <1>1, PTL DEF SafeSpec

\* Every variable keeps its type; no counter of a device exceeds the number of
\* scans, because each scan gives one verdict.
THEOREM TypeCorrect == SafeSpec => []TypeOK
  <1>1. ASSUME IInv
        PROVE  TypeOK
    <2> USE <1>1 DEF IInv
    <2>1. ASSUME NEW d \in Device, NEW c \in Counters
          PROVE  count[c][d] \in 0 .. MaxScans
      <3>1. \A b \in Counters : count[b][d] \in Nat
        BY DEF ControlTypeOK
      <3>2. count[c][d] <= Verdicts(d) /\ Verdicts(d) \in Nat
        BY <3>1 DEF Verdicts, Counters
      <3>3. Verdicts(d) <= scans /\ scans \in 0 .. MaxScans
        BY <3>2 DEF VerdictInv, ControlTypeOK
      <3> QED
        BY <3>1, <3>2, <3>3, ScansAssumption
    <2>2. ASSUME NEW d \in Device
          PROVE  silent[d] \in 0 .. MaxScans
      <3>1. /\ \A b \in Counters : count[b][d] \in Nat
            /\ scans \in 0 .. MaxScans
        BY DEF ControlTypeOK
      <3>2. pc = "handle" /\ ~Seen(scan[d]) => d \notin seen
        BY DEF SeenInv
      <3>3. silent[d] <= scans /\ silent[d] \in Nat
        BY <3>1, <3>2, ScansAssumption DEF VerdictInv, Verdicts, Counters
      <3> QED
        BY <3>1, <3>3, ScansAssumption
    <2>3. count \in [Counters -> [Device -> 0 .. MaxScans]]
      BY <2>1 DEF ControlTypeOK
    <2>4. silent \in [Device -> 0 .. MaxScans]
      BY <2>2 DEF ControlTypeOK
    <2> QED
      BY <2>3, <2>4 DEF ControlTypeOK, StreamTypeOK, TypeOK
  <1> QED
    BY Invariance, <1>1, PTL

\* For any devices and any order of results, the missed counter is the number
\* of scans in which a device was silent.
THEOREM MissedCorrect == SafeSpec => []MissedMeansSilent
  <1>1. IInv => MissedMeansSilent
    BY DEF IInv, ControlTypeOK, VerdictInv, MissedMeansSilent, Counters
  <1> QED
    BY Invariance, <1>1, PTL

\* For any devices, each completed scan adds one to exactly one counter of each.
THEOREM VerdictsCorrect == SafeSpec => []OneVerdictPerScan
  <1>1. ASSUME IInv
        PROVE  OneVerdictPerScan
    <2>1. \A c \in Counters, d \in Device : count[c][d] \in Nat
      BY <1>1 DEF IInv, ControlTypeOK
    <2> QED
      BY <1>1, <2>1 DEF IInv, VerdictInv, Verdicts, OneVerdictPerScan, Counters
  <1> QED
    BY Invariance, <1>1, PTL

\* When startVictron reports, every reading counted as published has been
\* handled, whatever the capacity and however late the database was.
THEOREM DrainedWhenDone == SafeSpec => []DoneMeansDrained
  <1>1. ASSUME IInv, writer = "done"
        PROVE  /\ pc = "returned"
               /\ \A d \in Device :
                    count["readings"][d] = Cardinality(ReadingsOf(handled, d))
    <2>1. queue = <<>> /\ writing = <<>> /\ pc = "returned"
      BY <1>1 DEF IInv, WriterInv
    <2>2. Joins(accepted, handled, <<>>, <<>>)
      BY <1>1, <2>1 DEF IInv, StreamInv
    <2>3. handled = accepted
      BY <1>1, <2>2, AllHandled DEF IInv, StreamTypeOK
    <2> QED
      BY <1>1, <2>1, <2>3 DEF IInv, StreamInv
  <1>2. IInv => DoneMeansDrained
    BY <1>1 DEF DoneMeansDrained, ReadingsOf
  <1> QED
    BY Invariance, <1>2, PTL

\* The collector, its channel and its drain loop are, step by step, the same
\* bounded stream that the battery manager's queue implements.
THEOREM Refinement == SafeSpec => Stream!SafeSpec
  <1>1. Init => Stream!Init
    BY DEF Init, Stream!Init, Stage
  <1>2. ASSUME IInv, [Next]_vars
        PROVE  [Stream!Next]_(Stream!vars)
    <2> USE <1>2 DEF IInv, resultVars, counterVars, writerVars, streamVars,
                     collectorVars
    <2>1. ASSUME UNCHANGED <<accepted, handled, writer, sealed>>
          PROVE  UNCHANGED Stream!vars
      BY <2>1 DEF Stream!vars, Stage
    <2>2. ASSUME NEW d \in Device, Handle(d)
          PROVE  \/ \E r \in Reading : Stream!Accept(r)
                 \/ UNCHANGED Stream!vars
      <3>1. UNCHANGED <<handled, writer, sealed>>
        BY <2>2 DEF Handle, HandleSending
      <3>2. CASE Publishes(d)
        <4>1. <<d, scans>> \in Reading
          BY <2>2 DEF Handle, HandleSending, Reading, ControlTypeOK
        <4>2. accepted' = Append(accepted, <<d, scans>>)
          BY <2>2, <3>2 DEF Handle, HandleSending
        <4>3. Len(accepted) = Len(handled) + Len(writing) + Len(queue)
          BY ConcatProperties, LenProperties DEF StreamTypeOK, StreamInv, Joins
        <4>4. /\ Len(handled) \in Nat /\ Len(writing) \in Nat
              /\ Len(queue) \in Nat /\ BufferSize \in Nat
          BY LenProperties, BufferSizeAssumption DEF StreamTypeOK
        <4>5. Len(accepted) - Len(handled) < BufferSize + 1
          BY <3>2, <4>3, <4>4 DEF WriterInv, Publishes
        <4>6. ~sealed /\ writer \notin {"drained", "done"}
          BY <3>2 DEF WriterInv, Publishes
        <4>7. Stream!Accept(<<d, scans>>)
          BY <3>1, <4>2, <4>5, <4>6 DEF Stream!Accept, Stage
        <4> QED
          BY <4>1, <4>7
      <3>3. CASE ~Publishes(d)
        BY <2>1, <2>2, <3>1, <3>3 DEF Handle, HandleSending
      <3> QED
        BY <3>2, <3>3
    <2>3. ASSUME Insert
          PROVE  Stream!Handle
      <3>1. /\ writer = "insert" /\ writer' = "receive"
            /\ writing # <<>> /\ Len(writing) <= 1
            /\ handled' = handled \o writing
            /\ UNCHANGED <<accepted, sealed>>
        BY <2>3 DEF Insert, WriterInv
      <3>2. /\ handled \in Seq(Reading) /\ writing \in Seq(Reading)
            /\ queue \in Seq(Reading)
            /\ accepted = handled \o writing \o queue
        BY DEF StreamTypeOK, StreamInv, Joins
      <3>3. /\ handled' = Append(handled, writing[1])
            /\ Len(handled) < Len(accepted)
            /\ accepted[Len(handled) + 1] = writing[1]
        BY <3>1, <3>2, OneInTheMiddle
      <3> QED
        BY <3>1, <3>3 DEF Stream!Handle, Stage
    <2>4. ASSUME CloseReadings
          PROVE  Stream!Seal
      BY <2>4 DEF CloseReadings, Stream!Seal, Stage, WriterInv
    <2>5. ASSUME EndOfRange
          PROVE  Stream!End
      <3>1. /\ writing = <<>> /\ queue = <<>> /\ sealed
            /\ writer = "receive" /\ writer' = "drained"
            /\ UNCHANGED <<accepted, handled, sealed>>
        BY <2>5 DEF EndOfRange, EndOfRangeWhen, WriterInv
      <3>2. handled = accepted
        BY <3>1, AllHandled DEF StreamTypeOK, StreamInv
      <3> QED
        BY <3>1, <3>2 DEF Stream!End, Stage
    <2>6. CASE Receive
      <3>1. writer = "receive" /\ writer' = "insert"
        BY <2>6 DEF Receive
      <3> QED
        BY <2>6, <3>1 DEF Receive, Stream!vars, Stage
    <2>7. CASE ReportDone
      <3>1. writer = "drained" /\ writer' = "done"
        BY <2>7 DEF ReportDone
      <3> QED
        BY <2>7, <3>1 DEF ReportDone, Stream!vars, Stage
    <2>8. CASE ScanFails \/ ScanReturns \/ RecordMissed \/ Tick \/ Stop \/ Cancel
      BY <2>1, <2>8 DEF ScanFails, ScanReturns, RecordMissed, Tick, Stop, Cancel
    <2>9. CASE UNCHANGED vars
      BY <2>1, <2>9 DEF vars
    <2> QED
      BY <2>2, <2>3, <2>4, <2>5, <2>6, <2>7, <2>8, <2>9
         DEF Next, Work, Write, Stream!Next
  <1> QED
    BY Invariance, <1>1, <1>2, PTL DEF SafeSpec, Stream!SafeSpec
=============================================================================
