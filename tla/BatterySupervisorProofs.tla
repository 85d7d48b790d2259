----------------------- MODULE BatterySupervisorProofs -----------------------
(***************************************************************************)
(* Proofs about BatterySupervisor for any batteries, any backoffs and any  *)
(* number of mishaps.                                                      *)
(***************************************************************************)
EXTENDS BatterySupervisor, TLAPS

Labels == {"off", "top", "scan", "scanning", "connect", "connecting",
           "connected", "poll", "disconnect", "lost", "sleep", "done"}

\* Run's place: no goroutine before the startup scan has succeeded, none left
\* once the wait group is done, and the stream closed at the very end.
RunInv ==
  /\ run \in {"start", "scan", "scanning", "failed"} =>
       \A b \in Battery : pc[b] = "off"
  /\ run \in {"waited", "failed", "returned"} =>
       \A b \in Battery : pc[b] \in {"off", "done"}
  /\ closed => run = "returned"

\* A connection and the gauge that shows it belong to a stretch of the
\* supervisor's loop, and so does the shortest backoff.
LinkInv ==
  \A b \in Battery :
    /\ b \in link <=> pc[b] \in {"connected", "poll", "disconnect"}
    /\ gauge[b] = "up" <=> pc[b] \in {"poll", "disconnect"}
    /\ pc[b] \in {"poll", "disconnect", "lost"} => backoff[b] = MinBackoff

\* The connections the counter has not caught up with.
CountInv ==
  \A b \in Battery :
    connects[b] - reconnects[b] \in
      CASE pc[b] \in {"connected", "poll", "disconnect", "lost"} -> {1}
        [] pc[b] = "done" -> {0, 1}
        [] OTHER -> {0}

\* A loss that is certain but not counted yet: the polling has ended, or its
\* device is gone.
Owed(b) ==
  IF /\ ~cancelled
     /\ \/ pc[b] \in {"disconnect", "lost"}
        \/ pc[b] \in {"connected", "poll"} /\ ~Answers(b)
  THEN 1 ELSE 0

\* A double in range is a mishap that can still cause one loss, by vanishing.
InHand(b) == IF b \in doubles THEN 1 ELSE 0

CauseInv == \A b \in Battery : reconnects[b] + Owed(b) + InHand(b) <= mishaps

IInv == TypeOK /\ RunInv /\ LinkInv /\ CountInv /\ CauseInv

LEMMA InitIInv == Init => IInv
  <1> SUFFICES ASSUME Init PROVE IInv
    OBVIOUS
  <1> USE DEF Init
  <1>1. TypeOK
    <2>1. MinBackoff \in MinBackoff .. MaxBackoff /\ 0 \in 0 .. MaxMishaps
      BY BackoffAssumption, MishapsAssumption
    <2>2. backoff \in [Battery -> MinBackoff .. MaxBackoff]
      BY <2>1
    <2>3. connects \in [Battery -> Nat] /\ reconnects \in [Battery -> Nat]
      OBVIOUS
    <2> QED
      BY <2>1, <2>2, <2>3 DEF TypeOK
  <1>2. RunInv /\ LinkInv
    BY DEF RunInv, LinkInv
  <1>3. CountInv
    BY DEF CountInv
  <1>4. CauseInv
    BY DEF CauseInv, Owed, InHand
  <1> QED
    BY <1>1, <1>2, <1>3, <1>4 DEF IInv

\* What a scan reports of a battery is an address, its own or a double's.
LEMMA ResolvedAddress ==
  ASSUME NEW found \in Resolutions, NEW b \in DOMAIN found
  PROVE  found[b] \in {"own", "double"}
  <1>1. PICK heard \in ScanResults : found = Resolved(heard)
    BY DEF Resolutions
  <1>2. heard \subseteq Advertising
    BY <1>1 DEF ScanResults
  <1>3. \E h \in heard : h[1] = b
    BY <1>1 DEF Resolved
  <1>4. (CHOOSE h \in heard : h[1] = b) \in heard
    BY <1>3
  <1>5. \A h \in Advertising : h[2] \in {"own", "double"}
    BY DEF Advertising
  <1>6. found[b] = (CHOOSE h \in heard : h[1] = b)[2]
    BY <1>1 DEF Resolved
  <1> QED
    BY <1>2, <1>4, <1>5, <1>6

\* The doubled backoff stays between the two bounds and never shrinks.
LEMMA NextBackoffBounds ==
  ASSUME NEW n \in MinBackoff .. MaxBackoff
  PROVE  NextBackoff(n) \in n .. MaxBackoff
  BY BackoffAssumption DEF NextBackoff

-----------------------------------------------------------------------------
(***************************************************************************)
(* One lemma per part of the invariant.                                    *)
(***************************************************************************)

LEMMA TypeStep ==
  ASSUME TypeOK, [Next]_vars
  PROVE  TypeOK'
  <1> USE DEF TypeOK, Goto, outsideVars, envVars, metricVars, goroutineVars
  <1>1. ASSUME ResolveByAddress
        PROVE  TypeOK'
    BY <1>1 DEF ResolveByAddress
  <1>2. ASSUME StartupTakeRadio \/ StartupScanFails
        PROVE  TypeOK'
    BY <1>2 DEF StartupTakeRadio, StartupScanFails
  <1>3. ASSUME StartupScanEnds
        PROVE  TypeOK'
    <2>1. PICK found \in Resolutions :
            address' = [b \in Battery |->
                          IF b \in DOMAIN found THEN found[b] ELSE address[b]]
      BY <1>3 DEF StartupScanEnds
    <2>2. address' \in [Battery -> {"none", "own", "double"}]
      BY <2>1, ResolvedAddress
    <2> QED
      BY <1>3, <2>2 DEF StartupScanEnds
  <1>4. ASSUME WaitGroupDone \/ CloseReadings
        PROVE  TypeOK'
    BY <1>4 DEF WaitGroupDone, WaitUntil, CloseReadings
  <1>5. ASSUME NEW b \in Battery, Launch(b) \/ LoopTop(b) \/ TakeRadio(b)
        PROVE  TypeOK'
    BY <1>5 DEF Launch, LoopTop, TakeRadio
  <1>6. ASSUME NEW b \in Battery, NEW heard \in ScanResults, ScanFinds(b, heard)
        PROVE  TypeOK'
    <2>1. /\ Resolved(heard) \in Resolutions
          /\ b \in DOMAIN Resolved(heard)
          /\ address' = [address EXCEPT ![b] = Resolved(heard)[b]]
      BY <1>6 DEF ScanFinds, Finds, Resolutions
    <2>2. Resolved(heard)[b] \in {"own", "double"}
      BY <2>1, ResolvedAddress
    <2> QED
      BY <1>6, <2>1, <2>2 DEF ScanFinds
  <1>7. ASSUME NEW b \in Battery,
               ScanMisses(b) \/ ConnectSucceeds(b) \/ ConnectFails(b)
        PROVE  TypeOK'
    BY <1>7 DEF ScanMisses, ScanMissThen, ConnectSucceeds, ConnectFails
  <1>8. ASSUME NEW b \in Battery, RecordConnected(b)
        PROVE  TypeOK'
    BY <1>8, BackoffAssumption DEF RecordConnected, ConnectedWith
  <1>9. ASSUME NEW b \in Battery, PollEnds(b) \/ QueryFails(b)
        PROVE  TypeOK'
    BY <1>9, MishapsAssumption DEF PollEnds, PollUntil, QueryFails
  <1>10. ASSUME NEW b \in Battery, Disconnect(b) \/ Lost(b)
         PROVE  TypeOK'
    BY <1>10 DEF Disconnect, DisconnectAndShow, Lost, LostCounting
  <1>11. ASSUME NEW b \in Battery, SleepElapses(b)
         PROVE  TypeOK'
    <2>1. NextBackoff(backoff[b]) \in MinBackoff .. MaxBackoff
      BY NextBackoffBounds, BackoffAssumption
    <2> QED
      BY <1>11, <2>1 DEF SleepElapses
  <1>12. ASSUME NEW b \in Battery, SleepCancelled(b)
         PROVE  TypeOK'
    BY <1>12 DEF SleepCancelled
  <1>13. ASSUME Cancel \/ VictronScan
         PROVE  TypeOK'
    BY <1>13 DEF Cancel, VictronScan
  <1>14. ASSUME NEW b \in Battery, Appears(b) \/ Vanishes(b)
         PROVE  TypeOK'
    BY <1>14, MishapsAssumption DEF Appears, Vanishes
  <1>15. ASSUME NEW b \in Battery, DoubleAppears(b) \/ DoubleVanishes(b)
         PROVE  TypeOK'
    BY <1>15, MishapsAssumption DEF DoubleAppears, DoubleVanishes
  <1>16. CASE UNCHANGED vars
    BY <1>16 DEF vars
  <1> QED
    BY <1>1, <1>2, <1>3, <1>4, <1>5, <1>6, <1>7, <1>8, <1>9, <1>10, <1>11,
       <1>12, <1>13, <1>14, <1>15, <1>16
       DEF Next, RunSteps, Supervise, Proceed, Attempt, World

\* Run launches goroutines only while it supervises, and waits for all of them.
LEMMA RunStep ==
  ASSUME TypeOK, RunInv, [Next]_vars
  PROVE  RunInv'
  <1> USE DEF TypeOK, RunInv, Goto, outsideVars, envVars, goroutineVars
  <1>1. ASSUME RunSteps
        PROVE  RunInv'
    BY <1>1 DEF RunSteps, ResolveByAddress, StartupTakeRadio, StartupScanEnds,
                StartupScanFails, WaitGroupDone, WaitUntil, CloseReadings
  <1>2. ASSUME NEW b \in Battery, Proceed(b)
        PROVE  RunInv'
    BY <1>2 DEF Proceed, Launch, LoopTop, RecordConnected, ConnectedWith,
                PollEnds, PollUntil, Disconnect, DisconnectAndShow, Lost,
                LostCounting, SleepElapses, SleepCancelled
  <1>3. ASSUME NEW b \in Battery, TakeRadio(b) \/ Attempt(b) \/ QueryFails(b)
        PROVE  RunInv'
    BY <1>3 DEF TakeRadio, Attempt, ScanFinds, ScanMisses, ScanMissThen,
                ConnectSucceeds, ConnectFails, QueryFails
  <1>4. CASE World \/ UNCHANGED vars
    BY <1>4 DEF World, Cancel, VictronScan, Appears, Vanishes, DoubleAppears,
                DoubleVanishes, vars
  <1> QED
    BY <1>1, <1>2, <1>3, <1>4 DEF Next, Supervise

\* What the supervisor's goroutine holds and shows follows its place.
LEMMA LinkStep ==
  ASSUME TypeOK, LinkInv, [Next]_vars
  PROVE  LinkInv'
  <1> USE DEF TypeOK, LinkInv, Goto, outsideVars, envVars, metricVars,
              goroutineVars
  <1>1. ASSUME RunSteps
        PROVE  LinkInv'
    BY <1>1 DEF RunSteps, ResolveByAddress, StartupTakeRadio, StartupScanEnds,
                StartupScanFails, WaitGroupDone, WaitUntil, CloseReadings
  <1>2. ASSUME NEW b \in Battery, Launch(b) \/ LoopTop(b) \/ TakeRadio(b)
        PROVE  LinkInv'
    BY <1>2 DEF Launch, LoopTop, TakeRadio
  <1>3. ASSUME NEW b \in Battery, Attempt(b)
        PROVE  LinkInv'
    BY <1>3 DEF Attempt, ScanFinds, ScanMisses, ScanMissThen, ConnectSucceeds,
                ConnectFails
  <1>4. ASSUME NEW b \in Battery, RecordConnected(b)
        PROVE  LinkInv'
    BY <1>4 DEF RecordConnected, ConnectedWith
  <1>5. ASSUME NEW b \in Battery, PollEnds(b) \/ QueryFails(b)
        PROVE  LinkInv'
    BY <1>5 DEF PollEnds, PollUntil, QueryFails
  <1>6. ASSUME NEW b \in Battery, Disconnect(b)
        PROVE  LinkInv'
    BY <1>6 DEF Disconnect, DisconnectAndShow
  <1>7. ASSUME NEW b \in Battery, Lost(b) \/ SleepElapses(b) \/ SleepCancelled(b)
        PROVE  LinkInv'
    BY <1>7 DEF Lost, LostCounting, SleepElapses, SleepCancelled
  <1>8. CASE World \/ UNCHANGED vars
    BY <1>8 DEF World, Cancel, VictronScan, Appears, Vanishes, DoubleAppears,
                DoubleVanishes, vars
  <1> QED
    BY <1>1, <1>2, <1>3, <1>4, <1>5, <1>6, <1>7, <1>8
       DEF Next, Supervise, Proceed

\* A connection adds one, a counted loss takes it away, and a goroutine that
\* ends for the shutdown keeps what it had.
LEMMA CountStep ==
  ASSUME TypeOK, CountInv, [Next]_vars
  PROVE  CountInv'
  <1> USE DEF TypeOK, CountInv, Goto, outsideVars, envVars, metricVars,
              goroutineVars
  <1>1. ASSUME RunSteps
        PROVE  CountInv'
    BY <1>1 DEF RunSteps, ResolveByAddress, StartupTakeRadio, StartupScanEnds,
                StartupScanFails, WaitGroupDone, WaitUntil, CloseReadings
  <1>2. ASSUME NEW b \in Battery, Launch(b) \/ LoopTop(b) \/ TakeRadio(b)
        PROVE  CountInv'
    BY <1>2 DEF Launch, LoopTop, TakeRadio
  <1>3. ASSUME NEW b \in Battery,
               \/ \E heard \in ScanResults : ScanFinds(b, heard)
               \/ ScanMisses(b)
               \/ ConnectFails(b)
        PROVE  CountInv'
    BY <1>3 DEF ScanFinds, ScanMisses, ScanMissThen, ConnectFails
  <1>4. ASSUME NEW b \in Battery, ConnectSucceeds(b)
        PROVE  CountInv'
    BY <1>4 DEF ConnectSucceeds
  <1>5. ASSUME NEW b \in Battery,
               \/ RecordConnected(b)
               \/ PollEnds(b)
               \/ QueryFails(b)
               \/ Disconnect(b)
        PROVE  CountInv'
    BY <1>5 DEF RecordConnected, ConnectedWith, PollEnds, PollUntil, QueryFails,
                Disconnect, DisconnectAndShow
  <1>6. ASSUME NEW b \in Battery, Lost(b)
        PROVE  CountInv'
    BY <1>6 DEF Lost, LostCounting
  <1>7. ASSUME NEW b \in Battery, SleepElapses(b) \/ SleepCancelled(b)
        PROVE  CountInv'
    BY <1>7 DEF SleepElapses, SleepCancelled
  <1>8. CASE World \/ UNCHANGED vars
    BY <1>8 DEF World, Cancel, VictronScan, Appears, Vanishes, DoubleAppears,
                DoubleVanishes, vars
  <1> QED
    BY <1>1, <1>2, <1>3, <1>4, <1>5, <1>6, <1>7, <1>8
       DEF Next, Supervise, Proceed, Attempt

\* A loss only ever becomes certain by a mishap of its own: the battery
\* vanished, its polling failed, or its double went, whose coming was one.
LEMMA CauseStep ==
  ASSUME TypeOK, RunInv, CauseInv, [Next]_vars
  PROVE  CauseInv'
  <1> USE DEF TypeOK, CauseInv, Owed, InHand, Answers, Goto, outsideVars,
              envVars, metricVars, goroutineVars
  <1>1. ASSUME ResolveByAddress \/ StartupScanEnds
        PROVE  CauseInv'
    <2>1. \A b \in Battery : pc'[b] = "off" /\ pc[b] = "off"
      BY <1>1 DEF ResolveByAddress, StartupScanEnds, RunInv
    <2>2. UNCHANGED <<reconnects, doubles, mishaps>>
      BY <1>1 DEF ResolveByAddress, StartupScanEnds
    <2>3. \A b \in Battery : Owed(b)' = 0 /\ Owed(b) = 0
      BY <2>1
    <2> QED
      BY <2>2, <2>3
  <1>2. ASSUME StartupTakeRadio \/ StartupScanFails \/ WaitGroupDone \/ CloseReadings
        PROVE  CauseInv'
    BY <1>2 DEF StartupTakeRadio, StartupScanFails, WaitGroupDone, WaitUntil,
                CloseReadings
  <1>3. ASSUME NEW b \in Battery,
               \/ Launch(b)
               \/ LoopTop(b)
               \/ TakeRadio(b)
               \/ \E heard \in ScanResults : ScanFinds(b, heard)
        PROVE  CauseInv'
    BY <1>3 DEF Launch, LoopTop, TakeRadio, ScanFinds
  <1>4. ASSUME NEW b \in Battery,
               ScanMisses(b) \/ ConnectSucceeds(b) \/ ConnectFails(b)
        PROVE  CauseInv'
    BY <1>4 DEF ScanMisses, ScanMissThen, ConnectSucceeds, ConnectFails
  <1>5. ASSUME NEW b \in Battery, RecordConnected(b) \/ PollEnds(b) \/ Disconnect(b)
        PROVE  CauseInv'
    BY <1>5 DEF RecordConnected, ConnectedWith, PollEnds, PollUntil, Disconnect,
                DisconnectAndShow
  <1>6. ASSUME NEW b \in Battery, QueryFails(b)
        PROVE  CauseInv'
    BY <1>6 DEF QueryFails
  <1>7. ASSUME NEW b \in Battery, Lost(b)
        PROVE  CauseInv'
    BY <1>7 DEF Lost, LostCounting
  <1>8. ASSUME NEW b \in Battery, SleepElapses(b) \/ SleepCancelled(b)
        PROVE  CauseInv'
    BY <1>8 DEF SleepElapses, SleepCancelled
  <1>9. ASSUME Cancel \/ VictronScan
        PROVE  CauseInv'
    BY <1>9 DEF Cancel, VictronScan
  <1>10. ASSUME NEW b \in Battery, Appears(b)
         PROVE  CauseInv'
    BY <1>10 DEF Appears
  <1>11. ASSUME NEW b \in Battery, Vanishes(b)
         PROVE  CauseInv'
    BY <1>11 DEF Vanishes
  <1>12. ASSUME NEW b \in Battery, DoubleAppears(b)
         PROVE  CauseInv'
    BY <1>12 DEF DoubleAppears
  <1>13. ASSUME NEW b \in Battery, DoubleVanishes(b)
         PROVE  CauseInv'
    BY <1>13 DEF DoubleVanishes
  <1>14. CASE UNCHANGED vars
    BY <1>14 DEF vars
  <1> QED
    BY <1>1, <1>2, <1>3, <1>4, <1>5, <1>6, <1>7, <1>8, <1>9, <1>10, <1>11,
       <1>12, <1>13, <1>14
       DEF Next, RunSteps, Supervise, Proceed, Attempt, World

-----------------------------------------------------------------------------
(***************************************************************************)
(* The theorems.                                                           *)
(***************************************************************************)

\* The inductive invariant holds in every reachable state.
THEOREM Invariance == SafeSpec => []IInv
  <1>1. IInv /\ [Next]_vars => IInv'
    BY TypeStep, RunStep, LinkStep, CountStep, CauseStep DEF IInv
  <1> QED
    BY InitIInv, <1>1, PTL DEF SafeSpec

\* Every variable keeps its type: addresses come from a scan or the
\* configuration, and the backoff stays between its bounds.
THEOREM TypeCorrect == SafeSpec => []TypeOK
  <1>1. IInv => TypeOK
    BY DEF IInv
  <1> QED
    BY Invariance, <1>1, PTL

\* Any number of batteries, each caught anywhere by the shutdown: a closed
\* stream means no goroutine, no connection and no gauge left behind.
THEOREM NothingLeft == SafeSpec => []NothingLeftConnected
  <1>1. IInv => NothingLeftConnected
    <2> SUFFICES ASSUME IInv, closed PROVE NothingLeftConnected
      BY DEF NothingLeftConnected
    <2>1. \A b \in Battery : pc[b] \in {"off", "done"}
      BY DEF IInv, RunInv
    <2>2. \A b \in Battery : b \notin link /\ gauge[b] # "up"
      BY <2>1 DEF IInv, LinkInv
    <2>3. link = {}
      BY <2>2 DEF IInv, TypeOK
    <2> QED
      BY <2>1, <2>2, <2>3 DEF NothingLeftConnected
  <1> QED
    BY Invariance, <1>1, PTL

\* However often batteries and their doubles come and go, the reconnect counter
\* is behind the connections by the one that stands, and each count has a cause.
THEOREM LossesAccounted == SafeSpec => []LossesCounted
  <1>1. IInv => LossesCounted
    <2> SUFFICES ASSUME IInv, NEW b \in Battery
                 PROVE  /\ connects[b] - reconnects[b] \in
                             CASE pc[b] \in {"connected", "poll", "disconnect", "lost"} -> {1}
                               [] pc[b] = "done" -> {0, 1}
                               [] OTHER -> {0}
                        /\ reconnects[b] <= mishaps
      BY DEF LossesCounted
    <2>1. reconnects[b] + Owed(b) + InHand(b) <= mishaps
      BY DEF IInv, CauseInv
    <2>2. Owed(b) \in {0, 1} /\ InHand(b) \in {0, 1}
      BY DEF Owed, InHand
    <2>3. reconnects[b] <= mishaps
      BY <2>1, <2>2, MishapsAssumption DEF IInv, TypeOK
    <2> QED
      BY <2>3 DEF IInv, CountInv
  <1> QED
    BY Invariance, <1>1, PTL

\* For any bounds on the backoff, it shrinks only on an open connection, and the
\* first retry after a loss waits the shortest time.
THEOREM BackoffReset == SafeSpec => BackoffFollowsOutage
  <1>1. ASSUME IInv, [Next]_vars
        PROVE  [\A b \in Battery :
                  /\ backoff'[b] < backoff[b] => b \in link
                  /\ pc[b] = "lost" /\ pc'[b] = "sleep"
                       => backoff'[b] = MinBackoff]_vars
    <2> USE <1>1 DEF IInv, TypeOK, LinkInv, Goto, outsideVars, envVars,
                     metricVars, goroutineVars
    <2>1. \A n \in MinBackoff .. MaxBackoff : n \in Nat /\ ~(n < n)
      BY BackoffAssumption
    <2>2. ASSUME NEW c \in Battery, RecordConnected(c), NEW b \in Battery
          PROVE  /\ backoff'[b] < backoff[b] => b \in link
                 /\ ~(pc[b] = "lost" /\ pc'[b] = "sleep")
      BY <2>2, <2>1 DEF RecordConnected, ConnectedWith
    <2>3. ASSUME NEW c \in Battery, SleepElapses(c), NEW b \in Battery
          PROVE  /\ ~(backoff'[b] < backoff[b])
                 /\ ~(pc[b] = "lost" /\ pc'[b] = "sleep")
      <3>1. NextBackoff(backoff[c]) \in backoff[c] .. MaxBackoff
        BY NextBackoffBounds
      <3>2. backoff' = [backoff EXCEPT ![c] = NextBackoff(backoff[c])]
        BY <2>3 DEF SleepElapses
      <3>3. ~(backoff'[b] < backoff[b])
        BY <3>1, <3>2, <2>1
      <3>4. pc'[b] # "sleep" \/ pc'[b] = pc[b]
        BY <2>3 DEF SleepElapses
      <3> QED
        BY <3>3, <3>4
    <2>4. ASSUME UNCHANGED backoff, NEW b \in Battery
          PROVE  /\ ~(backoff'[b] < backoff[b])
                 /\ pc[b] = "lost" => backoff'[b] = MinBackoff
      BY <2>4, <2>1
    <2>5. CASE RunSteps
      BY <2>4, <2>5 DEF RunSteps, ResolveByAddress, StartupTakeRadio,
             StartupScanEnds, StartupScanFails, WaitGroupDone, WaitUntil,
             CloseReadings
    <2>6. ASSUME NEW c \in Battery, Supervise(c)
          PROVE  \/ UNCHANGED backoff
                 \/ RecordConnected(c)
                 \/ SleepElapses(c)
      BY <2>6 DEF Supervise, Proceed, Launch, LoopTop, PollEnds, PollUntil,
             Disconnect, DisconnectAndShow, Lost, LostCounting, SleepCancelled,
             TakeRadio, Attempt, ScanFinds, ScanMisses, ScanMissThen,
             ConnectSucceeds, ConnectFails, QueryFails
    <2>7. CASE World \/ UNCHANGED vars
      BY <2>4, <2>7 DEF World, Cancel, VictronScan, Appears, Vanishes,
             DoubleAppears, DoubleVanishes, vars
    <2> QED
      BY <2>2, <2>3, <2>4, <2>5, <2>6, <2>7 DEF Next
  <1> QED
    BY Invariance, <1>1, PTL DEF SafeSpec, BackoffFollowsOutage
=============================================================================
