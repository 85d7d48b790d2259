----------------------- MODULE StaleDetectionProofs -----------------------
(***************************************************************************)
(* Proofs about StaleDetection for every choice of intervals and bounds.   *)
(***************************************************************************)
EXTENDS StaleDetection, TLAPS

\* A verdict is only known of a connection that is gone, and lastSeen is as old
\* as the connection attempt at most.
PhaseInv ==
  /\ Live => verdict = "none"
  /\ phase = "connecting" => lastSeen <= connecting

\* How old lastSeen and the silence can be at each point between two checks.
\* The last check left both at StaleTimeout or less; only a first check may
\* find a lastSeen that is older by the time it took to connect.
AgeInv ==
  /\ Polling => quiet <= lastSeen
  /\ phase = "waiting" /\ ~due =>
       /\ lastSeen <= ConnectTime + StaleTimeout + sinceTick
       /\ quiet <= StaleTimeout + sinceTick
  /\ phase = "waiting" /\ due =>
       /\ lastSeen <= ConnectTime + StaleTimeout + ScrapeInterval
       /\ quiet <= StaleTimeout + ScrapeInterval
  /\ phase = "querying" =>
       /\ lastSeen <= ConnectTime + StaleTimeout + ScrapeInterval + querying
       /\ quiet <= StaleTimeout + ScrapeInterval + querying

\* The longest that may lie between the last sign of life and the wait for the
\* next tick: a connection attempt, or the rest of the query it came in.
Before == IF ConnectTime >= QueryTime THEN ConnectTime ELSE QueryTime

\* How old lastSeen can be before the first query without an answer has been
\* checked, and what that means for a verdict.
ChanceInv ==
  /\ phase = "waiting" /\ unanswered = 0 =>
       lastSeen <= Before + (IF due THEN ScrapeInterval ELSE sinceTick)
  /\ phase = "querying" /\ unanswered = 0 => lastSeen <= querying
  /\ phase = "querying" /\ unanswered = 1 =>
       lastSeen <= Before + ScrapeInterval + querying
  /\ StaleAfterUnansweredQuery

IInv == TypeOK /\ PhaseInv /\ AgeInv /\ ChanceInv

\* TypeOK without its one Boolean variable: the arithmetic of the clocks.
ClockTypes ==
  /\ phase \in {"down", "connecting", "waiting", "querying"}
  /\ connecting \in 0 .. ConnectTime
  /\ lastSeen \in 0 .. ConnectTime + Bound
  /\ sinceTick \in 0 .. ScrapeInterval - 1
  /\ querying \in 0 .. QueryTime
  /\ unanswered \in Nat
  /\ quiet \in Nat
  /\ verdict \in {"none", "stale", "stopped"}

LEMMA InitIInv == Init => IInv
  <1> SUFFICES ASSUME Init PROVE IInv
    OBVIOUS
  <1> USE IntervalAssumption, BoundAssumption DEF Init
  <1>1. TypeOK
    <2>1. ClockTypes
      BY DEF ClockTypes, Bound
    <2>2. due \in BOOLEAN
      OBVIOUS
    <2> QED
      BY <2>1, <2>2, Zenon DEF TypeOK, ClockTypes
  <1>2. PhaseInv /\ AgeInv
    BY DEF PhaseInv, AgeInv, Live, Polling
  <1>3. ChanceInv
    BY DEF ChanceInv, Before, StaleAfterUnansweredQuery
  <1> QED
    BY <1>1, <1>2, <1>3 DEF IInv

\* The bounds of the clocks are inductive given the ages between two checks.
LEMMA ClockStep ==
  ASSUME TypeOK, PhaseInv, AgeInv, [Next]_vars
  PROVE  ClockTypes'
  <1> USE IntervalAssumption, BoundAssumption
      DEF TypeOK, ClockTypes, Bound, PhaseInv, AgeInv, Live, Polling, tickVars, historyVars
  <1>1. CASE Connect
    BY <1>1 DEF Connect
  <1>2. CASE ConnectFails
    BY <1>2 DEF ConnectFails
  <1>3. CASE Connected
    BY <1>3 DEF Connected
  <1>4. ASSUME NEW own \in BOOLEAN, NEW parses \in BOOLEAN,
               Notification(own, parses)
        PROVE  ClockTypes'
    BY <1>4 DEF Notification, Reading, NoReading
  <1>5. CASE Query
    BY <1>5 DEF Query
  <1>6. CASE PollStops
    BY <1>6 DEF PollStops
  <1>7. CASE Check
    BY <1>7 DEF Check
  <1>8. CASE Pass
    <2>1. CASE phase = "connecting"
      BY <1>8, <2>1 DEF Pass
    <2>2. CASE phase = "waiting"
      BY <1>8, <2>2 DEF Pass
    <2>3. CASE phase = "querying"
      BY <1>8, <2>3 DEF Pass
    <2> QED
      BY <1>8, <2>1, <2>2, <2>3 DEF Pass
  <1>9. CASE UNCHANGED vars
    BY <1>9 DEF vars
  <1> QED
    BY <1>1, <1>2, <1>3, <1>4, <1>5, <1>6, <1>7, <1>8, <1>9 DEF Next

LEMMA DueStep ==
  ASSUME TypeOK, [Next]_vars
  PROVE  due' \in BOOLEAN
  BY Zenon DEF TypeOK, Next, vars, tickVars, Connect, ConnectFails, Connected,
               Notification, Query, PollStops, Check, Pass

LEMMA TypeStep ==
  ASSUME TypeOK, PhaseInv, AgeInv, [Next]_vars
  PROVE  TypeOK'
  BY ClockStep, DueStep, Zenon DEF TypeOK, ClockTypes

LEMMA PhaseStep ==
  ASSUME TypeOK, PhaseInv, [Next]_vars
  PROVE  PhaseInv'
  <1> USE IntervalAssumption, BoundAssumption
      DEF TypeOK, PhaseInv, Live, Polling, tickVars, historyVars
  <1>1. CASE Connect
    BY <1>1 DEF Connect
  <1>2. CASE ConnectFails
    BY <1>2 DEF ConnectFails
  <1>3. CASE Connected
    BY <1>3 DEF Connected
  <1>4. ASSUME NEW own \in BOOLEAN, NEW parses \in BOOLEAN,
               Notification(own, parses)
        PROVE  PhaseInv'
    BY <1>4 DEF Notification, Reading, NoReading
  <1>5. CASE Query
    BY <1>5 DEF Query
  <1>6. CASE PollStops
    BY <1>6 DEF PollStops
  <1>7. CASE Check
    BY <1>7 DEF Check
  <1>8. CASE Pass
    <2>1. CASE phase = "connecting"
      BY <1>8, <2>1 DEF Pass
    <2>2. CASE phase = "waiting"
      BY <1>8, <2>2 DEF Pass
    <2>3. CASE phase = "querying"
      BY <1>8, <2>3 DEF Pass
    <2> QED
      BY <1>8, <2>1, <2>2, <2>3 DEF Pass
  <1>9. CASE UNCHANGED vars
    BY <1>9 DEF vars
  <1> QED
    BY <1>1, <1>2, <1>3, <1>4, <1>5, <1>6, <1>7, <1>8, <1>9 DEF Next

LEMMA AgeStep ==
  ASSUME TypeOK, PhaseInv, AgeInv, [Next]_vars
  PROVE  AgeInv'
  <1> USE IntervalAssumption, BoundAssumption
      DEF TypeOK, PhaseInv, AgeInv, Live, Polling, tickVars, historyVars
  <1>1. CASE Connect
    BY <1>1 DEF Connect
  <1>2. CASE ConnectFails
    BY <1>2 DEF ConnectFails
  <1>3. CASE Connected
    BY <1>3 DEF Connected
  <1>4. ASSUME NEW own \in BOOLEAN, NEW parses \in BOOLEAN,
               Notification(own, parses)
        PROVE  AgeInv'
    BY <1>4 DEF Notification, Reading, NoReading
  <1>5. CASE Query
    BY <1>5 DEF Query
  <1>6. CASE PollStops
    BY <1>6 DEF PollStops
  <1>7. CASE Check
    BY <1>7 DEF Check
  <1>8. CASE Pass
    <2>1. CASE phase = "connecting"
      BY <1>8, <2>1 DEF Pass
    <2>2. CASE phase = "waiting"
      BY <1>8, <2>2 DEF Pass
    <2>3. CASE phase = "querying"
      BY <1>8, <2>3 DEF Pass
    <2> QED
      BY <1>8, <2>1, <2>2, <2>3 DEF Pass
  <1>9. CASE UNCHANGED vars
    BY <1>9 DEF vars
  <1> QED
    BY <1>1, <1>2, <1>3, <1>4, <1>5, <1>6, <1>7, <1>8, <1>9 DEF Next

LEMMA ChanceStep ==
  ASSUME TypeOK, PhaseInv, ChanceInv, [Next]_vars
  PROVE  ChanceInv'
  <1> USE IntervalAssumption, BoundAssumption
      DEF TypeOK, PhaseInv, ChanceInv, Live, Polling,
          Before, StaleAfterUnansweredQuery, tickVars, historyVars
  <1>1. CASE Connect
    BY <1>1 DEF Connect
  <1>2. CASE ConnectFails
    BY <1>2 DEF ConnectFails
  <1>3. CASE Connected
    BY <1>3 DEF Connected
  <1>4. ASSUME NEW own \in BOOLEAN, NEW parses \in BOOLEAN,
               Notification(own, parses)
        PROVE  ChanceInv'
    BY <1>4 DEF Notification, Reading, NoReading
  <1>5. CASE Query
    BY <1>5 DEF Query
  <1>6. CASE PollStops
    BY <1>6 DEF PollStops
  <1>7. CASE Check
    BY <1>7 DEF Check
  <1>8. CASE Pass
    <2>1. CASE phase = "connecting"
      BY <1>8, <2>1 DEF Pass
    <2>2. CASE phase = "waiting"
      <3>1. /\ phase' = "waiting" /\ unanswered' = unanswered
            /\ lastSeen' = lastSeen + 1 /\ ~due /\ verdict' = verdict
        BY <1>8, <2>2 DEF Pass
      <3>2. CASE sinceTick + 1 = ScrapeInterval
        <4>1. due'
          BY <1>8, <2>2, <3>2 DEF Pass
        <4> QED
          BY <2>2, <3>1, <3>2, <4>1
      <3>3. CASE sinceTick + 1 # ScrapeInterval
        <4>1. sinceTick' = sinceTick + 1 /\ ~due'
          BY <1>8, <2>2, <3>1, <3>3 DEF Pass
        <4> QED
          BY <2>2, <3>1, <4>1
      <3> QED
        BY <3>2, <3>3
    <2>3. CASE phase = "querying"
      BY <1>8, <2>3 DEF Pass
    <2> QED
      BY <1>8, <2>1, <2>2, <2>3 DEF Pass
  <1>9. CASE UNCHANGED vars
    BY <1>9 DEF vars
  <1> QED
    BY <1>1, <1>2, <1>3, <1>4, <1>5, <1>6, <1>7, <1>8, <1>9 DEF Next

\* The inductive invariant holds in every reachable state.
THEOREM Invariance == SafeSpec => []IInv
  <1>1. IInv /\ [Next]_vars => IInv'
    BY TypeStep, PhaseStep, AgeStep, ChanceStep DEF IInv
  <1> QED
    BY InitIInv, <1>1, PTL DEF SafeSpec

\* Every clock stays within its bound, for all settings that NewManager accepts
\* and however long connecting and querying may take, a query that outlasts the
\* scrape interval included.
THEOREM TypeCorrect == SafeSpec => []TypeOK
  <1>1. IInv => TypeOK
    BY DEF IInv
  <1> QED
    BY Invariance, <1>1, PTL

\* No connection stays silent beyond the timeout, one interval and one query.
THEOREM SilenceDetected == SafeSpec => []SilenceIsDetected
  <1>1. IInv => SilenceIsDetected
    BY IntervalAssumption, BoundAssumption
       DEF IInv, TypeOK, PhaseInv, AgeInv, SilenceIsDetected, Polling, Bound
  <1> QED
    BY Invariance, <1>1, PTL

\* With room in the timeout for a connection attempt or a slow query, no
\* connection is given up as stale before a query ahead of the last one has gone
\* unanswered.
THEOREM ChanceToAnswer == SafeSpec => []StaleAfterUnansweredQuery
  <1>1. IInv => StaleAfterUnansweredQuery
    BY DEF IInv, ChanceInv
  <1> QED
    BY Invariance, <1>1, PTL

=============================================================================
