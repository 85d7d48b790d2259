----------------------- MODULE InserterProcessProofs -----------------------
(***************************************************************************)
(* Proofs about InserterProcess for any readings, any capacity and any     *)
(* number of readings in a run.                                            *)
(***************************************************************************)
EXTENDS InserterProcess, Integers, SequenceTheorems, TLAPS

ScalarTypeOK ==
  /\ main \in {"starting", "startVictron", "writing", "managerDone",
               "victronDone", "returning", "exited"}
  /\ status \in {"none", "success", "failure"}
  /\ poolClosed \in BOOLEAN
  /\ cancelled \in BOOLEAN
  /\ managerDone \in {"nothing", "nil", "error"}
  /\ victron \in {"off", "running", "notConfigured"}
  /\ bStage \in {"open", "sealed", "ended"}
  /\ vStage \in {"open", "sealed", "ended"}

\* What is on its way in a stream never exceeds the capacity.
Bounded(accepted, handled) ==
  /\ accepted \in Seq(Reading)
  /\ handled \in Seq(Reading)
  /\ Len(accepted) - Len(handled) \in 0 .. Capacity

\* A stream that has ended has handed everything over, and a Victron pipeline
\* that does not run has nothing to hand over.
StreamsInv ==
  /\ bStage = "ended" => bHandled = bAccepted
  /\ vStage = "ended" => vHandled = vAccepted
  /\ victron # "running" => vHandled = vAccepted

\* What main knows by where it stands.  Past its loop the battery stream has
\* ended, and so it has if the process ends after main got to the loop; past
\* the manager's result, that was nil; past the Victron result, that pipeline
\* has ended too.  Nothing here follows from one step: an exit inherits each
\* part from the steps before it.
MainInv ==
  /\ main = "exited" <=> status # "none"
  /\ main \in {"starting", "startVictron"} => victron = "off"
  /\ \/ main \in {"managerDone", "victronDone", "returning"}
     \/ status # "none" /\ victron # "off"
     => bStage = "ended"
  /\ main \in {"victronDone", "returning"} \/ status = "success" =>
       managerDone = "nil" /\ victron # "off"
  /\ main \in {"writing", "managerDone"} => victron # "off"
  /\ main = "returning" \/ status = "success" =>
       victron = "notConfigured" \/ vStage = "ended"
  /\ managerDone = "nil" => cancelled
  /\ poolClosed => status = "success"

IInv ==
  /\ ScalarTypeOK
  /\ Bounded(bAccepted, bHandled)
  /\ Bounded(vAccepted, vHandled)
  /\ StreamsInv
  /\ MainInv

LEMMA InitIInv == Init => IInv
  <1> SUFFICES ASSUME Init PROVE IInv
    OBVIOUS
  <1> USE DEF Init, Batteries!Init, Chargers!Init
  <1>1. ScalarTypeOK
    BY DEF ScalarTypeOK
  <1>2. Bounded(bAccepted, bHandled) /\ Bounded(vAccepted, vHandled)
    <2>1. <<>> \in Seq(Reading) /\ Len(<<>>) - Len(<<>>) = 0
      BY EmptySeq
    <2>2. 0 \in 0 .. Capacity
      BY CapacityAssumption
    <2>3. Bounded(<<>>, <<>>)
      BY <2>1, <2>2 DEF Bounded
    <2> QED
      BY <2>3
  <1>3. StreamsInv /\ MainInv
    BY DEF StreamsInv, MainInv
  <1> QED
    BY <1>1, <1>2, <1>3 DEF IInv

\* One reading more keeps a stream bounded if there was room for it.
LEMMA AcceptedWithinBounds ==
  ASSUME NEW a, NEW h, Bounded(a, h), NEW r \in Reading,
         Len(a) - Len(h) < Capacity
  PROVE  Bounded(Append(a, r), h)
  <1>1. Append(a, r) \in Seq(Reading) /\ Len(Append(a, r)) = Len(a) + 1
    BY AppendProperties DEF Bounded
  <1>2. Len(a) \in Nat /\ Len(h) \in Nat
    BY LenProperties DEF Bounded
  <1>3. Len(Append(a, r)) - Len(h) \in 0 .. Capacity
    BY <1>1, <1>2, CapacityAssumption DEF Bounded
  <1> QED
    BY <1>1, <1>3 DEF Bounded

\* Handing over the next reading keeps it bounded.
LEMMA HandledWithinBounds ==
  ASSUME NEW a, NEW h, Bounded(a, h), Len(h) < Len(a)
  PROVE  Bounded(a, Append(h, a[Len(h) + 1]))
  <1>1. Len(a) \in Nat /\ Len(h) \in Nat
    BY LenProperties DEF Bounded
  <1>2. Len(h) + 1 \in 1 .. Len(a)
    BY <1>1
  <1>3. a[Len(h) + 1] \in Reading
    BY <1>2, ElementOfSeq DEF Bounded
  <1>4. /\ Append(h, a[Len(h) + 1]) \in Seq(Reading)
        /\ Len(Append(h, a[Len(h) + 1])) = Len(h) + 1
    BY <1>3, AppendProperties DEF Bounded
  <1>5. Len(a) - Len(Append(h, a[Len(h) + 1])) \in 0 .. Capacity
    BY <1>1, <1>4, CapacityAssumption DEF Bounded
  <1> QED
    BY <1>4, <1>5 DEF Bounded

\* A step of main other than its inserts leaves both streams' readings alone.
LEMMA MainStep ==
  ASSUME IInv,
         \/ StartupFails \/ StartManager \/ VictronStartFails \/ StartVictron
         \/ TakeManagerDone \/ TakeVictronDone \/ Return \/ Cancel
  PROVE  IInv'
  <1> USE DEF IInv, ScalarTypeOK, StreamsInv, MainInv, restVars, streamVars,
              batteryVars, victronVars, Running
  <1>1. UNCHANGED <<bAccepted, bHandled, bStage, vAccepted, vHandled, vStage>>
    BY DEF StartupFails, StartManager, VictronStartFails, StartVictron,
           TakeManagerDone, TakeVictronDone, Return, Cancel
  <1>2. Bounded(bAccepted, bHandled)' /\ Bounded(vAccepted, vHandled)'
    BY <1>1 DEF Bounded
  <1>3. CASE StartupFails \/ VictronStartFails
    BY <1>1, <1>2, <1>3 DEF StartupFails, VictronStartFails, Abort
  <1>4. CASE StartManager
    BY <1>1, <1>2, <1>4 DEF StartManager
  <1>5. CASE StartVictron
    BY <1>1, <1>2, <1>5 DEF StartVictron
  <1>6. CASE TakeManagerDone
    BY <1>1, <1>2, <1>6 DEF TakeManagerDone, Abort
  <1>7. CASE TakeVictronDone
    BY <1>1, <1>2, <1>7 DEF TakeVictronDone
  <1>8. CASE Return
    <2>1. /\ main = "returning" /\ main' = "exited" /\ status' = "success"
          /\ poolClosed' = TRUE
          /\ UNCHANGED <<cancelled, managerDone, victron>>
      BY <1>8 DEF Return
    <2> QED
      BY <1>1, <1>2, <2>1
  <1>9. CASE Cancel
    <2>1. /\ cancelled'
          /\ UNCHANGED <<main, status, poolClosed, managerDone, victron>>
      BY <1>9 DEF Cancel
    <2> QED
      BY <1>1, <1>2, <1>9, <2>1 DEF Cancel
  <1> QED
    BY <1>3, <1>4, <1>5, <1>6, <1>7, <1>8, <1>9

\* A step of the battery stream, by main or by the manager.
LEMMA BatteryStep ==
  ASSUME IInv,
         \/ WriteBatteryReading \/ EndOfBatteryReadings
         \/ AcceptBatteryReading \/ ManagerSeals
  PROVE  IInv'
  <1> USE DEF IInv, ScalarTypeOK, StreamsInv, MainInv, restVars, controlVars,
              victronVars, batteryVars, Running, ManagerStarted
  <1>1. UNCHANGED <<vAccepted, vHandled, vStage, poolClosed, cancelled, victron>>
    BY DEF WriteBatteryReading, EndOfBatteryReadings, AcceptBatteryReading,
           ManagerSeals
  <1>2. Bounded(vAccepted, vHandled)'
    BY <1>1 DEF Bounded
  <1>3. CASE WriteBatteryReading
    <2>1. /\ main = "writing" /\ bStage # "ended"
          /\ Len(bHandled) < Len(bAccepted)
          /\ bHandled' = Append(bHandled, bAccepted[Len(bHandled) + 1])
          /\ UNCHANGED <<bAccepted, bStage, main, status, managerDone>>
      BY <1>3 DEF WriteBatteryReading, Batteries!Handle
    <2>2. Bounded(bAccepted, bHandled)'
      <3>1. Bounded(bAccepted, Append(bHandled, bAccepted[Len(bHandled) + 1]))
        BY <2>1, HandledWithinBounds
      <3> QED
        BY <2>1, <3>1 DEF Bounded
    <2>3. StreamsInv' /\ MainInv' /\ ScalarTypeOK'
      BY <1>1, <2>1
    <2> QED
      BY <1>2, <2>2, <2>3
  <1>4. CASE AcceptBatteryReading
    <2>1. PICK r \in Reading : Batteries!Accept(r)
      BY <1>4 DEF AcceptBatteryReading
    <2>2. /\ bStage = "open" /\ Len(bAccepted) - Len(bHandled) < Capacity
          /\ bAccepted' = Append(bAccepted, r)
          /\ UNCHANGED <<bHandled, bStage, main, status, managerDone>>
      BY <1>4, <2>1 DEF AcceptBatteryReading, Batteries!Accept
    <2>3. Bounded(bAccepted, bHandled)'
      <3>1. Bounded(Append(bAccepted, r), bHandled)
        BY <2>2, AcceptedWithinBounds
      <3> QED
        BY <2>2, <3>1 DEF Bounded
    <2>4. StreamsInv' /\ MainInv' /\ ScalarTypeOK'
      BY <1>1, <2>2
    <2> QED
      BY <1>2, <2>3, <2>4
  <1>5. CASE EndOfBatteryReadings
    <2>1. /\ main = "writing" /\ main' = "managerDone"
          /\ bHandled = bAccepted /\ bStage' = "ended"
          /\ UNCHANGED <<bAccepted, bHandled, status, managerDone>>
      BY <1>5 DEF EndOfBatteryReadings, Batteries!End
    <2>2. Bounded(bAccepted, bHandled)'
      BY <2>1 DEF Bounded
    <2> QED
      BY <1>1, <1>2, <2>1, <2>2
  <1>6. CASE ManagerSeals
    <2>1. /\ status = "none" /\ main # "starting" /\ managerDone = "nothing"
          /\ bStage = "open" /\ bStage' = "sealed"
          /\ \/ cancelled /\ managerDone' = "nil"
             \/ managerDone' = "error"
          /\ UNCHANGED <<bAccepted, bHandled, main, status>>
      BY <1>6 DEF ManagerSeals, Batteries!Seal
    <2>2. Bounded(bAccepted, bHandled)'
      BY <2>1 DEF Bounded
    <2> QED
      BY <1>1, <1>2, <2>1, <2>2
  <1> QED
    BY <1>3, <1>4, <1>5, <1>6

\* A step of the Victron stream: only while the process and its collector run.
LEMMA VictronStep ==
  ASSUME IInv,
         \/ AcceptVictronReading \/ WriteVictronReading
         \/ CollectorSeals \/ VictronEnds
  PROVE  IInv'
  <1> USE DEF IInv, ScalarTypeOK, StreamsInv, MainInv, restVars, controlVars,
              batteryVars, Running
  <1>1. /\ UNCHANGED <<main, status, poolClosed, cancelled, managerDone, victron,
                       bAccepted, bHandled, bStage>>
        /\ status = "none" /\ victron = "running"
    BY DEF AcceptVictronReading, WriteVictronReading, CollectorSeals, VictronEnds
  <1>2. Bounded(bAccepted, bHandled)'
    BY <1>1 DEF Bounded
  <1>3. CASE AcceptVictronReading
    <2>1. PICK r \in Reading : Chargers!Accept(r)
      BY <1>3 DEF AcceptVictronReading
    <2>2. /\ vStage = "open" /\ Len(vAccepted) - Len(vHandled) < Capacity
          /\ vAccepted' = Append(vAccepted, r)
          /\ UNCHANGED <<vHandled, vStage>>
      BY <2>1 DEF Chargers!Accept
    <2>3. Bounded(vAccepted, vHandled)'
      <3>1. Bounded(Append(vAccepted, r), vHandled)
        BY <2>2, AcceptedWithinBounds
      <3> QED
        BY <2>2, <3>1 DEF Bounded
    <2>4. StreamsInv' /\ MainInv' /\ ScalarTypeOK'
      BY <1>1, <2>2
    <2> QED
      BY <1>2, <2>3, <2>4
  <1>4. CASE WriteVictronReading
    <2>1. /\ vStage # "ended"
          /\ Len(vHandled) < Len(vAccepted)
          /\ vHandled' = Append(vHandled, vAccepted[Len(vHandled) + 1])
          /\ UNCHANGED <<vAccepted, vStage>>
      BY <1>4 DEF WriteVictronReading, Chargers!Handle
    <2>2. Bounded(vAccepted, vHandled)'
      <3>1. Bounded(vAccepted, Append(vHandled, vAccepted[Len(vHandled) + 1]))
        BY <2>1, HandledWithinBounds
      <3> QED
        BY <2>1, <3>1 DEF Bounded
    <2>3. StreamsInv' /\ MainInv' /\ ScalarTypeOK'
      BY <1>1, <2>1
    <2> QED
      BY <1>2, <2>2, <2>3
  <1>5. CASE CollectorSeals \/ VictronEnds
    <2>1. /\ UNCHANGED <<vAccepted, vHandled>>
          /\ \/ vStage = "open" /\ vStage' = "sealed"
             \/ vHandled = vAccepted /\ vStage' = "ended"
      BY <1>5 DEF CollectorSeals, VictronEnds, Chargers!Seal, Chargers!End
    <2>2. Bounded(vAccepted, vHandled)'
      BY <2>1 DEF Bounded
    <2> QED
      BY <1>1, <1>2, <2>1, <2>2
  <1> QED
    BY <1>3, <1>4, <1>5

\* The inductive invariant holds in every reachable state.
THEOREM Invariance == SafeSpec => []IInv
  <1>1. ASSUME IInv, [Next]_vars
        PROVE  IInv'
    <2>1. CASE UNCHANGED vars
      BY <1>1, <2>1
         DEF IInv, ScalarTypeOK, Bounded, StreamsInv, MainInv, vars, controlVars,
             restVars, streamVars, batteryVars, victronVars
    <2> QED
      BY <1>1, <2>1, MainStep, BatteryStep, VictronStep DEF Next, Main
  <1> QED
    BY InitIInv, <1>1, PTL DEF SafeSpec

\* Every variable keeps its type and neither stream ever holds more than its
\* capacity, for any capacity.
THEOREM TypeCorrect == SafeSpec => []TypeOK
  <1>1. IInv => TypeOK
    BY DEF IInv, ScalarTypeOK, Bounded, TypeOK
  <1> QED
    BY Invariance, <1>1, PTL

\* However full the two pipelines were when the signal came, a success means
\* that both have been written out before the pool was closed.
THEOREM CleanExit == SafeSpec => []CleanExitLeavesNothing
  <1>1. IInv => CleanExitLeavesNothing
    BY DEF IInv, StreamsInv, MainInv, CleanExitLeavesNothing
  <1> QED
    BY Invariance, <1>1, PTL

\* Once main has got to its loop, no way of ending the process leaves a
\* battery reading behind.
THEOREM NeverAbandoned == SafeSpec => []BatteryReadingsNeverAbandoned
  <1>1. IInv => BatteryReadingsNeverAbandoned
    BY DEF IInv, StreamsInv, MainInv, BatteryReadingsNeverAbandoned
  <1> QED
    BY Invariance, <1>1, PTL
=============================================================================
