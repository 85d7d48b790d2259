------------------------ MODULE ReadingQueueProofs ------------------------
(***************************************************************************)
(* Proofs about ReadingQueue for any dispatchers, readings and capacity.   *)
(***************************************************************************)
EXTENDS ReadingQueue, StreamLemmas

\* A dispatcher carries a reading exactly while it is inside publish.
HeldInv == \A d \in Dispatcher : held[d] = None <=> pc[d] = "idle"

\* What closeMu contributes: who holds it for reading, that the closer is
\* alone in its critical section, and that a dispatcher on its way to the
\* send has seen the stream open and keeps it open until it is through.
LockInv ==
  /\ rlocked = {d \in Dispatcher : pc[d] \in {"check", "send", "unlock"}}
  /\ closer \in {"locked", "sealed"} => rlocked = {}
  /\ closed => closer \in {"locked", "sealed", "returned"}
  /\ sealed <=> closer \in {"sealed", "returned"}
  /\ sealed => closed
  /\ \A d \in Dispatcher : pc[d] = "send" => ~closed
  /\ ~panicked

\* What main's loop contributes: it holds at most one reading, only while it
\* is inserting, and it has left the loop only on a closed and empty channel.
WriterInv ==
  /\ writer = "insert" <=> writing # <<>>
  /\ Len(writing) <= 1
  /\ writer = "ended" => sealed /\ queue = <<>>

\* No two dispatchers carry the same reading, so one that returns takes its
\* reading out of the callbacks altogether.
HeldApart ==
  \A d, e \in Dispatcher : held[d] = held[e] /\ held[d] # None => d = e

IInv ==
  /\ TypeOK
  /\ HeldInv
  /\ LockInv
  /\ WriterInv
  /\ DeliveredInOrder
  /\ HeldApart
  /\ OneVerdictPerReading

LEMMA InitIInv == Init => IInv
  <1> SUFFICES ASSUME Init PROVE IInv
    OBVIOUS
  <1> USE BufferSizeAssumption DEF Init
  <1>1. <<>> \in Seq(Reading) /\ Len(<<>>) = 0
    BY EmptySeq
  <1>2. TypeOK
    <2>1. /\ queue \in Seq(Reading)
          /\ Len(queue) <= BufferSize
          /\ writing \in Seq(Reading)
          /\ accepted \in Seq(Reading)
          /\ handled \in Seq(Reading)
      BY <1>1
    <2>2. /\ pc \in [Dispatcher -> {"idle", "lock", "check", "send", "unlock"}]
          /\ held \in [Dispatcher -> Reading \cup {None}]
          /\ result \in [Dispatcher -> PublishResult]
      BY DEF PublishResult
    <2> QED
      BY <2>1, <2>2 DEF TypeOK
  <1>3. HeldInv /\ LockInv
    BY DEF HeldInv, LockInv
  <1>4. WriterInv
    BY DEF WriterInv
  <1>5. DeliveredInOrder
    BY <1>1, ConcatEmptySeq DEF DeliveredInOrder
  <1>6. HeldApart
    BY DEF HeldApart
  <1>7. OneVerdictPerReading
    <2>1. DOMAIN accepted = {}
      OBVIOUS
    <2>2. ToSet(accepted) = {} /\ IsInjective(accepted)
      BY <2>1 DEF ToSet, IsInjective
    <2>3. InCallback = {}
      BY DEF InCallback
    <2> QED
      BY <2>2, <2>3 DEF OneVerdictPerReading
  <1> QED
    BY <1>2, <1>3, <1>4, <1>5, <1>6, <1>7 DEF IInv

\* The type invariant, with what a dispatcher carries, is inductive.
LEMMA TypeStep ==
  ASSUME TypeOK, HeldInv, [Next]_vars
  PROVE  TypeOK' /\ HeldInv'
  <1> USE BufferSizeAssumption, NoneAssumption DEF TypeOK, HeldInv, PublishResult
  <1>1. ASSUME NEW d \in Dispatcher, NEW r \in Reading, NotificationMalformed(d, r)
        PROVE  TypeOK' /\ HeldInv'
    BY <1>1 DEF NotificationMalformed, dispatchVars, closerVars, writerVars
  <1>2. ASSUME NEW d \in Dispatcher, NEW r \in Reading, NotificationParsed(d, r)
        PROVE  TypeOK' /\ HeldInv'
    BY <1>2 DEF NotificationParsed, Goto, closerVars, writerVars, countVars
  <1>3. ASSUME NEW d \in Dispatcher, PublishLock(d)
        PROVE  TypeOK' /\ HeldInv'
    BY <1>3 DEF PublishLock, Goto, closerVars, writerVars, countVars
  <1>4. ASSUME NEW d \in Dispatcher, PublishCheckClosed(d)
        PROVE  TypeOK' /\ HeldInv'
    BY <1>4 DEF PublishCheckClosed, Goto, closerVars, writerVars, countVars
  <1>5. ASSUME NEW d \in Dispatcher, PublishSelect(d)
        PROVE  TypeOK' /\ HeldInv'
    <2>1. held[d] \in Reading
      BY <1>5 DEF PublishSelect
    <2>2. \A s \in Seq(Reading) : /\ Append(s, held[d]) \in Seq(Reading)
                                  /\ Len(Append(s, held[d])) = Len(s) + 1
      BY <2>1, AppendProperties
    <2>3. /\ queue' \in Seq(Reading)
          /\ Len(queue') <= BufferSize
          /\ accepted' \in Seq(Reading)
      <3>1. CASE /\ Len(queue) < BufferSize
                 /\ queue' = Append(queue, held[d])
                 /\ accepted' = Append(accepted, held[d])
        <4>1. Len(queue) \in Nat
          BY LenProperties
        <4> QED
          BY <3>1, <4>1, <2>2
      <3>2. CASE UNCHANGED <<queue, accepted>>
        BY <3>2
      <3> QED
        BY <1>5, <3>1, <3>2 DEF PublishSelect
    <2>4. result' \in [Dispatcher -> PublishResult] /\ panicked' \in BOOLEAN
      BY <1>5 DEF PublishSelect
    <2>5. /\ pc' = [pc EXCEPT ![d] = "unlock"]
          /\ pc[d] = "send"
          /\ UNCHANGED <<held, rlocked, closer, closed, sealed, writer, writing,
                         failed, handled, malformed, notified, full,
                         late>>
      BY <1>5 DEF PublishSelect, Goto, closerVars, writerVars, countVars
    <2> QED
      BY <2>3, <2>4, <2>5
  <1>6. ASSUME NEW d \in Dispatcher, PublishReturn(d)
        PROVE  TypeOK' /\ HeldInv'
    <2>1. held[d] \in Reading
      BY <1>6 DEF PublishReturn
    <2> QED
      BY <1>6, <2>1 DEF PublishReturn, Goto, closerVars, writerVars
  <1>7. ASSUME CloseRequest \/ Close
        PROVE  TypeOK' /\ HeldInv'
    BY <1>7 DEF CloseRequest, Close, CloseLock, CloseMark, CloseChannel,
                CloseUnlock, dispatchVars, writerVars, countVars
  <1>8. ASSUME Receive
        PROVE  TypeOK' /\ HeldInv'
    BY <1>8 DEF Receive, dispatchVars, closerVars, countVars
  <1>9. ASSUME Insert
        PROVE  TypeOK' /\ HeldInv'
    BY <1>9 DEF Insert, ToSet, dispatchVars, closerVars, countVars
  <1>10. ASSUME EndOfRange
         PROVE  TypeOK' /\ HeldInv'
    BY <1>10 DEF EndOfRange, dispatchVars, closerVars, countVars
  <1>11. CASE UNCHANGED vars
    BY <1>11 DEF vars, dispatchVars, closerVars, writerVars, countVars
  <1> QED
    BY <1>1, <1>2, <1>3, <1>4, <1>5, <1>6, <1>7, <1>8, <1>9, <1>10, <1>11
       DEF Next, Publish, Write

\* Only the actions that touch the lock, the flags or a dispatcher's place can
\* disturb LockInv; the send is on an open channel because of it.
LEMMA LockStep ==
  ASSUME TypeOK, LockInv, [Next]_vars
  PROVE  LockInv'
  <1> USE DEF TypeOK, LockInv
  <1>1. ASSUME NEW d \in Dispatcher, NEW r \in Reading, NotificationMalformed(d, r)
        PROVE  LockInv'
    BY <1>1 DEF NotificationMalformed, dispatchVars, closerVars
  <1>2. ASSUME NEW d \in Dispatcher, NEW r \in Reading, NotificationParsed(d, r)
        PROVE  LockInv'
    BY <1>2 DEF NotificationParsed, Goto, closerVars
  <1>3. ASSUME NEW d \in Dispatcher, PublishLock(d)
        PROVE  LockInv'
    BY <1>3 DEF PublishLock, Goto, closerVars
  <1>4. ASSUME NEW d \in Dispatcher, PublishCheckClosed(d)
        PROVE  LockInv'
    BY <1>4 DEF PublishCheckClosed, Goto, closerVars
  <1>5. ASSUME NEW d \in Dispatcher, PublishSelect(d)
        PROVE  LockInv'
    <2>1. ~sealed
      BY <1>5 DEF PublishSelect
    <2>2. /\ pc[d] = "send"
          /\ pc' = [pc EXCEPT ![d] = "unlock"]
          /\ UNCHANGED <<rlocked, closer, closed, sealed, panicked>>
      BY <1>5, <2>1 DEF PublishSelect, Goto, closerVars
    <2> QED
      BY <2>2
  <1>6. ASSUME NEW d \in Dispatcher, PublishReturn(d)
        PROVE  LockInv'
    BY <1>6 DEF PublishReturn, Goto, closerVars
  <1>7. ASSUME CloseRequest \/ CloseLock
        PROVE  LockInv'
    BY <1>7 DEF CloseRequest, CloseLock, dispatchVars
  <1>8. ASSUME CloseMark \/ CloseChannel \/ CloseUnlock
        PROVE  LockInv'
    BY <1>8 DEF CloseMark, CloseChannel, CloseUnlock, dispatchVars
  <1>9. ASSUME Write
        PROVE  LockInv'
    BY <1>9 DEF Write, Receive, Insert, EndOfRange, dispatchVars, closerVars
  <1>10. CASE UNCHANGED vars
    BY <1>10 DEF vars, dispatchVars, closerVars
  <1> QED
    BY <1>1, <1>2, <1>3, <1>4, <1>5, <1>6, <1>7, <1>8, <1>9, <1>10
       DEF Next, Publish, Close

\* The loop's own state changes only in its own steps, and nothing enters the
\* channel after it was closed.
LEMMA WriterStep ==
  ASSUME TypeOK, LockInv, WriterInv, [Next]_vars
  PROVE  WriterInv'
  <1> USE DEF TypeOK, LockInv, WriterInv
  <1>1. ASSUME NEW d \in Dispatcher, NEW r \in Reading,
               \/ NotificationMalformed(d, r)
               \/ NotificationParsed(d, r)
        PROVE  WriterInv'
    BY <1>1 DEF NotificationMalformed, NotificationParsed, closerVars, writerVars
  <1>2. ASSUME NEW d \in Dispatcher,
               PublishLock(d) \/ PublishCheckClosed(d) \/ PublishReturn(d)
        PROVE  WriterInv'
    BY <1>2 DEF PublishLock, PublishCheckClosed, PublishReturn, closerVars,
                writerVars
  <1>3. ASSUME NEW d \in Dispatcher, PublishSelect(d)
        PROVE  WriterInv'
    BY <1>3 DEF PublishSelect, closerVars, writerVars
  <1>4. ASSUME CloseRequest \/ Close
        PROVE  WriterInv'
    BY <1>4 DEF CloseRequest, Close, CloseLock, CloseMark, CloseChannel,
                CloseUnlock, writerVars
  <1>5. ASSUME Receive
        PROVE  WriterInv'
    BY <1>5 DEF Receive
  <1>6. ASSUME Insert
        PROVE  WriterInv'
    BY <1>6, EmptySeq DEF Insert
  <1>7. ASSUME EndOfRange
        PROVE  WriterInv'
    BY <1>7 DEF EndOfRange, closerVars
  <1>8. CASE UNCHANGED vars
    BY <1>8 DEF vars, closerVars, writerVars
  <1> QED
    BY <1>1, <1>2, <1>3, <1>4, <1>5, <1>6, <1>7, <1>8
       DEF Next, Publish, Write

\* The three places a reading can be in partition the accepted ones, in order,
\* across a send, a receive and an insert.
LEMMA OrderStep ==
  ASSUME TypeOK, HeldInv, WriterInv, DeliveredInOrder, [Next]_vars
  PROVE  DeliveredInOrder'
  <1>a. Joins(accepted, handled, writing, queue)
    BY DEF Joins, DeliveredInOrder
  <1>b. DeliveredInOrder' <=> Joins(accepted', handled', writing', queue')
    BY DEF Joins, DeliveredInOrder
  <1> USE DEF TypeOK
  <1>1. ASSUME NEW d \in Dispatcher, PublishSelect(d)
        PROVE  DeliveredInOrder'
    <2>1. held[d] \in Reading /\ UNCHANGED <<handled, writing>>
      BY <1>1 DEF PublishSelect, HeldInv, writerVars
    <2>2. CASE /\ queue' = Append(queue, held[d])
               /\ accepted' = Append(accepted, held[d])
      BY <1>a, <1>b, <2>1, <2>2, SentLast
    <2>3. CASE UNCHANGED <<queue, accepted>>
      BY <1>a, <1>b, <2>1, <2>3
    <2> QED
      BY <1>1, <2>2, <2>3 DEF PublishSelect
  <1>2. ASSUME Receive
        PROVE  DeliveredInOrder'
    <2>1. writing = <<>> /\ queue # <<>>
      BY <1>2 DEF Receive, WriterInv
    <2> QED
      BY <1>2, <1>a, <1>b, <2>1, ReceivedFirst DEF Receive
  <1>3. ASSUME Insert
        PROVE  DeliveredInOrder'
    BY <1>3, <1>a, <1>b, InsertedNext DEF Insert
  <1>4. ASSUME UNCHANGED <<accepted, handled, writing, queue>>
        PROVE  DeliveredInOrder'
    BY <1>4 DEF DeliveredInOrder
  <1>5. CASE \E d \in Dispatcher, r \in Reading :
               NotificationMalformed(d, r) \/ NotificationParsed(d, r)
    BY <1>4, <1>5 DEF NotificationMalformed, NotificationParsed, writerVars
  <1>6. CASE \E d \in Dispatcher :
               PublishLock(d) \/ PublishCheckClosed(d) \/ PublishReturn(d)
    BY <1>4, <1>6 DEF PublishLock, PublishCheckClosed, PublishReturn, writerVars
  <1>7. CASE CloseRequest \/ Close
    BY <1>4, <1>7 DEF CloseRequest, Close, CloseLock, CloseMark, CloseChannel,
                      CloseUnlock, writerVars
  <1>8. CASE EndOfRange
    BY <1>4, <1>8 DEF EndOfRange
  <1>9. CASE UNCHANGED vars
    BY <1>4, <1>9 DEF vars, writerVars
  <1> QED
    BY <1>1, <1>2, <1>3, <1>5, <1>6, <1>7, <1>8, <1>9 DEF Next, Publish, Write

\* What one more reading adds to the elements of a sequence.
LEMMA AppendedElements ==
  ASSUME NEW S, NEW s \in Seq(S), NEW r \in S
  PROVE  /\ ToSet(Append(s, r)) = ToSet(s) \cup {r}
         /\ IsInjective(s) /\ r \notin ToSet(s) => IsInjective(Append(s, r))
  <1>1. /\ DOMAIN s = 1 .. Len(s) /\ Len(s) \in Nat
        /\ DOMAIN Append(s, r) = 1 .. Len(s) + 1
        /\ \A i \in 1 .. Len(s) : Append(s, r)[i] = s[i]
        /\ Append(s, r)[Len(s) + 1] = r
    BY AppendProperties, LenProperties
  <1>2. ToSet(Append(s, r)) = ToSet(s) \cup {r}
    BY <1>1 DEF ToSet
  <1>3. ASSUME IsInjective(s), r \notin ToSet(s)
        PROVE  IsInjective(Append(s, r))
    BY <1>1, <1>3 DEF IsInjective, ToSet
  <1> QED
    BY <1>2, <1>3

\* A reading goes from the callback to one of three places, and nowhere else.
LEMMA VerdictStep ==
  ASSUME TypeOK, HeldInv, LockInv, HeldApart, OneVerdictPerReading, [Next]_vars
  PROVE  HeldApart' /\ OneVerdictPerReading'
  <1> USE NoneAssumption DEF TypeOK, HeldInv, HeldApart, OneVerdictPerReading,
                             InCallback, Goto
  <1>1. ASSUME NEW d \in Dispatcher, NEW r \in Reading, NotificationMalformed(d, r)
        PROVE  HeldApart' /\ OneVerdictPerReading'
    BY <1>1 DEF NotificationMalformed, Arrived, dispatchVars
  <1>2. ASSUME NEW d \in Dispatcher, NEW r \in Reading, NotificationParsed(d, r)
        PROVE  HeldApart' /\ OneVerdictPerReading'
    BY <1>2 DEF NotificationParsed, Arrived
  <1>3. ASSUME NEW d \in Dispatcher, PublishLock(d) \/ PublishCheckClosed(d)
        PROVE  HeldApart' /\ OneVerdictPerReading'
    BY <1>3 DEF PublishLock, PublishCheckClosed, countVars
  <1>4. ASSUME NEW d \in Dispatcher, PublishSelect(d)
        PROVE  HeldApart' /\ OneVerdictPerReading'
    <2>1. /\ pc[d] = "send" /\ pc' = [pc EXCEPT ![d] = "unlock"]
          /\ UNCHANGED <<held, malformed, notified, full, late>>
          /\ ~sealed /\ held[d] \in Reading /\ held[d] \notin ToSet(accepted)
      BY <1>4 DEF PublishSelect, LockInv, countVars
    <2>2. CASE /\ accepted' = Append(accepted, held[d])
               /\ result' = [result EXCEPT ![d] = "published"]
      <3>1. /\ ToSet(accepted') = ToSet(accepted) \cup {held[d]}
            /\ IsInjective(accepted')
        BY <2>1, <2>2, AppendedElements
      <3>2. \A e \in Dispatcher \ {d} : held[e] # held[d]
        BY <2>1
      <3> QED
        BY <2>1, <2>2, <3>1, <3>2
    <2>3. CASE /\ UNCHANGED accepted
               /\ result' = [result EXCEPT ![d] = "droppedQueueFull"]
      BY <2>1, <2>3 DEF PublishResult
    <2> QED
      BY <1>4, <2>1, <2>2, <2>3 DEF PublishSelect
  <1>5. ASSUME NEW d \in Dispatcher, PublishReturn(d)
        PROVE  HeldApart' /\ OneVerdictPerReading'
    <2>1. /\ pc[d] = "unlock" /\ pc' = [pc EXCEPT ![d] = "idle"]
          /\ held' = [held EXCEPT ![d] = None]
          /\ UNCHANGED <<result, accepted, notified, malformed>>
          /\ held[d] \in Reading
      BY <1>5 DEF PublishReturn
    <2>2. InCallback = InCallback' \cup {held[d]} /\ held[d] \notin InCallback'
      BY <2>1
    <2>3. CASE result[d] = "published"
      <3>1. UNCHANGED <<full, late>> /\ held[d] \in ToSet(accepted)
        BY <1>5, <2>1, <2>3 DEF PublishReturn
      <3> QED
        BY <2>1, <2>2, <3>1
    <2>4. CASE result[d] = "droppedQueueFull"
      <3>1. /\ full' = full \cup {held[d]} /\ UNCHANGED late
            /\ held[d] \notin ToSet(accepted)
        BY <1>5, <2>1, <2>4 DEF PublishReturn
      <3> QED
        BY <2>1, <2>2, <3>1
    <2>5. CASE result[d] = "droppedShuttingDown"
      <3>1. /\ late' = late \cup {held[d]} /\ UNCHANGED full
            /\ held[d] \notin ToSet(accepted)
        BY <1>5, <2>1, <2>5 DEF PublishReturn
      <3> QED
        BY <2>1, <2>2, <3>1
    <2> QED
      BY <2>3, <2>4, <2>5 DEF PublishResult
  <1>6. CASE CloseRequest \/ Close
    BY <1>6 DEF CloseRequest, Close, CloseLock, CloseMark, CloseChannel,
                CloseUnlock, dispatchVars, countVars
  <1>7. CASE Write
    BY <1>7 DEF Write, Receive, Insert, EndOfRange, dispatchVars, countVars
  <1>8. CASE UNCHANGED vars
    BY <1>8 DEF vars, dispatchVars, countVars
  <1> QED
    BY <1>1, <1>2, <1>3, <1>4, <1>5, <1>6, <1>7, <1>8 DEF Next, Publish

\* The inductive invariant holds in every reachable state.
THEOREM Invariance == SafeSpec => []IInv
  <1>1. ASSUME IInv, [Next]_vars
        PROVE  IInv'
    <2>1. /\ TypeOK /\ HeldInv /\ LockInv /\ WriterInv /\ DeliveredInOrder
          /\ HeldApart /\ OneVerdictPerReading
      BY <1>1 DEF IInv
    <2>2. TypeOK' /\ HeldInv'
      BY <1>1, <2>1, TypeStep
    <2>3. LockInv'
      BY <1>1, <2>1, LockStep
    <2>4. WriterInv'
      BY <1>1, <2>1, WriterStep
    <2>5. DeliveredInOrder'
      BY <1>1, <2>1, OrderStep
    <2>6. HeldApart' /\ OneVerdictPerReading'
      BY <1>1, <2>1, VerdictStep
    <2> QED
      BY <2>2, <2>3, <2>4, <2>5, <2>6 DEF IInv
  <1> QED
    BY InitIInv, <1>1, PTL DEF SafeSpec

\* Every variable keeps its type and the channel never exceeds its capacity.
THEOREM TypeCorrect == SafeSpec => []TypeOK
  <1>1. IInv => TypeOK
    BY DEF IInv
  <1> QED
    BY Invariance, <1>1, PTL

\* However many callbacks race the close, none sends on the closed channel.
THEOREM NoSendOnClosed == SafeSpec => []NeverSendsOnClosed
  <1>1. IInv => NeverSendsOnClosed
    BY DEF IInv, LockInv, NeverSendsOnClosed
  <1> QED
    BY Invariance, <1>1, PTL

\* For any capacity, nothing that was accepted is lost, repeated or overtaken.
THEOREM InOrder == SafeSpec => []DeliveredInOrder
  <1>1. IInv => DeliveredInOrder
    BY DEF IInv
  <1> QED
    BY Invariance, <1>1, PTL

\* For any number of racing callbacks, the counters account for each reading
\* exactly once.
THEOREM BooksBalance == SafeSpec => []OneVerdictPerReading
  <1>1. IInv => OneVerdictPerReading
    BY DEF IInv
  <1> QED
    BY Invariance, <1>1, PTL

\* What a reader of main relies on: the code's queue, lock, flags and loop are,
\* step by step, a bounded stream that hands over in order and ends only when
\* it was closed and everything accepted was handed over.
THEOREM Refinement == SafeSpec => Stream!SafeSpec
  <1>1. Init => Stream!Init
    BY DEF Init, Stream!Init, Stage
  <1>2. ASSUME IInv, [Next]_vars
        PROVE  [Stream!Next]_(Stream!vars)
    <2> USE <1>2 DEF IInv
    <2>1. ASSUME NEW d \in Dispatcher, PublishSelect(d)
          PROVE  \/ \E r \in Reading : Stream!Accept(r)
                 \/ UNCHANGED Stream!vars
      <3>1. UNCHANGED <<handled, writer, sealed>> /\ ~sealed /\ writer # "ended"
        BY <2>1 DEF PublishSelect, closerVars, writerVars, LockInv, WriterInv
      <3>2. CASE /\ Len(queue) < BufferSize
                 /\ accepted' = Append(accepted, held[d])
        <4>1. held[d] \in Reading
          BY <2>1 DEF PublishSelect, HeldInv, TypeOK
        <4>2. Len(accepted) = Len(handled) + Len(writing) + Len(queue)
          BY ConcatProperties, LenProperties DEF TypeOK, DeliveredInOrder
        <4>3. /\ Len(handled) \in Nat /\ Len(writing) \in Nat
              /\ Len(queue) \in Nat /\ BufferSize \in Nat
          BY LenProperties, BufferSizeAssumption DEF TypeOK
        <4>4. Len(accepted) - Len(handled) < BufferSize + 1
          BY <3>2, <4>2, <4>3 DEF WriterInv
        <4>5. Stream!Accept(held[d])
          BY <3>1, <3>2, <4>4 DEF Stream!Accept, Stage
        <4> QED
          BY <4>1, <4>5
      <3>3. CASE UNCHANGED accepted
        BY <3>1, <3>3 DEF Stream!vars, Stage
      <3> QED
        BY <2>1, <3>2, <3>3 DEF PublishSelect
    <2>2. ASSUME Insert
          PROVE  Stream!Handle
      <3>1. /\ writer = "insert" /\ writer' = "receive"
            /\ writing # <<>> /\ Len(writing) <= 1
            /\ handled' = handled \o writing
            /\ UNCHANGED <<accepted, sealed>>
        BY <2>2 DEF Insert, WriterInv, closerVars
      <3>2. /\ handled \in Seq(Reading) /\ writing \in Seq(Reading)
            /\ queue \in Seq(Reading)
            /\ accepted = handled \o writing \o queue
        BY DEF TypeOK, DeliveredInOrder
      <3>3. /\ handled' = Append(handled, writing[1])
            /\ Len(handled) < Len(accepted)
            /\ accepted[Len(handled) + 1] = writing[1]
        BY <3>1, <3>2, OneInTheMiddle
      <3> QED
        BY <3>1, <3>3 DEF Stream!Handle, Stage
    <2>3. ASSUME CloseChannel
          PROVE  Stream!Seal
      BY <2>3 DEF CloseChannel, Stream!Seal, Stage, LockInv, WriterInv, writerVars
    <2>4. ASSUME EndOfRange
          PROVE  Stream!End
      <3>1. writing = <<>> /\ queue = <<>>
        BY <2>4 DEF EndOfRange, WriterInv
      <3>2. handled = accepted
        BY <3>1, ConcatEmptySeq DEF TypeOK, DeliveredInOrder
      <3> QED
        BY <2>4, <3>2 DEF EndOfRange, Stream!End, Stage, closerVars
    <2>5. ASSUME UNCHANGED <<accepted, handled, writer, sealed>>
          PROVE  UNCHANGED Stream!vars
      BY <2>5 DEF Stream!vars, Stage
    <2>6. CASE \E d \in Dispatcher, r \in Reading :
                 NotificationMalformed(d, r) \/ NotificationParsed(d, r)
      BY <2>5, <2>6 DEF NotificationMalformed, NotificationParsed, writerVars,
                        closerVars
    <2>7. CASE \E d \in Dispatcher :
                 PublishLock(d) \/ PublishCheckClosed(d) \/ PublishReturn(d)
      BY <2>5, <2>7 DEF PublishLock, PublishCheckClosed, PublishReturn,
                        writerVars, closerVars
    <2>8. CASE CloseRequest \/ CloseLock \/ CloseMark \/ CloseUnlock
      BY <2>5, <2>8 DEF CloseRequest, CloseLock, CloseMark, CloseUnlock, writerVars
    <2>9. CASE Receive
      <3>1. writer \in {"receive"} /\ writer' = "insert"
        BY <2>9 DEF Receive
      <3> QED
        BY <2>9, <3>1 DEF Receive, Stream!vars, Stage, closerVars
    <2>10. CASE UNCHANGED vars
      BY <2>5, <2>10 DEF vars, writerVars, closerVars
    <2> QED
      BY <2>1, <2>2, <2>3, <2>4, <2>6, <2>7, <2>8, <2>9, <2>10
         DEF Next, Publish, Close, Write, Stream!Next
  <1> QED
    BY Invariance, <1>1, <1>2, PTL DEF SafeSpec, Stream!SafeSpec
=============================================================================
