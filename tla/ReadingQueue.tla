---------------------------- MODULE ReadingQueue ----------------------------
(***************************************************************************)
(* The battery Manager's reading queue (internal/litime/manager.go) from   *)
(* the Bluetooth callback to the database write: handleNotification and    *)
(* publish on the stack's dispatch goroutines, closeReadings on the        *)
(* goroutine of Manager.Run, and the range loop with insert in main.       *)
(*                                                                         *)
(* Every lock step of publish and closeReadings is an action of its own,   *)
(* because the hazard is a notification that arrives while the channel is  *)
(* being closed: a send on a closed channel panics.  closeMu is Go's       *)
(* sync.RWMutex, in which a writer that is waiting keeps new readers out.  *)
(*                                                                         *)
(* A member of Reading stands for one notification and what it decodes to, *)
(* so each is used once.                                                   *)
(***************************************************************************)
EXTENDS Naturals, Sequences, SequencesExt

CONSTANTS
  Dispatcher,  \* dispatch goroutines that may be in the callback at once
  Reading,     \* the notifications that may arrive
  BufferSize,  \* capacity of the readings channel
  None         \* no reading

\* NewManager replaces a size that is not positive by 256.
ASSUME BufferSizeAssumption == BufferSize \in Nat \ {0}

ASSUME NoneAssumption == None \notin Reading

VARIABLES
  pc,         \* pc[d]: where dispatcher d is in handleNotification
  held,       \* held[d]: the reading d carries, None outside the callback
  result,     \* result[d]: the publishResult d is about to return
  rlocked,    \* the dispatchers that hold closeMu for reading
  closer,     \* where Run's goroutine is in closeReadings
  closed,     \* Manager.closed
  sealed,     \* the channel readings has been closed
  panicked,   \* some goroutine sent on the closed channel
  queue,      \* what the channel holds, oldest first
  writer,     \* where main's range loop is
  writing,    \* the reading insert is busy with, as a sequence of 0 or 1
  malformed,  \* notifications that did not parse
  notified,   \* readings counted as notifications
  full,       \* readings counted as dropped because the queue was full
  late,       \* readings refused because the stream was already closed
  failed,     \* readings whose insert returned an error
  accepted,   \* history: every reading sent on the channel, oldest first
  handled     \* history: every reading insert has returned for

dispatchVars == <<pc, held, result, rlocked>>
closerVars == <<closer, closed, sealed>>
writerVars == <<writer, writing, failed, handled>>
countVars == <<malformed, notified, full, late>>
vars == <<dispatchVars, closerVars, panicked, queue, writerVars, countVars,
          accepted>>

PublishResult == {"published", "droppedQueueFull", "droppedShuttingDown"}

Init ==
  /\ pc = [d \in Dispatcher |-> "idle"]
  /\ held = [d \in Dispatcher |-> None]
  /\ result = [d \in Dispatcher |-> "published"]
  /\ rlocked = {}
  /\ closer = "running"
  /\ closed = FALSE
  /\ sealed = FALSE
  /\ panicked = FALSE
  /\ queue = <<>>
  /\ writer = "receive"
  /\ writing = <<>>
  /\ malformed = {}
  /\ notified = {}
  /\ full = {}
  /\ late = {}
  /\ failed = {}
  /\ accepted = <<>>
  /\ handled = <<>>

Goto(d, label) == pc' = [pc EXCEPT ![d] = label]

(***************************************************************************)
(* The dispatch goroutines: handleNotification and publish.                *)
(***************************************************************************)

\* The readings a dispatcher is carrying and has not been answered for.
InCallback == {held[d] : d \in Dispatcher} \ {None}

Arrived ==
  ToSet(accepted) \cup full \cup late \cup malformed \cup InCallback

\* A notification that does not parse is counted and goes no further.
NotificationMalformed(d, r) ==
  /\ pc[d] = "idle"
  /\ r \notin Arrived
  /\ malformed' = malformed \cup {r}
  /\ UNCHANGED <<dispatchVars, closerVars, panicked, queue, writerVars,
                 notified, full, late, accepted>>

\* One that does is counted and carried into publish.
NotificationParsed(d, r) ==
  /\ pc[d] = "idle"
  /\ r \notin Arrived
  /\ notified' = notified \cup {r}
  /\ held' = [held EXCEPT ![d] = r]
  /\ Goto(d, "lock")
  /\ UNCHANGED <<result, rlocked, closerVars, panicked, queue, writerVars,
                 malformed, full, late, accepted>>

\* Faulty variant: publish reads Manager.closed without taking closeMu.
PublishUnlocked(d) ==
  /\ pc[d] = "lock"
  /\ Goto(d, "check")
  /\ UNCHANGED <<held, result, rlocked, closerVars, panicked, queue,
                 writerVars, countVars, accepted>>

\* RLock waits for a writer that holds the lock or is waiting for it.
PublishLock(d) ==
  /\ pc[d] = "lock"
  /\ closer \in {"running", "returned"}
  /\ rlocked' = rlocked \cup {d}
  /\ Goto(d, "check")
  /\ UNCHANGED <<held, result, closerVars, panicked, queue, writerVars,
                 countVars, accepted>>

PublishCheckClosed(d) ==
  /\ pc[d] = "check"
  /\ IF closed
     THEN /\ result' = [result EXCEPT ![d] = "droppedShuttingDown"]
          /\ Goto(d, "unlock")
     ELSE /\ Goto(d, "send")
          /\ UNCHANGED result
  /\ UNCHANGED <<held, rlocked, closerVars, panicked, queue, writerVars,
                 countVars, accepted>>

\* Faulty variants: a select that lets one reading too many in, and a plain
\* send without a default case, which waits for room.
PublishOverfull(d) ==
  /\ pc[d] = "send"
  /\ Goto(d, "unlock")
  /\ queue' = Append(queue, held[d])
  /\ accepted' = Append(accepted, held[d])
  /\ result' = [result EXCEPT ![d] = "published"]
  /\ UNCHANGED <<held, rlocked, closerVars, panicked, writerVars, countVars>>

PublishBlocking(d) == Len(queue) < BufferSize /\ PublishOverfull(d)

\* The select: the send happens if there is room, and default otherwise; a
\* closed channel makes the send case ready, and choosing it panics.
PublishSelect(d) ==
  /\ pc[d] = "send"
  /\ Goto(d, "unlock")
  /\ \/ /\ sealed
        /\ panicked' = TRUE
        /\ UNCHANGED <<queue, accepted, result>>
     \/ /\ ~sealed
        /\ Len(queue) < BufferSize
        /\ queue' = Append(queue, held[d])
        /\ accepted' = Append(accepted, held[d])
        /\ result' = [result EXCEPT ![d] = "published"]
        /\ UNCHANGED panicked
     \/ /\ ~sealed
        /\ Len(queue) >= BufferSize
        /\ result' = [result EXCEPT ![d] = "droppedQueueFull"]
        /\ UNCHANGED <<queue, accepted, panicked>>
  /\ UNCHANGED <<held, rlocked, closerVars, writerVars, countVars>>

\* Faulty variant: everything that did not meet a closed stream is counted as
\* a drop, as if the switch fell through from published.
PublishReturnFallsThrough(d) ==
  /\ pc[d] = "unlock"
  /\ rlocked' = rlocked \ {d}
  /\ full' = full \cup {held[d]}
  /\ held' = [held EXCEPT ![d] = None]
  /\ Goto(d, "idle")
  /\ UNCHANGED <<result, closerVars, panicked, queue, writerVars, malformed,
                 notified, late, accepted>>

\* The deferred RUnlock, and the switch on the result in handleNotification.
PublishReturn(d) ==
  /\ pc[d] = "unlock"
  /\ rlocked' = rlocked \ {d}
  /\ full' = full \cup
       IF result[d] = "droppedQueueFull" THEN {held[d]} ELSE {}
  /\ late' = late \cup
       IF result[d] = "droppedShuttingDown" THEN {held[d]} ELSE {}
  /\ held' = [held EXCEPT ![d] = None]
  /\ Goto(d, "idle")
  /\ UNCHANGED <<result, closerVars, panicked, queue, writerVars, malformed,
                 notified, accepted>>

Publish(d) ==
  \/ PublishLock(d)
  \/ PublishCheckClosed(d)
  \/ PublishSelect(d)
  \/ PublishReturn(d)

(***************************************************************************)
(* Manager.Run's goroutine: closeReadings, deferred by Run.                *)
(***************************************************************************)

\* Run is about to return, for whatever reason, and asks for the write lock.
CloseRequest ==
  /\ closer = "running"
  /\ closer' = "waiting"
  /\ UNCHANGED <<dispatchVars, closed, sealed, panicked, queue, writerVars,
                 countVars, accepted>>

\* The lock is granted once every publish already in flight is out.
CloseLock ==
  /\ closer = "waiting"
  /\ rlocked = {}
  /\ closer' = "locked"
  /\ UNCHANGED <<dispatchVars, closed, sealed, panicked, queue, writerVars,
                 countVars, accepted>>

CloseMark ==
  /\ closer = "locked"
  /\ ~closed
  /\ closed' = TRUE
  /\ UNCHANGED <<dispatchVars, closer, sealed, panicked, queue, writerVars,
                 countVars, accepted>>

\* Faulty variant: closed is set but the channel is never closed.
CloseMarkOnly ==
  /\ closer = "locked"
  /\ closed
  /\ closer' = "sealed"
  /\ UNCHANGED <<dispatchVars, closed, sealed, panicked, queue, writerVars,
                 countVars, accepted>>

CloseChannel ==
  /\ closer = "locked"
  /\ closed
  /\ sealed' = TRUE
  /\ closer' = "sealed"
  /\ UNCHANGED <<dispatchVars, closed, panicked, queue, writerVars,
                 countVars, accepted>>

CloseUnlock ==
  /\ closer = "sealed"
  /\ closer' = "returned"
  /\ UNCHANGED <<dispatchVars, closed, sealed, panicked, queue, writerVars,
                 countVars, accepted>>

Close == CloseLock \/ CloseMark \/ CloseChannel \/ CloseUnlock

(***************************************************************************)
(* main: "for reading := range manager.Readings()" and insert.             *)
(***************************************************************************)

Receive ==
  /\ writer = "receive"
  /\ queue # <<>>
  /\ writing' = <<Head(queue)>>
  /\ queue' = Tail(queue)
  /\ writer' = "insert"
  /\ UNCHANGED <<dispatchVars, closerVars, panicked, failed, handled,
                 countVars, accepted>>

\* Faulty variant: a failed insert puts its reading back on the queue.
InsertRequeues ==
  /\ writer = "insert"
  /\ queue' = queue \o writing
  /\ writing' = <<>>
  /\ writer' = "receive"
  /\ UNCHANGED <<dispatchVars, closerVars, panicked, failed, handled,
                 countVars, accepted>>

\* Insert returns, with or without an error, at the latest when the call's
\* own CALLBACK_TIMEOUT expires; the cancelled root context does not reach
\* it.  There is no retry.
Insert ==
  /\ writer = "insert"
  /\ handled' = handled \o writing
  /\ writing' = <<>>
  /\ failed' \in {failed, failed \cup ToSet(writing)}
  /\ writer' = "receive"
  /\ UNCHANGED <<dispatchVars, closerVars, panicked, queue, countVars,
                 accepted>>

\* Faulty variant: the loop ends with the stream instead of draining it.
EndWithoutDraining ==
  /\ writer = "receive"
  /\ sealed
  /\ writer' = "ended"
  /\ UNCHANGED <<dispatchVars, closerVars, panicked, queue, writing, failed,
                 handled, countVars, accepted>>

\* range ends when the channel is closed and empty.
EndOfRange ==
  /\ writer = "receive"
  /\ queue = <<>>
  /\ sealed
  /\ writer' = "ended"
  /\ UNCHANGED <<dispatchVars, closerVars, panicked, queue, writing, failed,
                 handled, countVars, accepted>>

Write == Receive \/ Insert \/ EndOfRange

Next ==
  \/ \E d \in Dispatcher, r \in Reading :
       NotificationMalformed(d, r) \/ NotificationParsed(d, r)
  \/ \E d \in Dispatcher : Publish(d)
  \/ CloseRequest
  \/ Close
  \/ Write

SafeSpec == Init /\ [][Next]_vars

\* Goroutines that can run do run.  Nothing makes a notification arrive or
\* Run return, and nothing here makes the database answer.
Fairness ==
  /\ \A d \in Dispatcher : WF_vars(Publish(d))
  /\ WF_vars(Close)

Spec == SafeSpec /\ Fairness

\* Inserts return, with an error after CALLBACK_TIMEOUT at the latest.
DatabaseAnswers == WF_vars(Write)
-----------------------------------------------------------------------------
(***************************************************************************)
(* Properties.                                                             *)
(***************************************************************************)

TypeOK ==
  /\ pc \in [Dispatcher -> {"idle", "lock", "check", "send", "unlock"}]
  /\ held \in [Dispatcher -> Reading \cup {None}]
  /\ result \in [Dispatcher -> PublishResult]
  /\ rlocked \subseteq Dispatcher
  /\ closer \in {"running", "waiting", "locked", "sealed", "returned"}
  /\ closed \in BOOLEAN
  /\ sealed \in BOOLEAN
  /\ panicked \in BOOLEAN
  /\ queue \in Seq(Reading)
  /\ Len(queue) <= BufferSize
  /\ writer \in {"receive", "insert", "ended"}
  /\ writing \in Seq(Reading)
  /\ malformed \subseteq Reading
  /\ notified \subseteq Reading
  /\ full \subseteq Reading
  /\ late \subseteq Reading
  /\ failed \subseteq Reading
  /\ accepted \in Seq(Reading)
  /\ handled \in Seq(Reading)

\* No notification, however late, is ever sent on the closed channel: what
\* closeMu and Manager.closed are there for (manager.go, closeMu's comment).
NeverSendsOnClosed == ~panicked

\* Every reading sent on the channel is written once and in the order it was
\* sent: it has been handled, is being written, or waits behind those sent
\* before it.  Covers publish, the range loop and insert together.
DeliveredInOrder == accepted = handled \o writing \o queue

\* The books balance: every reading counted as a notification is in the stream,
\* counted as dropped, refused at shutdown or still in the callback, and in no
\* two of these, except that one just published is in the callback until
\* publish returns.
OneVerdictPerReading ==
  /\ notified = ToSet(accepted) \cup full \cup late \cup InCallback
  /\ notified \cap malformed = {}
  /\ full \cap late = {}
  /\ ToSet(accepted) \cap (full \cup late) = {}
  /\ IsInjective(accepted)
  /\ \A d \in Dispatcher :
       /\ held[d] \notin full \cup late
       /\ held[d] \in ToSet(accepted)
            <=> pc[d] = "unlock" /\ result[d] = "published"

\* A callback that has entered publish leaves it even if the database never
\* answers again: publish runs on the dispatch goroutine and must not block.
CallbackReturns ==
  \A d \in Dispatcher : pc[d] # "idle" ~> pc[d] = "idle"

\* After Run has asked for the close, main's loop gets through what is still
\* queued and ends, so that the process can exit; it takes inserts that return.
ShutdownDrains == DatabaseAnswers => (closer # "running" ~> writer = "ended")

(***************************************************************************)
(* The queue implements the stream that a reader of main relies on.        *)
(***************************************************************************)

Stage ==
  IF writer = "ended" THEN "ended" ELSE IF sealed THEN "sealed" ELSE "open"

\* One reading can be on its way to the database while the channel is full.
Stream == INSTANCE ReadingStream
            WITH Capacity <- BufferSize + 1, stage <- Stage

\* ReadingStream step by step, and its liveness if inserts return: accepted
\* readings are bounded in number, handed over once and in order, and the range
\* loop ends only when the stream is sealed and nothing accepted is left
\* unwritten.
ImplementsStream == Stream!SafeSpec /\ (DatabaseAnswers => Stream!Fairness)
=============================================================================
