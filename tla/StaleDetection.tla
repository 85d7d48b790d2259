--------------------------- MODULE StaleDetection ---------------------------
(***************************************************************************)
(* When a battery counts as gone: connect, handleNotification and          *)
(* pollUntilStale (internal/litime/manager.go) for one battery, with time. *)
(*                                                                         *)
(* Nothing tells a central that its peer has disappeared, so the code      *)
(* compares the time of the connection's last reading, lastSeen, with      *)
(* StaleTimeout after every query.  lastSeen is first set before Connect   *)
(* is called, and Connect may wait for the radio; each connection has a    *)
(* lastSeen of its own, because notifications of the one before may still  *)
(* be on their way.                                                        *)
(*                                                                         *)
(* Clocks are kept as ages, which all grow by one when time passes.  Time  *)
(* does not pass while the goroutine has something to do, nor between two  *)
(* connections, where no clock matters.                                    *)
(***************************************************************************)
EXTENDS Naturals

CONSTANTS
  ScrapeInterval,  \* period of the ticker
  StaleTimeout,    \* silence after which a connection is given up
  ConnectTime,     \* bound: how long Connect takes, the wait for the radio
                   \* included
  QueryTime        \* bound: how long QueryData takes

\* What NewManager insists on.
ASSUME IntervalAssumption ==
  /\ ScrapeInterval \in Nat \ {0}
  /\ StaleTimeout \in Nat
  /\ StaleTimeout > ScrapeInterval

\* Connecting and querying end.  Nothing in the code bounds QueryData, so that
\* QueryTime may be anything, also longer than the scrape interval.
ASSUME BoundAssumption == ConnectTime \in Nat /\ QueryTime \in Nat

VARIABLES
  phase,       \* "down", "connecting", "waiting" for the tick or "querying"
  connecting,  \* for how long Connect has been running
  lastSeen,    \* age of this connection's lastSeen
  sinceTick,   \* time since the ticker last fired
  due,         \* a tick is in the ticker's channel
  querying,    \* for how long QueryData has been running
  unanswered,  \* history: queries sent since this connection's last reading
  quiet,       \* history: time since this connection's last reading, or since
               \* it was established
  verdict      \* history: why the last connection was given up

vars == <<phase, connecting, lastSeen, sinceTick, due, querying, unanswered,
          quiet, verdict>>

tickVars == <<sinceTick, due>>
historyVars == <<unanswered, quiet, verdict>>

Polling == phase \in {"waiting", "querying"}

Init ==
  /\ phase = "down"
  /\ connecting = 0
  /\ lastSeen = 0
  /\ sinceTick = 0
  /\ due = FALSE
  /\ querying = 0
  /\ unanswered = 0
  /\ quiet = 0
  /\ verdict = "none"

\* Faulty variant: the counter of the connection before is carried over.
ConnectSharesCounter ==
  /\ phase = "down"
  /\ phase' = "connecting"
  /\ connecting' = 0
  /\ verdict' = "none"
  /\ UNCHANGED <<lastSeen, tickVars, querying, unanswered, quiet>>

\* connect: the new connection's counter starts at the time of the attempt.
Connect ==
  /\ phase = "down"
  /\ phase' = "connecting"
  /\ connecting' = 0
  /\ lastSeen' = 0
  /\ verdict' = "none"
  /\ UNCHANGED <<tickVars, querying, unanswered, quiet>>

ConnectFails ==
  /\ phase = "connecting"
  /\ phase' = "down"
  /\ connecting' = 0
  /\ UNCHANGED <<lastSeen, tickVars, querying, historyVars>>

\* Connect has returned and pollUntilStale starts its ticker.
Connected ==
  /\ phase = "connecting"
  /\ phase' = "waiting"
  /\ connecting' = 0
  /\ sinceTick' = 0
  /\ due' = FALSE
  /\ unanswered' = 0
  /\ quiet' = 0
  /\ UNCHANGED <<lastSeen, querying, verdict>>

Live == phase \in {"connecting", "waiting", "querying"}

Reading == lastSeen' = 0 /\ unanswered' = 0 /\ quiet' = 0

NoReading == UNCHANGED <<lastSeen, unanswered, quiet>>

\* Faulty variants: lastSeen is stored before the notification is parsed, and
\* one lastSeen serves all connections to the battery.
NotificationAlwaysCounts(own, parses) ==
  /\ Live
  /\ IF own
     THEN /\ lastSeen' = 0
          /\ IF parses THEN unanswered' = 0 /\ quiet' = 0
                       ELSE UNCHANGED <<unanswered, quiet>>
     ELSE NoReading
  /\ UNCHANGED <<phase, connecting, tickVars, querying, verdict>>

NotificationSharesCounter(own, parses) ==
  /\ Live
  /\ IF parses
     THEN /\ lastSeen' = 0
          /\ IF own THEN unanswered' = 0 /\ quiet' = 0
                    ELSE UNCHANGED <<unanswered, quiet>>
     ELSE NoReading
  /\ UNCHANGED <<phase, connecting, tickVars, querying, verdict>>

\* handleNotification: the callback closes over the lastSeen of its own
\* connection, so that a late notification of an earlier one stores into a
\* counter nobody reads any more; what does not parse stores nothing.
Notification(own, parses) ==
  /\ Live
  /\ IF own /\ parses THEN Reading ELSE NoReading
  /\ UNCHANGED <<phase, connecting, tickVars, querying, verdict>>

\* Faulty variant: the next query waits for the answer to the last one.
QueryAwaitsAnswer ==
  /\ phase = "waiting"
  /\ due
  /\ unanswered = 0
  /\ due' = FALSE
  /\ phase' = "querying"
  /\ querying' = 0
  /\ unanswered' = unanswered + 1
  /\ UNCHANGED <<connecting, lastSeen, sinceTick, quiet, verdict>>

\* case <-ticker.C
Query ==
  /\ phase = "waiting"
  /\ due
  /\ due' = FALSE
  /\ phase' = "querying"
  /\ querying' = 0
  /\ unanswered' = unanswered + 1
  /\ UNCHANGED <<connecting, lastSeen, sinceTick, quiet, verdict>>

\* QueryData returns an error, or the context is done.
PollStops ==
  /\ Polling
  /\ phase' = "down"
  /\ querying' = 0
  /\ due' = FALSE
  /\ verdict' = "stopped"
  /\ UNCHANGED <<connecting, lastSeen, sinceTick, unanswered, quiet>>

\* Faulty variant: the check compares with the wrong interval.
CheckTooEarly ==
  /\ phase = "querying"
  /\ querying' = 0
  /\ IF lastSeen + ScrapeInterval > StaleTimeout
     THEN phase' = "down" /\ due' = FALSE /\ verdict' = "stale"
     ELSE phase' = "waiting" /\ UNCHANGED <<due, verdict>>
  /\ UNCHANGED <<connecting, lastSeen, sinceTick, unanswered, quiet>>

\* QueryData has returned; the silence is measured at once, before the answer
\* to this query can be there.
Check ==
  /\ phase = "querying"
  /\ querying' = 0
  /\ IF lastSeen > StaleTimeout
     THEN phase' = "down" /\ due' = FALSE /\ verdict' = "stale"
     ELSE phase' = "waiting" /\ UNCHANGED <<due, verdict>>
  /\ UNCHANGED <<connecting, lastSeen, sinceTick, unanswered, quiet>>

\* One unit of time.  The ticker keeps one tick if nobody takes it.
Pass ==
  /\ ~(phase = "waiting" /\ due)
  /\ phase = "connecting" => connecting < ConnectTime
  /\ phase = "querying" => querying < QueryTime
  /\ phase # "down"
  /\ lastSeen' = lastSeen + 1
  /\ connecting' = IF phase = "connecting" THEN connecting + 1 ELSE connecting
  /\ querying' = IF phase = "querying" THEN querying + 1 ELSE querying
  /\ IF Polling
     THEN /\ quiet' = quiet + 1
          /\ IF sinceTick + 1 = ScrapeInterval
             THEN sinceTick' = 0 /\ due' = TRUE
             ELSE sinceTick' = sinceTick + 1 /\ UNCHANGED due
     ELSE UNCHANGED <<quiet, tickVars>>
  /\ UNCHANGED <<phase, unanswered, verdict>>

Next ==
  \/ Connect
  \/ ConnectFails
  \/ Connected
  \/ \E own, parses \in BOOLEAN : Notification(own, parses)
  \/ Query
  \/ PollStops
  \/ Check
  \/ Pass

SafeSpec == Init /\ [][Next]_vars

\* Time passes and the goroutine runs.
Spec == SafeSpec /\ WF_vars(Pass) /\ WF_vars(Query) /\ WF_vars(Check)
-----------------------------------------------------------------------------
(***************************************************************************)
(* Properties.                                                             *)
(***************************************************************************)

\* The longest a connection can be silent before it is given up.
Bound == StaleTimeout + ScrapeInterval + QueryTime

TypeOK ==
  /\ phase \in {"down", "connecting", "waiting", "querying"}
  /\ connecting \in 0 .. ConnectTime
  /\ lastSeen \in 0 .. ConnectTime + Bound
  /\ sinceTick \in 0 .. ScrapeInterval - 1
  /\ due \in BOOLEAN
  /\ querying \in 0 .. QueryTime
  /\ unanswered \in Nat
  /\ quiet \in Nat
  /\ verdict \in {"none", "stale", "stopped"}

\* A battery that stops answering is found out: no connection is kept for
\* longer than the timeout, one scrape interval and one query without a
\* reading, whatever garbage or late notifications of an earlier connection
\* arrive meanwhile.
SilenceIsDetected == Polling => quiet <= Bound

\* A connection is given up as stale only when a query before the last one
\* has gone without any reading: the check never condemns a battery that had
\* no chance to answer.  It takes a timeout with room for what may come between
\* the last sign of life and the end of the first query after it: a connection
\* attempt (lastSeen is as old as that) or the rest of a query, and an interval.
StaleAfterUnansweredQuery ==
  (\A before \in {ConnectTime, QueryTime} :
     before + ScrapeInterval + QueryTime <= StaleTimeout) =>
    (verdict = "stale" => unanswered > 1)

\* The clocks cannot run into each other: a silent connection does reach the
\* check that ends it.
SilentConnectionEnds ==
  phase = "waiting" /\ quiet > 0 ~> phase = "down" \/ quiet = 0

(***************************************************************************)
(* What the documentation says, and the code does otherwise.               *)
(***************************************************************************)

\* manager.go, StaleTimeout: "how long a battery may stay silent before it is
\* treated as disconnected and cycled".
StaleMeansSilent == verdict = "stale" => quiet > StaleTimeout
=============================================================================
