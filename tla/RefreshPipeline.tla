--------------------------- MODULE RefreshPipeline ---------------------------
(* How a change of the topology reaches a page: the subscriber channel of the  *)
(* aggregator, the coalescer and the event stream of internal/httpapi, the     *)
(* page's EventSource, its single-flight fetches and its one-shot refresh      *)
(* timer (web/src/hooks/useTopology.ts, web/src/lib/singleFlight.ts).          *)
(*                                                                             *)
(* Abstractions.  A topology is the number of changes it shows.  One page is   *)
(* modelled: pages share nothing but the aggregator, which keeps a channel for *)
(* each.  A change is either committed, and then notified, or a lifecycle      *)
(* deadline that passes (active, recent, offline), which notifies nobody: the  *)
(* page's timer is for those.  Keep-alive comments carry nothing.              *)
(*                                                                             *)
(* A definition called Faulty... is the definition that follows it with one    *)
(* plausible bug; the specification uses none of them.                         *)
EXTENDS Integers, Sequences, SequencesExt

CONSTANTS
    MaxVersion,   \* bound: changes
    MaxDrops,     \* bound: connections of the event stream that break
    MaxFailures   \* bound: fetches that fail

VARIABLES
    version,    \* the changes of the topology so far
    notified,   \* history: the version of the last committed change
    channel,    \* the subscriber's channel of one: "none", "empty", "full"
    coalescer,  \* [pc, timer, pending] of coalesceInvalidations
    handler,    \* streamEvents: "none", "greeting", "looping"
    wire,       \* events under way to the page
    flights,    \* the fetches under way: NotRead, or the version that was read
    pending,    \* singleFlight: one more fetch is to follow
    shown,      \* the version on the page, Nothing before the first
    armed,      \* the page's refresh timer
    error,      \* the page shows an error
    drops, failures  \* history, for the bounds

streamVars  == <<channel, coalescer, handler, wire, drops>>
pageVars    == <<flights, pending, shown, armed, error, failures>>
vars        == <<version, notified, streamVars, pageVars>>

Nothing  == -1
NotRead  == -1
Versions == 0 .. MaxVersion

Idle == [pc |-> "waiting", timer |-> FALSE, pending |-> FALSE]

\* The effect of useTopology requests at once and opens the stream.
Init ==
    /\ version = 0 /\ notified = 0
    /\ channel = "none" /\ coalescer = Idle /\ handler = "none" /\ wire = <<>>
    /\ flights = <<NotRead>> /\ pending = FALSE
    /\ shown = Nothing /\ armed = FALSE /\ error = FALSE
    /\ drops = 0 /\ failures = 0

-----------------------------------------------------------------------------
(* The server. *)

\* notifyLocked: a full channel already holds a notification.
Commit ==
    /\ version < MaxVersion
    /\ version' = version + 1
    /\ notified' = version + 1
    /\ channel' = IF channel = "none" THEN "none" ELSE "full"
    /\ UNCHANGED <<coalescer, handler, wire, drops, pageVars>>

\* A lifecycle deadline passes.
Age ==
    /\ version < MaxVersion
    /\ version' = version + 1
    /\ UNCHANGED <<notified, streamVars, pageVars>>

\* Subscribe comes before the greeting.
Connect ==
    /\ handler = "none"
    /\ channel' = "empty"
    /\ coalescer' = Idle
    /\ handler' = "greeting"
    /\ UNCHANGED <<version, notified, wire, drops, pageVars>>

Greet ==
    /\ handler = "greeting"
    /\ wire' = Append(wire, "ready")
    /\ handler' = "looping"
    /\ UNCHANGED <<version, notified, channel, coalescer, drops, pageVars>>

Coalesces ==
    /\ coalescer.pc = "waiting"
    /\ handler # "none"
    /\ UNCHANGED <<version, notified, handler, wire, drops, pageVars>>

\* The first notification after a quiet window is passed on at once.
PassOn ==
    /\ Coalesces
    /\ channel = "full" /\ ~coalescer.timer
    /\ channel' = "empty"
    /\ coalescer' = [coalescer EXCEPT !.pc = "sending"]

FaultyHoldBack ==
    /\ Coalesces
    /\ channel = "full" /\ coalescer.timer
    /\ channel' = "empty"
    /\ UNCHANGED coalescer

\* Later ones wait for the window to end.
HoldBack ==
    /\ Coalesces
    /\ channel = "full" /\ coalescer.timer
    /\ channel' = "empty"
    /\ coalescer' = [coalescer EXCEPT !.pending = TRUE]

WindowEnds ==
    /\ Coalesces
    /\ coalescer.timer
    /\ coalescer' = IF coalescer.pending
                    THEN [coalescer EXCEPT !.pc = "sending", !.pending = FALSE]
                    ELSE [coalescer EXCEPT !.timer = FALSE]
    /\ UNCHANGED channel

\* The unbuffered channel between coalescer and handler, and the write.
WriteEvent ==
    /\ coalescer.pc = "sending" /\ handler = "looping"
    /\ wire' = Append(wire, "topology")
    /\ coalescer' = [coalescer EXCEPT !.pc = "waiting", !.timer = TRUE]
    /\ UNCHANGED <<version, notified, channel, handler, drops, pageVars>>

\* External: the connection breaks.  The request's context ends, the channel is
\* unsubscribed, and the page's EventSource will reconnect.
Drop ==
    /\ handler # "none" /\ drops < MaxDrops
    /\ channel' = "none" /\ coalescer' = Idle /\ handler' = "none" /\ wire' = <<>>
    /\ drops' = drops + 1
    /\ UNCHANGED <<version, notified, pageVars>>

-----------------------------------------------------------------------------
(* The page. *)

FaultyRequest ==
    /\ flights' = Append(flights, NotRead)
    /\ UNCHANGED pending

\* singleFlight.request
Request ==
    IF flights # <<>> THEN pending' = TRUE /\ UNCHANGED flights
    ELSE flights' = <<NotRead>> /\ UNCHANGED pending

\* An event of the stream, "ready" or "topology".
Receive ==
    /\ wire # <<>>
    /\ wire' = Tail(wire)
    /\ Request
    /\ UNCHANGED <<version, notified, channel, coalescer, handler, drops, shown, armed, error, failures>>

TimerFires ==
    /\ armed
    /\ armed' = FALSE
    /\ Request
    /\ UNCHANGED <<version, notified, streamVars, shown, error, failures>>

\* Snapshot, on the server, for the fetch.
Read(i) ==
    /\ flights[i] = NotRead
    /\ flights' = [flights EXCEPT ![i] = version]
    /\ UNCHANGED <<version, notified, streamVars, pending, shown, armed, error, failures>>

\* The loop of singleFlight: a request that came meanwhile leads to one more.
NextRun(i) ==
    /\ flights' = IF pending THEN Append(RemoveAt(flights, i), NotRead) ELSE RemoveAt(flights, i)
    /\ pending' = FALSE

FaultyArrive(i) ==
    /\ flights[i] # NotRead
    /\ shown' = flights[i]
    /\ error' = FALSE
    /\ armed' = (armed \/ shown = Nothing)
    /\ NextRun(i)
    /\ UNCHANGED <<version, notified, streamVars, failures>>

\* A new topology arms the timer anew.
Arrive(i) ==
    /\ flights[i] # NotRead
    /\ shown' = flights[i]
    /\ error' = FALSE
    /\ armed' = TRUE
    /\ NextRun(i)
    /\ UNCHANGED <<version, notified, streamVars, failures>>

\* A failed fetch changes no topology, so it arms no timer.
Fail(i) ==
    /\ failures < MaxFailures
    /\ failures' = failures + 1
    /\ error' = TRUE
    /\ NextRun(i)
    /\ UNCHANGED <<version, notified, streamVars, shown, armed>>

-----------------------------------------------------------------------------
Next ==
    \/ Commit
    \/ Age
    \/ Connect
    \/ Greet
    \/ PassOn
    \/ HoldBack
    \/ WindowEnds
    \/ WriteEvent
    \/ Drop
    \/ Receive
    \/ TimerFires
    \/ \E i \in 1 .. Len(flights) : Read(i) \/ Arrive(i) \/ Fail(i)

Spec == Init /\ [][Next]_vars

\* Goroutines, the browser's timers and event loop and the network move on.  No
\* change, no broken connection and no failure is ever due.
Fairness ==
    /\ WF_vars(Connect) /\ WF_vars(Greet)
    /\ WF_vars(PassOn) /\ WF_vars(HoldBack) /\ WF_vars(WindowEnds) /\ WF_vars(WriteEvent)
    /\ WF_vars(Receive) /\ WF_vars(TimerFires)
    /\ WF_vars(\E i \in 1 .. Len(flights) : Read(i))
    /\ WF_vars(\E i \in 1 .. Len(flights) : Arrive(i))

FairSpec == Spec /\ Fairness

-----------------------------------------------------------------------------
(* Properties *)

TypeOK ==
    /\ version \in Versions /\ notified \in 0 .. version
    /\ channel \in {"none", "empty", "full"}
    /\ coalescer \in [pc : {"waiting", "sending"}, timer : BOOLEAN, pending : BOOLEAN]
    /\ handler \in {"none", "greeting", "looping"}
    /\ channel = "none" <=> handler = "none"
    /\ wire \in Seq({"ready", "topology"})
    /\ flights \in Seq(Versions \cup {NotRead})
    /\ pending \in BOOLEAN /\ armed \in BOOLEAN /\ error \in BOOLEAN
    /\ shown \in Versions \cup {Nothing}
    /\ drops \in 0 .. MaxDrops /\ failures \in 0 .. MaxFailures

\* Some step that is still to come will make the page read the topology again.
SignalUnderWay ==
    \/ handler \in {"none", "greeting"}
    \/ channel = "full" \/ coalescer.pc = "sending" \/ coalescer.pending
    \/ wire # <<>>
    \/ pending
    \/ \E i \in 1 .. Len(flights) : flights[i] = NotRead \/ flights[i] >= notified

\* A page that has not shown the last committed change is on its way to read it,
\* whatever was dropped because a channel was full, held back by the coalescer,
\* merged into a fetch that had begun, or lost with a connection; only a fetch
\* that failed loses it, and then the page says so (notifyLocked,
\* coalesceInvalidations, singleFlight).
NoLostWakeup == shown < notified => SignalUnderWay \/ error

\* "The browser merges a refresh burst into one in-flight request plus one
\* follow-up" (docs/architecture.md), so that no answer overtakes another: the
\* page never goes back to an earlier topology.
NeverGoesBack == [][shown' >= shown]_vars

\* When nothing changes any more the page comes to show the topology as it is,
\* or says that it does not.
SettlesOrSaysSo == <>[](shown = version \/ error)

=============================================================================
