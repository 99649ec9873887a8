---------------------------- MODULE SnapshotSink ----------------------------
(* The delivery engine of the exporter (exporter/sink.go): sources registered  *)
(* and withdrawn by other goroutines, one sampler goroutine per source, one    *)
(* event loop that keeps the state of every source, and a server that may be   *)
(* slow, restart, refuse a report, or get a report and lose its answer.        *)
(*                                                                             *)
(* Abstractions.  A snapshot is the observer's identity and the generation of  *)
(* its peer list; whether its counters moved is a free choice, and so is       *)
(* whether a heartbeat is due and how many operations fit in one request.  Of  *)
(* the baseline only its place is kept: it is the latest snapshot, an earlier  *)
(* one, or missing.  Keys are handled in sorted order by the code, in any      *)
(* order here.  Withdrawal references and uncertain references are sets of     *)
(* identities; that a key has one reference at a time (OneObserverPerSource)   *)
(* makes their order irrelevant.  No two keys report one identity.  A Withdraw *)
(* whose own context ends has no effect on the sink and is left out.           *)
(*                                                                             *)
(* Relay telemetry (exporter/sink_relay.go) is a second sampler of a source    *)
(* with a baseline of its own.  Of a relay snapshot only its capability is     *)
(* kept; which sessions moved is a free choice, as is whether the comparison   *)
(* or the request bound rejects it.  A healthy relay has a latest snapshot.    *)
(*                                                                             *)
(* A definition called Faulty... is the definition that follows it with one    *)
(* plausible bug; the specification uses none of them.                         *)
EXTENDS Integers, Sequences, FiniteSets

CONSTANTS
    Keys,           \* registration keys
    Registrations,  \* values returned by Register, each used once
    KeyOf,          \* the key of each registration
    Identities,     \* observer identities
    IdentitiesOf,   \* the identities the source of a key may report
    RelayKeys,      \* the keys whose source is a RelaySource
    Generations,    \* inventory generations
    NoRegistration,
    NoIdentity,
    NoGeneration,
    QueueLimit,     \* capacity of SnapshotSink.events
    MaxBatch,       \* MaxBatchObservers
    MayStop         \* TRUE: the context of Run may end, or the server be incompatible

ASSUME SinkAssumption ==
    /\ NoRegistration \notin Registrations
    /\ NoIdentity \notin Identities
    /\ NoGeneration \notin Generations
    /\ KeyOf \in [Registrations -> Keys]
    /\ IdentitiesOf \in [Keys -> SUBSET Identities]
    /\ RelayKeys \subseteq Keys
    /\ \A j, k \in Keys : j # k => IdentitiesOf[j] \cap IdentitiesOf[k] = {}
    /\ QueueLimit \in Nat \ {0}
    /\ MaxBatch \in Nat \ {0}
    /\ MayStop \in BOOLEAN

VARIABLES
    phase,       \* SnapshotSink.started and running: "new", "running", "stopped"
    cancelled,   \* runContext is done
    registered,  \* SnapshotSink.registrations, per key
    call,        \* what the owner of a registration does with it
    result,      \* Registration.result once Registration.done is closed
    sampler,     \* the goroutines of sampleSource and sampleRelaySource
    events,      \* SnapshotSink.events
    state,       \* states of Run, per key
    loop,        \* where the goroutine of Run is
    ready,       \* transport.capabilitiesReady
    backoff,     \* now is before transport.nextAttempt
    claimed,     \* history: the identities of a key the server took from us
    abandoned,   \* history: those whose withdrawal the server or the sink refused
    overlap      \* history: the counters of a key for which, since their baseline, the
                 \* server got a report that covers them up to now, or the source failed

callerVars  == <<phase, registered, call, result>>
loopVars    == <<state, loop, ready, backoff>>
historyVars == <<claimed, abandoned, overlap>>
vars == <<callerVars, cancelled, sampler, events, loopVars, historyVars>>

\* The sampler goroutines: one per registration, and one more for its relay.
Samplers ==
    {g \in Registrations \X {"traffic", "relay"} : g[2] = "relay" => KeyOf[g[1]] \in RelayKeys}

NoSnapshot  == [identity |-> NoIdentity, generation |-> NoGeneration]
Snapshots(k) == [identity : IdentitiesOf[k], generation : Generations]

NoRelay == [healthy |-> FALSE, dirty |-> FALSE, baseline |-> "none"]

NoState ==
    [registration |-> NoRegistration, healthy |-> FALSE, dirty |-> FALSE,
     needsHello |-> FALSE, withdrawing |-> FALSE, refused |-> FALSE,
     latest |-> NoSnapshot, baseline |-> "none", serverRef |-> NoSnapshot,
     uncertainRefs |-> {}, withdrawals |-> {}, relay |-> NoRelay]

NewState(r) == [NoState EXCEPT !.registration = r]

Selecting == [pc |-> "select", kind |-> 0, pending |-> {}, group |-> <<>>, resync |-> FALSE]
At(pc) == [Selecting EXCEPT !.pc = pc]

ReportKinds == <<"withdrawal", "hello", "inventory", "traffic", "heartbeat", "relay">>

Init ==
    /\ phase = "new"
    /\ cancelled = FALSE
    /\ registered = [k \in Keys |-> NoRegistration]
    /\ call = [r \in Registrations |-> "none"]
    /\ result = [r \in Registrations |-> "none"]
    /\ sampler = [g \in Samplers |-> "off"]
    /\ events = <<>>
    /\ state = [k \in Keys |-> NoState]
    /\ loop = Selecting
    /\ ready = FALSE
    /\ backoff = FALSE
    /\ claimed = [k \in Keys |-> {}]
    /\ abandoned = [k \in Keys |-> {}]
    /\ overlap = [k \in Keys |-> {}]

Present(k) == state[k].registration # NoRegistration

-----------------------------------------------------------------------------
(* The callers: Register, Run, Withdraw, and the context of Run. *)

Register(r) ==
    /\ call[r] = "none"
    /\ registered[KeyOf[r]] = NoRegistration
    /\ phase # "stopped"
    /\ registered' = [registered EXCEPT ![KeyOf[r]] = r]
    /\ call' = [call EXCEPT ![r] = "registered"]
    /\ sampler' = [g \in Samplers |->
                      IF g[1] = r /\ phase = "running" THEN "on" ELSE sampler[g]]
    /\ UNCHANGED <<phase, result, cancelled, events, loopVars, historyVars>>

Run ==
    /\ phase = "new"
    /\ phase' = "running"
    /\ sampler' = [g \in Samplers |->
                      IF registered[KeyOf[g[1]]] = g[1] THEN "on" ELSE sampler[g]]
    /\ UNCHANGED <<registered, call, result, cancelled, events, loopVars, historyVars>>

\* requestWithdrawal up to its unlock, the first call of Withdraw only.
BeginWithdraw(r) ==
    /\ call[r] = "registered"
    /\ \/ /\ phase = "new"
          /\ registered' = [registered EXCEPT ![KeyOf[r]] = NoRegistration]
          /\ result' = [result EXCEPT ![r] = "nil"]
          /\ call' = [call EXCEPT ![r] = "waiting"]
       \/ /\ phase = "stopped"
          /\ result' = [result EXCEPT ![r] = "stopped"]
          /\ call' = [call EXCEPT ![r] = "waiting"]
          /\ UNCHANGED registered
       \/ /\ phase = "running"
          /\ call' = [call EXCEPT ![r] = "sending"]
          /\ UNCHANGED <<registered, result>>
    /\ UNCHANGED <<phase, cancelled, sampler, events, loopVars, historyVars>>

\* The select that ends requestWithdrawal: the event goes into the channel, or
\* the run context is done.
QueueWithdrawal(r) ==
    /\ call[r] = "sending"
    /\ Len(events) < QueueLimit
    /\ events' = Append(events, [kind |-> "withdraw", registration |-> r, snapshot |-> NoSnapshot])
    /\ call' = [call EXCEPT ![r] = "waiting"]
    /\ UNCHANGED <<phase, registered, result, cancelled, sampler, loopVars, historyVars>>

WithdrawalTooLate(r) ==
    /\ call[r] = "sending"
    /\ cancelled
    /\ result' = [result EXCEPT ![r] = "stopped"]
    /\ call' = [call EXCEPT ![r] = "waiting"]
    /\ UNCHANGED <<phase, registered, cancelled, sampler, events, loopVars, historyVars>>

Cancel ==
    /\ MayStop
    /\ phase = "running"
    /\ ~cancelled
    /\ cancelled' = TRUE
    /\ UNCHANGED <<callerVars, sampler, events, loopVars, historyVars>>

-----------------------------------------------------------------------------
(* The samplers.  Both contexts of a sampler are checked before and while it   *)
(* sends, but a select with two ready cases takes either: a cancelled sampler  *)
(* may still queue one result.  A result that comes while the loop drains the  *)
(* channel counts as queued before the drain.                                  *)

Stopping(g) == sampler[g] = "cancelled" \/ cancelled

RelayEvents == {"relay", "relayAway"}

Queue(kind, r, snapshot) ==
    events' = Append(events, [kind |-> kind, registration |-> r, snapshot |-> snapshot])

\* "relayAway" is a failure, an invalid snapshot, or one without the capability.
Sample(g) ==
    /\ sampler[g] \in {"on", "cancelled"}
    /\ loop.pc \notin {"drain", "redrain"}
    /\ Len(events) < QueueLimit
    /\ \/ /\ g[2] = "traffic"
          /\ \/ \E snapshot \in Snapshots(KeyOf[g[1]]) : Queue("sample", g[1], snapshot)
             \/ Queue("failure", g[1], NoSnapshot)
       \/ /\ g[2] = "relay"
          /\ \E kind \in RelayEvents : Queue(kind, g[1], NoSnapshot)
    /\ sampler' = [sampler EXCEPT ![g] = IF Stopping(g) THEN "ended" ELSE "on"]
    /\ UNCHANGED <<callerVars, cancelled, loopVars, historyVars>>

SamplerEnds(g) ==
    /\ sampler[g] \notin {"off", "ended"}
    /\ Stopping(g)
    /\ sampler' = [sampler EXCEPT ![g] = "ended"]
    /\ UNCHANGED <<callerVars, cancelled, events, loopVars, historyVars>>

-----------------------------------------------------------------------------
(* handleEvent *)

Unbased(relay) == [relay EXCEPT !.dirty = FALSE, !.baseline = "none"]

AfterFailure(s) ==
    [s EXCEPT !.healthy = FALSE, !.dirty = FALSE, !.needsHello = TRUE, !.baseline = "none"]

FaultyRetired(s, identity) == {s.serverRef.identity} \ {identity, NoIdentity}

\* The references that do not name the observer the source reports now.
Retired(s, identity) ==
    ({s.serverRef.identity} \cup s.uncertainRefs) \ {identity, NoIdentity}

AfterSample(s, snapshot) ==
    LET retired     == Retired(s, snapshot.identity)
        withdrawals == s.withdrawals \cup retired
    IN  [s EXCEPT
            !.healthy       = TRUE,
            !.latest        = snapshot,
            !.dirty         = TRUE,
            !.baseline      = IF @ = "none" THEN "latest" ELSE "earlier",
            !.needsHello    = @ \/ s.baseline = "none" \/ withdrawals # {},
            !.serverRef     = IF @.identity = snapshot.identity THEN @ ELSE NoSnapshot,
            !.uncertainRefs = @ \cap {snapshot.identity},
            !.withdrawals   = withdrawals,
            !.relay         = IF withdrawals # {} THEN Unbased(@) ELSE @]

\* A relay that failed or is not enabled starts anew with its next snapshot.
AfterRelay(s, kind) ==
    IF kind = "relayAway" THEN [s EXCEPT !.relay = NoRelay]
    ELSE [s EXCEPT !.relay = IF @.baseline = "none"
                             THEN [healthy |-> TRUE, dirty |-> FALSE, baseline |-> "latest"]
                             ELSE [healthy |-> TRUE, dirty |-> TRUE, baseline |-> "earlier"]]

AfterWithdraw(s) ==
    [s EXCEPT !.withdrawing = TRUE, !.healthy = FALSE, !.dirty = FALSE, !.relay.dirty = FALSE,
              !.serverRef = NoSnapshot, !.uncertainRefs = {},
              !.withdrawals = @ \cup (({s.serverRef.identity} \cup s.uncertainRefs) \ {NoIdentity})]

\* What the event makes of the state of its key, created when it has none.
AfterEvent(event, s) ==
    LET found == IF s.registration # NoRegistration THEN s
                 ELSE [NewState(event.registration) EXCEPT !.needsHello = event.kind # "withdraw"]
    IN  CASE event.kind = "withdraw" -> AfterWithdraw(found)
          [] event.kind # "withdraw" /\ found.withdrawing -> found
          [] event.kind = "failure" /\ ~found.withdrawing -> AfterFailure(found)
          [] event.kind = "sample" /\ ~found.withdrawing -> AfterSample(found, event.snapshot)
          [] event.kind \in RelayEvents /\ ~found.withdrawing -> AfterRelay(found, event.kind)

\* The baseline of the one or the other counters of a source.
BaselineOf(s, counters) == IF counters = "relay" THEN s.relay.baseline ELSE s.baseline

\* Counters that do not start anew keep what was told of them, and `told`.
StillOverlapping(k, told) ==
    {c \in overlap[k] \cup told : BaselineOf(state'[k], c) # "latest"}

FaultyCurrent(event) == TRUE

\* A result of a registration that is no longer the one of its key is dropped.
Current(event) == event.kind = "withdraw" \/ registered[KeyOf[event.registration]] = event.registration

\* The counters whose source the event says was away.
Interrupted(kind) ==
    IF kind = "failure" THEN {"traffic"}
    ELSE IF kind = "relayAway" THEN {"relay"} ELSE {}

HandleEvent ==
    /\ phase = "running"
    /\ loop.pc \in {"select", "drain", "redrain"}
    /\ events # <<>>
    /\ events' = Tail(events)
    /\ LET event == Head(events)
           key   == KeyOf[event.registration]
       IN  /\ state' = IF Current(event)
                       THEN [state EXCEPT ![key] = AfterEvent(event, @)] ELSE state
           /\ overlap' = [overlap EXCEPT ![key] =
                             StillOverlapping(key, IF Current(event) THEN Interrupted(event.kind) ELSE {})]
           /\ sampler' = [g \in Samplers |->
                             IF event.kind = "withdraw" /\ g[1] = event.registration /\ sampler[g] # "ended"
                             THEN "cancelled" ELSE sampler[g]]
    /\ UNCHANGED <<callerVars, cancelled, loop, ready, backoff, claimed, abandoned>>

-----------------------------------------------------------------------------
(* flush, up to the reports *)

FaultyFinished(st) ==
    {k \in Keys : st[k].withdrawing /\ st[k].withdrawals = {} /\ st[k].latest # NoSnapshot}

Finished(st) == {k \in Keys : st[k].withdrawing /\ st[k].withdrawals = {}}

\* finalizeUnreportedWithdrawals
Finalize(st) ==
    LET finished == Finished(st)
        answer(s) == IF s.refused THEN "refused" ELSE "nil"
    IN  /\ state' = [k \in Keys |-> IF k \in finished THEN NoState ELSE st[k]]
        /\ registered' = [k \in Keys |-> IF k \in finished THEN NoRegistration ELSE registered[k]]
        /\ result' = [r \in Registrations |->
                         IF KeyOf[r] \in finished /\ st[KeyOf[r]].registration = r
                         THEN answer(st[KeyOf[r]]) ELSE result[r]]
        /\ UNCHANGED <<phase, call>>

FaultyDisconnected(st) ==
    [k \in Keys |->
        IF st[k].registration = NoRegistration \/ st[k].withdrawing \/ st[k].latest = NoSnapshot
        THEN st[k] ELSE [st[k] EXCEPT !.dirty = TRUE]]

\* markDisconnected
Disconnected(st) ==
    [k \in Keys |->
        IF st[k].registration = NoRegistration \/ st[k].withdrawing THEN st[k]
        ELSE IF st[k].latest = NoSnapshot
        THEN [st[k] EXCEPT !.needsHello = TRUE, !.relay = Unbased(@)]
        ELSE [st[k] EXCEPT !.needsHello = TRUE, !.relay = Unbased(@),
                           !.baseline = "latest", !.dirty = TRUE]]

TransportFails(st) ==
    /\ state' = Disconnected(st)
    /\ ready' = FALSE
    /\ backoff' = TRUE
    /\ loop' = Selecting

(* operationsForKind: withdrawals first, then hellos, inventories, traffic and  *)
(* heartbeats.                                                                 *)

Kind == ReportKinds[loop.kind]

Reportable(s) == s.healthy /\ ~s.withdrawing /\ s.withdrawals = {} /\ s.latest # NoSnapshot

Connected(s) == Reportable(s) /\ ~s.needsHello /\ s.serverRef # NoSnapshot

\* relayOperations does not look at the observer's own withdrawals.
RelayConnected(s) ==
    /\ s.healthy /\ ~s.withdrawing /\ ~s.needsHello /\ s.serverRef # NoSnapshot
    /\ s.relay.healthy /\ s.relay.baseline # "none"

\* Who may have an operation of the kind.
Eligible(kind, st) ==
    {k \in Keys :
        LET s == st[k]
        IN  CASE kind = "withdrawal" -> s.withdrawals # {}
              [] kind = "hello"      -> Reportable(s) /\ s.needsHello
              [] kind = "inventory"  -> Connected(s) /\ s.dirty
                                        /\ s.latest.generation # s.serverRef.generation
              [] kind = "traffic"    -> Connected(s) /\ s.dirty
                                        /\ s.latest.generation = s.serverRef.generation
              [] kind = "heartbeat"  -> Connected(s) /\ ~s.dirty
              [] kind = "relay"      -> RelayConnected(s) /\ s.relay.dirty}

\* The kind after `done` that has an operation; a kind without one is skipped.
Onward(done, st) ==
    LET later == {i \in done + 1 .. Len(ReportKinds) : Eligible(ReportKinds[i], st) # {}}
    IN  IF later = {} THEN Selecting
        ELSE [At("collect") EXCEPT !.kind = CHOOSE i \in later : \A j \in later : i <= j]

Tick ==
    /\ phase = "running"
    /\ loop.pc = "select"
    /\ loop' = At("drain")
    /\ UNCHANGED <<callerVars, cancelled, sampler, events, state, ready, backoff, historyVars>>

Drained ==
    /\ loop.pc = "drain"
    /\ events = <<>>
    /\ Finalize(state)
    /\ loop' = IF backoff THEN Selecting ELSE IF ready THEN Onward(0, state') ELSE At("preflight")
    /\ UNCHANGED <<cancelled, sampler, events, ready, backoff, historyVars>>

PreflightSucceeds ==
    /\ loop.pc = "preflight"
    /\ ready' = TRUE
    /\ loop' = At("redrain")
    /\ UNCHANGED <<callerVars, cancelled, sampler, events, state, backoff, historyVars>>

PreflightFails ==
    /\ loop.pc = "preflight"
    /\ TransportFails(state)
    /\ overlap' = [k \in Keys |-> StillOverlapping(k, {})]
    /\ UNCHANGED <<callerVars, cancelled, sampler, events, claimed, abandoned>>

ServerIncompatible ==
    /\ MayStop
    /\ loop.pc = "preflight"
    /\ loop' = At("stopping")
    /\ UNCHANGED <<callerVars, cancelled, sampler, events, state, ready, backoff, historyVars>>

Redrained ==
    /\ loop.pc = "redrain"
    /\ events = <<>>
    /\ Finalize(state)
    /\ loop' = Onward(0, state')
    /\ UNCHANGED <<cancelled, sampler, events, ready, backoff, historyVars>>

BackoffPasses ==
    /\ backoff
    /\ backoff' = FALSE
    /\ UNCHANGED <<callerVars, cancelled, sampler, events, state, loop, ready, historyVars>>

-----------------------------------------------------------------------------
(* flush, the reports *)

Level(s) == [s EXCEPT !.baseline = "latest", !.dirty = FALSE]

FaultyRelayLevel(s) == [s EXCEPT !.relay.dirty = FALSE]

RelayLevel(s) == [s EXCEPT !.relay.baseline = "latest", !.relay.dirty = FALSE]

\* The sources whose peers, and whose relay sessions, have moved counters: any
\* of those asked for.  A counter that went back, or is new, has not moved.
WithMovedPeers(eligible)    == SUBSET eligible
WithMovedSessions(eligible) == SUBSET eligible
WithHeartbeatDue(eligible)  == SUBSET eligible

MayHaveOperation(eligible) ==
    CASE Kind = "traffic"   -> WithMovedPeers(eligible)
      [] Kind = "relay"     -> WithMovedSessions(eligible)
      [] Kind = "heartbeat" -> WithHeartbeatDue(eligible)
      [] Kind \in {"withdrawal", "hello", "inventory"} -> {eligible}

\* A traffic or relay operation without moved counters levels the baseline
\* instead; a heartbeat that is not due is skipped.
Collect ==
    /\ loop.pc = "collect"
    /\ \E pending \in MayHaveOperation(Eligible(Kind, state)) :
           /\ state' = [k \in Keys |->
                           IF k \notin Eligible(Kind, state) \ pending THEN state[k]
                           ELSE IF Kind = "traffic" THEN Level(state[k])
                           ELSE IF Kind = "relay" THEN RelayLevel(state[k])
                           ELSE state[k]]
           /\ loop' = IF pending = {} THEN Onward(loop.kind, state')
                      ELSE [loop EXCEPT !.pc = "send", !.pending = pending]
           /\ overlap' = [k \in Keys |-> StillOverlapping(k, {})]
    /\ UNCHANGED <<callerVars, cancelled, sampler, events, ready, backoff, claimed, abandoned>>

\* sendRelayOperations sends one relay after the other.
OperationsPerRequest == IF Kind = "relay" THEN 1 ELSE MaxBatch

\* The report the loop sends next: the next part of a batch the server refused
\* as a whole, or as many of the pending operations as one request takes.
Batches ==
    IF loop.group # <<>> THEN {Head(loop.group)}
    ELSE {batch \in SUBSET loop.pending : batch # {} /\ Cardinality(batch) <= OperationsPerRequest}

RestOfGroup == IF loop.group = <<>> THEN <<>> ELSE Tail(loop.group)

Withdrawn(s) == CHOOSE identity \in s.withdrawals : TRUE

\* resetRelayBaseline, with a hello
Rebased(relay) ==
    [relay EXCEPT !.dirty = FALSE, !.baseline = IF relay.healthy THEN "latest" ELSE "none"]

FaultyApplied(s) ==
    CASE Kind = "withdrawal" -> s
      [] Kind = "hello"      -> [Level(s) EXCEPT !.serverRef = s.latest, !.needsHello = FALSE,
                                                 !.uncertainRefs = @ \ {s.latest.identity},
                                                 !.relay = Rebased(@)]
      [] Kind = "inventory"  -> [Level(s) EXCEPT !.serverRef.generation = s.latest.generation]
      [] Kind = "traffic"    -> Level(s)
      [] Kind = "heartbeat"  -> s
      [] Kind = "relay"      -> RelayLevel(s)

\* applyOperation and, for a relay, sendRelayOperations
Applied(s) ==
    CASE Kind = "withdrawal" -> [s EXCEPT !.withdrawals = @ \ {Withdrawn(s)}]
      [] Kind = "hello"      -> [Level(s) EXCEPT !.serverRef = s.latest, !.needsHello = FALSE,
                                                 !.uncertainRefs = @ \ {s.latest.identity},
                                                 !.relay = Rebased(@)]
      [] Kind = "inventory"  -> [Level(s) EXCEPT !.serverRef.generation = s.latest.generation]
      [] Kind = "traffic"    -> Level(s)
      [] Kind = "heartbeat"  -> s
      [] Kind = "relay"      -> RelayLevel(s)

\* rejectOperation and rejectOversized; a relay report that is refused is dropped.
Rejected(s) ==
    IF Kind = "withdrawal"
    THEN [s EXCEPT !.withdrawals = @ \ {Withdrawn(s)}, !.refused = @ \/ s.withdrawing]
    ELSE IF Kind = "relay" THEN RelayLevel(s)
    ELSE [Level(s) EXCEPT !.healthy = FALSE]

\* Where the loop goes once `batch` is dealt with and the states are st; the
\* operations of the kind may now have been the last ones.
Proceed(st, batch, resync) ==
    LET pending == loop.pending \ batch
        again   == loop.resync \/ resync
    IN  IF RestOfGroup = <<>> /\ again
        THEN /\ state' = Disconnected(st)
             /\ loop' = Selecting
             /\ UNCHANGED callerVars
        ELSE IF RestOfGroup = <<>> /\ pending = {}
        THEN /\ Finalize(st)
             /\ loop' = Onward(loop.kind, state')
        ELSE /\ state' = st
             /\ loop' = [loop EXCEPT !.pending = pending, !.group = RestOfGroup, !.resync = again]
             /\ UNCHANGED callerVars

\* The counters a report of the kind covers up to now.
Told ==
    IF Kind \in {"hello", "traffic"} THEN {"traffic"} ELSE IF Kind = "relay" THEN {"relay"} ELSE {}

\* What the server makes of a report that reaches it.
Delivered(batch) ==
    /\ claimed' = [k \in Keys |->
                      IF k \notin batch THEN claimed[k]
                      ELSE IF Kind = "hello" THEN claimed[k] \cup {state[k].latest.identity}
                      ELSE IF Kind = "withdrawal" THEN claimed[k] \ {Withdrawn(state[k])}
                      ELSE claimed[k]]
    /\ overlap' = [k \in Keys |-> StillOverlapping(k, IF k \in batch THEN Told ELSE {})]
    /\ UNCHANGED abandoned

NotDelivered ==
    /\ overlap' = [k \in Keys |-> StillOverlapping(k, {})]
    /\ UNCHANGED claimed

FaultyAccepted(batch, resync) ==
    /\ Proceed([k \in Keys |-> IF k \in loop.pending THEN Applied(state[k]) ELSE state[k]],
               loop.pending, resync /\ Kind # "hello")
    /\ backoff' = IF Kind = "hello" THEN FALSE ELSE backoff
    /\ Delivered(batch)
    /\ UNCHANGED ready

\* A receipt that accepts the report.  An accepted hello ends the backoff, and
\* needs no resync.
Accepted(batch, resync) ==
    /\ Proceed([k \in Keys |-> IF k \in batch THEN Applied(state[k]) ELSE state[k]],
               batch, resync /\ Kind # "hello")
    /\ backoff' = IF Kind = "hello" THEN FALSE ELSE backoff
    /\ Delivered(batch)
    /\ UNCHANGED ready

\* Status 400 or 413: the two halves are sent one by one, one operation alone
\* is given up, as is one that does not fit in a request (sendOperations).
Halves(batch) ==
    {left \in SUBSET batch : Cardinality(left) = Cardinality(batch) \div 2}

Split(batch) ==
    /\ Cardinality(batch) > 1
    /\ \E left \in Halves(batch) :
           loop' = [loop EXCEPT !.pending = @ \ batch,
                                !.group = <<left, batch \ left>> \o RestOfGroup]
    /\ UNCHANGED <<callerVars, state, claimed, abandoned, overlap>>

GiveUp(k) ==
    /\ abandoned' = IF Kind = "withdrawal"
                    THEN [abandoned EXCEPT ![k] = @ \cup {Withdrawn(state[k])}] ELSE abandoned
    /\ Proceed([state EXCEPT ![k] = Rejected(@)], {k}, FALSE)
    /\ NotDelivered

Refused(batch) ==
    /\ \/ Split(batch)
       \/ \E k \in batch : batch = {k} /\ GiveUp(k)
    /\ UNCHANGED <<ready, backoff>>

FaultyUncertain(batch) == state
\* Any other error.  A hello may have been applied, so its identity is uncertain.
Uncertain(batch) ==
    [k \in Keys |-> IF k \in batch /\ Kind = "hello"
                    THEN [state[k] EXCEPT !.uncertainRefs = @ \cup {state[k].latest.identity}]
                    ELSE state[k]]

Lost(batch) ==
    /\ TransportFails(Uncertain(batch))
    /\ NotDelivered
    /\ UNCHANGED <<callerVars, abandoned>>

Unanswered(batch) ==
    /\ TransportFails(Uncertain(batch))
    /\ Delivered(batch)
    /\ UNCHANGED callerVars

\* A receipt that does not accept the report.
NotAccepted(batch) ==
    /\ TransportFails(state)
    /\ NotDelivered
    /\ UNCHANGED <<callerVars, abandoned>>

Sending == loop.pc = "send"
OthersRest == UNCHANGED <<cancelled, sampler, events>>

SendAccepted    == Sending /\ OthersRest /\ \E batch \in Batches : Accepted(batch, FALSE)
SendResynced    == Sending /\ OthersRest /\ \E batch \in Batches : Accepted(batch, TRUE)
SendRefused     == Sending /\ OthersRest /\ \E batch \in Batches : Refused(batch)
SendLost        == Sending /\ OthersRest /\ \E batch \in Batches : Lost(batch)
SendUnanswered  == Sending /\ OthersRest /\ \E batch \in Batches : Unanswered(batch)
SendNotAccepted == Sending /\ OthersRest /\ \E batch \in Batches : NotAccepted(batch)

-----------------------------------------------------------------------------
(* The end of Run *)

LoopEnds ==
    /\ phase = "running"
    /\ loop.pc = "select"
    /\ cancelled
    /\ loop' = At("stopping")
    /\ UNCHANGED <<callerVars, cancelled, sampler, events, state, ready, backoff, historyVars>>

\* stop: the samplers of the registrations there are.
StopSamplers ==
    /\ loop.pc = "stopping"
    /\ phase' = "stopped"
    /\ sampler' = [g \in Samplers |->
                      IF registered[KeyOf[g[1]]] = g[1] /\ sampler[g] # "ended"
                      THEN "cancelled" ELSE sampler[g]]
    /\ loop' = At("joining")
    /\ UNCHANGED <<registered, call, result, cancelled, events, state, ready, backoff, historyVars>>

\* stop once every sampler returned, and the deferred cancel of Run.
SamplersJoined ==
    /\ loop.pc = "joining"
    /\ \A g \in Samplers : sampler[g] \in {"off", "ended"}
    /\ result' = [r \in Registrations |->
                     IF state[KeyOf[r]].registration = r /\ state[KeyOf[r]].withdrawing
                     THEN "stopped" ELSE result[r]]
    /\ cancelled' = TRUE
    /\ loop' = At("returned")
    /\ UNCHANGED <<phase, registered, call, sampler, events, state, ready, backoff, historyVars>>

-----------------------------------------------------------------------------
Loop ==
    \/ HandleEvent
    \/ Tick
    \/ Drained
    \/ PreflightSucceeds
    \/ PreflightFails
    \/ ServerIncompatible
    \/ Redrained
    \/ Collect
    \/ SendAccepted
    \/ SendResynced
    \/ SendRefused
    \/ SendLost
    \/ SendUnanswered
    \/ SendNotAccepted
    \/ LoopEnds
    \/ StopSamplers
    \/ SamplersJoined

Next ==
    \/ Run
    \/ Cancel
    \/ BackoffPasses
    \/ Loop
    \/ \E r \in Registrations :
           \/ Register(r)
           \/ BeginWithdraw(r)
           \/ QueueWithdrawal(r)
           \/ WithdrawalTooLate(r)
    \/ \E g \in Samplers : Sample(g) \/ SamplerEnds(g)

Spec == Init /\ [][Next]_vars

(* The loop never idles when it has something to do, its ticker ticks (a Go    *)
(* select takes each ready case again and again), a drain empties the channel  *)
(* and the backoff ends.  The server answers now and then: a preflight, a      *)
(* withdrawal or a hello that is tried forever is accepted in the end.         *)
Fairness ==
    /\ WF_vars(Loop)
    /\ SF_vars(Tick)
    /\ WF_vars(BackoffPasses)
    /\ SF_vars(PreflightSucceeds)
    /\ SF_vars(SendAccepted /\ Kind = "withdrawal")
    /\ SF_vars(SendAccepted /\ Kind = "hello")

FairSpec == Spec /\ Fairness

-----------------------------------------------------------------------------
(* Properties *)

Event == [kind : {"sample", "failure", "withdraw"} \cup RelayEvents, registration : Registrations,
          snapshot : [identity : Identities \cup {NoIdentity},
                      generation : Generations \cup {NoGeneration}]]

SourceState ==
    [registration : Registrations \cup {NoRegistration}, healthy : BOOLEAN, dirty : BOOLEAN,
     needsHello : BOOLEAN, withdrawing : BOOLEAN, refused : BOOLEAN,
     latest : [identity : Identities \cup {NoIdentity}, generation : Generations \cup {NoGeneration}],
     baseline : {"none", "earlier", "latest"},
     serverRef : [identity : Identities \cup {NoIdentity}, generation : Generations \cup {NoGeneration}],
     uncertainRefs : SUBSET Identities, withdrawals : SUBSET Identities,
     relay : [healthy : BOOLEAN, dirty : BOOLEAN, baseline : {"none", "earlier", "latest"}]]

CallerTypeOK ==
    /\ phase \in {"new", "running", "stopped"}
    /\ cancelled \in BOOLEAN
    /\ registered \in [Keys -> Registrations \cup {NoRegistration}]
    /\ call \in [Registrations -> {"none", "registered", "sending", "waiting"}]
    /\ result \in [Registrations -> {"none", "nil", "stopped", "refused"}]
    /\ sampler \in [Samplers -> {"off", "on", "cancelled", "ended"}]
    /\ events \in Seq(Event)
    /\ Len(events) <= QueueLimit

LoopTypeOK ==
    /\ state \in [Keys -> SourceState]
    /\ loop.pc \in {"select", "drain", "preflight", "redrain", "collect", "send",
                    "stopping", "joining", "returned"}
    /\ loop.kind \in 0 .. Len(ReportKinds)
    /\ loop.pending \subseteq Keys
    /\ loop.group \in Seq(SUBSET Keys)
    /\ loop.resync \in BOOLEAN
    /\ ready \in BOOLEAN
    /\ backoff \in BOOLEAN

HistoryTypeOK ==
    /\ claimed \in [Keys -> SUBSET Identities]
    /\ abandoned \in [Keys -> SUBSET Identities]
    /\ overlap \in [Keys -> SUBSET {"traffic", "relay"}]

(* Every variable has its type, the channel keeps to its capacity, and a state *)
(* of the loop always belongs to the registration its key has now: a result    *)
(* that was queued before a withdrawal revives nothing (handleEvent).          *)
TypeOK ==
    /\ CallerTypeOK
    /\ LoopTypeOK
    /\ HistoryTypeOK
    /\ \A k \in Keys : Present(k) => state[k].registration = registered[k]

\* The identities of a key the sink knows it has to withdraw some day.
References(k) ==
    ({state[k].serverRef.identity} \ {NoIdentity}) \cup state[k].uncertainRefs \cup state[k].withdrawals

(* Every identity the server may still count as an observer of ours is one the *)
(* sink will withdraw, also when the answer to its hello was lost, the source  *)
(* changed its identity meanwhile, or the key was registered anew; only a      *)
(* refused withdrawal gives one up (uncertainRefs, withdrawals).               *)
NothingForgotten == \A k \in Keys : claimed[k] \ abandoned[k] \subseteq References(k)

(* "Identity replacement withdraws the old observer before" the new hello      *)
(* (docs/plans/completed/117-snapshot-sink.md): the server never holds two     *)
(* observers of one source, refused withdrawals apart.                         *)
OneObserverPerSource == \A k \in Keys : Cardinality(claimed[k] \ abandoned[k]) <= 1

(* Withdraw returns nil only when the server holds nothing of the key any      *)
(* more, refused withdrawals of earlier identities apart: "waits for an        *)
(* accepted owner-fenced withdrawal while the sink is running".                *)
WithdrawReleases ==
    [][\A r \in Registrations :
          result'[r] = "nil" /\ result[r] = "none" => claimed'[KeyOf[r]] \subseteq abandoned[KeyOf[r]]]_vars

(* No traffic and no relay report covers a period the server was told of       *)
(* already, or one in which the source failed: lost answers, resyncs, replaced *)
(* identities and a failure between two relay reports never lead to catch-up   *)
(* traffic (markDisconnected, applyOperation, sendRelayOperations).            *)
NoTrafficTwice ==
    loop.pc = "send" /\ Kind \in {"traffic", "relay"} =>
        \A k \in loop.pending : Kind \notin overlap[k]

(* While the loop runs and the server answers now and then, every caller of    *)
(* Withdraw that got its event into the channel gets a result.                 *)
WithdrawReturns ==
    \A r \in Registrations :
        phase = "running" /\ call[r] = "waiting" ~> result[r] # "none" \/ phase = "stopped"

(* A source the server has to be told of again is told of again, whatever was  *)
(* lost, unless it fails, is withdrawn, or the sink stops.                     *)
Reconnects ==
    \A k \in Keys :
        state[k].healthy /\ state[k].needsHello ~> ~state[k].healthy \/ ~state[k].needsHello \/ phase = "stopped"

=============================================================================
