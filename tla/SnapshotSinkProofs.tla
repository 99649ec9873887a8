------------------------- MODULE SnapshotSinkProofs -------------------------
(* Proofs about SnapshotSink.  The invariant has three parts: what is true of  *)
(* the state of one source (SourceOK), what is true of the goroutines: who     *)
(* owns a key, what is queued, what the loop is about to report (EngineOK),    *)
(* and how the states relate to what the server holds (ServerOK).  A step of   *)
(* the loop changes the states in up to two moves, the effect of a report and  *)
(* then how the loop settles: it goes on, ends withdrawals, or disconnects.    *)
(* The lemmas follow these moves.                                              *)
EXTENDS SnapshotSink, FiniteSetTheorems, TLAPS

-----------------------------------------------------------------------------
(* The inductive invariant *)

\* The identities a source state stands for at the server.
RefsOf(s) == ({s.serverRef.identity} \ {NoIdentity}) \cup s.uncertainRefs \cup s.withdrawals

Snapshot == [identity : Identities \cup {NoIdentity}, generation : Generations \cup {NoGeneration}]
Baseline == {"none", "earlier", "latest"}
RelayState == [healthy : BOOLEAN, dirty : BOOLEAN, baseline : Baseline]

SnapshotOrNone(k) == Snapshots(k) \cup {NoSnapshot}

\* What is true of the state of one source whatever the loop does with others:
\* the server was told of the latest identity only, a withdrawal gives up every
\* reference, and a healthy source has a baseline.
SourceOK(k, s) ==
    /\ s \in SourceState
    /\ s.latest \in SnapshotOrNone(k)
    /\ s.serverRef \in SnapshotOrNone(k)
    /\ s.serverRef.identity \in {s.latest.identity, NoIdentity}
    /\ s.uncertainRefs \subseteq {s.latest.identity} \ {NoIdentity}
    /\ s.registration = NoRegistration => s = NoState
    /\ s.withdrawing => s.serverRef = NoSnapshot /\ s.uncertainRefs = {}
    /\ s.healthy => s.baseline # "none"

SourcesOK == \A k \in Keys : SourceOK(k, state[k])

\* Who owns what: a registration keeps its key until its withdrawal is done,
\* and it asks for that once.
CallersOK ==
    /\ \A k \in Keys : registered[k] # NoRegistration => KeyOf[registered[k]] = k
    /\ \A r \in Registrations : call[r] \in {"registered", "sending"} => registered[KeyOf[r]] = r
    /\ \A k \in Keys : Present(k) => state[k].registration = registered[k]
    /\ \A k \in Keys : state[k].withdrawing => call[registered[k]] = "waiting"

\* Before Run nothing has happened.
NotStarted ==
    phase = "new" =>
        /\ loop.pc = "select"
        /\ events = <<>>
        /\ \A g \in Samplers : sampler[g] = "off"
        /\ \A r \in Registrations : call[r] # "sending"
        /\ \A k \in Keys : state[k] = NoState /\ claimed[k] = {}

EventsOK ==
    /\ \A i \in 1 .. Len(events) :
           events[i].kind = "sample" => events[i].snapshot \in Snapshots(KeyOf[events[i].registration])
    /\ \A i \in 1 .. Len(events) :
           events[i].kind = "withdraw" =>
               /\ registered[KeyOf[events[i].registration]] = events[i].registration
               /\ call[events[i].registration] = "waiting"
               /\ ~state[KeyOf[events[i].registration]].withdrawing
    /\ \A i, j \in 1 .. Len(events) :
           i # j /\ events[i].kind = "withdraw" /\ events[j].kind = "withdraw" =>
               events[i].registration # events[j].registration

LoopState ==
    [pc : {"select", "drain", "preflight", "redrain", "collect", "send",
           "stopping", "joining", "returned"},
     kind : 0 .. Len(ReportKinds), pending : SUBSET Keys, group : Seq(SUBSET Keys),
     resync : BOOLEAN]

\* What the loop is about to report is still there to be reported, once.
ReportsOK ==
    /\ loop.pc \in {"collect", "send"} => loop.kind # 0
    /\ loop.pc # "send" => loop.group = <<>>
    /\ loop.pc = "send" =>
           /\ loop.pending \subseteq Eligible(Kind, state)
           /\ \A i \in 1 .. Len(loop.group) : loop.group[i] \subseteq Eligible(Kind, state)
           /\ \A i \in 1 .. Len(loop.group) : loop.group[i] \cap loop.pending = {}
           /\ \A i, j \in 1 .. Len(loop.group) : i # j => loop.group[i] \cap loop.group[j] = {}

\* Counters that overlap have no baseline to make a report from.
OverlapOK(s, counters) ==
    \A c \in counters : s.withdrawing \/ BaselineOf(s, c) = "none"

ServerOK ==
    \A k \in Keys :
        /\ claimed[k] \ abandoned[k] \subseteq RefsOf(state[k])
        /\ \A i, j \in claimed[k] \ abandoned[k] : i = j
        /\ OverlapOK(state[k], overlap[k])

\* The part of the invariant that is about the goroutines of the sink.
EngineOK ==
    /\ CallerTypeOK
    /\ loop \in LoopState
    /\ state \in [Keys -> SourceState]
    /\ SourcesOK
    /\ CallersOK
    /\ NotStarted
    /\ EventsOK
    /\ ReportsOK

Inv ==
    /\ EngineOK
    /\ HistoryTypeOK
    /\ ServerOK
    /\ ready \in BOOLEAN
    /\ backoff \in BOOLEAN

-----------------------------------------------------------------------------
(* The transformers of one source state. *)

LEMMA NoStateOK ==
  ASSUME NEW k \in Keys
  PROVE  SourceOK(k, NoState) /\ ~NoState.withdrawing /\ RefsOf(NoState) = {}
  BY SinkAssumption
  DEF SourceOK, NoState, NoSnapshot, NoRelay, SourceState, SnapshotOrNone, RefsOf

LEMMA NewStateOK ==
  ASSUME NEW k \in Keys, NEW r \in Registrations, NEW needs \in BOOLEAN
  PROVE  LET s == [NewState(r) EXCEPT !.needsHello = needs]
         IN  /\ SourceOK(k, s)
             /\ s.registration = r
             /\ ~s.withdrawing
             /\ RefsOf(s) = {}
             /\ s.baseline = "none" /\ s.relay.baseline = "none"
  BY SinkAssumption
  DEF SourceOK, NewState, NoState, NoSnapshot, NoRelay, SourceState, SnapshotOrNone, RefsOf

LEMMA SnapshotIdentity ==
  ASSUME NEW k \in Keys, NEW snapshot \in Snapshots(k)
  PROVE  /\ snapshot.identity \in Identities /\ snapshot.identity # NoIdentity
         /\ snapshot.generation \in Generations
         /\ snapshot # NoSnapshot
  BY SinkAssumption DEF Snapshots, NoSnapshot

StateFields ==
    {"registration", "healthy", "dirty", "needsHello", "withdrawing", "refused", "latest",
     "baseline", "serverRef", "uncertainRefs", "withdrawals", "relay"}

\* A record with the fields of a source state, each of its type, is one.
LEMMA StateRecord ==
  ASSUME NEW t, DOMAIN t = StateFields, t = [field \in StateFields |-> t[field]],
         t.registration \in Registrations \cup {NoRegistration},
         t.healthy \in BOOLEAN, t.dirty \in BOOLEAN, t.needsHello \in BOOLEAN,
         t.withdrawing \in BOOLEAN, t.refused \in BOOLEAN,
         t.latest \in Snapshot, t.baseline \in Baseline, t.serverRef \in Snapshot,
         t.uncertainRefs \in SUBSET Identities, t.withdrawals \in SUBSET Identities,
         t.relay \in RelayState
  PROVE  t \in SourceState
<1>1. t = [registration |-> t.registration, healthy |-> t.healthy, dirty |-> t.dirty,
           needsHello |-> t.needsHello, withdrawing |-> t.withdrawing, refused |-> t.refused,
           latest |-> t.latest, baseline |-> t.baseline, serverRef |-> t.serverRef,
           uncertainRefs |-> t.uncertainRefs, withdrawals |-> t.withdrawals, relay |-> t.relay]
  BY DEF StateFields
<1> QED
  BY <1>1 DEF SourceState, Snapshot, Baseline, RelayState

LEMMA AfterSampleOK ==
  ASSUME NEW k \in Keys, NEW s, SourceOK(k, s), s.registration # NoRegistration, ~s.withdrawing,
         NEW snapshot \in Snapshots(k)
  PROVE  LET t == AfterSample(s, snapshot)
         IN  /\ SourceOK(k, t)
             /\ t.registration = s.registration
             /\ ~t.withdrawing
             /\ RefsOf(s) \subseteq RefsOf(t)
             /\ s.baseline = "none" => t.baseline = "latest"
             /\ s.relay.baseline = "none" => t.relay.baseline = "none"
<1> DEFINE t == AfterSample(s, snapshot)
<1>1. s \in SourceState
  BY DEF SourceOK
<1>2. /\ t.registration = s.registration /\ t.healthy = TRUE /\ t.latest = snapshot
      /\ t.dirty = TRUE /\ t.withdrawing = s.withdrawing
      /\ t.uncertainRefs = s.uncertainRefs \cap {snapshot.identity}
      /\ t.withdrawals = s.withdrawals \cup Retired(s, snapshot.identity)
      /\ t.serverRef = IF s.serverRef.identity = snapshot.identity THEN s.serverRef ELSE NoSnapshot
      /\ t.baseline = IF s.baseline = "none" THEN "latest" ELSE "earlier"
      /\ t.relay = IF t.withdrawals # {} THEN Unbased(s.relay) ELSE s.relay
  <2> DEFINE withdrawals == s.withdrawals \cup Retired(s, snapshot.identity)
             relay == IF withdrawals # {} THEN Unbased(s.relay) ELSE s.relay
             serverRef == IF s.serverRef.identity = snapshot.identity THEN s.serverRef ELSE NoSnapshot
             baseline == IF s.baseline = "none" THEN "latest" ELSE "earlier"
             hello == s.needsHello \/ s.baseline = "none" \/ withdrawals # {}
  <2>1. t = [s EXCEPT !.healthy = TRUE, !.latest = snapshot, !.dirty = TRUE, !.baseline = baseline,
                      !.needsHello = hello, !.serverRef = serverRef,
                      !.uncertainRefs = s.uncertainRefs \cap {snapshot.identity},
                      !.withdrawals = withdrawals, !.relay = relay]
    BY DEF AfterSample
  <2> HIDE DEF t, relay, serverRef, baseline, hello, withdrawals
  <2>2. /\ t.registration = s.registration /\ t.healthy = TRUE /\ t.latest = snapshot
        /\ t.dirty = TRUE /\ t.withdrawing = s.withdrawing
        /\ t.uncertainRefs = s.uncertainRefs \cap {snapshot.identity}
        /\ t.withdrawals = withdrawals /\ t.serverRef = serverRef
        /\ t.baseline = baseline /\ t.relay = relay
    <3>1. DOMAIN s = StateFields
      BY <1>1 DEF SourceState, StateFields
    <3>2. /\ t.registration = s.registration /\ t.healthy = TRUE /\ t.latest = snapshot
          /\ t.dirty = TRUE /\ t.withdrawing = s.withdrawing
      BY <2>1, <3>1 DEF StateFields
    <3>3. /\ t.uncertainRefs = s.uncertainRefs \cap {snapshot.identity}
          /\ t.withdrawals = withdrawals /\ t.serverRef = serverRef
          /\ t.baseline = baseline /\ t.relay = relay
      BY <2>1, <3>1 DEF StateFields
    <3> QED
      BY <3>2, <3>3
  <2> QED
    BY <2>2 DEF withdrawals, serverRef, baseline, relay
<1>3. t \in SourceState
  <2>1. Retired(s, snapshot.identity) \subseteq Identities
    BY <1>1 DEF Retired, SourceState
  <2>2. t.relay \in RelayState
    <3>1. s.relay \in RelayState
      BY <1>1 DEF SourceState, RelayState, Baseline
    <3>2. Unbased(s.relay) \in RelayState
      BY <3>1 DEF Unbased, RelayState, Baseline
    <3>3. t.relay = IF t.withdrawals # {} THEN Unbased(s.relay) ELSE s.relay
      BY <1>2
    <3> HIDE DEF t
    <3> QED
      BY <3>1, <3>2, <3>3
  <2>3. t.needsHello = (s.needsHello \/ s.baseline = "none" \/ s.withdrawals \cup Retired(s, snapshot.identity) # {})
    BY <1>1 DEF AfterSample, SourceState
  <2>4. t.needsHello \in BOOLEAN
    BY <2>3
  <2>5. t.serverRef \in Snapshot /\ t.latest \in Snapshot
    BY <1>1, <1>2, SnapshotIdentity DEF SourceState, Snapshot, Snapshots, NoSnapshot
  <2>6. /\ t.registration \in Registrations \cup {NoRegistration}
        /\ t.healthy \in BOOLEAN /\ t.dirty \in BOOLEAN
        /\ t.withdrawing \in BOOLEAN /\ t.refused \in BOOLEAN
        /\ t.baseline \in Baseline
        /\ t.uncertainRefs \in SUBSET Identities
        /\ t.withdrawals \in SUBSET Identities
    BY <1>1, <1>2, <2>1 DEF AfterSample, SourceState, Baseline
  <2>7. DOMAIN t = StateFields /\ t = [field \in StateFields |-> t[field]]
    <3>1. DOMAIN s = StateFields
      BY <1>1 DEF SourceState, StateFields
    <3>2. DOMAIN t = DOMAIN s
      BY DEF AfterSample
    <3>3. t = [field \in DOMAIN t |-> t[field]]
      BY DEF AfterSample
    <3> HIDE DEF t
    <3> QED
      BY <3>1, <3>2, <3>3
  <2> HIDE DEF t
  <2> QED
    BY <2>2, <2>4, <2>5, <2>6, <2>7, StateRecord
<1>4. SourceOK(k, t)
  BY <1>2, <1>3, SnapshotIdentity DEF SourceOK, SnapshotOrNone, NoSnapshot
<1>5. RefsOf(s) \subseteq RefsOf(t)
  <2>1. ASSUME NEW i \in RefsOf(s)
        PROVE  \/ i \in t.withdrawals
               \/ i = snapshot.identity /\ i = s.serverRef.identity /\ i # NoIdentity
               \/ i = snapshot.identity /\ i \in s.uncertainRefs
    <3>1. NoIdentity \notin s.uncertainRefs
      BY DEF SourceOK
    <3> QED
      BY <2>1, <3>1, <1>2 DEF RefsOf, Retired
  <2>2. s.serverRef.identity = snapshot.identity => t.serverRef.identity = snapshot.identity
    BY <1>2
  <2> HIDE DEF t
  <2> QED
    BY <2>1, <2>2, <1>2 DEF RefsOf
<1>6. s.relay.baseline = "none" => t.relay.baseline = "none"
  BY <1>1, <1>2 DEF SourceState, Unbased
<1> QED
  BY <1>2, <1>4, <1>5, <1>6 DEF t

LEMMA AfterFailureOK ==
  ASSUME NEW k \in Keys, NEW s, SourceOK(k, s), s.registration # NoRegistration, ~s.withdrawing
  PROVE  LET t == AfterFailure(s)
         IN  /\ SourceOK(k, t)
             /\ t.registration = s.registration
             /\ ~t.withdrawing
             /\ RefsOf(t) = RefsOf(s)
             /\ t.baseline = "none" /\ t.relay.baseline = s.relay.baseline
<1>1. s \in SourceState
  BY DEF SourceOK
<1>2. AfterFailure(s) \in SourceState
  BY <1>1 DEF AfterFailure, SourceState
<1> QED
  BY <1>1, <1>2 DEF AfterFailure, SourceState, SourceOK, RefsOf

LEMMA AfterRelayOK ==
  ASSUME NEW k \in Keys, NEW s, SourceOK(k, s), s.registration # NoRegistration, ~s.withdrawing,
         NEW kind \in RelayEvents
  PROVE  LET t == AfterRelay(s, kind)
         IN  /\ SourceOK(k, t)
             /\ t.registration = s.registration
             /\ ~t.withdrawing
             /\ RefsOf(t) = RefsOf(s)
             /\ t.baseline = s.baseline
             /\ kind = "relayAway" => t.relay.baseline = "none"
             /\ kind = "relay" /\ s.relay.baseline = "none" => t.relay.baseline = "latest"
<1>1. s \in SourceState
  BY DEF SourceOK
<1>2. AfterRelay(s, kind) \in SourceState
  BY <1>1 DEF AfterRelay, SourceState, NoRelay
<1> QED
  BY <1>1, <1>2 DEF AfterRelay, SourceState, SourceOK, RefsOf, RelayEvents, NoRelay

LEMMA AfterWithdrawOK ==
  ASSUME NEW k \in Keys, NEW s, SourceOK(k, s), s.registration # NoRegistration
  PROVE  LET t == AfterWithdraw(s)
         IN  /\ SourceOK(k, t)
             /\ t.registration = s.registration
             /\ t.withdrawing
             /\ RefsOf(s) \subseteq RefsOf(t)
<1> DEFINE t == AfterWithdraw(s)
<1>1. s \in SourceState
  BY DEF SourceOK
<1>2. /\ t.registration = s.registration /\ t.healthy = FALSE /\ t.latest = s.latest
      /\ t.withdrawing = TRUE /\ t.uncertainRefs = {} /\ t.serverRef = NoSnapshot
      /\ t.withdrawals = s.withdrawals \cup (({s.serverRef.identity} \cup s.uncertainRefs) \ {NoIdentity})
  BY <1>1 DEF AfterWithdraw, SourceState
<1>3. t \in SourceState
  <2>1. t.withdrawals \subseteq Identities
    BY <1>1, <1>2 DEF SourceState
  <2> QED
    BY <1>1, <2>1, <1>2 DEF AfterWithdraw, SourceState, NoSnapshot
<1> HIDE DEF t
<1>4. SourceOK(k, t)
  BY <1>2, <1>3 DEF SourceOK, SnapshotOrNone, NoSnapshot
<1>5. RefsOf(s) \subseteq RefsOf(t)
  <2>1. NoIdentity \notin s.uncertainRefs
    BY DEF SourceOK
  <2> QED
    BY <2>1, <1>2 DEF RefsOf
<1> QED
  BY <1>2, <1>4, <1>5 DEF t

\* Counters that were told of, or whose source was away, until their baseline
\* is the latest snapshot.
LEMMA AfterEventOK ==
  ASSUME NEW k \in Keys, NEW s, SourceOK(k, s),
         NEW event \in Event, KeyOf[event.registration] = k,
         event.kind = "sample" => event.snapshot \in Snapshots(k),
         NEW told \in SUBSET {"traffic", "relay"}, OverlapOK(s, told)
  PROVE  LET t == AfterEvent(event, s)
         IN  /\ SourceOK(k, t)
             /\ t.registration = IF s.registration # NoRegistration THEN s.registration
                                 ELSE event.registration
             /\ t.withdrawing <=> s.withdrawing \/ event.kind = "withdraw"
             /\ RefsOf(s) \subseteq RefsOf(t)
             /\ \A c \in told \cup Interrupted(event.kind) :
                    t.withdrawing \/ BaselineOf(t, c) \in {"none", "latest"}
<1> DEFINE t == AfterEvent(event, s)
           new == [NewState(event.registration) EXCEPT !.needsHello = event.kind # "withdraw"]
           found == IF s.registration # NoRegistration THEN s ELSE new
<1>1. event.registration \in Registrations /\ event.kind \in {"sample", "failure", "withdraw", "relay", "relayAway"}
  BY DEF Event, RelayEvents
<1>2. /\ SourceOK(k, found)
      /\ found.registration = IF s.registration # NoRegistration THEN s.registration
                              ELSE event.registration
      /\ found.registration # NoRegistration
      /\ found.withdrawing <=> s.withdrawing
      /\ RefsOf(found) = RefsOf(s)
      /\ OverlapOK(found, told)
  <2>1. CASE s.registration # NoRegistration
    BY <2>1
  <2>2. CASE s.registration = NoRegistration
    <3>1. s = NoState
      BY <2>2 DEF SourceOK
    <3>2. PICK needs \in BOOLEAN : needs = (event.kind # "withdraw")
      OBVIOUS
    <3>3. new = [NewState(event.registration) EXCEPT !.needsHello = needs]
      BY <3>2
    <3>4. /\ SourceOK(k, new)
          /\ new.registration = event.registration
          /\ ~new.withdrawing
          /\ RefsOf(new) = {}
          /\ new.baseline = "none" /\ new.relay.baseline = "none"
      BY <1>1, <3>3, NewStateOK
    <3>5. OverlapOK(new, told)
      BY <3>4 DEF OverlapOK, BaselineOf
    <3>6. found = new /\ ~s.withdrawing /\ RefsOf(s) = {}
      BY <2>2, <3>1, NoStateOK
    <3> HIDE DEF new, found
    <3> QED
      BY <2>2, <3>4, <3>5, <3>6, <1>1, SinkAssumption
  <2> QED
    BY <2>1, <2>2
<1>3. t = CASE event.kind = "withdraw" -> AfterWithdraw(found)
            [] event.kind # "withdraw" /\ found.withdrawing -> found
            [] event.kind = "failure" /\ ~found.withdrawing -> AfterFailure(found)
            [] event.kind = "sample" /\ ~found.withdrawing -> AfterSample(found, event.snapshot)
            [] event.kind \in RelayEvents /\ ~found.withdrawing -> AfterRelay(found, event.kind)
  BY DEF AfterEvent
<1> HIDE DEF t, new, found
<1> SUFFICES /\ SourceOK(k, t)
             /\ t.registration = found.registration
             /\ t.withdrawing <=> found.withdrawing \/ event.kind = "withdraw"
             /\ RefsOf(found) \subseteq RefsOf(t)
             /\ \A c \in told \cup Interrupted(event.kind) :
                    t.withdrawing \/ BaselineOf(t, c) \in {"none", "latest"}
  BY <1>2 DEF t, OverlapOK
<1>4. CASE event.kind = "withdraw"
  <2>1. t = AfterWithdraw(found)
    BY <1>3, <1>4 DEF RelayEvents
  <2> QED
    BY <1>2, <1>4, <2>1, AfterWithdrawOK
<1>5. CASE event.kind # "withdraw" /\ found.withdrawing
  <2>1. t = found
    BY <1>3, <1>5 DEF RelayEvents
  <2> QED
    BY <1>2, <1>5, <2>1
<1>6. CASE event.kind = "failure" /\ ~found.withdrawing
  <2>1. t = AfterFailure(found)
    BY <1>3, <1>6 DEF RelayEvents
  <2> QED
    BY <1>2, <1>6, <2>1, AfterFailureOK DEF OverlapOK, BaselineOf, Interrupted
<1>7. CASE event.kind = "sample" /\ ~found.withdrawing
  <2>1. t = AfterSample(found, event.snapshot)
    BY <1>3, <1>7 DEF RelayEvents
  <2> QED
    BY <1>2, <1>7, <2>1, AfterSampleOK DEF OverlapOK, BaselineOf, Interrupted
<1>8. CASE event.kind \in {"relay", "relayAway"} /\ ~found.withdrawing
  <2>1. t = AfterRelay(found, event.kind)
    BY <1>3, <1>8 DEF RelayEvents
  <2>2. \A c \in told : BaselineOf(found, c) = "none"
    BY <1>2, <1>8 DEF OverlapOK
  <2> QED
    BY <1>2, <1>8, <2>1, <2>2, AfterRelayOK DEF BaselineOf, Interrupted, RelayEvents
<1> QED
  BY <1>1, <1>4, <1>5, <1>6, <1>7, <1>8

-----------------------------------------------------------------------------
(* What the loop does to a source state it reports. *)

Kinds == {"withdrawal", "hello", "inventory", "traffic", "heartbeat", "relay"}

LEMMA KindOK ==
  ASSUME loop \in LoopState, loop.kind # 0
  PROVE  Kind \in Kinds
  BY DEF LoopState, Kind, ReportKinds, Kinds

\* A source the loop may report is there, is not withdrawn unless the report is
\* a withdrawal, and has something to report from.
LEMMA EligibleOK ==
  ASSUME NEW k \in Keys, NEW st, SourceOK(k, st[k]), NEW kind \in Kinds, k \in Eligible(kind, st)
  PROVE  /\ st[k].registration # NoRegistration
         /\ kind = "withdrawal" => st[k].withdrawals # {}
         /\ kind # "withdrawal" =>
                /\ ~st[k].withdrawing
                /\ st[k].latest \in Snapshots(k)
                /\ st[k].baseline # "none"
         /\ kind = "hello" => st[k].withdrawals = {}
         /\ kind = "relay" => st[k].relay.baseline # "none"
         /\ kind \in {"inventory", "traffic", "heartbeat", "relay"} => st[k].serverRef \in Snapshots(k)
<1> DEFINE s == st[k]
<1>1. st[k] = s
  OBVIOUS
<1>2. CASE kind = "withdrawal"
  BY <1>2 DEF Eligible, SourceOK, NoState
<1>3. CASE kind # "withdrawal"
  <2>1. /\ s.healthy /\ ~s.withdrawing
        /\ kind = "hello" => s.withdrawals = {} /\ s.latest # NoSnapshot
        /\ kind # "hello" => s.serverRef # NoSnapshot
        /\ kind = "relay" => s.relay.baseline # "none"
    BY <1>3 DEF Eligible, Kinds, Reportable, Connected, RelayConnected
  <2>2. s.registration # NoRegistration /\ s.baseline # "none"
    BY <2>1 DEF SourceOK, NoState
  <2>3. s.serverRef # NoSnapshot => s.serverRef \in Snapshots(k) /\ s.latest # NoSnapshot
    BY SnapshotIdentity DEF SourceOK, SnapshotOrNone, NoSnapshot
  <2>4. s.latest # NoSnapshot => s.latest \in Snapshots(k)
    BY DEF SourceOK, SnapshotOrNone
  <2> QED
    BY <1>3, <2>1, <2>2, <2>3, <2>4
<1> QED
  BY <1>2, <1>3

\* Two states of one source with the same owner.
SameOwner(s, t) == t.registration = s.registration /\ (t.withdrawing <=> s.withdrawing)

\* A baseline is kept, taken anew, or dropped.
BaselineMoves(s, t) ==
    \A c \in {"traffic", "relay"} : BaselineOf(t, c) \in {BaselineOf(s, c), "latest", "none"}

LEMMA LevelOK ==
  ASSUME NEW k \in Keys, NEW s, SourceOK(k, s), s.registration # NoRegistration
  PROVE  LET t == Level(s)
         IN  /\ SourceOK(k, t) /\ SameOwner(s, t) /\ BaselineMoves(s, t)
             /\ RefsOf(t) = RefsOf(s)
             /\ t.baseline = "latest"
<1>1. s \in SourceState
  BY DEF SourceOK
<1>2. Level(s) \in SourceState
  BY <1>1 DEF Level, SourceState
<1> QED
  BY <1>1, <1>2 DEF Level, SourceState, SourceOK, RefsOf, SameOwner, BaselineMoves, BaselineOf

LEMMA RelayLevelOK ==
  ASSUME NEW k \in Keys, NEW s, SourceOK(k, s), s.registration # NoRegistration
  PROVE  LET t == RelayLevel(s)
         IN  /\ SourceOK(k, t) /\ SameOwner(s, t) /\ BaselineMoves(s, t)
             /\ RefsOf(t) = RefsOf(s)
             /\ t.relay.baseline = "latest"
<1>1. s \in SourceState
  BY DEF SourceOK
<1>2. RelayLevel(s) \in SourceState
  BY <1>1 DEF RelayLevel, SourceState
<1> QED
  BY <1>1, <1>2 DEF RelayLevel, SourceState, SourceOK, RefsOf, SameOwner, BaselineMoves, BaselineOf

LEMMA RebasedOK ==
  ASSUME NEW relay \in RelayState
  PROVE  Rebased(relay) \in RelayState /\ Rebased(relay).baseline \in {"latest", "none"}
  BY DEF Rebased, RelayState, Baseline

LEMMA WithdrawnOK ==
  ASSUME NEW s, s.withdrawals # {}
  PROVE  Withdrawn(s) \in s.withdrawals
  BY DEF Withdrawn

\* The state after a report was accepted.
LEMMA AppliedOK ==
  ASSUME NEW k \in Keys, SourceOK(k, state[k]), Kind \in Kinds, k \in Eligible(Kind, state)
  PROVE  LET s == state[k]
             t == Applied(s)
         IN  /\ SourceOK(k, t) /\ SameOwner(s, t) /\ BaselineMoves(s, t)
             /\ \A c \in Told : BaselineOf(t, c) = "latest"
             /\ Kind = "hello" => RefsOf(s) \cup {s.latest.identity} \subseteq RefsOf(t)
             /\ Kind = "withdrawal" => RefsOf(s) \ {Withdrawn(s)} \subseteq RefsOf(t)
             /\ Kind \notin {"hello", "withdrawal"} => RefsOf(s) = RefsOf(t)
<1> DEFINE s == state[k]
           t == Applied(s)
<1>1. s \in SourceState /\ SourceOK(k, s) /\ s.registration # NoRegistration
  BY EligibleOK DEF SourceOK
<1>2. CASE Kind = "withdrawal"
  <2>1. t = [s EXCEPT !.withdrawals = @ \ {Withdrawn(s)}]
    BY <1>2 DEF Applied
  <2>2. t \in SourceState
    BY <1>1, <2>1 DEF SourceState
  <2>3. /\ t.registration = s.registration /\ t.withdrawing = s.withdrawing
        /\ t.healthy = s.healthy /\ t.latest = s.latest /\ t.serverRef = s.serverRef
        /\ t.uncertainRefs = s.uncertainRefs /\ t.withdrawals = s.withdrawals \ {Withdrawn(s)}
        /\ t.baseline = s.baseline /\ t.relay = s.relay
    BY <1>1, <2>1 DEF SourceState
  <2> HIDE DEF t, s
  <2>4. SourceOK(k, t)
    BY <1>1, <2>2, <2>3 DEF SourceOK
  <2>5. SameOwner(s, t) /\ BaselineMoves(s, t) /\ RefsOf(s) \ {Withdrawn(s)} \subseteq RefsOf(t)
    BY <2>3 DEF SameOwner, BaselineMoves, BaselineOf, RefsOf
  <2>6. Told = {}
    BY <1>2 DEF Told
  <2> QED
    BY <1>2, <2>4, <2>5, <2>6 DEF t, s
<1>3. CASE Kind = "hello"
  <2>1. t = [Level(s) EXCEPT !.serverRef = s.latest, !.needsHello = FALSE,
                             !.uncertainRefs = @ \ {s.latest.identity}, !.relay = Rebased(@)]
    BY <1>3 DEF Applied
  <2>2. s.relay \in RelayState /\ Rebased(s.relay) \in RelayState
        /\ Rebased(s.relay).baseline \in {"latest", "none"}
    BY <1>1, RebasedOK DEF SourceState, RelayState, Baseline
  <2>3. t \in SourceState
    <3>1. PICK level : level = Level(s)
      OBVIOUS
    <3>2. level \in SourceState /\ level.relay = s.relay
      BY <1>1, <3>1, LevelOK DEF SourceOK, Level, SourceState
    <3>3. PICK relay \in RelayState : relay = Rebased(s.relay)
      BY <2>2
    <3>4. t = [level EXCEPT !.serverRef = s.latest, !.needsHello = FALSE,
                            !.uncertainRefs = @ \ {s.latest.identity}, !.relay = relay]
      BY <2>1, <3>1, <3>2, <3>3
    <3> HIDE DEF t
    <3> QED
      BY <1>1, <3>2, <3>4 DEF SourceState, RelayState, Baseline
  <2>4. /\ t.registration = s.registration /\ t.withdrawing = s.withdrawing
        /\ t.healthy = s.healthy /\ t.latest = s.latest /\ t.serverRef = s.latest
        /\ t.uncertainRefs = s.uncertainRefs \ {s.latest.identity}
        /\ t.withdrawals = s.withdrawals /\ t.baseline = "latest"
        /\ t.relay = Rebased(s.relay)
    BY <1>1, <2>1 DEF SourceState, Level
  <2>5. ~s.withdrawing /\ s.latest \in Snapshots(k)
    BY <1>3, EligibleOK DEF Kinds
  <2>6. s.latest.identity # NoIdentity
    BY <2>5, SnapshotIdentity
  <2> HIDE DEF t, s
  <2>7. SourceOK(k, t)
    BY <1>1, <2>3, <2>4, <2>5 DEF SourceOK, SnapshotOrNone
  <2>8. RefsOf(s) \cup {s.latest.identity} \subseteq RefsOf(t)
    BY <1>1, <2>4, <2>6 DEF RefsOf, SourceOK
  <2>9. SameOwner(s, t) /\ BaselineMoves(s, t) /\ \A c \in Told : BaselineOf(t, c) = "latest"
    BY <1>3, <2>2, <2>4 DEF SameOwner, BaselineMoves, BaselineOf, Told
  <2> QED
    BY <1>3, <2>7, <2>8, <2>9 DEF t, s
<1>4. CASE Kind = "inventory"
  <2>1. t = [Level(s) EXCEPT !.serverRef.generation = s.latest.generation]
    BY <1>4 DEF Applied
  <2>2. ~s.withdrawing /\ s.latest \in Snapshots(k) /\ s.serverRef \in Snapshots(k)
    BY <1>4, EligibleOK DEF Kinds
  <2>3. /\ t.registration = s.registration /\ t.withdrawing = s.withdrawing
        /\ t.healthy = s.healthy /\ t.latest = s.latest
        /\ t.serverRef = [s.serverRef EXCEPT !.generation = s.latest.generation]
        /\ t.uncertainRefs = s.uncertainRefs
        /\ t.withdrawals = s.withdrawals /\ t.baseline = "latest"
        /\ t.relay = s.relay
    BY <1>1, <2>1 DEF SourceState, Level
  <2>4. t.serverRef \in Snapshots(k) /\ t.serverRef.identity = s.serverRef.identity
    BY <2>2, <2>3 DEF Snapshots
  <2>5. t \in SourceState
    <3>1. [s.serverRef EXCEPT !.generation = s.latest.generation] \in Snapshot
      BY <1>1 DEF SourceState, Snapshot
    <3> QED
      BY <1>1, <2>1, <3>1 DEF SourceState, Level, Snapshot
  <2> HIDE DEF t, s
  <2>6. SourceOK(k, t)
    BY <1>1, <2>2, <2>3, <2>4, <2>5 DEF SourceOK, SnapshotOrNone
  <2> QED
    BY <1>1, <1>4, <2>3, <2>4, <2>6 DEF RefsOf, SameOwner, BaselineMoves, BaselineOf, Told, t, s
<1>5. CASE Kind = "traffic"
  BY <1>1, <1>5, LevelOK DEF Applied, Told, BaselineOf
<1>6. CASE Kind = "heartbeat"
  BY <1>1, <1>6 DEF Applied, Told, SameOwner, BaselineMoves, BaselineOf
<1>7. CASE Kind = "relay"
  BY <1>1, <1>7, RelayLevelOK DEF Applied, Told, BaselineOf
<1> QED
  BY <1>2, <1>3, <1>4, <1>5, <1>6, <1>7 DEF Kinds

\* The state after a report was given up.
LEMMA RejectedOK ==
  ASSUME NEW k \in Keys, SourceOK(k, state[k]), Kind \in Kinds, k \in Eligible(Kind, state)
  PROVE  LET s == state[k]
             t == Rejected(s)
         IN  /\ SourceOK(k, t) /\ SameOwner(s, t) /\ BaselineMoves(s, t)
             /\ Kind = "withdrawal" => RefsOf(s) \ {Withdrawn(s)} \subseteq RefsOf(t)
             /\ Kind # "withdrawal" => RefsOf(s) = RefsOf(t)
             /\ Kind = "withdrawal" /\ s.withdrawing => t.refused
<1> DEFINE s == state[k]
           t == Rejected(s)
<1>1. s \in SourceState /\ SourceOK(k, s) /\ s.registration # NoRegistration
  BY EligibleOK DEF SourceOK
<1>2. CASE Kind = "withdrawal"
  <2>1. t = [s EXCEPT !.withdrawals = @ \ {Withdrawn(s)}, !.refused = @ \/ s.withdrawing]
    BY <1>2 DEF Rejected
  <2>2. /\ t.registration = s.registration /\ t.withdrawing = s.withdrawing
        /\ t.healthy = s.healthy /\ t.latest = s.latest /\ t.serverRef = s.serverRef
        /\ t.uncertainRefs = s.uncertainRefs
        /\ t.withdrawals = s.withdrawals \ {Withdrawn(s)}
        /\ t.baseline = s.baseline /\ t.relay = s.relay
        /\ t.dirty = s.dirty /\ t.needsHello = s.needsHello
    BY <1>1, <2>1 DEF SourceState
  <2>3. t.refused = (s.refused \/ s.withdrawing)
    BY <1>1, <2>1 DEF SourceState
  <2>4. t.refused \in BOOLEAN
    BY <2>3
  <2>5. DOMAIN t = StateFields /\ t = [field \in StateFields |-> t[field]]
    BY <1>1, <2>1 DEF SourceState, StateFields
  <2> HIDE DEF t
  <2>6. /\ t.registration \in Registrations \cup {NoRegistration}
        /\ t.healthy \in BOOLEAN /\ t.dirty \in BOOLEAN /\ t.needsHello \in BOOLEAN
        /\ t.withdrawing \in BOOLEAN
        /\ t.latest \in Snapshot /\ t.baseline \in Baseline /\ t.serverRef \in Snapshot
        /\ t.uncertainRefs \in SUBSET Identities /\ t.withdrawals \in SUBSET Identities
        /\ t.relay \in RelayState
    BY <1>1, <2>2 DEF SourceState, Snapshot, Baseline, RelayState
  <2>7. t \in SourceState
    BY <2>4, <2>5, <2>6, StateRecord
  <2> HIDE DEF s
  <2>8. SourceOK(k, t)
    BY <1>1, <2>2, <2>7 DEF SourceOK
  <2>9. s.withdrawing => t.refused
    BY <2>3
  <2> QED
    BY <1>2, <2>2, <2>8, <2>9 DEF RefsOf, SameOwner, BaselineMoves, BaselineOf, t, s
<1>3. CASE Kind = "relay"
  BY <1>1, <1>3, RelayLevelOK DEF Rejected
<1>4. CASE Kind \in {"hello", "inventory", "traffic", "heartbeat"}
  <2>1. PICK level : level = Level(s)
    OBVIOUS
  <2>2. /\ SourceOK(k, level) /\ SameOwner(s, level) /\ BaselineMoves(s, level)
        /\ RefsOf(level) = RefsOf(s) /\ level \in SourceState
    BY <1>1, <2>1, LevelOK DEF SourceOK
  <2>3. t = [level EXCEPT !.healthy = FALSE]
    BY <1>4, <2>1 DEF Rejected
  <2>4. t \in SourceState
    BY <2>2, <2>3 DEF SourceState
  <2>5. /\ t.registration = level.registration /\ t.withdrawing = level.withdrawing
        /\ t.healthy = FALSE /\ t.latest = level.latest /\ t.serverRef = level.serverRef
        /\ t.uncertainRefs = level.uncertainRefs /\ t.withdrawals = level.withdrawals
        /\ t.baseline = level.baseline /\ t.relay = level.relay
    BY <2>2, <2>3 DEF SourceState
  <2>6. level.registration # NoRegistration
    BY <1>1, <2>2 DEF SameOwner
  <2> HIDE DEF t, s
  <2> QED
    BY <1>4, <2>2, <2>4, <2>5, <2>6 DEF SourceOK, RefsOf, SameOwner, BaselineMoves, BaselineOf, t, s
<1> QED
  BY <1>2, <1>3, <1>4 DEF Kinds

\* The state after a report that may have been applied, or not.
LEMMA UncertainOK ==
  ASSUME NEW k \in Keys, SourceOK(k, state[k]), Kind \in Kinds, k \in Eligible(Kind, state),
         NEW batch \in SUBSET Keys, k \in batch
  PROVE  LET s == state[k]
             t == Uncertain(batch)[k]
         IN  /\ SourceOK(k, t) /\ SameOwner(s, t) /\ BaselineMoves(s, t)
             /\ RefsOf(s) \subseteq RefsOf(t)
             /\ Kind = "hello" => s.latest.identity \in RefsOf(t)
             /\ t.latest = s.latest
<1> DEFINE s == state[k]
<1>1. s \in SourceState /\ SourceOK(k, s) /\ s.registration # NoRegistration
  BY EligibleOK DEF SourceOK
<1>2. CASE Kind = "hello"
  <2>1. ~s.withdrawing /\ s.latest \in Snapshots(k)
    BY <1>2, EligibleOK DEF Kinds
  <2>2. s.latest.identity \in Identities \ {NoIdentity}
    BY <2>1, SnapshotIdentity
  <2>3. Uncertain(batch)[k] = [s EXCEPT !.uncertainRefs = @ \cup {s.latest.identity}]
    BY <1>2 DEF Uncertain
  <2>4. Uncertain(batch)[k] \in SourceState
    BY <1>1, <2>2, <2>3 DEF SourceState
  <2>5. PICK t : t = Uncertain(batch)[k]
    OBVIOUS
  <2>6. t \in SourceState /\ t.uncertainRefs = s.uncertainRefs \cup {s.latest.identity}
        /\ t.registration = s.registration /\ t.withdrawing = s.withdrawing
    <3>1. DOMAIN s = StateFields
      BY <1>1 DEF SourceState, StateFields
    <3> HIDE DEF s
    <3> QED
      BY <2>3, <2>4, <2>5, <3>1 DEF StateFields
  <2>7. t.latest = s.latest /\ t.serverRef = s.serverRef /\ t.withdrawals = s.withdrawals
        /\ t.healthy = s.healthy /\ t.baseline = s.baseline /\ t.relay = s.relay
    <3>1. DOMAIN s = StateFields
      BY <1>1 DEF SourceState, StateFields
    <3> HIDE DEF s
    <3> QED
      BY <2>3, <2>5, <3>1 DEF StateFields
  <2> HIDE DEF s
  <2>8. SourceOK(k, t)
    BY <1>1, <2>1, <2>2, <2>6, <2>7 DEF SourceOK
  <2>9. SameOwner(s, t) /\ BaselineMoves(s, t)
    BY <2>6, <2>7 DEF SameOwner, BaselineMoves, BaselineOf
  <2>10. RefsOf(s) \subseteq RefsOf(t) /\ s.latest.identity \in RefsOf(t)
    BY <2>6, <2>7 DEF RefsOf
  <2> QED
    BY <2>5, <2>7, <2>8, <2>9, <2>10 DEF s
<1>3. CASE Kind # "hello"
  BY <1>1, <1>3 DEF Uncertain, SameOwner, BaselineMoves, BaselineOf
<1> QED
  BY <1>2, <1>3

\* A source that lost its server keeps its references.
LEMMA DisconnectedOK ==
  ASSUME NEW k \in Keys, NEW st, SourceOK(k, st[k])
  PROVE  LET s == st[k]
             t == Disconnected(st)[k]
         IN  /\ SourceOK(k, t) /\ SameOwner(s, t) /\ BaselineMoves(s, t)
             /\ RefsOf(t) = RefsOf(s)
             /\ s.registration # NoRegistration /\ ~s.withdrawing /\ s.latest # NoSnapshot =>
                    t.baseline = "latest" /\ t.relay.baseline = "none"
<1> DEFINE s == st[k]
           t == Disconnected(st)[k]
<1>1. s \in SourceState
  BY DEF SourceOK
<1>5. PICK relay \in RelayState : relay = Unbased(s.relay) /\ relay.baseline = "none"
  <2>1. s.relay \in RelayState
    BY <1>1 DEF SourceState, RelayState, Baseline
  <2>2. Unbased(s.relay) \in RelayState /\ Unbased(s.relay).baseline = "none"
    BY <2>1 DEF Unbased, RelayState, Baseline
  <2> QED
    BY <2>2
<1>2. CASE s.registration = NoRegistration \/ s.withdrawing
  <2>1. t = s
    BY <1>2 DEF Disconnected
  <2> QED
    BY <1>2, <2>1 DEF SameOwner, BaselineMoves
<1>3. CASE s.registration # NoRegistration /\ ~s.withdrawing /\ s.latest = NoSnapshot
  <2>1. t = [s EXCEPT !.needsHello = TRUE, !.relay = relay]
    BY <1>5, <1>1, <1>3 DEF Disconnected
  <2>2. t \in SourceState
    BY <1>1, <2>1 DEF SourceState, RelayState, Baseline
  <2> QED
    BY <1>5, <1>1, <1>3, <2>1, <2>2
    DEF SourceState, SourceOK, RefsOf, SameOwner, BaselineMoves, BaselineOf
<1>4. CASE s.registration # NoRegistration /\ ~s.withdrawing /\ s.latest # NoSnapshot
  <2>1. t = [s EXCEPT !.needsHello = TRUE, !.relay = relay, !.baseline = "latest", !.dirty = TRUE]
    BY <1>5, <1>1, <1>4 DEF Disconnected
  <2>2. t \in SourceState
    <3>1. PICK u : u = [s EXCEPT !.needsHello = TRUE, !.relay = relay]
      OBVIOUS
    <3>2. u \in SourceState
      BY <1>1, <3>1 DEF SourceState, RelayState, Baseline
    <3>3. t = [u EXCEPT !.baseline = "latest", !.dirty = TRUE]
      BY <1>1, <2>1, <3>1 DEF SourceState
    <3> HIDE DEF t
    <3> QED
      BY <3>2, <3>3 DEF SourceState
  <2>3. /\ t.registration = s.registration /\ t.withdrawing = s.withdrawing
        /\ t.healthy = s.healthy /\ t.latest = s.latest /\ t.serverRef = s.serverRef
        /\ t.uncertainRefs = s.uncertainRefs /\ t.withdrawals = s.withdrawals
        /\ t.baseline = "latest" /\ t.relay = relay
    BY <1>1, <2>1 DEF SourceState
  <2>4. SourceOK(k, s)
    OBVIOUS
  <2> HIDE DEF t, s
  <2>5. SourceOK(k, t)
    BY <1>4, <2>2, <2>3, <2>4 DEF SourceOK
  <2>6. SameOwner(s, t) /\ BaselineMoves(s, t) /\ RefsOf(t) = RefsOf(s)
    BY <1>5, <2>3 DEF SameOwner, BaselineMoves, BaselineOf, RefsOf
  <2> QED
    BY <1>5, <2>3, <2>5, <2>6 DEF t, s
<1> QED
  BY <1>2, <1>3, <1>4

-----------------------------------------------------------------------------
(* Steps of the loop, seen from the owners of the registrations. *)

\* A state is finished with, or goes on with the owner it has.
GoesOn(s, t) == SameOwner(s, t) /\ BaselineMoves(s, t) /\ RefsOf(t) = RefsOf(s)
Ends(s, t)   == s.withdrawing /\ s.withdrawals = {} /\ t = NoState

LEMMA EventAt ==
  ASSUME CallerTypeOK, NEW i \in 1 .. Len(events)
  PROVE  /\ events[i] \in Event /\ events[i].registration \in Registrations
         /\ KeyOf[events[i].registration] \in Keys
<1>1. events[i] \in Event
  BY DEF CallerTypeOK
<1>2. events[i].registration \in Registrations
  BY <1>1 DEF Event
<1> QED
  BY <1>1, <1>2, SinkAssumption

LEMMA OwnersRest ==
  ASSUME CallerTypeOK, SourcesOK, CallersOK, EventsOK, UNCHANGED <<call, events>>,
         \A k \in Keys : \/ registered'[k] = registered[k] /\ SameOwner(state[k], state'[k])
                         \/ state[k].withdrawing /\ state'[k] = NoState /\ registered'[k] = NoRegistration
  PROVE  CallersOK' /\ EventsOK'
<1>1. NoState.registration = NoRegistration /\ ~NoState.withdrawing
  BY DEF NoState
<1>2. \A r \in Registrations : KeyOf[r] \in Keys /\ r # NoRegistration
  BY SinkAssumption
<1>3. CallersOK'
  <2>1. \A k \in Keys : registered'[k] # NoRegistration => KeyOf[registered'[k]] = k
    BY DEF CallersOK
  <2>2. ASSUME NEW r \in Registrations, call[r] \in {"registered", "sending"}
        PROVE  registered'[KeyOf[r]] = r
    BY <1>2, <2>2 DEF CallersOK
  <2>3. ASSUME NEW k \in Keys, state'[k].registration # NoRegistration
        PROVE  state'[k].registration = registered'[k]
    BY <1>1, <2>3 DEF CallersOK, Present, SameOwner
  <2>4. ASSUME NEW k \in Keys, state'[k].withdrawing
        PROVE  call[registered'[k]] = "waiting"
    BY <1>1, <2>4 DEF CallersOK, SameOwner
  <2> QED
    BY <2>1, <2>2, <2>3, <2>4 DEF CallersOK, Present
<1>4. EventsOK'
  <2>1. ASSUME NEW i \in 1 .. Len(events), events[i].kind = "withdraw"
        PROVE  LET r == events[i].registration
               IN  registered'[KeyOf[r]] = r /\ call[r] = "waiting" /\ ~state'[KeyOf[r]].withdrawing
    <3>1. events[i].registration \in Registrations
      BY EventAt
    <3>2. PICK k \in Keys : k = KeyOf[events[i].registration]
      BY <1>2, <3>1
    <3>3. registered[k] = events[i].registration /\ call[events[i].registration] = "waiting" /\ ~state[k].withdrawing
      BY <2>1, <3>2 DEF EventsOK
    <3> QED
      BY <1>1, <3>2, <3>3 DEF SameOwner
  <2> QED
    BY <2>1 DEF EventsOK
<1> QED
  BY <1>3, <1>4

\* finalizeUnreportedWithdrawals
LEMMA FinalizeOK ==
  ASSUME CallerTypeOK, SourcesOK, CallersOK, UNCHANGED <<call, events>>,
         NEW st, st \in [Keys -> SourceState],
         \A k \in Keys : SourceOK(k, st[k]) /\ SameOwner(state[k], st[k]),
         Finalize(st)
  PROVE  /\ state' \in [Keys -> SourceState]
         /\ SourcesOK'
         /\ UNCHANGED phase
         /\ registered' \in [Keys -> Registrations \cup {NoRegistration}]
         /\ result' \in [Registrations -> {"none", "nil", "stopped", "refused"}]
         /\ \A k \in Keys : state'[k] \in {st[k], NoState}
         /\ \A k \in Keys : \/ registered'[k] = registered[k] /\ GoesOn(st[k], state'[k])
                            \/ Ends(st[k], state'[k]) /\ registered'[k] = NoRegistration
         /\ \A k \in Keys : \/ registered'[k] = registered[k] /\ SameOwner(state[k], state'[k])
                            \/ state[k].withdrawing /\ state'[k] = NoState /\ registered'[k] = NoRegistration
<1>1. /\ state' = [k \in Keys |-> IF k \in Finished(st) THEN NoState ELSE st[k]]
      /\ registered' = [k \in Keys |-> IF k \in Finished(st) THEN NoRegistration ELSE registered[k]]
      /\ UNCHANGED phase
  BY DEF Finalize
<1>2. result' \in [Registrations -> {"none", "nil", "stopped", "refused"}]
  BY DEF Finalize, CallerTypeOK
<1>3. registered' \in [Keys -> Registrations \cup {NoRegistration}]
  BY <1>1 DEF CallerTypeOK
<1>4. ASSUME NEW k \in Keys
      PROVE  /\ SourceOK(k, state'[k]) /\ state'[k] \in {st[k], NoState}
             /\ \/ registered'[k] = registered[k] /\ GoesOn(st[k], state'[k])
                \/ Ends(st[k], state'[k]) /\ registered'[k] = NoRegistration
  <2>1. CASE k \in Finished(st)
    BY <1>1, <2>1, NoStateOK DEF Finished, Ends
  <2>2. CASE k \notin Finished(st)
    BY <1>1, <2>2 DEF GoesOn, SameOwner, BaselineMoves
  <2> QED
    BY <2>1, <2>2
<1>5. state' \in [Keys -> SourceState]
  BY <1>1, <1>4 DEF SourceOK
<1> QED
  BY <1>1, <1>2, <1>3, <1>4, <1>5 DEF SourcesOK, GoesOn, Ends, SameOwner

LEMMA SmallestKind ==
  ASSUME NEW S \in SUBSET (1 .. 6), S # {}
  PROVE  \E i \in S : \A j \in S : i <= j
<1>1. \A i \in S : i = 1 \/ i = 2 \/ i = 3 \/ i = 4 \/ i = 5 \/ i = 6
  OBVIOUS
<1>2. CASE 1 \in S
  BY <1>1, <1>2
<1>3. CASE 1 \notin S /\ 2 \in S
  BY <1>1, <1>3
<1>4. CASE 1 \notin S /\ 2 \notin S /\ 3 \in S
  BY <1>1, <1>4
<1>5. CASE 1 \notin S /\ 2 \notin S /\ 3 \notin S /\ 4 \in S
  BY <1>1, <1>5
<1>6. CASE 1 \notin S /\ 2 \notin S /\ 3 \notin S /\ 4 \notin S /\ 5 \in S
  BY <1>1, <1>6
<1>7. CASE 1 \notin S /\ 2 \notin S /\ 3 \notin S /\ 4 \notin S /\ 5 \notin S
  <2>1. 6 \in S /\ \A j \in S : j = 6
    BY <1>1, <1>7
  <2> QED
    BY <2>1
<1> QED
  BY <1>2, <1>3, <1>4, <1>5, <1>6, <1>7

\* The loop goes on with a kind it may report, or waits.
LEMMA OnwardOK ==
  ASSUME NEW done \in 0 .. 6, NEW st
  PROVE  LET next == Onward(done, st)
         IN  /\ next \in LoopState
             /\ next.pc \in {"select", "collect"}
             /\ next.pc = "collect" => next.kind # 0
             /\ next.group = <<>>
<1> DEFINE later == {i \in done + 1 .. Len(ReportKinds) : Eligible(ReportKinds[i], st) # {}}
<1>1. Len(ReportKinds) = 6
  BY DEF ReportKinds
<1>2. later \subseteq 1 .. 6
  BY <1>1
<1>3. <<>> \in Seq(SUBSET Keys)
  OBVIOUS
<1>4. CASE later = {}
  BY <1>1, <1>3, <1>4 DEF Onward, Selecting, LoopState
<1>5. CASE later # {}
  <2>1. PICK i \in 1 .. 6 : i = CHOOSE m \in later : \A j \in later : m <= j
    BY <1>2, <1>5, SmallestKind
  <2>2. Onward(done, st) = [At("collect") EXCEPT !.kind = i]
    BY <1>5, <2>1 DEF Onward
  <2> QED
    <3>1. Onward(done, st) = [pc |-> "collect", kind |-> i, pending |-> {}, group |-> <<>>, resync |-> FALSE]
      BY <2>2 DEF Selecting, At
    <3> QED
      BY <1>1, <1>3, <3>1 DEF LoopState
<1> QED
  BY <1>4, <1>5

LEMMA SelectingOK == Selecting \in LoopState /\ Selecting.pc = "select" /\ Selecting.group = <<>>
  BY DEF Selecting, LoopState, ReportKinds

-----------------------------------------------------------------------------
(* Steps of the loop, seen from the reports it has to send. *)

LEMMA EligibleSame ==
  ASSUME NEW k \in Keys, NEW st, NEW su, st[k] = su[k], NEW kind, k \in Eligible(kind, st)
  PROVE  k \in Eligible(kind, su)
  BY DEF Eligible

\* The reports that wait: the parts of a refused batch, and the other operations.
Waiting(group, pending) ==
    /\ pending \subseteq Eligible(Kind, state)
    /\ \A i \in 1 .. Len(group) : group[i] \subseteq Eligible(Kind, state)
    /\ \A i \in 1 .. Len(group) : group[i] \cap pending = {}
    /\ \A i, j \in 1 .. Len(group) : i # j => group[i] \cap group[j] = {}

Apart(batch, group) == \A i \in 1 .. Len(group) : group[i] \cap batch = {}

\* The report that is sent next can be sent, and no other covers its sources.
LEMMA BatchOK ==
  ASSUME loop \in LoopState, ReportsOK, loop.pc = "send", NEW batch \in Batches
  PROVE  /\ batch \in SUBSET Keys
         /\ batch \subseteq Eligible(Kind, state)
         /\ Kind \in Kinds
         /\ RestOfGroup \in Seq(SUBSET Keys)
         /\ Waiting(RestOfGroup, loop.pending \ batch)
         /\ Apart(batch, RestOfGroup)
<1>1. /\ loop.pending \in SUBSET Keys /\ loop.group \in Seq(SUBSET Keys)
      /\ Waiting(loop.group, loop.pending)
  BY DEF LoopState, ReportsOK, Waiting
<1>2. Kind \in Kinds
  BY KindOK DEF ReportsOK
<1>3. CASE loop.group = <<>>
  <2>1. RestOfGroup = <<>> /\ batch \in SUBSET loop.pending
    BY <1>3 DEF RestOfGroup, Batches
  <2> QED
    BY <1>1, <1>2, <2>1 DEF Waiting, Apart
<1>4. CASE loop.group # <<>>
  <2>1. RestOfGroup = Tail(loop.group) /\ batch = loop.group[1]
    BY <1>4 DEF RestOfGroup, Batches
  <2>2. Len(loop.group) \in Nat \ {0}
    BY <1>1, <1>4
  <2>3. /\ Tail(loop.group) \in Seq(SUBSET Keys)
        /\ Len(Tail(loop.group)) = Len(loop.group) - 1
        /\ \A i \in 1 .. Len(Tail(loop.group)) : Tail(loop.group)[i] = loop.group[i + 1]
    BY <1>1, <1>4
  <2>4. 1 \in 1 .. Len(loop.group)
    BY <2>2
  <2>5. batch \in SUBSET Keys /\ batch \subseteq Eligible(Kind, state)
    BY <1>1, <2>1, <2>4 DEF Waiting
  <2>6. \A i \in 1 .. Len(RestOfGroup) :
            i + 1 \in 1 .. Len(loop.group) /\ i + 1 # 1 /\ RestOfGroup[i] = loop.group[i + 1]
    BY <2>1, <2>2, <2>3
  <2>7. Apart(batch, RestOfGroup)
    BY <1>1, <2>1, <2>4, <2>6 DEF Waiting, Apart
  <2>8. \A i \in 1 .. Len(RestOfGroup) :
            /\ RestOfGroup[i] \subseteq Eligible(Kind, state)
            /\ RestOfGroup[i] \cap (loop.pending \ batch) = {}
    BY <1>1, <2>6 DEF Waiting
  <2>9. \A i, j \in 1 .. Len(RestOfGroup) : i # j => RestOfGroup[i] \cap RestOfGroup[j] = {}
    <3>1. \A i, j \in 1 .. Len(RestOfGroup) : i # j => i + 1 # j + 1
      OBVIOUS
    <3> QED
      BY <1>1, <2>6, <3>1 DEF Waiting
  <2>10. loop.pending \ batch \subseteq Eligible(Kind, state)
    BY <1>1 DEF Waiting
  <2> QED
    BY <1>2, <2>1, <2>3, <2>5, <2>7, <2>8, <2>9, <2>10 DEF Waiting
<1> QED
  BY <1>3, <1>4

\* After a report is dealt with: nothing is lost from the other states.
LEMMA ProceedOK ==
  ASSUME EngineOK, loop.pc = "send", NEW batch \in Batches, NEW resync \in BOOLEAN,
         NEW st, st \in [Keys -> SourceState],
         \A k \in Keys : SourceOK(k, st[k]) /\ SameOwner(state[k], st[k]),
         \A k \in Keys \ batch : st[k] = state[k],
         Proceed(st, batch, resync), UNCHANGED <<cancelled, sampler, events>>
  PROVE  /\ EngineOK'
         /\ \A k \in Keys : GoesOn(st[k], state'[k]) \/ Ends(st[k], state'[k])
<1> USE DEF EngineOK
<1> DEFINE pending == loop.pending \ batch
           again == loop.resync \/ resync
<1>1. phase # "new" /\ UNCHANGED <<phase, call>>
  BY DEF NotStarted, Proceed, callerVars, Finalize
<1>2. again \in BOOLEAN
  OBVIOUS
<1>3. CASE RestOfGroup = <<>> /\ again
  <2>1. state' = Disconnected(st) /\ loop' = Selecting /\ UNCHANGED callerVars
    BY <1>3 DEF Proceed
  <2>2. \A k \in Keys : SourceOK(k, state'[k]) /\ GoesOn(st[k], state'[k])
    BY <2>1, DisconnectedOK DEF GoesOn
  <2>3. state' \in [Keys -> SourceState] /\ SourcesOK'
    <3>1. state' = [k \in Keys |-> state'[k]]
      BY <2>1 DEF Disconnected
    <3> QED
      BY <2>2, <3>1 DEF SourcesOK, SourceOK
  <2>4. CallersOK' /\ EventsOK'
    <3>1. \A k \in Keys : SameOwner(state[k], state'[k])
      BY <2>2 DEF GoesOn, SameOwner
    <3> QED
      BY <2>1, <3>1, OwnersRest DEF callerVars
  <2>5. loop' \in LoopState /\ ReportsOK'
    BY <2>1, SelectingOK DEF ReportsOK
  <2>6. CallerTypeOK' /\ NotStarted'
    BY <1>1, <2>1 DEF CallerTypeOK, NotStarted, callerVars
  <2> QED
    BY <2>2, <2>3, <2>4, <2>5, <2>6
<1>4. CASE RestOfGroup = <<>> /\ ~again /\ pending = {}
  <2>1. Finalize(st) /\ loop' = Onward(loop.kind, state')
    BY <1>4 DEF Proceed
  <2>2. /\ state' \in [Keys -> SourceState]
        /\ SourcesOK'
        /\ registered' \in [Keys -> Registrations \cup {NoRegistration}]
        /\ result' \in [Registrations -> {"none", "nil", "stopped", "refused"}]
        /\ \A k \in Keys : GoesOn(st[k], state'[k]) \/ Ends(st[k], state'[k])
        /\ \A k \in Keys : \/ registered'[k] = registered[k] /\ SameOwner(state[k], state'[k])
                           \/ state[k].withdrawing /\ state'[k] = NoState /\ registered'[k] = NoRegistration
    BY <1>1, <2>1, FinalizeOK
  <2>3. CallersOK' /\ EventsOK'
    BY <1>1, <2>2, OwnersRest
  <2>4. loop' \in LoopState /\ ReportsOK'
    <3>1. loop.kind \in 0 .. 6
      BY DEF LoopState, ReportKinds
    <3> QED
      BY <2>1, <3>1, OnwardOK DEF ReportsOK
  <2>5. CallerTypeOK' /\ NotStarted'
    BY <1>1, <2>2 DEF CallerTypeOK, NotStarted
  <2> QED
    BY <2>2, <2>3, <2>4, <2>5
<1>5. CASE RestOfGroup # <<>> \/ (~again /\ pending # {})
  <2>1. /\ state' = st
        /\ loop' = [loop EXCEPT !.pending = pending, !.group = RestOfGroup, !.resync = again]
        /\ UNCHANGED callerVars
    BY <1>5 DEF Proceed
  <2>2. \A k \in Keys : SourceOK(k, state'[k]) /\ GoesOn(st[k], state'[k]) /\ SameOwner(state[k], state'[k])
    BY <2>1 DEF GoesOn, SameOwner, BaselineMoves
  <2>3. CallersOK' /\ EventsOK'
    BY <2>1, <2>2, OwnersRest DEF callerVars
  <2>4. /\ batch \in SUBSET Keys /\ RestOfGroup \in Seq(SUBSET Keys)
        /\ Waiting(RestOfGroup, pending) /\ Apart(batch, RestOfGroup)
    BY BatchOK
  <2>5. PICK resyncs \in BOOLEAN : resyncs = again
    BY <1>2
  <2>6. loop' = [loop EXCEPT !.pending = pending, !.group = RestOfGroup, !.resync = resyncs]
    BY <2>1, <2>5
  <2>7. /\ loop' \in LoopState /\ loop'.pc = "send" /\ loop'.kind = loop.kind
        /\ loop'.pending = pending /\ loop'.group = RestOfGroup
    BY <2>4, <2>6 DEF LoopState
  <2>8. ReportsOK'
    <3>1. Kind' = Kind /\ loop.kind # 0
      BY <2>7 DEF Kind, ReportsOK
    <3>2. \A k \in Keys \ batch : k \in Eligible(Kind, state) => k \in Eligible(Kind, state)'
      BY <2>1, <3>1, EligibleSame
    <3>3. pending \subseteq Keys \ batch /\ \A i \in 1 .. Len(RestOfGroup) : RestOfGroup[i] \subseteq Keys \ batch
      BY <2>4 DEF LoopState, Apart
    <3> HIDE DEF pending
    <3> QED
      BY <2>4, <2>7, <3>1, <3>2, <3>3 DEF Waiting, ReportsOK
  <2>9. CallerTypeOK' /\ NotStarted'
    BY <1>1, <2>1 DEF CallerTypeOK, NotStarted, callerVars
  <2> QED
    BY <2>1, <2>2, <2>3, <2>7, <2>8, <2>9 DEF SourcesOK
<1> QED
  BY <1>3, <1>4, <1>5

\* After an error, a lost answer or a refused report: every state goes on.
LEMMA TransportOK ==
  ASSUME EngineOK, phase # "new",
         NEW st, \A k \in Keys : SourceOK(k, st[k]) /\ SameOwner(state[k], st[k]),
         TransportFails(st), UNCHANGED <<callerVars, cancelled, sampler, events>>
  PROVE  /\ EngineOK'
         /\ \A k \in Keys : GoesOn(st[k], state'[k])
<1> USE DEF EngineOK
<1>1. state' = Disconnected(st) /\ loop' = Selecting
  BY DEF TransportFails
<1>2. \A k \in Keys : SourceOK(k, state'[k]) /\ GoesOn(st[k], state'[k])
  BY <1>1, DisconnectedOK DEF GoesOn
<1>3. state' \in [Keys -> SourceState] /\ SourcesOK'
  <2>1. state' = [k \in Keys |-> state'[k]]
    BY <1>1 DEF Disconnected
  <2> QED
    BY <1>2, <2>1 DEF SourcesOK, SourceOK
<1>4. CallersOK' /\ EventsOK'
  <2>1. \A k \in Keys : SameOwner(state[k], state'[k])
    BY <1>2 DEF GoesOn, SameOwner
  <2> QED
    BY <2>1, OwnersRest DEF callerVars
<1>5. loop' \in LoopState /\ ReportsOK'
  BY <1>1, SelectingOK DEF ReportsOK
<1>6. CallerTypeOK' /\ NotStarted'
  BY DEF CallerTypeOK, NotStarted, callerVars
<1> QED
  BY <1>2, <1>3, <1>4, <1>5, <1>6

LEMMA CollectOK ==
  ASSUME EngineOK, Collect
  PROVE  /\ EngineOK'
         /\ \A k \in Keys : GoesOn(state[k], state'[k])
<1> USE DEF EngineOK
<1>1. PICK pending \in MayHaveOperation(Eligible(Kind, state)) :
          /\ state' = [k \in Keys |->
                          IF k \notin Eligible(Kind, state) \ pending THEN state[k]
                          ELSE IF Kind = "traffic" THEN Level(state[k])
                          ELSE IF Kind = "relay" THEN RelayLevel(state[k])
                          ELSE state[k]]
          /\ loop' = IF pending = {} THEN Onward(loop.kind, state')
                     ELSE [loop EXCEPT !.pc = "send", !.pending = pending]
  BY DEF Collect
<1>2. /\ loop.pc = "collect" /\ phase # "new" /\ Kind \in Kinds /\ loop.kind # 0
      /\ UNCHANGED <<callerVars, cancelled, sampler, events>>
  BY KindOK DEF Collect, NotStarted, ReportsOK
<1>3. pending \subseteq Eligible(Kind, state)
  BY <1>1, <1>2 DEF MayHaveOperation, WithMovedPeers, WithMovedSessions, WithHeartbeatDue, Kinds
<1>4. ASSUME NEW k \in Keys
      PROVE  SourceOK(k, state'[k]) /\ GoesOn(state[k], state'[k])
  <2>1. SourceOK(k, state[k])
    BY DEF SourcesOK
  <2>2. CASE state'[k] = state[k]
    BY <2>1, <2>2 DEF GoesOn, SameOwner, BaselineMoves
  <2>3. CASE state'[k] # state[k]
    <3>1. k \in Eligible(Kind, state) /\ state'[k] \in {Level(state[k]), RelayLevel(state[k])}
      BY <1>1, <2>3
    <3>2. state[k].registration # NoRegistration
      BY <1>2, <2>1, <3>1, EligibleOK
    <3> QED
      BY <2>1, <3>1, <3>2, LevelOK, RelayLevelOK DEF GoesOn
  <2> QED
    BY <2>2, <2>3
<1>5. state' \in [Keys -> SourceState] /\ SourcesOK'
  BY <1>1, <1>4 DEF SourcesOK, SourceOK
<1>6. CallersOK' /\ EventsOK'
  <2>1. \A k \in Keys : SameOwner(state[k], state'[k])
    BY <1>4 DEF GoesOn
  <2> QED
    BY <1>2, <2>1, OwnersRest DEF callerVars
<1>7. loop' \in LoopState /\ ReportsOK'
  <2>1. CASE pending = {}
    <3>1. PICK done \in 0 .. 6 : done = loop.kind
      BY DEF LoopState, ReportKinds
    <3>2. PICK next : next = Onward(done, state')
      OBVIOUS
    <3>3. loop' = next
      BY <1>1, <2>1, <3>1, <3>2
    <3>4. /\ next \in LoopState /\ next.pc \in {"select", "collect"}
          /\ next.pc = "collect" => next.kind # 0
          /\ next.group = <<>>
      BY <3>2, OnwardOK
    <3> QED
      BY <3>3, <3>4 DEF ReportsOK
  <2>2. CASE pending # {}
    <3>1. loop' = [loop EXCEPT !.pc = "send", !.pending = pending]
      BY <1>1, <2>2
    <3>2. pending \in SUBSET Keys
      BY <1>3 DEF Eligible
    <3>3. /\ loop' \in LoopState /\ loop'.pc = "send" /\ loop'.kind = loop.kind
          /\ loop'.pending = pending /\ loop'.group = loop.group
      BY <3>1, <3>2 DEF LoopState
    <3>4. Kind' = Kind
      BY <3>3 DEF Kind
    <3>5. \A k \in pending : k \in Eligible(Kind, state)'
      BY <1>1, <1>3, <3>2, <3>4, EligibleSame
    <3>6. loop.group = <<>>
      BY <1>2 DEF ReportsOK
    <3> QED
      BY <1>2, <3>3, <3>4, <3>5, <3>6 DEF ReportsOK
  <2> QED
    BY <2>1, <2>2
<1>8. CallerTypeOK' /\ NotStarted'
  BY <1>2 DEF CallerTypeOK, NotStarted, callerVars
<1> QED
  BY <1>4, <1>5, <1>6, <1>7, <1>8

LEMMA HandleEventOK ==
  ASSUME EngineOK, HandleEvent,
         \A k \in Keys : overlap[k] \in SUBSET {"traffic", "relay"} /\ OverlapOK(state[k], overlap[k]),
         overlap \in [Keys -> SUBSET {"traffic", "relay"}]
  PROVE  /\ EngineOK'
         /\ \A k \in Keys : RefsOf(state[k]) \subseteq RefsOf(state'[k])
         /\ \A k \in Keys : OverlapOK(state'[k], overlap'[k])
         /\ overlap' \in [Keys -> SUBSET {"traffic", "relay"}]
<1> USE DEF EngineOK
<1> DEFINE event == Head(events)
           key == KeyOf[event.registration]
<1>1. /\ events \in Seq(Event) /\ events # <<>> /\ phase = "running"
      /\ loop.pc \in {"select", "drain", "redrain"}
      /\ UNCHANGED <<callerVars, cancelled, loop, ready, backoff, claimed, abandoned>>
      /\ events' = Tail(events)
  BY DEF HandleEvent, CallerTypeOK
<1>2. /\ 1 \in 1 .. Len(events) /\ event = events[1]
      /\ Len(events) \in Nat \ {0}
      /\ Tail(events) \in Seq(Event)
      /\ Len(Tail(events)) = Len(events) - 1
      /\ \A i \in 1 .. Len(Tail(events)) :
             i + 1 \in 1 .. Len(events) /\ i + 1 # 1 /\ Tail(events)[i] = events[i + 1]
  BY <1>1
<1>3. /\ event \in Event /\ event.registration \in Registrations /\ key \in Keys
      /\ event.kind = "sample" => event.snapshot \in Snapshots(key)
      /\ event.kind = "withdraw" =>
             registered[key] = event.registration /\ call[event.registration] = "waiting"
  BY <1>2, EventAt DEF EventsOK
<1>4. Current(event) => registered[key] = event.registration
  BY <1>3 DEF Current
<1>5. state' = IF Current(event) THEN [state EXCEPT ![key] = AfterEvent(event, @)] ELSE state
  BY DEF HandleEvent
<1>6. /\ SourceOK(key, AfterEvent(event, state[key]))
      /\ AfterEvent(event, state[key]).registration =
             IF state[key].registration # NoRegistration THEN state[key].registration
             ELSE event.registration
      /\ AfterEvent(event, state[key]).withdrawing <=> state[key].withdrawing \/ event.kind = "withdraw"
      /\ RefsOf(state[key]) \subseteq RefsOf(AfterEvent(event, state[key]))
      /\ \A c \in overlap[key] \cup Interrupted(event.kind) :
             \/ AfterEvent(event, state[key]).withdrawing
             \/ BaselineOf(AfterEvent(event, state[key]), c) \in {"none", "latest"}
  <2>1. SourceOK(key, state[key]) /\ overlap[key] \in SUBSET {"traffic", "relay"} /\ OverlapOK(state[key], overlap[key])
    BY <1>3 DEF SourcesOK
  <2> HIDE DEF event, key
  <2>2. event \in Event /\ key \in Keys /\ KeyOf[event.registration] = key
    BY <1>3 DEF key
  <2> QED
    BY <1>3, <2>1, <2>2, AfterEventOK
<1>7. \A k \in Keys : k # key => state'[k] = state[k]
  BY <1>5
<1>8. state'[key] = IF Current(event) THEN AfterEvent(event, state[key]) ELSE state[key]
  BY <1>3, <1>5
<1>9. state' \in [Keys -> SourceState] /\ SourcesOK'
  <2>1. \A k \in Keys : SourceOK(k, state'[k])
    BY <1>6, <1>7, <1>8 DEF SourcesOK
  <2> QED
    BY <1>5, <2>1 DEF SourcesOK, SourceOK
<1>10. \A k \in Keys : RefsOf(state[k]) \subseteq RefsOf(state'[k])
  BY <1>6, <1>7, <1>8
<1>11. /\ overlap' \in [Keys -> SUBSET {"traffic", "relay"}]
       /\ \A k \in Keys : OverlapOK(state'[k], overlap'[k])
  <2>1. overlap' = [overlap EXCEPT ![key] =
                        StillOverlapping(key, IF Current(event) THEN Interrupted(event.kind) ELSE {})]
    BY DEF HandleEvent
  <2>2. \A k \in Keys : k # key => overlap'[k] = overlap[k]
    BY <2>1
  <2>3. overlap'[key] = {c \in overlap[key] \cup (IF Current(event) THEN Interrupted(event.kind) ELSE {}) :
                             BaselineOf(state'[key], c) # "latest"}
    BY <1>3, <2>1 DEF StillOverlapping
  <2>4. Interrupted(event.kind) \subseteq {"traffic", "relay"}
    BY DEF Interrupted
  <2>5. overlap' \in [Keys -> SUBSET {"traffic", "relay"}]
    <3>1. overlap'[key] \in SUBSET {"traffic", "relay"}
      BY <1>3, <2>3, <2>4
    <3> QED
      BY <2>1, <3>1
  <2>6. OverlapOK(state'[key], overlap'[key])
    <3>1. CASE Current(event)
      BY <1>6, <1>8, <2>3, <3>1 DEF OverlapOK
    <3>2. CASE ~Current(event)
      BY <1>3, <1>8, <2>3, <3>2 DEF OverlapOK
    <3> QED
      BY <3>1, <3>2
  <2> QED
    BY <1>7, <2>2, <2>5, <2>6
<1>12. CallersOK'
  <2>1. ASSUME NEW k \in Keys, Present(k)'
        PROVE  state'[k].registration = registered'[k]
    <3>1. registered' = registered /\ (Present(k) => state[k].registration = registered[k])
          /\ state'[k].registration # NoRegistration
      BY <1>1, <2>1 DEF CallersOK, Present, callerVars
    <3>2. CASE k = key /\ Current(event)
      <4>1. state'[key].registration =
                IF state[key].registration # NoRegistration THEN state[key].registration
                ELSE event.registration
        BY <1>6, <1>8, <3>2
      <4> QED
        BY <1>4, <3>1, <3>2, <4>1 DEF Present
    <3>3. CASE ~(k = key /\ Current(event))
      <4>1. state'[k] = state[k]
        BY <1>7, <1>8, <3>3
      <4> QED
        BY <3>1, <4>1 DEF Present
    <3> QED
      BY <3>2, <3>3
  <2>2. ASSUME NEW k \in Keys, state'[k].withdrawing
        PROVE  call'[registered'[k]] = "waiting"
    <3>1. /\ registered' = registered /\ call' = call
          /\ state[k].withdrawing => call[registered[k]] = "waiting"
      BY <1>1 DEF CallersOK, callerVars
    <3>2. CASE k = key /\ Current(event)
      <4>1. state[key].withdrawing \/ event.kind = "withdraw"
        BY <1>6, <1>8, <2>2, <3>2
      <4> QED
        BY <1>3, <3>1, <3>2, <4>1
    <3>3. CASE ~(k = key /\ Current(event))
      <4>1. state'[k] = state[k]
        BY <1>7, <1>8, <3>3
      <4> QED
        BY <2>2, <3>1, <4>1
    <3> QED
      BY <3>2, <3>3
  <2> QED
    BY <1>1, <2>1, <2>2 DEF CallersOK, callerVars
<1>13. EventsOK'
  <2>1. \A i \in 1 .. Len(events') :
            events'[i].kind = "sample" => events'[i].snapshot \in Snapshots(KeyOf[events'[i].registration])
    BY <1>1, <1>2 DEF EventsOK
  <2>2. ASSUME NEW i \in 1 .. Len(events'), events'[i].kind = "withdraw"
        PROVE  /\ registered'[KeyOf[events'[i].registration]] = events'[i].registration
               /\ call'[events'[i].registration] = "waiting"
               /\ ~state'[KeyOf[events'[i].registration]].withdrawing
    <3>1. i + 1 \in 1 .. Len(events) /\ i + 1 # 1 /\ events'[i] = events[i + 1]
      BY <1>1, <1>2
    <3>2. PICK r \in Registrations : r = events[i + 1].registration /\ KeyOf[r] \in Keys
      BY <3>1, EventAt
    <3>3. registered[KeyOf[r]] = r /\ call[r] = "waiting" /\ ~state[KeyOf[r]].withdrawing
      BY <2>2, <3>1, <3>2 DEF EventsOK
    <3>4. ~state'[KeyOf[r]].withdrawing
      <4>1. CASE KeyOf[r] # key
        BY <1>7, <3>2, <3>3, <4>1
      <4>2. CASE KeyOf[r] = key /\ ~Current(event)
        BY <1>8, <3>3, <4>2
      <4>3. CASE KeyOf[r] = key /\ Current(event)
        <5>1. event.registration = r
          BY <1>4, <3>3, <4>3
        <5>2. event.kind # "withdraw"
          BY <1>2, <2>2, <3>1, <3>2, <5>1 DEF EventsOK
        <5> QED
          BY <1>6, <1>8, <3>3, <4>3, <5>2
      <4> QED
        BY <4>1, <4>2, <4>3
    <3> QED
      BY <1>1, <3>1, <3>2, <3>3, <3>4 DEF callerVars
  <2>3. \A i, j \in 1 .. Len(events') :
            i # j /\ events'[i].kind = "withdraw" /\ events'[j].kind = "withdraw" =>
                events'[i].registration # events'[j].registration
    <3>1. \A i, j \in 1 .. Len(events') : i # j => i + 1 # j + 1
      BY <1>1, <1>2
    <3> QED
      BY <1>1, <1>2, <3>1 DEF EventsOK
  <2> QED
    BY <2>1, <2>2, <2>3 DEF EventsOK
<1>14. ReportsOK'
  BY <1>1 DEF ReportsOK
<1>15. CallerTypeOK' /\ NotStarted' /\ loop' \in LoopState
  <2>1. sampler' \in [Samplers -> {"off", "on", "cancelled", "ended"}]
    BY DEF HandleEvent, CallerTypeOK
  <2>2. Len(events') <= QueueLimit /\ events' \in Seq(Event)
    BY <1>1, <1>2, SinkAssumption DEF CallerTypeOK
  <2> QED
    BY <1>1, <2>1, <2>2 DEF CallerTypeOK, NotStarted, callerVars
<1> QED
  BY <1>9, <1>10, <1>11, <1>12, <1>13, <1>14, <1>15

-----------------------------------------------------------------------------
(* Steps of the loop, seen from the server. *)

\* A step in which a report had the effect st, and after which the loop settled.
LEMMA ServerStep ==
  ASSUME ServerOK,
         NEW st, \A k \in Keys : SourceOK(k, st[k]) /\ SameOwner(state[k], st[k]) /\ BaselineMoves(state[k], st[k]),
         \A k \in Keys : GoesOn(st[k], state'[k]) \/ Ends(st[k], state'[k]),
         \A k \in Keys : claimed'[k] \ abandoned'[k] \subseteq RefsOf(st[k]),
         \A k \in Keys : \A i, j \in claimed'[k] \ abandoned'[k] : i = j,
         overlap \in [Keys -> SUBSET {"traffic", "relay"}],
         NEW told, told \in [Keys -> SUBSET {"traffic", "relay"}],
         overlap' = [k \in Keys |-> StillOverlapping(k, told[k])],
         \A k \in Keys : \A c \in told[k] : BaselineOf(state'[k], c) \in {"latest", "none"}
  PROVE  ServerOK' /\ overlap' \in [Keys -> SUBSET {"traffic", "relay"}]
<1>1. ASSUME NEW k \in Keys
      PROVE  claimed'[k] \ abandoned'[k] \subseteq RefsOf(state'[k])
  <2>1. CASE Ends(st[k], state'[k])
    <3>1. RefsOf(st[k]) = {}
      BY <2>1 DEF Ends, SourceOK, RefsOf, NoSnapshot
    <3> QED
      BY <3>1
  <2>2. CASE GoesOn(st[k], state'[k])
    BY <2>2 DEF GoesOn
  <2> QED
    BY <2>1, <2>2
<1>2. \A k \in Keys : overlap'[k] = {c \in overlap[k] \cup told[k] : BaselineOf(state'[k], c) # "latest"}
  BY DEF StillOverlapping
<1>3. ASSUME NEW k \in Keys, NEW c \in overlap'[k]
      PROVE  state'[k].withdrawing \/ BaselineOf(state'[k], c) = "none"
  <2>1. c \in {"traffic", "relay"} /\ c \in overlap[k] \cup told[k] /\ BaselineOf(state'[k], c) # "latest"
    BY <1>2
  <2>2. CASE c \in told[k]
    BY <2>1, <2>2
  <2>3. CASE c \in overlap[k]
    <3>1. state[k].withdrawing \/ BaselineOf(state[k], c) = "none"
      BY <2>3 DEF ServerOK, OverlapOK
    <3>2. CASE Ends(st[k], state'[k])
      BY <3>2 DEF Ends, NoState, NoRelay, BaselineOf
    <3>3. CASE GoesOn(st[k], state'[k])
      BY <2>1, <3>1, <3>3 DEF GoesOn, SameOwner, BaselineMoves
    <3> QED
      BY <3>2, <3>3
  <2> QED
    BY <2>1, <2>2, <2>3
<1>4. overlap' \in [Keys -> SUBSET {"traffic", "relay"}]
  <2>1. \A k \in Keys : StillOverlapping(k, told[k]) \in SUBSET {"traffic", "relay"}
    BY DEF StillOverlapping
  <2> QED
    BY <2>1
<1> QED
  BY <1>1, <1>3, <1>4 DEF ServerOK, OverlapOK

\* What the server holds after a report reached it.
LEMMA DeliveredOK ==
  ASSUME Inv, Kind \in Kinds,
         NEW batch \in SUBSET Keys, batch \subseteq Eligible(Kind, state), Delivered(batch),
         NEW st,
         \A k \in Keys \ batch : st[k] = state[k],
         \A k \in batch :
             /\ Kind = "hello" => RefsOf(state[k]) \cup {state[k].latest.identity} \subseteq RefsOf(st[k])
             /\ Kind = "withdrawal" => RefsOf(state[k]) \ {Withdrawn(state[k])} \subseteq RefsOf(st[k])
             /\ Kind \notin {"hello", "withdrawal"} => RefsOf(state[k]) \subseteq RefsOf(st[k])
  PROVE  /\ claimed' \in [Keys -> SUBSET Identities] /\ UNCHANGED abandoned
         /\ \A k \in Keys : claimed'[k] \ abandoned'[k] \subseteq RefsOf(st[k])
         /\ \A k \in Keys : \A i, j \in claimed'[k] \ abandoned'[k] : i = j
<1>1. /\ UNCHANGED abandoned
      /\ claimed' = [k \in Keys |->
                        IF k \notin batch THEN claimed[k]
                        ELSE IF Kind = "hello" THEN claimed[k] \cup {state[k].latest.identity}
                        ELSE IF Kind = "withdrawal" THEN claimed[k] \ {Withdrawn(state[k])}
                        ELSE claimed[k]]
  BY DEF Delivered
<1>2. \A k \in Keys : claimed[k] \ abandoned[k] \subseteq RefsOf(state[k])
  BY DEF Inv, ServerOK
<1>3. ASSUME NEW k \in batch, Kind = "hello"
      PROVE  state[k].latest.identity \in Identities /\ RefsOf(state[k]) \subseteq {state[k].latest.identity}
  <2>1. state[k].withdrawals = {} /\ state[k].latest \in Snapshots(k) /\ SourceOK(k, state[k])
    BY <1>3, EligibleOK DEF Inv, EngineOK, SourcesOK, Kinds
  <2> QED
    BY <2>1, SnapshotIdentity DEF RefsOf, SourceOK
<1>4. claimed' \in [Keys -> SUBSET Identities]
  <2>1. \A k \in Keys : claimed[k] \in SUBSET Identities
    BY DEF Inv, HistoryTypeOK
  <2> QED
    BY <1>1, <1>3, <2>1
<1>5. ASSUME NEW k \in Keys
      PROVE  /\ claimed'[k] \ abandoned'[k] \subseteq RefsOf(st[k])
             /\ \A i, j \in claimed'[k] \ abandoned'[k] : i = j
  <2>1. \A i, j \in claimed[k] \ abandoned[k] : i = j
    BY DEF Inv, ServerOK
  <2>2. CASE k \notin batch
    BY <1>1, <1>2, <2>1, <2>2
  <2>3. CASE k \in batch /\ Kind = "hello"
    <3>1. claimed'[k] \ abandoned'[k] \subseteq (claimed[k] \ abandoned[k]) \cup {state[k].latest.identity}
      BY <1>1, <2>3
    <3> QED
      BY <1>2, <1>3, <2>3, <3>1
  <2>4. CASE k \in batch /\ Kind = "withdrawal"
    <3>1. claimed'[k] \ abandoned'[k] = (claimed[k] \ abandoned[k]) \ {Withdrawn(state[k])}
      BY <1>1, <2>4
    <3> QED
      BY <1>2, <2>1, <2>4, <3>1
  <2>5. CASE k \in batch /\ Kind \notin {"hello", "withdrawal"}
    BY <1>1, <1>2, <2>1, <2>5
  <2> QED
    BY <2>2, <2>3, <2>4, <2>5
<1> QED
  BY <1>1, <1>4, <1>5

LEMMA ToldOK == Told \subseteq {"traffic", "relay"} /\ (Told # {} => Kind # "withdrawal")
  BY DEF Told

\* What an accepted report makes of the states, and what the server holds then.
LEMMA AcceptedStates ==
  ASSUME Inv, Sending, NEW batch \in Batches, Delivered(batch),
         NEW st, st = [k \in Keys |-> IF k \in batch THEN Applied(state[k]) ELSE state[k]]
  PROVE  /\ st \in [Keys -> SourceState] /\ \A k \in Keys \ batch : st[k] = state[k]
         /\ \A k \in Keys : SourceOK(k, st[k]) /\ SameOwner(state[k], st[k]) /\ BaselineMoves(state[k], st[k])
         /\ \A k \in batch : \A c \in Told : BaselineOf(st[k], c) = "latest"
         /\ claimed' \in [Keys -> SUBSET Identities] /\ UNCHANGED abandoned
         /\ \A k \in Keys : claimed'[k] \ abandoned'[k] \subseteq RefsOf(st[k])
         /\ \A k \in Keys : \A i, j \in claimed'[k] \ abandoned'[k] : i = j
<1> USE DEF Inv
<1>1. batch \in SUBSET Keys /\ batch \subseteq Eligible(Kind, state) /\ Kind \in Kinds
  BY BatchOK DEF EngineOK, Sending
<1>2. ASSUME NEW k \in Keys
      PROVE  SourceOK(k, st[k]) /\ SameOwner(state[k], st[k]) /\ BaselineMoves(state[k], st[k])
  <2>1. SourceOK(k, state[k])
    BY DEF EngineOK, SourcesOK
  <2> QED
    BY <1>1, <2>1, AppliedOK DEF SameOwner, BaselineMoves
<1>3. \A k \in batch :
          /\ \A c \in Told : BaselineOf(st[k], c) = "latest"
          /\ Kind = "hello" => RefsOf(state[k]) \cup {state[k].latest.identity} \subseteq RefsOf(st[k])
          /\ Kind = "withdrawal" => RefsOf(state[k]) \ {Withdrawn(state[k])} \subseteq RefsOf(st[k])
          /\ Kind \notin {"hello", "withdrawal"} => RefsOf(state[k]) \subseteq RefsOf(st[k])
  BY <1>1, AppliedOK DEF EngineOK, SourcesOK
<1>4. st \in [Keys -> SourceState] /\ \A k \in Keys \ batch : st[k] = state[k]
  BY <1>2 DEF SourceOK
<1>5. /\ claimed' \in [Keys -> SUBSET Identities] /\ UNCHANGED abandoned
      /\ \A k \in Keys : claimed'[k] \ abandoned'[k] \subseteq RefsOf(st[k])
      /\ \A k \in Keys : \A i, j \in claimed'[k] \ abandoned'[k] : i = j
  BY <1>1, <1>3, <1>4, DeliveredOK
<1> QED
  BY <1>2, <1>3, <1>4, <1>5

LEMMA AcceptedOK ==
  ASSUME Inv, Sending, OthersRest, NEW batch \in Batches, NEW resync \in BOOLEAN,
         Accepted(batch, resync)
  PROVE  Inv'
<1> USE DEF Inv
<1> DEFINE told == [k \in Keys |-> IF k \in batch THEN Told ELSE {}]
<1>1. PICK st : st = [k \in Keys |-> IF k \in batch THEN Applied(state[k]) ELSE state[k]]
  OBVIOUS
<1>2. PICK resyncs \in BOOLEAN : resyncs = (resync /\ Kind # "hello")
  OBVIOUS
<1>3. Proceed(st, batch, resyncs) /\ Delivered(batch)
  BY <1>1, <1>2 DEF Accepted
<1>4. /\ st \in [Keys -> SourceState] /\ \A k \in Keys \ batch : st[k] = state[k]
      /\ \A k \in Keys : SourceOK(k, st[k]) /\ SameOwner(state[k], st[k]) /\ BaselineMoves(state[k], st[k])
      /\ \A k \in batch : \A c \in Told : BaselineOf(st[k], c) = "latest"
      /\ claimed' \in [Keys -> SUBSET Identities] /\ UNCHANGED abandoned
      /\ \A k \in Keys : claimed'[k] \ abandoned'[k] \subseteq RefsOf(st[k])
      /\ \A k \in Keys : \A i, j \in claimed'[k] \ abandoned'[k] : i = j
  BY <1>1, <1>3, AcceptedStates
<1>5. EngineOK' /\ \A k \in Keys : GoesOn(st[k], state'[k]) \/ Ends(st[k], state'[k])
  BY <1>3, <1>4, ProceedOK DEF Sending, OthersRest
<1>6. /\ told \in [Keys -> SUBSET {"traffic", "relay"}]
      /\ overlap' = [k \in Keys |-> StillOverlapping(k, told[k])]
  BY ToldOK DEF Accepted, Delivered
<1>7. \A k \in Keys : \A c \in told[k] : BaselineOf(state'[k], c) \in {"latest", "none"}
  <2>1. ASSUME NEW k \in Keys, k \in batch, NEW c \in Told
        PROVE  BaselineOf(state'[k], c) \in {"latest", "none"}
    <3>1. BaselineOf(st[k], c) = "latest" /\ c \in {"traffic", "relay"}
      BY <1>4, <2>1, ToldOK
    <3>2. CASE GoesOn(st[k], state'[k])
      BY <3>1, <3>2 DEF GoesOn, BaselineMoves
    <3>3. CASE Ends(st[k], state'[k])
      BY <3>3 DEF Ends, NoState, NoRelay, BaselineOf
    <3> QED
      BY <1>5, <3>2, <3>3
  <2> QED
    BY <2>1
<1> HIDE DEF told
<1>8. ServerOK' /\ overlap' \in [Keys -> SUBSET {"traffic", "relay"}]
  BY <1>4, <1>5, <1>6, <1>7, ServerStep DEF HistoryTypeOK
<1> QED
  BY <1>4, <1>5, <1>8 DEF HistoryTypeOK, Accepted

\* What giving a report up makes of the states, and what the server holds then.
LEMMA GivenUpStates ==
  ASSUME Inv, Sending, NEW k0, {k0} \in Batches, GiveUp(k0), NEW st, st = [state EXCEPT ![k0] = Rejected(@)]
  PROVE  /\ k0 \in Keys
         /\ st \in [Keys -> SourceState] /\ \A k \in Keys \ {k0} : st[k] = state[k]
         /\ \A k \in Keys : SourceOK(k, st[k]) /\ SameOwner(state[k], st[k]) /\ BaselineMoves(state[k], st[k])
         /\ Kind = "withdrawal" /\ state[k0].withdrawing => st[k0].refused
         /\ UNCHANGED claimed /\ abandoned' \in [Keys -> SUBSET Identities]
         /\ \A k \in Keys : k # k0 \/ Kind # "withdrawal" => abandoned'[k] = abandoned[k]
         /\ \A k \in Keys : claimed'[k] \ abandoned'[k] \subseteq RefsOf(st[k])
         /\ \A k \in Keys : \A i, j \in claimed'[k] \ abandoned'[k] : i = j
<1> USE DEF Inv
<1>1. k0 \in Keys /\ k0 \in Eligible(Kind, state) /\ SourceOK(k0, state[k0]) /\ Kind \in Kinds
  <2>1. {k0} \in SUBSET Keys /\ {k0} \subseteq Eligible(Kind, state) /\ Kind \in Kinds
    BY BatchOK DEF EngineOK, Sending
  <2> QED
    BY <2>1 DEF EngineOK, SourcesOK
<1>2. st[k0] = Rejected(state[k0]) /\ \A k \in Keys \ {k0} : st[k] = state[k]
  BY <1>1 DEF EngineOK
<1>3. /\ SourceOK(k0, st[k0]) /\ SameOwner(state[k0], st[k0]) /\ BaselineMoves(state[k0], st[k0])
      /\ Kind = "withdrawal" => RefsOf(state[k0]) \ {Withdrawn(state[k0])} \subseteq RefsOf(st[k0])
      /\ Kind # "withdrawal" => RefsOf(state[k0]) = RefsOf(st[k0])
      /\ Kind = "withdrawal" /\ state[k0].withdrawing => st[k0].refused
  BY <1>1, <1>2, RejectedOK
<1>4. ASSUME NEW k \in Keys
      PROVE  SourceOK(k, st[k]) /\ SameOwner(state[k], st[k]) /\ BaselineMoves(state[k], st[k])
  <2>1. CASE k = k0
    BY <1>3, <2>1
  <2>2. CASE k # k0
    BY <1>2, <2>2 DEF EngineOK, SourcesOK, SameOwner, BaselineMoves
  <2> QED
    BY <2>1, <2>2
<1>5. st \in [Keys -> SourceState]
  BY <1>4 DEF EngineOK, SourceOK
<1>6. /\ UNCHANGED claimed
      /\ abandoned' = IF Kind = "withdrawal"
                      THEN [abandoned EXCEPT ![k0] = @ \cup {Withdrawn(state[k0])}] ELSE abandoned
  BY DEF GiveUp, NotDelivered
<1>7. Kind = "withdrawal" => Withdrawn(state[k0]) \in Identities
  <2>1. Kind = "withdrawal" => state[k0].withdrawals # {}
    BY <1>1, EligibleOK
  <2>2. state[k0].withdrawals \subseteq Identities
    BY <1>1 DEF SourceOK, SourceState
  <2> QED
    BY <2>1, <2>2, WithdrawnOK
<1>8. /\ abandoned' \in [Keys -> SUBSET Identities]
      /\ \A k \in Keys : k # k0 \/ Kind # "withdrawal" => abandoned'[k] = abandoned[k]
  BY <1>1, <1>6, <1>7 DEF HistoryTypeOK
<1>9. ASSUME NEW k \in Keys
      PROVE  /\ claimed'[k] \ abandoned'[k] \subseteq RefsOf(st[k])
             /\ \A i, j \in claimed'[k] \ abandoned'[k] : i = j
  <2>1. /\ claimed[k] \ abandoned[k] \subseteq RefsOf(state[k])
        /\ \A i, j \in claimed[k] \ abandoned[k] : i = j
    BY DEF ServerOK
  <2>2. abandoned[k] \subseteq abandoned'[k]
    BY <1>6 DEF HistoryTypeOK
  <2>3. \/ RefsOf(state[k]) = RefsOf(st[k])
        \/ /\ RefsOf(state[k]) \ {Withdrawn(state[k])} \subseteq RefsOf(st[k])
           /\ Withdrawn(state[k]) \in abandoned'[k]
    <3>1. CASE k # k0
      BY <1>2, <3>1
    <3>2. CASE k = k0
      BY <1>3, <1>6, <3>2 DEF HistoryTypeOK
    <3> QED
      BY <3>1, <3>2
  <2> QED
    BY <1>6, <2>1, <2>2, <2>3
<1> QED
  BY <1>1, <1>2, <1>3, <1>4, <1>5, <1>6, <1>8, <1>9

LEMMA GiveUpOK ==
  ASSUME Inv, Sending, OthersRest, NEW k0, {k0} \in Batches, GiveUp(k0), UNCHANGED <<ready, backoff>>
  PROVE  Inv'
<1> USE DEF Inv
<1> DEFINE told == [k \in Keys |-> {}]
<1>1. PICK st : st = [state EXCEPT ![k0] = Rejected(@)]
  OBVIOUS
<1>2. PICK never \in BOOLEAN : never = FALSE
  OBVIOUS
<1>3. Proceed(st, {k0}, never) /\ overlap' = [k \in Keys |-> StillOverlapping(k, told[k])]
  BY <1>1, <1>2 DEF GiveUp, NotDelivered
<1>4. /\ st \in [Keys -> SourceState] /\ \A k \in Keys \ {k0} : st[k] = state[k]
      /\ \A k \in Keys : SourceOK(k, st[k]) /\ SameOwner(state[k], st[k]) /\ BaselineMoves(state[k], st[k])
      /\ UNCHANGED claimed /\ abandoned' \in [Keys -> SUBSET Identities]
      /\ \A k \in Keys : claimed'[k] \ abandoned'[k] \subseteq RefsOf(st[k])
      /\ \A k \in Keys : \A i, j \in claimed'[k] \ abandoned'[k] : i = j
  BY <1>1, GivenUpStates
<1>5. EngineOK' /\ \A k \in Keys : GoesOn(st[k], state'[k]) \/ Ends(st[k], state'[k])
  BY <1>3, <1>4, ProceedOK DEF Sending, OthersRest
<1>6. told \in [Keys -> SUBSET {"traffic", "relay"}] /\ \A k \in Keys : told[k] = {}
  OBVIOUS
<1> HIDE DEF told
<1>7. ServerOK' /\ overlap' \in [Keys -> SUBSET {"traffic", "relay"}]
  BY <1>3, <1>4, <1>5, <1>6, ServerStep DEF HistoryTypeOK
<1> QED
  BY <1>4, <1>5, <1>7 DEF HistoryTypeOK

LEMMA RefusedOK ==
  ASSUME Inv, Sending, OthersRest, NEW batch \in Batches, Refused(batch)
  PROVE  Inv'
<1> USE DEF Inv
<1>1. /\ batch \in SUBSET Keys /\ batch \subseteq Eligible(Kind, state) /\ Kind \in Kinds
      /\ RestOfGroup \in Seq(SUBSET Keys)
      /\ Waiting(RestOfGroup, loop.pending \ batch)
      /\ Apart(batch, RestOfGroup)
  BY BatchOK DEF EngineOK, Sending
<1>2. UNCHANGED <<ready, backoff>>
  BY DEF Refused
<1>3. ASSUME Split(batch)
      PROVE  Inv'
  <2>1. PICK left \in SUBSET batch :
            loop' = [loop EXCEPT !.pending = @ \ batch,
                                 !.group = <<left, batch \ left>> \o RestOfGroup]
    BY <1>3 DEF Split, Halves
  <2>2. UNCHANGED <<callerVars, state, claimed, abandoned, overlap>>
    BY <1>3 DEF Split
  <2> DEFINE group == <<left, batch \ left>> \o RestOfGroup
             pending == loop.pending \ batch
  <2>3. /\ group \in Seq(SUBSET Keys)
        /\ Len(group) = Len(RestOfGroup) + 2
        /\ group[1] = left /\ group[2] = batch \ left
        /\ \A i \in 3 .. Len(group) : i - 2 \in 1 .. Len(RestOfGroup) /\ group[i] = RestOfGroup[i - 2]
    <3>1. left \in SUBSET Keys /\ batch \ left \in SUBSET Keys
      BY <1>1
    <3>2. <<left, batch \ left>> \in Seq(SUBSET Keys) /\ Len(<<left, batch \ left>>) = 2
      BY <3>1
    <3> QED
      BY <1>1, <3>2
  <2> HIDE DEF group
  <2>4. loop' = [loop EXCEPT !.pending = pending, !.group = group]
    BY <2>1 DEF group, EngineOK, LoopState
  <2>5. /\ loop' \in LoopState /\ loop'.pc = "send" /\ loop'.kind = loop.kind
        /\ loop'.pending = pending /\ loop'.group = group
    BY <2>3, <2>4 DEF EngineOK, LoopState, Sending
  <2>6. Kind' = Kind /\ Eligible(Kind, state)' = Eligible(Kind, state)
    <3>1. Kind' = Kind
      BY <2>5 DEF Kind
    <3> QED
      BY <2>2, <3>1 DEF Eligible
  <2>7. Waiting(group, pending)
    <3>1. \A i \in 1 .. Len(group) : i = 1 \/ i = 2 \/ i \in 3 .. Len(group)
      BY <1>1, <2>3
    <3>2. /\ pending \subseteq Eligible(Kind, state)
          /\ \A i \in 1 .. Len(RestOfGroup) :
                 /\ RestOfGroup[i] \subseteq Eligible(Kind, state)
                 /\ RestOfGroup[i] \cap pending = {}
                 /\ RestOfGroup[i] \cap batch = {}
          /\ \A i, j \in 1 .. Len(RestOfGroup) : i # j => RestOfGroup[i] \cap RestOfGroup[j] = {}
      BY <1>1 DEF Waiting, Apart
    <3>3. \A i \in 1 .. Len(group) : group[i] \subseteq Eligible(Kind, state) /\ group[i] \cap pending = {}
      BY <1>1, <2>3, <3>1, <3>2
    <3>4. ASSUME NEW i \in 1 .. Len(group), NEW j \in 1 .. Len(group), i # j
          PROVE  group[i] \cap group[j] = {}
      <4>1. CASE i \in 3 .. Len(group) /\ j \in 3 .. Len(group)
        <5>1. i - 2 # j - 2
          BY <3>4
        <5> QED
          BY <2>3, <3>2, <4>1, <5>1
      <4>2. CASE i \in {1, 2} /\ j \in {1, 2}
        BY <2>3, <3>4, <4>2
      <4>3. CASE i \in {1, 2} /\ j \in 3 .. Len(group)
        <5>1. group[i] \subseteq batch /\ group[j] \cap batch = {}
          BY <2>3, <3>2, <4>3
        <5> QED
          BY <5>1
      <4>4. CASE i \in 3 .. Len(group) /\ j \in {1, 2}
        <5>1. group[j] \subseteq batch /\ group[i] \cap batch = {}
          BY <2>3, <3>2, <4>4
        <5> QED
          BY <5>1
      <4> QED
        BY <3>1, <4>1, <4>2, <4>3, <4>4
    <3> HIDE DEF pending
    <3> QED
      BY <3>2, <3>3, <3>4 DEF Waiting
  <2>8. ReportsOK'
    BY <2>5, <2>6, <2>7 DEF ReportsOK, Waiting, EngineOK, Sending
  <2>9. EngineOK'
    <3>1. \A k \in Keys : registered'[k] = registered[k] /\ SameOwner(state[k], state'[k])
      BY <2>2 DEF callerVars, SameOwner
    <3>2. CallersOK' /\ EventsOK'
      BY <2>2, <3>1, OwnersRest DEF EngineOK, OthersRest, callerVars
    <3>3. CallerTypeOK' /\ NotStarted' /\ SourcesOK'
      BY <2>2 DEF EngineOK, OthersRest, callerVars, CallerTypeOK, NotStarted, SourcesOK, Sending
    <3> QED
      BY <2>2, <2>5, <2>8, <3>2, <3>3 DEF EngineOK
  <2> QED
    BY <1>2, <2>2, <2>9 DEF ServerOK, HistoryTypeOK, OverlapOK
<1>4. ASSUME NEW k0 \in batch, batch = {k0}, GiveUp(k0)
      PROVE  Inv'
  BY <1>2, <1>4, GiveUpOK
<1> QED
  BY <1>3, <1>4 DEF Refused

\* An error leaves every reference where it is, and tells the server nothing new.
LEMMA TransportServerOK ==
  ASSUME Inv, phase # "new",
         NEW st, \A k \in Keys : SourceOK(k, st[k]) /\ SameOwner(state[k], st[k]) /\ BaselineMoves(state[k], st[k]),
         \A k \in Keys : RefsOf(state[k]) \subseteq RefsOf(st[k]),
         TransportFails(st), NotDelivered, UNCHANGED abandoned,
         UNCHANGED <<callerVars, cancelled, sampler, events>>
  PROVE  Inv'
<1> USE DEF Inv
<1>1. EngineOK' /\ \A k \in Keys : GoesOn(st[k], state'[k])
  BY TransportOK
<1> DEFINE told == [k \in Keys |-> {}]
<1>2. UNCHANGED claimed /\ overlap' = [k \in Keys |-> StillOverlapping(k, told[k])]
  BY DEF NotDelivered
<1>3. \A k \in Keys : claimed'[k] \ abandoned'[k] \subseteq RefsOf(st[k])
  BY <1>2 DEF ServerOK
<1>4. \A k \in Keys : \A i, j \in claimed'[k] \ abandoned'[k] : i = j
  BY <1>2 DEF ServerOK
<1>5. told \in [Keys -> SUBSET {"traffic", "relay"}] /\ \A k \in Keys : told[k] = {}
  OBVIOUS
<1> HIDE DEF told
<1>6. ServerOK' /\ overlap' \in [Keys -> SUBSET {"traffic", "relay"}]
  BY <1>1, <1>2, <1>3, <1>4, <1>5, ServerStep DEF HistoryTypeOK
<1> QED
  BY <1>1, <1>2, <1>6 DEF HistoryTypeOK, TransportFails

LEMMA Unchanging ==
  ASSUME EngineOK
  PROVE  \A k \in Keys : /\ SourceOK(k, state[k]) /\ SameOwner(state[k], state[k])
                         /\ BaselineMoves(state[k], state[k]) /\ GoesOn(state[k], state[k])
  BY DEF EngineOK, SourcesOK, SameOwner, BaselineMoves, GoesOn

LEMMA PreflightFailsOK ==
  ASSUME Inv, PreflightFails
  PROVE  Inv'
<1>1. phase # "new"
  BY DEF PreflightFails, Inv, EngineOK, NotStarted
<1> QED
  BY <1>1, Unchanging, TransportServerOK DEF PreflightFails, NotDelivered, Inv

LEMMA NotAcceptedOK ==
  ASSUME Inv, Sending, OthersRest, NEW batch \in Batches, NotAccepted(batch)
  PROVE  Inv'
<1>1. phase # "new"
  BY DEF Sending, Inv, EngineOK, NotStarted
<1> QED
  BY <1>1, Unchanging, TransportServerOK DEF NotAccepted, OthersRest, Inv

\* What an error makes of the states of the batch.
LEMMA UncertainStates ==
  ASSUME Inv, Sending, NEW batch \in Batches
  PROVE  /\ batch \in SUBSET Keys /\ batch \subseteq Eligible(Kind, state) /\ Kind \in Kinds
         /\ \A k \in Keys \ batch : Uncertain(batch)[k] = state[k]
         /\ \A k \in Keys : LET t == Uncertain(batch)[k]
                            IN  /\ SourceOK(k, t) /\ SameOwner(state[k], t) /\ BaselineMoves(state[k], t)
                                /\ RefsOf(state[k]) \subseteq RefsOf(t)
                                /\ t.latest = state[k].latest
         /\ \A k \in batch : Kind = "hello" => state[k].latest.identity \in RefsOf(Uncertain(batch)[k])
<1>1. batch \in SUBSET Keys /\ batch \subseteq Eligible(Kind, state) /\ Kind \in Kinds
  BY BatchOK DEF Inv, EngineOK, Sending
<1>2. \A k \in Keys \ batch : Uncertain(batch)[k] = state[k]
  BY DEF Uncertain
<1>3. \A k \in batch : LET t == Uncertain(batch)[k]
                       IN  /\ SourceOK(k, t) /\ SameOwner(state[k], t) /\ BaselineMoves(state[k], t)
                           /\ RefsOf(state[k]) \subseteq RefsOf(t)
                           /\ t.latest = state[k].latest
                           /\ Kind = "hello" => state[k].latest.identity \in RefsOf(t)
  BY <1>1, UncertainOK, Unchanging DEF Inv
<1> QED
  BY <1>1, <1>2, <1>3, Unchanging DEF Inv

LEMMA LostOK ==
  ASSUME Inv, Sending, OthersRest, NEW batch \in Batches, Lost(batch)
  PROVE  Inv'
<1>1. phase # "new"
  BY DEF Sending, Inv, EngineOK, NotStarted
<1> QED
  BY <1>1, UncertainStates, TransportServerOK DEF Lost, OthersRest

LEMMA UnansweredOK ==
  ASSUME Inv, Sending, OthersRest, NEW batch \in Batches, Unanswered(batch)
  PROVE  Inv'
<1> USE DEF Inv
<1> DEFINE told == [k \in Keys |-> IF k \in batch THEN Told ELSE {}]
<1>1. phase # "new"
  BY DEF Sending, EngineOK, NotStarted
<1>2. PICK st : st = Uncertain(batch)
  OBVIOUS
<1>3. /\ batch \in SUBSET Keys /\ batch \subseteq Eligible(Kind, state) /\ Kind \in Kinds
      /\ \A k \in Keys \ batch : st[k] = state[k]
      /\ \A k \in Keys : /\ SourceOK(k, st[k]) /\ SameOwner(state[k], st[k]) /\ BaselineMoves(state[k], st[k])
                         /\ RefsOf(state[k]) \subseteq RefsOf(st[k])
                         /\ st[k].latest = state[k].latest
      /\ \A k \in batch : Kind = "hello" => state[k].latest.identity \in RefsOf(st[k])
  BY <1>2, UncertainStates
<1>4. TransportFails(st) /\ Delivered(batch) /\ UNCHANGED callerVars
  BY <1>2 DEF Unanswered
<1>5. EngineOK' /\ \A k \in Keys : GoesOn(st[k], state'[k])
  BY <1>1, <1>3, <1>4, TransportOK DEF OthersRest
<1>6. /\ claimed' \in [Keys -> SUBSET Identities] /\ UNCHANGED abandoned
      /\ \A k \in Keys : claimed'[k] \ abandoned'[k] \subseteq RefsOf(st[k])
      /\ \A k \in Keys : \A i, j \in claimed'[k] \ abandoned'[k] : i = j
  <2>1. \A k \in batch :
            /\ Kind = "hello" => RefsOf(state[k]) \cup {state[k].latest.identity} \subseteq RefsOf(st[k])
            /\ Kind = "withdrawal" => RefsOf(state[k]) \ {Withdrawn(state[k])} \subseteq RefsOf(st[k])
            /\ Kind \notin {"hello", "withdrawal"} => RefsOf(state[k]) \subseteq RefsOf(st[k])
    BY <1>3
  <2> QED
    BY <1>3, <1>4, <2>1, DeliveredOK
<1>7. /\ told \in [Keys -> SUBSET {"traffic", "relay"}]
      /\ overlap' = [k \in Keys |-> StillOverlapping(k, told[k])]
  BY <1>4, ToldOK DEF Delivered
<1>8. \A k \in Keys : \A c \in told[k] : BaselineOf(state'[k], c) \in {"latest", "none"}
  <2>1. ASSUME NEW k \in batch, NEW c \in Told
        PROVE  BaselineOf(state'[k], c) \in {"latest", "none"}
    <3>1. Kind # "withdrawal" /\ c \in {"traffic", "relay"}
      BY <2>1, ToldOK
    <3>2. k \in Keys /\ SourceOK(k, state[k]) /\ k \in Eligible(Kind, state)
      BY <1>3 DEF EngineOK, SourcesOK
    <3>3. state[k].registration # NoRegistration /\ ~state[k].withdrawing /\ state[k].latest \in Snapshots(k)
      BY <1>3, <3>1, <3>2, EligibleOK
    <3>4. state[k].latest # NoSnapshot
      BY <3>2, <3>3, SnapshotIdentity
    <3>5. st[k].registration # NoRegistration /\ ~st[k].withdrawing /\ st[k].latest # NoSnapshot
      BY <1>3, <3>2, <3>3, <3>4 DEF SameOwner
    <3>6. state'[k] = Disconnected(st)[k]
      BY <1>4 DEF TransportFails
    <3>7. state'[k].baseline = "latest" /\ state'[k].relay.baseline = "none"
      BY <1>3, <3>2, <3>5, <3>6, DisconnectedOK
    <3> QED
      BY <3>1, <3>7 DEF BaselineOf
  <2> QED
    BY <2>1
<1> HIDE DEF told
<1>9. ServerOK' /\ overlap' \in [Keys -> SUBSET {"traffic", "relay"}]
  BY <1>3, <1>5, <1>6, <1>7, <1>8, ServerStep DEF HistoryTypeOK
<1> QED
  BY <1>4, <1>5, <1>6, <1>9 DEF HistoryTypeOK, TransportFails

\* A flush finishes with the withdrawals that have nothing left to report.
LEMMA FlushOK ==
  ASSUME Inv, phase # "new", Finalize(state), UNCHANGED <<cancelled, sampler, events, ready, backoff, historyVars>>,
         loop' \in LoopState, loop'.pc # "send",
         loop'.pc = "collect" => loop'.kind # 0, loop'.group = <<>>
  PROVE  Inv'
<1> USE DEF Inv, EngineOK
<1>1. /\ state' \in [Keys -> SourceState] /\ SourcesOK' /\ UNCHANGED <<phase, call>>
      /\ registered' \in [Keys -> Registrations \cup {NoRegistration}]
      /\ result' \in [Registrations -> {"none", "nil", "stopped", "refused"}]
      /\ \A k \in Keys : state'[k] \in {state[k], NoState}
      /\ \A k \in Keys : GoesOn(state[k], state'[k]) \/ Ends(state[k], state'[k])
      /\ \A k \in Keys : \/ registered'[k] = registered[k] /\ SameOwner(state[k], state'[k])
                         \/ state[k].withdrawing /\ state'[k] = NoState /\ registered'[k] = NoRegistration
  <2>1. UNCHANGED call
    BY DEF Finalize
  <2> QED
    BY <2>1, Unchanging, FinalizeOK
<1>2. CallersOK' /\ EventsOK'
  BY <1>1, OwnersRest
<1>3. CallerTypeOK' /\ NotStarted' /\ ReportsOK'
  BY <1>1 DEF CallerTypeOK, NotStarted, ReportsOK
<1>4. ASSUME NEW k \in Keys
      PROVE  /\ claimed[k] \ abandoned[k] \subseteq RefsOf(state'[k])
             /\ OverlapOK(state'[k], overlap[k])
  <2>1. claimed[k] \ abandoned[k] \subseteq RefsOf(state[k]) /\ OverlapOK(state[k], overlap[k])
    BY DEF ServerOK
  <2>2. CASE Ends(state[k], state'[k])
    <3>1. RefsOf(state[k]) = {}
      BY <2>2, Unchanging DEF Ends, SourceOK, RefsOf, NoSnapshot
    <3>2. OverlapOK(state'[k], overlap[k])
      BY <2>2 DEF Ends, OverlapOK, BaselineOf, NoState, NoRelay
    <3> QED
      BY <2>1, <3>1, <3>2
  <2>3. CASE GoesOn(state[k], state'[k])
    <3>1. OverlapOK(state'[k], overlap[k])
      <4>1. CASE state'[k] = state[k]
        BY <2>1, <4>1
      <4>2. CASE state'[k] = NoState
        BY <4>2 DEF OverlapOK, BaselineOf, NoState, NoRelay
      <4> QED
        BY <1>1, <4>1, <4>2
    <3> QED
      BY <2>1, <2>3, <3>1 DEF GoesOn
  <2> QED
    BY <1>1, <2>2, <2>3
<1>5. ServerOK' /\ HistoryTypeOK'
  BY <1>4 DEF ServerOK, HistoryTypeOK, historyVars
<1> QED
  BY <1>1, <1>2, <1>3, <1>5

LEMMA AtOK ==
  ASSUME NEW pc \in {"select", "drain", "preflight", "redrain", "stopping", "joining", "returned"}
  PROVE  At(pc) \in LoopState /\ At(pc).pc = pc /\ At(pc).group = <<>>
  BY SelectingOK DEF At, LoopState

LEMMA DrainedOK ==
  ASSUME Inv, Drained \/ Redrained
  PROVE  Inv'
<1>1. phase # "new"
  BY DEF Drained, Redrained, Inv, EngineOK, NotStarted
<1>2. /\ loop' \in LoopState /\ loop'.pc # "send"
      /\ loop'.pc = "collect" => loop'.kind # 0
      /\ loop'.group = <<>>
  <2>1. loop' \in {Selecting, Onward(0, state'), At("preflight")}
    BY DEF Drained, Redrained
  <2> QED
    BY <2>1, SelectingOK, AtOK, OnwardOK
<1> QED
  BY <1>1, <1>2, FlushOK DEF Drained, Redrained

LEMMA CollectServerOK ==
  ASSUME Inv, Collect
  PROVE  Inv'
<1> USE DEF Inv
<1> DEFINE told == [k \in Keys |-> {}]
<1>1. EngineOK' /\ \A k \in Keys : GoesOn(state[k], state'[k])
  BY CollectOK
<1>2. /\ UNCHANGED <<claimed, abandoned, ready, backoff>>
      /\ overlap' = [k \in Keys |-> StillOverlapping(k, told[k])]
  BY DEF Collect
<1>3. told \in [Keys -> SUBSET {"traffic", "relay"}] /\ \A k \in Keys : told[k] = {}
  OBVIOUS
<1>4. \A k \in Keys : /\ claimed'[k] \ abandoned'[k] \subseteq RefsOf(state[k])
                      /\ \A i, j \in claimed'[k] \ abandoned'[k] : i = j
  BY <1>2 DEF ServerOK
<1> HIDE DEF told
<1>5. ServerOK' /\ overlap' \in [Keys -> SUBSET {"traffic", "relay"}]
  BY <1>1, <1>2, <1>3, <1>4, Unchanging, ServerStep DEF HistoryTypeOK
<1> QED
  BY <1>1, <1>2, <1>5 DEF HistoryTypeOK

LEMMA HandleEventServerOK ==
  ASSUME Inv, HandleEvent
  PROVE  Inv'
<1> USE DEF Inv
<1>1. /\ EngineOK'
      /\ \A k \in Keys : RefsOf(state[k]) \subseteq RefsOf(state'[k])
      /\ \A k \in Keys : OverlapOK(state'[k], overlap'[k])
      /\ overlap' \in [Keys -> SUBSET {"traffic", "relay"}]
  BY HandleEventOK DEF ServerOK, HistoryTypeOK
<1>2. UNCHANGED <<claimed, abandoned, ready, backoff>>
  BY DEF HandleEvent
<1> QED
  BY <1>1, <1>2 DEF ServerOK, HistoryTypeOK

-----------------------------------------------------------------------------
(* Steps that leave the source states and the server alone. *)

Quiet == UNCHANGED <<state, historyVars>>

LEMMA QuietOK ==
  ASSUME Inv, Quiet, CallerTypeOK', CallersOK', EventsOK', NotStarted', loop' \in LoopState, ReportsOK',
         ready' \in BOOLEAN, backoff' \in BOOLEAN
  PROVE  Inv'
  BY DEF Inv, EngineOK, Quiet, historyVars, SourcesOK, ServerOK, HistoryTypeOK

\* Steps of the loop that only move it, or read the clock.
LEMMA MovesOK ==
  ASSUME Inv, Quiet, UNCHANGED <<registered, call, events>>, CallerTypeOK',
         phase # "new", phase' # "new", loop' \in LoopState, loop'.pc \notin {"collect", "send"}, loop'.group = <<>>,
         ready' \in BOOLEAN, backoff' \in BOOLEAN
  PROVE  Inv'
<1>1. CallersOK' /\ EventsOK'
  BY DEF Inv, EngineOK, Quiet, CallersOK, EventsOK, Present
<1>2. NotStarted' /\ ReportsOK'
  BY DEF NotStarted, ReportsOK
<1> QED
  BY <1>1, <1>2, QuietOK

LEMMA LoopMovesOK ==
  ASSUME Inv, Tick \/ PreflightSucceeds \/ ServerIncompatible \/ LoopEnds \/ StopSamplers \/ SamplersJoined
  PROVE  Inv'
<1> USE DEF Tick, PreflightSucceeds, ServerIncompatible, LoopEnds, StopSamplers, SamplersJoined
<1>1. Quiet /\ UNCHANGED <<registered, call, events>>
  BY DEF Quiet, callerVars
<1>2. phase # "new" /\ phase' # "new"
  BY DEF Inv, EngineOK, NotStarted, callerVars
<1>3. loop' \in LoopState /\ loop'.pc \notin {"collect", "send"} /\ loop'.group = <<>>
  <2>1. \E pc \in {"drain", "redrain", "stopping", "joining", "returned"} : loop' = At(pc)
    OBVIOUS
  <2> QED
    BY <2>1, AtOK
<1>4. ready' \in BOOLEAN /\ backoff' \in BOOLEAN
  BY DEF Inv
<1>5. CallerTypeOK'
  <2>1. sampler' \in [Samplers -> {"off", "on", "cancelled", "ended"}]
    BY DEF Inv, EngineOK, CallerTypeOK
  <2>2. result' \in [Registrations -> {"none", "nil", "stopped", "refused"}]
    BY DEF Inv, EngineOK, CallerTypeOK, callerVars
  <2>3. phase' \in {"new", "running", "stopped"} /\ cancelled' \in BOOLEAN
    BY DEF Inv, EngineOK, CallerTypeOK, callerVars
  <2> QED
    BY <1>1, <2>1, <2>2, <2>3 DEF Inv, EngineOK, CallerTypeOK
<1> QED
  BY <1>1, <1>2, <1>3, <1>4, <1>5, MovesOK

\* Steps of the callers and samplers leave the loop where it is.
Beside == UNCHANGED <<state, loop, ready, historyVars>>

LEMMA BesideOK ==
  ASSUME Inv, Beside, CallerTypeOK', CallersOK', EventsOK', NotStarted', backoff' \in BOOLEAN
  PROVE  Inv'
<1>1. ReportsOK' /\ loop' \in LoopState /\ ready' \in BOOLEAN
  <2>1. Kind' = Kind
    BY DEF Beside, Kind
  <2>2. Eligible(Kind, state)' = Eligible(Kind, state)
    BY <2>1 DEF Beside, Eligible
  <2> QED
    BY <2>1, <2>2 DEF Beside, Inv, EngineOK, ReportsOK
<1> QED
  BY <1>1, QuietOK DEF Beside, Quiet

LEMMA RegisterOK ==
  ASSUME Inv, NEW r \in Registrations, Register(r)
  PROVE  Inv'
<1> USE DEF Inv, EngineOK
<1>1. /\ call[r] = "none" /\ registered[KeyOf[r]] = NoRegistration
      /\ registered' = [registered EXCEPT ![KeyOf[r]] = r]
      /\ call' = [call EXCEPT ![r] = "registered"]
      /\ sampler' = [g \in Samplers |-> IF g[1] = r /\ phase = "running" THEN "on" ELSE sampler[g]]
      /\ UNCHANGED <<phase, result, cancelled, events, loopVars, historyVars>>
  BY DEF Register
<1>2. KeyOf[r] \in Keys /\ r # NoRegistration
  BY SinkAssumption
<1>3. CallerTypeOK'
  <2>1. /\ registered' \in [Keys -> Registrations \cup {NoRegistration}]
        /\ call' \in [Registrations -> {"none", "registered", "sending", "waiting"}]
        /\ sampler' \in [Samplers -> {"off", "on", "cancelled", "ended"}]
    BY <1>1 DEF CallerTypeOK
  <2> QED
    BY <1>1, <2>1 DEF CallerTypeOK
<1>4. /\ registered'[KeyOf[r]] = r /\ \A k \in Keys : k # KeyOf[r] => registered'[k] = registered[k]
      /\ call'[r] = "registered" /\ \A q \in Registrations : q # r => call'[q] = call[q]
      /\ UNCHANGED <<state, events>>
  BY <1>1, <1>2 DEF CallerTypeOK, loopVars
<1>5. ~Present(KeyOf[r]) /\ ~state[KeyOf[r]].withdrawing
  <2>1. ~Present(KeyOf[r])
    BY <1>1, <1>2 DEF CallersOK, Present
  <2>2. SourceOK(KeyOf[r], state[KeyOf[r]])
    BY <1>2 DEF SourcesOK
  <2> QED
    BY <2>1, <2>2 DEF SourceOK, Present, NoState
<1>6. CallersOK'
  <2>1. \A k \in Keys : registered'[k] # NoRegistration => KeyOf[registered'[k]] = k
    BY <1>4 DEF CallersOK
  <2>2. ASSUME NEW q \in Registrations, call'[q] \in {"registered", "sending"}
        PROVE  registered'[KeyOf[q]] = q
    <3>1. CASE q = r
      BY <1>4, <3>1
    <3>2. CASE q # r
      <4>1. registered[KeyOf[q]] = q /\ KeyOf[q] \in Keys /\ q # NoRegistration
        BY <1>4, <2>2, <3>2, SinkAssumption DEF CallersOK
      <4> QED
        BY <1>1, <1>4, <4>1
    <3> QED
      BY <3>1, <3>2
  <2>3. \A k \in Keys : Present(k)' => state'[k].registration = registered'[k]
    BY <1>4, <1>5 DEF CallersOK, Present
  <2>4. ASSUME NEW k \in Keys, state'[k].withdrawing
        PROVE  call'[registered'[k]] = "waiting"
    <3>1. k # KeyOf[r] /\ call[registered[k]] = "waiting"
      BY <1>4, <1>5, <2>4 DEF CallersOK
    <3>2. registered[k] \in Registrations
      <4>1. Present(k)
        BY <1>4, <2>4 DEF SourcesOK, SourceOK, Present, NoState
      <4> QED
        BY <4>1 DEF CallersOK, Present, CallerTypeOK
    <3>3. registered[k] # r
      BY <1>1, <3>1
    <3> QED
      BY <1>4, <3>1, <3>2, <3>3
  <2> QED
    BY <2>1, <2>2, <2>3, <2>4 DEF CallersOK
<1>7. EventsOK'
  <2>1. ASSUME NEW i \in 1 .. Len(events), events[i].kind = "withdraw"
        PROVE  LET q == events[i].registration
               IN  registered'[KeyOf[q]] = q /\ call'[q] = "waiting" /\ ~state'[KeyOf[q]].withdrawing
    <3>1. PICK q \in Registrations : q = events[i].registration /\ KeyOf[q] \in Keys /\ q # NoRegistration
      BY EventAt, SinkAssumption
    <3>2. registered[KeyOf[q]] = q /\ call[q] = "waiting" /\ ~state[KeyOf[q]].withdrawing
      BY <2>1, <3>1 DEF EventsOK
    <3> QED
      BY <1>1, <1>4, <3>1, <3>2
  <2>2. \A i \in 1 .. Len(events') :
            events'[i].kind = "sample" => events'[i].snapshot \in Snapshots(KeyOf[events'[i].registration])
    BY <1>4 DEF EventsOK
  <2>3. \A i, j \in 1 .. Len(events') :
            i # j /\ events'[i].kind = "withdraw" /\ events'[j].kind = "withdraw" =>
                events'[i].registration # events'[j].registration
    BY <1>4 DEF EventsOK
  <2> QED
    BY <1>4, <2>1, <2>2, <2>3 DEF EventsOK
<1>8. NotStarted'
  BY <1>1 DEF NotStarted, loopVars, historyVars, CallerTypeOK
<1> QED
  BY <1>1, <1>3, <1>6, <1>7, <1>8, BesideOK DEF Beside, loopVars

\* The owners do not change: a step of the channel or of a sampler.
LEMMA OwnersStay ==
  ASSUME Inv, UNCHANGED <<state, registered>>,
         \A r \in Registrations : call'[r] \in {"registered", "sending"} => call[r] \in {"registered", "sending"},
         \A r \in Registrations : call[r] = "waiting" => call'[r] = "waiting"
  PROVE  CallersOK'
<1> USE DEF Inv, EngineOK
<1>1. ASSUME NEW k \in Keys, state'[k].withdrawing
      PROVE  call'[registered'[k]] = "waiting"
  <2>1. Present(k) /\ call[registered[k]] = "waiting"
    BY <1>1 DEF SourcesOK, SourceOK, Present, NoState, CallersOK
  <2>2. registered[k] \in Registrations
    BY <2>1 DEF CallersOK, Present, CallerTypeOK
  <2> QED
    BY <2>1, <2>2
<1> QED
  BY <1>1 DEF CallersOK, Present

LEMMA EventsStay ==
  ASSUME Inv, UNCHANGED <<state, registered, events>>,
         \A r \in Registrations : call[r] = "waiting" => call'[r] = "waiting"
  PROVE  EventsOK'
<1> USE DEF Inv, EngineOK
<1>1. ASSUME NEW i \in 1 .. Len(events), events[i].kind = "withdraw"
      PROVE  call'[events[i].registration] = "waiting"
  <2>1. events[i].registration \in Registrations
    BY EventAt
  <2> QED
    BY <1>1, <2>1 DEF EventsOK
<1> QED
  BY <1>1 DEF EventsOK

LEMMA BeginWithdrawOK ==
  ASSUME Inv, NEW r \in Registrations, BeginWithdraw(r)
  PROVE  Inv'
<1> USE DEF Inv, EngineOK
<1>1. /\ call[r] = "registered"
      /\ UNCHANGED <<phase, cancelled, sampler, events, loopVars, historyVars>>
      /\ call' \in {[call EXCEPT ![r] = "waiting"], [call EXCEPT ![r] = "sending"]}
      /\ phase = "new" => call' = [call EXCEPT ![r] = "waiting"]
      /\ result' \in [Registrations -> {"none", "nil", "stopped", "refused"}]
      /\ registered' \in [Keys -> Registrations \cup {NoRegistration}]
  BY DEF BeginWithdraw, CallerTypeOK
<1>2. Beside /\ backoff' \in BOOLEAN
  BY <1>1 DEF Beside, loopVars
<1>3. CallerTypeOK'
  <2>1. call' \in [Registrations -> {"none", "registered", "sending", "waiting"}]
    BY <1>1 DEF CallerTypeOK
  <2> QED
    BY <1>1, <2>1 DEF CallerTypeOK
<1>4. KeyOf[r] \in Keys /\ r # NoRegistration /\ registered[KeyOf[r]] = r
  BY <1>1, SinkAssumption DEF CallersOK
<1>5. /\ \A q \in Registrations : q # r => call'[q] = call[q]
      /\ call'[r] \in {"waiting", "sending"}
  BY <1>1 DEF CallerTypeOK
<1>6. CASE phase = "new"
  <2>1. /\ registered' = [registered EXCEPT ![KeyOf[r]] = NoRegistration] /\ call'[r] = "waiting"
        /\ \A k \in Keys : state[k] = NoState
        /\ events = <<>> /\ UNCHANGED <<state, events>>
    BY <1>1, <1>6 DEF BeginWithdraw, NotStarted, loopVars, CallerTypeOK
  <2>2. \A k \in Keys : ~state[k].withdrawing /\ ~Present(k)
    BY <2>1 DEF NoState, Present
  <2>3. ASSUME NEW q \in Registrations, call'[q] \in {"registered", "sending"}
        PROVE  registered'[KeyOf[q]] = q
    <3>1. q # r /\ registered[KeyOf[q]] = q /\ KeyOf[q] \in Keys
      BY <1>5, <2>1, <2>3, SinkAssumption DEF CallersOK
    <3> QED
      BY <1>4, <2>1, <3>1
  <2>4. \A k \in Keys : registered'[k] # NoRegistration => KeyOf[registered'[k]] = k
    BY <2>1 DEF CallersOK, CallerTypeOK
  <2>5. CallersOK'
    BY <2>1, <2>2, <2>3, <2>4 DEF CallersOK, Present
  <2>6. EventsOK'
    BY <2>1 DEF EventsOK
  <2>7. NotStarted'
    BY <1>1, <1>5, <1>6, <2>1 DEF NotStarted, loopVars, historyVars
  <2> QED
    BY <1>2, <1>3, <2>5, <2>6, <2>7, BesideOK
<1>7. CASE phase # "new"
  <2>1. UNCHANGED <<state, registered, events>>
    BY <1>1, <1>7 DEF BeginWithdraw, loopVars
  <2>2. CallersOK'
    BY <1>1, <1>5, <2>1, OwnersStay
  <2>3. EventsOK'
    BY <1>1, <1>5, <2>1, EventsStay
  <2>4. NotStarted'
    BY <1>1, <1>7 DEF NotStarted
  <2> QED
    BY <1>2, <1>3, <2>2, <2>3, <2>4, BesideOK
<1> QED
  BY <1>6, <1>7

LEMMA QueueWithdrawalOK ==
  ASSUME Inv, NEW r \in Registrations, QueueWithdrawal(r)
  PROVE  Inv'
<1> USE DEF Inv, EngineOK
<1> DEFINE event == [kind |-> "withdraw", registration |-> r, snapshot |-> NoSnapshot]
<1>1. /\ call[r] = "sending" /\ Len(events) < QueueLimit
      /\ events' = Append(events, event)
      /\ call' = [call EXCEPT ![r] = "waiting"]
      /\ UNCHANGED <<phase, registered, result, cancelled, sampler, loopVars, historyVars>>
  BY DEF QueueWithdrawal
<1>2. phase # "new" /\ Beside /\ backoff' \in BOOLEAN /\ UNCHANGED state
  BY <1>1 DEF NotStarted, Beside, loopVars
<1>3. event \in Event /\ event.kind = "withdraw" /\ event.registration = r
  BY DEF Event, RelayEvents, NoSnapshot
<1> HIDE DEF event
<1>4. /\ events' \in Seq(Event) /\ Len(events') = Len(events) + 1
      /\ events'[Len(events) + 1] = event
      /\ \A i \in 1 .. Len(events) : events'[i] = events[i]
      /\ Len(events) \in Nat
  BY <1>1, <1>3 DEF CallerTypeOK
<1>5. call' \in [Registrations -> {"none", "registered", "sending", "waiting"}]
      /\ call'[r] = "waiting" /\ \A q \in Registrations : q # r => call'[q] = call[q]
  BY <1>1 DEF CallerTypeOK
<1>6. CallerTypeOK'
  BY <1>1, <1>4, <1>5, SinkAssumption DEF CallerTypeOK
<1>7. registered[KeyOf[r]] = r /\ KeyOf[r] \in Keys
  BY <1>1, SinkAssumption DEF CallersOK
<1>8. CallersOK'
  BY <1>1, <1>2, <1>5, OwnersStay
<1>9. ~state[KeyOf[r]].withdrawing
  BY <1>1, <1>7 DEF CallersOK
<1>10. \A i \in 1 .. Len(events) : events[i].kind = "withdraw" => events[i].registration # r
  BY <1>1 DEF EventsOK
<1>11. EventsOK'
  <2>1. \A i \in 1 .. Len(events') : i \in 1 .. Len(events) \/ i = Len(events) + 1
    BY <1>4
  <2>2. ASSUME NEW i \in 1 .. Len(events), events[i].kind = "withdraw"
        PROVE  /\ registered[KeyOf[events[i].registration]] = events[i].registration
               /\ call'[events[i].registration] = "waiting"
               /\ ~state[KeyOf[events[i].registration]].withdrawing
    <3>1. events[i].registration \in Registrations
      BY EventAt
    <3> QED
      BY <1>5, <2>2, <3>1 DEF EventsOK
  <2>3. \A i \in 1 .. Len(events') :
            events'[i].kind = "sample" => events'[i].snapshot \in Snapshots(KeyOf[events'[i].registration])
    BY <1>3, <1>4, <2>1 DEF EventsOK
  <2>4. \A i \in 1 .. Len(events') :
            events'[i].kind = "withdraw" =>
                /\ registered'[KeyOf[events'[i].registration]] = events'[i].registration
                /\ call'[events'[i].registration] = "waiting"
                /\ ~state'[KeyOf[events'[i].registration]].withdrawing
    <3>1. SUFFICES ASSUME NEW i \in 1 .. Len(events'), events'[i].kind = "withdraw"
                   PROVE  /\ registered'[KeyOf[events'[i].registration]] = events'[i].registration
                          /\ call'[events'[i].registration] = "waiting"
                          /\ ~state'[KeyOf[events'[i].registration]].withdrawing
      OBVIOUS
    <3>2. UNCHANGED <<registered, state>>
      BY <1>1, <1>2
    <3>3. CASE i \in 1 .. Len(events)
      <4>1. events'[i] = events[i]
        BY <1>4, <3>3
      <4> QED
        BY <2>2, <3>1, <3>2, <3>3, <4>1
    <3>4. CASE i = Len(events) + 1
      <4>1. events'[i].registration = r
        BY <1>3, <1>4, <3>4
      <4> QED
        BY <1>5, <1>7, <1>9, <3>2, <4>1
    <3> QED
      BY <2>1, <3>3, <3>4
  <2>5. \A i, j \in 1 .. Len(events') :
            i # j /\ events'[i].kind = "withdraw" /\ events'[j].kind = "withdraw" =>
                events'[i].registration # events'[j].registration
    BY <1>3, <1>4, <1>10, <2>1 DEF EventsOK
  <2> QED
    BY <2>3, <2>4, <2>5 DEF EventsOK
<1>12. NotStarted'
  BY <1>1, <1>2 DEF NotStarted
<1> QED
  BY <1>2, <1>6, <1>8, <1>11, <1>12, BesideOK

LEMMA SampleOK ==
  ASSUME Inv, NEW g \in Samplers, Sample(g)
  PROVE  Inv'
<1> USE DEF Inv, EngineOK
<1>1. /\ sampler[g] \in {"on", "cancelled"} /\ Len(events) < QueueLimit
      /\ UNCHANGED <<callerVars, cancelled, loopVars, historyVars>>
      /\ sampler' \in [Samplers -> {"off", "on", "cancelled", "ended"}]
  BY DEF Sample, CallerTypeOK
<1>2. PICK event \in Event :
          /\ events' = Append(events, event)
          /\ event.kind # "withdraw"
          /\ event.kind = "sample" => event.snapshot \in Snapshots(KeyOf[event.registration])
  <2>1. g[1] \in Registrations
    BY DEF Samplers
  <2>2. KeyOf[g[1]] \in Keys
    BY <2>1, SinkAssumption
  <2>3. NoSnapshot \in [identity : Identities \cup {NoIdentity}, generation : Generations \cup {NoGeneration}]
    BY DEF NoSnapshot
  <2>4. CASE \E snapshot \in Snapshots(KeyOf[g[1]]) : Queue("sample", g[1], snapshot)
    <3>1. PICK snapshot \in Snapshots(KeyOf[g[1]]) : Queue("sample", g[1], snapshot)
      BY <2>4
    <3> DEFINE event == [kind |-> "sample", registration |-> g[1], snapshot |-> snapshot]
    <3>2. snapshot \in [identity : Identities \cup {NoIdentity}, generation : Generations \cup {NoGeneration}]
      BY <2>2, SinkAssumption DEF Snapshots
    <3>3. event \in Event /\ event.kind = "sample" /\ event.registration = g[1] /\ event.snapshot = snapshot
      BY <2>1, <3>2 DEF Event
    <3>4. events' = Append(events, event)
      BY <3>1 DEF Queue
    <3> QED
      BY <3>3, <3>4
  <2>5. CASE \E kind \in {"failure", "relay", "relayAway"} : Queue(kind, g[1], NoSnapshot)
    <3>1. PICK kind \in {"failure", "relay", "relayAway"} : Queue(kind, g[1], NoSnapshot)
      BY <2>5
    <3> DEFINE event == [kind |-> kind, registration |-> g[1], snapshot |-> NoSnapshot]
    <3>2. event \in Event /\ event.kind = kind
      BY <2>1, <2>3 DEF Event, RelayEvents
    <3>3. events' = Append(events, event)
      BY <3>1 DEF Queue
    <3> QED
      BY <3>2, <3>3
  <2> QED
    BY <2>4, <2>5 DEF Sample, RelayEvents
<1>3. /\ events' \in Seq(Event) /\ Len(events') = Len(events) + 1
      /\ events'[Len(events) + 1] = event
      /\ \A i \in 1 .. Len(events) : events'[i] = events[i]
      /\ Len(events) \in Nat
  BY <1>2 DEF CallerTypeOK
<1>4. CallerTypeOK'
  BY <1>1, <1>3, SinkAssumption DEF CallerTypeOK, callerVars
<1>5. Beside /\ backoff' \in BOOLEAN /\ UNCHANGED <<state, registered, call, phase>>
  BY <1>1 DEF Beside, loopVars, callerVars
<1>6. CallersOK'
  BY <1>5, OwnersStay
<1>7. EventsOK'
  <2>1. \A i \in 1 .. Len(events') : i \in 1 .. Len(events) \/ i = Len(events) + 1
    BY <1>3
  <2>2. \A i \in 1 .. Len(events') :
            events'[i].kind = "sample" => events'[i].snapshot \in Snapshots(KeyOf[events'[i].registration])
    BY <1>2, <1>3, <2>1 DEF EventsOK
  <2>3. \A i \in 1 .. Len(events') :
            events'[i].kind = "withdraw" => i \in 1 .. Len(events) /\ events'[i] = events[i]
    BY <1>2, <1>3, <2>1
  <2>4. \A i \in 1 .. Len(events') :
            events'[i].kind = "withdraw" =>
                /\ registered[KeyOf[events'[i].registration]] = events'[i].registration
                /\ call[events'[i].registration] = "waiting"
                /\ ~state[KeyOf[events'[i].registration]].withdrawing
    BY <2>3 DEF EventsOK
  <2>5. \A i, j \in 1 .. Len(events') :
            i # j /\ events'[i].kind = "withdraw" /\ events'[j].kind = "withdraw" =>
                events'[i].registration # events'[j].registration
    BY <2>3 DEF EventsOK
  <2> QED
    BY <1>5, <2>2, <2>4, <2>5 DEF EventsOK
<1>8. NotStarted'
  BY <1>1, <1>5 DEF NotStarted
<1> QED
  BY <1>4, <1>5, <1>6, <1>7, <1>8, BesideOK

LEMMA BesideStepsOK ==
  ASSUME Inv, \/ Run \/ Cancel \/ BackoffPasses
              \/ \E r \in Registrations : WithdrawalTooLate(r)
              \/ \E g \in Samplers : SamplerEnds(g)
  PROVE  Inv'
<1> USE DEF Inv, EngineOK, Run, Cancel, BackoffPasses, WithdrawalTooLate, SamplerEnds
<1>1. Beside /\ backoff' \in BOOLEAN /\ UNCHANGED <<state, registered, events>>
  BY DEF Beside, loopVars, callerVars
<1>2. CallerTypeOK'
  <2>1. sampler' \in [Samplers -> {"off", "on", "cancelled", "ended"}]
    BY DEF CallerTypeOK
  <2>2. /\ result' \in [Registrations -> {"none", "nil", "stopped", "refused"}]
        /\ call' \in [Registrations -> {"none", "registered", "sending", "waiting"}]
    BY DEF CallerTypeOK, callerVars
  <2>3. phase' \in {"new", "running", "stopped"} /\ cancelled' \in BOOLEAN
    BY DEF CallerTypeOK, callerVars
  <2> QED
    BY <1>1, <2>1, <2>2, <2>3 DEF CallerTypeOK
<1>3. \A r \in Registrations :
          /\ call'[r] \in {"registered", "sending"} => call[r] \in {"registered", "sending"}
          /\ call[r] = "waiting" => call'[r] = "waiting"
  BY DEF callerVars, CallerTypeOK
<1>4. CallersOK' /\ EventsOK'
  BY <1>1, <1>3, OwnersStay, EventsStay
<1>5. NotStarted'
  BY DEF NotStarted, loopVars, historyVars, callerVars
<1> QED
  BY <1>1, <1>2, <1>4, <1>5, BesideOK

-----------------------------------------------------------------------------
(* The theorems *)

LEMMA InvInit == Init => Inv
<1> SUFFICES ASSUME Init PROVE Inv
  OBVIOUS
<1> USE DEF Init
<1>1. \A k \in Keys : /\ state[k] = NoState /\ SourceOK(k, state[k]) /\ RefsOf(state[k]) = {}
                      /\ ~Present(k) /\ ~state[k].withdrawing
  BY NoStateOK DEF Present, NoState
<1>2. CallerTypeOK
  <2>1. events \in Seq(Event) /\ Len(events) <= QueueLimit
    BY SinkAssumption
  <2> QED
    BY <2>1 DEF CallerTypeOK
<1>3. HistoryTypeOK
  BY DEF HistoryTypeOK
<1>4. loop \in LoopState /\ ReportsOK
  BY SelectingOK DEF ReportsOK
<1>5. state \in [Keys -> SourceState] /\ SourcesOK
  BY <1>1 DEF SourcesOK, SourceOK
<1>6. CallersOK /\ NotStarted /\ EventsOK
  <2>1. CallersOK
    BY <1>1 DEF CallersOK
  <2>2. NotStarted
    BY <1>1, SelectingOK DEF NotStarted
  <2>3. EventsOK
    BY DEF EventsOK
  <2> QED
    BY <2>1, <2>2, <2>3
<1>7. ServerOK
  BY <1>1 DEF ServerOK, OverlapOK
<1> QED
  BY <1>2, <1>3, <1>4, <1>5, <1>6, <1>7 DEF Inv, EngineOK

LEMMA InvLoop ==
  ASSUME Inv, Loop
  PROVE  Inv'
<1>1. CASE HandleEvent
  BY <1>1, HandleEventServerOK
<1>2. CASE Drained \/ Redrained
  BY <1>2, DrainedOK
<1>3. CASE Tick \/ PreflightSucceeds \/ ServerIncompatible \/ LoopEnds \/ StopSamplers \/ SamplersJoined
  BY <1>3, LoopMovesOK
<1>4. CASE PreflightFails
  BY <1>4, PreflightFailsOK
<1>5. CASE Collect
  BY <1>5, CollectServerOK
<1>6. CASE SendAccepted \/ SendResynced
  <2>1. PICK batch \in Batches, resync \in BOOLEAN : Sending /\ OthersRest /\ Accepted(batch, resync)
    BY <1>6 DEF SendAccepted, SendResynced
  <2> QED
    BY <2>1, AcceptedOK
<1>7. CASE SendRefused
  BY <1>7, RefusedOK DEF SendRefused
<1>8. CASE SendLost
  BY <1>8, LostOK DEF SendLost
<1>9. CASE SendUnanswered
  BY <1>9, UnansweredOK DEF SendUnanswered
<1>10. CASE SendNotAccepted
  BY <1>10, NotAcceptedOK DEF SendNotAccepted
<1> QED
  BY <1>1, <1>2, <1>3, <1>4, <1>5, <1>6, <1>7, <1>8, <1>9, <1>10 DEF Loop

LEMMA InvNext == Inv /\ [Next]_vars => Inv'
<1> SUFFICES ASSUME Inv, [Next]_vars PROVE Inv'
  OBVIOUS
<1>1. CASE Loop
  BY <1>1, InvLoop
<1>2. CASE Run \/ Cancel \/ BackoffPasses
  BY <1>2, BesideStepsOK
<1>3. ASSUME NEW r \in Registrations,
             Register(r) \/ BeginWithdraw(r) \/ QueueWithdrawal(r) \/ WithdrawalTooLate(r)
      PROVE  Inv'
  BY <1>3, RegisterOK, BeginWithdrawOK, QueueWithdrawalOK, BesideStepsOK
<1>4. ASSUME NEW g \in Samplers, Sample(g) \/ SamplerEnds(g)
      PROVE  Inv'
  BY <1>4, SampleOK, BesideStepsOK
<1>5. CASE UNCHANGED vars
  <2>1. /\ Beside /\ UNCHANGED <<state, registered, call, events, phase, result, sampler, cancelled, backoff, loop>>
        /\ UNCHANGED <<historyVars>>
    BY <1>5 DEF vars, Beside, loopVars, callerVars
  <2>2. CallersOK' /\ EventsOK'
    BY <2>1, OwnersStay, EventsStay
  <2>3. CallerTypeOK' /\ NotStarted' /\ backoff' \in BOOLEAN
    BY <2>1 DEF Inv, EngineOK, CallerTypeOK, NotStarted, historyVars
  <2> QED
    BY <2>1, <2>2, <2>3, BesideOK
<1> QED
  BY <1>1, <1>2, <1>3, <1>4, <1>5 DEF Next

LEMMA InvAlways == Spec => []Inv
  BY InvInit, InvNext, PTL DEF Spec

\* Every variable has its type, and a source state belongs to the registration
\* its key has now: a result queued before a withdrawal revives nothing.
THEOREM TypeCorrect == Spec => []TypeOK
<1>1. Inv => TypeOK
  BY DEF Inv, EngineOK, TypeOK, LoopTypeOK, LoopState, CallersOK
<1> QED
  BY <1>1, InvAlways, PTL

\* Whatever answer is lost and whatever identity a source takes, the sink has
\* the reference of every observer the server may still count as its own.
THEOREM NothingIsForgotten == Spec => []NothingForgotten
<1>1. Inv => NothingForgotten
  BY DEF Inv, ServerOK, NothingForgotten, References, RefsOf
<1> QED
  BY <1>1, InvAlways, PTL

\* The server never holds two observers of one source.
THEOREM OneObserver == Spec => []OneObserverPerSource
<1>1. Inv => OneObserverPerSource
  <2> SUFFICES ASSUME Inv, NEW k \in Keys
               PROVE  Cardinality(claimed[k] \ abandoned[k]) <= 1
    BY DEF OneObserverPerSource
  <2>1. \A i, j \in claimed[k] \ abandoned[k] : i = j
    BY DEF Inv, ServerOK
  <2>2. CASE claimed[k] \ abandoned[k] = {}
    BY <2>2, FS_EmptySet
  <2>3. CASE claimed[k] \ abandoned[k] # {}
    <3>1. PICK i \in claimed[k] \ abandoned[k] : TRUE
      BY <2>3
    <3>2. claimed[k] \ abandoned[k] = {i}
      BY <2>1
    <3>3. Cardinality({i}) = 1
      BY FS_Singleton
    <3>4. Cardinality(claimed[k] \ abandoned[k]) = 1
      BY <3>2, <3>3, Zenon
    <3> QED
      BY <3>4
  <2> QED
    BY <2>2, <2>3
<1> QED
  BY <1>1, InvAlways, PTL

\* No report of counters covers a time the server was told of, or one in which
\* the source was away.
THEOREM NoTrafficIsToldTwice == Spec => []NoTrafficTwice
<1>1. Inv => NoTrafficTwice
  <2> SUFFICES ASSUME Inv, loop.pc = "send", Kind \in {"traffic", "relay"}, NEW k \in loop.pending
               PROVE  Kind \notin overlap[k]
    BY DEF NoTrafficTwice
  <2>1. k \in Keys /\ k \in Eligible(Kind, state) /\ SourceOK(k, state[k])
    BY DEF Inv, EngineOK, LoopState, ReportsOK, SourcesOK
  <2>2. ~state[k].withdrawing /\ BaselineOf(state[k], Kind) # "none"
    BY <2>1, EligibleOK DEF Kinds, BaselineOf
  <2> QED
    BY <2>1, <2>2 DEF Inv, ServerOK, OverlapOK
<1> QED
  BY <1>1, InvAlways, PTL

\* A withdrawal that ends well ends with no reference left.
LEMMA FinalizeResult ==
  ASSUME NEW st, Finalize(st), NEW r \in Registrations, SourceOK(KeyOf[r], st[KeyOf[r]]),
         result'[r] = "nil", result[r] = "none"
  PROVE  /\ st[KeyOf[r]].withdrawing /\ ~st[KeyOf[r]].refused
         /\ RefsOf(st[KeyOf[r]]) = {}
<1>1. KeyOf[r] \in Finished(st) /\ ~st[KeyOf[r]].refused
  BY DEF Finalize
<1> QED
  BY <1>1 DEF Finished, SourceOK, RefsOf, NoSnapshot

LEMMA ReleasesStep ==
  ASSUME Inv, [Next]_vars, NEW r \in Registrations, result'[r] = "nil", result[r] = "none"
  PROVE  claimed'[KeyOf[r]] \subseteq abandoned[KeyOf[r]]
<1> DEFINE k == KeyOf[r]
<1> USE DEF Inv
<1>1. k \in Keys
  BY SinkAssumption
<1>2. claimed[k] \ abandoned[k] \subseteq RefsOf(state[k]) /\ SourceOK(k, state[k])
  BY <1>1 DEF ServerOK, EngineOK, SourcesOK
<1>3. CASE BeginWithdraw(r)
  <2>1. phase = "new" /\ UNCHANGED claimed
    BY <1>3 DEF BeginWithdraw, historyVars, EngineOK, CallerTypeOK
  <2>2. claimed[k] = {}
    BY <1>1, <2>1 DEF EngineOK, NotStarted
  <2> QED
    BY <2>1, <2>2
<1>4. CASE Drained \/ Redrained
  <2>1. Finalize(state) /\ UNCHANGED historyVars
    BY <1>4 DEF Drained, Redrained
  <2>2. RefsOf(state[k]) = {}
    BY <1>2, <2>1, FinalizeResult
  <2> QED
    BY <1>2, <2>1, <2>2 DEF historyVars
<1>5. ASSUME NEW batch \in Batches, NEW resync \in BOOLEAN, Sending, OthersRest, Accepted(batch, resync)
      PROVE  claimed'[k] \subseteq abandoned[k]
  <2>1. PICK st : st = [q \in Keys |-> IF q \in batch THEN Applied(state[q]) ELSE state[q]]
    OBVIOUS
  <2>2. PICK resyncs \in BOOLEAN : resyncs = (resync /\ Kind # "hello")
    OBVIOUS
  <2>3. Proceed(st, batch, resyncs) /\ Delivered(batch)
    BY <1>5, <2>1, <2>2 DEF Accepted
  <2>4. Finalize(st)
    BY <2>3 DEF Proceed, callerVars
  <2>5. UNCHANGED abandoned /\ SourceOK(k, st[k]) /\ claimed'[k] \ abandoned'[k] \subseteq RefsOf(st[k])
    BY <1>1, <1>5, <2>1, <2>3, AcceptedStates
  <2>6. RefsOf(st[k]) = {}
    BY <2>4, <2>5, FinalizeResult
  <2> QED
    BY <2>5, <2>6
<1>6. ASSUME NEW k0, {k0} \in Batches, Sending, OthersRest, GiveUp(k0)
      PROVE  claimed'[k] \subseteq abandoned[k]
  <2>1. PICK st : st = [state EXCEPT ![k0] = Rejected(@)]
    OBVIOUS
  <2>2. Finalize(st)
    <3>1. PICK never \in BOOLEAN : never = FALSE
      OBVIOUS
    <3>2. Proceed(st, {k0}, never)
      BY <1>6, <2>1, <3>1 DEF GiveUp
    <3> QED
      BY <3>2 DEF Proceed, callerVars
  <2>3. /\ SourceOK(k, st[k]) /\ SameOwner(state[k], st[k])
        /\ Kind = "withdrawal" /\ state[k0].withdrawing => st[k0].refused
        /\ k # k0 \/ Kind # "withdrawal" => abandoned'[k] = abandoned[k]
        /\ claimed'[k] \ abandoned'[k] \subseteq RefsOf(st[k])
    BY <1>1, <1>6, <2>1, GivenUpStates
  <2>4. st[k].withdrawing /\ ~st[k].refused /\ RefsOf(st[k]) = {}
    BY <2>2, <2>3, FinalizeResult
  <2>5. k # k0 \/ Kind # "withdrawal"
    BY <2>3, <2>4 DEF SameOwner
  <2> QED
    BY <2>3, <2>4, <2>5
<1>7. CASE UNCHANGED result
  BY <1>7
<1>8. CASE SamplersJoined \/ \E q \in Registrations : WithdrawalTooLate(q) \/ (q # r /\ BeginWithdraw(q))
  <2>1. result'[r] \in {result[r], "stopped"}
    BY <1>8 DEF SamplersJoined, WithdrawalTooLate, BeginWithdraw, EngineOK, CallerTypeOK
  <2> QED
    BY <2>1
<1>9. CASE Loop
  <2>1. CASE SendAccepted \/ SendResynced
    <3>1. PICK batch \in Batches, resync \in BOOLEAN : Sending /\ OthersRest /\ Accepted(batch, resync)
      BY <2>1 DEF SendAccepted, SendResynced
    <3> QED
      BY <1>5, <3>1
  <2>2. CASE SendRefused
    <3>1. PICK batch \in Batches : Sending /\ OthersRest /\ Refused(batch)
      BY <2>2 DEF SendRefused
    <3>2. CASE Split(batch)
      BY <1>7, <3>2 DEF Split, callerVars
    <3>3. ASSUME NEW k0 \in batch, batch = {k0}, GiveUp(k0)
          PROVE  claimed'[k] \subseteq abandoned[k]
      BY <1>6, <3>1, <3>3
    <3> QED
      BY <3>1, <3>2, <3>3 DEF Refused
  <2>3. CASE \/ HandleEvent \/ Tick \/ PreflightSucceeds \/ PreflightFails \/ ServerIncompatible
             \/ Collect \/ SendLost \/ SendUnanswered \/ SendNotAccepted \/ LoopEnds \/ StopSamplers
    <3>1. UNCHANGED result
      BY <2>3
      DEF HandleEvent, Tick, PreflightSucceeds, PreflightFails, ServerIncompatible, Collect,
          SendLost, SendUnanswered, SendNotAccepted, Lost, Unanswered, NotAccepted,
          LoopEnds, StopSamplers, callerVars
    <3> QED
      BY <1>7, <3>1
  <2> QED
    BY <1>4, <1>8, <1>9, <2>1, <2>2, <2>3 DEF Loop
<1>10. CASE ~Loop /\ Next /\ ~\E q \in Registrations : BeginWithdraw(q) \/ WithdrawalTooLate(q)
  <2>1. UNCHANGED result
    BY <1>10 DEF Next, Run, Cancel, BackoffPasses, Register, QueueWithdrawal, Sample, SamplerEnds, callerVars
  <2> QED
    BY <1>7, <2>1
<1>11. CASE UNCHANGED vars
  BY <1>7, <1>11 DEF vars, callerVars
<1> QED
  BY <1>3, <1>8, <1>9, <1>10, <1>11

\* Withdraw returns nil only when the server holds nothing of the key any more,
\* refused withdrawals apart.
THEOREM WithdrawalReleases == Spec => WithdrawReleases
<1>1. Inv /\ [Next]_vars =>
          [\A r \in Registrations :
              result'[r] = "nil" /\ result[r] = "none" => claimed'[KeyOf[r]] \subseteq abandoned[KeyOf[r]]]_vars
  BY ReleasesStep
<1> QED
  BY <1>1, InvAlways, PTL DEF Spec, WithdrawReleases
=============================================================================
