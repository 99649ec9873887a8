----------------------------- MODULE EdgePaths ------------------------------
(* What the server says of the path of one relationship: the observations of   *)
(* its edge, the evidence they are reconciled to (internal/domain,             *)
(* path_evidence.go and directional_paths.go) and the path transition a report *)
(* leaves in History (internal/aggregate/aggregator.go).                       *)
(*                                                                             *)
(* Observations are a Go map: whoever reconciles them meets them in an         *)
(* arbitrary order, which is chosen anew every time.                           *)
(*                                                                             *)
(* Abstractions.  Every report here is one ReportIngest accepts.  The edge is  *)
(* not merged (CanonicalNodes) and the clock is not set back.  Rates, collector *)
(* times and clock skew are left out, and so is the spelling of regions,       *)
(* endpoints and ids.  Conflicts are listed by key, which makes the list a set. *)
(*                                                                             *)
(* A definition called Faulty... is the definition that follows it with one    *)
(* plausible bug; the specification uses none of them.                         *)
EXTENDS Integers, FiniteSets

CONSTANTS
    Source, Target,  \* the ends of the edge, in the order of domain.EdgeID
    Relays,          \* relays that report sessions between the two
    Sayings,         \* what an end may say of its path: path, fallback, evidence
    VNIs,            \* the session numbers a relay may report
    Nothing,         \* an empty field, and a fallback that is not there
    EvidenceWindow,  \* two heartbeat intervals, in clock ticks
    MaxTime          \* bound: the server's clock

Ends      == {Source, Target}
Observers == Ends \cup Relays

Kinds  == {"direct", "derp", "peer_relay", "unknown"}
NoPath == [kind |-> "", region |-> Nothing, stable |-> Nothing, endpoint |-> Nothing,
           resolution |-> Nothing, vni |-> Nothing]

ASSUME EdgeAssumption ==
    /\ Observers \subseteq Nat /\ Source < Target /\ Relays \cap Ends = {}
    /\ EvidenceWindow \in Nat /\ MaxTime \in Nat
ASSUME SayingsAssumption ==
    \A said \in Sayings : said.path.kind \in Kinds /\ DOMAIN said.path = DOMAIN NoPath

VARIABLES
    observations,  \* edgeState.Observations, by observer
    membership,    \* whether an end's inventory lists the other end
    lastKnown,     \* edgeState.LastKnownPath, ...Conflicts and ...Directions
    now,           \* the receive time of the next report
    transitions,   \* ApplyResult.PathTransitions of the last report, for this edge
    recorded,      \* history: the last path event of the edge
    told           \* history: what was live when a report last reconciled them

vars == <<observations, membership, lastKnown, now, transitions, recorded, told>>

NoEvidence == [path |-> NoPath, conflicts |-> {}, directions |-> <<>>]

\* The zero time.Time is 0; the clock starts at 1.
Unobserved == [said |-> Nothing, receivedAt |-> 0, withdrawnAt |-> 0]

Counts(observation, at) ==
    /\ observation # Unobserved
    /\ at - observation.receivedAt <= EvidenceWindow
    /\ observation.withdrawnAt = 0 \/ observation.withdrawnAt < observation.receivedAt

\* The observations that are neither aged nor withdrawn.
Live(seen, at) == [o \in {x \in Observers : Counts(seen[x], at)} |-> seen[o]]

Init ==
    /\ observations = [o \in Observers |-> Unobserved]
    /\ membership = [o \in Ends |-> FALSE]
    /\ lastKnown = NoEvidence
    /\ now = 1
    /\ transitions = <<>>
    /\ recorded = NoEvidence
    /\ told = Live(observations, now)

-----------------------------------------------------------------------------
(* One observer's evidence.  A direct endpoint is an address and a port. *)

\* A relay is known by its stable id, else its endpoint, else its session.
RelayKey(path) ==
    LET named == {f \in {"stable", "endpoint", "vni"} : path[f] # Nothing}
        by    == IF "stable" \in named THEN "stable"
                 ELSE IF "endpoint" \in named THEN "endpoint" ELSE "vni"
    IN  [kind |-> "peer_relay", by |-> by, id |-> path[by]]

PathEvidenceKey(path) ==
    CASE path.kind = "direct"     -> [kind |-> "direct", by |-> "kind", id |-> Nothing]
      [] path.kind = "derp"       -> [kind |-> "derp", by |-> "region", id |-> path.region]
      [] path.kind = "peer_relay" -> RelayKey(path)
      [] OTHER                    -> [kind |-> "unknown", by |-> "kind", id |-> Nothing]

\* The relays known by their stable id at an endpoint.
StableIDsAt(live, endpoint) ==
    {live[o].said.path.stable : o \in
        {x \in DOMAIN live : /\ live[x].said.path.kind = "peer_relay"
                             /\ live[x].said.path.endpoint = endpoint}} \ {Nothing}

\* A relay known by its endpoint only is the one everybody else names there.
Resolved(live, path) ==
    IF /\ path.kind = "peer_relay" /\ path.stable = Nothing /\ path.endpoint # Nothing
       /\ Cardinality(StableIDsAt(live, path.endpoint)) = 1
    THEN [path EXCEPT !.stable = CHOOSE s \in StableIDsAt(live, path.endpoint) : TRUE,
                      !.resolution = "endpoint_match"]
    ELSE path

\* What the observers of an edge say, with the relays resolved.  A fallback is a
\* DERP path (validatePeerPathEvidence refuses any other), which names no relay.
Evidence(live) ==
    [o \in DOMAIN live |-> [path |-> Resolved(live, live[o].said.path),
                            fallback |-> live[o].said.fallback,
                            evidence |-> live[o].said.evidence,
                            receivedAt |-> live[o].receivedAt]]

-----------------------------------------------------------------------------
(* Reconciliation *)

Role(o) == IF o = Source THEN 0 ELSE IF o = Target THEN 1 ELSE 2

Preferred(o, p) == Role(o) < Role(p) \/ (Role(o) = Role(p) /\ o < p)

First(S) == CHOOSE o \in S : \A p \in S \ {o} : Preferred(o, p)

KeyOf(heard, o) == PathEvidenceKey(heard[o].path)

KeysOf(heard) == {KeyOf(heard, o) : o \in DOMAIN heard}

SpeakerOf(heard, key) == First({o \in DOMAIN heard : KeyOf(heard, o) = key})

Details(kind) ==
    CASE kind = "derp"       -> {"region"}
      [] kind = "peer_relay" -> {"stable", "vni", "endpoint", "resolution"}
      [] OTHER               -> {}

\* enrichEvidencePath: what the path leaves out, from others in the order of receipt.
Enriched(heard, path, others) ==
    LET Having(field)    == {o \in others : heard[o].path[field] # Nothing}
        Oldest(S)        == CHOOSE o \in S : \A p \in S : heard[o].receivedAt <= heard[p].receivedAt
    IN  [field \in DOMAIN path |->
            IF field \notin Details(path.kind) \/ path[field] # Nothing \/ Having(field) = {}
            THEN path[field] ELSE heard[Oldest(Having(field))].path[field]]

\* The observer preferred for a key speaks for it.  One who says the same and
\* reported later fills in details if the walk meets it after the speaker and
\* after nobody newer: in the order of receipt, any of them may do so.
PathsOf(heard, key) ==
    LET speaker == SpeakerOf(heard, key)
        later   == {o \in DOMAIN heard : /\ KeyOf(heard, o) = key
                                         /\ heard[o].receivedAt > heard[speaker].receivedAt}
        walks   == {S \in SUBSET later :
                       \A o, p \in S : heard[o].receivedAt = heard[p].receivedAt => o = p}
    IN  {Enriched(heard, heard[speaker].path, S) : S \in walks}

FaultyPrimaryKey(heard, previous) ==
    CHOOSE key \in KeysOf(heard) : \E o \in DOMAIN heard :
        /\ KeyOf(heard, o) = key
        /\ \A p \in DOMAIN heard : heard[o].receivedAt >= heard[p].receivedAt

\* The path of before for as long as anybody says so, else the one the most
\* preferred observer says.
PrimaryKey(heard, previous) ==
    IF previous.kind # "" /\ PathEvidenceKey(previous) \in KeysOf(heard)
    THEN PathEvidenceKey(previous) ELSE KeyOf(heard, First(DOMAIN heard))

\* What each end itself says of the path it sends on.
DirectionalPaths(heard) ==
    [o \in Ends \cap DOMAIN heard |->
        [path |-> heard[o].path, fallback |-> heard[o].fallback, evidence |-> heard[o].evidence]]

\* snapshotEdgeLocked: what may be shown of an edge, one for every outcome of
\* the walks.  An edge without evidence shows the path it last had.
Snapshots(heard, previous) ==
    LET primary == PrimaryKey(heard, previous)
        others  == KeysOf(heard) \ {primary}
        Choices == {chosen \in [KeysOf(heard) -> UNION {PathsOf(heard, key) : key \in KeysOf(heard)}] :
                       \A key \in KeysOf(heard) : chosen[key] \in PathsOf(heard, key)}
    IN  IF DOMAIN heard = {}
        THEN {[path |-> IF previous.kind = "" THEN [previous EXCEPT !.kind = "unknown"] ELSE previous,
               conflicts |-> {}, directions |-> DirectionalPaths(heard)]}
        ELSE {[path |-> chosen[primary], conflicts |-> {chosen[key] : key \in others},
               directions |-> DirectionalPaths(heard)] : chosen \in Choices}

-----------------------------------------------------------------------------
(* What counts as a change *)

\* Another port of the same address is no other path.
SameDirectionalPath(left, right) ==
    /\ PathEvidenceKey(left) = PathEvidenceKey(right)
    /\ left.kind = "direct" => left.endpoint.address = right.endpoint.address
    /\ left.kind = "peer_relay" => /\ left.endpoint = right.endpoint
                                   /\ left.vni = right.vni
                                   /\ left.resolution = right.resolution

SameSaying(left, right) ==
    /\ left.evidence = right.evidence
    /\ SameDirectionalPath(left.path, right.path)
    /\ (left.fallback = Nothing) = (right.fallback = Nothing)
    /\ left.fallback # Nothing => SameDirectionalPath(left.fallback, right.fallback)

SameDirectionalPaths(left, right) ==
    DOMAIN left = DOMAIN right /\ \A o \in DOMAIN left : SameSaying(left[o], right[o])

Keys(paths) == {PathEvidenceKey(path) : path \in paths}

FaultySamePathEvidence(left, right) ==
    /\ left.path = right.path /\ left.conflicts = right.conflicts
    /\ SameDirectionalPaths(left.directions, right.directions)

SamePathEvidence(left, right) ==
    /\ PathEvidenceKey(left.path) = PathEvidenceKey(right.path)
    /\ Keys(left.conflicts) = Keys(right.conflicts)
    /\ SameDirectionalPaths(left.directions, right.directions)

-----------------------------------------------------------------------------
(* Reports *)

Said(live) == [o \in DOMAIN live |-> live[o].said]

\* The end of applyLocked: every edge the report touched is reconciled once
\* more, and a change goes to History.
Settle ==
    \E live \in {Live(observations', now)} :
        /\ \E heard \in {Evidence(live)} : \E current \in Snapshots(heard, lastKnown.path) :
               /\ transitions' = IF lastKnown.path.kind = "" \/ ~SamePathEvidence(lastKnown, current)
                                 THEN <<current>> ELSE <<>>
               /\ lastKnown' = current
        /\ recorded' = IF transitions' = <<>> THEN recorded ELSE transitions'[1]
        /\ told' = live

LeaveAlone ==
    /\ transitions' = <<>>
    /\ UNCHANGED <<lastKnown, recorded, told>>

Observe(said) ==
    observations' = [o \in Observers |->
        IF o \in DOMAIN said THEN [said |-> said[o], receivedAt |-> now, withdrawnAt |-> 0]
        ELSE observations[o]]

\* A traffic sample of one end, or of both when one exporter serves both.
Traffic(said) ==
    /\ Observe(said)
    /\ Settle
    /\ UNCHANGED <<membership, now>>

\* A relay names itself and its session, not the endpoint it is reached at.
Session(relay, vni) ==
    [path |-> [NoPath EXCEPT !.kind = "peer_relay", !.stable = relay,
                             !.resolution = "relay_session", !.vni = vni],
     fallback |-> Nothing, evidence |-> "observed"]

RelaySession(relay, vni) ==
    /\ Observe([o \in {relay} |-> Session(relay, vni)])
    /\ Settle
    /\ UNCHANGED <<membership, now>>

FaultyObservedBy(batch) == \E o \in batch : observations'[o] # Unobserved

\* markObserverEdgesTouchedLocked
ObservedBy(batch) == \E o \in batch : observations[o] # Unobserved

\* A hello or an inventory: an end that no longer lists the other loses what it
\* said.  The peers of a relay's inventory are ends of other edges.
Inventory(listed) ==
    LET gone == {o \in Ends \cap DOMAIN listed : membership[o] /\ ~listed[o]}
    IN  /\ observations' = [o \in Observers |-> IF o \in gone THEN Unobserved ELSE observations[o]]
        /\ membership' = [o \in Ends |-> IF o \in DOMAIN listed THEN listed[o] ELSE membership[o]]
        /\ IF ObservedBy(DOMAIN listed) THEN Settle ELSE LeaveAlone
        /\ UNCHANGED now

Withdrawal(batch) ==
    /\ observations' = [o \in Observers |->
           IF o \in batch /\ observations[o] # Unobserved
           THEN [observations[o] EXCEPT !.withdrawnAt = now] ELSE observations[o]]
    /\ IF ObservedBy(batch) THEN Settle ELSE LeaveAlone
    /\ UNCHANGED <<membership, now>>

Tick ==
    /\ now < MaxTime
    /\ now' = now + 1
    /\ UNCHANGED <<observations, membership, lastKnown, transitions, recorded, told>>

SomeOf(S) == (SUBSET S) \ {{}}

Next ==
    \/ \E batch \in SomeOf(Ends) : \E said \in [batch -> Sayings] : Traffic(said)
    \/ \E relay \in Relays, vni \in VNIs : RelaySession(relay, vni)
    \/ \E batch \in SomeOf(Observers) : \E listed \in [batch -> BOOLEAN] : Inventory(listed)
    \/ \E batch \in SomeOf(Observers) : Withdrawal(batch)
    \/ Tick

Spec == Init /\ [][Next]_vars

-----------------------------------------------------------------------------
(* Properties *)

Observation ==
    [said : Sayings \cup {Session(relay, vni) : relay \in Relays, vni \in VNIs},
     receivedAt : Nat \ {0}, withdrawnAt : Nat]

\* Type correctness, of the path an edge is shown with too: it has a kind as
\* soon as the edge was reconciled.
TypeOK ==
    /\ observations \in [Observers -> Observation \cup {Unobserved}]
    /\ membership \in [Ends -> BOOLEAN]
    /\ now \in Nat \ {0}
    /\ DOMAIN told \subseteq Observers
    /\ \A o \in DOMAIN told : told[o] \in Observation
    /\ lastKnown.path.kind \in Kinds \/ lastKnown = NoEvidence

\* The last event is what a reader of Live is shown, in whatever order its
\* request meets the observations, until evidence ages that was live when a
\* report last reconciled the edge: no report changes what Live shows without an
\* event, whoever it withdraws, drops or contradicts (applyLocked's
\* touchedEdges, markObserverEdgesTouchedLocked).
HistoryTellsLive ==
    lastKnown # NoEvidence /\ (\A o \in DOMAIN told : now - told[o].receivedAt <= EvidenceWindow) =>
        \A heard \in {Evidence(Live(observations, now))} :
            \A shown \in Snapshots(heard, lastKnown.path) : SamePathEvidence(recorded, shown)

\* A report after which everybody says what they said before leaves no event.
SilentIfNothingIsNew ==
    now' = now /\ SameDirectionalPaths(Said(told), Said(told')) => transitions' = <<>>

\* The path an edge is shown with gives way only when nobody says it any more.
SwitchesIfUnsupported ==
    LET old == PathEvidenceKey(lastKnown.path)
    IN  lastKnown # NoEvidence /\ PathEvidenceKey(lastKnown'.path) # old =>
            old \notin KeysOf(Evidence(Live(observations', now')))

\* "selects a stable primary without using cross-observer receipt order as a
\* path signal" (path_evidence.go): neither the order in which observers report
\* nor that in which their map is walked makes a path event or moves the path of
\* an edge from one that is still said to another.
NoEventWithoutCause == [][SilentIfNothingIsNew /\ SwitchesIfUnsupported]_vars

=============================================================================
