---------------------------- MODULE CanonicalNodes ----------------------------
(* Which canonical node a report or the device directory speaks of: aliases,   *)
(* placeholders, merges and redirects, and everything that refers to a node -  *)
(* edges, inventories, ownership, relay scopes, the directory                  *)
(* (internal/aggregate/aggregator.go).  One action applies a whole report, one *)
(* a whole directory snapshot, as applyLocked and applyDirectorySnapshotLocked *)
(* do under the lock; the steps inside are operators from a state to a state.  *)
(*                                                                             *)
(* Abstractions.  A report here is one the sequence fence let pass             *)
(* (ReportIngest).  An edge is its two ends and the observers with evidence on *)
(* it; rates, paths, metadata and the telemetry mark are left out, and of the  *)
(* identity status only whether it is resolved.  Node ids are drawn at random: *)
(* Orders are the orders in which the first ones may come.  A zero time is 0.  *)
(*                                                                             *)
(* A definition called Faulty... is the definition that follows it with one    *)
(* plausible bug; the specification uses none of them.                         *)
EXTENDS Integers, FiniteSets, Sequences, SequencesExt, FiniteSetsExt

CONSTANTS
    Reporters,
    StableIds, NodeKeys, DiscoKeys, Addresses,  \* what names a device
    Reports,        \* the reports that may come
    Directories,    \* the device lists that may come
    Orders,         \* the orders in which node ids may come
    None,           \* no value, no name, no reporter
    EvidenceWindow, \* two heartbeat intervals, in clock ticks
    NodeWindow,     \* four of them
    Gaps,           \* the time between two steps
    MaxSteps        \* bound: reports and snapshots in all

Names      == StableIds \cup NodeKeys \cup DiscoKeys \cup Addresses
Identities == [stable : StableIds \cup {None}, key : NodeKeys \cup {None},
               disco : DiscoKeys \cup {None}, ip : Addresses \cup {None}]

Relays       == {None} \cup [stable : StableIds, vni : Int]
Observations == [observer : Identities, peers : Seq([identity : Identities, via : Relays])]
Clients      == [id : STRING, identity : Identities]
Sessions     == [relay : Identities, vni : Int, id : STRING, source : Clients, target : Clients]

\* An alias has a prefix for its kind (identityAliases).
ASSUME NamesAssumption ==
    /\ StableIds \cap (NodeKeys \cup DiscoKeys \cup Addresses) = {}
    /\ NodeKeys \cap (DiscoKeys \cup Addresses) = {} /\ DiscoKeys \cap Addresses = {}
    /\ None \notin Names \cup Reporters
ASSUME ReportsAssumption ==
    \A report \in Reports :
        /\ report.by \in Reporters
        /\ report.parts \in Seq(IF report.kind = "relay" THEN Sessions ELSE Observations)
ASSUME DirectoriesAssumption ==
    Directories \subseteq Seq([stable : StableIds, key : NodeKeys \cup {None}])
ASSUME OrdersAssumption ==
    \A order \in Orders : order \in Seq(1 .. Len(order)) /\ IsInjective(order)
ASSUME WindowsAssumption ==
    /\ EvidenceWindow \in Nat /\ NodeWindow \in Nat /\ EvidenceWindow <= NodeWindow
    /\ Gaps \subseteq Nat \ {0} /\ MaxSteps \in Nat

VARIABLES
    state,  \* Aggregator.state, see Empty
    broken, \* an apply ended in a nil dereference
    steps   \* history, for the bound

vars == <<state, broken, steps>>

NoFunction == [x \in {} |-> None]

\* newRuntimeState.  `given` counts the ids given out, `touched` is touchedEdges.
Empty(order) ==
    [now       |-> 0,
     live      |-> {},                       \* the keys of Nodes
     stable    |-> NoFunction,               \* node -> Identity.StableNodeID
     resolved  |-> {},                       \* IdentityStatus
     report    |-> NoFunction,               \* node -> LastReport
     alias     |-> NoFunction,
     seen      |-> NoFunction,               \* AliasLastSeen
     redirect  |-> NoFunction,
     edges     |-> NoFunction,               \* {a, b} -> its observers
     observers |-> NoFunction,               \* node -> [owner, members]
     holds     |-> [r \in Reporters |-> {}], \* reporterState.ObserverIDs
     scopes    |-> NoFunction,               \* <<relay, vni>> -> scope
     canonical |-> NoFunction,               \* Directory.CanonicalIDs
     order     |-> order,
     given     |-> 0,
     touched   |-> {},
     broken    |-> FALSE]

Init ==
    /\ state \in {Empty(order) : order \in Orders}
    /\ broken = FALSE
    /\ steps = 0

NewScope   == [pair |-> {}, pairAt |-> 0, conflictAt |-> 0, seen |-> 0, sessions |-> NoFunction]
NewSession == [clients |-> NoFunction, ends |-> <<None, None>>, seen |-> 0]

Within(s, at, window) == s.now - at <= window

-----------------------------------------------------------------------------
(* Merging two nodes *)

\* The entries under keys become value, or are added.
Put(f, keys, value) ==
    [k \in DOMAIN f \cup keys |-> IF k \in keys THEN value ELSE f[k]]

\* The id under which the node n goes on.
Renamed(n, keep, remove) == IF n = remove THEN keep ELSE n

\* mergeObserverRuntimeStatesLocked
MergedObservers(s, keep, remove) ==
    LET To(n) == Renamed(n, keep, remove)
        k == s.observers[keep]
        r == s.observers[remove]
        newer == s.report[remove] > s.report[keep]
        both == [owner   |-> IF newer \/ k.owner = None THEN r.owner ELSE k.owner,
                 members |-> k.members \cup r.members]
        Joined(o) == IF o # keep \/ remove \notin DOMAIN s.observers THEN s.observers[o]
                     ELSE IF keep \notin DOMAIN s.observers THEN r
                     ELSE both
    IN  [o \in {To(p) : p \in DOMAIN s.observers} |->
            [Joined(o) EXCEPT !.members = {To(m) : m \in @}]]

FaultyMergedHolds(s, observers, keep, remove) ==
    [r \in Reporters |->
        IF remove \in s.holds[r] THEN (s.holds[r] \ {remove}) \cup {keep} ELSE s.holds[r]]

\* Its last part: which reporter lists the merged node.
MergedHolds(s, observers, keep, remove) ==
    LET Owned(r) == keep \in DOMAIN observers /\ observers[keep].owner = r
    IN  [r \in Reporters |->
            (s.holds[r] \ {keep, remove}) \cup (IF Owned(r) THEN {keep} ELSE {})]

FaultyMergedEdges(edges, keep, remove) ==
    [e \in {f \in DOMAIN edges : remove \notin f} |-> edges[e]]

\* rebuildEdgesLocked: parallel edges become one, an edge to oneself goes.
MergedEdges(edges, keep, remove) ==
    LET To(n) == Renamed(n, keep, remove)
        Ends(e) == {To(n) : n \in e}
        kept == {e \in DOMAIN edges : Cardinality(Ends(e)) = 2}
    IN  [f \in {Ends(e) : e \in kept} |->
            UNION {{To(o) : o \in edges[e]} : e \in {g \in kept : Ends(g) = f}}]

Later(a, b) == IF b > a THEN b ELSE a

\* mergeRelayScopes
MergedScope(keep, update) ==
    LET newer == update.pairAt > keep.pairAt
        Session(x) ==
            IF x \notin DOMAIN keep.sessions THEN update.sessions[x]
            ELSE IF x \notin DOMAIN update.sessions THEN keep.sessions[x]
            ELSE IF update.sessions[x].seen > keep.sessions[x].seen THEN update.sessions[x]
            ELSE keep.sessions[x]
    IN  [pair       |-> IF newer THEN update.pair ELSE keep.pair,
         pairAt     |-> Later(keep.pairAt, update.pairAt),
         conflictAt |-> Later(keep.conflictAt, update.conflictAt),
         seen       |-> Later(keep.seen, update.seen),
         sessions   |-> [x \in DOMAIN keep.sessions \cup DOMAIN update.sessions |-> Session(x)]]

FaultyMergedScopes(scopes, keep, remove) == scopes

\* replaceRelayNodeReferencesLocked
MergedScopes(scopes, keep, remove) ==
    LET To(n) == Renamed(n, keep, remove)
        Key(k) == <<To(k[1]), k[2]>>
        OfSession(session) ==
            [session EXCEPT !.ends = <<To(@[1]), To(@[2])>>,
                            !.clients = [c \in DOMAIN @ |-> To(@[c])]]
        Moved(k) ==
            [scopes[k] EXCEPT !.pair = {To(n) : n \in @},
                              !.sessions = [x \in DOMAIN @ |-> OfSession(@[x])]]
    IN  [k \in {Key(q) : q \in DOMAIN scopes} |->
            IF k[1] # keep \/ <<remove, k[2]>> \notin DOMAIN scopes THEN Moved(k)
            ELSE IF k \notin DOMAIN scopes THEN Moved(<<remove, k[2]>>)
            ELSE MergedScope(Moved(k), Moved(<<remove, k[2]>>))]

FaultyRedirected(redirect, keep, remove) ==
    [n \in DOMAIN redirect \cup {remove} |-> IF n = remove THEN keep ELSE redirect[n]]

\* Redirects are rewritten, so that each leads to a node in one step.
Redirected(redirect, keep, remove) ==
    [n \in DOMAIN redirect \cup {remove} |->
        IF n = remove \/ redirect[n] = remove THEN keep ELSE redirect[n]]

FaultyFollowed(canonical, keep, remove) == canonical

\* replaceDirectoryNodeReferencesLocked
Followed(canonical, keep, remove) ==
    [d \in DOMAIN canonical |-> IF canonical[d] = remove THEN keep ELSE canonical[d]]

\* What a node has become.
Became(s, n) == IF n \in DOMAIN s.redirect THEN s.redirect[n] ELSE n

\* mergeNodesLocked
Merge(s, keep, remove) ==
    LET To(n) == Renamed(n, keep, remove)
        observers == MergedObservers(s, keep, remove)
    IN  IF keep = remove \/ ~({keep, remove} \subseteq s.live) THEN s
        ELSE [s EXCEPT
                !.live = @ \ {remove},
                !.stable = [n \in DOMAIN @ \ {remove} |->
                    IF n = keep /\ @[n] = None THEN s.stable[remove] ELSE @[n]],
                !.resolved = {To(n) : n \in @},
                !.report = [n \in DOMAIN @ \ {remove} |->
                    IF n = keep THEN Later(@[n], s.report[remove]) ELSE @[n]],
                !.redirect = Redirected(@, keep, remove),
                !.alias = [a \in DOMAIN @ |-> To(@[a])],
                !.observers = observers,
                !.holds = MergedHolds(s, observers, keep, remove),
                !.edges = MergedEdges(@, keep, remove),
                !.scopes = MergedScopes(@, keep, remove),
                !.canonical = Followed(@, keep, remove)]

-----------------------------------------------------------------------------
(* From an identity to a node.  What is resolved is [node, state]. *)

Strong(identity) == {identity.stable, identity.key, identity.disco} \ {None}

\* conflictingStableAliasLocked: the alias belongs to another stable node.
Conflicts(s, stable, alias) ==
    alias \in DOMAIN s.alias /\ s.stable[s.alias[alias]] \notin {None, stable}

FaultyWithoutConflict(s, identity) == identity

\* withoutConflictingStableAliasesLocked
WithoutConflict(s, identity) ==
    IF identity.stable # None /\ Conflicts(s, identity.stable, identity.key)
    THEN [identity EXCEPT !.key = None]
    ELSE identity

\* canUseAddressMatch; an expired address was pruned before.
AddressMatches(s, identity) ==
    /\ identity.ip \in DOMAIN s.alias
    /\ identity.stable # None => ~Conflicts(s, identity.stable, identity.ip)

Matches(s, identity) ==
    {s.alias[a] : a \in Strong(identity) \cap DOMAIN s.alias} \cup
    (IF AddressMatches(s, identity) THEN {s.alias[identity.ip]} ELSE {})

First(nodes) == CHOOSE n \in nodes : \A m \in nodes : n <= m

IdAt(order, i) == IF i \in DOMAIN order THEN order[i] ELSE i

FaultyNewNode(s) ==
    LET n == IdAt(s.order, s.given + 1)
    IN  [node  |-> n,
         state |-> [s EXCEPT !.live = @ \cup {n},
                             !.stable = Put(@, {n}, None),
                             !.report = Put(@, {n}, 0)]]

\* newNodeID and the nodeState that goes with it.
NewNode(s) ==
    LET n == IdAt(s.order, s.given + 1)
    IN  [node  |-> n,
         state |-> [s EXCEPT !.live = @ \cup {n},
                             !.stable = Put(@, {n}, None),
                             !.report = Put(@, {n}, 0),
                             !.given = @ + 1]]

\* In the order of the ids.
MergeAll(s, keep, nodes) ==
    MapThenFoldSet(LAMBDA n, t : Merge(t, keep, n), s, LAMBDA n : n, LAMBDA ns : Max(ns), nodes)

\* The node that is found or made, before it takes the identity on.
Found(s, identity, found) ==
    LET keep == IF identity.stable \in DOMAIN s.alias THEN s.alias[identity.stable] ELSE First(found)
    IN  IF found = {} THEN NewNode(s)
        ELSE [node |-> keep, state |-> MergeAll(s, keep, found \ {keep})]

Identified(s, n, identity) ==
    LET address == {identity.ip} \ {None}
    IN  [node  |-> n,
         state |-> [s EXCEPT
             !.stable[n] = IF identity.stable # None THEN identity.stable ELSE @,
             !.resolved = IF Strong(identity) # {} THEN @ \cup {n} ELSE @,
             !.alias = Put(@, Strong(identity) \cup address, n),
             !.seen = Put(@, address, s.now)]]

\* resolveIdentityLocked
Resolve(s, given) ==
    LET identity == WithoutConflict(s, given)
        found == Found(s, identity, Matches(s, identity))
    IN  Identified(found.state, found.node, identity)

\* lookupIdentityLocked: the first alias that is known, or None.
Lookup(s, identity) ==
    LET known == SelectSeq(<<identity.stable, identity.key, identity.disco>>,
                           LAMBDA a : a \in DOMAIN s.alias)
    IN  IF known # <<>> THEN s.alias[known[1]]
        ELSE IF AddressMatches(s, identity) THEN s.alias[identity.ip]
        ELSE None

-----------------------------------------------------------------------------
(* Relay scopes *)

WithScope(s, key) ==
    [s EXCEPT !.scopes =
        Put(@, {key}, [IF key \in DOMAIN @ THEN @[key] ELSE NewScope EXCEPT !.seen = s.now])]

\* The scope that was held under this key, should its relay have been merged.
Where(s, key) == IF key \in DOMAIN s.scopes THEN key ELSE <<Became(s, key[1]), key[2]>>

\* One session of reconcileRelayScopeLocked: the end that is still open becomes
\* the other member of the pair.
Infer(s, key, x) ==
    LET scope == s.scopes[Where(s, key)]
        session == scope.sessions[x]
        Open(i) == /\ session.ends[3 - i] \in scope.pair
                   /\ session.ends[i] \in s.live \ (scope.pair \cup s.resolved)
        Complement(n) == IF scope.pair = {n} THEN n ELSE CHOOSE m \in scope.pair \ {n} : TRUE
    IN  IF Within(s, session.seen, EvidenceWindow) /\ \E i \in 1 .. 2 : Open(i)
        THEN LET i == CHOOSE j \in 1 .. 2 : Open(j)
             IN  Merge(s, Complement(session.ends[3 - i]), session.ends[i])
        ELSE s

\* reconcileRelayScopeLocked
Reconcile(s, key) ==
    LET scope == s.scopes[key]
        inConflict == scope.conflictAt # 0 /\ Within(s, scope.conflictAt, EvidenceWindow)
    IN  IF scope.pair = {} \/ ~Within(s, scope.pairAt, EvidenceWindow) \/ inConflict THEN s
        ELSE FoldSet(LAMBDA x, t : Infer(t, key, x), s, DOMAIN scope.sessions)

\* recordRelayPairLocked
RecordPair(s, key, pair) ==
    LET t == WithScope(s, key)
        scope == t.scopes[key]
        expired == scope.pairAt = 0 \/ ~Within(s, scope.pairAt, EvidenceWindow)
        recorded ==
            IF expired THEN [scope EXCEPT !.pair = pair, !.pairAt = s.now, !.conflictAt = 0]
            ELSE IF scope.pair = pair THEN [scope EXCEPT !.pairAt = s.now]
            ELSE [scope EXCEPT !.conflictAt = s.now]
    IN  IF Cardinality(pair) < 2 THEN s
        ELSE Reconcile([t EXCEPT !.scopes[key] = recorded], key)

MergedInto(found, existing) ==
    IF existing = None THEN found ELSE [found EXCEPT !.state = Merge(@, found.node, existing)]

Bound(found, key, x, client) ==
    [found EXCEPT !.state.scopes[Where(found.state, key)].sessions[x].clients =
        Put(@, {client}, found.node)]

\* resolveRelayClientLocked
ResolveClient(s, key, x, client) ==
    LET bound == s.scopes[key].sessions[x].clients
        existing == IF client.id \in DOMAIN bound THEN bound[client.id] ELSE None
    IN  Bound(IF Strong(client.identity) # {} THEN MergedInto(Resolve(s, client.identity), existing)
              ELSE IF existing # None THEN [node |-> existing, state |-> s]
              ELSE NewNode(s),
              key, x, client.id)

Touch(s, edge, observer) ==
    [s EXCEPT
        !.touched = @ \cup {edge},
        !.edges = Put(@, {edge}, {observer} \cup IF edge \in DOMAIN @ THEN @[edge] ELSE {})]

-----------------------------------------------------------------------------
(* Ownership and observers *)

\* claimReporterObserverLocked
Claim(s, reporter, o) ==
    LET members == IF o \in DOMAIN s.observers THEN s.observers[o].members ELSE {}
    IN  [s EXCEPT
            !.observers = Put(@, {o}, [owner |-> reporter, members |-> members]),
            !.holds = [r \in Reporters |-> IF r = reporter THEN @[r] \cup {o} ELSE @[r] \ {o}]]

\* touchObserverLocked
Reported(s, o) == [s EXCEPT !.report[o] = s.now]

\* markObserverEdgesTouchedLocked
TouchObserved(s, o) ==
    [s EXCEPT !.touched = @ \cup {e \in DOMAIN s.edges : o \in s.edges[e]}]

\* reporterOwnsObserversLocked
OwnsAll(s, report) ==
    \A i \in 1 .. Len(report.parts) :
        LET o == Lookup(s, report.parts[i].observer)
        IN  o \in DOMAIN s.observers /\ s.observers[o].owner = report.by

-----------------------------------------------------------------------------
(* What one observer's part of a report does *)

\* The nodes of the peers, and the state once all of them are resolved.
Resolved(s, peers) ==
    LET Add(acc, p) ==
            LET found == Resolve(acc.state, p.identity)
            IN  [state |-> found.state, members |-> acc.members \cup {found.node}]
    IN  FoldLeft(Add, [state |-> s, members |-> {}], peers)

Members(s, o, peers) ==
    LET all == Resolved(s, peers)
    IN  [state |-> TouchObserved(all.state, o), members |-> all.members]

\* replaceInventoryLocked
Listed(all, o) ==
    LET gone == {{o, p} : p \in all.state.observers[o].members \ all.members}
    IN  IF o \notin DOMAIN all.state.observers THEN [all.state EXCEPT !.broken = TRUE]
        ELSE [all.state EXCEPT
                !.edges = [e \in DOMAIN @ |-> IF e \in gone THEN @[e] \ {o} ELSE @[e]],
                !.observers[o].members = all.members]

\* A peer with traffic; `via` is the relay its path names, with the VNI.
Sampled(peer, o, via) ==
    LET t == [peer.state EXCEPT !.touched = @ \cup {{o, peer.node}}]
        Relayed(relay) == RecordPair(relay.state, <<relay.node, via.vni>>, {o, peer.node})
    IN  IF via = None THEN t
        ELSE Relayed(Resolve(t, [stable |-> via.stable, key |-> None, disco |-> None, ip |-> None]))

Sample(s, o, p) ==
    LET peer == Resolve(s, p.identity)
    IN  Touch(Sampled(peer, o, p.via), {o, peer.node}, o)

Samples(s, o, peers) == FoldLeft(LAMBDA t, p : Sample(t, o, p), s, peers)

Observed(found, report, peers) ==
    LET o == found.node
        t == Reported(IF report.kind = "hello" THEN Claim(found.state, report.by, o) ELSE found.state, o)
    IN  IF report.kind \in {"hello", "inventory"} THEN Listed(Members(t, o, peers), o)
        ELSE IF o \notin DOMAIN t.observers THEN [t EXCEPT !.broken = TRUE]
        ELSE Samples(t, o, peers)

Observe(s, report, part) == Observed(Resolve(s, part.observer), report, part.peers)

Withdraw(s, report, part) ==
    LET o == Lookup(s, part.observer)
    IN  IF o \notin DOMAIN s.observers THEN s
        ELSE IF s.observers[o].owner # report.by THEN s
        ELSE [TouchObserved(Reported(s, o), o) EXCEPT
                 !.observers[o].owner = None, !.holds[report.by] = @ \ {o}]

\* A session under way: the key of its scope, and the ends found so far.
Opened(relay, by, session) ==
    LET key == <<relay.node, session.vni>>
        t == WithScope(Claim(Reported(relay.state, relay.node), by, relay.node), key)
    IN  [key   |-> key,
         ends  |-> <<>>,
         state |-> [t EXCEPT !.scopes[key].sessions =
                       Put(@, {session.id}, [IF session.id \in DOMAIN @ THEN @[session.id]
                                             ELSE NewSession EXCEPT !.seen = t.now])]]

Ended(open, found) ==
    [key |-> open.key, ends |-> Append(open.ends, found.node), state |-> found.state]

\* resolveRelaySessionLocked, once both clients are resolved.
Paired(open, session) ==
    LET key == Where(open.state, open.key)
        t == [open.state EXCEPT !.scopes[key].sessions[session.id].ends = open.ends]
        named == {Strong(session.source.identity), Strong(session.target.identity)}
    IN  IF open.ends[1] = open.ends[2] THEN t
        ELSE IF {} \notin named THEN RecordPair(t, open.key, ToSet(open.ends))
        ELSE Reconcile(t, key)

\* applyRelaySessionLocked
Linked(s, key, x) ==
    LET final == ToSet(s.scopes[Where(s, key)].sessions[x].ends)
    IN  IF Cardinality(final) = 1 THEN s ELSE Touch(s, final, key[1])

\* One session of a relay report.
Session(s, report, session) ==
    LET WithClient(open, client) ==
            Ended(open, ResolveClient(open.state, Where(open.state, open.key), session.id, client))
        Finish(open) == Linked(Paired(open, session), open.key, session.id)
    IN  Finish(WithClient(WithClient(Opened(Resolve(s, session.relay), report.by, session),
                                     session.source),
                          session.target))

\* Addresses that were not confirmed for long.
Expired(s) == {a \in DOMAIN s.seen : ~Within(s, s.seen[a], NodeWindow)}

\* pruneIndexesLocked, as far as it concerns nodes.
Prune(s) ==
    LET gone == Expired(s)
        kept == {k \in DOMAIN s.scopes : Within(s, s.scopes[k].seen, NodeWindow)}
        Conflict(at) == IF Within(s, at, EvidenceWindow) THEN at ELSE 0
        Fresh(sessions) == {x \in DOMAIN sessions : Within(s, sessions[x].seen, NodeWindow)}
        OfScope(scope) == [scope EXCEPT !.conflictAt = Conflict(@),
                                        !.sessions = [x \in Fresh(@) |-> @[x]]]
    IN  [s EXCEPT
            !.alias = [a \in DOMAIN @ \ gone |-> @[a]],
            !.seen = [a \in DOMAIN @ \ gone |-> @[a]],
            !.scopes = [k \in kept |-> OfScope(@[k])]]

\* One observer of a report, or one session of a relay's.
Apply(s, report, part) ==
    CASE report.kind = "relay"      -> Session(s, report, part)
      [] report.kind = "withdrawal" -> Withdraw(s, report, part)
      [] OTHER                      -> Observe(s, report, part)

\* applyLocked, after the sequence fence.
Handled(s, report) == FoldLeft(LAMBDA t, part : Apply(t, report, part), s, report.parts)

-----------------------------------------------------------------------------
(* The directory *)

\* resolveDirectoryDeviceLocked
ResolveDevice(s, device, keyInConflict) ==
    LET usable == /\ device.key \in DOMAIN s.alias /\ ~keyInConflict
                  /\ ~Conflicts(s, device.stable, device.key)
        known == device.stable \in DOMAIN s.alias
        n == s.alias[device.key]
        attached == [s EXCEPT !.stable[n] = device.stable,
                              !.resolved = @ \cup {n},
                              !.alias = Put(@, {device.stable}, n)]
    IN  CASE usable /\ ~known -> [node |-> n, state |-> attached]
          [] usable /\ known -> [node  |-> s.alias[device.stable],
                                 state |-> Merge(s, s.alias[device.stable], n)]
          [] ~usable /\ known -> [node |-> s.alias[device.stable], state |-> s]
          [] OTHER -> Resolve(s, [stable |-> device.stable, key |-> None, disco |-> None, ip |-> None])

\* ConflictingNodeKeys
SharedKey(devices, i) ==
    devices[i].key # None /\ \E j \in 1 .. Len(devices) : j # i /\ devices[j].key = devices[i].key

\* applyDirectorySnapshotLocked; the new CanonicalIDs are in use only at the end.
WithDirectory(s, devices) ==
    LET Step(acc, i) ==
            LET found == ResolveDevice(acc.state, devices[i], SharedKey(devices, i))
            IN  [state |-> found.state, ids |-> Put(acc.ids, {devices[i].stable}, found.node)]
        all == FoldLeftDomain(Step, [state |-> s, ids |-> NoFunction], devices)
    IN  [all.state EXCEPT !.canonical = all.ids]

-----------------------------------------------------------------------------
\* The clone that was worked on takes the place of the state, unless a nil
\* dereference ended the work.
Commit(s) ==
    IF s.broken \/ ~(s.touched \subseteq DOMAIN s.edges)
    THEN broken' = TRUE /\ UNCHANGED state
    ELSE state' = [s EXCEPT !.touched = {}] /\ UNCHANGED broken

At(gap) == [state EXCEPT !.now = @ + gap]

ApplyReport(report, gap) ==
    /\ steps < MaxSteps
    /\ steps' = steps + 1
    /\ LET s == Prune(At(gap))
       IN  /\ report.kind \notin {"hello", "withdrawal", "relay"} => OwnsAll(s, report)
           /\ Commit(Handled(s, report))

ApplyDirectory(devices, gap) ==
    /\ steps < MaxSteps
    /\ steps' = steps + 1
    /\ Commit(WithDirectory(At(gap), devices))

Next ==
    \E gap \in Gaps :
        \/ \E report \in Reports : ApplyReport(report, gap)
        \/ \E devices \in Directories : ApplyDirectory(devices, gap)

Spec == Init /\ [][Next]_vars

-----------------------------------------------------------------------------
(* Properties *)

\* The state has its shape between two steps: an id is given out once, and
\* stays that of a node or of a redirect; only addresses that lead somewhere
\* have a time (pruneIndexesLocked).
TypeOK ==
    /\ broken \in BOOLEAN /\ steps \in 0 .. MaxSteps
    /\ state.touched = {} /\ ~state.broken
    /\ state.live \cup DOMAIN state.redirect = {IdAt(state.order, i) : i \in 1 .. state.given}
    /\ DOMAIN state.stable = state.live /\ DOMAIN state.report = state.live
    /\ state.resolved \subseteq state.live
    /\ DOMAIN state.seen \subseteq DOMAIN state.alias

\* However reports and directory snapshots make nodes merge, every index that
\* answers who somebody is leads to a node that is there: aliases, observers and
\* who reports for them, the directory, and the redirects of older merges, of
\* which readers follow only one.  The stable id a node carries, and the one the
\* directory lists it under, is the alias that finds the node (mergeNodesLocked,
\* resolveIdentityLocked, resolveDirectoryDeviceLocked).
IndexesLead ==
    /\ Range(state.alias) \cup Range(state.redirect) \subseteq state.live
    /\ DOMAIN state.redirect \cap state.live = {}
    /\ DOMAIN state.observers \cup UNION Range(state.holds) \subseteq state.live
    /\ \A n \in state.live :
           state.stable[n] # None =>
               state.stable[n] \in DOMAIN state.alias /\ state.alias[state.stable[n]] = n
    /\ \A x \in DOMAIN state.canonical :
           x \in DOMAIN state.alias /\ state.canonical[x] = state.alias[x]

\* Nothing that was said of nodes is about one that is gone: edges and who has
\* evidence on them, inventories, relay scopes and their clients.
NothingDangles ==
    LET NodesOfScope(k) ==
            LET scope == state.scopes[k]
            IN  {k[1]} \cup scope.pair \cup
                UNION {Range(scope.sessions[x].clients) \cup ToSet(scope.sessions[x].ends)
                          : x \in DOMAIN scope.sessions}
    IN  /\ \A e \in DOMAIN state.edges : e \cup state.edges[e] \subseteq state.live
        /\ \A o \in DOMAIN state.observers : state.observers[o].members \subseteq state.live
        /\ \A k \in DOMAIN state.scopes : NodesOfScope(k) \subseteq state.live

\* Two nodes, each claimed by a reporter of its own, turn out to be one: the
\* owner the observer names and the reporter that lists it stay the same one,
\* or nobody could withdraw it (mergeObserverRuntimeStatesLocked).
OneOwnerThroughMerges ==
    \A r \in Reporters :
        state.holds[r] = {o \in DOMAIN state.observers : state.observers[o].owner = r}

\* No report runs into a node, an observer or an edge that its own first part
\* merged away (touchedEdges at the end of applyLocked).
ReportsComplete == ~broken

Now(n) == Became(state', n)

\* A node may only disappear into another one; a strong alias, once known,
\* leads to the same node for good, or to the one it was merged into; and an
\* edge between two nodes lives on between the nodes they were merged into,
\* unless these are one ("migrate current edge references", docs/data-model.md).
ReferencesFollow ==
    [][/\ \A n \in state.live : Now(n) \in state'.live
       /\ \A a \in DOMAIN state.alias \ Addresses :
              a \in DOMAIN state'.alias /\ state'.alias[a] = Now(state.alias[a])
       /\ \A m, n \in state.live :
              {m, n} \in DOMAIN state.edges /\ Now(m) # Now(n) =>
                  {Now(m), Now(n)} \in DOMAIN state'.edges]_vars

\* Two devices with a stable id each never become one node, whatever the
\* directory, inventories and traffic say of keys and addresses.  Relay
\* telemetry is another matter: a wrong inference can join them.
RelayStep ==
    \E k \in DOMAIN state'.scopes : \E x \in DOMAIN state'.scopes[k].sessions :
        state'.scopes[k].sessions[x].seen = state'.now

Apart(s) == {p \in s.live \X s.live : p[1] # p[2] /\ None \notin {s.stable[p[1]], s.stable[p[2]]}}

DevicesKeptApart ==
    [][~RelayStep => \A p \in Apart(state) : Now(p[1]) # Now(p[2])]_vars

=============================================================================
