---------------------------- MODULE ReportIngest ----------------------------
(* The report fence of the server: Aggregator.applyLocked and the helpers it   *)
(* calls for reporters, observers and edge observations                        *)
(* (internal/aggregate/aggregator.go).  One action per report kind, plus the   *)
(* three ways a report is refused before it has an effect.                     *)
(*                                                                             *)
(* Abstractions.  An observer, a peer and the pair of nodes a relay session    *)
(* connects are already canonical: identity resolution is another component.   *)
(* A report id is the sequence its reporter gave it (the exporter draws both   *)
(* together).  A generation stands for the peer list it hashes.  Paths, rates, *)
(* the collector's own clock and the persisted last-known path are left out.   *)
(* A zero time.Time is 0; the server's clock starts at 1.                      *)
(*                                                                             *)
(* A definition called Faulty... is the definition that follows it with one    *)
(* plausible bug; the specification uses none of them.                         *)
EXTENDS Integers, FiniteSets

CONSTANTS
    Reporters,        \* reporter instances: one per exporter process
    Observers,        \* canonical nodes that report for themselves
    Peers,            \* the far ends of the edges an observer samples
    RelayLinks,       \* edges between two clients of a relay; the relay may be one
    Generations,      \* inventory generations
    MembersOf,        \* the peers a generation hashes
    NoReporter,       \* an observer nobody owns
    NoGeneration,     \* an observer that never had an inventory
    EvidenceWindow,   \* two heartbeat intervals, in clock ticks
    ReportIDWindow,   \* reportIDWindowSize
    MaxSequence,      \* bound: sequences one reporter uses
    MaxTime,          \* bound: the server's wall clock
    Redelivery        \* TRUE: the network may deliver a report twice

ASSUME ReportersAssumption == NoReporter \notin Reporters /\ IsFiniteSet(Reporters)
ASSUME GenerationsAssumption ==
    NoGeneration \notin Generations /\ MembersOf \in [Generations -> SUBSET Peers]
ASSUME BoundsAssumption ==
    /\ EvidenceWindow \in Nat
    /\ ReportIDWindow \in Nat \ {0}
    /\ MaxSequence \in Nat
    /\ MaxTime \in Nat
    /\ Redelivery \in BOOLEAN

VARIABLES
    known,          \* the keys of state.Reporters
    lastSequence,   \* reporterState.LastSequence
    lastAcceptedAt, \* reporterState.LastAcceptedAt
    reportIDs,      \* reporterState.ReportIDs
    observerIDs,    \* reporterState.ObserverIDs
    owner,          \* observerRuntimeState.OwnerReporterInstanceID
    generation,     \* observerRuntimeState.InventoryGeneration (and Membership)
    withdrawnAt,    \* observerRuntimeState.WithdrawnAt
    lastReport,     \* nodeState.LastReport
    observation,    \* edgeState.Observations[observer], per observer and edge
    now,            \* the receive time of the next report
    receipt,        \* the receipt of the last report, and the kind it applied
    delivered,      \* network: the reports delivered, when each arrives at most once
    applied,        \* history: the sequences of each reporter that took effect
    fence,          \* history: the last of them, until a takeover voids it
    clockSetBack    \* history: the wall clock was set back

reporterVars == <<known, lastSequence, lastAcceptedAt, reportIDs, observerIDs>>
observerVars == <<owner, generation, withdrawnAt, lastReport, observation>>
historyVars  == <<applied, fence>>
clockVars    == <<now, clockSetBack>>
vars == <<reporterVars, observerVars, historyVars, clockVars, receipt, delivered>>

Sequences == 1 .. MaxSequence
Times     == 0 .. MaxTime
Links     == Peers \cup RelayLinks
Kinds     == {"none", "hello", "inventory", "traffic", "heartbeat", "withdrawal", "relay"}

NoObservation == [receivedAt |-> 0, withdrawnAt |-> 0]
NoFence       == [sequence |-> 0, at |-> 0]
NoReceipt     == [reporter |-> NoReporter, sequence |-> 0, kind |-> "none",
                  accepted |-> FALSE, resync |-> FALSE]

Init ==
    /\ known = {}
    /\ lastSequence = [r \in Reporters |-> 0]
    /\ lastAcceptedAt = [r \in Reporters |-> 0]
    /\ reportIDs = [r \in Reporters |-> {}]
    /\ observerIDs = [r \in Reporters |-> {}]
    /\ owner = [o \in Observers |-> NoReporter]
    /\ generation = [o \in Observers |-> NoGeneration]
    /\ withdrawnAt = [o \in Observers |-> 0]
    /\ lastReport = [o \in Observers |-> 0]
    /\ observation = [o \in Observers |-> [l \in Links |-> NoObservation]]
    /\ now = 1
    /\ receipt = NoReceipt
    /\ delivered = {}
    /\ applied = [r \in Reporters |-> {}]
    /\ fence = [r \in Reporters |-> NoFence]
    /\ clockSetBack = FALSE

-----------------------------------------------------------------------------
(* What every report meets first *)

FaultySurvivingNoTombstone == {r \in known : observerIDs[r] # {}}
FaultySurvivingByAgeOnly == {r \in known : now - lastAcceptedAt[r] <= EvidenceWindow}

\* pruneIndexesLocked: an entry without observers outlives its last accepted
\* report by the evidence window only.
Surviving ==
    {r \in known : \/ observerIDs[r] # {}
                   \/ /\ lastAcceptedAt[r] # 0
                      /\ now - lastAcceptedAt[r] <= EvidenceWindow}

\* LastSequence of the entry the report finds, or of the one created for it.
SequenceOf(r) == IF r \in Surviving THEN lastSequence[r] ELSE 0

Duplicate(r, n) == r \in Surviving /\ n \in reportIDs[r]
Fresh(r, n) == ~Duplicate(r, n) /\ n > SequenceOf(r)
FaultyGap(r, n) == SequenceOf(r) > 0 /\ n > SequenceOf(r) + 2
Gap(r, n) == SequenceOf(r) > 0 /\ n # SequenceOf(r) + 1

FaultyOwnsOrVacant(r, batch) == \A o \in batch : owner[o] \in {r, NoReporter}

\* reporterOwnsObserversLocked
OwnsAll(r, batch) == \A o \in batch : owner[o] = r

Only(kept, table, blank) == [r \in Reporters |-> IF r \in kept THEN table[r] ELSE blank]

\* Answer a report of which nothing is applied; `kept` is what is left of
\* state.Reporters.
Answer(r, n, kept, accepted, resync) ==
    /\ known' = kept
    /\ lastSequence' = Only(kept, lastSequence, 0)
    /\ lastAcceptedAt' = Only(kept, lastAcceptedAt, 0)
    /\ reportIDs' = Only(kept, reportIDs, {})
    /\ observerIDs' = Only(kept, observerIDs, {})
    /\ receipt' = [reporter |-> r, sequence |-> n, kind |-> "none",
                   accepted |-> accepted, resync |-> resync]
    /\ UNCHANGED <<observerVars, historyVars, clockVars>>

FaultyRememberedForever(r, n) == (IF r \in Surviving THEN reportIDs[r] ELSE {}) \cup {n}

\* The report ids the entry remembers once it holds n as well.
Remembered(r, n) ==
    LET ids == (IF r \in Surviving THEN reportIDs[r] ELSE {}) \cup {n}
    IN  IF Cardinality(ids) > ReportIDWindow THEN {n} ELSE ids

\* The end of applyLocked, where every applied report arrives: `owned` is the
\* ObserverIDs each surviving reporter is left with, `superseded` the reporters
\* that were deleted because they lost their last observer to r.
Accept(r, n, kind, resync, owned, superseded) ==
    LET kept == (Surviving \ superseded) \cup {r}
    IN  /\ known' = kept
        /\ lastSequence' = [Only(kept, lastSequence, 0) EXCEPT ![r] = n]
        /\ lastAcceptedAt' = [Only(kept, lastAcceptedAt, 0) EXCEPT ![r] = now]
        /\ reportIDs' = [Only(kept, reportIDs, {}) EXCEPT ![r] = Remembered(r, n)]
        /\ observerIDs' = Only(kept, owned, {})
        /\ receipt' = [reporter |-> r, sequence |-> n, kind |-> kind,
                       accepted |-> TRUE, resync |-> Gap(r, n) \/ resync]
        /\ applied' = [applied EXCEPT ![r] = @ \cup {n}]
        /\ fence' = [q \in Reporters |->
                        IF q = r THEN [sequence |-> n, at |-> now]
                        ELSE IF q \in superseded THEN NoFence ELSE fence[q]]
        /\ UNCHANGED clockVars

-----------------------------------------------------------------------------
(* Ownership *)

\* claimReporterObserverLocked for each observer of `claimed`: the previous
\* owner loses it, and is deleted when that was its last observer.
Taken(q, r, claimed) == IF q = r THEN {} ELSE {o \in claimed : owner[o] = q}

Superseded(r, claimed) ==
    {q \in Surviving : Taken(q, r, claimed) # {} /\ observerIDs[q] \subseteq Taken(q, r, claimed)}

Claimed(r, claimed) ==
    [q \in Reporters |-> IF q = r THEN observerIDs[q] \cup claimed
                         ELSE observerIDs[q] \ Taken(q, r, claimed)]

Claim(r, claimed) ==
    /\ owner' = [o \in Observers |-> IF o \in claimed THEN r ELSE owner[o]]
    /\ withdrawnAt' = [o \in Observers |-> IF o \in claimed THEN 0 ELSE withdrawnAt[o]]

\* touchObserverLocked
Touch(batch) == lastReport' = [o \in Observers |-> IF o \in batch THEN now ELSE lastReport[o]]

\* replaceInventoryLocked: the peers that left the inventory lose this
\* observer's evidence.
Members(g) == IF g = NoGeneration THEN {} ELSE MembersOf[g]

FaultyReplaceInventoryRevives(batch) ==
    /\ generation' = [o \in Observers |-> IF o \in DOMAIN batch THEN batch[o] ELSE generation[o]]
    /\ observation' =
         [o \in Observers |-> [l \in Links |->
             IF o \in DOMAIN batch THEN [observation[o][l] EXCEPT !.withdrawnAt = 0]
             ELSE observation[o][l]]]

ReplaceInventory(batch) ==
    /\ generation' = [o \in Observers |-> IF o \in DOMAIN batch THEN batch[o] ELSE generation[o]]
    /\ observation' =
         [o \in Observers |-> [l \in Links |->
             IF o \in DOMAIN batch /\ l \in Members(generation[o]) \ Members(batch[o])
             THEN NoObservation ELSE observation[o][l]]]

\* applyPeerLocked and applyRelaySessionLocked: a new observation replaces
\* whatever the observer had on the edge.
Observe(moved) ==
    observation' =
        [o \in Observers |-> [l \in Links |->
            IF o \in DOMAIN moved /\ l \in moved[o]
            THEN [receivedAt |-> now, withdrawnAt |-> 0] ELSE observation[o][l]]]

\* withdrawObserverLocked, the edges
FaultyWithdrawEvidenceNone(mine) == UNCHANGED observation

WithdrawEvidence(mine) ==
    observation' =
        [o \in Observers |-> [l \in Links |->
            IF o \in mine /\ observation[o][l] # NoObservation
            THEN [observation[o][l] EXCEPT !.withdrawnAt = now] ELSE observation[o][l]]]

-----------------------------------------------------------------------------
(* One action per report kind.  A batch maps the observers of the report to    *)
(* what it says of each.                                                       *)

Hello(r, n, batch) ==
    /\ Fresh(r, n)
    /\ Claim(r, DOMAIN batch)
    /\ Touch(DOMAIN batch)
    /\ ReplaceInventory(batch)
    /\ Accept(r, n, "hello", FALSE, Claimed(r, DOMAIN batch), Superseded(r, DOMAIN batch))

Inventory(r, n, batch) ==
    /\ Fresh(r, n)
    /\ OwnsAll(r, DOMAIN batch)
    /\ Touch(DOMAIN batch)
    /\ ReplaceInventory(batch)
    /\ UNCHANGED <<owner, withdrawnAt>>
    /\ Accept(r, n, "inventory", FALSE, observerIDs, {})

Traffic(r, n, batch, moved) ==
    /\ Fresh(r, n)
    /\ OwnsAll(r, DOMAIN batch)
    /\ Touch(DOMAIN batch)
    /\ Observe(moved)
    /\ UNCHANGED <<owner, generation, withdrawnAt>>
    /\ Accept(r, n, "traffic", \E o \in DOMAIN batch : generation[o] # batch[o], observerIDs, {})

Heartbeat(r, n, batch) ==
    /\ Fresh(r, n)
    /\ OwnsAll(r, DOMAIN batch)
    /\ Touch(DOMAIN batch)
    /\ UNCHANGED <<owner, generation, withdrawnAt, observation>>
    /\ Accept(r, n, "heartbeat", \E o \in DOMAIN batch : generation[o] # batch[o], observerIDs, {})

\* Only the observers the reporter still owns are withdrawn; the others, and the
\* observers the server never heard of, are skipped.
Withdrawal(r, n, batch) ==
    LET mine == {o \in batch : owner[o] = r}
    IN  /\ Fresh(r, n)
        /\ Touch(mine)
        /\ owner' = [o \in Observers |-> IF o \in mine THEN NoReporter ELSE owner[o]]
        /\ withdrawnAt' = [o \in Observers |-> IF o \in mine THEN now ELSE withdrawnAt[o]]
        /\ WithdrawEvidence(mine)
        /\ UNCHANGED generation
        /\ Accept(r, n, "withdrawal", FALSE, [observerIDs EXCEPT ![r] = @ \ mine], {})

\* A relay's sessions: no hello, every session claims its relay.  A relay maps
\* to the edges its sessions reached; a session whose two ends resolved to one
\* node claims and touches its relay only.
RelaySession(r, n, reached) ==
    /\ Fresh(r, n)
    /\ Claim(r, DOMAIN reached)
    /\ Touch(DOMAIN reached)
    /\ Observe(reached)
    /\ UNCHANGED generation
    /\ Accept(r, n, "relay", FALSE, Claimed(r, DOMAIN reached), Superseded(r, DOMAIN reached))

(* The refusals *)

AnswerDuplicate(r, n) ==
    /\ Duplicate(r, n)
    /\ Answer(r, n, Surviving, TRUE, FALSE)

AnswerStale(r, n) ==
    /\ ~Duplicate(r, n) /\ n <= SequenceOf(r)
    /\ Answer(r, n, Surviving, FALSE, FALSE)

FaultyAnswerNotOwnerKeepsEntry(r, n, batch) ==
    /\ Fresh(r, n) /\ ~OwnsAll(r, batch)
    /\ Answer(r, n, Surviving \cup {r}, FALSE, TRUE)

\* A reporter entry created for the refused report is deleted again.
AnswerNotOwner(r, n, batch) ==
    /\ Fresh(r, n) /\ ~OwnsAll(r, batch)
    /\ Answer(r, n, Surviving, FALSE, TRUE)

-----------------------------------------------------------------------------
(* The environment: any trusted reporter may have sent any valid report, and   *)
(* the network may lose, delay and reorder it, and deliver it again.           *)

Batches == (SUBSET Observers) \ {{}}

Deliverable(r, n) == Redelivery \/ <<r, n>> \notin delivered
Arrive(r, n) ==
    /\ Deliverable(r, n)
    /\ delivered' = IF Redelivery THEN delivered ELSE delivered \cup {<<r, n>>}

DeliverHello(r, n) == Arrive(r, n) /\ \E B \in Batches : \E batch \in [B -> Generations] : Hello(r, n, batch)
DeliverInventory(r, n) ==
    Arrive(r, n) /\ \E B \in Batches : \E batch \in [B -> Generations] : Inventory(r, n, batch)
DeliverTraffic(r, n) ==
    /\ Arrive(r, n)
    /\ \E B \in Batches : \E batch \in [B -> Generations], moved \in [B -> SUBSET Peers] :
           Traffic(r, n, batch, moved)
DeliverHeartbeat(r, n) ==
    Arrive(r, n) /\ \E B \in Batches : \E batch \in [B -> Generations] : Heartbeat(r, n, batch)
DeliverWithdrawal(r, n) == Arrive(r, n) /\ \E B \in Batches : Withdrawal(r, n, B)
DeliverRelaySession(r, n) ==
    Arrive(r, n) /\ \E B \in Batches : \E reached \in [B -> SUBSET RelayLinks] : RelaySession(r, n, reached)
Refuse(r, n) ==
    /\ Arrive(r, n)
    /\ \/ AnswerDuplicate(r, n)
       \/ AnswerStale(r, n)
       \/ \E B \in Batches : AnswerNotOwner(r, n, B)

Tick ==
    /\ now < MaxTime
    /\ now' = now + 1
    /\ UNCHANGED <<reporterVars, observerVars, historyVars, clockSetBack, receipt, delivered>>

\* receivedAt.UTC() drops the monotonic reading, so receive times follow the
\* wall clock when it is set back.
ClockStepsBack ==
    /\ now > 1
    /\ now' = now - 1
    /\ clockSetBack' = TRUE
    /\ UNCHANGED <<reporterVars, observerVars, historyVars, receipt, delivered>>

Next ==
    \/ \E r \in Reporters, n \in Sequences :
           \/ DeliverHello(r, n)
           \/ DeliverInventory(r, n)
           \/ DeliverTraffic(r, n)
           \/ DeliverHeartbeat(r, n)
           \/ DeliverWithdrawal(r, n)
           \/ DeliverRelaySession(r, n)
           \/ Refuse(r, n)
    \/ Tick
    \/ ClockStepsBack

Spec == Init /\ [][Next]_vars

-----------------------------------------------------------------------------
(* Properties *)

ReceiptType == [reporter: Reporters \cup {NoReporter}, sequence: Nat, kind: Kinds,
                accepted: BOOLEAN, resync: BOOLEAN]

ReporterTypeOK ==
    /\ known \subseteq Reporters
    /\ lastSequence \in [Reporters -> Nat]
    /\ lastAcceptedAt \in [Reporters -> Nat]
    /\ reportIDs \in [Reporters -> SUBSET Sequences]
    /\ \A r \in Reporters : Cardinality(reportIDs[r]) <= ReportIDWindow
    /\ observerIDs \in [Reporters -> SUBSET Observers]
    /\ receipt \in ReceiptType
    /\ applied \in [Reporters -> SUBSET Sequences]
    /\ fence \in [Reporters -> [sequence: Nat, at: Nat]]

ObserverTypeOK ==
    /\ owner \in [Observers -> Reporters \cup {NoReporter}]
    /\ generation \in [Observers -> Generations \cup {NoGeneration}]
    /\ withdrawnAt \in [Observers -> Nat]
    /\ lastReport \in [Observers -> Nat]
    /\ observation \in [Observers -> [Links -> [receivedAt: Nat, withdrawnAt: Nat]]]

(* Type correctness of the reporter, observer and observation tables, and the  *)
(* bound on the report ids an entry keeps (reportIDWindowSize).                *)
TypeOK ==
    /\ ReporterTypeOK
    /\ ObserverTypeOK
    /\ now \in Nat \ {0}
    /\ clockSetBack \in BOOLEAN
    /\ delivered \subseteq Reporters \X Sequences

\* snapshotEdgeLocked and edgeHasActiveObservationLocked: the observations a
\* topology reader is shown, and reconciles paths and rates from.
Live(o, l) ==
    LET seen == observation[o][l]
    IN  /\ seen.receivedAt # 0
        /\ now - seen.receivedAt <= EvidenceWindow
        /\ seen.withdrawnAt = 0 \/ seen.withdrawnAt < seen.receivedAt

(* The two halves of the ownership relation never disagree: a reporter lists   *)
(* exactly the observers that name it as their owner, and an owner is always a *)
(* known reporter, so pruning, takeover and withdrawal leave no observer owned *)
(* by a deleted entry (claimReporterObserverLocked, withdrawObserverLocked,    *)
(* pruneIndexesLocked each write both sides).                                  *)
OwnershipConsistent ==
    /\ \A r \in Reporters, o \in Observers : o \in observerIDs[r] <=> owner[o] = r
    /\ \A o \in Observers : owner[o] # NoReporter => owner[o] \in known

(* A withdrawn observer contributes no live evidence, in any order of the      *)
(* reports that followed, until the clock is set back: snapshotEdgeLocked      *)
(* compares WithdrawnAt with ReceivedAt instead of asking who owns the         *)
(* observer.                                                                   *)
DetachedEvidenceNotLive ==
    ~clockSetBack =>
        \A o \in Observers : owner[o] = NoReporter => \A l \in Links : ~Live(o, l)

(* For an evidence window after its last applied report, a reporter that was   *)
(* not taken over keeps the sequence its delayed reports are fenced by, with   *)
(* observers or without (the tombstone a full withdrawal leaves behind).       *)
FenceHolds ==
    \A r \in Reporters :
        ~clockSetBack /\ fence[r].sequence > 0 /\ now - fence[r].at <= EvidenceWindow =>
            r \in known /\ lastSequence[r] = fence[r].sequence

(* Reporter entries do not accumulate: whatever a report does, every reporter  *)
(* it leaves known has had a report applied, and either has an observer or had *)
(* that report within the evidence window (pruneIndexesLocked, and the         *)
(* deletion of the entry created for a refused report).                        *)
ReporterTableBounded ==
    [][now' = now =>
          \A r \in known' :
              /\ lastSequence'[r] > 0
              /\ observerIDs'[r] = {} => now - lastAcceptedAt'[r] <= EvidenceWindow]_vars

(* Only the reporter that owns an observer, before the report or by claiming   *)
(* it in the report, changes what the server knows of the observer.            *)
OnlyOwnerUpdates ==
    [][\A o \in Observers :
          (\/ lastReport'[o] # lastReport[o]
           \/ generation'[o] # generation[o]
           \/ withdrawnAt'[o] # withdrawnAt[o]
           \/ observation'[o] # observation[o]) =>
              /\ receipt'.accepted
              /\ receipt'.reporter \in {owner[o], owner'[o]}]_vars

(* An inventory, traffic or heartbeat report that is applied without a request *)
(* to resync directly follows an applied report of the same reporter: a lost   *)
(* or overtaken report is always noticed.                                      *)
NoSilentGap ==
    [][\A r \in Reporters :
          /\ applied'[r] # applied[r]
          /\ receipt'.kind \in {"inventory", "traffic", "heartbeat"}
          /\ ~receipt'.resync
          => receipt'.sequence - 1 \in applied[r]]_vars

(* Evidence comes to life only when it is received, in a traffic or a relay    *)
(* report: a later hello claims the observer but cannot reactivate old traffic *)
(* (docs/protocol.md, "Ordering and time").  After the clock was set back, old *)
(* evidence can be live again.                                                 *)
OldTrafficStaysWithdrawn ==
    [][\A o \in Observers, l \in Links :
          ~clockSetBack' /\ ~Live(o, l) /\ Live(o, l)' =>
              /\ observation'[o][l].receivedAt = now
              /\ receipt'.kind \in {"traffic", "relay"}]_vars

=============================================================================
