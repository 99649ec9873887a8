------------------------- MODULE ReportIngestProofs -------------------------
(* Proofs about the report fence, for any number of reporters, observers and   *)
(* sequences.  First the type invariant, then ownership, the fence and the     *)
(* evidence (until the clock is set back), and the steps, on any clock.        *)
EXTENDS ReportIngest, FiniteSetTheorems, TLAPS

-----------------------------------------------------------------------------
(* Type correctness *)

(* Pruning only ever keeps known reporters (pruneIndexesLocked). *)
LEMMA SurvivingKnown == Surviving \subseteq known
  BY DEF Surviving

(* The report ids an entry remembers stay within reportIDWindowSize. *)
LEMMA RememberedBounded ==
  ASSUME NEW r, NEW n \in Sequences, ReporterTypeOK, r \in Reporters
  PROVE  /\ Remembered(r, n) \subseteq Sequences
         /\ Cardinality(Remembered(r, n)) <= ReportIDWindow
<1> DEFINE ids == (IF r \in Surviving THEN reportIDs[r] ELSE {}) \cup {n}
<1>1. ids \subseteq Sequences
  BY DEF ReporterTypeOK
<1>2. Cardinality({n}) = 1
  BY FS_Singleton
<1>3. IsFiniteSet(ids) /\ Cardinality(ids) \in Nat
  <2>1. IsFiniteSet(Sequences)
    BY FS_Interval, BoundsAssumption DEF Sequences
  <2> QED
    BY <1>1, <2>1, FS_Subset, FS_CardinalityType
<1>4. ReportIDWindow \in Nat /\ ReportIDWindow >= 1
  BY BoundsAssumption
<1>5. CASE Cardinality(ids) > ReportIDWindow
  BY <1>1, <1>2, <1>4, <1>5 DEF Remembered
<1>6. CASE ~(Cardinality(ids) > ReportIDWindow)
  BY <1>1, <1>3, <1>4, <1>6 DEF Remembered
<1> QED
  BY <1>5, <1>6

(* The empty set is within the window as well: what a deleted entry is left with. *)
LEMMA EmptyBounded == Cardinality({}) <= ReportIDWindow
  BY FS_EmptySet, BoundsAssumption

(* A refused report leaves well-typed reporter tables. *)
LEMMA AnswerTyped ==
  ASSUME NEW r \in Reporters, NEW n \in Sequences, NEW kept \in SUBSET Reporters,
         NEW accepted \in BOOLEAN, NEW resync \in BOOLEAN,
         ReporterTypeOK, Answer(r, n, kept, accepted, resync)
  PROVE  ReporterTypeOK'
<1>1. n \in Nat
  BY DEF Sequences
<1>2. /\ known' \subseteq Reporters
      /\ lastSequence' \in [Reporters -> Nat]
      /\ lastAcceptedAt' \in [Reporters -> Nat]
      /\ reportIDs' \in [Reporters -> SUBSET Sequences]
      /\ observerIDs' \in [Reporters -> SUBSET Observers]
  BY DEF ReporterTypeOK, Answer, Only
<1>3. \A q \in Reporters : Cardinality(reportIDs'[q]) <= ReportIDWindow
  BY EmptyBounded DEF ReporterTypeOK, Answer, Only
<1>4. receipt' \in ReceiptType
  BY <1>1 DEF Answer, ReceiptType, Kinds
<1>5. applied' = applied /\ fence' = fence
  BY DEF Answer, historyVars
<1> QED
  BY <1>2, <1>3, <1>4, <1>5 DEF ReporterTypeOK

(* So does an applied one, whatever ownership it leaves behind. *)
LEMMA AcceptTyped ==
  ASSUME NEW r \in Reporters, NEW n \in Sequences, NEW kind \in Kinds,
         NEW resync \in BOOLEAN, NEW owned \in [Reporters -> SUBSET Observers],
         NEW superseded, ReporterTypeOK, now \in Nat,
         Accept(r, n, kind, resync, owned, superseded)
  PROVE  ReporterTypeOK'
<1> DEFINE kept == (Surviving \ superseded) \cup {r}
<1>1. n \in Nat
  BY DEF Sequences
<1>2. kept \subseteq Reporters
  BY SurvivingKnown DEF ReporterTypeOK
<1>3. known' = kept
  BY DEF Accept
<1>4. lastSequence' \in [Reporters -> Nat]
  BY <1>1 DEF ReporterTypeOK, Accept, Only
<1>5. lastAcceptedAt' \in [Reporters -> Nat]
  BY DEF ReporterTypeOK, Accept, Only
<1>6. /\ reportIDs' \in [Reporters -> SUBSET Sequences]
      /\ \A q \in Reporters : Cardinality(reportIDs'[q]) <= ReportIDWindow
  <2>1. reportIDs' = [Only(kept, reportIDs, {}) EXCEPT ![r] = Remembered(r, n)]
    BY DEF Accept
  <2>2. Remembered(r, n) \subseteq Sequences /\ Cardinality(Remembered(r, n)) <= ReportIDWindow
    BY RememberedBounded
  <2> QED
    BY <2>1, <2>2, EmptyBounded DEF ReporterTypeOK, Only
<1>7. observerIDs' \in [Reporters -> SUBSET Observers]
  BY DEF Accept, Only
<1>8. receipt' \in ReceiptType
  <2>1. receipt' = [reporter |-> r, sequence |-> n, kind |-> kind,
                    accepted |-> TRUE, resync |-> Gap(r, n) \/ resync]
    BY DEF Accept
  <2>2. (Gap(r, n) \/ resync) \in BOOLEAN
    BY DEF Gap
  <2> QED
    BY <1>1, <2>1, <2>2 DEF ReceiptType
<1>9. applied' \in [Reporters -> SUBSET Sequences]
  BY DEF ReporterTypeOK, Accept
<1>10. fence' \in [Reporters -> [sequence: Nat, at: Nat]]
  BY <1>1 DEF ReporterTypeOK, Accept, NoFence
<1> QED
  BY <1>2, <1>3, <1>4, <1>5, <1>6, <1>7, <1>8, <1>9, <1>10 DEF ReporterTypeOK

(* The helpers of the handlers leave well-typed observer tables. *)
LEMMA ClaimTyped ==
  ASSUME NEW r \in Reporters, NEW claimed \in SUBSET Observers, ObserverTypeOK, Claim(r, claimed)
  PROVE  /\ owner' \in [Observers -> Reporters \cup {NoReporter}]
         /\ withdrawnAt' \in [Observers -> Nat]
  BY DEF ObserverTypeOK, Claim

LEMMA TouchTyped ==
  ASSUME NEW batch, ObserverTypeOK, now \in Nat, Touch(batch)
  PROVE  lastReport' \in [Observers -> Nat]
  BY DEF ObserverTypeOK, Touch

LEMMA ReplaceInventoryTyped ==
  ASSUME NEW B \in SUBSET Observers, NEW batch \in [B -> Generations],
         ObserverTypeOK, ReplaceInventory(batch)
  PROVE  /\ generation' \in [Observers -> Generations \cup {NoGeneration}]
         /\ observation' \in [Observers -> [Links -> [receivedAt: Nat, withdrawnAt: Nat]]]
  BY DEF ObserverTypeOK, ReplaceInventory, NoObservation

LEMMA ObserveTyped ==
  ASSUME NEW moved, ObserverTypeOK, now \in Nat, Observe(moved)
  PROVE  observation' \in [Observers -> [Links -> [receivedAt: Nat, withdrawnAt: Nat]]]
  BY DEF ObserverTypeOK, Observe

LEMMA WithdrawEvidenceTyped ==
  ASSUME NEW mine, ObserverTypeOK, now \in Nat, WithdrawEvidence(mine)
  PROVE  observation' \in [Observers -> [Links -> [receivedAt: Nat, withdrawnAt: Nat]]]
<1>1. ASSUME NEW o \in Observers, NEW l \in Links
      PROVE  [observation[o][l] EXCEPT !.withdrawnAt = now] \in [receivedAt: Nat, withdrawnAt: Nat]
  <2>1. observation[o][l] \in [receivedAt: Nat, withdrawnAt: Nat]
    BY <1>1 DEF ObserverTypeOK
  <2> QED
    BY <2>1
<1> QED
  BY <1>1 DEF ObserverTypeOK, WithdrawEvidence

LEMMA ClaimedTyped ==
  ASSUME NEW r \in Reporters, NEW claimed \in SUBSET Observers, ReporterTypeOK
  PROVE  Claimed(r, claimed) \in [Reporters -> SUBSET Observers]
  BY DEF ReporterTypeOK, Claimed

(* Every handler keeps both tables well typed. *)
LEMMA HandlersTyped ==
  ASSUME TypeOK, NEW r \in Reporters, NEW n \in Sequences
  PROVE  /\ DeliverHello(r, n) => ReporterTypeOK' /\ ObserverTypeOK'
         /\ DeliverInventory(r, n) => ReporterTypeOK' /\ ObserverTypeOK'
         /\ DeliverTraffic(r, n) => ReporterTypeOK' /\ ObserverTypeOK'
         /\ DeliverHeartbeat(r, n) => ReporterTypeOK' /\ ObserverTypeOK'
         /\ DeliverWithdrawal(r, n) => ReporterTypeOK' /\ ObserverTypeOK'
         /\ DeliverRelaySession(r, n) => ReporterTypeOK' /\ ObserverTypeOK'
         /\ Refuse(r, n) => ReporterTypeOK' /\ ObserverTypeOK'
<1>0. ReporterTypeOK /\ ObserverTypeOK /\ now \in Nat
  BY DEF TypeOK
<1>1. ASSUME DeliverHello(r, n) PROVE ReporterTypeOK' /\ ObserverTypeOK'
  <2>1. PICK B \in Batches : \E batch \in [B -> Generations] : Hello(r, n, batch)
    BY <1>1 DEF DeliverHello
  <2>2. PICK batch \in [B -> Generations] : Hello(r, n, batch)
    BY <2>1
  <2>3. B \in SUBSET Observers /\ DOMAIN batch = B
    BY DEF Batches
  <2>4. ObserverTypeOK'
    BY <1>0, <2>2, <2>3, ClaimTyped, TouchTyped, ReplaceInventoryTyped DEF Hello, ObserverTypeOK
  <2>5. Claimed(r, DOMAIN batch) \in [Reporters -> SUBSET Observers]
    BY <1>0, <2>3, ClaimedTyped
  <2>6. ReporterTypeOK'
    BY <1>0, <2>2, <2>5, AcceptTyped DEF Hello, Kinds
  <2> QED
    BY <2>4, <2>6
<1>2. ASSUME DeliverInventory(r, n) PROVE ReporterTypeOK' /\ ObserverTypeOK'
  <2>1. PICK B \in Batches : \E batch \in [B -> Generations] : Inventory(r, n, batch)
    BY <1>2 DEF DeliverInventory
  <2>2. PICK batch \in [B -> Generations] : Inventory(r, n, batch)
    BY <2>1
  <2>3. B \in SUBSET Observers
    BY DEF Batches
  <2>4. ObserverTypeOK'
    BY <1>0, <2>2, <2>3, TouchTyped, ReplaceInventoryTyped DEF Inventory, ObserverTypeOK
  <2>5. ReporterTypeOK'
    BY <1>0, <2>2, AcceptTyped DEF Inventory, Kinds, ReporterTypeOK
  <2> QED
    BY <2>4, <2>5
<1>3. ASSUME DeliverTraffic(r, n) PROVE ReporterTypeOK' /\ ObserverTypeOK'
  <2>1. PICK B \in Batches : \E batch \in [B -> Generations], moved \in [B -> SUBSET Peers] :
                               Traffic(r, n, batch, moved)
    BY <1>3 DEF DeliverTraffic
  <2>2. PICK batch \in [B -> Generations], moved \in [B -> SUBSET Peers] : Traffic(r, n, batch, moved)
    BY <2>1
  <2>3. ObserverTypeOK'
    BY <1>0, <2>2, TouchTyped, ObserveTyped DEF Traffic, ObserverTypeOK
  <2>4. ReporterTypeOK'
    BY <1>0, <2>2, AcceptTyped DEF Traffic, Kinds, ReporterTypeOK
  <2> QED
    BY <2>3, <2>4
<1>4. ASSUME DeliverHeartbeat(r, n) PROVE ReporterTypeOK' /\ ObserverTypeOK'
  <2>1. PICK B \in Batches : \E batch \in [B -> Generations] : Heartbeat(r, n, batch)
    BY <1>4 DEF DeliverHeartbeat
  <2>2. PICK batch \in [B -> Generations] : Heartbeat(r, n, batch)
    BY <2>1
  <2>3. ObserverTypeOK'
    BY <1>0, <2>2, TouchTyped DEF Heartbeat, ObserverTypeOK
  <2>4. ReporterTypeOK'
    BY <1>0, <2>2, AcceptTyped DEF Heartbeat, Kinds, ReporterTypeOK
  <2> QED
    BY <2>3, <2>4
<1>5. ASSUME DeliverWithdrawal(r, n) PROVE ReporterTypeOK' /\ ObserverTypeOK'
  <2>1. PICK B \in Batches : Withdrawal(r, n, B)
    BY <1>5 DEF DeliverWithdrawal
  <2> DEFINE mine == {o \in B : owner[o] = r}
  <2>2. /\ Touch(mine)
        /\ WithdrawEvidence(mine)
        /\ owner' = [o \in Observers |-> IF o \in mine THEN NoReporter ELSE owner[o]]
        /\ withdrawnAt' = [o \in Observers |-> IF o \in mine THEN now ELSE withdrawnAt[o]]
        /\ generation' = generation
        /\ Accept(r, n, "withdrawal", FALSE, [observerIDs EXCEPT ![r] = @ \ mine], {})
    BY <2>1 DEF Withdrawal
  <2>3. ObserverTypeOK'
    <3>1. lastReport' \in [Observers -> Nat]
      BY <1>0, <2>2, TouchTyped
    <3>2. observation' \in [Observers -> [Links -> [receivedAt: Nat, withdrawnAt: Nat]]]
      BY <1>0, <2>2, WithdrawEvidenceTyped
    <3> QED
      BY <1>0, <2>2, <3>1, <3>2 DEF ObserverTypeOK
  <2>4. [observerIDs EXCEPT ![r] = @ \ mine] \in [Reporters -> SUBSET Observers]
    BY <1>0 DEF ReporterTypeOK
  <2>5. ReporterTypeOK'
    BY <1>0, <2>2, <2>4, AcceptTyped DEF Kinds
  <2> QED
    BY <2>3, <2>5
<1>6. ASSUME DeliverRelaySession(r, n) PROVE ReporterTypeOK' /\ ObserverTypeOK'
  <2>1. PICK B \in Batches : \E reached \in [B -> SUBSET RelayLinks] : RelaySession(r, n, reached)
    BY <1>6 DEF DeliverRelaySession
  <2>2. PICK reached \in [B -> SUBSET RelayLinks] : RelaySession(r, n, reached)
    BY <2>1
  <2>3. B \in SUBSET Observers /\ DOMAIN reached = B
    BY DEF Batches
  <2>4. ObserverTypeOK'
    BY <1>0, <2>2, <2>3, ClaimTyped, TouchTyped, ObserveTyped DEF RelaySession, ObserverTypeOK
  <2>5. Claimed(r, DOMAIN reached) \in [Reporters -> SUBSET Observers]
    BY <1>0, <2>3, ClaimedTyped
  <2>6. ReporterTypeOK'
    BY <1>0, <2>2, <2>5, AcceptTyped DEF RelaySession, Kinds
  <2> QED
    BY <2>4, <2>6
<1>7. ASSUME Refuse(r, n) PROVE ReporterTypeOK' /\ ObserverTypeOK'
  <2>1. PICK accepted \in BOOLEAN, resync \in BOOLEAN : Answer(r, n, Surviving, accepted, resync)
    BY <1>7 DEF Refuse, AnswerDuplicate, AnswerStale, AnswerNotOwner
  <2>2. Surviving \in SUBSET Reporters
    BY <1>0, SurvivingKnown DEF ReporterTypeOK
  <2>3. ReporterTypeOK'
    BY <1>0, <2>1, <2>2, AnswerTyped
  <2>4. ObserverTypeOK'
    BY <1>0, <2>1 DEF Answer, observerVars, ObserverTypeOK
  <2> QED
    BY <2>3, <2>4
<1> QED
  BY <1>1, <1>2, <1>3, <1>4, <1>5, <1>6, <1>7

(* A delivery leaves the clock alone and remembers only reports. *)
LEMMA DeliveryKeepsClock ==
  ASSUME TypeOK, NEW r \in Reporters, NEW n \in Sequences,
         \/ DeliverHello(r, n) \/ DeliverInventory(r, n) \/ DeliverTraffic(r, n)
         \/ DeliverHeartbeat(r, n) \/ DeliverWithdrawal(r, n)
         \/ DeliverRelaySession(r, n) \/ Refuse(r, n)
  PROVE  UNCHANGED clockVars /\ delivered' \subseteq Reporters \X Sequences
<1>1. UNCHANGED clockVars
  BY DEF DeliverHello, DeliverInventory, DeliverTraffic, DeliverHeartbeat, DeliverWithdrawal,
         DeliverRelaySession, Refuse, Hello, Inventory, Traffic, Heartbeat, Withdrawal,
         RelaySession, AnswerDuplicate, AnswerStale, AnswerNotOwner, Answer, Accept
<1>2. Arrive(r, n)
  BY DEF DeliverHello, DeliverInventory, DeliverTraffic, DeliverHeartbeat, DeliverWithdrawal,
         DeliverRelaySession, Refuse
<1> QED
  BY <1>1, <1>2 DEF TypeOK, Arrive

(* The tables of the server are well typed in every reachable state, and an    *)
(* entry never remembers more report ids than reportIDWindowSize.              *)
THEOREM TypeCorrect == Spec => []TypeOK
<1>1. Init => TypeOK
  <2> SUFFICES ASSUME Init PROVE TypeOK
    OBVIOUS
  <2>1. ReporterTypeOK
    BY EmptyBounded DEF Init, ReporterTypeOK, ReceiptType, Kinds, NoReceipt, NoFence
  <2>2. ObserverTypeOK
    BY DEF Init, ObserverTypeOK, NoObservation
  <2>3. clockSetBack \in BOOLEAN
    BY DEF Init
  <2>4. now \in Nat \ {0} /\ delivered \subseteq Reporters \X Sequences
    BY DEF Init
  <2> QED
    BY <2>1, <2>2, <2>3, <2>4 DEF TypeOK
<1>2. TypeOK /\ [Next]_vars => TypeOK'
  <2> SUFFICES ASSUME TypeOK, [Next]_vars PROVE TypeOK'
    OBVIOUS
  <2>1. ASSUME NEW r \in Reporters, NEW n \in Sequences,
               \/ DeliverHello(r, n) \/ DeliverInventory(r, n) \/ DeliverTraffic(r, n)
               \/ DeliverHeartbeat(r, n) \/ DeliverWithdrawal(r, n)
               \/ DeliverRelaySession(r, n) \/ Refuse(r, n)
        PROVE  TypeOK'
    BY <2>1, HandlersTyped, DeliveryKeepsClock DEF TypeOK, clockVars
  <2>2. CASE Tick
    BY <2>2 DEF Tick, TypeOK, ReporterTypeOK, ObserverTypeOK, reporterVars, observerVars, historyVars
  <2>3. CASE ClockStepsBack
    BY <2>3 DEF ClockStepsBack, TypeOK, ReporterTypeOK, ObserverTypeOK, reporterVars, observerVars, historyVars
  <2>4. CASE UNCHANGED vars
    BY <2>4 DEF vars, TypeOK, ReporterTypeOK, ObserverTypeOK, reporterVars, observerVars, historyVars, clockVars
  <2> QED
    BY <2>1, <2>2, <2>3, <2>4 DEF Next
<1> QED
  BY <1>1, <1>2, PTL DEF Spec

(* That the clock was set back is never forgotten. *)
LEMMA NeverSetBack ==
  ASSUME TypeOK, [Next]_vars, ~clockSetBack'
  PROVE  ~clockSetBack /\ ~ClockStepsBack
<1>1. ASSUME NEW r \in Reporters, NEW n \in Sequences,
             \/ DeliverHello(r, n) \/ DeliverInventory(r, n) \/ DeliverTraffic(r, n)
             \/ DeliverHeartbeat(r, n) \/ DeliverWithdrawal(r, n)
             \/ DeliverRelaySession(r, n) \/ Refuse(r, n)
      PROVE  UNCHANGED clockSetBack
  BY <1>1, DeliveryKeepsClock DEF clockVars
<1>2. ASSUME Tick \/ UNCHANGED vars PROVE UNCHANGED clockSetBack
  BY <1>2 DEF Tick, vars, clockVars
<1>3. ~ClockStepsBack
  BY DEF ClockStepsBack
<1> QED
  BY <1>1, <1>2, <1>3 DEF Next

-----------------------------------------------------------------------------
(* Ownership, on any clock *)

(* Pruning takes no observer with it: a known owner survives                   *)
(* (pruneIndexesLocked skips the entries that hold observers).                 *)
LEMMA OwnersSurvive ==
  ASSUME TypeOK, OwnershipConsistent, NEW o \in Observers, owner[o] # NoReporter
  PROVE  owner[o] \in Surviving
  BY DEF TypeOK, ObserverTypeOK, OwnershipConsistent, Surviving

(* ... so an entry that is pruned, or was never there, lists no observer. *)
LEMMA PrunedListNothing ==
  ASSUME TypeOK, OwnershipConsistent, NEW q \in Reporters, q \notin Surviving
  PROVE  observerIDs[q] = {}
<1>1. \A o \in Observers : o \in observerIDs[q] <=> owner[o] = q
  BY DEF OwnershipConsistent
<1>2. q # NoReporter
  BY ReportersAssumption
<1> QED
  BY <1>1, <1>2, OwnersSurvive DEF TypeOK, ReporterTypeOK

(* Answering a report leaves ownership as it was. *)
LEMMA AnswerOwnership ==
  ASSUME TypeOK, OwnershipConsistent, NEW r, NEW n, NEW accepted, NEW resync,
         Answer(r, n, Surviving, accepted, resync)
  PROVE  OwnershipConsistent'
<1>1. owner' = owner /\ known' = Surviving
  BY DEF Answer, observerVars
<1>2. \A q \in Reporters : observerIDs'[q] = observerIDs[q]
  BY PrunedListNothing DEF Answer, Only
<1> QED
  BY <1>1, <1>2, OwnersSurvive DEF OwnershipConsistent

(* A claim moves each claimed observer, on both sides, and deletes a previous  *)
(* owner only when nothing is left to it (claimReporterObserverLocked).        *)
LEMMA ClaimOwnership ==
  ASSUME TypeOK, OwnershipConsistent, NEW r \in Reporters, NEW n, NEW kind, NEW resync,
         NEW claimed \in SUBSET Observers, Claim(r, claimed),
         Accept(r, n, kind, resync, Claimed(r, claimed), Superseded(r, claimed))
  PROVE  OwnershipConsistent'
<1> DEFINE kept == (Surviving \ Superseded(r, claimed)) \cup {r}
<1>1. /\ known' = kept
      /\ observerIDs' = [q \in Reporters |-> IF q \in kept THEN Claimed(r, claimed)[q] ELSE {}]
      /\ owner' = [o \in Observers |-> IF o \in claimed THEN r ELSE owner[o]]
  BY DEF Accept, Only, Claim
<1>2. \A q \in Reporters : \A o \in Observers : o \in observerIDs[q] <=> owner[o] = q
  BY DEF OwnershipConsistent
<1>3. r # NoReporter /\ r \in kept
  BY ReportersAssumption
<1>4. \A q \in Reporters : q \notin kept => observerIDs[q] \subseteq claimed
  <2>1. \A q \in Superseded(r, claimed) : observerIDs[q] \subseteq claimed
    BY DEF Superseded, Taken
  <2> QED
    BY <2>1, PrunedListNothing
<1>5. ASSUME NEW q \in Reporters, NEW o \in Observers
      PROVE  o \in observerIDs'[q] <=> owner'[o] = q
  <2>1. CASE q = r
    BY <1>1, <1>2, <1>3, <2>1 DEF Claimed
  <2>2. CASE q # r /\ q \in kept
    BY <1>1, <1>2, <2>2 DEF Claimed, Taken
  <2>3. CASE q \notin kept
    BY <1>1, <1>2, <1>3, <1>4, <2>3
  <2> QED
    BY <2>1, <2>2, <2>3
<1>6. ASSUME NEW o \in Observers, owner'[o] # NoReporter
      PROVE  owner'[o] \in known'
  <2>1. CASE o \in claimed
    BY <1>1, <1>3, <2>1
  <2>2. CASE o \notin claimed
    <3>1. owner'[o] = owner[o] /\ owner[o] \in Surviving
      BY <1>1, <1>6, <2>2, OwnersSurvive
    <3>2. owner[o] \in Reporters /\ o \in observerIDs[owner[o]]
      BY <1>2, <1>6, <3>1 DEF TypeOK, ObserverTypeOK
    <3> QED
      BY <1>1, <1>4, <2>2, <3>1, <3>2
  <2> QED
    BY <2>1, <2>2
<1> QED
  BY <1>5, <1>6 DEF OwnershipConsistent

(* A report of the owner that moves no ownership keeps the relation. *)
LEMMA OrdinaryOwnership ==
  ASSUME TypeOK, OwnershipConsistent, NEW r \in Reporters, NEW n, NEW kind, NEW resync,
         owner' = owner, Accept(r, n, kind, resync, observerIDs, {})
  PROVE  OwnershipConsistent'
<1>1. known' = Surviving \cup {r}
  BY DEF Accept
<1>2. \A q \in Reporters : observerIDs'[q] = observerIDs[q]
  BY PrunedListNothing DEF Accept, Only
<1> QED
  BY <1>1, <1>2, OwnersSurvive DEF OwnershipConsistent

(* A withdrawal takes only the reporter's own observers, on both sides         *)
(* (withdrawObserverLocked).                                                   *)
LEMMA WithdrawalOwnership ==
  ASSUME TypeOK, OwnershipConsistent, NEW r \in Reporters, NEW n, NEW batch, Withdrawal(r, n, batch)
  PROVE  OwnershipConsistent'
<1> DEFINE mine == {o \in batch : owner[o] = r}
<1>1. /\ known' = Surviving \cup {r}
      /\ owner' = [o \in Observers |-> IF o \in mine THEN NoReporter ELSE owner[o]]
      /\ observerIDs' = [q \in Reporters |->
             IF q \in Surviving \cup {r} THEN [observerIDs EXCEPT ![r] = @ \ mine][q] ELSE {}]
  BY DEF Withdrawal, Accept, Only
<1>2. \A q \in Reporters : \A o \in Observers : o \in observerIDs[q] <=> owner[o] = q
  BY DEF OwnershipConsistent
<1>3. \A q \in Reporters : q \notin Surviving => observerIDs[q] = {}
  BY PrunedListNothing
<1>4. r # NoReporter /\ NoReporter \notin Reporters
  BY ReportersAssumption
<1>5. ASSUME NEW q \in Reporters, NEW o \in Observers
      PROVE  o \in observerIDs'[q] <=> owner'[o] = q
  <2>1. CASE q = r
    BY <1>1, <1>2, <1>4, <2>1 DEF TypeOK, ReporterTypeOK
  <2>2. CASE q # r
    BY <1>1, <1>2, <1>3, <1>4, <2>2 DEF TypeOK, ReporterTypeOK
  <2> QED
    BY <2>1, <2>2
<1>6. \A o \in Observers : owner'[o] # NoReporter => owner'[o] \in known'
  BY <1>1, OwnersSurvive
<1> QED
  BY <1>5, <1>6 DEF OwnershipConsistent

(* In every reachable state, whatever the order of hellos, takeovers,          *)
(* withdrawals, relay sessions and pruning, and on any clock, a reporter lists *)
(* exactly the observers that name it, and an owner is a known reporter.       *)
THEOREM OwnershipSafe == Spec => []OwnershipConsistent
<1>1. Init => OwnershipConsistent
  BY ReportersAssumption DEF Init, OwnershipConsistent
<1>2. TypeOK /\ OwnershipConsistent /\ [Next]_vars => OwnershipConsistent'
  <2> SUFFICES ASSUME TypeOK, OwnershipConsistent, [Next]_vars PROVE OwnershipConsistent'
    OBVIOUS
  <2>1. ASSUME NEW r \in Reporters, NEW n \in Sequences, DeliverHello(r, n) PROVE OwnershipConsistent'
    BY <2>1, ClaimOwnership DEF DeliverHello, Hello, Batches
  <2>2. ASSUME NEW r \in Reporters, NEW n \in Sequences, DeliverInventory(r, n) PROVE OwnershipConsistent'
    BY <2>2, OrdinaryOwnership DEF DeliverInventory, Inventory
  <2>3. ASSUME NEW r \in Reporters, NEW n \in Sequences, DeliverTraffic(r, n) PROVE OwnershipConsistent'
    BY <2>3, OrdinaryOwnership DEF DeliverTraffic, Traffic
  <2>4. ASSUME NEW r \in Reporters, NEW n \in Sequences, DeliverHeartbeat(r, n) PROVE OwnershipConsistent'
    BY <2>4, OrdinaryOwnership DEF DeliverHeartbeat, Heartbeat
  <2>5. ASSUME NEW r \in Reporters, NEW n \in Sequences, DeliverWithdrawal(r, n) PROVE OwnershipConsistent'
    BY <2>5, WithdrawalOwnership DEF DeliverWithdrawal
  <2>6. ASSUME NEW r \in Reporters, NEW n \in Sequences, DeliverRelaySession(r, n) PROVE OwnershipConsistent'
    BY <2>6, ClaimOwnership DEF DeliverRelaySession, RelaySession, Batches
  <2>7. ASSUME NEW r \in Reporters, NEW n \in Sequences, Refuse(r, n) PROVE OwnershipConsistent'
    BY <2>7, AnswerOwnership DEF Refuse, AnswerDuplicate, AnswerStale, AnswerNotOwner
  <2>8. CASE Tick \/ ClockStepsBack \/ UNCHANGED vars
    BY <2>8 DEF Tick, ClockStepsBack, vars, reporterVars, observerVars, OwnershipConsistent
  <2> QED
    BY <2>1, <2>2, <2>3, <2>4, <2>5, <2>6, <2>7, <2>8 DEF Next
<1> QED
  BY <1>1, <1>2, TypeCorrect, PTL DEF Spec

-----------------------------------------------------------------------------
(* Two properties of a clock that is never set back *)

\* A fence is the entry of its reporter until the evidence window has passed.
FenceInv ==
    \A r \in Reporters :
        /\ fence[r].at <= now
        /\ fence[r].sequence > 0 =>
             /\ fence[r].at > 0
             /\ \/ /\ r \in known
                   /\ lastSequence[r] = fence[r].sequence
                   /\ lastAcceptedAt[r] = fence[r].at
                \/ now - fence[r].at > EvidenceWindow

\* Nothing was received in the future, and all that a detached observer still
\* has on an edge was withdrawn when it was received or later.
EvidenceInv ==
    \A o \in Observers, l \in Links :
        /\ observation[o][l].receivedAt <= now
        /\ owner[o] = NoReporter =>
             \/ observation[o][l].receivedAt = 0
             \/ /\ observation[o][l].withdrawnAt # 0
                /\ observation[o][l].withdrawnAt >= observation[o][l].receivedAt

(* Only a reporter whose fence has run out is pruned. *)
LEMMA PrunedFenceRanOut ==
  ASSUME TypeOK, FenceInv, NEW q \in Reporters, q \notin Surviving, fence[q].sequence > 0
  PROVE  fence[q].at > 0 /\ now - fence[q].at > EvidenceWindow
<1>1. /\ now \in Nat /\ EvidenceWindow \in Nat
      /\ lastAcceptedAt[q] \in Nat /\ fence[q].at \in Nat
  BY BoundsAssumption DEF TypeOK, ReporterTypeOK
<1>2. fence[q].at > 0
  BY DEF FenceInv
<1>3. CASE q \in known /\ lastAcceptedAt[q] = fence[q].at
  BY <1>1, <1>2, <1>3 DEF Surviving
<1>4. CASE now - fence[q].at > EvidenceWindow
  BY <1>2, <1>4
<1> QED
  BY <1>3, <1>4 DEF FenceInv

(* An applied report renews its reporter's fence; the other reporters keep     *)
(* theirs, or it has run out, or the report took their last observer.          *)
LEMMA AcceptFence ==
  ASSUME TypeOK, OwnershipConsistent, FenceInv, NEW r \in Reporters, NEW n \in Sequences, NEW kind, NEW resync,
         NEW owned, NEW superseded, Accept(r, n, kind, resync, owned, superseded)
  PROVE  FenceInv'
<1> DEFINE kept == (Surviving \ superseded) \cup {r}
<1>1. now' = now /\ now \in Nat /\ now > 0 /\ n > 0
  BY DEF Accept, TypeOK, Sequences, clockVars
<1>2. SUFFICES ASSUME NEW q \in Reporters
               PROVE  /\ fence'[q].at <= now
                      /\ fence'[q].sequence > 0 =>
                           /\ fence'[q].at > 0
                           /\ \/ /\ q \in known'
                                 /\ lastSequence'[q] = fence'[q].sequence
                                 /\ lastAcceptedAt'[q] = fence'[q].at
                              \/ now - fence'[q].at > EvidenceWindow
  BY <1>1 DEF FenceInv
<1>3. fence'[q] = IF q = r THEN [sequence |-> n, at |-> now]
                  ELSE IF q \in superseded THEN NoFence ELSE fence[q]
  BY DEF Accept
<1>4. /\ known' = kept
      /\ lastSequence' = [Only(kept, lastSequence, 0) EXCEPT ![r] = n]
      /\ lastAcceptedAt' = [Only(kept, lastAcceptedAt, 0) EXCEPT ![r] = now]
  BY DEF Accept
<1>5. CASE q = r
  BY <1>1, <1>3, <1>4, <1>5 DEF Only
<1>6. CASE q # r /\ q \in superseded
  BY <1>1, <1>3, <1>6 DEF NoFence
<1>7. CASE q # r /\ q \notin superseded
  <2>1. fence'[q] = fence[q] /\ fence[q].at <= now
    BY <1>3, <1>7 DEF FenceInv
  <2>2. CASE q \in Surviving
    <3>1. /\ q \in known'
          /\ lastSequence'[q] = lastSequence[q]
          /\ lastAcceptedAt'[q] = lastAcceptedAt[q]
      BY <1>4, <1>7, <2>2 DEF Only
    <3> QED
      BY <2>1, <2>2, <3>1 DEF FenceInv
  <2>3. CASE q \notin Surviving
    BY <2>1, <2>3, PrunedFenceRanOut
  <2> QED
    BY <2>2, <2>3
<1> QED
  BY <1>5, <1>6, <1>7

(* A refused report prunes, and otherwise leaves every fence alone. *)
LEMMA AnswerFence ==
  ASSUME TypeOK, FenceInv, NEW r, NEW n, NEW accepted, NEW resync,
         Answer(r, n, Surviving, accepted, resync)
  PROVE  FenceInv'
<1>1. now' = now /\ fence' = fence /\ known' = Surviving
  BY DEF Answer, historyVars, clockVars
<1>2. \A q \in Surviving : q \in Reporters => /\ lastSequence'[q] = lastSequence[q]
                                           /\ lastAcceptedAt'[q] = lastAcceptedAt[q]
  BY DEF Answer, Only
<1>3. ASSUME NEW q \in Reporters, fence[q].sequence > 0
      PROVE  /\ fence[q].at > 0
             /\ \/ /\ q \in known'
                   /\ lastSequence'[q] = fence[q].sequence
                   /\ lastAcceptedAt'[q] = fence[q].at
                \/ now - fence[q].at > EvidenceWindow
  BY <1>1, <1>2, <1>3, PrunedFenceRanOut DEF FenceInv
<1> QED
  BY <1>1, <1>3 DEF FenceInv

(* Until the clock is set back, for any instance: the reports of a reporter    *)
(* that was not taken over stay fenced by its last sequence for an evidence    *)
(* window, also after it withdrew all its observers.                           *)
THEOREM FenceSafe == Spec => []FenceHolds
<1>1. Init => clockSetBack \/ FenceInv
  BY DEF Init, FenceInv, NoFence
<1>2. TypeOK /\ OwnershipConsistent /\ (clockSetBack \/ FenceInv) /\ [Next]_vars
        => (clockSetBack \/ FenceInv)'
  <2> SUFFICES ASSUME TypeOK, OwnershipConsistent, FenceInv, [Next]_vars, ~ClockStepsBack
               PROVE  FenceInv'
    BY NeverSetBack
  <2>1. ASSUME NEW r \in Reporters, NEW n \in Sequences,
               \/ DeliverHello(r, n) \/ DeliverInventory(r, n) \/ DeliverTraffic(r, n)
               \/ DeliverHeartbeat(r, n) \/ DeliverWithdrawal(r, n) \/ DeliverRelaySession(r, n)
        PROVE  FenceInv'
    BY <2>1, AcceptFence
       DEF DeliverHello, DeliverInventory, DeliverTraffic, DeliverHeartbeat, DeliverWithdrawal,
           DeliverRelaySession, Hello, Inventory, Traffic, Heartbeat, Withdrawal, RelaySession
  <2>2. ASSUME NEW r \in Reporters, NEW n \in Sequences, Refuse(r, n) PROVE FenceInv'
    BY <2>2, AnswerFence DEF Refuse, AnswerDuplicate, AnswerStale, AnswerNotOwner
  <2>3. CASE Tick
    <3>1. /\ now' = now + 1 /\ fence' = fence /\ known' = known
          /\ lastSequence' = lastSequence /\ lastAcceptedAt' = lastAcceptedAt
      BY <2>3 DEF Tick, historyVars, reporterVars
    <3>2. \A r \in Reporters : fence[r].at \in Nat /\ now \in Nat /\ EvidenceWindow \in Nat
      BY BoundsAssumption DEF TypeOK, ReporterTypeOK
    <3> QED
      BY <3>1, <3>2 DEF FenceInv
  <2>4. CASE UNCHANGED vars
    BY <2>4 DEF vars, reporterVars, historyVars, FenceInv, clockVars
  <2> QED
    BY <2>1, <2>2, <2>3, <2>4 DEF Next
<1>3. TypeOK /\ (clockSetBack \/ FenceInv) => FenceHolds
  BY BoundsAssumption DEF TypeOK, ReporterTypeOK, FenceInv, FenceHolds
<1> QED
  BY <1>1, <1>2, <1>3, TypeCorrect, OwnershipSafe, PTL DEF Spec

(* New evidence is dated now; the rest keeps its dates. *)
LEMMA ObserveEvidence ==
  ASSUME TypeOK, EvidenceInv, NEW moved, Observe(moved), now' = now,
         \A o \in Observers : o \in DOMAIN moved => owner'[o] # NoReporter,
         \A o \in Observers : owner'[o] = NoReporter => owner[o] = NoReporter
  PROVE  EvidenceInv'
<1>1. now \in Nat
  BY DEF TypeOK
<1>2. SUFFICES ASSUME NEW o \in Observers, NEW l \in Links
               PROVE  /\ observation'[o][l].receivedAt <= now
                      /\ owner'[o] = NoReporter =>
                           \/ observation'[o][l].receivedAt = 0
                           \/ /\ observation'[o][l].withdrawnAt # 0
                              /\ observation'[o][l].withdrawnAt >= observation'[o][l].receivedAt
  BY DEF EvidenceInv
<1>3. CASE o \in DOMAIN moved /\ l \in moved[o]
  BY <1>1, <1>3 DEF Observe
<1>4. CASE ~(o \in DOMAIN moved /\ l \in moved[o])
  BY <1>4 DEF Observe, EvidenceInv
<1> QED
  BY <1>3, <1>4

(* Replacing an inventory only removes evidence. *)
LEMMA ReplaceInventoryEvidence ==
  ASSUME TypeOK, EvidenceInv, NEW batch, ReplaceInventory(batch), now' = now,
         \A o \in Observers : owner'[o] = NoReporter => owner[o] = NoReporter
  PROVE  EvidenceInv'
<1>1. now \in Nat
  BY DEF TypeOK
<1>2. ASSUME NEW o \in Observers, NEW l \in Links
      PROVE  observation'[o][l] = NoObservation \/ observation'[o][l] = observation[o][l]
  BY DEF ReplaceInventory
<1> QED
  BY <1>1, <1>2 DEF EvidenceInv, NoObservation

(* A withdrawal dates what the observer has at the time it is received, and    *)
(* nothing was received later than that.                                       *)
LEMMA WithdrawalEvidence ==
  ASSUME TypeOK, EvidenceInv, NEW r, NEW n, NEW batch, Withdrawal(r, n, batch)
  PROVE  EvidenceInv'
<1> DEFINE mine == {o \in batch : owner[o] = r}
<1>1. now \in Nat /\ now # 0 /\ now' = now
  BY DEF TypeOK, Withdrawal, Accept, clockVars
<1>2. owner' = [o \in Observers |-> IF o \in mine THEN NoReporter ELSE owner[o]]
  BY DEF Withdrawal
<1>3. WithdrawEvidence(mine)
  BY DEF Withdrawal
<1>4. ASSUME NEW o \in Observers, NEW l \in Links
      PROVE  /\ observation'[o][l].receivedAt <= now
             /\ owner'[o] = NoReporter =>
                  \/ observation'[o][l].receivedAt = 0
                  \/ /\ observation'[o][l].withdrawnAt # 0
                     /\ observation'[o][l].withdrawnAt >= observation'[o][l].receivedAt
  <2>1. observation[o][l] \in [receivedAt: Nat, withdrawnAt: Nat]
    BY DEF TypeOK, ObserverTypeOK
  <2>2. observation[o][l].receivedAt <= now
    BY DEF EvidenceInv
  <2>3. CASE o \in mine /\ observation[o][l] # NoObservation
    <3>1. observation'[o][l] = [observation[o][l] EXCEPT !.withdrawnAt = now]
      BY <1>3, <2>3 DEF WithdrawEvidence
    <3> QED
      BY <1>1, <2>1, <2>2, <3>1
  <2>4. CASE o \in mine /\ observation[o][l] = NoObservation
    BY <1>1, <1>3, <2>4 DEF WithdrawEvidence, NoObservation
  <2>5. CASE o \notin mine
    BY <1>2, <1>3, <2>5 DEF WithdrawEvidence, EvidenceInv
  <2> QED
    BY <2>3, <2>4, <2>5
<1> QED
  BY <1>1, <1>4 DEF EvidenceInv

(* Until the clock is set back, the dates of evidence are in order. *)
LEMMA EvidenceSafe == Spec => [](clockSetBack \/ EvidenceInv)
<1>1. Init => clockSetBack \/ EvidenceInv
  BY DEF Init, EvidenceInv, NoObservation
<1>2. TypeOK /\ (clockSetBack \/ EvidenceInv) /\ [Next]_vars => (clockSetBack \/ EvidenceInv)'
  <2> SUFFICES ASSUME TypeOK, EvidenceInv, [Next]_vars, ~ClockStepsBack PROVE EvidenceInv'
    BY NeverSetBack
  <2> USE ReportersAssumption
  <2>1. ASSUME NEW r \in Reporters, NEW n \in Sequences, DeliverHello(r, n) PROVE EvidenceInv'
    BY <2>1, ReplaceInventoryEvidence DEF DeliverHello, Hello, Claim, Accept, clockVars
  <2>2. ASSUME NEW r \in Reporters, NEW n \in Sequences, DeliverInventory(r, n) PROVE EvidenceInv'
    BY <2>2, ReplaceInventoryEvidence DEF DeliverInventory, Inventory, Accept, clockVars
  <2>3. ASSUME NEW r \in Reporters, NEW n \in Sequences, DeliverTraffic(r, n) PROVE EvidenceInv'
    BY <2>3, ObserveEvidence DEF DeliverTraffic, Traffic, OwnsAll, Accept, clockVars
  <2>4. ASSUME NEW r \in Reporters, NEW n \in Sequences, DeliverHeartbeat(r, n) PROVE EvidenceInv'
    BY <2>4 DEF DeliverHeartbeat, Heartbeat, Accept, EvidenceInv, clockVars
  <2>5. ASSUME NEW r \in Reporters, NEW n \in Sequences, DeliverWithdrawal(r, n) PROVE EvidenceInv'
    BY <2>5, WithdrawalEvidence DEF DeliverWithdrawal
  <2>6. ASSUME NEW r \in Reporters, NEW n \in Sequences, DeliverRelaySession(r, n) PROVE EvidenceInv'
    BY <2>6, ObserveEvidence DEF DeliverRelaySession, RelaySession, Claim, Accept, clockVars
  <2>7. ASSUME NEW r \in Reporters, NEW n \in Sequences, Refuse(r, n) PROVE EvidenceInv'
    BY <2>7 DEF Refuse, AnswerDuplicate, AnswerStale, AnswerNotOwner, Answer, observerVars, EvidenceInv, clockVars
  <2>8. CASE Tick
    BY <2>8 DEF Tick, observerVars, EvidenceInv, TypeOK, ObserverTypeOK
  <2>9. CASE UNCHANGED vars
    BY <2>9 DEF vars, observerVars, EvidenceInv, clockVars
  <2> QED
    BY <2>1, <2>2, <2>3, <2>4, <2>5, <2>6, <2>7, <2>8, <2>9 DEF Next
<1> QED
  BY <1>1, <1>2, TypeCorrect, PTL DEF Spec

(* Until the clock is set back, for any instance: an observer without an owner *)
(* shows no live evidence, on any edge.                                        *)
THEOREM DetachedSafe == Spec => []DetachedEvidenceNotLive
<1>1. TypeOK /\ (clockSetBack \/ EvidenceInv) => DetachedEvidenceNotLive
  BY DEF TypeOK, ObserverTypeOK, EvidenceInv, DetachedEvidenceNotLive, Live
<1> QED
  BY <1>1, TypeCorrect, EvidenceSafe, PTL

(* What a step makes of an observation: it stays, goes, is withdrawn now or is *)
(* received now.                                                               *)
LEMMA ObservationMoves ==
  ASSUME TypeOK, [Next]_vars, NEW o \in Observers, NEW l \in Links
  PROVE  \/ observation'[o][l] \in {observation[o][l], NoObservation}
         \/ observation'[o][l] = [observation[o][l] EXCEPT !.withdrawnAt = now] /\ now' = now
         \/ observation'[o][l].receivedAt = now /\ receipt'.kind \in {"traffic", "relay"}
<1>1. ASSUME NEW batch, ReplaceInventory(batch)
      PROVE  observation'[o][l] \in {observation[o][l], NoObservation}
  BY <1>1 DEF ReplaceInventory
<1>2. ASSUME NEW moved, Observe(moved)
      PROVE  observation'[o][l] = observation[o][l] \/ observation'[o][l].receivedAt = now
  BY <1>2 DEF Observe
<1>3. ASSUME NEW mine, WithdrawEvidence(mine)
      PROVE  \/ observation'[o][l] = observation[o][l]
             \/ observation'[o][l] = [observation[o][l] EXCEPT !.withdrawnAt = now]
  BY <1>3 DEF WithdrawEvidence
<1>4. ASSUME NEW r \in Reporters, NEW n \in Sequences, DeliverHello(r, n) \/ DeliverInventory(r, n)
      PROVE  observation'[o][l] \in {observation[o][l], NoObservation}
  BY <1>1, <1>4 DEF DeliverHello, DeliverInventory, Hello, Inventory
<1>5. ASSUME NEW r \in Reporters, NEW n \in Sequences,
             DeliverTraffic(r, n) \/ DeliverRelaySession(r, n)
      PROVE  \/ observation'[o][l] = observation[o][l]
             \/ observation'[o][l].receivedAt = now /\ receipt'.kind \in {"traffic", "relay"}
  <2>1. observation'[o][l] = observation[o][l] \/ observation'[o][l].receivedAt = now
    BY <1>2, <1>5 DEF DeliverTraffic, DeliverRelaySession, Traffic, RelaySession
  <2>2. \A kind, resync, owned, superseded :
           Accept(r, n, kind, resync, owned, superseded) => receipt'.kind = kind
    BY DEF Accept
  <2>3. receipt'.kind \in {"traffic", "relay"}
    BY <1>5, <2>2 DEF DeliverTraffic, DeliverRelaySession, Traffic, RelaySession
  <2> QED
    BY <2>1, <2>3
<1>6. ASSUME NEW r \in Reporters, NEW n \in Sequences, DeliverHeartbeat(r, n) \/ Refuse(r, n)
      PROVE  observation' = observation
  BY <1>6 DEF DeliverHeartbeat, Heartbeat, Refuse, AnswerDuplicate, AnswerStale, AnswerNotOwner,
              Answer, observerVars
<1>7. ASSUME NEW r \in Reporters, NEW n \in Sequences, DeliverWithdrawal(r, n)
      PROVE  /\ now' = now
             /\ \/ observation'[o][l] = observation[o][l]
                \/ observation'[o][l] = [observation[o][l] EXCEPT !.withdrawnAt = now]
  BY <1>3, <1>7, DeliveryKeepsClock DEF DeliverWithdrawal, Withdrawal, clockVars
<1>8. ASSUME Tick \/ ClockStepsBack \/ UNCHANGED vars PROVE observation' = observation
  BY <1>8 DEF Tick, ClockStepsBack, vars, observerVars
<1> QED
  BY <1>4, <1>5, <1>6, <1>7, <1>8 DEF Next

(* Until the clock is set back, no step but the receipt of evidence makes      *)
(* evidence live: neither a later claim nor the passing of time revives it.    *)
THEOREM OldTrafficSafe == Spec => OldTrafficStaysWithdrawn
<1>1. ASSUME TypeOK, clockSetBack \/ EvidenceInv, [Next]_vars, ~clockSetBack',
             NEW o \in Observers, NEW l \in Links, ~Live(o, l), Live(o, l)'
      PROVE  observation'[o][l].receivedAt = now /\ receipt'.kind \in {"traffic", "relay"}
  <2>1. EvidenceInv /\ ~ClockStepsBack
    BY <1>1, NeverSetBack
  <2>2. /\ observation[o][l] \in [receivedAt: Nat, withdrawnAt: Nat]
        /\ observation[o][l].receivedAt <= now
        /\ now \in Nat \ {0} /\ EvidenceWindow \in Nat
    BY <1>1, <2>1, BoundsAssumption DEF TypeOK, ObserverTypeOK, EvidenceInv
  <2>3. now' \in {now, now + 1}
    <3>1. ASSUME NEW r \in Reporters, NEW n \in Sequences,
                 \/ DeliverHello(r, n) \/ DeliverInventory(r, n) \/ DeliverTraffic(r, n)
                 \/ DeliverHeartbeat(r, n) \/ DeliverWithdrawal(r, n)
                 \/ DeliverRelaySession(r, n) \/ Refuse(r, n)
          PROVE  now' = now
      BY <1>1, <3>1, DeliveryKeepsClock DEF clockVars
    <3> QED
      BY <1>1, <2>1, <3>1 DEF Next, Tick, vars, clockVars
  <2>4. CASE observation'[o][l] \in {observation[o][l], NoObservation}
    BY <1>1, <2>2, <2>3, <2>4 DEF Live, NoObservation
  <2>5. CASE observation'[o][l] = [observation[o][l] EXCEPT !.withdrawnAt = now] /\ now' = now
    BY <1>1, <2>2, <2>5 DEF Live
  <2> QED
    BY <1>1, <2>4, <2>5, ObservationMoves
<1>2. TypeOK /\ (clockSetBack \/ EvidenceInv) /\ [Next]_vars =>
        [\A o \in Observers, l \in Links :
            ~clockSetBack' /\ ~Live(o, l) /\ Live(o, l)' =>
                /\ observation'[o][l].receivedAt = now
                /\ receipt'.kind \in {"traffic", "relay"}]_vars
  BY <1>1
<1> QED
  BY <1>2, TypeCorrect, EvidenceSafe, PTL DEF Spec, OldTrafficStaysWithdrawn

-----------------------------------------------------------------------------
(* What a report may change, on any clock *)

\* What the server knows of an observer changes.
Updated(o) ==
    \/ lastReport'[o] # lastReport[o]
    \/ generation'[o] # generation[o]
    \/ withdrawnAt'[o] # withdrawnAt[o]
    \/ observation'[o] # observation[o]

(* The helpers touch no observer outside the batch they are given. *)
LEMMA OthersUntouched ==
  ASSUME TypeOK, NEW o \in Observers, NEW batch, o \notin DOMAIN batch
  PROVE  /\ Touch(DOMAIN batch) => lastReport'[o] = lastReport[o]
         /\ \A r : Claim(r, DOMAIN batch) => withdrawnAt'[o] = withdrawnAt[o]
         /\ ReplaceInventory(batch) => generation'[o] = generation[o] /\ observation'[o] = observation[o]
         /\ Observe(batch) => observation'[o] = observation[o]
<1>1. observation[o] = [l \in Links |-> observation[o][l]]
  BY DEF TypeOK, ObserverTypeOK
<1>2. ASSUME ReplaceInventory(batch)
      PROVE  generation'[o] = generation[o] /\ observation'[o] = observation[o]
  BY <1>1, <1>2 DEF ReplaceInventory
<1>3. ASSUME Observe(batch) PROVE observation'[o] = observation[o]
  BY <1>1, <1>3 DEF Observe
<1> QED
  BY <1>2, <1>3 DEF Touch, Claim

(* A withdrawal touches no observer but the reporter's own. *)
LEMMA WithdrawalTouchesOwn ==
  ASSUME TypeOK, NEW o \in Observers, NEW r, NEW n, NEW batch, Withdrawal(r, n, batch), owner[o] # r
  PROVE  ~Updated(o)
<1>1. observation[o] = [l \in Links |-> observation[o][l]]
  BY DEF TypeOK, ObserverTypeOK
<1>2. observation'[o] = observation[o]
  BY <1>1 DEF Withdrawal, WithdrawEvidence
<1> QED
  BY <1>2 DEF Withdrawal, Touch, Updated

(* What the server knows of an observer only changes by an applied report of   *)
(* the reporter that owns it, before the report or by the claim in it.         *)
THEOREM OnlyOwnerSafe == Spec => OnlyOwnerUpdates
<1> DEFINE Allowed ==
      \A o \in Observers : Updated(o) =>
          receipt'.accepted /\ receipt'.reporter \in {owner[o], owner'[o]}
<1>1. TypeOK /\ [Next]_vars => [Allowed]_vars
  <2> SUFFICES ASSUME TypeOK, [Next]_vars PROVE Allowed
    OBVIOUS
  <2> SUFFICES ASSUME NEW o \in Observers, Updated(o)
               PROVE  receipt'.accepted /\ receipt'.reporter \in {owner[o], owner'[o]}
    OBVIOUS
  <2>0. \A r, n, kind, resync, owned, superseded :
           Accept(r, n, kind, resync, owned, superseded) => receipt'.accepted /\ receipt'.reporter = r
    BY DEF Accept
  <2>1. ASSUME NEW r \in Reporters, NEW n \in Sequences, DeliverHello(r, n)
        PROVE  receipt'.accepted /\ receipt'.reporter \in {owner[o], owner'[o]}
    <3>1. PICK B \in Batches : \E batch \in [B -> Generations] : Hello(r, n, batch)
      BY <2>1 DEF DeliverHello
    <3>2. PICK batch \in [B -> Generations] : Hello(r, n, batch)
      BY <3>1
    <3>3. o \in DOMAIN batch
      BY <3>2, OthersUntouched DEF Hello, Updated
    <3> QED
      BY <2>0, <3>2, <3>3 DEF Hello, Claim
  <2>2. ASSUME NEW r \in Reporters, NEW n \in Sequences, DeliverInventory(r, n)
        PROVE  receipt'.accepted /\ receipt'.reporter \in {owner[o], owner'[o]}
    <3>1. PICK B \in Batches : \E batch \in [B -> Generations] : Inventory(r, n, batch)
      BY <2>2 DEF DeliverInventory
    <3>2. PICK batch \in [B -> Generations] : Inventory(r, n, batch)
      BY <3>1
    <3>3. o \in DOMAIN batch
      BY <3>2, OthersUntouched DEF Inventory, Updated
    <3> QED
      BY <2>0, <3>2, <3>3 DEF Inventory, OwnsAll
  <2>3. ASSUME NEW r \in Reporters, NEW n \in Sequences, DeliverTraffic(r, n)
        PROVE  receipt'.accepted /\ receipt'.reporter \in {owner[o], owner'[o]}
    <3>1. PICK B \in Batches : \E batch \in [B -> Generations], moved \in [B -> SUBSET Peers] :
                                 Traffic(r, n, batch, moved)
      BY <2>3 DEF DeliverTraffic
    <3>2. PICK batch \in [B -> Generations], moved \in [B -> SUBSET Peers] : Traffic(r, n, batch, moved)
      BY <3>1
    <3>3. DOMAIN batch = B /\ DOMAIN moved = B
      OBVIOUS
    <3>4. o \in B
      BY <3>2, <3>3, OthersUntouched DEF Traffic, Updated
    <3> QED
      BY <2>0, <3>2, <3>3, <3>4 DEF Traffic, OwnsAll
  <2>4. ASSUME NEW r \in Reporters, NEW n \in Sequences, DeliverHeartbeat(r, n)
        PROVE  receipt'.accepted /\ receipt'.reporter \in {owner[o], owner'[o]}
    <3>1. PICK B \in Batches : \E batch \in [B -> Generations] : Heartbeat(r, n, batch)
      BY <2>4 DEF DeliverHeartbeat
    <3>2. PICK batch \in [B -> Generations] : Heartbeat(r, n, batch)
      BY <3>1
    <3>3. o \in DOMAIN batch
      BY <3>2, OthersUntouched DEF Heartbeat, Updated
    <3> QED
      BY <2>0, <3>2, <3>3 DEF Heartbeat, OwnsAll
  <2>5. ASSUME NEW r \in Reporters, NEW n \in Sequences, DeliverWithdrawal(r, n)
        PROVE  receipt'.accepted /\ receipt'.reporter \in {owner[o], owner'[o]}
    BY <2>0, <2>5, WithdrawalTouchesOwn DEF DeliverWithdrawal, Withdrawal
  <2>6. ASSUME NEW r \in Reporters, NEW n \in Sequences, DeliverRelaySession(r, n)
        PROVE  receipt'.accepted /\ receipt'.reporter \in {owner[o], owner'[o]}
    <3>1. PICK B \in Batches : \E reached \in [B -> SUBSET RelayLinks] : RelaySession(r, n, reached)
      BY <2>6 DEF DeliverRelaySession
    <3>2. PICK reached \in [B -> SUBSET RelayLinks] : RelaySession(r, n, reached)
      BY <3>1
    <3>3. o \in DOMAIN reached
      BY <3>2, OthersUntouched DEF RelaySession, Updated
    <3> QED
      BY <2>0, <3>2, <3>3 DEF RelaySession, Claim
  <2>7. ASSUME NEW r \in Reporters, NEW n \in Sequences, Refuse(r, n) PROVE FALSE
    BY <2>7 DEF Refuse, AnswerDuplicate, AnswerStale, AnswerNotOwner, Answer, observerVars, Updated
  <2>8. CASE Tick \/ ClockStepsBack \/ UNCHANGED vars
    BY <2>8 DEF Tick, ClockStepsBack, vars, observerVars, Updated
  <2> QED
    BY <2>1, <2>2, <2>3, <2>4, <2>5, <2>6, <2>7, <2>8 DEF Next
<1>2. [Allowed]_vars <=> [\A o \in Observers :
          (\/ lastReport'[o] # lastReport[o]
           \/ generation'[o] # generation[o]
           \/ withdrawnAt'[o] # withdrawnAt[o]
           \/ observation'[o] # observation[o]) =>
              /\ receipt'.accepted
              /\ receipt'.reporter \in {owner[o], owner'[o]}]_vars
  BY DEF Updated
<1> QED
  BY <1>1, <1>2, TypeCorrect, PTL DEF Spec, OnlyOwnerUpdates

-----------------------------------------------------------------------------
(* Gaps and the reporter table, on any clock *)

\* The sequence an entry is fenced by took effect.
AppliedInv == \A r \in known : lastSequence[r] > 0 /\ lastSequence[r] \in applied[r]

\* A step of the server that applies report n of r, and one that applies none.
Applies(r, n) ==
    \E kind, resync, owned, superseded : Accept(r, n, kind, resync, owned, superseded)

(* A step applies a report, refuses one, or leaves the reporter table alone. *)
LEMMA StepKinds ==
  ASSUME TypeOK, [Next]_vars
  PROVE  \/ \E r \in Reporters, n \in Sequences : Applies(r, n)
         \/ \E r \in Reporters, n \in Sequences : \E accepted, resync :
                Answer(r, n, Surviving, accepted, resync)
         \/ UNCHANGED <<reporterVars, historyVars>> /\ (now' # now \/ UNCHANGED vars)
<1>1. ASSUME NEW r \in Reporters, NEW n \in Sequences,
             \/ DeliverHello(r, n) \/ DeliverInventory(r, n) \/ DeliverTraffic(r, n)
             \/ DeliverHeartbeat(r, n) \/ DeliverWithdrawal(r, n) \/ DeliverRelaySession(r, n)
      PROVE  Applies(r, n)
  BY <1>1 DEF DeliverHello, DeliverInventory, DeliverTraffic, DeliverHeartbeat, DeliverWithdrawal,
              DeliverRelaySession, Hello, Inventory, Traffic, Heartbeat, Withdrawal, RelaySession,
              Applies
<1>2. ASSUME NEW r \in Reporters, NEW n \in Sequences, Refuse(r, n)
      PROVE  \E accepted, resync : Answer(r, n, Surviving, accepted, resync)
  BY <1>2 DEF Refuse, AnswerDuplicate, AnswerStale, AnswerNotOwner
<1>3. ASSUME Tick \/ ClockStepsBack \/ UNCHANGED vars
      PROVE  UNCHANGED <<reporterVars, historyVars>> /\ (now' # now \/ UNCHANGED vars)
  BY <1>3 DEF Tick, ClockStepsBack, vars, TypeOK
<1> QED
  BY <1>1, <1>2, <1>3 DEF Next

(* Whoever is known had a report applied: the one it is fenced by. *)
LEMMA AppliedSafe == Spec => []AppliedInv
<1>1. Init => AppliedInv
  BY DEF Init, AppliedInv
<1>2. TypeOK /\ AppliedInv /\ [Next]_vars => AppliedInv'
  <2> SUFFICES ASSUME TypeOK, AppliedInv, [Next]_vars, NEW q \in known'
               PROVE  lastSequence'[q] > 0 /\ lastSequence'[q] \in applied'[q]
    BY DEF AppliedInv
  <2>1. ASSUME NEW r \in Reporters, NEW n \in Sequences, NEW kind, NEW resync, NEW owned,
               NEW superseded, Accept(r, n, kind, resync, owned, superseded)
        PROVE  lastSequence'[q] > 0 /\ lastSequence'[q] \in applied'[q]
    <3> DEFINE kept == (Surviving \ superseded) \cup {r}
    <3>1. /\ q \in kept /\ kept \subseteq Reporters /\ n > 0
          /\ lastSequence' = [Only(kept, lastSequence, 0) EXCEPT ![r] = n]
          /\ applied' = [applied EXCEPT ![r] = @ \cup {n}]
      BY <2>1, SurvivingKnown DEF Accept, TypeOK, ReporterTypeOK, Sequences
    <3>2. applied \in [Reporters -> SUBSET Sequences]
      BY DEF TypeOK, ReporterTypeOK
    <3>3. CASE q = r
      BY <3>1, <3>2, <3>3 DEF Only
    <3>4. CASE q # r
      <4>1. q \in known
        BY <3>1, <3>4, SurvivingKnown
      <4> QED
        BY <3>1, <3>2, <3>4, <4>1 DEF AppliedInv, Only
    <3> QED
      BY <3>3, <3>4
  <2>2. ASSUME NEW r \in Reporters, NEW n \in Sequences, NEW accepted, NEW resync,
               Answer(r, n, Surviving, accepted, resync)
        PROVE  lastSequence'[q] > 0 /\ lastSequence'[q] \in applied'[q]
    BY <2>2, SurvivingKnown DEF Answer, Only, historyVars, AppliedInv, TypeOK, ReporterTypeOK
  <2>3. CASE UNCHANGED <<reporterVars, historyVars>>
    BY <2>3 DEF reporterVars, historyVars, AppliedInv
  <2> QED
    BY <2>1, <2>2, <2>3, StepKinds DEF Applies
<1> QED
  BY <1>1, <1>2, TypeCorrect, PTL DEF Spec

(* A report of an owner that is applied without a request to resync follows    *)
(* the report of that owner applied last.                                      *)
LEMMA OwnerHasNoGap ==
  ASSUME TypeOK, OwnershipConsistent, AppliedInv, NEW r \in Reporters, NEW n \in Sequences,
         NEW B \in Batches, OwnsAll(r, B), ~Gap(r, n)
  PROVE  n - 1 \in applied[r]
<1>1. PICK o \in B : o \in Observers /\ owner[o] = r
  BY DEF Batches, OwnsAll
<1>2. r \in Surviving /\ r \in known
  BY <1>1, OwnersSurvive, ReportersAssumption, SurvivingKnown
<1>3. /\ SequenceOf(r) = lastSequence[r] /\ lastSequence[r] \in applied[r]
      /\ lastSequence[r] > 0 /\ lastSequence[r] \in Nat /\ n \in Nat
  BY <1>2 DEF SequenceOf, AppliedInv, TypeOK, ReporterTypeOK, Sequences
<1> QED
  BY <1>3 DEF Gap

(* On any clock: a lost or overtaken report is noticed with the next report of *)
(* the reporter that is applied.                                               *)
THEOREM GapsNoticed == Spec => NoSilentGap
<1> DEFINE Gapless(r) ==
      /\ applied'[r] # applied[r]
      /\ receipt'.kind \in {"inventory", "traffic", "heartbeat"}
      /\ ~receipt'.resync
      => receipt'.sequence - 1 \in applied[r]
<1>1. TypeOK /\ OwnershipConsistent /\ AppliedInv /\ [Next]_vars
        => [\A r \in Reporters : Gapless(r)]_vars
  <2> SUFFICES ASSUME TypeOK, OwnershipConsistent, AppliedInv, [Next]_vars, NEW q \in Reporters
               PROVE  Gapless(q)
    OBVIOUS
  <2>1. ASSUME NEW r \in Reporters, NEW n \in Sequences, NEW B \in Batches, OwnsAll(r, B),
               NEW kind, NEW resync, NEW owned, NEW superseded,
               Accept(r, n, kind, resync, owned, superseded)
        PROVE  Gapless(q)
    <3>1. /\ receipt'.sequence = n /\ receipt'.resync = (Gap(r, n) \/ resync)
          /\ applied' = [applied EXCEPT ![r] = @ \cup {n}]
      BY <2>1 DEF Accept
    <3>2. applied'[q] # applied[q] => q = r
      BY <3>1 DEF TypeOK, ReporterTypeOK
    <3>3. ~Gap(r, n) => n - 1 \in applied[r]
      BY <2>1, OwnerHasNoGap
    <3> QED
      BY <3>1, <3>2, <3>3
  <2>2. ASSUME NEW r \in Reporters, NEW n \in Sequences, DeliverInventory(r, n) PROVE Gapless(q)
    <3>1. PICK B \in Batches : \E batch \in [B -> Generations] : Inventory(r, n, batch)
      BY <2>2 DEF DeliverInventory
    <3>2. PICK batch \in [B -> Generations] : Inventory(r, n, batch)
      BY <3>1
    <3>3. DOMAIN batch = B
      OBVIOUS
    <3> HIDE DEF Gapless
    <3> QED
      BY <2>1, <3>2, <3>3 DEF Inventory
  <2>3. ASSUME NEW r \in Reporters, NEW n \in Sequences, DeliverTraffic(r, n) PROVE Gapless(q)
    <3>1. PICK B \in Batches : \E batch \in [B -> Generations], moved \in [B -> SUBSET Peers] :
                                 Traffic(r, n, batch, moved)
      BY <2>3 DEF DeliverTraffic
    <3>2. PICK batch \in [B -> Generations], moved \in [B -> SUBSET Peers] :
                 Traffic(r, n, batch, moved)
      BY <3>1
    <3>3. DOMAIN batch = B
      OBVIOUS
    <3> HIDE DEF Gapless
    <3> QED
      BY <2>1, <3>2, <3>3 DEF Traffic
  <2>4. ASSUME NEW r \in Reporters, NEW n \in Sequences, DeliverHeartbeat(r, n) PROVE Gapless(q)
    <3>1. PICK B \in Batches : \E batch \in [B -> Generations] : Heartbeat(r, n, batch)
      BY <2>4 DEF DeliverHeartbeat
    <3>2. PICK batch \in [B -> Generations] : Heartbeat(r, n, batch)
      BY <3>1
    <3>3. DOMAIN batch = B
      OBVIOUS
    <3> HIDE DEF Gapless
    <3> QED
      BY <2>1, <3>2, <3>3 DEF Heartbeat
  <2>5. ASSUME NEW r \in Reporters, NEW n \in Sequences,
               DeliverHello(r, n) \/ DeliverWithdrawal(r, n) \/ DeliverRelaySession(r, n)
        PROVE  receipt'.kind \in {"hello", "withdrawal", "relay"}
    <3>1. \A kind, resync, owned, superseded :
             Accept(r, n, kind, resync, owned, superseded) => receipt'.kind = kind
      BY DEF Accept
    <3> QED
      BY <2>5, <3>1 DEF DeliverHello, DeliverWithdrawal, DeliverRelaySession, Hello, Withdrawal,
                        RelaySession
  <2>6. ASSUME NEW r \in Reporters, NEW n \in Sequences, Refuse(r, n) PROVE applied' = applied
    BY <2>6 DEF Refuse, AnswerDuplicate, AnswerStale, AnswerNotOwner, Answer, historyVars
  <2>7. CASE Tick \/ ClockStepsBack \/ UNCHANGED vars
    BY <2>7 DEF Tick, ClockStepsBack, vars, historyVars
  <2> QED
    BY <2>2, <2>3, <2>4, <2>5, <2>6, <2>7 DEF Next
<1> QED
  BY <1>1, TypeCorrect, OwnershipSafe, AppliedSafe, PTL DEF Spec, NoSilentGap

(* An applied report leaves an entry without observers only to its own         *)
(* reporter, or where the entry had none before.                               *)
LEMMA AcceptBounded ==
  ASSUME TypeOK, NEW r \in Reporters, NEW n \in Sequences, NEW kind, NEW resync, NEW owned,
         NEW superseded, Accept(r, n, kind, resync, owned, superseded),
         \A q \in Surviving \ (superseded \cup {r}) : owned[q] = {} => observerIDs[q] = {},
         NEW q \in known', observerIDs'[q] = {}
  PROVE  now - lastAcceptedAt'[q] <= EvidenceWindow
<1> DEFINE kept == (Surviving \ superseded) \cup {r}
<1>1. /\ kept \subseteq Reporters /\ q \in kept
      /\ observerIDs' = Only(kept, owned, {})
      /\ lastAcceptedAt' = [Only(kept, lastAcceptedAt, 0) EXCEPT ![r] = now]
  BY SurvivingKnown DEF Accept, TypeOK, ReporterTypeOK
<1>2. now \in Nat /\ EvidenceWindow \in Nat
  BY BoundsAssumption DEF TypeOK
<1>3. CASE q = r
  BY <1>1, <1>2, <1>3 DEF Only
<1>4. CASE q # r
  <2>1. observerIDs[q] = {} /\ q \in Surviving
    BY <1>1, <1>4 DEF Only
  <2>2. lastAcceptedAt'[q] = lastAcceptedAt[q]
    BY <1>1, <1>4 DEF Only
  <2> QED
    BY <2>1, <2>2 DEF Surviving
<1> QED
  BY <1>3, <1>4

(* A reporter that loses its last observer to a claim is superseded. *)
LEMMA ClaimEmptiesSuperseded ==
  ASSUME TypeOK, OwnershipConsistent, NEW r \in Reporters, NEW claimed,
         NEW q \in Surviving \ (Superseded(r, claimed) \cup {r}), Claimed(r, claimed)[q] = {}
  PROVE  observerIDs[q] = {}
<1>1. q \in Reporters /\ Claimed(r, claimed)[q] = observerIDs[q] \ Taken(q, r, claimed)
  BY SurvivingKnown DEF Claimed, TypeOK, ReporterTypeOK
<1>2. observerIDs[q] \subseteq Taken(q, r, claimed)
  BY <1>1
<1> QED
  BY <1>2 DEF Superseded

(* On any clock: whatever a report does, an entry it leaves without observers  *)
(* had a report applied within the evidence window, so the table of reporters  *)
(* does not grow with the reporters that come and go.                          *)
THEOREM TableBounded == Spec => ReporterTableBounded
<1> DEFINE Bounded(q) == observerIDs'[q] = {} => now - lastAcceptedAt'[q] <= EvidenceWindow
<1>1. TypeOK /\ OwnershipConsistent /\ AppliedInv' /\ [Next]_vars
        => [now' = now => \A r \in known' : lastSequence'[r] > 0 /\ Bounded(r)]_vars
  <2> SUFFICES ASSUME TypeOK, OwnershipConsistent, AppliedInv', Next, now' = now, NEW q \in known'
               PROVE  Bounded(q)
    BY DEF AppliedInv
  <2>0. \A r \in Reporters : \A claimed :
           \A p \in Surviving \ (Superseded(r, claimed) \cup {r}) :
               Claimed(r, claimed)[p] = {} => observerIDs[p] = {}
    BY ClaimEmptiesSuperseded
  <2>1. ASSUME NEW r \in Reporters, NEW n \in Sequences, NEW kind, NEW resync, NEW claimed,
               Accept(r, n, kind, resync, Claimed(r, claimed), Superseded(r, claimed))
        PROVE  Bounded(q)
    <3>1. PICK owned, superseded : /\ owned = Claimed(r, claimed)
                                   /\ superseded = Superseded(r, claimed)
      OBVIOUS
    <3>2. Accept(r, n, kind, resync, owned, superseded)
      BY <2>1, <3>1
    <3>3. \A p \in Surviving \ (superseded \cup {r}) : owned[p] = {} => observerIDs[p] = {}
      BY <2>0, <3>1
    <3> QED
      BY <3>2, <3>3, AcceptBounded
  <2>2. ASSUME NEW r \in Reporters, NEW n \in Sequences, NEW kind, NEW resync,
               Accept(r, n, kind, resync, observerIDs, {})
        PROVE  Bounded(q)
    BY <2>2, AcceptBounded
  <2>3. ASSUME NEW r \in Reporters, NEW n \in Sequences, NEW mine,
               Accept(r, n, "withdrawal", FALSE, [observerIDs EXCEPT ![r] = @ \ mine], {})
        PROVE  Bounded(q)
    <3>1. PICK owned : owned = [observerIDs EXCEPT ![r] = @ \ mine]
      OBVIOUS
    <3>2. Accept(r, n, "withdrawal", FALSE, owned, {})
      BY <2>3, <3>1
    <3>3. \A p \in Surviving \ ({} \cup {r}) : owned[p] = {} => observerIDs[p] = {}
      BY <3>1, SurvivingKnown DEF TypeOK, ReporterTypeOK
    <3> QED
      BY <3>2, <3>3, AcceptBounded
  <2>4. ASSUME NEW r \in Reporters, NEW n \in Sequences, NEW accepted, NEW resync,
               Answer(r, n, Surviving, accepted, resync)
        PROVE  Bounded(q)
    BY <2>4, SurvivingKnown DEF Answer, Only, Surviving, TypeOK, ReporterTypeOK
  <2>5. ASSUME Tick \/ ClockStepsBack PROVE FALSE
    BY <2>5 DEF Tick, ClockStepsBack, TypeOK
  <2> HIDE DEF Bounded
  <2>6. ASSUME NEW r \in Reporters, NEW n \in Sequences,
               DeliverHello(r, n) \/ DeliverRelaySession(r, n)
        PROVE  Bounded(q)
    BY <2>1, <2>6 DEF DeliverHello, DeliverRelaySession, Hello, RelaySession
  <2>7. ASSUME NEW r \in Reporters, NEW n \in Sequences,
               \/ DeliverInventory(r, n) \/ DeliverTraffic(r, n)
               \/ DeliverHeartbeat(r, n) \/ DeliverWithdrawal(r, n)
        PROVE  Bounded(q)
    BY <2>2, <2>3, <2>7 DEF DeliverInventory, DeliverTraffic, DeliverHeartbeat, DeliverWithdrawal,
                            Inventory, Traffic, Heartbeat, Withdrawal
  <2>8. ASSUME NEW r \in Reporters, NEW n \in Sequences, Refuse(r, n)
        PROVE  Bounded(q)
    BY <2>4, <2>8 DEF Refuse, AnswerDuplicate, AnswerStale, AnswerNotOwner
  <2> QED
    BY <2>5, <2>6, <2>7, <2>8 DEF Next
<1>2. [now' = now => \A r \in known' : lastSequence'[r] > 0 /\ Bounded(r)]_vars
        <=> [now' = now =>
                \A r \in known' :
                    /\ lastSequence'[r] > 0
                    /\ observerIDs'[r] = {} => now - lastAcceptedAt'[r] <= EvidenceWindow]_vars
  OBVIOUS
<1> QED
  BY <1>1, <1>2, TypeCorrect, OwnershipSafe, AppliedSafe, PTL DEF Spec, ReporterTableBounded

=============================================================================
