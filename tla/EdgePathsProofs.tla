-------------------------- MODULE EdgePathsProofs ---------------------------
(* Proofs about EdgePaths, for every edge, set of relays and thing an observer *)
(* may say: the path events of an edge are the changes of what its observers   *)
(* say, and the order of receipt and of the walks through a map makes none.    *)
EXTENDS EdgePaths, WellFoundedInduction, TLAPS

-----------------------------------------------------------------------------
(* Keys and sameness *)

LEMMA KeyTellsKind ==
  ASSUME NEW path
  PROVE  PathEvidenceKey(path).kind =
           IF path.kind \in {"direct", "derp", "peer_relay"} THEN path.kind ELSE "unknown"
  BY DEF PathEvidenceKey, RelayKey

LEMMA SamePathTransitive ==
  ASSUME NEW p, NEW q, NEW r, SameDirectionalPath(p, q), SameDirectionalPath(q, r)
  PROVE  SameDirectionalPath(p, r)
<1>1. p.kind = "direct" => q.kind = "direct"
  BY KeyTellsKind DEF SameDirectionalPath
<1>2. p.kind = "peer_relay" => q.kind = "peer_relay"
  BY KeyTellsKind DEF SameDirectionalPath
<1> QED
  BY <1>1, <1>2 DEF SameDirectionalPath

LEMMA SameSayingTransitive ==
  ASSUME NEW p, NEW q, NEW r, SameSaying(p, q), SameSaying(q, r)
  PROVE  SameSaying(p, r)
  BY SamePathTransitive DEF SameSaying

LEMMA SameEvidenceTransitive ==
  ASSUME NEW p, NEW q, NEW r, SamePathEvidence(p, q), SamePathEvidence(q, r)
  PROVE  SamePathEvidence(p, r)
<1>1. SameDirectionalPaths(p.directions, r.directions)
  BY SameSayingTransitive DEF SamePathEvidence, SameDirectionalPaths
<1> QED
  BY <1>1 DEF SamePathEvidence

LEMMA SameDirectionsReflexive ==
  ASSUME NEW directions
  PROVE  SameDirectionalPaths(directions, directions)
  BY DEF SameDirectionalPaths, SameSaying, SameDirectionalPath

-----------------------------------------------------------------------------
(* The preferred observer of a set *)

LEMMA NatsHaveLeast ==
  ASSUME NEW S \in SUBSET Nat, S # {}
  PROVE  \E x \in S : \A y \in S : x <= y
<1>1. PICK x \in S : \A y \in S : ~(<<y, x>> \in OpToRel(<, Nat))
  BY NatLessThanWellFounded, WFMin
<1>2. \A y \in S : ~(y < x)
  BY <1>1 DEF OpToRel
<1> QED
  BY <1>2

LEMMA FirstIsMember ==
  ASSUME NEW S \in SUBSET Observers, S # {}
  PROVE  First(S) \in S
<1>1. \E o \in S : \A p \in S \ {o} : Preferred(o, p)
  <2>1. CASE Source \in S
    BY <2>1, EdgeAssumption DEF Preferred, Role
  <2>2. CASE Source \notin S /\ Target \in S
    BY <2>2, EdgeAssumption DEF Preferred, Role
  <2>3. CASE Source \notin S /\ Target \notin S
    <3>1. S \in SUBSET Nat
      BY EdgeAssumption
    <3>2. PICK o \in S : \A p \in S : o <= p
      BY <3>1, NatsHaveLeast
    <3>3. \A p \in S : Role(p) = 2
      BY <2>3 DEF Role
    <3>4. \A p \in S \ {o} : o < p
      BY <3>1, <3>2
    <3> QED
      BY <3>2, <3>3, <3>4 DEF Preferred
  <2> QED
    BY <2>1, <2>2, <2>3
<1> QED
  BY <1>1 DEF First

-----------------------------------------------------------------------------
(* What reconciliation shows *)

IsPath(path) == path.kind \in Kinds /\ DOMAIN path = DOMAIN NoPath

Heard(heard) ==
  DOMAIN heard \subseteq Observers /\ \A o \in DOMAIN heard : IsPath(heard[o].path)

LEMMA FieldsOfPath ==
  DOMAIN NoPath = {"kind", "region", "stable", "endpoint", "resolution", "vni"}
  BY DEF NoPath

\* Details filled in by others who say the same leave the key as it is.
LEMMA EnrichedKeepsKey ==
  ASSUME NEW heard, NEW path, IsPath(path), NEW others,
         \A o \in others : IsPath(heard[o].path) /\ KeyOf(heard, o) = PathEvidenceKey(path)
  PROVE  /\ Enriched(heard, path, others).kind = path.kind
         /\ PathEvidenceKey(Enriched(heard, path, others)) = PathEvidenceKey(path)
<1> DEFINE rich == Enriched(heard, path, others)
<1>1. \A field \in DOMAIN NoPath :
        /\ field \notin Details(path.kind) => rich[field] = path[field]
        /\ path[field] # Nothing => rich[field] = path[field]
        /\ (\A o \in others : heard[o].path[field] = Nothing) => rich[field] = path[field]
  BY DEF Enriched, IsPath
<1>2. rich.kind = path.kind
  BY <1>1, FieldsOfPath DEF Details
<1>3. \A o \in others : heard[o].path.kind = path.kind
  BY KeyTellsKind DEF KeyOf, IsPath, Kinds
<1>4. CASE path.kind = "derp"
  <2>1. \A o \in others : heard[o].path.region = path.region
    BY <1>3, <1>4 DEF KeyOf, PathEvidenceKey
  <2>2. rich.region = path.region
    BY <1>1, <2>1, FieldsOfPath
  <2> QED
    BY <1>2, <1>4, <2>2 DEF PathEvidenceKey
<1>5. CASE path.kind = "peer_relay"
  <2>1. \A o \in others : RelayKey(heard[o].path) = RelayKey(path)
    BY <1>3, <1>5 DEF KeyOf, PathEvidenceKey
  <2>2. CASE path.stable # Nothing
    <3>1. rich.stable = path.stable
      BY <1>1, <2>2, FieldsOfPath
    <3>2. RelayKey(rich) = RelayKey(path)
      BY <2>2, <3>1 DEF RelayKey
    <3> QED
      BY <1>2, <1>5, <3>2 DEF PathEvidenceKey
  <2>3. CASE path.stable = Nothing
    <3>1. \A o \in others : heard[o].path.stable = Nothing
      BY <2>1, <2>3 DEF RelayKey
    <3>2. rich.stable = Nothing
      BY <1>1, <2>3, <3>1, FieldsOfPath
    <3>3. CASE path.endpoint # Nothing
      <4>1. rich.endpoint = path.endpoint
        BY <1>1, <3>3, FieldsOfPath
      <4>2. RelayKey(rich) = RelayKey(path)
        BY <2>3, <3>2, <3>3, <4>1 DEF RelayKey
      <4> QED
        BY <1>2, <1>5, <4>2 DEF PathEvidenceKey
    <3>4. CASE path.endpoint = Nothing
      <4>1. \A o \in others : heard[o].path.endpoint = Nothing /\ heard[o].path.vni = path.vni
        BY <2>1, <2>3, <3>1, <3>4 DEF RelayKey
      <4>2. rich.endpoint = Nothing /\ rich.vni = path.vni
        BY <1>1, <3>4, <4>1, FieldsOfPath
      <4>3. RelayKey(rich) = RelayKey(path)
        BY <2>3, <3>2, <3>4, <4>2 DEF RelayKey
      <4> QED
        BY <1>2, <1>5, <4>3 DEF PathEvidenceKey
    <3> QED
      BY <3>3, <3>4
  <2> QED
    BY <2>2, <2>3
<1>6. CASE path.kind \in {"direct", "unknown"}
  BY <1>2, <1>6 DEF PathEvidenceKey
<1> QED
  BY <1>2, <1>4, <1>5, <1>6 DEF IsPath, Kinds

LEMMA PathsOfHaveTheKey ==
  ASSUME NEW heard, Heard(heard), NEW key \in KeysOf(heard), NEW path \in PathsOf(heard, key)
  PROVE  path.kind \in Kinds /\ PathEvidenceKey(path) = key
<1> DEFINE holders == {o \in DOMAIN heard : KeyOf(heard, o) = key}
           speaker == SpeakerOf(heard, key)
<1>1. holders # {} /\ holders \in SUBSET Observers
  BY DEF KeysOf, Heard
<1>2. speaker \in holders
  BY <1>1, FirstIsMember DEF SpeakerOf
<1>3. PICK S \in SUBSET holders : path = Enriched(heard, heard[speaker].path, S)
  BY DEF PathsOf
<1>4. IsPath(heard[speaker].path) /\ PathEvidenceKey(heard[speaker].path) = key
  BY <1>2 DEF Heard, KeyOf
<1>5. \A o \in S : IsPath(heard[o].path) /\ KeyOf(heard, o) = key
  BY <1>3 DEF Heard
<1> QED
  BY <1>3, <1>4, <1>5, EnrichedKeepsKey DEF IsPath

LEMMA PrimaryIsHeard ==
  ASSUME NEW heard, Heard(heard), DOMAIN heard # {}, NEW previous
  PROVE  PrimaryKey(heard, previous) \in KeysOf(heard)
<1>1. First(DOMAIN heard) \in DOMAIN heard
  BY FirstIsMember DEF Heard
<1> QED
  BY <1>1 DEF PrimaryKey, KeysOf

\* Evidence that is shown for what was heard: the keys, but not the details, do
\* not depend on the walk.
Shows(shown, heard) ==
  /\ shown.directions = DirectionalPaths(heard)
  /\ DOMAIN heard = {} => Keys(shown.conflicts) = {}
  /\ DOMAIN heard # {} =>
       /\ PathEvidenceKey(shown.path) \in KeysOf(heard)
       /\ Keys(shown.conflicts) = KeysOf(heard) \ {PathEvidenceKey(shown.path)}

LEMMA SnapshotOfSilence ==
  ASSUME NEW heard, DOMAIN heard = {}, NEW previous, NEW shown \in Snapshots(heard, previous),
         previous.kind # ""
  PROVE  shown.path = previous /\ Shows(shown, heard)
<1>1. shown = [path |-> previous, conflicts |-> {}, directions |-> DirectionalPaths(heard)]
  BY DEF Snapshots
<1>2. Keys({}) = {}
  BY DEF Keys
<1> QED
  BY <1>1, <1>2 DEF Shows

LEMMA SnapshotShows ==
  ASSUME NEW heard, Heard(heard), DOMAIN heard # {}, NEW previous,
         NEW shown \in Snapshots(heard, previous)
  PROVE  /\ shown.path.kind \in Kinds
         /\ PathEvidenceKey(shown.path) = PrimaryKey(heard, previous)
         /\ Shows(shown, heard)
<1> DEFINE primary == PrimaryKey(heard, previous)
<1>1. PICK chosen :
        /\ \A key \in KeysOf(heard) : chosen[key] \in PathsOf(heard, key)
        /\ shown = [path |-> chosen[primary],
                    conflicts |-> {chosen[key] : key \in KeysOf(heard) \ {primary}},
                    directions |-> DirectionalPaths(heard)]
  BY DEF Snapshots
<1>2. primary \in KeysOf(heard)
  BY PrimaryIsHeard
<1>3. \A key \in KeysOf(heard) : chosen[key].kind \in Kinds /\ PathEvidenceKey(chosen[key]) = key
  BY <1>1, PathsOfHaveTheKey
<1>4. shown.path.kind \in Kinds /\ PathEvidenceKey(shown.path) = primary
  BY <1>1, <1>2, <1>3
<1>5. Keys(shown.conflicts) = KeysOf(heard) \ {primary}
  <2>1. shown.conflicts = {chosen[key] : key \in KeysOf(heard) \ {primary}}
    BY <1>1
  <2> QED
    BY <2>1, <1>3 DEF Keys
<1> QED
  BY <1>1, <1>2, <1>4, <1>5 DEF Shows

\* Whoever was shown evidence for the same observations and the same path has
\* been shown the same.
LEMMA ShownAlike ==
  ASSUME NEW heard, NEW left, NEW right, Shows(left, heard), Shows(right, heard),
         PathEvidenceKey(left.path) = PathEvidenceKey(right.path)
  PROVE  SamePathEvidence(left, right)
<1>1. Keys(left.conflicts) = Keys(right.conflicts)
  BY DEF Shows
<1>2. SameDirectionalPaths(left.directions, right.directions)
  BY SameDirectionsReflexive DEF Shows
<1> QED
  BY <1>1, <1>2 DEF SamePathEvidence

-----------------------------------------------------------------------------
(* The invariant *)

\* The last event and what is known of the edge agree, and that is what the
\* observations showed when they were last reconciled; they still are the ones
\* that count unless one of them has aged.
Unaged == \A o \in DOMAIN told : now - told[o].receivedAt <= EvidenceWindow

Settled ==
  /\ lastKnown = NoEvidence => DOMAIN told = {} /\ \A o \in Observers : observations[o] = Unobserved
  /\ lastKnown # NoEvidence => SamePathEvidence(recorded, lastKnown) /\ Shows(lastKnown, Evidence(told))
  /\ Unaged => Live(observations, now) = told

IInv == TypeOK /\ Settled

LEMMA NoEvidenceHasNoKind == NoEvidence.path.kind = "" /\ "" \notin Kinds
  BY DEF NoEvidence, NoPath, Kinds

LEMMA ObservedPath ==
  ASSUME NEW observation \in Observation
  PROVE  IsPath(observation.said.path) /\ observation # Unobserved
<1>1. observation # Unobserved
  BY DEF Observation, Unobserved
<1>2. \A relay \in Relays, vni \in VNIs : IsPath(Session(relay, vni).path)
  BY DEF IsPath, Session, NoPath, Kinds
<1>3. IsPath(observation.said.path)
  BY <1>2, SayingsAssumption DEF IsPath, Observation
<1> QED
  BY <1>1, <1>3

LEMMA ResolvedPath ==
  ASSUME NEW live, NEW path, IsPath(path)
  PROVE  IsPath(Resolved(live, path))
  BY FieldsOfPath DEF Resolved, IsPath

LEMMA EvidenceIsHeard ==
  ASSUME NEW live, DOMAIN live \subseteq Observers, \A o \in DOMAIN live : live[o] \in Observation
  PROVE  Heard(Evidence(live)) /\ DOMAIN Evidence(live) = DOMAIN live
  BY ObservedPath, ResolvedPath DEF Evidence, Heard

LEMMA LiveTyped ==
  ASSUME NEW seen \in [Observers -> Observation \cup {Unobserved}], NEW at
  PROVE  /\ DOMAIN Live(seen, at) \subseteq Observers
         /\ \A o \in DOMAIN Live(seen, at) : Live(seen, at)[o] \in Observation
  BY DEF Live, Counts

LEMMA InitIsSettled == Init => IInv
<1> SUFFICES ASSUME Init PROVE IInv
  OBVIOUS
<1>1. DOMAIN told = {}
  BY DEF Init, Live, Counts
<1>2. TypeOK
  BY <1>1 DEF Init, TypeOK
<1>3. Settled
  BY <1>1 DEF Init, Settled
<1> QED
  BY <1>2, <1>3 DEF IInv

\* A report that touches the edge reconciles it, whatever it changed.
LEMMA SettleStep ==
  ASSUME IInv, Settle, UNCHANGED now,
         observations' \in [Observers -> Observation \cup {Unobserved}],
         membership' \in [Ends -> BOOLEAN],
         lastKnown = NoEvidence => DOMAIN Live(observations', now) # {}
  PROVE  IInv'
<1> DEFINE live  == Live(observations', now)
           heard == Evidence(live)
<1>1. PICK current \in Snapshots(heard, lastKnown.path) :
        /\ transitions' = IF lastKnown.path.kind = "" \/ ~SamePathEvidence(lastKnown, current)
                          THEN <<current>> ELSE <<>>
        /\ lastKnown' = current
  BY DEF Settle
<1>2. told' = live /\ recorded' = IF transitions' = <<>> THEN recorded ELSE transitions'[1]
  BY DEF Settle
<1>3. DOMAIN live \subseteq Observers /\ \A o \in DOMAIN live : live[o] \in Observation
  BY LiveTyped
<1>4. Heard(heard) /\ DOMAIN heard = DOMAIN live
  BY <1>3, EvidenceIsHeard
<1>5. lastKnown # NoEvidence => lastKnown.path.kind \in Kinds /\ lastKnown.path.kind # ""
  BY NoEvidenceHasNoKind DEF IInv, TypeOK
<1>6. current.path.kind \in Kinds /\ Shows(current, heard)
  <2>1. CASE DOMAIN live = {}
    BY <1>1, <1>4, <1>5, <2>1, SnapshotOfSilence
  <2>2. CASE DOMAIN live # {}
    BY <1>1, <1>4, <2>2, SnapshotShows
  <2> QED
    BY <2>1, <2>2
<1>7. lastKnown' # NoEvidence
  BY <1>1, <1>6, NoEvidenceHasNoKind
<1>8. SamePathEvidence(recorded', lastKnown')
  <2>1. CASE lastKnown.path.kind = "" \/ ~SamePathEvidence(lastKnown, current)
    <3>1. recorded' = current
      BY <1>1, <1>2, <2>1
    <3> QED
      BY <1>1, <3>1, SameDirectionsReflexive DEF SamePathEvidence
  <2>2. CASE lastKnown.path.kind # "" /\ SamePathEvidence(lastKnown, current)
    <3>1. recorded' = recorded
      BY <1>1, <1>2, <2>2
    <3>2. SamePathEvidence(recorded, lastKnown)
      BY <2>2, NoEvidenceHasNoKind DEF IInv, Settled
    <3> QED
      BY <1>1, <2>2, <3>1, <3>2, SameEvidenceTransitive
  <2> QED
    BY <2>1, <2>2
<1>9. Settled'
  <2>1. Live(observations, now)' = told'
    BY <1>2
  <2>2. Shows(lastKnown', Evidence(told'))
    BY <1>1, <1>2, <1>6
  <2> QED
    BY <1>7, <1>8, <2>1, <2>2 DEF Settled
<1>10. TypeOK'
  BY <1>1, <1>2, <1>3, <1>6 DEF IInv, TypeOK
<1> QED
  BY <1>9, <1>10 DEF IInv

\* A report that does not touch it finds no observation to change.
LEMMA LeaveAloneStep ==
  ASSUME IInv, LeaveAlone, UNCHANGED <<observations, now>>, membership' \in [Ends -> BOOLEAN]
  PROVE  IInv'
<1>1. TypeOK'
  BY DEF IInv, TypeOK, LeaveAlone
<1>2. Settled'
  BY DEF IInv, Settled, LeaveAlone, Unaged
<1> QED
  BY <1>1, <1>2 DEF IInv

LEMMA ObservedIsLive ==
  ASSUME IInv, NEW said, Observe(said), DOMAIN said \subseteq Observers, DOMAIN said # {}
  PROVE  DOMAIN Live(observations', now) # {}
<1>1. PICK o \in DOMAIN said : TRUE
  OBVIOUS
<1>2. observations'[o] = [said |-> said[o], receivedAt |-> now, withdrawnAt |-> 0]
  BY <1>1 DEF Observe
<1>3. now \in Nat /\ now # 0
  BY DEF IInv, TypeOK
<1>4. Counts(observations'[o], now)
  BY <1>2, <1>3, EdgeAssumption DEF Counts, Unobserved
<1> QED
  BY <1>1, <1>4 DEF Live

LEMMA ObserveStep ==
  ASSUME IInv, NEW said, Observe(said), Settle, UNCHANGED <<membership, now>>,
         DOMAIN said \subseteq Observers, DOMAIN said # {},
         \A o \in DOMAIN said :
             said[o] \in Sayings \cup {Session(relay, vni) : relay \in Relays, vni \in VNIs}
  PROVE  IInv'
<1>1. \A o \in DOMAIN said :
        [said |-> said[o], receivedAt |-> now, withdrawnAt |-> 0] \in Observation
  BY DEF Observation, IInv, TypeOK
<1>2. observations' \in [Observers -> Observation \cup {Unobserved}]
  BY <1>1 DEF Observe, IInv, TypeOK
<1>3. DOMAIN Live(observations', now) # {}
  BY ObservedIsLive
<1>4. membership' \in [Ends -> BOOLEAN]
  BY DEF IInv, TypeOK
<1> QED
  BY <1>2, <1>3, <1>4, SettleStep

LEMMA InventoryStep ==
  ASSUME IInv, NEW batch \in SomeOf(Observers), NEW listed \in [batch -> BOOLEAN], Inventory(listed)
  PROVE  IInv'
<1>1. membership' \in [Ends -> BOOLEAN]
  BY DEF Inventory, IInv, TypeOK
<1>2. observations' \in [Observers -> Observation \cup {Unobserved}]
  BY DEF Inventory, IInv, TypeOK
<1>3. CASE ObservedBy(DOMAIN listed)
  <2>1. lastKnown # NoEvidence
    BY <1>3 DEF ObservedBy, SomeOf, IInv, Settled
  <2> QED
    BY <1>1, <1>2, <1>3, <2>1, SettleStep DEF Inventory
<1>4. CASE ~ObservedBy(DOMAIN listed)
  <2>1. observations' = observations
    BY <1>4 DEF ObservedBy, Inventory, IInv, TypeOK
  <2> QED
    BY <1>1, <1>4, <2>1, LeaveAloneStep DEF Inventory
<1> QED
  BY <1>3, <1>4

LEMMA WithdrawalStep ==
  ASSUME IInv, NEW batch \in SomeOf(Observers), Withdrawal(batch)
  PROVE  IInv'
<1>1. membership' \in [Ends -> BOOLEAN]
  BY DEF Withdrawal, IInv, TypeOK
<1>2. observations' \in [Observers -> Observation \cup {Unobserved}]
  BY DEF Withdrawal, IInv, TypeOK, Observation
<1>3. CASE ObservedBy(batch)
  <2>1. lastKnown # NoEvidence
    BY <1>3 DEF ObservedBy, SomeOf, IInv, Settled
  <2> QED
    BY <1>1, <1>2, <1>3, <2>1, SettleStep DEF Withdrawal
<1>4. CASE ~ObservedBy(batch)
  <2>1. observations' = observations
    BY <1>4 DEF ObservedBy, Withdrawal, IInv, TypeOK
  <2> QED
    BY <1>1, <1>4, <2>1, LeaveAloneStep DEF Withdrawal
<1> QED
  BY <1>3, <1>4

LEMMA TickStep == ASSUME IInv, Tick PROVE IInv'
<1>1. TypeOK'
  BY DEF Tick, IInv, TypeOK
<1>2. now' = now + 1 /\ now \in Nat /\ observations' = observations /\ told' = told
  BY DEF Tick, IInv, TypeOK
<1>3. ASSUME Unaged' PROVE Live(observations, now)' = told'
  <2>1. \A o \in DOMAIN told : told[o].receivedAt \in Nat
    BY DEF IInv, TypeOK, Observation
  <2>2. Unaged
    BY <1>2, <1>3, <2>1, EdgeAssumption DEF Unaged
  <2>3. Live(observations, now) = told
    BY <2>2 DEF IInv, Settled
  <2>4. \A o \in Observers : Counts(observations[o], now + 1) <=> Counts(observations[o], now)
    <3> SUFFICES ASSUME NEW o \in Observers
                 PROVE  Counts(observations[o], now + 1) <=> Counts(observations[o], now)
      OBVIOUS
    <3>1. CASE o \in DOMAIN told
      <4>1. told[o] = observations[o] /\ Counts(observations[o], now)
        BY <2>3, <3>1 DEF Live
      <4>2. now' - told'[o].receivedAt <= EvidenceWindow
        BY <1>2, <1>3, <3>1 DEF Unaged
      <4>3. observations[o].receivedAt \in Nat /\ EvidenceWindow \in Nat
        BY <2>1, <3>1, <4>1, EdgeAssumption
      <4>4. now + 1 - observations[o].receivedAt <= EvidenceWindow
        BY <1>2, <4>1, <4>2, <4>3
      <4> QED
        BY <1>2, <4>1, <4>3, <4>4 DEF Counts
    <3>2. CASE o \notin DOMAIN told
      <4>1. ~Counts(observations[o], now)
        BY <2>3, <3>2 DEF Live
      <4>2. observations[o] # Unobserved => observations[o].receivedAt \in Nat
        BY DEF IInv, TypeOK, Observation
      <4> QED
        BY <1>2, <4>1, <4>2, EdgeAssumption DEF Counts
    <3> QED
      BY <3>1, <3>2
  <2> QED
    BY <1>2, <2>3, <2>4 DEF Live
<1>4. Settled'
  BY <1>2, <1>3 DEF Tick, IInv, Settled
<1> QED
  BY <1>1, <1>4 DEF IInv

LEMMA NextIsSettled == IInv /\ [Next]_vars => IInv'
<1> SUFFICES ASSUME IInv, [Next]_vars PROVE IInv'
  OBVIOUS
<1>1. ASSUME NEW batch \in SomeOf(Ends), NEW said \in [batch -> Sayings], Traffic(said) PROVE IInv'
  BY <1>1, ObserveStep DEF Traffic, SomeOf, Observers
<1>2. ASSUME NEW relay \in Relays, NEW vni \in VNIs, RelaySession(relay, vni) PROVE IInv'
  BY <1>2, ObserveStep DEF RelaySession, Observers
<1>3. ASSUME NEW batch \in SomeOf(Observers), NEW listed \in [batch -> BOOLEAN], Inventory(listed)
      PROVE  IInv'
  BY <1>3, InventoryStep
<1>4. ASSUME NEW batch \in SomeOf(Observers), Withdrawal(batch) PROVE IInv'
  BY <1>4, WithdrawalStep
<1>5. CASE Tick
  BY <1>5, TickStep
<1>6. CASE UNCHANGED vars
  <2>1. TypeOK'
    BY <1>6 DEF vars, IInv, TypeOK
  <2>2. Settled'
    BY <1>6 DEF vars, IInv, Settled, Unaged
  <2> QED
    BY <2>1, <2>2 DEF IInv
<1> QED
  BY <1>1, <1>2, <1>3, <1>4, <1>5, <1>6 DEF Next

\* What is known of an edge is at any time what the observations say that were
\* live when a report last reconciled it.
THEOREM EvidenceIsSettled == Spec => []IInv
  BY InitIsSettled, NextIsSettled, PTL DEF Spec

\* TypeOK for every instance.
THEOREM Typed == Spec => []TypeOK
  BY EvidenceIsSettled, PTL DEF IInv

-----------------------------------------------------------------------------
(* History and Live *)

LEMMA StickyPrimary ==
  ASSUME IInv, lastKnown # NoEvidence, NEW heard,
         PathEvidenceKey(lastKnown.path) \in KeysOf(heard)
  PROVE  PrimaryKey(heard, lastKnown.path) = PathEvidenceKey(lastKnown.path)
  BY NoEvidenceHasNoKind DEF IInv, TypeOK, PrimaryKey

LEMMA LiveAsKnown ==
  ASSUME IInv, lastKnown # NoEvidence, NEW shown \in Snapshots(Evidence(told), lastKnown.path)
  PROVE  SamePathEvidence(lastKnown, shown)
<1> DEFINE heard == Evidence(told)
<1>1. Heard(heard)
  BY EvidenceIsHeard DEF IInv, TypeOK
<1>2. Shows(lastKnown, heard) /\ lastKnown.path.kind # ""
  BY NoEvidenceHasNoKind DEF IInv, Settled, TypeOK
<1>3. CASE DOMAIN heard = {}
  <2>1. shown.path = lastKnown.path /\ Shows(shown, heard)
    BY <1>2, <1>3, SnapshotOfSilence
  <2> QED
    BY <1>2, <2>1, ShownAlike
<1>4. CASE DOMAIN heard # {}
  <2>1. PrimaryKey(heard, lastKnown.path) = PathEvidenceKey(lastKnown.path)
    BY <1>2, <1>4, StickyPrimary DEF Shows
  <2>2. PathEvidenceKey(shown.path) = PathEvidenceKey(lastKnown.path) /\ Shows(shown, heard)
    BY <1>1, <1>4, <2>1, SnapshotShows
  <2> QED
    BY <1>2, <2>2, ShownAlike
<1> QED
  BY <1>3, <1>4

\* The last event of an edge is what Live shows, until evidence ages.
THEOREM HistoryIsLive == Spec => []HistoryTellsLive
<1>1. IInv => HistoryTellsLive
  <2> SUFFICES ASSUME IInv, lastKnown # NoEvidence, Unaged,
                      NEW shown \in Snapshots(Evidence(Live(observations, now)), lastKnown.path)
               PROVE  SamePathEvidence(recorded, shown)
    BY DEF HistoryTellsLive, Unaged
  <2>1. Live(observations, now) = told /\ SamePathEvidence(recorded, lastKnown)
    BY DEF IInv, Settled
  <2>2. SamePathEvidence(lastKnown, shown)
    BY <2>1, LiveAsKnown
  <2> QED
    BY <2>1, <2>2, SameEvidenceTransitive
<1> QED
  BY <1>1, EvidenceIsSettled, PTL

-----------------------------------------------------------------------------
(* Events and their causes *)

Typical(live) == DOMAIN live \subseteq Observers /\ \A o \in DOMAIN live : live[o] \in Observation

\* The same said twice is resolved alike, so that nothing depends on when it was received.
LEMMA RelaysAlike ==
  ASSUME NEW p, NEW q, IsPath(p), SameDirectionalPath(p, q), p.kind = "peer_relay"
  PROVE  q.kind = "peer_relay" /\ p.stable = q.stable /\ p.endpoint = q.endpoint
         /\ p.vni = q.vni /\ p.resolution = q.resolution
<1>1. q.kind = "peer_relay"
  BY KeyTellsKind DEF SameDirectionalPath
<1>2. RelayKey(p) = RelayKey(q)
  BY <1>1 DEF SameDirectionalPath, PathEvidenceKey
<1>3. p.stable = q.stable
  BY <1>2 DEF RelayKey
<1> QED
  BY <1>1, <1>3 DEF SameDirectionalPath

LEMMA IDsAlike ==
  ASSUME NEW left, NEW right, Typical(left), Typical(right),
         SameDirectionalPaths(Said(left), Said(right)), NEW endpoint
  PROVE  StableIDsAt(left, endpoint) = StableIDsAt(right, endpoint)
<1>1. DOMAIN left = DOMAIN right
  BY DEF SameDirectionalPaths, Said
<1>2. \A o \in DOMAIN left : SameDirectionalPath(left[o].said.path, right[o].said.path)
  BY <1>1 DEF SameDirectionalPaths, SameSaying, Said
<1>3. \A o \in DOMAIN left : IsPath(left[o].said.path) /\ IsPath(right[o].said.path)
  BY <1>1, ObservedPath DEF Typical
<1>4. \A o \in DOMAIN left :
        (left[o].said.path.kind = "peer_relay") = (right[o].said.path.kind = "peer_relay")
  BY <1>2, KeyTellsKind DEF SameDirectionalPath
<1>5. \A o \in DOMAIN left : left[o].said.path.kind = "peer_relay" =>
        /\ left[o].said.path.stable = right[o].said.path.stable
        /\ left[o].said.path.endpoint = right[o].said.path.endpoint
  BY <1>2, <1>3, RelaysAlike
<1> QED
  BY <1>1, <1>4, <1>5 DEF StableIDsAt

LEMMA ResolvedAlike ==
  ASSUME NEW left, NEW right, Typical(left), Typical(right),
         SameDirectionalPaths(Said(left), Said(right)),
         NEW p, NEW q, IsPath(p), IsPath(q), SameDirectionalPath(p, q)
  PROVE  SameDirectionalPath(Resolved(left, p), Resolved(right, q))
<1>1. CASE p.kind # "peer_relay"
  <2>1. q.kind # "peer_relay"
    BY <1>1, KeyTellsKind DEF SameDirectionalPath
  <2> QED
    BY <1>1, <2>1 DEF Resolved
<1>2. CASE p.kind = "peer_relay"
  <2> DEFINE l == Resolved(left, p)
             r == Resolved(right, q)
  <2>1. q.kind = "peer_relay" /\ p.stable = q.stable /\ p.endpoint = q.endpoint
        /\ p.vni = q.vni /\ p.resolution = q.resolution
    BY <1>2, RelaysAlike
  <2>2. StableIDsAt(left, p.endpoint) = StableIDsAt(right, q.endpoint)
    BY <2>1, IDsAlike
  <2>3. l.kind = "peer_relay" /\ l.endpoint = p.endpoint /\ l.vni = p.vni
    BY <1>2, FieldsOfPath DEF Resolved, IsPath
  <2>4. r.kind = "peer_relay" /\ r.endpoint = q.endpoint /\ r.vni = q.vni
    BY <2>1, FieldsOfPath DEF Resolved, IsPath
  <2>5. l.stable = r.stable /\ l.resolution = r.resolution
    BY <1>2, <2>1, <2>2, FieldsOfPath DEF Resolved, IsPath
  <2>6. RelayKey(l) = RelayKey(r)
    BY <2>1, <2>3, <2>4, <2>5 DEF RelayKey
  <2>7. PathEvidenceKey(l) = PathEvidenceKey(r)
    BY <2>3, <2>4, <2>6 DEF PathEvidenceKey
  <2> QED
    BY <2>1, <2>3, <2>4, <2>5, <2>7 DEF SameDirectionalPath
<1> QED
  BY <1>1, <1>2

LEMMA SaidAlike ==
  ASSUME NEW left, NEW right, Typical(left), Typical(right),
         SameDirectionalPaths(Said(left), Said(right))
  PROVE  /\ DOMAIN left = DOMAIN right
         /\ KeysOf(Evidence(left)) = KeysOf(Evidence(right))
         /\ SameDirectionalPaths(DirectionalPaths(Evidence(left)), DirectionalPaths(Evidence(right)))
<1>1. DOMAIN left = DOMAIN right
  BY DEF SameDirectionalPaths, Said
<1>2. \A o \in DOMAIN left : SameSaying(left[o].said, right[o].said)
  BY <1>1 DEF SameDirectionalPaths, Said
<1>3. \A o \in DOMAIN left : IsPath(left[o].said.path) /\ IsPath(right[o].said.path)
  BY <1>1, ObservedPath DEF Typical
<1>4. \A o \in DOMAIN left :
        SameDirectionalPath(Resolved(left, left[o].said.path), Resolved(right, right[o].said.path))
  BY <1>2, <1>3, ResolvedAlike DEF SameSaying
<1>5. \A o \in DOMAIN left : KeyOf(Evidence(left), o) = KeyOf(Evidence(right), o)
  BY <1>1, <1>4 DEF KeyOf, Evidence, SameDirectionalPath
<1>6. DOMAIN Evidence(left) = DOMAIN left /\ DOMAIN Evidence(right) = DOMAIN left
  BY <1>1 DEF Evidence
<1>7. KeysOf(Evidence(left)) = KeysOf(Evidence(right))
  BY <1>5, <1>6 DEF KeysOf
<1>8. \A o \in Ends \cap DOMAIN left :
        SameSaying(DirectionalPaths(Evidence(left))[o], DirectionalPaths(Evidence(right))[o])
  BY <1>1, <1>2, <1>4, <1>6 DEF SameSaying, DirectionalPaths, Evidence
<1> QED
  BY <1>1, <1>6, <1>7, <1>8 DEF SameDirectionalPaths, DirectionalPaths

LEMMA SettleIsSilent ==
  ASSUME IInv, IInv', Settle, UNCHANGED now,
         lastKnown = NoEvidence => DOMAIN Live(observations', now) # {},
         SameDirectionalPaths(Said(told), Said(told'))
  PROVE  transitions' = <<>>
<1> DEFINE before == Evidence(told)
           heard  == Evidence(told')
<1>1. told' = Live(observations', now)
  BY DEF Settle
<1>2. PICK current \in Snapshots(heard, lastKnown.path) :
        transitions' = IF lastKnown.path.kind = "" \/ ~SamePathEvidence(lastKnown, current)
                       THEN <<current>> ELSE <<>>
  BY <1>1 DEF Settle
<1>3. Typical(told) /\ Typical(told')
  BY DEF Typical, IInv, TypeOK
<1>4. /\ DOMAIN told = DOMAIN told' /\ KeysOf(before) = KeysOf(heard)
      /\ SameDirectionalPaths(DirectionalPaths(before), DirectionalPaths(heard))
  BY <1>3, SaidAlike
<1>5. lastKnown # NoEvidence
  BY <1>1, <1>4 DEF IInv, Settled
<1>6. Shows(lastKnown, before) /\ lastKnown.path.kind # ""
  BY <1>5, NoEvidenceHasNoKind DEF IInv, Settled, TypeOK
<1>7. Heard(heard) /\ DOMAIN heard = DOMAIN told' /\ DOMAIN before = DOMAIN told
  BY <1>3, EvidenceIsHeard DEF Typical
<1>8. SamePathEvidence(lastKnown, current)
  <2>1. CASE DOMAIN told = {}
    <3>1. current.path = lastKnown.path /\ Shows(current, heard)
      BY <1>4, <1>6, <1>7, <2>1, SnapshotOfSilence
    <3> QED
      BY <1>4, <1>6, <1>7, <2>1, <3>1 DEF SamePathEvidence, Shows
  <2>2. CASE DOMAIN told # {}
    <3>1. PathEvidenceKey(lastKnown.path) \in KeysOf(heard)
      BY <1>4, <1>6, <1>7, <2>2 DEF Shows
    <3>2. PrimaryKey(heard, lastKnown.path) = PathEvidenceKey(lastKnown.path)
      BY <1>5, <3>1, StickyPrimary
    <3>3. PathEvidenceKey(current.path) = PathEvidenceKey(lastKnown.path) /\ Shows(current, heard)
      BY <1>4, <1>7, <2>2, <3>2, SnapshotShows
    <3> QED
      BY <1>4, <1>6, <1>7, <2>2, <3>3 DEF SamePathEvidence, Shows
  <2> QED
    BY <2>1, <2>2
<1> QED
  BY <1>2, <1>6, <1>8

LEMMA SettleSwitches ==
  ASSUME IInv, IInv', Settle, UNCHANGED now, lastKnown # NoEvidence,
         PathEvidenceKey(lastKnown.path) \in KeysOf(Evidence(Live(observations', now)))
  PROVE  PathEvidenceKey(lastKnown'.path) = PathEvidenceKey(lastKnown.path)
<1> DEFINE heard == Evidence(told')
<1>1. told' = Live(observations', now)
  BY DEF Settle
<1>2. lastKnown' \in Snapshots(heard, lastKnown.path)
  BY <1>1 DEF Settle
<1>3. Heard(heard)
  BY EvidenceIsHeard DEF IInv, TypeOK
<1>4. DOMAIN heard # {}
  BY <1>1 DEF KeysOf
<1>5. PrimaryKey(heard, lastKnown.path) = PathEvidenceKey(lastKnown.path)
  BY <1>1, StickyPrimary
<1> QED
  BY <1>2, <1>3, <1>4, <1>5, SnapshotShows

\* What every report does with the edge, and the clock does not.
LEMMA SettledOrLeftAlone ==
  ASSUME IInv, Next
  PROVE  \/ /\ Settle /\ UNCHANGED now
            /\ lastKnown = NoEvidence => DOMAIN Live(observations', now) # {}
         \/ LeaveAlone /\ UNCHANGED now
         \/ now' # now /\ UNCHANGED lastKnown
<1>1. ASSUME NEW batch \in SomeOf(Ends), NEW said \in [batch -> Sayings], Traffic(said)
      PROVE  Settle /\ UNCHANGED now /\ DOMAIN Live(observations', now) # {}
  BY <1>1, ObservedIsLive DEF Traffic, SomeOf, Observers
<1>2. ASSUME NEW relay \in Relays, NEW vni \in VNIs, RelaySession(relay, vni)
      PROVE  Settle /\ UNCHANGED now /\ DOMAIN Live(observations', now) # {}
  BY <1>2, ObservedIsLive DEF RelaySession, Observers
<1>3. ASSUME NEW batch \in SomeOf(Observers), ObservedBy(batch)
      PROVE  lastKnown # NoEvidence
  BY <1>3 DEF ObservedBy, SomeOf, IInv, Settled
<1>4. ASSUME NEW batch \in SomeOf(Observers), NEW listed \in [batch -> BOOLEAN], Inventory(listed)
      PROVE  (Settle /\ lastKnown # NoEvidence) \/ LeaveAlone
  BY <1>3, <1>4 DEF Inventory
<1>5. ASSUME NEW batch \in SomeOf(Observers), Withdrawal(batch)
      PROVE  (Settle /\ lastKnown # NoEvidence) \/ LeaveAlone
  BY <1>3, <1>5 DEF Withdrawal
<1>6. CASE Tick
  BY <1>6 DEF Tick, IInv, TypeOK
<1> QED
  BY <1>1, <1>2, <1>4, <1>5, <1>6 DEF Next, Inventory, Withdrawal

\* No path event without a change of what somebody says, and no switch away from
\* a path that is still said.
THEOREM EventsHaveCauses == Spec => NoEventWithoutCause
<1>1. ASSUME IInv, IInv', [Next]_vars
      PROVE  [SilentIfNothingIsNew /\ SwitchesIfUnsupported]_vars
  <2>1. CASE UNCHANGED vars
    BY <2>1
  <2>2. CASE Next
    <3>1. CASE /\ Settle /\ UNCHANGED now
               /\ lastKnown = NoEvidence => DOMAIN Live(observations', now) # {}
      <4>1. SilentIfNothingIsNew
        BY <1>1, <3>1, SettleIsSilent DEF SilentIfNothingIsNew
      <4>2. SwitchesIfUnsupported
        BY <1>1, <3>1, SettleSwitches DEF SwitchesIfUnsupported
      <4> QED
        BY <4>1, <4>2
    <3>2. CASE LeaveAlone /\ UNCHANGED now
      BY <3>2 DEF LeaveAlone, SilentIfNothingIsNew, SwitchesIfUnsupported
    <3>3. CASE now' # now /\ UNCHANGED lastKnown
      BY <3>3 DEF SilentIfNothingIsNew, SwitchesIfUnsupported
    <3> QED
      BY <1>1, <2>2, <3>1, <3>2, <3>3, SettledOrLeftAlone
  <2> QED
    BY <1>1, <2>1, <2>2
<1> QED
  BY <1>1, EvidenceIsSettled, PTL DEF Spec, NoEventWithoutCause

=============================================================================
