-------------------------- MODULE DurabilityProofs --------------------------
(* Proofs about the durable runtime state, for any set of reports and          *)
(* directory changes, any checkpoint interval and any number of crashes.       *)
EXTENDS Durability, SequenceTheorems, FiniteSetTheorems, FunctionTheorems, TLAPS

-----------------------------------------------------------------------------
(* Sequences as sets of entries *)

(* A sequence over a set holds elements of that set. *)
LEMMA ElementsOfSeq ==
  ASSUME NEW S, NEW s \in Seq(S)
  PROVE  Elements(s) \subseteq S
  BY DEF Elements

(* Appending one state to another holds the entries of both. *)
LEMMA ElementsOfConcat ==
  ASSUME NEW S, NEW s \in Seq(S), NEW t \in Seq(S)
  PROVE  Elements(s \o t) = Elements(s) \cup Elements(t)
<1>1. /\ s \o t \in Seq(S)
      /\ Len(s \o t) = Len(s) + Len(t)
      /\ \A i \in 1 .. Len(s) + Len(t) :
             (s \o t)[i] = IF i <= Len(s) THEN s[i] ELSE t[i - Len(s)]
  BY ConcatProperties
<1>2. Elements(s \o t) \subseteq Elements(s) \cup Elements(t)
  <2> SUFFICES ASSUME NEW i \in 1 .. Len(s) + Len(t)
               PROVE  (s \o t)[i] \in Elements(s) \cup Elements(t)
    BY <1>1 DEF Elements
  <2>1. CASE i <= Len(s)
    <3>1. i \in 1 .. Len(s)
      BY <2>1
    <3> QED
      BY <1>1, <2>1, <3>1 DEF Elements
  <2>2. CASE ~(i <= Len(s))
    <3>1. i - Len(s) \in 1 .. Len(t)
      BY <2>2
    <3> QED
      BY <1>1, <2>2, <3>1 DEF Elements
  <2> QED
    BY <2>1, <2>2
<1>3. Elements(s) \subseteq Elements(s \o t)
  BY <1>1 DEF Elements
<1>4. Elements(t) \subseteq Elements(s \o t)
  <2> SUFFICES ASSUME NEW i \in 1 .. Len(t)
               PROVE  t[i] \in Elements(s \o t)
    BY DEF Elements
  <2>1. i + Len(s) \in 1 .. Len(s) + Len(t) /\ ~(i + Len(s) <= Len(s)) /\ i + Len(s) - Len(s) = i
    OBVIOUS
  <2> QED
    BY <1>1, <2>1 DEF Elements
<1> QED
  BY <1>2, <1>3, <1>4

(* A sequence of one entry holds that entry. *)
LEMMA ElementsOfOne ==
  ASSUME NEW S, NEW s \in Seq(S), Len(s) = 1
  PROVE  Elements(s) = {s[1]}
  BY DEF Elements

-----------------------------------------------------------------------------
(* Type correctness *)

(* MAX(rowid) bounds the rowids of the table. *)
LEMMA RowIDs ==
  ASSUME DiskTypeOK
  PROVE  /\ MaxRowID \in Nat
         /\ NewRowID \in Nat \ {0}
         /\ \A i \in 1 .. Len(rows) : rows[i] \in Rows /\ rows[i].id <= MaxRowID
<1>1. \A i \in 1 .. Len(rows) : rows[i] \in Rows
  BY DEF DiskTypeOK
<1>2. Len(rows) \in Nat
  BY DEF DiskTypeOK
<1>3. CASE rows = <<>>
  BY <1>3 DEF MaxRowID, NewRowID
<1>4. CASE rows # <<>>
  <2>1. Len(rows) \in 1 .. Len(rows)
    BY <1>2, <1>4 DEF DiskTypeOK
  <2>2. MaxRowID = rows[Len(rows)].id
    BY <1>4 DEF MaxRowID
  <2>3. \A i \in 1 .. Len(rows) : i = Len(rows) \/ i < Len(rows)
    BY <1>2
  <2> QED
    BY <1>1, <2>1, <2>2, <2>3 DEF DiskTypeOK, Rows, NewRowID
<1> QED
  BY <1>3, <1>4

(* Storing a report keeps the tables well typed: its rowid is the greatest. *)
LEMMA RecordTyped ==
  ASSUME TypeOK, commit.stage = "report", commit.entries[1] \notin Stored,
         NEW payload \in Seq(Entries), Record(payload)
  PROVE  DiskTypeOK'
<1> DEFINE row == [id |-> NewRowID, report |-> commit.entries[1], at |-> commit.at]
<1>1. /\ MaxRowID \in Nat
      /\ NewRowID \in Nat \ {0}
      /\ \A i \in 1 .. Len(rows) : rows[i] \in Rows /\ rows[i].id <= MaxRowID
  BY RowIDs DEF TypeOK
<1>2. row \in Rows
  BY <1>1 DEF TypeOK, CommitTypeOK, Rows
<1>3. rows \in Seq(Rows) /\ rows' = Append(rows, row)
  BY DEF Record, TypeOK, DiskTypeOK
<1>4. /\ rows' \in Seq(Rows)
      /\ Len(rows') = Len(rows) + 1
      /\ \A i \in 1 .. Len(rows) : rows'[i] = rows[i]
      /\ rows'[Len(rows) + 1] = row
  BY <1>2, <1>3
<1>5. ASSUME NEW i \in 1 .. Len(rows'), NEW j \in 1 .. Len(rows'), i < j
      PROVE  rows'[i].id < rows'[j].id /\ rows'[i].report # rows'[j].report
  <2>1. i \in 1 .. Len(rows) /\ rows'[i] = rows[i] /\ Len(rows) \in Nat
    BY <1>3, <1>4, <1>5
  <2>2. CASE j = Len(rows) + 1
    <3>1. rows'[j].id = MaxRowID + 1 /\ rows'[j].report = commit.entries[1]
      BY <1>4, <2>2 DEF NewRowID
    <3>2. rows[i].report \in Stored
      BY <2>1 DEF Stored
    <3>3. rows[i].id \in Nat
      BY <1>1, <2>1 DEF Rows
    <3> QED
      BY <1>1, <2>1, <3>1, <3>2, <3>3
  <2>3. CASE j # Len(rows) + 1
    <3>1. j \in 1 .. Len(rows) + 1 /\ Len(rows) \in Nat
      BY <1>4, <2>1
    <3>2. j \in 1 .. Len(rows)
      BY <2>3, <3>1
    <3>3. rows'[j] = rows[j]
      BY <1>4, <3>2
    <3> QED
      BY <1>5, <2>1, <3>2, <3>3 DEF TypeOK, DiskTypeOK
  <2> QED
    BY <2>2, <2>3
<1>6. checkpoint' \in [payload : Seq(Entries), cursor : Nat, at : Times \cup {NoTime}]
  BY <1>1 DEF Record, TypeOK, DiskTypeOK, CommitTypeOK
<1> QED
  BY <1>4, <1>5, <1>6 DEF DiskTypeOK

(* Deleting the first rows keeps the tables well typed. *)
LEMMA MaintainTyped ==
  ASSUME DiskTypeOK, Maintain
  PROVE  DiskTypeOK'
<1>1. PICK k \in 0 .. Len(rows) : rows' = SubSeq(rows, k + 1, Len(rows))
  BY DEF Maintain
<1>2. rows \in Seq(Rows) /\ Len(rows) \in Nat /\ k \in Nat /\ k <= Len(rows)
  BY DEF DiskTypeOK
<1>3. /\ rows' \in Seq(Rows)
      /\ Len(rows') = Len(rows) - k
      /\ \A i \in 1 .. Len(rows) - k : rows'[i] = rows[i + k]
  BY <1>1, <1>2, SubSeqProperties
<1>4. ASSUME NEW i \in 1 .. Len(rows'), NEW j \in 1 .. Len(rows'), i < j
      PROVE  rows'[i].id < rows'[j].id /\ rows'[i].report # rows'[j].report
  <2>1. i + k \in 1 .. Len(rows) /\ j + k \in 1 .. Len(rows) /\ i + k < j + k
    BY <1>2, <1>3, <1>4
  <2>2. rows'[i] = rows[i + k] /\ rows'[j] = rows[j + k]
    BY <1>2, <1>3
  <2>3. rows[i + k].id < rows[j + k].id /\ rows[i + k].report # rows[j + k].report
    BY <2>1 DEF DiskTypeOK
  <2> QED
    BY <2>2, <2>3
<1> QED
  BY <1>3, <1>4 DEF DiskTypeOK, Maintain

(* What New rebuilds is a runtime state. *)
LEMMA RestartTyped ==
  ASSUME TypeOK, NEW k \in 0 .. Len(rows)
  PROVE  /\ ReportsAfter(k) \in Seq(Entries)
         /\ checkpoint.payload \o ReportsAfter(k) \in Seq(Entries)
<1>1. Len(rows) \in Nat /\ Len(rows) - k \in Nat
  BY DEF TypeOK, DiskTypeOK
<1>2. \A i \in 1 .. Len(rows) : rows[i] \in Rows
  BY DEF TypeOK, DiskTypeOK
<1>3. ReportsAfter(k) \in Seq(Entries)
  <2>1. \A i \in 1 .. Len(rows) - k : rows[i + k].report \in Entries
    <3> SUFFICES ASSUME NEW i \in 1 .. Len(rows) - k
                 PROVE  rows[i + k].report \in Entries
      OBVIOUS
    <3>1. i + k \in 1 .. Len(rows)
      BY <1>1
    <3> QED
      BY <1>2, <3>1 DEF Rows, Entries
  <2> QED
    BY <1>1, <2>1 DEF ReportsAfter
<1>4. checkpoint.payload \in Seq(Entries)
  BY DEF TypeOK, DiskTypeOK
<1> QED
  BY <1>3, <1>4

(* App.mu released: the free lock is well typed. *)
LEMMA ReleaseTyped ==
  ASSUME commit' = NoCommit
  PROVE  CommitTypeOK'
<1>1. 0 \in Times
  BY DurabilityBoundsAssumption DEF Times
<1>2. <<>> \in Seq(Entries)
  BY EmptySeq
<1> QED
  BY <1>1, <1>2 DEF CommitTypeOK, NoCommit

(* Every step keeps the tables and the memory well typed. *)
LEMMA NextTyped ==
  ASSUME TypeOK, [Next]_vars
  PROVE  TypeOK'
<1> USE DEF TypeOK
<1>1. ASSUME NEW report \in Reports, BeginSubmit(report)
      PROVE  TypeOK'
  <2>1. PICK at \in 0 .. now, demanded \in BOOLEAN :
            commit' = [stage |-> "report", entries |-> <<report>>, at |-> at,
                       covers |-> demanded \/ ShouldCheckpoint(at)]
    BY <1>1 DEF BeginSubmit
  <2>2. at \in Times /\ <<report>> \in Seq(Entries) /\ Len(<<report>>) = 1 /\ <<report>>[1] = report
    BY DurabilityBoundsAssumption DEF MemoryTypeOK, Times, Entries
  <2>3. (demanded \/ ShouldCheckpoint(at)) \in BOOLEAN
    OBVIOUS
  <2>4. CommitTypeOK'
    BY <2>1, <2>2, <2>3 DEF CommitTypeOK
  <2> QED
    BY <1>1, <2>4 DEF BeginSubmit, diskVars, DiskTypeOK, MemoryTypeOK
<1>2. ASSUME NEW report \in Reports, AnswerApplied(report)
      PROVE  TypeOK'
  BY <1>2 DEF AnswerApplied, diskVars, memoryVars, DiskTypeOK, CommitTypeOK, MemoryTypeOK
<1>3. ASSUME NEW change \in Changes, BeginChange(change)
      PROVE  TypeOK'
  <2>1. PICK at \in 0 .. now :
            commit' = [stage |-> "change", entries |-> <<change>>, at |-> at, covers |-> TRUE]
    BY <1>3 DEF BeginChange
  <2>2. at \in Times /\ <<change>> \in Seq(Entries) /\ Len(<<change>>) = 1
    BY DurabilityBoundsAssumption DEF MemoryTypeOK, Times, Entries
  <2>3. CommitTypeOK'
    BY <2>1, <2>2 DEF CommitTypeOK
  <2> QED
    BY <1>3, <2>3 DEF BeginChange, diskVars, DiskTypeOK, MemoryTypeOK
<1>4. CASE StoreReport
  <2>1. Candidate \in Seq(Entries)
    BY DEF Candidate, MemoryTypeOK, CommitTypeOK
  <2>2. DiskTypeOK'
    BY <1>4, <2>1, RecordTyped DEF StoreReport
  <2>3. CommitTypeOK'
    BY <1>4 DEF StoreReport, Record, CommitTypeOK
  <2>4. Elements(commit.entries) \subseteq Reports
    BY <1>4 DEF StoreReport, CommitTypeOK, Elements
  <2>5. MemoryTypeOK'
    BY <1>4, <2>4 DEF StoreReport, Record, MemoryTypeOK, NoCommit
  <2> QED
    BY <2>2, <2>3, <2>5
<1>5. CASE IgnoreStored
  <2>1. CommitTypeOK'
    BY <1>5, ReleaseTyped DEF IgnoreStored
  <2>2. commit.entries[1] \in Reports
    BY <1>5 DEF IgnoreStored, CommitTypeOK
  <2> QED
    BY <1>5, <2>1, <2>2 DEF IgnoreStored, diskVars, DiskTypeOK, MemoryTypeOK
<1>6. CASE StoreChange
  <2>1. Candidate \in Seq(Entries) /\ MaxRowID \in Nat
    BY RowIDs DEF Candidate, MemoryTypeOK, CommitTypeOK
  <2>2. DiskTypeOK'
    BY <1>6, <2>1 DEF StoreChange, DiskTypeOK, CommitTypeOK
  <2>3. CommitTypeOK'
    BY <1>6 DEF StoreChange, CommitTypeOK
  <2> QED
    BY <1>6, <2>2, <2>3 DEF StoreChange, MemoryTypeOK, NoCommit
<1>7. CASE StoreFails
  <2>1. CommitTypeOK'
    BY <1>7, ReleaseTyped DEF StoreFails
  <2> QED
    BY <1>7, <2>1 DEF StoreFails, diskVars, DiskTypeOK, MemoryTypeOK
<1>8. CASE Publish
  <2>1. Candidate \in Seq(Entries)
    BY DEF Candidate, MemoryTypeOK, CommitTypeOK
  <2>2. up
    BY <1>8 DEF Publish, MemoryTypeOK, NoCommit
  <2>3. CommitTypeOK'
    BY <1>8, ReleaseTyped DEF Publish
  <2>4. MemoryTypeOK'
    BY <1>8, <2>1, <2>2 DEF Publish, MemoryTypeOK, CommitTypeOK
  <2> QED
    BY <1>8, <2>3, <2>4 DEF Publish, diskVars, DiskTypeOK
<1>9. CASE Maintain
  <2>1. DiskTypeOK'
    BY <1>9, MaintainTyped
  <2> QED
    BY <1>9, <2>1 DEF Maintain, memoryVars, CommitTypeOK, MemoryTypeOK
<1>10. CASE Crash
  <2>1. CommitTypeOK'
    BY <1>10, ReleaseTyped DEF Crash
  <2>2. live' \in Seq(Entries)
    BY <1>10, EmptySeq DEF Crash
  <2> QED
    BY <1>10, <2>1, <2>2 DEF Crash, diskVars, DiskTypeOK, MemoryTypeOK
<1>11. CASE Restart
  <2>1. PICK k \in 0 .. Len(rows), latest \in Times \cup {NoTime} :
            /\ live' = checkpoint.payload \o ReportsAfter(k)
            /\ lastCheckpoint' = latest
            /\ IF k < Len(rows)
               THEN checkpoint' = [payload |-> live', cursor |-> RestoredCursor, at |-> latest]
               ELSE UNCHANGED checkpoint
    BY <1>11 DEF Restart
  <2>2. live' \in Seq(Entries)
    BY <2>1, RestartTyped
  <2>3. RestoredCursor \in Nat
    BY RowIDs DEF RestoredCursor
  <2>4. checkpoint' \in [payload : Seq(Entries), cursor : Nat, at : Times \cup {NoTime}]
    <3>1. CASE k < Len(rows)
      <4>1. checkpoint' = [payload |-> live', cursor |-> RestoredCursor, at |-> latest]
        BY <2>1, <3>1
      <4>2. latest \in Times \cup {NoTime}
        OBVIOUS
      <4> QED
        BY <2>2, <2>3, <4>1, <4>2
    <3>2. CASE ~(k < Len(rows))
      BY <2>1, <3>2 DEF DiskTypeOK
    <3> QED
      BY <3>1, <3>2
  <2>5. rows' = rows
    BY <1>11 DEF Restart
  <2>6. DiskTypeOK'
    BY <2>4, <2>5 DEF DiskTypeOK
  <2>7. CommitTypeOK'
    BY <1>11 DEF Restart, CommitTypeOK
  <2>8. MemoryTypeOK'
    BY <1>11, <2>1, <2>2 DEF Restart, MemoryTypeOK
  <2> QED
    BY <2>6, <2>7, <2>8
<1>12. CASE Tick
  <2>1. now' \in Times
    BY <1>12, DurabilityBoundsAssumption DEF Tick, MemoryTypeOK, Times
  <2> QED
    BY <1>12, <2>1 DEF Tick, diskVars, memoryVars, DiskTypeOK, CommitTypeOK, MemoryTypeOK
<1>13. CASE UNCHANGED vars
  BY <1>13 DEF vars, diskVars, memoryVars, DiskTypeOK, CommitTypeOK, MemoryTypeOK
<1> QED
  BY <1>1, <1>2, <1>3, <1>4, <1>5, <1>6, <1>7, <1>8, <1>9, <1>10, <1>11, <1>12, <1>13 DEF Next

(* The tables and the memory are always well typed: report ids are unique,     *)
(* rowids ascend, and one commit at a time holds App.mu.                       *)
THEOREM TypeCorrect == Spec => []TypeOK
<1>1. Init => TypeOK
  <2> SUFFICES ASSUME Init PROVE TypeOK
    OBVIOUS
  <2>1. 0 \in Times
    BY DurabilityBoundsAssumption DEF Times
  <2>2. DiskTypeOK
    BY EmptySeq DEF Init, DiskTypeOK, NoCheckpoint
  <2>3. CommitTypeOK
    BY <2>1, EmptySeq DEF Init, CommitTypeOK, NoCommit
  <2>4. MemoryTypeOK
    BY <2>1, EmptySeq DEF Init, MemoryTypeOK
  <2> QED
    BY <2>2, <2>3, <2>4 DEF TypeOK
<1>2. TypeOK /\ [Next]_vars => TypeOK'
  BY NextTyped
<1> QED
  BY <1>1, <1>2, PTL DEF Spec

-----------------------------------------------------------------------------
(* Nothing acknowledged is lost, nothing is replayed twice *)

(* The entry stored but not published yet, what is committed, the replayed     *)
(* reports, and what a restart finds: as sets of entries.                      *)
Pending     == IF commit.stage = "stored" THEN Elements(commit.entries) ELSE {}
InMemory    == Elements(live) \cup Pending
AfterCursor == {rows[i].report : i \in {j \in 1 .. Len(rows) : rows[j].id > checkpoint.cursor}}
OnDisk      == Elements(checkpoint.payload) \cup AfterCursor

(* The inductive invariant.  Memory and disk hold the same entries but for     *)
(* misfiled reports, which is more than the properties say: a row at or below  *)
(* the cursor is covered by the payload, a row in the table is in memory, and  *)
(* an entry being committed is new.                                            *)
MemoryOnDisk    == up => InMemory \ misfiled \subseteq OnDisk
PayloadInMemory == up => Elements(checkpoint.payload) \subseteq InMemory
RowsInMemory    == up => Stored \ misfiled \subseteq InMemory
CoveredByCursor ==
    \A i \in 1 .. Len(rows) :
        rows[i].id <= checkpoint.cursor =>
            rows[i].report \in Elements(checkpoint.payload) \cup misfiled
CommitIsNew ==
    commit.stage \in {"report", "change"} => Elements(commit.entries) \cap Elements(live) = {}
AcknowledgedKept ==
    acknowledged \ misfiled \subseteq IF up THEN Elements(live) ELSE OnDisk

DurableInv ==
    /\ MemoryOnDisk
    /\ PayloadInMemory
    /\ RowsInMemory
    /\ CoveredByCursor
    /\ CommitIsNew
    /\ AcknowledgedKept
    /\ NoReplayTwice

(* The candidate holds the published entries and the one being committed. *)
LEMMA CandidateElements ==
  ASSUME TypeOK
  PROVE  Elements(Candidate) = Elements(live) \cup Elements(commit.entries)
<1>1. live \in Seq(Entries) /\ commit.entries \in Seq(Entries)
  BY DEF TypeOK, MemoryTypeOK, CommitTypeOK
<1> QED
  BY <1>1, ElementsOfConcat DEF Candidate

(* A commit in progress holds one entry, and only while the process runs. *)
LEMMA CommitElements ==
  ASSUME TypeOK, commit.stage # "idle"
  PROVE  /\ up
         /\ Elements(commit.entries) = {commit.entries[1]}
<1>1. commit.entries \in Seq(Entries) /\ Len(commit.entries) = 1
  BY DEF TypeOK, CommitTypeOK
<1>2. up
  BY DEF TypeOK, MemoryTypeOK, NoCommit
<1> QED
  BY <1>1, <1>2, ElementsOfOne

(* The row that RecordWithMetadata inserts joins those already there. *)
LEMMA RecordRows ==
  ASSUME TypeOK, commit.stage = "report", NEW payload, Record(payload)
  PROVE  /\ Len(rows') = Len(rows) + 1
         /\ \A i \in 1 .. Len(rows) : rows'[i] = rows[i]
         /\ rows'[Len(rows) + 1].id = NewRowID
         /\ rows'[Len(rows) + 1].report = commit.entries[1]
         /\ 1 .. Len(rows') = 1 .. Len(rows) \cup {Len(rows) + 1}
         /\ Stored' = Stored \cup {commit.entries[1]}
<1> DEFINE row == [id |-> NewRowID, report |-> commit.entries[1], at |-> commit.at]
<1>1. rows \in Seq(Rows) /\ rows' = Append(rows, row)
  BY DEF Record, TypeOK, DiskTypeOK
<1>2. MaxRowID \in Nat /\ NewRowID \in Nat \ {0}
  BY RowIDs DEF TypeOK
<1>3. row \in Rows
  BY <1>2 DEF TypeOK, CommitTypeOK, Rows
<1>4. /\ Len(rows') = Len(rows) + 1
      /\ \A i \in 1 .. Len(rows) : rows'[i] = rows[i]
      /\ rows'[Len(rows) + 1] = row
  BY <1>1, <1>3
<1>5. 1 .. Len(rows') = 1 .. Len(rows) \cup {Len(rows) + 1}
  BY <1>1, <1>4
<1>6. Stored' = Stored \cup {commit.entries[1]}
  BY <1>4, <1>5 DEF Stored
<1> QED
  BY <1>4, <1>5, <1>6

(* Storing a report, with or without a checkpoint, loses nothing. *)
LEMMA StoreReportKeeps ==
  ASSUME TypeOK, DurableInv, StoreReport
  PROVE  DurableInv'
<1> DEFINE report == commit.entries[1]
<1>1. commit.stage = "report" /\ report \notin Stored /\ Record(Candidate)
  BY DEF StoreReport
<1>2. /\ up
      /\ Elements(commit.entries) = {report}
      /\ Elements(Candidate) = Elements(live) \cup {report}
      /\ Pending = {}
  BY <1>1, CommitElements, CandidateElements DEF Pending
<1>3. /\ up' = up /\ live' = live /\ acknowledged' = acknowledged
      /\ commit'.stage = "stored" /\ commit'.entries = commit.entries
      /\ Pending' = {report}
      /\ InMemory' = Elements(live) \cup {report}
  BY <1>1, <1>2 DEF Record, TypeOK, CommitTypeOK, Pending, InMemory, Elements
<1>4. /\ Len(rows') = Len(rows) + 1
      /\ \A i \in 1 .. Len(rows) : rows'[i] = rows[i]
      /\ rows'[Len(rows) + 1].id = NewRowID
      /\ rows'[Len(rows) + 1].report = report
      /\ 1 .. Len(rows') = 1 .. Len(rows) \cup {Len(rows) + 1}
      /\ Stored' = Stored \cup {report}
  BY <1>1, RecordRows
<1>5. report \notin Elements(live)
  BY <1>1, <1>2 DEF DurableInv, CommitIsNew
<1>6. /\ MaxRowID \in Nat /\ NewRowID = MaxRowID + 1
      /\ \A i \in 1 .. Len(rows) : rows[i].id \in Nat /\ rows[i].id <= MaxRowID
  BY RowIDs DEF TypeOK, NewRowID, Rows
<1>7. checkpoint.cursor \in Nat /\ Len(rows) \in Nat
  BY DEF TypeOK, DiskTypeOK
<1>8. CommitIsNew' /\ RowsInMemory'
  <2>1. misfiled \subseteq misfiled'
    BY <1>1 DEF Record
  <2> QED
    BY <1>2, <1>3, <1>4, <2>1 DEF DurableInv, CommitIsNew, RowsInMemory, InMemory
<1>9. CASE commit.covers
  <2>1. /\ checkpoint'.payload = Candidate
        /\ checkpoint'.cursor = NewRowID
        /\ misfiled' = misfiled
    BY <1>1, <1>9 DEF Record
  <2>2. Elements(checkpoint'.payload) = Elements(live) \cup {report}
    BY <1>2, <2>1
  <2>3. MemoryOnDisk' /\ PayloadInMemory'
    BY <1>3, <2>2 DEF MemoryOnDisk, PayloadInMemory, OnDisk
  <2>4. CoveredByCursor'
    <3>1. \A i \in 1 .. Len(rows') : rows'[i].report \in Stored'
      BY DEF Stored
    <3>2. Stored' \subseteq Elements(checkpoint'.payload) \cup misfiled'
      BY <1>2, <1>4, <2>1, <2>2 DEF DurableInv, RowsInMemory, InMemory
    <3> QED
      BY <3>1, <3>2 DEF CoveredByCursor
  <2>5. \A i \in 1 .. Len(rows') : ~(rows'[i].id > checkpoint'.cursor)
    BY <1>4, <1>6, <2>1
  <2>6. NoReplayTwice'
    BY <2>5 DEF NoReplayTwice
  <2>7. AcknowledgedKept'
    BY <1>2, <1>3, <2>1 DEF DurableInv, AcknowledgedKept
  <2> QED
    BY <1>8, <2>3, <2>4, <2>6, <2>7 DEF DurableInv
<1>10. CASE ~commit.covers
  <2>1. /\ checkpoint' = checkpoint
        /\ misfiled' = IF NewRowID <= checkpoint.cursor THEN misfiled \cup {report} ELSE misfiled
    BY <1>1, <1>2, <1>10 DEF Record
  <2>2. AfterCursor \subseteq AfterCursor'
    BY <1>4, <2>1 DEF AfterCursor
  <2>3. report \in AfterCursor' \/ report \in misfiled'
    <3>1. CASE NewRowID <= checkpoint.cursor
      BY <2>1, <3>1
    <3>2. CASE ~(NewRowID <= checkpoint.cursor)
      <4>1. rows'[Len(rows) + 1].id > checkpoint'.cursor
        BY <1>4, <1>6, <1>7, <2>1, <3>2
      <4> QED
        BY <1>4, <4>1 DEF AfterCursor
    <3> QED
      BY <3>1, <3>2
  <2>4. MemoryOnDisk'
    BY <1>2, <1>3, <2>1, <2>2, <2>3 DEF DurableInv, MemoryOnDisk, InMemory, OnDisk
  <2>5. PayloadInMemory'
    BY <1>2, <1>3, <2>1 DEF DurableInv, PayloadInMemory, InMemory
  <2>6. CoveredByCursor'
    <3> SUFFICES ASSUME NEW i \in 1 .. Len(rows'), rows'[i].id <= checkpoint'.cursor
                 PROVE  rows'[i].report \in Elements(checkpoint'.payload) \cup misfiled'
      BY DEF CoveredByCursor
    <3>1. CASE i \in 1 .. Len(rows)
      BY <1>4, <2>1, <3>1 DEF DurableInv, CoveredByCursor
    <3>2. CASE i = Len(rows) + 1
      BY <1>4, <2>1, <3>2
    <3> QED
      BY <1>4, <3>1, <3>2
  <2>7. NoReplayTwice'
    <3> SUFFICES ASSUME NEW i \in 1 .. Len(rows'), rows'[i].id > checkpoint'.cursor
                 PROVE  rows'[i].report \notin Elements(checkpoint'.payload)
      BY DEF NoReplayTwice
    <3>1. CASE i \in 1 .. Len(rows)
      BY <1>4, <2>1, <3>1 DEF DurableInv, NoReplayTwice
    <3>2. CASE i = Len(rows) + 1
      BY <1>2, <1>4, <1>5, <2>1, <3>2 DEF DurableInv, PayloadInMemory, InMemory
    <3> QED
      BY <1>4, <3>1, <3>2
  <2>8. AcknowledgedKept'
    BY <1>2, <1>3, <2>1 DEF DurableInv, AcknowledgedKept
  <2> QED
    BY <1>8, <2>4, <2>5, <2>6, <2>7, <2>8 DEF DurableInv
<1> QED
  BY <1>9, <1>10

(* A directory checkpoint covers every row: its payload is the whole state. *)
LEMMA StoreChangeKeeps ==
  ASSUME TypeOK, DurableInv, StoreChange
  PROVE  DurableInv'
<1>1. /\ up
      /\ Elements(Candidate) = Elements(live) \cup Elements(commit.entries)
      /\ Pending = {}
  BY CommitElements, CandidateElements DEF StoreChange, Pending
<1>2. /\ rows' = rows /\ up' = up /\ live' = live
      /\ acknowledged' = acknowledged /\ misfiled' = misfiled
      /\ checkpoint'.payload = Candidate /\ checkpoint'.cursor = MaxRowID
      /\ commit'.stage = "stored" /\ commit'.entries = commit.entries
  BY DEF StoreChange, TypeOK, CommitTypeOK
<1>3. InMemory' = Elements(live) \cup Elements(commit.entries) /\ Stored' = Stored
  BY <1>2 DEF InMemory, Pending, Elements, Stored
<1>4. Elements(checkpoint'.payload) = InMemory'
  BY <1>1, <1>2, <1>3
<1>5. MemoryOnDisk' /\ PayloadInMemory'
  BY <1>4 DEF MemoryOnDisk, PayloadInMemory, OnDisk
<1>6. Stored' \ misfiled' \subseteq InMemory'
  BY <1>1, <1>2, <1>3 DEF DurableInv, RowsInMemory, InMemory
<1>7. \A i \in 1 .. Len(rows') : rows'[i].report \in Stored'
  BY DEF Stored
<1>8. RowsInMemory' /\ CoveredByCursor'
  BY <1>4, <1>6, <1>7 DEF RowsInMemory, CoveredByCursor
<1>9. MaxRowID \in Nat /\ \A i \in 1 .. Len(rows) : rows[i].id \in Nat /\ rows[i].id <= MaxRowID
  BY RowIDs DEF TypeOK, Rows
<1>10. NoReplayTwice'
  BY <1>2, <1>9 DEF NoReplayTwice
<1>11. CommitIsNew' /\ AcknowledgedKept'
  BY <1>1, <1>2 DEF DurableInv, CommitIsNew, AcknowledgedKept
<1> QED
  BY <1>5, <1>8, <1>10, <1>11 DEF DurableInv

(* Publishing moves the stored entry to the published state. *)
LEMMA PublishKeeps ==
  ASSUME TypeOK, DurableInv, Publish
  PROVE  DurableInv'
<1>1. /\ up
      /\ Elements(Candidate) = Elements(live) \cup Elements(commit.entries)
      /\ Pending = Elements(commit.entries)
  BY CommitElements, CandidateElements DEF Publish, Pending
<1>2. /\ rows' = rows /\ checkpoint' = checkpoint /\ up' = up
      /\ live' = Candidate /\ commit' = NoCommit /\ misfiled' = misfiled
      /\ acknowledged' \subseteq acknowledged \cup Elements(commit.entries)
  BY DEF Publish, diskVars
<1>3. Pending' = {} /\ Elements(live') = InMemory
  BY <1>1, <1>2 DEF Pending, InMemory, NoCommit, Elements
<1>4. InMemory' = InMemory /\ Stored' = Stored /\ OnDisk' = OnDisk
  BY <1>2, <1>3 DEF InMemory, Stored, OnDisk, AfterCursor, Elements
<1>5. MemoryOnDisk' /\ PayloadInMemory' /\ RowsInMemory'
  BY <1>2, <1>4 DEF DurableInv, MemoryOnDisk, PayloadInMemory, RowsInMemory
<1>6. CoveredByCursor' /\ NoReplayTwice'
  BY <1>2 DEF DurableInv, CoveredByCursor, NoReplayTwice
<1>7. CommitIsNew'
  BY <1>2 DEF CommitIsNew, NoCommit
<1>8. AcknowledgedKept'
  BY <1>1, <1>2, <1>3 DEF DurableInv, AcknowledgedKept, InMemory
<1> QED
  BY <1>5, <1>6, <1>7, <1>8 DEF DurableInv

(* Maintenance deletes no row after the cursor. *)
LEMMA MaintainKeeps ==
  ASSUME TypeOK, DurableInv, Maintain
  PROVE  DurableInv'
<1>1. PICK k \in 0 .. Len(rows) : SplitAtCursor(k) /\ rows' = SubSeq(rows, k + 1, Len(rows))
  BY DEF Maintain
<1>2. rows \in Seq(Rows) /\ Len(rows) \in Nat /\ k \in Nat /\ k <= Len(rows)
  BY DEF TypeOK, DiskTypeOK
<1>3. /\ Len(rows') = Len(rows) - k
      /\ \A i \in 1 .. Len(rows) - k : rows'[i] = rows[i + k]
  BY <1>1, <1>2, SubSeqProperties
<1>4. \A i \in 1 .. Len(rows') : i + k \in 1 .. Len(rows) /\ rows'[i] = rows[i + k]
  BY <1>2, <1>3
<1>5. /\ checkpoint' = checkpoint /\ up' = up /\ live' = live /\ commit' = commit
      /\ acknowledged' = acknowledged /\ misfiled' = misfiled
  BY DEF Maintain, memoryVars
<1>6. Stored' \subseteq Stored
  BY <1>4 DEF Stored
<1>7. AfterCursor \subseteq AfterCursor'
  <2> SUFFICES ASSUME NEW i \in 1 .. Len(rows), rows[i].id > checkpoint.cursor
               PROVE  rows[i].report \in AfterCursor'
    BY DEF AfterCursor
  <2>1. rows[i].id \in Nat /\ checkpoint.cursor \in Nat
    <3>1. rows[i] \in Rows
      BY DEF TypeOK, DiskTypeOK
    <3> QED
      BY <3>1 DEF TypeOK, DiskTypeOK, Rows
  <2>2. i \in k + 1 .. Len(rows)
    BY <1>1, <1>2, <2>1 DEF SplitAtCursor
  <2>3. i - k \in 1 .. Len(rows') /\ rows'[i - k] = rows[i]
    BY <1>2, <1>3, <2>2
  <2> QED
    BY <1>5, <2>3 DEF AfterCursor
<1>8. InMemory' = InMemory /\ OnDisk \subseteq OnDisk'
  BY <1>5, <1>7 DEF InMemory, Pending, OnDisk, Elements
<1>9. MemoryOnDisk' /\ PayloadInMemory' /\ RowsInMemory'
  BY <1>5, <1>6, <1>8 DEF DurableInv, MemoryOnDisk, PayloadInMemory, RowsInMemory
<1>10. CoveredByCursor' /\ NoReplayTwice'
  BY <1>4, <1>5 DEF DurableInv, CoveredByCursor, NoReplayTwice
<1>11. CommitIsNew' /\ AcknowledgedKept'
  BY <1>5, <1>8 DEF DurableInv, CommitIsNew, AcknowledgedKept
<1> QED
  BY <1>9, <1>10, <1>11 DEF DurableInv

(* A restart finds on disk what the process had committed. *)
LEMMA RestartKeeps ==
  ASSUME TypeOK, DurableInv, Restart
  PROVE  DurableInv'
<1>1. PICK k \in 0 .. Len(rows), latest \in Times \cup {NoTime} :
          /\ SplitAtCursor(k)
          /\ live' = checkpoint.payload \o ReportsAfter(k)
          /\ IF k < Len(rows)
             THEN checkpoint' = [payload |-> live', cursor |-> RestoredCursor, at |-> latest]
             ELSE UNCHANGED checkpoint
  BY DEF Restart
<1>2. /\ ~up /\ up' /\ rows' = rows /\ commit = NoCommit /\ commit' = NoCommit
      /\ acknowledged' = acknowledged /\ misfiled' = misfiled
  BY DEF Restart, TypeOK, MemoryTypeOK
<1>3. Len(rows) \in Nat /\ k \in Nat /\ k <= Len(rows)
  BY DEF TypeOK, DiskTypeOK
<1>4. \A i \in 1 .. Len(rows) : rows[i].id \in Nat /\ checkpoint.cursor \in Nat
  <2>1. \A i \in 1 .. Len(rows) : rows[i] \in Rows
    BY DEF TypeOK, DiskTypeOK
  <2> QED
    BY <2>1 DEF TypeOK, DiskTypeOK, Rows
<1>5. AfterCursor = Elements(ReportsAfter(k))
  <2>1. Len(ReportsAfter(k)) = Len(rows) - k
    BY <1>3 DEF ReportsAfter
  <2>2. AfterCursor \subseteq Elements(ReportsAfter(k))
    <3> SUFFICES ASSUME NEW i \in 1 .. Len(rows), rows[i].id > checkpoint.cursor
                 PROVE  rows[i].report \in Elements(ReportsAfter(k))
      BY DEF AfterCursor
    <3>1. i \in k + 1 .. Len(rows)
      BY <1>1, <1>3, <1>4 DEF SplitAtCursor
    <3>2. i - k \in 1 .. Len(rows) - k /\ (i - k) + k = i
      BY <1>3, <3>1
    <3>3. ReportsAfter(k)[i - k] = rows[i].report
      BY <3>2 DEF ReportsAfter
    <3> QED
      BY <2>1, <3>2, <3>3 DEF Elements
  <2>3. Elements(ReportsAfter(k)) \subseteq AfterCursor
    <3> SUFFICES ASSUME NEW i \in 1 .. Len(rows) - k
                 PROVE  ReportsAfter(k)[i] \in AfterCursor
      BY <2>1 DEF Elements
    <3>1. i + k \in k + 1 .. Len(rows) /\ i + k \in 1 .. Len(rows)
      BY <1>3
    <3>2. ReportsAfter(k)[i] = rows[i + k].report
      BY DEF ReportsAfter
    <3> QED
      BY <1>1, <3>1, <3>2 DEF SplitAtCursor, AfterCursor
  <2> QED
    BY <2>2, <2>3
<1>6. Elements(live') = OnDisk
  <2>1. checkpoint.payload \in Seq(Entries) /\ ReportsAfter(k) \in Seq(Entries)
    BY RestartTyped DEF TypeOK, DiskTypeOK
  <2> QED
    BY <1>1, <1>5, <2>1, ElementsOfConcat DEF OnDisk
<1>7. InMemory' = OnDisk
  BY <1>2, <1>6 DEF InMemory, Pending, NoCommit
<1>8. Stored' = Stored /\ Stored \ misfiled \subseteq OnDisk
  <2>1. \A i \in 1 .. Len(rows) :
            rows[i].id <= checkpoint.cursor \/ rows[i].id > checkpoint.cursor
    BY <1>4
  <2> QED
    BY <1>2, <2>1 DEF DurableInv, CoveredByCursor, Stored, OnDisk, AfterCursor
<1>9. CommitIsNew' /\ AcknowledgedKept' /\ RowsInMemory'
  BY <1>2, <1>6, <1>7, <1>8 DEF DurableInv, CommitIsNew, AcknowledgedKept, RowsInMemory, NoCommit
<1>10. CASE k < Len(rows)
  <2>1. Elements(checkpoint'.payload) = OnDisk /\ checkpoint'.cursor = MaxRowID
    <3>1. checkpoint'.payload = live' /\ checkpoint'.cursor = RestoredCursor
      BY <1>1, <1>10
    <3>2. Elements(checkpoint'.payload) = Elements(live')
      BY <3>1
    <3> QED
      BY <1>6, <3>1, <3>2 DEF RestoredCursor
  <2>2. MemoryOnDisk' /\ PayloadInMemory'
    BY <1>7, <2>1 DEF MemoryOnDisk, PayloadInMemory, OnDisk
  <2>3. \A i \in 1 .. Len(rows') : rows'[i].report \in Stored'
    BY DEF Stored
  <2>4. CoveredByCursor'
    BY <1>2, <1>8, <2>1, <2>3 DEF CoveredByCursor
  <2>5. MaxRowID \in Nat /\ \A i \in 1 .. Len(rows) : rows[i].id <= MaxRowID
    BY RowIDs DEF TypeOK
  <2>6. NoReplayTwice'
    BY <1>2, <1>4, <2>1, <2>5 DEF NoReplayTwice
  <2> QED
    BY <1>9, <2>2, <2>4, <2>6 DEF DurableInv
<1>11. CASE ~(k < Len(rows))
  <2>1. checkpoint' = checkpoint
    BY <1>1, <1>11
  <2>2. OnDisk' = OnDisk /\ Elements(checkpoint.payload) \subseteq OnDisk
    BY <1>2, <2>1 DEF OnDisk, AfterCursor, Elements
  <2>3. MemoryOnDisk' /\ PayloadInMemory'
    BY <1>7, <2>1, <2>2 DEF MemoryOnDisk, PayloadInMemory
  <2>4. CoveredByCursor' /\ NoReplayTwice'
    BY <1>2, <2>1 DEF DurableInv, CoveredByCursor, NoReplayTwice
  <2> QED
    BY <1>9, <2>3, <2>4 DEF DurableInv
<1> QED
  BY <1>10, <1>11

(* Every step keeps memory and disk together. *)
LEMMA NextKeeps ==
  ASSUME TypeOK, DurableInv, [Next]_vars
  PROVE  DurableInv'
<1> DEFINE Same ==
      /\ rows' = rows /\ checkpoint' = checkpoint
      /\ up' = up /\ live' = live /\ misfiled' = misfiled
<1>1. ASSUME Same, Pending' = Pending, CommitIsNew', AcknowledgedKept'
      PROVE  DurableInv'
  <2>1. InMemory' = InMemory /\ Stored' = Stored /\ OnDisk' = OnDisk
    BY <1>1 DEF InMemory, Stored, OnDisk, AfterCursor, Elements
  <2>2. MemoryOnDisk' /\ PayloadInMemory' /\ RowsInMemory'
    BY <1>1, <2>1 DEF DurableInv, MemoryOnDisk, PayloadInMemory, RowsInMemory
  <2>3. CoveredByCursor' /\ NoReplayTwice'
    BY <1>1 DEF DurableInv, CoveredByCursor, NoReplayTwice
  <2> QED
    BY <1>1, <2>2, <2>3 DEF DurableInv
<1>2. ASSUME Same, acknowledged' = acknowledged
      PROVE  AcknowledgedKept'
  BY <1>2 DEF DurableInv, AcknowledgedKept, OnDisk, AfterCursor, Elements
<1>3. ASSUME NEW report \in Reports, BeginSubmit(report)
      PROVE  DurableInv'
  <2>1. /\ Same /\ acknowledged' = acknowledged
        /\ commit = NoCommit /\ commit'.stage = "report" /\ commit'.entries = <<report>>
        /\ report \notin Elements(live)
    BY <1>3 DEF BeginSubmit, diskVars
  <2>2. Elements(commit'.entries) = {report}
    BY <2>1 DEF Elements
  <2>3. Pending' = Pending /\ CommitIsNew'
    BY <2>1, <2>2 DEF Pending, CommitIsNew, NoCommit
  <2> QED
    BY <1>1, <1>2, <2>1, <2>3
<1>4. ASSUME NEW change \in Changes, BeginChange(change)
      PROVE  DurableInv'
  <2>1. /\ Same /\ acknowledged' = acknowledged
        /\ commit = NoCommit /\ commit'.stage = "change" /\ commit'.entries = <<change>>
        /\ change \notin Elements(live)
    BY <1>4 DEF BeginChange, diskVars
  <2>2. Elements(commit'.entries) = {change}
    BY <2>1 DEF Elements
  <2>3. Pending' = Pending /\ CommitIsNew'
    BY <2>1, <2>2 DEF Pending, CommitIsNew, NoCommit
  <2> QED
    BY <1>1, <1>2, <2>1, <2>3
<1>5. ASSUME NEW report \in Reports, AnswerApplied(report)
      PROVE  DurableInv'
  <2>1. Same /\ commit' = commit /\ up /\ acknowledged' = acknowledged \cup {report}
    BY <1>5 DEF AnswerApplied, diskVars, memoryVars
  <2>2. Pending' = Pending /\ CommitIsNew'
    BY <2>1 DEF DurableInv, Pending, CommitIsNew
  <2>3. AcknowledgedKept'
    BY <1>5, <2>1 DEF DurableInv, AcknowledgedKept, AnswerApplied
  <2> QED
    BY <1>1, <2>1, <2>2, <2>3
<1>6. CASE IgnoreStored
  <2>1. /\ Same /\ commit' = NoCommit /\ commit.stage = "report"
        /\ commit.entries[1] \in Stored
        /\ acknowledged' = acknowledged \cup {commit.entries[1]}
    BY <1>6 DEF IgnoreStored, diskVars
  <2>2. /\ up /\ Elements(commit.entries) = {commit.entries[1]}
        /\ Pending = {} /\ Pending' = {}
    BY <2>1, CommitElements DEF Pending, NoCommit
  <2>3. commit.entries[1] \in misfiled
    BY <2>1, <2>2 DEF DurableInv, RowsInMemory, CommitIsNew, InMemory
  <2>4. CommitIsNew' /\ AcknowledgedKept'
    BY <2>1, <2>2, <2>3 DEF DurableInv, CommitIsNew, AcknowledgedKept, NoCommit
  <2> QED
    BY <1>1, <2>1, <2>2, <2>4
<1>7. CASE StoreFails
  <2>1. /\ Same /\ commit' = NoCommit /\ acknowledged' = acknowledged
        /\ commit.stage # "stored"
    BY <1>7 DEF StoreFails, diskVars
  <2>2. Pending' = Pending /\ CommitIsNew'
    BY <2>1 DEF Pending, CommitIsNew, NoCommit
  <2> QED
    BY <1>1, <1>2, <2>1, <2>2
<1>8. CASE Tick \/ UNCHANGED vars
  <2>1. Same /\ commit' = commit /\ acknowledged' = acknowledged
    BY <1>8 DEF Tick, vars, diskVars, memoryVars
  <2>2. Pending' = Pending /\ CommitIsNew'
    BY <2>1 DEF DurableInv, Pending, CommitIsNew
  <2> QED
    BY <1>1, <1>2, <2>1, <2>2
<1>9. CASE Crash
  <2>1. /\ up /\ ~up' /\ rows' = rows /\ checkpoint' = checkpoint /\ commit' = NoCommit
        /\ acknowledged' = acknowledged /\ misfiled' = misfiled
    BY <1>9 DEF Crash, diskVars
  <2>2. OnDisk' = OnDisk
    BY <2>1 DEF OnDisk, AfterCursor, Elements
  <2>3. AcknowledgedKept'
    BY <2>1, <2>2 DEF DurableInv, AcknowledgedKept, MemoryOnDisk, InMemory
  <2>4. CoveredByCursor' /\ NoReplayTwice'
    BY <2>1 DEF DurableInv, CoveredByCursor, NoReplayTwice
  <2> QED
    BY <2>1, <2>3, <2>4
    DEF DurableInv, MemoryOnDisk, PayloadInMemory, RowsInMemory, CommitIsNew, NoCommit
<1> QED
  BY <1>3, <1>4, <1>5, <1>6, <1>7, <1>8, <1>9, StoreReportKeeps, StoreChangeKeeps,
     PublishKeeps, MaintainKeeps, RestartKeeps
  DEF Next

(* Memory and disk agree in every reachable state. *)
LEMMA AlwaysDurable == Spec => []DurableInv
<1>1. Init => DurableInv
  BY DEF Init, DurableInv, MemoryOnDisk, PayloadInMemory, RowsInMemory, CoveredByCursor,
         CommitIsNew, AcknowledgedKept, NoReplayTwice, InMemory, Pending, Stored, Elements,
         NoCommit, NoCheckpoint
<1>2. TypeOK /\ DurableInv /\ [Next]_vars => DurableInv'
  BY NextKeeps
<1> QED
  BY <1>1, <1>2, TypeCorrect, PTL DEF Spec

(* Whatever crashes and maintenance come between, a report that was            *)
(* acknowledged and never misfiled is in the runtime state of every running    *)
(* process.                                                                    *)
THEOREM AcknowledgedSafe == Spec => []AcknowledgedSurvives
<1>1. DurableInv => AcknowledgedSurvives
  BY DEF DurableInv, AcknowledgedKept, AcknowledgedSurvives
<1> QED
  BY <1>1, AlwaysDurable, PTL

(* The replay at start-up never applies a report that the checkpoint's payload *)
(* already holds.                                                              *)
THEOREM ReplayOnce == Spec => []NoReplayTwice
<1>1. DurableInv => NoReplayTwice
  BY DEF DurableInv
<1> QED
  BY <1>1, AlwaysDurable, PTL

-----------------------------------------------------------------------------
(* The replay is short *)

(* The inductive invariant: App.lastCheckpoint is the time of the checkpoint   *)
(* on disk, but for the moment between storing a checkpoint and publishing it; *)
(* a report that brings no checkpoint arrived soon after it.                   *)
ClockKept ==
    /\ up /\ commit.stage # "stored" => lastCheckpoint = checkpoint.at
    /\ commit.stage = "stored" =>
           checkpoint.at = IF commit.covers THEN commit.at ELSE lastCheckpoint
SoonAfter ==
    commit.stage = "report" /\ ~commit.covers =>
        lastCheckpoint # NoTime /\ commit.at \in lastCheckpoint .. lastCheckpoint + CheckpointEvery - 1

ReplayInv == ClockKept /\ SoonAfter /\ ReplayIsShort

(* Storing a report leaves only rows received soon after the checkpoint. *)
LEMMA StoreReportIsShort ==
  ASSUME TypeOK, ReplayInv, StoreReport
  PROVE  ReplayInv'
<1>1. commit.stage = "report" /\ Record(Candidate)
  BY DEF StoreReport
<1>2. /\ commit'.stage = "stored" /\ commit'.covers = commit.covers /\ commit'.at = commit.at
      /\ lastCheckpoint' = lastCheckpoint
  BY <1>1 DEF Record, TypeOK, CommitTypeOK
<1>3. /\ Len(rows') = Len(rows) + 1
      /\ \A i \in 1 .. Len(rows) : rows'[i] = rows[i]
      /\ rows'[Len(rows) + 1].id = NewRowID
      /\ 1 .. Len(rows') = 1 .. Len(rows) \cup {Len(rows) + 1}
  BY <1>1, RecordRows
<1>4. up /\ lastCheckpoint = checkpoint.at
  BY <1>1, CommitElements DEF ReplayInv, ClockKept
<1>5. SoonAfter'
  BY <1>2 DEF SoonAfter
<1>6. CASE commit.covers
  <2>1. checkpoint'.cursor = NewRowID /\ checkpoint'.at = commit.at
    BY <1>1, <1>6 DEF Record
  <2>2. /\ MaxRowID \in Nat /\ NewRowID = MaxRowID + 1
        /\ \A i \in 1 .. Len(rows) : rows[i].id \in Nat /\ rows[i].id <= MaxRowID
    BY RowIDs DEF TypeOK, NewRowID, Rows
  <2>3. \A i \in 1 .. Len(rows') : ~(rows'[i].id > checkpoint'.cursor)
    BY <1>3, <2>1, <2>2
  <2>4. ClockKept' /\ ReplayIsShort'
    BY <1>2, <1>6, <2>1, <2>3 DEF ClockKept, ReplayIsShort
  <2> QED
    BY <1>5, <2>4 DEF ReplayInv
<1>7. CASE ~commit.covers
  <2>1. checkpoint' = checkpoint
    BY <1>1, <1>7 DEF Record
  <2>2. ClockKept'
    BY <1>2, <1>4, <1>7, <2>1 DEF ClockKept
  <2>3. rows'[Len(rows) + 1].at = commit.at
    <3>1. rows \in Seq(Rows)
      BY DEF TypeOK, DiskTypeOK
    <3>2. rows' = Append(rows, [id |-> NewRowID, report |-> commit.entries[1], at |-> commit.at])
      BY <1>1 DEF Record
    <3>3. rows'[Len(rows) + 1] = [id |-> NewRowID, report |-> commit.entries[1], at |-> commit.at]
      BY <3>1, <3>2
    <3> QED
      BY <3>3
  <2>4. /\ checkpoint.at # NoTime
        /\ commit.at \in checkpoint.at .. checkpoint.at + CheckpointEvery - 1
    BY <1>1, <1>4, <1>7 DEF ReplayInv, SoonAfter
  <2>5. ReplayIsShort'
    <3> SUFFICES ASSUME NEW i \in 1 .. Len(rows'), rows'[i].id > checkpoint'.cursor
                 PROVE  /\ checkpoint'.at # NoTime
                        /\ rows'[i].at \in checkpoint'.at .. checkpoint'.at + CheckpointEvery - 1
      BY DEF ReplayIsShort
    <3>1. CASE i \in 1 .. Len(rows)
      BY <1>3, <2>1, <3>1 DEF ReplayInv, ReplayIsShort
    <3>2. CASE i = Len(rows) + 1
      BY <2>1, <2>3, <2>4, <3>2
    <3> QED
      BY <1>3, <3>1, <3>2
  <2> QED
    BY <1>5, <2>2, <2>5 DEF ReplayInv
<1> QED
  BY <1>6, <1>7

(* After a restart no row is left to replay. *)
LEMMA RestartIsShort ==
  ASSUME TypeOK, ReplayInv, Restart
  PROVE  ReplayInv'
<1>1. PICK k \in 0 .. Len(rows), latest \in Times \cup {NoTime} :
          /\ SplitAtCursor(k)
          /\ Latest(k, latest)
          /\ lastCheckpoint' = latest
          /\ IF k < Len(rows)
             THEN checkpoint' = [payload |-> live', cursor |-> RestoredCursor, at |-> latest]
             ELSE UNCHANGED checkpoint
  BY DEF Restart
<1>2. rows' = rows /\ commit' = NoCommit
  BY DEF Restart, TypeOK, MemoryTypeOK
<1>3. Len(rows) \in Nat /\ k \in Nat /\ k <= Len(rows)
  BY DEF TypeOK, DiskTypeOK
<1>4. MaxRowID \in Nat /\ \A i \in 1 .. Len(rows) : rows[i].id \in Nat /\ rows[i].id <= MaxRowID
  BY RowIDs DEF TypeOK, Rows
<1>5. SoonAfter'
  BY <1>2 DEF SoonAfter, NoCommit
<1>6. CASE k < Len(rows)
  <2>1. checkpoint'.cursor = MaxRowID /\ checkpoint'.at = latest
    BY <1>1, <1>6 DEF RestoredCursor
  <2>2. ClockKept'
    BY <1>1, <1>2, <2>1 DEF ClockKept, NoCommit
  <2>3. ReplayIsShort'
    BY <1>2, <1>4, <2>1 DEF ReplayIsShort
  <2> QED
    BY <1>5, <2>2, <2>3 DEF ReplayInv
<1>7. CASE ~(k < Len(rows))
  <2>1. checkpoint' = checkpoint /\ k = Len(rows)
    BY <1>1, <1>3, <1>7
  <2>2. latest = checkpoint.at
    <3>1. k + 1 .. Len(rows) = {}
      BY <1>3, <2>1
    <3> QED
      BY <1>1, <3>1 DEF Latest
  <2>3. ClockKept'
    BY <1>1, <1>2, <2>1, <2>2 DEF ClockKept, NoCommit
  <2>4. ReplayIsShort'
    BY <1>2, <2>1 DEF ReplayInv, ReplayIsShort
  <2> QED
    BY <1>5, <2>3, <2>4 DEF ReplayInv
<1> QED
  BY <1>6, <1>7

(* Every step keeps the replay short. *)
LEMMA NextIsShort ==
  ASSUME TypeOK, ReplayInv, [Next]_vars
  PROVE  ReplayInv'
<1>1. ASSUME NEW report \in Reports, BeginSubmit(report)
      PROVE  ReplayInv'
  <2>1. PICK at \in 0 .. now, demanded \in BOOLEAN :
            commit' = [stage |-> "report", entries |-> <<report>>, at |-> at,
                       covers |-> demanded \/ ShouldCheckpoint(at)]
    BY <1>1 DEF BeginSubmit
  <2>2. /\ up /\ commit = NoCommit
        /\ rows' = rows /\ checkpoint' = checkpoint /\ lastCheckpoint' = lastCheckpoint
    BY <1>1 DEF BeginSubmit, diskVars
  <2>3. /\ at \in Int /\ CheckpointEvery \in Int
        /\ lastCheckpoint # NoTime => lastCheckpoint \in Int
    BY DurabilityBoundsAssumption DEF TypeOK, MemoryTypeOK, Times
  <2>4. SoonAfter'
    <3>1. commit'.at = at /\ commit'.covers = (demanded \/ ShouldCheckpoint(at))
      BY <2>1
    <3>2. ASSUME ~commit'.covers
          PROVE  ~ShouldCheckpoint(at)
      BY <3>1, <3>2
    <3>3. ASSUME ~ShouldCheckpoint(at)
          PROVE  lastCheckpoint # NoTime /\ at \in lastCheckpoint .. lastCheckpoint + CheckpointEvery - 1
      BY <2>3, <3>3 DEF ShouldCheckpoint
    <3> QED
      BY <2>2, <3>1, <3>2, <3>3 DEF SoonAfter
  <2>5. ClockKept'
    BY <2>1, <2>2 DEF ReplayInv, ClockKept, NoCommit
  <2>6. ReplayIsShort'
    BY <2>2 DEF ReplayInv, ReplayIsShort
  <2> QED
    BY <2>4, <2>5, <2>6 DEF ReplayInv
<1>2. ASSUME NEW change \in Changes, BeginChange(change)
      PROVE  ReplayInv'
  BY <1>2 DEF BeginChange, diskVars, ReplayInv, ClockKept, SoonAfter, ReplayIsShort, NoCommit
<1>3. ASSUME NEW report \in Reports, AnswerApplied(report)
      PROVE  ReplayInv'
  BY <1>3 DEF AnswerApplied, diskVars, memoryVars, ReplayInv, ClockKept, SoonAfter, ReplayIsShort
<1>4. CASE StoreReport
  BY <1>4, StoreReportIsShort
<1>5. CASE IgnoreStored \/ StoreFails
  <2>1. /\ rows' = rows /\ checkpoint' = checkpoint /\ lastCheckpoint' = lastCheckpoint
        /\ commit' = NoCommit /\ commit.stage \in {"report", "change"}
    BY <1>5 DEF IgnoreStored, StoreFails, diskVars
  <2>2. up
    BY <2>1, CommitElements
  <2>3. ClockKept' /\ SoonAfter'
    BY <2>1, <2>2 DEF ReplayInv, ClockKept, SoonAfter, NoCommit
  <2>4. ReplayIsShort'
    BY <2>1 DEF ReplayInv, ReplayIsShort
  <2> QED
    BY <2>3, <2>4 DEF ReplayInv
<1>6. CASE StoreChange
  <2>1. /\ rows' = rows /\ checkpoint'.cursor = MaxRowID /\ checkpoint'.at = commit.at
        /\ commit'.stage = "stored" /\ commit'.covers = commit.covers /\ commit'.at = commit.at
        /\ lastCheckpoint' = lastCheckpoint /\ commit.stage = "change"
    BY <1>6 DEF StoreChange, TypeOK, CommitTypeOK
  <2>2. MaxRowID \in Nat /\ \A i \in 1 .. Len(rows) : rows[i].id \in Nat /\ rows[i].id <= MaxRowID
    BY RowIDs DEF TypeOK, Rows
  <2>3. commit.covers
    BY <2>1 DEF TypeOK, CommitTypeOK
  <2>4. ClockKept' /\ SoonAfter' /\ ReplayIsShort'
    <3>1. ClockKept' /\ SoonAfter'
      BY <2>1, <2>3 DEF ClockKept, SoonAfter
    <3>2. \A i \in 1 .. Len(rows') : ~(rows'[i].id > checkpoint'.cursor)
      BY <2>1, <2>2
    <3> QED
      BY <3>1, <3>2 DEF ReplayIsShort
  <2> QED
    BY <2>4 DEF ReplayInv
<1>7. CASE Publish
  BY <1>7 DEF Publish, diskVars, ReplayInv, ClockKept, SoonAfter, ReplayIsShort, NoCommit
<1>8. CASE Maintain
  <2>1. PICK k \in 0 .. Len(rows) : rows' = SubSeq(rows, k + 1, Len(rows))
    BY <1>8 DEF Maintain
  <2>2. rows \in Seq(Rows) /\ Len(rows) \in Nat /\ k \in Nat /\ k <= Len(rows)
    BY DEF TypeOK, DiskTypeOK
  <2>3. /\ Len(rows') = Len(rows) - k
        /\ \A i \in 1 .. Len(rows) - k : rows'[i] = rows[i + k]
    BY <2>1, <2>2, SubSeqProperties
  <2>4. \A i \in 1 .. Len(rows') : i + k \in 1 .. Len(rows) /\ rows'[i] = rows[i + k]
    BY <2>2, <2>3
  <2>5. ReplayIsShort'
    BY <1>8, <2>4 DEF Maintain, ReplayInv, ReplayIsShort
  <2> QED
    BY <1>8, <2>5 DEF Maintain, memoryVars, ReplayInv, ClockKept, SoonAfter
<1>9. CASE Crash
  BY <1>9 DEF Crash, diskVars, ReplayInv, ClockKept, SoonAfter, ReplayIsShort, NoCommit
<1>10. CASE Restart
  BY <1>10, RestartIsShort
<1>11. CASE Tick \/ UNCHANGED vars
  BY <1>11 DEF Tick, vars, diskVars, memoryVars, ReplayInv, ClockKept, SoonAfter, ReplayIsShort
<1> QED
  BY <1>1, <1>2, <1>3, <1>4, <1>5, <1>6, <1>7, <1>8, <1>9, <1>10, <1>11 DEF Next

(* Whichever way the clock moves, a restart replays only reports received      *)
(* within checkpointEvery after the checkpoint it starts from.                 *)
THEOREM ReplayShort == Spec => []ReplayIsShort
<1>1. Init => ReplayInv
  BY EmptySeq DEF Init, ReplayInv, ClockKept, SoonAfter, ReplayIsShort, NoCommit, NoCheckpoint
<1>2. TypeOK /\ ReplayInv /\ [Next]_vars => ReplayInv'
  BY NextIsShort
<1>3. ReplayInv => ReplayIsShort
  BY DEF ReplayInv
<1> QED
  BY <1>1, <1>2, <1>3, TypeCorrect, PTL DEF Spec

-----------------------------------------------------------------------------
(* Sequences without some of their entries *)

(* The places of the entries left are finite in number. *)
LEMMA LeftFinite ==
  ASSUME NEW S, NEW s \in Seq(S), NEW gone
  PROVE  /\ IsFiniteSet(Left(s, gone))
         /\ Cardinality(Left(s, gone)) \in Nat
<1>1. Left(s, gone) \in SUBSET (1 .. Len(s)) /\ Len(s) \in Nat
  BY DEF Left
<1>2. IsFiniteSet(1 .. Len(s))
  BY <1>1, FS_Interval
<1>3. IsFiniteSet(Left(s, gone))
  BY <1>1, <1>2, FS_Subset
<1> QED
  BY <1>3, FS_CardinalityType

(* Each place is taken by exactly one of the entries left. *)
LEMMA PlaceBijective ==
  ASSUME NEW S, NEW s \in Seq(S), NEW gone
  PROVE  /\ \A i \in Left(s, gone) : Place(Left(s, gone), i) \in 1 .. Cardinality(Left(s, gone))
         /\ \A i, j \in Left(s, gone) : Place(Left(s, gone), i) = Place(Left(s, gone), j) => i = j
         /\ \A n \in 1 .. Cardinality(Left(s, gone)) :
                \E i \in Left(s, gone) : Place(Left(s, gone), i) = n
<1> DEFINE L       == Left(s, gone)
           upTo(i) == {j \in L : j <= i}
<1>1. IsFiniteSet(L) /\ Cardinality(L) \in Nat /\ L \subseteq Nat
  <2>1. L \subseteq Nat
    BY DEF Left
  <2> HIDE DEF L
  <2> QED
    BY <2>1, LeftFinite DEF L
<1>2. ASSUME NEW i \in L
      PROVE  Place(Left(s, gone), i) \in 1 .. Cardinality(L)
  <2>1. /\ IsFiniteSet(upTo(i)) /\ Cardinality(upTo(i)) <= Cardinality(L)
        /\ Cardinality(upTo(i)) \in Nat
    <3>1. upTo(i) \in SUBSET L
      OBVIOUS
    <3> HIDE DEF upTo
    <3> QED
      BY <1>1, <3>1, FS_Subset, FS_CardinalityType
  <2>2. i \in upTo(i)
    BY <1>1
  <2>3. Cardinality(upTo(i)) # 0
    <3> HIDE DEF upTo
    <3> QED
      BY <2>1, <2>2, FS_EmptySet
  <2>4. Place(Left(s, gone), i) = Cardinality(upTo(i))
    BY DEF Place
  <2> HIDE DEF upTo, L
  <2> QED
    BY <1>1, <2>1, <2>3, <2>4
<1>3. ASSUME NEW i \in L, NEW j \in L, i < j
      PROVE  Place(Left(s, gone), i) # Place(Left(s, gone), j)
  <2>1. IsFiniteSet(upTo(j))
    <3>1. upTo(j) \in SUBSET L
      OBVIOUS
    <3> HIDE DEF upTo
    <3> QED
      BY <1>1, <3>1, FS_Subset
  <2>2. upTo(i) \in SUBSET upTo(j) /\ j \in upTo(j) /\ j \notin upTo(i)
    BY <1>1, <1>3
  <2>3. Cardinality(upTo(i)) # Cardinality(upTo(j))
    <3> HIDE DEF upTo
    <3> QED
      BY <2>1, <2>2, FS_Subset
  <2> QED
    BY <2>3 DEF Place
<1>4. \A i, j \in L : Place(Left(s, gone), i) = Place(Left(s, gone), j) => i = j
  <2> SUFFICES ASSUME NEW i \in L, NEW j \in L, i # j
               PROVE  Place(Left(s, gone), i) # Place(Left(s, gone), j)
    OBVIOUS
  <2>1. i < j \/ j < i
    BY <1>1
  <2> QED
    BY <1>3, <2>1
<1>5. \A n \in 1 .. Cardinality(L) : \E i \in L : Place(Left(s, gone), i) = n
  <2> DEFINE f == [i \in L |-> Place(Left(s, gone), i)]
             P == 1 .. Cardinality(L)
  <2>1. f \in Injection(L, P)
    <3>1. f \in [L -> P]
      BY <1>2
    <3> HIDE DEF L
    <3>2. IsInjective(f)
      BY <1>4 DEF IsInjective
    <3> QED
      BY <3>1, <3>2 DEF Injection
  <2>2. IsFiniteSet(P) /\ Cardinality(P) = Cardinality(L)
    <3> HIDE DEF L
    <3> QED
      BY <1>1, FS_Interval
  <2>3. f \in Surjection(L, P)
    <3> HIDE DEF L, f, P
    <3> QED
      BY <2>1, <2>2, FS_Injection
  <2> HIDE DEF L
  <2> QED
    BY <2>3 DEF Surjection
<1> QED
  BY <1>2, <1>4, <1>5

(* What stands at a place, and that entries left are members of the whole. *)
LEMMA WithoutValues ==
  ASSUME NEW S, NEW s \in Seq(S), NEW gone
  PROVE  /\ Without(s, gone) \in Seq(S)
         /\ Len(Without(s, gone)) = Cardinality(Left(s, gone))
         /\ \A i \in Left(s, gone) : Without(s, gone)[Place(Left(s, gone), i)] = s[i]
         /\ Elements(Without(s, gone)) = Elements(s) \ gone
<1> DEFINE L == Left(s, gone)
           w == Without(s, gone)
           at(n) == CHOOSE i \in L : Place(Left(s, gone), i) = n
<1>1. IsFiniteSet(L) /\ Cardinality(L) \in Nat /\ L \subseteq 1 .. Len(s)
  BY LeftFinite DEF Left
<1>2. /\ \A i \in L : Place(Left(s, gone), i) \in 1 .. Cardinality(L)
      /\ \A i, j \in L : Place(Left(s, gone), i) = Place(Left(s, gone), j) => i = j
      /\ \A n \in 1 .. Cardinality(L) : \E i \in L : Place(Left(s, gone), i) = n
  BY PlaceBijective
<1>3. w = [n \in 1 .. Cardinality(L) |-> s[at(n)]]
  BY DEF Without, Subsequence
<1>4. \A n \in 1 .. Cardinality(L) : at(n) \in L /\ Place(Left(s, gone), at(n)) = n
  <2> HIDE DEF L
  <2> QED
    BY <1>2
<1>5. \A i \in L : at(Place(Left(s, gone), i)) = i
  <2> HIDE DEF L
  <2> QED
    BY <1>2
<1>6. \A i \in 1 .. Len(s) : s[i] \in S
  OBVIOUS
<1>7. w \in Seq(S) /\ Len(w) = Cardinality(L)
  <2>1. \A n \in 1 .. Cardinality(L) : s[at(n)] \in S
    <3> HIDE DEF L, at
    <3> QED
      BY <1>1, <1>4, <1>6
  <2> HIDE DEF L, at, w
  <2> QED
    BY <1>1, <1>3, <2>1
<1>8. \A i \in L : w[Place(Left(s, gone), i)] = s[i]
  <2> HIDE DEF L, at, w
  <2> QED
    BY <1>2, <1>3, <1>5
<1>9. Elements(w) = Elements(s) \ gone
  <2>1. Elements(w) = {s[i] : i \in L}
    <3> HIDE DEF L, at, w
    <3> QED
      BY <1>2, <1>3, <1>4, <1>7, <1>8 DEF Elements
  <2>2. {s[i] : i \in L} = Elements(s) \ gone
    BY DEF Elements, Left
  <2> QED
    BY <2>1, <2>2
<1> QED
  BY <1>7, <1>8, <1>9

(* What is left of a state depends on which of its own entries are gone. *)
LEMMA WithoutAgrees ==
  ASSUME NEW S, NEW s \in Seq(S), NEW gone, NEW more, more \cap Elements(s) = {}
  PROVE  Without(s, gone \cup more) = Without(s, gone)
<1>1. Left(s, gone \cup more) = Left(s, gone)
  BY DEF Left, Elements
<1> QED
  BY <1>1 DEF Without

(* Committing an entry appends it to what is left, unless it is gone. *)
LEMMA WithoutAppend ==
  ASSUME NEW S, NEW s \in Seq(S), NEW e \in S, NEW gone
  PROVE  Without(Append(s, e), gone) =
             IF e \in gone THEN Without(s, gone) ELSE Append(Without(s, gone), e)
<1> DEFINE t == Append(s, e)
           n == Len(s) + 1
           L == Left(s, gone)
           M == Left(t, gone)
           u == Without(s, gone)
           v == Without(t, gone)
<1>1. /\ t \in Seq(S) /\ Len(t) = n /\ t[n] = e /\ n \in Nat
      /\ \A i \in 1 .. Len(s) : t[i] = s[i]
      /\ 1 .. Len(t) = 1 .. Len(s) \cup {n}
  OBVIOUS
<1>2. M = IF e \in gone THEN L ELSE L \cup {n}
  BY <1>1 DEF Left
<1>3. L \subseteq 1 .. Len(s) /\ n \notin L /\ \A i \in L : i < n
  BY DEF Left
<1>4. IsFiniteSet(L) /\ Cardinality(L) \in Nat
  BY LeftFinite
<1>5. \A i \in L : Place(Left(t, gone), i) = Place(Left(s, gone), i)
  <2> SUFFICES ASSUME NEW i \in L
               PROVE  {j \in M : j <= i} = {j \in L : j <= i}
    BY DEF Place
  <2> HIDE DEF L, M
  <2> QED
    BY <1>2, <1>3
<1>6. /\ u \in Seq(S) /\ Len(u) = Cardinality(L)
      /\ \A i \in L : u[Place(Left(s, gone), i)] = s[i]
  BY WithoutValues
<1>7. /\ v \in Seq(S) /\ Len(v) = Cardinality(M)
      /\ \A i \in M : v[Place(Left(t, gone), i)] = t[i]
  <2> HIDE DEF t
  <2> QED
    BY <1>1, WithoutValues
<1>8. \A m \in 1 .. Cardinality(L) : \E i \in L : Place(Left(s, gone), i) = m
  BY PlaceBijective
<1>9. \A m \in 1 .. Cardinality(L) : v[m] = u[m]
  <2> SUFFICES ASSUME NEW m \in 1 .. Cardinality(L)
               PROVE  v[m] = u[m]
    OBVIOUS
  <2>1. PICK i \in L : Place(Left(s, gone), i) = m
    BY <1>8
  <2>2. i \in M /\ t[i] = s[i]
    <3> HIDE DEF L, M, t, n
    <3> QED
      BY <1>1, <1>2, <1>3
  <2> HIDE DEF L, M, t, u, v
  <2> QED
    BY <1>5, <1>6, <1>7, <2>1, <2>2
<1>10. CASE e \in gone
  <2>1. M = L
    BY <1>2, <1>10
  <2> HIDE DEF L, M, t, u, v
  <2>2. v = u
    BY <1>6, <1>7, <1>9, <2>1, SeqEqual
  <2> QED
    BY <1>10, <2>2 DEF t, u, v
<1>11. CASE e \notin gone
  <2>1. M = L \cup {n} /\ n \in M
    BY <1>2, <1>11
  <2>2. Cardinality(M) = Cardinality(L) + 1
    <3> HIDE DEF L, M, t, n
    <3> QED
      BY <1>3, <1>4, <2>1, FS_AddElement
  <2>3. Place(Left(t, gone), n) = Cardinality(M)
    <3>1. {j \in M : j <= n} = M
      <4>1. n \in Int /\ L \subseteq Int
        BY <1>1, <1>3
      <4> HIDE DEF L, M, t, n
      <4>2. \A j \in M : j <= n
        BY <1>3, <2>1, <4>1
      <4> QED
        BY <4>2
    <3> QED
      BY <3>1 DEF Place
  <2>4. v[Cardinality(L) + 1] = e
    <3> HIDE DEF L, M, t, n, u, v
    <3> QED
      BY <1>1, <1>7, <2>1, <2>2, <2>3
  <2>5. /\ Append(u, e) \in Seq(S) /\ Len(Append(u, e)) = Cardinality(L) + 1
        /\ Append(u, e)[Cardinality(L) + 1] = e
        /\ \A m \in 1 .. Cardinality(L) : Append(u, e)[m] = u[m]
    <3> HIDE DEF L, M, t, n, u, v
    <3> QED
      BY <1>6
  <2> HIDE DEF L, M, t, n, u, v
  <2>6. 1 .. Cardinality(L) + 1 = 1 .. Cardinality(L) \cup {Cardinality(L) + 1}
    BY <1>4
  <2>7. v = Append(u, e)
    <3>1. \A m \in 1 .. Cardinality(L) + 1 : v[m] = Append(u, e)[m]
      BY <1>9, <2>4, <2>5, <2>6
    <3> HIDE DEF L, M, t, n, u, v
    <3> QED
      BY <1>7, <2>2, <2>5, <3>1, SeqEqual
  <2> QED
    BY <1>11, <2>7 DEF t, u, v
<1> QED
  BY <1>10, <1>11

(* Appending to the second of two sequences appends to the whole. *)
LEMMA ConcatAppend ==
  ASSUME NEW S, NEW s \in Seq(S), NEW t \in Seq(S), NEW e \in S
  PROVE  s \o Append(t, e) = Append(s \o t, e)
<1> DEFINE u == s \o Append(t, e)
           v == Append(s \o t, e)
           n == Len(s) + Len(t)
<1>1. /\ s \o t \in Seq(S) /\ Len(s \o t) = n
      /\ \A i \in 1 .. n : (s \o t)[i] = IF i <= Len(s) THEN s[i] ELSE t[i - Len(s)]
  BY ConcatProperties
<1>2. /\ Append(t, e) \in Seq(S) /\ Len(Append(t, e)) = Len(t) + 1
      /\ \A i \in 1 .. Len(t) : Append(t, e)[i] = t[i]
      /\ Append(t, e)[Len(t) + 1] = e
  OBVIOUS
<1>3. /\ u \in Seq(S) /\ Len(u) = Len(s) + Len(Append(t, e))
      /\ \A i \in 1 .. Len(s) + Len(Append(t, e)) :
             u[i] = IF i <= Len(s) THEN s[i] ELSE Append(t, e)[i - Len(s)]
  BY <1>2, ConcatProperties
<1>4. /\ v \in Seq(S) /\ Len(v) = n + 1
      /\ \A i \in 1 .. n : v[i] = (s \o t)[i]
      /\ v[n + 1] = e
  <2> HIDE DEF n
  <2> QED
    BY <1>1
<1>5. Len(s) \in Nat /\ Len(t) \in Nat
  OBVIOUS
<1>6. \A i \in 1 .. n + 1 : u[i] = v[i]
  <2> SUFFICES ASSUME NEW i \in 1 .. n + 1
               PROVE  u[i] = v[i]
    OBVIOUS
  <2> HIDE DEF u, v
  <2>1. CASE i <= Len(s)
    <3>1. i \in 1 .. n /\ i \in 1 .. Len(s) + Len(Append(t, e))
      BY <1>2, <1>5, <2>1
    <3> QED
      BY <1>1, <1>3, <1>4, <2>1, <3>1
  <2>2. CASE ~(i <= Len(s)) /\ i <= n
    <3>1. i \in 1 .. n /\ i \in 1 .. Len(s) + Len(Append(t, e)) /\ i - Len(s) \in 1 .. Len(t)
      BY <1>2, <1>5, <2>2
    <3> QED
      BY <1>1, <1>2, <1>3, <1>4, <2>2, <3>1
  <2>3. CASE i = n + 1
    <3>1. /\ ~(i <= Len(s)) /\ i - Len(s) = Len(t) + 1
          /\ i \in 1 .. Len(s) + Len(Append(t, e))
      BY <1>2, <1>5, <2>3
    <3> QED
      BY <1>2, <1>3, <1>4, <2>3, <3>1
  <2> QED
    BY <1>5, <2>1, <2>2, <2>3
<1>7. Len(u) = n + 1
  BY <1>2, <1>3, <1>5
<1> HIDE DEF u, v, n
<1>8. u = v
  BY <1>3, <1>4, <1>6, <1>7, SeqEqual
<1> QED
  BY <1>8 DEF u, v

-----------------------------------------------------------------------------
(* The disk and the memory are one append-only log *)

(* The candidate is the published state with the entry being committed at its  *)
(* end.                                                                        *)
LEMMA CandidateAppends ==
  ASSUME TypeOK, commit.stage # "idle"
  PROVE  /\ up
         /\ live \in Seq(Entries)
         /\ commit.entries[1] \in Entries
         /\ Candidate = Append(live, commit.entries[1])
<1>1. live \in Seq(Entries) /\ commit.entries \in Seq(Entries) /\ Len(commit.entries) = 1
  BY DEF TypeOK, MemoryTypeOK, CommitTypeOK
<1>2. up
  BY CommitElements
<1>3. commit.entries[1] \in Entries
  BY <1>1
<1> DEFINE entry == commit.entries[1]
<1>4. /\ Candidate \in Seq(Entries)
      /\ Len(Candidate) = Len(live) + 1
      /\ \A i \in 1 .. Len(live) + 1 :
             Candidate[i] = IF i <= Len(live) THEN live[i] ELSE commit.entries[i - Len(live)]
  <2> DEFINE s == live
             t == commit.entries
  <2>1. s \in Seq(Entries) /\ t \in Seq(Entries) /\ Len(t) = 1 /\ Candidate = s \o t
    BY <1>1 DEF Candidate
  <2> HIDE DEF s, t
  <2>2. /\ s \o t \in Seq(Entries) /\ Len(s \o t) = Len(s) + Len(t)
        /\ \A i \in 1 .. Len(s) + Len(t) :
               (s \o t)[i] = IF i <= Len(s) THEN s[i] ELSE t[i - Len(s)]
    BY <2>1, ConcatProperties
  <2>3. /\ Candidate \in Seq(Entries) /\ Len(Candidate) = Len(s) + 1
        /\ \A i \in 1 .. Len(s) + 1 :
               Candidate[i] = IF i <= Len(s) THEN s[i] ELSE t[i - Len(s)]
    BY <2>1, <2>2
  <2> QED
    BY <2>3 DEF s, t
<1>5. /\ Append(live, entry) \in Seq(Entries)
      /\ Len(Append(live, entry)) = Len(live) + 1
      /\ \A i \in 1 .. Len(live) : Append(live, entry)[i] = live[i]
      /\ Append(live, entry)[Len(live) + 1] = entry
  BY <1>1, <1>3
<1>6. \A i \in 1 .. Len(live) + 1 : Candidate[i] = Append(live, entry)[i]
  <2> SUFFICES ASSUME NEW i \in 1 .. Len(live) + 1
               PROVE  Candidate[i] = Append(live, entry)[i]
    OBVIOUS
  <2>1. Len(live) \in Nat
    BY <1>1
  <2>2. CASE i <= Len(live)
    <3>1. i \in 1 .. Len(live)
      BY <2>1, <2>2
    <3> QED
      BY <1>4, <1>5, <2>2, <3>1
  <2>3. CASE i = Len(live) + 1
    <3>1. ~(i <= Len(live)) /\ i - Len(live) = 1
      BY <2>1, <2>3
    <3> QED
      BY <1>4, <1>5, <2>3, <3>1
  <2> QED
    BY <2>1, <2>2, <2>3
<1>7. Candidate = Append(live, entry)
  <2> HIDE DEF entry
  <2> QED
    BY <1>4, <1>5, <1>6, SeqEqual
<1> QED
  BY <1>1, <1>2, <1>3, <1>7

(* The cursor splits the rows in one way. *)
LEMMA SplitUnique ==
  ASSUME TypeOK, NEW k \in 0 .. Len(rows), NEW l \in 0 .. Len(rows),
         SplitAtCursor(k), SplitAtCursor(l)
  PROVE  k = l
<1>1. Len(rows) \in Nat /\ checkpoint.cursor \in Nat
  BY DEF TypeOK, DiskTypeOK
<1>2. \A i \in 1 .. Len(rows) : rows[i].id \in Nat
  BY RowIDs DEF TypeOK, Rows
<1>3. ASSUME NEW m \in 0 .. Len(rows), NEW n \in 0 .. Len(rows), m < n,
             SplitAtCursor(m), SplitAtCursor(n)
      PROVE  FALSE
  <2>1. n \in 1 .. Len(rows) /\ n \in 1 .. n /\ n \in m + 1 .. Len(rows)
    BY <1>1, <1>3
  <2>2. rows[n].id <= checkpoint.cursor /\ rows[n].id > checkpoint.cursor
    BY <1>3, <2>1 DEF SplitAtCursor
  <2> QED
    BY <1>1, <1>2, <2>1, <2>2
<1> QED
  BY <1>1, <1>3

(* Nothing is replayed when the checkpoint covers every row. *)
LEMMA NothingAfterAll ==
  ASSUME NEW S, NEW s \in Seq(S), NEW table, NEW n \in Nat
  PROVE  s \o [i \in 1 .. n - n |-> table[i + n].report] = s
<1>1. [i \in 1 .. n - n |-> table[i + n].report] = <<>>
  <2>1. 1 .. n - n = {}
    OBVIOUS
  <2> QED
    BY <2>1
<1>2. s \o <<>> = s
  OBVIOUS
<1> QED
  BY <1>1, <1>2

(* A row the table gains is what the replay adds at its end. *)
LEMMA StoredAppends ==
  ASSUME TypeOK, NEW report \in Entries, NEW k \in 0 .. Len(rows),
         Len(rows') = Len(rows) + 1,
         \A i \in 1 .. Len(rows) : rows'[i] = rows[i],
         rows'[Len(rows) + 1].report = report,
         checkpoint' = checkpoint
  PROVE  /\ Recoverable(k) \in Seq(Entries)
         /\ Recoverable(k)' = Append(Recoverable(k), report)
<1> DEFINE after == ReportsAfter(k)
           gained == ReportsAfter(k)'
<1>1. Len(rows) \in Nat /\ k \in Nat /\ k <= Len(rows) /\ checkpoint.payload \in Seq(Entries)
  BY DEF TypeOK, DiskTypeOK
<1>2. after \in Seq(Entries) /\ Recoverable(k) \in Seq(Entries)
  BY RestartTyped DEF Recoverable
<1>3. Len(after) = Len(rows) - k /\ \A i \in 1 .. Len(rows) - k : after[i] = rows[i + k].report
  BY <1>1 DEF ReportsAfter
<1>4. gained = [i \in 1 .. Len(rows') - k |-> rows'[i + k].report]
  BY DEF ReportsAfter
<1>5. /\ Append(after, report) \in Seq(Entries)
      /\ Len(Append(after, report)) = Len(rows) - k + 1
      /\ \A i \in 1 .. Len(rows) - k : Append(after, report)[i] = after[i]
      /\ Append(after, report)[Len(rows) - k + 1] = report
  BY <1>1, <1>2, <1>3
<1>6. \A i \in 1 .. Len(rows) - k + 1 : rows'[i + k].report = Append(after, report)[i]
  <2> SUFFICES ASSUME NEW i \in 1 .. Len(rows) - k + 1
               PROVE  rows'[i + k].report = Append(after, report)[i]
    OBVIOUS
  <2>1. CASE i \in 1 .. Len(rows) - k
    <3>1. i + k \in 1 .. Len(rows)
      BY <1>1, <2>1
    <3> QED
      BY <1>3, <1>5, <2>1, <3>1
  <2>2. CASE i = Len(rows) - k + 1
    <3>1. i + k = Len(rows) + 1
      BY <1>1, <2>2
    <3> QED
      BY <1>5, <2>2, <3>1
  <2>3. i \in 1 .. Len(rows) - k \/ i = Len(rows) - k + 1
    BY <1>1
  <2> QED
    BY <2>1, <2>2, <2>3
<1>7. gained = Append(after, report)
  <2> DEFINE n        == Len(rows) - k + 1
             value(i) == rows'[i + k].report
             longer   == Append(after, report)
  <2>1. n \in Nat /\ gained = [i \in 1 .. n |-> value(i)]
    BY <1>1, <1>4
  <2>2. \A i \in 1 .. n : value(i) = longer[i]
    BY <1>6
  <2>3. longer \in Seq(Entries) /\ Len(longer) = n
    BY <1>5
  <2> HIDE DEF after, gained, n, value, longer
  <2>4. \A i \in 1 .. n : longer[i] \in Entries
    BY <2>3
  <2>5. gained \in Seq(Entries) /\ Len(gained) = n
    BY <2>1, <2>2, <2>4
  <2>6. \A i \in 1 .. n : gained[i] = longer[i]
    BY <2>1, <2>2
  <2>7. gained = longer
    BY <2>3, <2>5, <2>6, SeqEqual
  <2> QED
    BY <2>7 DEF longer
<1>8. Recoverable(k) = checkpoint.payload \o after /\ Recoverable(k)' = checkpoint.payload \o gained
  BY DEF Recoverable
<1>9. checkpoint.payload \o Append(after, report) = Append(checkpoint.payload \o after, report)
  <2> DEFINE p == checkpoint.payload
  <2>1. p \in Seq(Entries) /\ after \in Seq(Entries)
    BY <1>1, <1>2
  <2> HIDE DEF after, p
  <2>2. p \o Append(after, report) = Append(p \o after, report)
    BY <2>1, ConcatAppend
  <2> QED
    BY <2>2 DEF p
<1> QED
  BY <1>2, <1>7, <1>8, <1>9

(* The inductive invariant: the cursor splits the rows, and what a restart     *)
(* would rebuild from there is what the process has committed, entry for       *)
(* entry, misfiled reports apart.                                              *)
LogOnDisk ==
    \E k \in 0 .. Len(rows) :
        /\ SplitAtCursor(k)
        /\ up => Without(Committed, misfiled) = Without(Recoverable(k), misfiled)

(* A step that leaves the tables and what is committed alone keeps the log. *)
LEMMA SameKeepsLog ==
  ASSUME LogOnDisk, rows' = rows, checkpoint' = checkpoint, misfiled' = misfiled,
         up' => up /\ Committed' = Committed
  PROVE  LogOnDisk'
<1>1. PICK k \in 0 .. Len(rows) :
          /\ SplitAtCursor(k)
          /\ up => Without(Committed, misfiled) = Without(Recoverable(k), misfiled)
  BY DEF LogOnDisk
<1>2. SplitAtCursor(k)' /\ Recoverable(k)' = Recoverable(k)
  BY <1>1 DEF SplitAtCursor, Recoverable, ReportsAfter
<1>3. up' => Without(Committed', misfiled') = Without(Recoverable(k)', misfiled')
  BY <1>1, <1>2
<1> QED
  BY <1>1, <1>2, <1>3 DEF LogOnDisk

(* A checkpoint that covers every row and holds what is committed is the log. *)
LEMMA CoverKeepsLog ==
  ASSUME TypeOK', checkpoint'.payload = Committed',
         \A i \in 1 .. Len(rows') : rows'[i].id <= checkpoint'.cursor
  PROVE  LogOnDisk'
<1>1. Len(rows') \in Nat
  BY DEF TypeOK, DiskTypeOK
<1>2. Len(rows') \in 0 .. Len(rows') /\ Len(rows') + 1 .. Len(rows') = {}
  BY <1>1
<1>3. SplitAtCursor(Len(rows))'
  BY <1>2 DEF SplitAtCursor
<1>4. Recoverable(Len(rows))' = checkpoint'.payload
  <2>1. checkpoint'.payload \in Seq(Entries)
    BY DEF TypeOK, DiskTypeOK
  <2> QED
    BY <1>1, <2>1, NothingAfterAll DEF Recoverable, ReportsAfter
<1> QED
  BY <1>2, <1>3, <1>4 DEF LogOnDisk

(* Storing a report puts it at the end of both. *)
LEMMA StoreReportKeepsLog ==
  ASSUME TypeOK, TypeOK', DurableInv, LogOnDisk, StoreReport
  PROVE  LogOnDisk'
<1> DEFINE report == commit.entries[1]
<1>1. commit.stage = "report" /\ report \notin Stored /\ Record(Candidate)
  BY DEF StoreReport
<1>2. /\ up /\ live \in Seq(Entries) /\ report \in Entries
      /\ Candidate = Append(live, report)
  BY <1>1, CandidateAppends
<1>3. Committed = live /\ Committed' = Candidate /\ up'
  BY <1>1, <1>2 DEF Record, TypeOK, CommitTypeOK, Committed, Candidate
<1>4. /\ Len(rows') = Len(rows) + 1
      /\ \A i \in 1 .. Len(rows) : rows'[i] = rows[i]
      /\ rows'[Len(rows) + 1].id = NewRowID
      /\ rows'[Len(rows) + 1].report = report
      /\ 1 .. Len(rows') = 1 .. Len(rows) \cup {Len(rows) + 1}
  BY <1>1, RecordRows
<1>5. /\ MaxRowID \in Nat /\ NewRowID = MaxRowID + 1
      /\ \A i \in 1 .. Len(rows) : rows[i].id \in Nat /\ rows[i].id <= MaxRowID
  BY RowIDs DEF TypeOK, NewRowID, Rows
<1>6. checkpoint.cursor \in Nat /\ Len(rows) \in Nat /\ checkpoint.payload \in Seq(Entries)
  BY DEF TypeOK, DiskTypeOK
<1>7. report \notin Elements(live) /\ report \notin Elements(checkpoint.payload)
  <2>1. Elements(commit.entries) = {report}
    BY <1>1, CommitElements
  <2> QED
    BY <1>1, <1>2, <2>1 DEF DurableInv, CommitIsNew, PayloadInMemory, InMemory, Pending
<1>8. CASE commit.covers
  <2>1. checkpoint'.payload = Candidate /\ checkpoint'.cursor = NewRowID
    BY <1>1, <1>8 DEF Record
  <2>2. \A i \in 1 .. Len(rows') : rows'[i].id <= checkpoint'.cursor
    BY <1>4, <1>5, <2>1
  <2> QED
    BY <1>3, <2>1, <2>2, CoverKeepsLog
<1>9. ASSUME ~commit.covers, NewRowID <= checkpoint.cursor
      PROVE  LogOnDisk'
  <2>1. checkpoint' = checkpoint /\ misfiled' = misfiled \cup {report}
    <3>1. Elements(commit.entries) = {report}
      BY <1>1, CommitElements
    <3> QED
      BY <1>1, <1>9, <3>1 DEF Record
  <2>2. PICK k \in 0 .. Len(rows) :
            SplitAtCursor(k) /\ Without(Committed, misfiled) = Without(Recoverable(k), misfiled)
    BY <1>2 DEF LogOnDisk
  <2>3. k = Len(rows)
    <3>1. Len(rows) \in 0 .. Len(rows) /\ SplitAtCursor(Len(rows))
      BY <1>5, <1>6, <1>9 DEF SplitAtCursor
    <3> QED
      BY <2>2, <3>1, SplitUnique
  <2>4. Without(live, misfiled) = Without(checkpoint.payload, misfiled)
    <3>1. Recoverable(Len(rows)) = checkpoint.payload
      BY <1>6, NothingAfterAll DEF Recoverable, ReportsAfter
    <3> QED
      BY <1>3, <2>2, <2>3, <3>1
  <2>5. Without(Committed', misfiled') = Without(live, misfiled)
    <3>1. Without(Candidate, misfiled') = Without(live, misfiled')
      <4>1. report \in misfiled'
        BY <2>1
      <4> HIDE DEF report
      <4> QED
        BY <1>2, <4>1, WithoutAppend
    <3>2. Without(live, misfiled \cup {report}) = Without(live, misfiled)
      <4>1. live \in Seq(Entries) /\ {report} \cap Elements(live) = {}
        BY <1>2, <1>7
      <4> HIDE DEF report
      <4> QED
        BY <4>1, WithoutAgrees
    <3> QED
      BY <1>3, <2>1, <3>1, <3>2
  <2>6. Without(checkpoint'.payload, misfiled') = Without(checkpoint.payload, misfiled)
    <3>1. Without(checkpoint.payload, misfiled \cup {report}) = Without(checkpoint.payload, misfiled)
      <4> DEFINE p == checkpoint.payload
      <4>1. p \in Seq(Entries) /\ {report} \cap Elements(p) = {}
        BY <1>6, <1>7
      <4> HIDE DEF p, report
      <4>2. Without(p, misfiled \cup {report}) = Without(p, misfiled)
        BY <4>1, WithoutAgrees
      <4> QED
        BY <4>2 DEF p
    <3> QED
      BY <2>1, <3>1
  <2>7. Len(rows') \in 0 .. Len(rows') /\ SplitAtCursor(Len(rows))'
    <3>1. \A i \in 1 .. Len(rows') : rows'[i].id <= checkpoint'.cursor
      BY <1>4, <1>5, <1>6, <1>9, <2>1
    <3>2. Len(rows') \in 0 .. Len(rows') /\ Len(rows') + 1 .. Len(rows') = {}
      BY <1>4, <1>6
    <3> QED
      BY <3>1, <3>2 DEF SplitAtCursor
  <2>8. Recoverable(Len(rows))' = checkpoint'.payload
    <3>1. checkpoint'.payload \in Seq(Entries) /\ Len(rows') \in Nat
      BY <1>4, <1>6, <2>1
    <3> QED
      BY <3>1, NothingAfterAll DEF Recoverable, ReportsAfter
  <2> QED
    BY <2>4, <2>5, <2>6, <2>7, <2>8 DEF LogOnDisk
<1>10. ASSUME ~commit.covers, ~(NewRowID <= checkpoint.cursor)
       PROVE  LogOnDisk'
  <2>1. checkpoint' = checkpoint /\ misfiled' = misfiled
    BY <1>1, <1>10 DEF Record
  <2>2. PICK k \in 0 .. Len(rows) :
            SplitAtCursor(k) /\ Without(Committed, misfiled) = Without(Recoverable(k), misfiled)
    BY <1>2 DEF LogOnDisk
  <2>3. k \in 0 .. Len(rows') /\ SplitAtCursor(k)'
    <3>1. \A i \in 1 .. k : rows'[i].id <= checkpoint'.cursor
      <4>1. 1 .. k \subseteq 1 .. Len(rows)
        BY <1>6
      <4> QED
        BY <1>4, <2>1, <2>2, <4>1 DEF SplitAtCursor
    <3>2. \A i \in k + 1 .. Len(rows') : rows'[i].id > checkpoint'.cursor
      <4>1. k + 1 .. Len(rows') \subseteq (k + 1 .. Len(rows)) \cup {Len(rows) + 1}
        BY <1>4, <1>6
      <4>2. k + 1 .. Len(rows) \subseteq 1 .. Len(rows)
        BY <1>6
      <4>3. rows'[Len(rows) + 1].id > checkpoint'.cursor
        BY <1>4, <1>5, <1>6, <1>10, <2>1
      <4> QED
        BY <1>4, <2>1, <2>2, <4>1, <4>2, <4>3 DEF SplitAtCursor
    <3>3. k \in 0 .. Len(rows')
      BY <1>4, <1>6
    <3> QED
      BY <3>1, <3>2, <3>3 DEF SplitAtCursor
  <2>4. /\ Recoverable(k) \in Seq(Entries)
        /\ Recoverable(k)' = Append(Recoverable(k), report)
    BY <1>2, <1>4, <1>6, <2>1, StoredAppends
  <2>5. Without(Committed', misfiled') = Without(Recoverable(k)', misfiled')
    <3> DEFINE r == Recoverable(k)
    <3>1. /\ live \in Seq(Entries) /\ report \in Entries /\ r \in Seq(Entries)
          /\ Without(live, misfiled) = Without(r, misfiled)
      BY <1>2, <1>3, <2>2, <2>4
    <3>2. Without(Append(live, report), misfiled) = Without(Append(r, report), misfiled)
      <4> HIDE DEF report, r
      <4>1. Without(Append(live, report), misfiled) =
                IF report \in misfiled THEN Without(live, misfiled)
                ELSE Append(Without(live, misfiled), report)
        BY <3>1, WithoutAppend
      <4>2. Without(Append(r, report), misfiled) =
                IF report \in misfiled THEN Without(r, misfiled)
                ELSE Append(Without(r, misfiled), report)
        BY <3>1, WithoutAppend
      <4> QED
        BY <3>1, <4>1, <4>2
    <3> QED
      BY <1>2, <1>3, <2>1, <2>4, <3>2
  <2> QED
    BY <2>3, <2>5 DEF LogOnDisk
<1> QED
  BY <1>8, <1>9, <1>10

(* Maintenance deletes what the payload represents. *)
LEMMA MaintainKeepsLog ==
  ASSUME TypeOK, LogOnDisk, Maintain
  PROVE  LogOnDisk'
<1>1. PICK k \in 0 .. Len(rows) : SplitAtCursor(k) /\ rows' = SubSeq(rows, k + 1, Len(rows))
  BY DEF Maintain
<1>2. rows \in Seq(Rows) /\ Len(rows) \in Nat /\ k \in Nat /\ k <= Len(rows)
  BY DEF TypeOK, DiskTypeOK
<1>3. /\ Len(rows') = Len(rows) - k
      /\ \A i \in 1 .. Len(rows) - k : rows'[i] = rows[i + k]
  BY <1>1, <1>2, SubSeqProperties
<1>4. /\ checkpoint' = checkpoint /\ misfiled' = misfiled /\ up' = up
      /\ Committed' = Committed
  BY DEF Maintain, memoryVars, Committed, Candidate
<1>5. PICK l \in 0 .. Len(rows) :
          SplitAtCursor(l) /\ (up => Without(Committed, misfiled) = Without(Recoverable(l), misfiled))
  BY DEF LogOnDisk
<1>6. l = k
  BY <1>1, <1>5, SplitUnique
<1>7. 0 \in 0 .. Len(rows') /\ SplitAtCursor(0)'
  <2>1. 0 \in 0 .. Len(rows')
    BY <1>2, <1>3
  <2>2. ASSUME NEW i \in 0 + 1 .. Len(rows')
        PROVE  rows'[i].id > checkpoint'.cursor
    <3>1. i \in 1 .. Len(rows) - k /\ i + k \in k + 1 .. Len(rows)
      BY <1>2, <1>3
    <3> QED
      BY <1>1, <1>3, <1>4, <3>1 DEF SplitAtCursor
  <2>3. 1 .. 0 = {}
    OBVIOUS
  <2> QED
    BY <2>1, <2>2, <2>3 DEF SplitAtCursor
<1>8. Recoverable(0)' = Recoverable(k)
  <2>1. [i \in 1 .. Len(rows') - 0 |-> rows'[i + 0].report] = ReportsAfter(k)
    <3>1. Len(rows') - 0 = Len(rows) - k
      BY <1>2, <1>3
    <3>2. \A i \in 1 .. Len(rows) - k : rows'[i + 0].report = rows[i + k].report
      BY <1>2, <1>3
    <3> QED
      BY <3>1, <3>2 DEF ReportsAfter
  <2> QED
    BY <1>4, <2>1 DEF Recoverable, ReportsAfter
<1>9. up' => Without(Committed', misfiled') = Without(Recoverable(0)', misfiled')
  BY <1>4, <1>5, <1>6, <1>8
<1> QED
  BY <1>7, <1>9 DEF LogOnDisk

(* A restart takes up the log where the disk ends it. *)
LEMMA RestartKeepsLog ==
  ASSUME TypeOK, TypeOK', Restart
  PROVE  LogOnDisk'
<1>1. PICK k \in 0 .. Len(rows), latest \in Times \cup {NoTime} :
          /\ SplitAtCursor(k)
          /\ live' = checkpoint.payload \o ReportsAfter(k)
          /\ IF k < Len(rows)
             THEN checkpoint' = [payload |-> live', cursor |-> RestoredCursor, at |-> latest]
             ELSE UNCHANGED checkpoint
  BY DEF Restart
<1>2. rows' = rows /\ commit' = NoCommit
  BY DEF Restart, TypeOK, MemoryTypeOK
<1>3. Committed' = live'
  BY <1>2 DEF Committed, NoCommit
<1>4. CASE k < Len(rows)
  <2>1. checkpoint'.payload = live' /\ checkpoint'.cursor = MaxRowID
    BY <1>1, <1>4 DEF RestoredCursor
  <2>2. \A i \in 1 .. Len(rows') : rows'[i].id <= checkpoint'.cursor
    BY <1>2, <2>1, RowIDs DEF TypeOK
  <2> QED
    BY <1>3, <2>1, <2>2, CoverKeepsLog
<1>5. CASE ~(k < Len(rows))
  <2>1. checkpoint' = checkpoint
    BY <1>1, <1>5
  <2>2. SplitAtCursor(k)' /\ Recoverable(k)' = Recoverable(k)
    BY <1>1, <1>2, <2>1 DEF SplitAtCursor, Recoverable, ReportsAfter
  <2>3. Committed' = Recoverable(k)'
    BY <1>1, <1>3, <2>2 DEF Recoverable
  <2> QED
    BY <1>2, <2>2, <2>3 DEF LogOnDisk
<1> QED
  BY <1>4, <1>5

(* Which steps leave what is committed alone. *)
LEMMA CommittedStays ==
  ASSUME TypeOK,
         \/ \E report \in Reports : BeginSubmit(report) \/ AnswerApplied(report)
         \/ \E change \in Changes : BeginChange(change)
         \/ IgnoreStored
         \/ StoreFails
         \/ Publish
         \/ Tick
         \/ UNCHANGED vars
  PROVE  /\ rows' = rows /\ checkpoint' = checkpoint /\ misfiled' = misfiled
         /\ up' = up /\ Committed' = Committed
<1>1. ASSUME NEW report \in Reports, BeginSubmit(report)
      PROVE  /\ rows' = rows /\ checkpoint' = checkpoint /\ misfiled' = misfiled
             /\ up' = up /\ Committed' = Committed
  <2>1. commit = NoCommit /\ commit'.stage = "report" /\ live' = live
    BY <1>1 DEF BeginSubmit
  <2> QED
    BY <1>1, <2>1 DEF BeginSubmit, diskVars, Committed, NoCommit
<1>2. ASSUME NEW report \in Reports, AnswerApplied(report)
      PROVE  /\ rows' = rows /\ checkpoint' = checkpoint /\ misfiled' = misfiled
             /\ up' = up /\ Committed' = Committed
  BY <1>2 DEF AnswerApplied, diskVars, memoryVars, Committed, Candidate
<1>3. ASSUME NEW change \in Changes, BeginChange(change)
      PROVE  /\ rows' = rows /\ checkpoint' = checkpoint /\ misfiled' = misfiled
             /\ up' = up /\ Committed' = Committed
  <2>1. commit = NoCommit /\ commit'.stage = "change" /\ live' = live
    BY <1>3 DEF BeginChange
  <2> QED
    BY <1>3, <2>1 DEF BeginChange, diskVars, Committed, NoCommit
<1>4. CASE IgnoreStored \/ StoreFails
  BY <1>4 DEF IgnoreStored, StoreFails, diskVars, Committed, NoCommit
<1>5. CASE Publish
  BY <1>5 DEF Publish, diskVars, Committed, NoCommit
<1>6. CASE Tick \/ UNCHANGED vars
  BY <1>6 DEF Tick, vars, diskVars, memoryVars, Committed, Candidate
<1> QED
  BY <1>1, <1>2, <1>3, <1>4, <1>5, <1>6

(* A directory change puts the whole state on disk. *)
LEMMA StoreChangeKeepsLog ==
  ASSUME TypeOK, TypeOK', StoreChange
  PROVE  LogOnDisk'
<1>1. /\ rows' = rows /\ checkpoint'.payload = Candidate /\ checkpoint'.cursor = MaxRowID
      /\ Committed' = Candidate
  BY DEF StoreChange, TypeOK, CommitTypeOK, Committed, Candidate
<1>2. \A i \in 1 .. Len(rows') : rows'[i].id <= checkpoint'.cursor
  BY <1>1, RowIDs DEF TypeOK
<1> QED
  BY <1>1, <1>2, CoverKeepsLog

(* Every step keeps the log on disk. *)
LEMMA NextKeepsLog ==
  ASSUME TypeOK, TypeOK', DurableInv, LogOnDisk, [Next]_vars
  PROVE  LogOnDisk'
<1>1. CASE StoreReport
  BY <1>1, StoreReportKeepsLog
<1>2. CASE StoreChange
  BY <1>2, StoreChangeKeepsLog
<1>3. CASE Maintain
  BY <1>3, MaintainKeepsLog
<1>4. CASE Restart
  BY <1>4, RestartKeepsLog
<1>5. CASE Crash
  <2>1. rows' = rows /\ checkpoint' = checkpoint /\ misfiled' = misfiled /\ ~up'
    BY <1>5 DEF Crash, diskVars
  <2> QED
    BY <2>1, SameKeepsLog
<1>6. CASE \/ \E report \in Reports : BeginSubmit(report) \/ AnswerApplied(report)
           \/ \E change \in Changes : BeginChange(change)
           \/ IgnoreStored
           \/ StoreFails
           \/ Publish
           \/ Tick
           \/ UNCHANGED vars
  <2>1. /\ rows' = rows /\ checkpoint' = checkpoint /\ misfiled' = misfiled
        /\ up' = up /\ Committed' = Committed
    BY <1>6, CommittedStays
  <2> QED
    BY <2>1, SameKeepsLog
<1> QED
  BY <1>1, <1>2, <1>3, <1>4, <1>5, <1>6 DEF Next

(* What the disk and the memory hold is the same log in every reachable state. *)
LEMMA AlwaysLogOnDisk == Spec => []LogOnDisk
<1>1. Init => LogOnDisk
  <2> SUFFICES ASSUME Init PROVE LogOnDisk
    OBVIOUS
  <2>1. /\ Len(rows) = 0 /\ 0 \in 0 .. Len(rows) /\ Committed = <<>>
        /\ checkpoint.payload = <<>>
    BY DEF Init, Committed, NoCommit, NoCheckpoint
  <2>2. SplitAtCursor(0)
    BY <2>1 DEF SplitAtCursor
  <2>3. Recoverable(0) = checkpoint.payload
    <3>1. <<>> \in Seq(Entries)
      BY EmptySeq
    <3>2. ReportsAfter(0) = [i \in 1 .. 0 - 0 |-> rows[i + 0].report]
      BY <2>1 DEF ReportsAfter
    <3>3. checkpoint.payload \o [i \in 1 .. 0 - 0 |-> rows[i + 0].report] = checkpoint.payload
      BY <2>1, <3>1, NothingAfterAll
    <3> QED
      BY <3>2, <3>3 DEF Recoverable
  <2> QED
    BY <2>1, <2>2, <2>3 DEF LogOnDisk
<1>2. TypeOK /\ TypeOK' /\ DurableInv /\ LogOnDisk /\ [Next]_vars => LogOnDisk'
  BY NextKeepsLog
<1> QED
  BY <1>1, <1>2, TypeCorrect, AlwaysDurable, PTL DEF Spec

(* The log that the abstract specification sees is what a running process has  *)
(* committed, and what the next start will find.                               *)
LogIs ==
    /\ up => Log = Without(Committed, misfiled)
    /\ \A k \in 0 .. Len(rows) :
           SplitAtCursor(k) => Log = Without(Recoverable(k), misfiled)

LEMMA LogValue == TypeOK /\ LogOnDisk => LogIs
<1> SUFFICES ASSUME TypeOK, LogOnDisk PROVE LogIs
  OBVIOUS
<1>1. ASSUME NEW k \in 0 .. Len(rows), SplitAtCursor(k)
      PROVE  Log = Without(Recoverable(k), misfiled)
  <2>1. CASE up
    <3>1. PICK l \in 0 .. Len(rows) :
              SplitAtCursor(l) /\ Without(Committed, misfiled) = Without(Recoverable(l), misfiled)
      BY <2>1 DEF LogOnDisk
    <3>2. l = k
      BY <1>1, <3>1, SplitUnique
    <3> QED
      BY <2>1, <3>1, <3>2 DEF Log
  <2>2. CASE ~up
    <3> DEFINE l == CHOOSE l \in 0 .. Len(rows) : SplitAtCursor(l)
    <3>1. l \in 0 .. Len(rows) /\ SplitAtCursor(l)
      BY <1>1
    <3>2. l = k
      <4> HIDE DEF l
      <4> QED
        BY <1>1, <3>1, SplitUnique
    <3>3. Log = Without(Recoverable(l), misfiled)
      BY <2>2 DEF Log
    <3> HIDE DEF l
    <3> QED
      BY <3>2, <3>3
  <2> QED
    BY <2>1, <2>2
<1> QED
  BY <1>1 DEF LogIs, Log

(* The same of the state after a step. *)
LEMMA NextLogValue == TypeOK' /\ LogOnDisk' => LogIs'
  BY LogValue, PTL

(* A step that leaves the tables and the reports that are misfiled alone       *)
(* leaves the log alone, whether the process stops, starts or goes on.         *)
LEMMA LogStays ==
  ASSUME TypeOK, LogOnDisk, TypeOK', LogOnDisk',
         rows' = rows, checkpoint' = checkpoint, misfiled' = misfiled
  PROVE  Log' = Log
<1>1. PICK k \in 0 .. Len(rows) : SplitAtCursor(k)
  BY DEF LogOnDisk
<1>2. SplitAtCursor(k)' /\ Recoverable(k)' = Recoverable(k)
  BY <1>1 DEF SplitAtCursor, Recoverable, ReportsAfter
<1>3. Log = Without(Recoverable(k), misfiled)
  BY <1>1, LogValue DEF LogIs
<1>4. Log' = Without(Recoverable(k)', misfiled')
  BY <1>2, NextLogValue DEF LogIs
<1> QED
  BY <1>2, <1>3, <1>4

(* The abstract log holds what is committed and not misfiled. *)
LEMMA LogHolds ==
  ASSUME TypeOK, LogOnDisk, up, NEW entry
  PROVE  DL!Holds(entry) <=> entry \in Elements(Committed) \ misfiled
<1> DEFINE s == Committed
           w == Without(s, misfiled)
<1>1. s \in Seq(Entries)
  <2>1. live \in Seq(Entries)
    BY DEF TypeOK, MemoryTypeOK
  <2>2. commit.stage = "stored" => Candidate \in Seq(Entries)
    BY DEF TypeOK, MemoryTypeOK, CommitTypeOK, Candidate
  <2> QED
    BY <2>1, <2>2 DEF Committed
<1>2. Log = w
  BY LogValue DEF LogIs
<1>3. Elements(w) = Elements(s) \ misfiled
  <2> HIDE DEF s
  <2> QED
    BY <1>1, WithoutValues
<1> HIDE DEF s, w
<1>4. DL!Holds(entry) <=> entry \in Elements(w)
  BY <1>2 DEF DL!Holds, Elements
<1> QED
  BY <1>3, <1>4 DEF s

(* Storing a report commits it, unless it is misfiled: then the log stands     *)
(* still.                                                                      *)
LEMMA StoreReportImplements ==
  ASSUME TypeOK, DurableInv, LogOnDisk, TypeOK', LogOnDisk', StoreReport
  PROVE  \/ \E entry \in Reports \cup Changes : DL!Commit(entry)
         \/ Log' = Log /\ (acknowledged \ misfiled)' = acknowledged \ misfiled
<1> DEFINE report == commit.entries[1]
<1>1. commit.stage = "report" /\ Record(Candidate)
  BY DEF StoreReport
<1>2. /\ up /\ live \in Seq(Entries) /\ report \in Entries /\ report \in Reports
      /\ Candidate = Append(live, report)
      /\ Elements(commit.entries) = {report}
  BY <1>1, CandidateAppends, CommitElements DEF TypeOK, CommitTypeOK
<1>3. Committed = live /\ Committed' = Candidate /\ up' /\ acknowledged' = acknowledged
  BY <1>1, <1>2 DEF Record, TypeOK, CommitTypeOK, Committed, Candidate
<1>4. report \notin Elements(live) /\ report \notin acknowledged \ misfiled
  BY <1>1, <1>2 DEF DurableInv, CommitIsNew, AcknowledgedKept
<1>5. Log = Without(live, misfiled) /\ Log' = Without(Append(live, report), misfiled')
  BY <1>2, <1>3, LogValue, NextLogValue DEF LogIs
<1>6. misfiled' = misfiled \/ misfiled' = misfiled \cup {report}
  BY <1>1, <1>2 DEF Record
<1>7. CASE report \in misfiled'
  <2>1. (acknowledged \ misfiled)' = acknowledged \ misfiled
    BY <1>3, <1>4, <1>6
  <2>2. Without(Append(live, report), misfiled') = Without(live, misfiled')
    <3> HIDE DEF report
    <3> QED
      BY <1>2, <1>7, WithoutAppend
  <2>3. Without(live, misfiled \cup {report}) = Without(live, misfiled)
    <3>1. live \in Seq(Entries) /\ {report} \cap Elements(live) = {}
      BY <1>2, <1>4
    <3> HIDE DEF report
    <3> QED
      BY <3>1, WithoutAgrees
  <2> QED
    BY <1>5, <1>6, <2>1, <2>2, <2>3
<1>8. CASE report \notin misfiled'
  <2>1. misfiled' = misfiled
    BY <1>6, <1>8
  <2>2. Without(Append(live, report), misfiled) = Append(Without(live, misfiled), report)
    <3> HIDE DEF report
    <3> QED
      BY <1>2, <1>8, <2>1, WithoutAppend
  <2>3. ~DL!Holds(report)
    BY <1>2, <1>3, <1>4, LogHolds
  <2>4. DL!Commit(report)
    BY <1>3, <1>5, <2>1, <2>2, <2>3 DEF DL!Commit
  <2> QED
    BY <1>2, <2>4
<1> QED
  BY <1>7, <1>8

(* Storing a directory change commits it. *)
LEMMA StoreChangeImplements ==
  ASSUME TypeOK, DurableInv, LogOnDisk, TypeOK', LogOnDisk', StoreChange
  PROVE  \/ \E entry \in Reports \cup Changes : DL!Commit(entry)
         \/ Log' = Log /\ (acknowledged \ misfiled)' = acknowledged \ misfiled
<1> DEFINE change == commit.entries[1]
<1>1. /\ commit.stage = "change" /\ misfiled' = misfiled /\ acknowledged' = acknowledged
      /\ up' = up /\ Committed = live /\ Committed' = Candidate
  BY DEF StoreChange, TypeOK, CommitTypeOK, Committed, Candidate
<1>2. /\ up /\ live \in Seq(Entries) /\ change \in Entries
      /\ Candidate = Append(live, change)
      /\ Elements(commit.entries) = {change}
  BY <1>1, CandidateAppends, CommitElements
<1>3. Log = Without(live, misfiled) /\ Log' = Without(Append(live, change), misfiled)
  BY <1>1, <1>2, LogValue, NextLogValue DEF LogIs
<1>4. Without(Append(live, change), misfiled) =
          IF change \in misfiled THEN Without(live, misfiled)
          ELSE Append(Without(live, misfiled), change)
  <2> HIDE DEF change
  <2> QED
    BY <1>2, WithoutAppend
<1>5. CASE change \in misfiled
  BY <1>1, <1>3, <1>4, <1>5
<1>6. CASE change \notin misfiled
  <2>1. change \notin Elements(live)
    BY <1>1, <1>2 DEF DurableInv, CommitIsNew
  <2>2. ~DL!Holds(change)
    BY <1>1, <1>2, <2>1, LogHolds
  <2>3. Log' = Append(Log, change)
    BY <1>3, <1>4, <1>6
  <2>4. DL!Commit(change)
    BY <1>1, <2>2, <2>3 DEF DL!Commit
  <2> QED
    BY <1>2, <2>4 DEF Entries
<1> QED
  BY <1>5, <1>6

(* A receipt acknowledges a report that the log holds, or one that is          *)
(* misfiled, which the abstract specification does not see.                    *)
LEMMA ReceiptImplements ==
  ASSUME TypeOK, LogOnDisk, up, NEW report \in Reports, Log' = Log, misfiled' = misfiled,
         report \in Elements(Committed) \/ report \in misfiled,
         acknowledged' = acknowledged \cup {report}
  PROVE  \/ DL!Acknowledge(report)
         \/ Log' = Log /\ (acknowledged \ misfiled)' = acknowledged \ misfiled
<1>1. CASE report \in misfiled
  BY <1>1
<1>2. CASE report \notin misfiled
  <2>1. DL!Holds(report)
    BY <1>2, LogHolds
  <2>2. (acknowledged \ misfiled)' = (acknowledged \ misfiled) \cup {report}
    BY <1>2
  <2> QED
    BY <2>1, <2>2 DEF DL!Acknowledge
<1> QED
  BY <1>1, <1>2

(* Every step is a commit or a receipt of the abstract log, or none of its     *)
(* business.                                                                   *)
LEMMA NextImplements ==
  ASSUME TypeOK, DurableInv, LogOnDisk, TypeOK', LogOnDisk', [Next]_vars
  PROVE  [DL!Next]_<<Log, acknowledged \ misfiled>>
<1> DEFINE Quiet == Log' = Log /\ (acknowledged \ misfiled)' = acknowledged \ misfiled
<1>1. Quiet => [DL!Next]_<<Log, acknowledged \ misfiled>>
  OBVIOUS
<1>2. ASSUME rows' = rows, checkpoint' = checkpoint, misfiled' = misfiled,
             acknowledged' = acknowledged
      PROVE  Quiet
  BY <1>2, LogStays
<1>3. CASE StoreReport
  BY <1>3, StoreReportImplements DEF DL!Next
<1>4. CASE StoreChange
  BY <1>4, StoreChangeImplements DEF DL!Next
<1>5. CASE Publish
  <2>1. up /\ Elements(commit.entries) = {commit.entries[1]}
    BY <1>5, CommitElements DEF Publish
  <2>2. /\ rows' = rows /\ checkpoint' = checkpoint /\ misfiled' = misfiled
        /\ acknowledged' = acknowledged \cup (Elements(commit.entries) \cap Reports)
    BY <1>5 DEF Publish, diskVars
  <2>3. Log' = Log
    BY <2>2, LogStays
  <2>4. CASE commit.entries[1] \in Reports
    <3>1. acknowledged' = acknowledged \cup {commit.entries[1]}
      BY <2>1, <2>2, <2>4
    <3>2. commit.entries[1] \in Elements(Committed)
      BY <1>5, <2>1, CandidateElements DEF Publish, Committed
    <3> QED
      BY <1>1, <2>1, <2>2, <2>3, <2>4, <3>1, <3>2, ReceiptImplements DEF DL!Next
  <2>5. CASE commit.entries[1] \notin Reports
    BY <1>1, <1>2, <2>1, <2>2, <2>5
  <2> QED
    BY <2>4, <2>5
<1>6. ASSUME NEW report \in Reports, AnswerApplied(report)
      PROVE  [DL!Next]_<<Log, acknowledged \ misfiled>>
  <2>1. /\ rows' = rows /\ checkpoint' = checkpoint /\ misfiled' = misfiled /\ up
        /\ acknowledged' = acknowledged \cup {report}
        /\ report \in Elements(Committed)
    BY <1>6 DEF AnswerApplied, diskVars, Committed, NoCommit
  <2>2. Log' = Log
    BY <2>1, LogStays
  <2> QED
    BY <1>1, <2>1, <2>2, ReceiptImplements DEF DL!Next
<1>7. CASE IgnoreStored
  <2>1. /\ rows' = rows /\ checkpoint' = checkpoint /\ misfiled' = misfiled
        /\ commit.stage = "report" /\ commit.entries[1] \in Stored
        /\ acknowledged' = acknowledged \cup {commit.entries[1]}
    BY <1>7 DEF IgnoreStored, diskVars
  <2>2. /\ up /\ Elements(commit.entries) = {commit.entries[1]} /\ Pending = {}
        /\ commit.entries[1] \in Reports
    BY <2>1, CommitElements DEF Pending, TypeOK, CommitTypeOK
  <2>3. commit.entries[1] \in misfiled
    BY <2>1, <2>2 DEF DurableInv, RowsInMemory, CommitIsNew, InMemory
  <2>4. Log' = Log
    BY <2>1, LogStays
  <2> QED
    BY <1>1, <2>1, <2>2, <2>3, <2>4, ReceiptImplements DEF DL!Next
<1>8. CASE \/ \E report \in Reports : BeginSubmit(report)
           \/ \E change \in Changes : BeginChange(change)
           \/ StoreFails
           \/ Crash
           \/ Tick
           \/ UNCHANGED vars
  <2>1. /\ rows' = rows /\ checkpoint' = checkpoint /\ misfiled' = misfiled
        /\ acknowledged' = acknowledged
    BY <1>8 DEF BeginSubmit, BeginChange, StoreFails, Crash, Tick, vars, diskVars, memoryVars
  <2> QED
    BY <1>1, <1>2, <2>1
<1>9. CASE Maintain
  <2>1. /\ up /\ up' /\ Committed' = Committed
        /\ misfiled' = misfiled /\ acknowledged' = acknowledged
    BY <1>9 DEF Maintain, memoryVars, Committed, Candidate
  <2>2. Log = Without(Committed, misfiled) /\ Log' = Without(Committed', misfiled')
    BY <2>1, LogValue, NextLogValue DEF LogIs
  <2> QED
    BY <1>1, <2>1, <2>2
<1>10. CASE Restart
  <2>1. PICK k \in 0 .. Len(rows) :
            SplitAtCursor(k) /\ live' = checkpoint.payload \o ReportsAfter(k)
    BY <1>10 DEF Restart
  <2>2. /\ up' /\ commit' = NoCommit
        /\ misfiled' = misfiled /\ acknowledged' = acknowledged
    BY <1>10 DEF Restart, TypeOK, MemoryTypeOK
  <2>3. Committed' = Recoverable(k)
    BY <2>1, <2>2 DEF Committed, Recoverable, NoCommit
  <2>4. Log = Without(Recoverable(k), misfiled) /\ Log' = Without(Committed', misfiled')
    BY <2>1, <2>2, LogValue, NextLogValue DEF LogIs
  <2> QED
    BY <1>1, <2>2, <2>3, <2>4
<1> QED
  BY <1>3, <1>4, <1>5, <1>6, <1>7, <1>8, <1>9, <1>10 DEF Next

(* The durable runtime state implements the abstract log: whatever crashes,    *)
(* replays, maintenance and failed transactions come between, the entries      *)
(* committed are appended once each and stay where they are, and a report is   *)
(* acknowledged when the log holds it.                                         *)
THEOREM ImplementsLog == Spec => ImplementsDurableLog
<1>1. Init => DL!Init
  <2> SUFFICES ASSUME Init PROVE DL!Init
    OBVIOUS
  <2>1. up /\ Committed = <<>> /\ acknowledged \ misfiled = {}
    BY DEF Init, Committed, NoCommit
  <2>2. Without(<<>>, misfiled) = <<>>
    <3>1. <<>> \in Seq(Entries)
      BY EmptySeq
    <3>2. Left(<<>>, misfiled) = {}
      BY DEF Left
    <3>3. /\ Len(Without(<<>>, misfiled)) = Cardinality(Left(<<>>, misfiled))
          /\ Without(<<>>, misfiled) \in Seq(Entries)
      BY <3>1, WithoutValues
    <3>4. Cardinality({}) = 0
      BY FS_EmptySet
    <3> DEFINE w == Without(<<>>, misfiled)
    <3>5. w \in Seq(Entries) /\ Len(w) = 0
      BY <3>2, <3>3, <3>4
    <3> HIDE DEF w
    <3>6. w = <<>>
      BY <3>5
    <3> QED
      BY <3>6 DEF w
  <2> QED
    BY <2>1, <2>2 DEF DL!Init, Log
<1>2. TypeOK /\ DurableInv /\ LogOnDisk /\ TypeOK' /\ LogOnDisk' /\ [Next]_vars
          => [DL!Next]_<<Log, acknowledged \ misfiled>>
  BY NextImplements
<1> QED
  BY <1>1, <1>2, TypeCorrect, AlwaysDurable, AlwaysLogOnDisk, PTL
  DEF Spec, ImplementsDurableLog, DL!Spec

=============================================================================
