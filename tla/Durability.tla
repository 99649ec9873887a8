----------------------------- MODULE Durability -----------------------------
(* How the server keeps its runtime state: the copy-apply-store-publish cycle  *)
(* of internal/app/app.go over the tables reports and runtime_state of         *)
(* internal/store/sqlite.go, checkpoints, the minute maintenance that deletes  *)
(* raw reports, a crash between any two steps, and the replay at start-up.     *)
(*                                                                             *)
(* Abstractions.  The runtime state of the aggregator is the sequence of the   *)
(* entries (reports and directory changes) applied to it: ApplyAt is           *)
(* deterministic in that order and the stored receive times.  A report that is *)
(* already applied changes nothing (ReportIngest says when).  Which reports    *)
(* demand a checkpoint of their own (CanonicalStateChanged,                    *)
(* CheckpointRequired) is a free choice.  A SQLite transaction is one step.    *)
(* Traffic tiers and metadata, written in the same transactions, are left to   *)
(* another component.  The zero time.Time is NoTime.                           *)
(*                                                                             *)
(* A definition called Faulty... is the definition that follows it with one    *)
(* plausible bug; the specification uses none of them.                         *)
EXTENDS Integers, Sequences, FiniteSets

CONSTANTS
    Reports,         \* reports, each with its own report id
    Changes,         \* directory snapshots, sync states and clears
    CheckpointEvery, \* App.checkpointEvery, in clock ticks
    MaxTime          \* bound: the server's wall clock

ASSUME EntriesAssumption == Reports \cap Changes = {}
ASSUME DurabilityBoundsAssumption == CheckpointEvery \in Nat \ {0} /\ MaxTime \in Nat

VARIABLES
    rows,            \* table reports in rowid order: id, report, received_at
    checkpoint,      \* the row of runtime_state: payload, cursor, updated_at
    up,              \* the process runs
    live,            \* App.Aggregator: the published runtime state
    commit,          \* the commit that holds App.mu
    lastCheckpoint,  \* App.lastCheckpoint
    now,             \* the wall clock
    acknowledged,    \* history: reports whose sender got an accepting receipt
    misfiled         \* history: reports stored at or below the cursor, uncovered

diskVars   == <<rows, checkpoint>>
memoryVars == <<up, live, commit, lastCheckpoint>>
vars == <<diskVars, memoryVars, now, acknowledged, misfiled>>

Entries == Reports \cup Changes
NoTime  == -1
Times   == 0 .. MaxTime

NoCheckpoint == [payload |-> <<>>, cursor |-> 0, at |-> NoTime]

\* entries is the one-entry sequence being committed, <<>> when App.mu is free;
\* covers says whether the transaction writes a checkpoint too.
NoCommit == [stage |-> "idle", entries |-> <<>>, at |-> 0, covers |-> FALSE]

Elements(s) == {s[i] : i \in 1 .. Len(s)}

Init ==
    /\ rows = <<>>
    /\ checkpoint = NoCheckpoint
    /\ up = TRUE
    /\ live = <<>>
    /\ commit = NoCommit
    /\ lastCheckpoint = NoTime
    /\ now = 0
    /\ acknowledged = {}
    /\ misfiled = {}

-----------------------------------------------------------------------------
(* The tables. *)

\* COALESCE(MAX(rowid), 0)
MaxRowID == IF rows = <<>> THEN 0 ELSE rows[Len(rows)].id

\* reports has no AUTOINCREMENT: SQLite gives a new row the greatest rowid in
\* the table plus one, and 1 when the table is empty.
NewRowID == MaxRowID + 1

\* The first k rows are those up to the checkpoint's cursor.
SplitAtCursor(k) ==
    /\ \A i \in 1 .. k : rows[i].id <= checkpoint.cursor
    /\ \A i \in k + 1 .. Len(rows) : rows[i].id > checkpoint.cursor

ReportsAfter(k) == [i \in 1 .. Len(rows) - k |-> rows[i + k].report]
Stored          == {rows[i].report : i \in 1 .. Len(rows)}

FaultyShouldCheckpoint(at) ==
    \/ lastCheckpoint = NoTime
    \/ at >= lastCheckpoint + CheckpointEvery

ShouldCheckpoint(at) ==
    \/ lastCheckpoint = NoTime
    \/ at < lastCheckpoint
    \/ at >= lastCheckpoint + CheckpointEvery

-----------------------------------------------------------------------------
(* Commits.  App.mu serialises them: clone the aggregator, apply the entry to  *)
(* the clone, store, publish.                                                  *)

Candidate == live \o commit.entries

\* The receive time was read before App.mu was taken, and the wall clock may
\* have been set back since the last checkpoint: any earlier time can occur.
BeginSubmit(report) ==
    /\ up
    /\ commit = NoCommit
    /\ report \notin Elements(live)
    /\ \E at \in 0 .. now, demanded \in BOOLEAN :
           commit' = [stage   |-> "report",
                      entries |-> <<report>>,
                      at      |-> at,
                      covers  |-> demanded \/ ShouldCheckpoint(at)]
    /\ UNCHANGED <<diskVars, up, live, lastCheckpoint, now, acknowledged, misfiled>>

\* The candidate did not change: the receipt accepts a report already applied.
AnswerApplied(report) ==
    /\ up
    /\ commit = NoCommit
    /\ report \in Elements(live)
    /\ acknowledged' = acknowledged \cup {report}
    /\ UNCHANGED <<diskVars, memoryVars, now, misfiled>>

\* The transaction of RecordWithMetadata: the row, and the checkpoint when due.
Record(payload) ==
    /\ rows' = Append(rows, [id |-> NewRowID, report |-> commit.entries[1], at |-> commit.at])
    /\ IF commit.covers
       THEN checkpoint' = [payload |-> payload, cursor |-> NewRowID, at |-> commit.at]
       ELSE UNCHANGED checkpoint
    /\ misfiled' = IF ~commit.covers /\ NewRowID <= checkpoint.cursor
                   THEN misfiled \cup Elements(commit.entries)
                   ELSE misfiled
    /\ commit' = [commit EXCEPT !.stage = "stored"]
    /\ UNCHANGED <<up, live, lastCheckpoint, now, acknowledged>>

FaultyStoreReportOldState == commit.stage = "report" /\ commit.entries[1] \notin Stored /\ Record(live)
FaultyStoreReportTwice    == commit.stage = "report" /\ Record(Candidate)

StoreReport ==
    /\ commit.stage = "report"
    /\ commit.entries[1] \notin Stored
    /\ Record(Candidate)

\* INSERT OR IGNORE found the report id: nothing is stored or published, and
\* the sender still gets the candidate's receipt.
IgnoreStored ==
    /\ commit.stage = "report"
    /\ commit.entries[1] \in Stored
    /\ acknowledged' = acknowledged \cup {commit.entries[1]}
    /\ commit' = NoCommit
    /\ UNCHANGED <<diskVars, up, live, lastCheckpoint, now, misfiled>>

\* A directory change that the aggregator accepts; it always writes a checkpoint.
BeginChange(change) ==
    /\ up
    /\ commit = NoCommit
    /\ change \notin Elements(live)
    /\ \E at \in 0 .. now :
           commit' = [stage |-> "change", entries |-> <<change>>, at |-> at, covers |-> TRUE]
    /\ UNCHANGED <<diskVars, up, live, lastCheckpoint, now, acknowledged, misfiled>>

FaultyStoreChange ==
    /\ commit.stage = "change"
    /\ checkpoint' = [checkpoint EXCEPT !.payload = Candidate, !.at = commit.at]
    /\ commit' = [commit EXCEPT !.stage = "stored"]
    /\ UNCHANGED <<rows, up, live, lastCheckpoint, now, acknowledged, misfiled>>

\* SaveCheckpointWithMetadata: the cursor is the greatest rowid in the table.
StoreChange ==
    /\ commit.stage = "change"
    /\ checkpoint' = [payload |-> Candidate, cursor |-> MaxRowID, at |-> commit.at]
    /\ commit' = [commit EXCEPT !.stage = "stored"]
    /\ UNCHANGED <<rows, up, live, lastCheckpoint, now, acknowledged, misfiled>>

\* The transaction rolls back and the caller gets an error.
StoreFails ==
    /\ commit.stage \in {"report", "change"}
    /\ commit' = NoCommit
    /\ UNCHANGED <<diskVars, up, live, lastCheckpoint, now, acknowledged, misfiled>>

\* ReplaceWith, and the receipt to the sender.
Publish ==
    /\ commit.stage = "stored"
    /\ live' = Candidate
    /\ lastCheckpoint' = IF commit.covers THEN commit.at ELSE lastCheckpoint
    /\ acknowledged' = acknowledged \cup (Elements(commit.entries) \cap Reports)
    /\ commit' = NoCommit
    /\ UNCHANGED <<diskVars, up, now, misfiled>>

-----------------------------------------------------------------------------
(* Maintenance, crash and restart. *)

FaultyMaintain ==
    /\ up
    /\ checkpoint.cursor > 0
    /\ rows' = <<>>
    /\ UNCHANGED <<checkpoint, memoryVars, now, acknowledged, misfiled>>

\* Store.Maintain, which does not take App.mu.  Without a cursor it deletes
\* nothing.
Maintain ==
    /\ up
    /\ checkpoint.cursor > 0
    /\ \E k \in 0 .. Len(rows) :
           /\ SplitAtCursor(k)
           /\ rows' = SubSeq(rows, k + 1, Len(rows))
    /\ UNCHANGED <<checkpoint, memoryVars, now, acknowledged, misfiled>>

\* The process stops, killed or asked to: no path writes a last checkpoint.
Crash ==
    /\ up
    /\ up' = FALSE
    /\ live' = <<>>
    /\ commit' = NoCommit
    /\ lastCheckpoint' = NoTime
    /\ UNCHANGED <<diskVars, now, acknowledged, misfiled>>

\* t is the latest of the checkpoint's time and those of the replayed rows.
Latest(k, t) ==
    LET times == {checkpoint.at} \cup {rows[i].at : i \in k + 1 .. Len(rows)}
    IN  t \in times /\ \A u \in times : u <= t

FaultyRestoredCursor == checkpoint.cursor

\* lastReportRowID once every row is replayed.
RestoredCursor == MaxRowID

\* New: restore the checkpoint, replay the rows after its cursor, and write a
\* checkpoint when a row was replayed.  A crash before that last write leaves
\* the disk as it was.
Restart ==
    /\ ~up
    /\ up' = TRUE
    /\ \E k \in 0 .. Len(rows), latest \in Times \cup {NoTime} :
           /\ SplitAtCursor(k)
           /\ Latest(k, latest)
           /\ live' = checkpoint.payload \o ReportsAfter(k)
           /\ lastCheckpoint' = latest
           /\ IF k < Len(rows)
              THEN checkpoint' = [payload |-> live', cursor |-> RestoredCursor, at |-> latest]
              ELSE UNCHANGED checkpoint
    /\ UNCHANGED <<rows, commit, now, acknowledged, misfiled>>

Tick ==
    /\ now < MaxTime
    /\ now' = now + 1
    /\ UNCHANGED <<diskVars, memoryVars, acknowledged, misfiled>>

Next ==
    \/ \E report \in Reports : BeginSubmit(report) \/ AnswerApplied(report)
    \/ \E change \in Changes : BeginChange(change)
    \/ StoreReport
    \/ IgnoreStored
    \/ StoreChange
    \/ StoreFails
    \/ Publish
    \/ Maintain
    \/ Crash
    \/ Restart
    \/ Tick

Spec == Init /\ [][Next]_vars

-----------------------------------------------------------------------------
(* Properties. *)

Rows == [id : Nat \ {0}, report : Reports, at : Times]

\* The tables: rowids ascend and report ids are unique.
DiskTypeOK ==
    /\ rows \in Seq(Rows)
    /\ \A i, j \in 1 .. Len(rows) :
           i < j => rows[i].id < rows[j].id /\ rows[i].report # rows[j].report
    /\ checkpoint \in [payload : Seq(Entries), cursor : Nat, at : Times \cup {NoTime}]

\* One commit at a time holds exactly one entry.
CommitTypeOK ==
    /\ commit \in [stage : {"idle", "report", "change", "stored"},
                   entries : Seq(Entries), at : Times, covers : BOOLEAN]
    /\ commit.stage = "idle" => commit = NoCommit
    /\ commit.stage # "idle" => Len(commit.entries) = 1
    /\ commit.stage = "report" => commit.entries[1] \in Reports
    /\ commit.stage = "change" => commit.covers

MemoryTypeOK ==
    /\ up \in BOOLEAN
    /\ live \in Seq(Entries)
    /\ lastCheckpoint \in Times \cup {NoTime}
    /\ ~up => live = <<>> /\ commit = NoCommit /\ lastCheckpoint = NoTime
    /\ now \in Times
    /\ acknowledged \subseteq Reports
    /\ misfiled \subseteq Reports

(* The tables and the memory hold what their Go and SQL types allow, report    *)
(* ids are unique and rowids ascend, and a stopped process holds nothing.      *)
TypeOK == DiskTypeOK /\ CommitTypeOK /\ MemoryTypeOK

(* What a restart would rebuild from the disk. *)
Recoverable(k) == checkpoint.payload \o ReportsAfter(k)

(* What has been committed: the published state, and the entry stored but not  *)
(* published yet.                                                              *)
Committed == IF commit.stage = "stored" THEN Candidate ELSE live

(* The entries of s at the given places, in their order: the one at i moves to *)
(* the number of places up to i.                                               *)
Place(places, i) == Cardinality({j \in places : j <= i})
Subsequence(s, places) ==
    [n \in 1 .. Cardinality(places) |-> s[CHOOSE i \in places : Place(places, i) = n]]

\* s without the entries in gone.
Left(s, gone)    == {i \in 1 .. Len(s) : s[i] \notin gone}
Without(s, gone) == Subsequence(s, Left(s, gone))

(* A sender that was told its report is accepted finds it in the runtime state *)
(* ever after, whatever crashes and maintenance came between.                  *)
AcknowledgedSurvives ==
    up => acknowledged \ misfiled \subseteq Elements(live)

(* What the disk and the memory hold between them. *)
Log ==
    IF up THEN Without(Committed, misfiled)
    ELSE Without(Recoverable(CHOOSE k \in 0 .. Len(rows) : SplitAtCursor(k)), misfiled)

DL == INSTANCE DurableLog WITH log <- Log, acknowledged <- acknowledged \ misfiled

(* The disk and the memory together are one append-only log: no crash, replay, *)
(* maintenance or failed transaction takes an entry out of it, moves one or    *)
(* adds one twice, and nothing is acknowledged before it is in the log,        *)
(* reports below the cursor that no checkpoint covers apart (App.New, "storage *)
(* failure cannot publish or advance runtime state" in                         *)
(* docs/plans/completed/21-incremental-checkpoints.md).                        *)
ImplementsDurableLog == DL!Spec

(* A report is applied once: the replay after the cursor never holds a report  *)
(* that the checkpoint's payload already holds.                                *)
NoReplayTwice ==
    \A i \in 1 .. Len(rows) :
        rows[i].id > checkpoint.cursor => rows[i].report \notin Elements(checkpoint.payload)

(* The replay at start-up is short: every row it replays was received within   *)
(* checkpointEvery after the checkpoint, whichever way the clock moved.        *)
ReplayIsShort ==
    \A i \in 1 .. Len(rows) :
        rows[i].id > checkpoint.cursor =>
            /\ checkpoint.at # NoTime
            /\ rows[i].at \in checkpoint.at .. checkpoint.at + CheckpointEvery - 1

(* "Minute maintenance removes only raw reports covered by a committed         *)
(* checkpoint" (docs/architecture.md): the checkpoint's payload represents     *)
(* every row that Maintain deletes.                                            *)
MaintenanceRemovesOnlyCovered ==
    [][\A report \in Stored \ Stored' : report \in Elements(checkpoint.payload)]_vars

=============================================================================
