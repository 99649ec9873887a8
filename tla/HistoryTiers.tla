---------------------------- MODULE HistoryTiers ----------------------------
(* The traffic history of internal/store: raw 10-second buckets, the minute    *)
(* and hour rollups that the minute maintenance builds from them, retention,   *)
(* the map from physical edges to logical ones that follows merges of nodes,   *)
(* and the two readings of it: the edge detail and the History list.           *)
(*                                                                             *)
(* Abstractions.  One tick is one raw bucket.  The lengths of the code (1 min, *)
(* 1 h, 48 h, 7 d) are CONSTANTS that keep their order and divisibility.       *)
(* Nodes are numbers, so that an edge id is the ordered pair domain.EdgeID     *)
(* builds; observer 0 is an observer at neither end.  Redirects are kept       *)
(* compressed, as the aggregator hands them over.  A SQLite transaction is one *)
(* step.                                                                       *)
(*                                                                             *)
(* A definition called Faulty... is the definition that follows it with one    *)
(* plausible bug; the specification uses none of them.                         *)
EXTENDS Integers, FiniteSets, FiniteSetsExt, Functions

CONSTANTS
    Nodes,           \* canonical node ids
    Edges,           \* the edges traffic is first reported for, <<low, high>>
    Merges,          \* <<keep, drop>>: which nodes may turn out to be one
    Samples,         \* the byte counts of one report, [ab, ba]
    Minute, Hour,    \* the intervals of the two rollups
    Grace,           \* minuteRollupGrace
    RawRetention, MinuteRetention, HourRetention,
    Day,             \* a window of minute resolution (6h, 24h)
    ClockSlip,       \* how far behind its latest reading the clock may be set
    NoTime,          \* a maintenance cursor that was never saved
    MaxBytes,        \* bound: the bytes recorded from low to high ends
    MaxTime          \* bound: the clock

ASSUME NodesAssumption ==
    /\ Nodes \subseteq Nat \ {0}
    /\ Edges \subseteq {e \in Nodes \X Nodes : e[1] < e[2]}
    /\ Merges \subseteq Nodes \X Nodes
ASSUME SamplesAssumption == Samples \subseteq [ab : Nat, ba : Nat]
ASSUME TiersAssumption ==
    /\ Minute \in Nat \ {0} /\ Hour \in Nat \ {0} /\ Hour % Minute = 0
    /\ Grace \in Nat /\ ClockSlip \in 0 .. Grace
    /\ RawRetention \in Nat /\ MinuteRetention \in Nat /\ HourRetention \in Nat
    /\ Day \in Nat
    /\ Minute <= RawRetention /\ RawRetention <= Day
    /\ Day <= MinuteRetention /\ MinuteRetention <= HourRetention
    /\ NoTime \notin Int
    /\ MaxBytes \in Nat /\ MaxTime \in Nat

VARIABLES
    raw,        \* traffic_buckets: [edge, start, observer] -> bytes
    minute,     \* traffic_rollup_minute: [edge, start] -> bytes
    hour,       \* traffic_rollup_hour: [edge, start] -> bytes
    cursor,     \* history_maintenance: [minute, hour]
    edges,      \* history_edges: the physical edges
    map,        \* history_edge_map: physical edge -> [edge, reversed]
    redirects,  \* canonical_redirects
    now,        \* the wall clock
    latest,     \* history: the latest reading of the clock
    ledger      \* history: every raw row ever written

tierVars == <<raw, minute, hour, cursor>>
mapVars  == <<edges, map, redirects>>
vars     == <<tierVars, mapVars, now, latest, ledger>>

Times     == 0 .. MaxTime
AllEdges  == {e \in Nodes \X Nodes : e[1] < e[2]}
Observers == Nodes \cup {0}
Bytes     == [ab : Nat, ba : Nat]
RawKeys   == [edge : AllEdges, start : Times, observer : Observers]
TierKeys  == [edge : AllEdges, start : Times]

Init ==
    /\ raw = <<>> /\ minute = <<>> /\ hour = <<>>
    /\ cursor = [minute |-> NoTime, hour |-> NoTime]
    /\ edges = {}
    /\ map = <<>>
    /\ redirects = [n \in Nodes |-> n]
    /\ now = 0 /\ latest = 0
    /\ ledger = <<>>

-----------------------------------------------------------------------------
(* Byte counts and tables. *)

Zero       == [ab |-> 0, ba |-> 0]
Swap(b)    == [ab |-> b.ba, ba |-> b.ab]
Plus(b, c) == [ab |-> b.ab + c.ab, ba |-> b.ba + c.ba]

Larger(m, n)  == IF m > n THEN m ELSE n
Smaller(m, n) == IF m < n THEN m ELSE n

\* The sum and the largest of a function of byte counts, in each direction.
Column(bytes, field) == [x \in DOMAIN bytes |-> bytes[x][field]]
Greatest(counts)     == Max({0} \cup {counts[x] : x \in DOMAIN counts})
SumOf(bytes) == [ab |-> SumFunction(Column(bytes, "ab")), ba |-> SumFunction(Column(bytes, "ba"))]
MaxOf(bytes) == [ab |-> Greatest(Column(bytes, "ab")),    ba |-> Greatest(Column(bytes, "ba"))]

\* INSERT ... ON CONFLICT DO UPDATE
Upsert(table, key, value) == [k \in DOMAIN table \cup {key} |-> IF k = key THEN value ELSE table[k]]

StartsOf(table) == {k.start : k \in DOMAIN table}

Truncate(t, interval) == t - (t % interval)

\* The starts of the intervals in [from, to), from being aligned.
Starts(from, to, interval) == {s \in from .. to - 1 : s % interval = 0}

-----------------------------------------------------------------------------
(* Several observers of one edge. *)

\* COALESCE: what the observer at the sending end counted, else what the one at
\* the receiving end did, else the largest count of the others.
FaultyPreferred(table, e, start, near, far, field) ==
    LET rows == {k \in DOMAIN table : k.edge = e /\ k.start = start}
    IN  SumFunction([k \in rows |-> table[k][field]])

Preferred(table, e, start, near, far, field) ==
    LET rows  == {k \in DOMAIN table : k.edge = e /\ k.start = start}
        By(o) == {k \in rows : k.observer = o}
        Counts(S) == [k \in S |-> table[k][field]]
    IN  IF By(near) # {} THEN SumFunction(Counts(By(near)))
        ELSE IF By(far) # {} THEN SumFunction(Counts(By(far)))
        ELSE Greatest(Counts(rows))

RawBytes(table, e, start) ==
    [ab |-> Preferred(table, e, start, e[1], e[2], "ab"),
     ba |-> Preferred(table, e, start, e[2], e[1], "ba")]

-----------------------------------------------------------------------------
(* Physical and logical edges. *)

FaultyEdgeOf(m, n) == <<m, n>>

EdgeOf(m, n) == <<Smaller(m, n), Larger(m, n)>>

\* An edge whose ends are now one node has no logical edge.
IsLoop(to, e) == to[e[1]] = to[e[2]]

Mapping(to, e) ==
    LET logical == EdgeOf(to[e[1]], to[e[2]])
    IN  [edge |-> logical, reversed |-> to[e[1]] # logical[1]]

FaultyMapped(to, S) ==
    [e \in {x \in S : ~IsLoop(to, x)} |-> [Mapping(to, e) EXCEPT !.reversed = FALSE]]

Mapped(to, S) == [e \in {x \in S : ~IsLoop(to, x)} |-> Mapping(to, e)]

Oriented(e, bytes) == IF map[e].reversed THEN Swap(bytes) ELSE bytes

Aliases(logical) == {e \in DOMAIN map : map[e].edge = logical}
Logical          == {map[e].edge : e \in DOMAIN map}

-----------------------------------------------------------------------------
(* Reports. *)

\* AcceptedTraffic names canonical nodes only; its bucket is the receive time.
Record(e, observer, bytes) ==
    LET key == [edge |-> e, start |-> now, observer |-> observer]
        old == IF key \in DOMAIN raw THEN raw[key] ELSE Zero
    IN  /\ redirects[e[1]] = e[1] /\ redirects[e[2]] = e[2]
        /\ observer \in {e[1], e[2], 0}
        /\ SumFunction(Column(ledger, "ab")) < MaxBytes
        /\ raw' = Upsert(raw, key, Plus(old, bytes))
        /\ ledger' = Upsert(ledger, key, Plus(old, bytes))
        /\ edges' = edges \cup {e}
        /\ map' = Upsert(map, e, Mapping(redirects, e))
        /\ UNCHANGED <<minute, hour, cursor, redirects, now, latest>>

\* History metadata with a new redirect rebuilds the map from every edge.
Merge(keep, drop) ==
    LET to == [n \in Nodes |-> IF redirects[n] = drop THEN keep ELSE redirects[n]]
    IN  /\ keep # drop
        /\ redirects[keep] = keep /\ redirects[drop] = drop
        /\ redirects' = to
        /\ map' = Mapped(to, edges)
        /\ UNCHANGED <<tierVars, edges, now, latest, ledger>>

-----------------------------------------------------------------------------
(* Maintenance. *)

\* Where a rollup starts: its cursor, else the first row's interval, and at end
\* when there is nothing before it.
RollupStart(saved, starts, interval, end) ==
    IF saved # NoTime THEN saved
    ELSE IF starts = {} THEN end
    ELSE Smaller(end, Truncate(Min(starts), interval))

FaultyMinuteEnd(time) == Truncate(time, Minute)

MinuteEnd(time) == Truncate(time - Grace, Minute)

MinuteCursor(time) ==
    Larger(MinuteEnd(time),
           RollupStart(cursor.minute, StartsOf(raw), Minute, MinuteEnd(time)))

\* One row per physical edge and minute with traffic.
RolledMinutes(from, to) ==
    LET Buckets(k) == k.start .. k.start + Minute - 1
        rolled == {k \in [edge : {r.edge : r \in DOMAIN raw}, start : Starts(from, to, Minute)] :
                       \E r \in DOMAIN raw : r.edge = k.edge /\ r.start \in Buckets(k)}
    IN  [k \in rolled |-> SumOf([s \in Buckets(k) |-> RawBytes(raw, k.edge, s)])]

\* The minutes of a logical edge: the largest of its aliases'.
MinuteBytes(table, logical, start) ==
    LET rows == {k \in DOMAIN table : k.edge \in Aliases(logical) /\ k.start = start}
    IN  MaxOf([k \in rows |-> Oriented(k.edge, table[k])])

RolledHours(table, from, to) ==
    LET Minutes(k) == Starts(k.start, k.start + Hour, Minute)
        rolled == {k \in [edge : Logical, start : Starts(from, to, Hour)] :
                       \E m \in DOMAIN table :
                           m.edge \in Aliases(k.edge) /\ m.start \in Minutes(k)}
    IN  [k \in rolled |-> SumOf([s \in Minutes(k) |-> MinuteBytes(table, k.edge, s)])]

FaultyHourEnd(time, covered) == Truncate(time, Hour)

HourEnd(time, covered) == Smaller(Truncate(time, Hour), Truncate(covered, Hour))

Override(f, g) == [k \in DOMAIN f \cup DOMAIN g |-> IF k \in DOMAIN f THEN f[k] ELSE g[k]]

Since(table, cutoff) == Restrict(table, {k \in DOMAIN table : k.start >= cutoff})

\* persistLogicalHourEdge: a logical edge with hour rows is an edge of its own.
FaultyWithHourEdges(table, hours) == table

WithHourEdges(table, hours) ==
    LET logical == {k.edge : k \in DOMAIN hours}
    IN  [e \in DOMAIN table \cup logical |->
            IF e \in logical THEN [edge |-> e, reversed |-> FALSE] ELSE table[e]]

RawCutoff(time, covered)    == Smaller(time - RawRetention, covered)

MinuteCutoff(time, covered) == Smaller(time - MinuteRetention, covered)

\* The intervals are independent of each other: what one writes, the next one
\* does not read.  The reports deleted in the same transaction are Durability's.
Maintain ==
    LET minuteTo   == MinuteCursor(now)
        minuteFrom == RollupStart(cursor.minute, StartsOf(raw), Minute, MinuteEnd(now))
        minutes    == Override(RolledMinutes(minuteFrom, MinuteEnd(now)), minute)
        hourEnd    == HourEnd(now, minuteTo)
        hourFrom   == RollupStart(cursor.hour, StartsOf(minutes), Hour, hourEnd)
        hourTo     == Larger(hourEnd, hourFrom)
        rolled     == RolledHours(minutes, hourFrom, hourEnd)
    IN  /\ cursor' = [minute |-> minuteTo, hour |-> hourTo]
        /\ raw' = Since(raw, RawCutoff(now, minuteTo))
        /\ minute' = Since(minutes, MinuteCutoff(now, hourTo))
        /\ hour' = Since(Override(rolled, hour), now - HourRetention)
        /\ edges' = edges \cup {k.edge : k \in DOMAIN rolled}
        /\ map' = WithHourEdges(map, rolled)
        /\ UNCHANGED <<redirects, now, latest, ledger>>

\* External: the wall clock, which may be set back a little.
Tick(t) ==
    /\ t # now
    /\ t >= latest - ClockSlip /\ t <= latest + 1
    /\ now' = t
    /\ latest' = Larger(latest, t)
    /\ UNCHANGED <<tierVars, mapVars, ledger>>

Next ==
    \/ \E e \in Edges \cup Logical, o \in Observers, b \in Samples : Record(e, o, b)
    \/ \E m \in Merges : Merge(m[1], m[2])
    \/ Maintain
    \/ \E t \in Times : Tick(t)

Spec == Init /\ [][Next]_vars

-----------------------------------------------------------------------------
(* Queries.  A window is its length; to is the clock. *)

Windows == {Minute, RawRetention, Day, HourRetention}

\* maintenanceCoverage
Coverage(saved, lower, upper) ==
    IF saved = NoTime THEN lower
    ELSE IF saved < lower THEN lower
    ELSE IF saved > upper THEN upper
    ELSE saved

Segments(from, hourTo, minuteTo, to) ==
    {s \in {[tier |-> "hour",   from |-> from,     to |-> hourTo],
            [tier |-> "minute", from |-> hourTo,   to |-> minuteTo],
            [tier |-> "raw",    from |-> minuteTo, to |-> to]} : s.from < s.to}

\* detailTrafficSegments: each tier takes over at its nominal age, or where the
\* tier that consumes it has got to.
DetailSegments(window, to) ==
    LET from   == to - window
        hourTo == IF window = HourRetention
                  THEN Coverage(cursor.hour, from, Larger(from, to - MinuteRetention))
                  ELSE from
        minuteTo == IF window <= RawRetention THEN from
                    ELSE Coverage(cursor.minute, hourTo, Larger(from, to - RawRetention))
    IN  Segments(from, hourTo, minuteTo, to)

\* summaryTrafficSegments: the coarsest tier that covers a time answers for it.
SummarySegments(window, to) ==
    LET from     == to - window
        hourTo   == Coverage(cursor.hour, from, to)
        minuteTo == Coverage(cursor.minute, hourTo, to)
    IN  Segments(from, hourTo, minuteTo, to)

HeldStarts == StartsOf(raw) \cup StartsOf(minute) \cup StartsOf(hour)

\* What a tier holds for a physical edge at a start.
TierBytes(tier, e, start) ==
    LET key == [edge |-> e, start |-> start]
        In(table) == IF key \in DOMAIN table THEN table[key] ELSE Zero
    IN  CASE tier = "raw"    -> RawBytes(raw, e, start)
          [] tier = "minute" -> In(minute)
          [] tier = "hour"   -> In(hour)

\* The rows of one start are taken to tell of the same traffic, whatever the
\* alias and the tier.
DetailBytes(logical, window, to) ==
    LET segments == DetailSegments(window, to)
        Rows(start) == {r \in segments \X Aliases(logical) :
                            r[1].from <= start /\ start < r[1].to}
        Told(start) == MaxOf([r \in Rows(start) |-> Oriented(r[2], TierBytes(r[1].tier, r[2], start))])
    IN  SumOf([s \in {s \in HeldStarts : to - window <= s /\ s < to} |-> Told(s)])

SummaryBytes(logical, window, to) ==
    LET Told(g, start) ==
            MaxOf([e \in Aliases(logical) |-> Oriented(e, TierBytes(g.tier, e, start))])
        InSegment(g) ==
            SumOf([s \in {s \in HeldStarts : g.from <= s /\ s < g.to} |-> Told(g, s)])
    IN  SumOf([g \in SummarySegments(window, to) |-> InSegment(g)])

-----------------------------------------------------------------------------
(* Properties *)

\* Every table holds what its columns say.
TypeOK ==
    /\ raw \in [DOMAIN raw -> Bytes] /\ DOMAIN raw \subseteq RawKeys
    /\ ledger \in [DOMAIN ledger -> Bytes] /\ DOMAIN ledger \subseteq RawKeys
    /\ minute \in [DOMAIN minute -> Bytes] /\ hour \in [DOMAIN hour -> Bytes]
    /\ cursor \in [minute : Int \cup {NoTime}, hour : Int \cup {NoTime}]
    /\ edges \subseteq AllEdges /\ DOMAIN map \subseteq edges
    /\ map \in [DOMAIN map -> [edge : AllEdges, reversed : BOOLEAN]]
    /\ redirects \in [Nodes -> Nodes]
    /\ now \in Times /\ latest \in Times

\* What an edge carried in a bucket, told by the observer nearest the sender.
CarriedOneWay(e, start, near, far, field) ==
    LET Key(o) == [edge |-> e, start |-> start, observer |-> o]
        seen == {o \in Observers : Key(o) \in DOMAIN ledger}
        best == CHOOSE o \in seen : \/ o = near
                                    \/ near \notin seen /\ (far \in seen => o = far)
    IN  IF seen = {} THEN 0 ELSE ledger[Key(best)][field]

\* The same, over a time, as its logical edge counts it.
Carried(e, from, to) ==
    LET starts == {s \in StartsOf(ledger) : from <= s /\ s < to}
        bytes  == SumOf([s \in starts |-> [ab |-> CarriedOneWay(e, s, e[1], e[2], "ab"),
                                           ba |-> CarriedOneWay(e, s, e[2], e[1], "ba")]])
    IN  IF redirects[e[1]] < redirects[e[2]] THEN bytes ELSE Swap(bytes)

AtMost(b, c) == b.ab <= c.ab /\ b.ba <= c.ba

\* The first interval that starts inside a window.
FirstWhole(from, interval) == from + ((-from) % interval)

ResolutionOf(window) ==
    IF window = HourRetention THEN Hour ELSE IF window = Day THEN Minute ELSE 1

\* No answer says less than what any one alias carried since the first interval
\* of its resolution that the window holds whole: rollups, retention, merges and
\* a clock set back within the grace lose nothing (detailTrafficSegments).
DetailLosesNothing ==
    now = latest =>
        \A logical \in Logical, window \in Windows :
            LET from == FirstWhole(now - window, ResolutionOf(window))
            IN  \A e \in Aliases(logical) :
                    AtMost(Carried(e, from, now), DetailBytes(logical, window, now))

\* The History list loses at most the traffic of the hour its window starts in,
\* and never says more than the aliases carried together
\* (loadTrafficSummaryPoints).
ListWithinAnHour ==
    \A logical \in Logical, window \in Windows :
        LET from == now - window
            all  == SumOf([e \in Aliases(logical) |-> Carried(e, from, now)])
            told == SummaryBytes(logical, window, now)
        IN  /\ AtMost(told, all)
            /\ now = latest =>
                  \A e \in Aliases(logical) : AtMost(Carried(e, FirstWhole(from, Hour), now), told)

\* Where the ages at which the tiers hand over fall on whole hours and minutes,
\* the detail counts nothing twice.
DetailExactWhenAligned ==
    (now - MinuteRetention) % Hour = 0 /\ (now - RawRetention) % Minute = 0 =>
        \A logical \in Logical, window \in Windows :
            AtMost(DetailBytes(logical, window, now),
                   SumOf([e \in Aliases(logical) |-> Carried(e, now - window, now)]))

\* No raw row is ever written behind the minute cursor, where nothing would roll
\* it up before it is deleted: the grace makes up for the clock (recordTraffic,
\* rollupHistory).
NothingWrittenBehindCursor ==
    [][\A k \in DOMAIN raw' \ DOMAIN raw :
           cursor.minute # NoTime => k.start >= cursor.minute]_vars

=============================================================================
