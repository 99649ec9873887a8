---------------------------- MODULE PathHistory -----------------------------
(* The path history of internal/store and the browser that reads it: path      *)
(* transitions that reports write, the minute maintenance that deletes them    *)
(* but for one anchor per logical edge, the detail of an edge and the paging   *)
(* of its path events, while reports, merges of nodes and maintenance go on.   *)
(*                                                                             *)
(* Abstractions.  What a path is plays no part: an event is its row id, its    *)
(* edge and the time the server received it.  Nodes are numbers, so that an    *)
(* edge id is the ordered pair domain.EdgeID builds.  The map of physical to   *)
(* logical edges is derived: every write of history_edges or of a redirect     *)
(* writes it too (HistoryTiers has it as a table).  The hour rollup may give   *)
(* a logical edge a row of its own, which is left out here.  The cursor's      *)
(* window and window end are the walk's own and are not repeated in it.        *)
(*                                                                             *)
(* A definition called Faulty... is the definition that follows it with one    *)
(* plausible bug; the specification uses none of them.                         *)
EXTENDS Integers, Sequences, FiniteSets, FiniteSetsExt, Functions, SequencesExt

CONSTANTS
    Nodes,        \* canonical node ids
    Edges,        \* the edges traffic is first reported for, <<low, high>>
    Merges,       \* <<keep, drop>>: which nodes may turn out to be one
    Windows,      \* the windows a page can ask for
    Retention,    \* hourTrafficRetention, which is also the longest window
    PageLimit,    \* events in one page
    ClockSlip,    \* how far behind its latest reading the clock may be set
    NoCursor,     \* the cursor of the first page
    MaxEvents,    \* bound: path events ever written
    MaxTime       \* bound: the clock

ASSUME PathAssumption ==
    /\ Nodes \subseteq Nat \ {0}
    /\ Edges \subseteq {e \in Nodes \X Nodes : e[1] < e[2]}
    /\ Merges \subseteq Nodes \X Nodes
    /\ Retention \in Nat /\ Windows \subseteq 1 .. Retention
    /\ PageLimit \in Nat \ {0}
    /\ NoCursor \notin [at : Nat, id : Nat, edge : Nodes \X Nodes, high : Nat]
    /\ ClockSlip \in Nat /\ MaxEvents \in Nat /\ MaxTime \in Nat

VARIABLES
    written,      \* path_events: every row ever inserted; its index is its id
    held,         \* path_events: the ids of the rows that are still there
    lastTraffic,  \* history_edges: physical edge -> last_traffic_at
    redirects,    \* canonical_redirects
    now,          \* the wall clock
    latest,       \* history: the latest reading of the clock
    kept,         \* history: rows whose edge has had retained traffic ever since
    view          \* the browser's edge detail (useHistoryDetail)

storeVars == <<written, held, lastTraffic, redirects, kept>>
vars      == <<storeVars, now, latest, view>>

Times    == 0 .. MaxTime
AllEdges == {e \in Nodes \X Nodes : e[1] < e[2]}

Init ==
    /\ written = <<>> /\ held = {}
    /\ lastTraffic = <<>> /\ kept = {}
    /\ redirects = [n \in Nodes |-> n]
    /\ now = 0 /\ latest = 0
    /\ view = [phase |-> "closed"]

-----------------------------------------------------------------------------
(* Physical and logical edges. *)

IsLoop(e) == redirects[e[1]] = redirects[e[2]]

LogicalOf(e) ==
    LET m == redirects[e[1]]
        n == redirects[e[2]]
    IN  IF m < n THEN <<m, n>> ELSE <<n, m>>

Mapped  == {e \in DOMAIN lastTraffic : ~IsLoop(e)}
Logical == {LogicalOf(e) : e \in Mapped}

\* index.edgeAlias, and the id itself where it has no alias.
CanonicalOf(e) == IF e \in Mapped THEN LogicalOf(e) ELSE e

Originals(logical) == {e \in Mapped : LogicalOf(e) = logical} \cup {logical}

-----------------------------------------------------------------------------
(* Path events. *)

At(i)        == written[i].at
Before(i, j) == At(i) < At(j) \/ (At(i) = At(j) /\ i < j)

\* ORDER BY observed_at, id
InOrder(S) == CHOOSE s \in SetToSeqs(S) : \A k, l \in DOMAIN s : k < l => Before(s[k], s[l])

Rows(logical, from, to) ==
    {i \in held : written[i].edge \in Originals(logical) /\ from <= At(i) /\ At(i) < to}

\* ORDER BY observed_at DESC, id DESC LIMIT 1; 0 where there is none.
Latest(S) == IF S = {} THEN 0 ELSE CHOOSE i \in S : \A j \in S \ {i} : Before(j, i)

AnchorOf(logical, from) == Latest(Rows(logical, 0, from))

-----------------------------------------------------------------------------
(* Reports and maintenance. *)

Larger(m, n)  == IF m > n THEN m ELSE n
Smaller(m, n) == IF m < n THEN m ELSE n

\* The logical edges with traffic since a cutoff.
Retained(last, cutoff) == {LogicalOf(e) : e \in {x \in DOMAIN last : ~IsLoop(x) /\ last[x] >= cutoff}}

\* id INTEGER PRIMARY KEY AUTOINCREMENT: no id is used again.
FaultyNextID == Len(written)

NextID == Len(written) + 1

\* A report names canonical nodes.  It may bring traffic of an edge, a new path
\* of it, or both; a path without traffic is that of an edge that is known, as
\* when an observer withdraws or lists its peers anew.
Report(e, traffic, moved) ==
    LET last == IF ~traffic THEN lastTraffic
                ELSE [x \in DOMAIN lastTraffic \cup {e} |->
                         IF x # e THEN lastTraffic[x]
                         ELSE IF e \in DOMAIN lastTraffic THEN Larger(lastTraffic[e], now) ELSE now]
    IN  /\ redirects[e[1]] = e[1] /\ redirects[e[2]] = e[2]
        /\ traffic \/ (moved /\ e \in Logical)
        /\ moved => Len(written) < MaxEvents
        /\ lastTraffic' = last
        /\ written' = IF moved THEN Append(written, [edge |-> e, at |-> now]) ELSE written
        /\ held' = IF moved THEN held \cup {NextID} ELSE held
        /\ kept' = IF moved /\ e \in DOMAIN last /\ e \in Retained(last, latest - Retention)
                   THEN kept \cup {NextID} ELSE kept
        /\ UNCHANGED <<redirects, now, latest, view>>

Merge(keep, drop) ==
    /\ keep # drop
    /\ redirects[keep] = keep /\ redirects[drop] = drop
    /\ redirects' = [n \in Nodes |-> IF redirects[n] = drop THEN keep ELSE redirects[n]]
    /\ kept' = {i \in kept : redirects'[written[i].edge[1]] # redirects'[written[i].edge[2]]}
    /\ UNCHANGED <<written, held, lastTraffic, now, latest, view>>

\* The last event of each logical edge before the cutoff, and those of them
\* whose logical edge has traffic since, whichever alias it is of.
LastEvents(cutoff) ==
    LET Earlier(logical) == {i \in held : /\ written[i].edge \in Mapped
                                          /\ LogicalOf(written[i].edge) = logical
                                          /\ At(i) < cutoff}
    IN  {Latest(Earlier(logical)) : logical \in {l \in Logical : Earlier(l) # {}}}

FaultyAnchors(cutoff) ==
    {i \in LastEvents(cutoff) : lastTraffic[written[i].edge] >= cutoff}

Anchors(cutoff) ==
    {i \in LastEvents(cutoff) : LogicalOf(written[i].edge) \in Retained(lastTraffic, cutoff)}

Maintain ==
    LET cutoff == now - Retention
    IN  /\ held' = {i \in held : At(i) >= cutoff} \cup Anchors(cutoff)
        /\ UNCHANGED <<written, lastTraffic, redirects, kept, now, latest, view>>

\* External: the wall clock, which may be set back a little.
Tick(t) ==
    /\ t # now
    /\ t >= latest - ClockSlip /\ t <= latest + 1
    /\ now' = t
    /\ latest' = Larger(latest, t)
    /\ kept' = {i \in kept : LogicalOf(written[i].edge) \in Retained(lastTraffic, latest' - Retention)}
    /\ UNCHANGED <<written, held, lastTraffic, redirects, view>>

-----------------------------------------------------------------------------
(* The edge detail and the pages of its path events. *)

\* The rows after a cursor, by the order of the pages.
FaultyAfter(cursor, i) == cursor = NoCursor \/ cursor.at < At(i)

After(cursor, i) ==
    cursor = NoCursor \/ cursor.at < At(i) \/ (cursor.at = At(i) /\ cursor.id < i)

\* Fixed by the first page: what is committed later stays out of the walk.
FaultyHighWater(cursor, logical, to) == Max(Rows(logical, 0, to) \cup {0})

HighWater(cursor, logical, to) ==
    IF cursor = NoCursor THEN Max(Rows(logical, 0, to) \cup {0}) ELSE cursor.high

Page(logical, from, to, cursor) ==
    LET high  == HighWater(cursor, logical, to)
        left  == InOrder({i \in Rows(logical, from, to) : i <= high /\ After(cursor, i)})
        items == SubSeq(left, 1, Smaller(PageLimit, Len(left)))
    IN  [anchor |-> Latest({i \in Rows(logical, 0, from) : i <= high}),
         events |-> items,
         next   |-> IF Len(left) <= PageLimit THEN NoCursor
                    ELSE [at |-> At(Last(items)), id |-> Last(items), edge |-> logical, high |-> high]]

\* The browser opens a relationship: it asks for the detail, of which only the
\* end and the anchor matter here, and from then on for pages up to that end.
Open(e, w) ==
    LET logical == CanonicalOf(e)
    IN  /\ view' = IF logical \notin Logical THEN [phase |-> "failed"]
                   ELSE [phase |-> "paging", edge |-> e, window |-> w, to |-> now,
                         anchor |-> AnchorOf(logical, now - w), events |-> <<>>,
                         cursor |-> NoCursor, asked |-> [rows |-> {}, upTo |-> 0]]
        /\ UNCHANGED <<storeVars, now, latest>>

\* A page arrives; asked, for the properties, is what was there for the first
\* one to see.  The anchor is the first page's, else the detail's.
PageArrives ==
    LET logical == CanonicalOf(view.edge)
        from    == view.to - view.window
        page    == Page(logical, from, view.to, view.cursor)
        first   == view.cursor = NoCursor
        anchor  == IF first /\ page.anchor # 0 THEN page.anchor ELSE view.anchor
        events  == view.events \o page.events
        asked   == IF ~first THEN view.asked
                   ELSE [rows |-> Rows(logical, from, view.to), upTo |-> Len(written)]
    IN  /\ view.phase = "paging"
        /\ logical \in Logical
        /\ ~first => view.cursor.edge = logical
        /\ view' = IF page.next = NoCursor
                   THEN [phase |-> "complete", anchor |-> anchor, events |-> events, asked |-> asked]
                   ELSE [view EXCEPT !.anchor = anchor, !.events = events, !.asked = asked,
                                     !.cursor = page.next]
        /\ UNCHANGED <<storeVars, now, latest>>

\* The cursor is of another edge, which the one asked for was merged into.
CursorRefused ==
    LET logical == CanonicalOf(view.edge)
    IN  /\ view.phase = "paging"
        /\ logical \in Logical
        /\ view.cursor # NoCursor /\ view.cursor.edge # logical
        /\ view' = [phase |-> "failed"]
        /\ UNCHANGED <<storeVars, now, latest>>

\* 404, which the browser takes for an older server: the detail has to do.
PageNotFound ==
    /\ view.phase = "paging"
    /\ CanonicalOf(view.edge) \notin Logical
    /\ view' = [phase |-> "embedded"]
    /\ UNCHANGED <<storeVars, now, latest>>

\* Any other failure of a request.
PageFails ==
    /\ view.phase = "paging"
    /\ view' = [phase |-> "failed"]
    /\ UNCHANGED <<storeVars, now, latest>>

Next ==
    \/ \E e \in Edges \cup Logical, t, m \in BOOLEAN : Report(e, t, m)
    \/ \E m \in Merges : Merge(m[1], m[2])
    \/ Maintain
    \/ \E t \in Times : Tick(t)
    \/ \E e \in Edges \cup Logical, w \in Windows : Open(e, w)
    \/ PageArrives \/ CursorRefused \/ PageNotFound \/ PageFails

Spec == Init /\ [][Next]_vars

-----------------------------------------------------------------------------
(* Properties *)

Ids == 1 .. Len(written)

\* Rows, edges and the browser's walk are what they say.
TypeOK ==
    /\ written \in Seq([edge : AllEdges, at : Times])
    /\ held \subseteq Ids /\ kept \subseteq Ids
    /\ DOMAIN lastTraffic \subseteq AllEdges /\ Range(lastTraffic) \subseteq Times
    /\ redirects \in [Nodes -> Nodes]
    /\ now \in Times /\ latest \in Times
    /\ view.phase \in {"closed", "paging", "complete", "embedded", "failed"}
    /\ view.phase \in {"paging", "complete"} =>
           view.anchor \in Ids \cup {0} /\ view.asked.rows \subseteq Ids /\ view.events \in Seq(Ids)
    /\ view.phase = "paging" =>
           /\ view.edge \in AllEdges /\ view.window \in Windows /\ view.to \in Times
           /\ view.cursor # NoCursor => view.cursor.id \in 1 .. view.cursor.high

\* As long as an edge has traffic in retention, every window knows the path it
\* opens with: the anchor is no older than any event of the edge before the
\* window, whichever alias the event or the traffic belongs to and whatever
\* maintenance came in between (maintainPathAnchors).
AnchorKept ==
    now = latest =>
        \A logical \in Logical, w \in Windows :
            LET earlier == {i \in kept : /\ LogicalOf(written[i].edge) = logical
                                         /\ At(i) < now - w}
                anchor  == AnchorOf(logical, now - w)
            IN  earlier # {} => anchor # 0 /\ \A i \in earlier : ~Before(anchor, i)

\* "so a client can retrieve every transition in one stable selected window"
\* (docs/architecture.md): pages put together are in order and without repeats,
\* hold all that was there when the first one was asked for and was not deleted
\* since, and nothing that was written later, although reports, merges and
\* maintenance run between two pages (EdgePathHistoryWindow, useHistoryDetail).
WalkIsExact ==
    view.phase \in {"paging", "complete"} =>
        LET shown == ToSet(view.events)
        IN  /\ \A k \in 1 .. Len(view.events) - 1 : Before(view.events[k], view.events[k + 1])
            /\ view.phase = "complete" => view.asked.rows \cap held \subseteq shown
            /\ \A i \in shown : i <= view.asked.upTo

=============================================================================
