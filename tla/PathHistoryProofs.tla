-------------------------- MODULE PathHistoryProofs --------------------------
(* Proofs about PathHistory: rows, edges and the browser's walk keep their     *)
(* types; a row that still matters always has one that stands for it, however  *)
(* maintenance, merges and the clock take turns, so that no window loses its   *)
(* anchor; and pages of one walk put together are exact.                       *)
EXTENDS PathHistory, FiniteSetTheorems, SequenceTheorems, WellFoundedInduction, TLAPS

(* Rows, edges, redirects and the clock. *)

RowsOK ==
    /\ written \in Seq([edge : AllEdges, at : Times])
    /\ held \subseteq Ids
    /\ DOMAIN lastTraffic \subseteq AllEdges
    /\ \A e \in DOMAIN lastTraffic : lastTraffic[e] \in Times

Root(n) == redirects[n] = n

\* Redirects lead to a node that is there in one step.
RedirectsOK ==
    /\ redirects \in [Nodes -> Nodes]
    /\ \A n \in Nodes : Root(redirects[n])

ClockOK == now \in Times /\ latest \in Times /\ now <= latest

-----------------------------------------------------------------------------
(* The anchors. *)

\* Row j tells of row i's logical edge, from before a time, and nothing older.
Stands(j, i, from) ==
    /\ written[j].edge \in Mapped
    /\ LogicalOf(written[j].edge) = LogicalOf(written[i].edge)
    /\ At(j) < from
    /\ ~Before(j, i)

\* For every time a window may start at from now on, now and after maintenance,
\* a row that is still held stands for row i.
StoodFor(i) ==
    /\ written[i].edge \in Mapped
    /\ LogicalOf(written[i].edge) \in Retained(lastTraffic, latest - Retention)
    /\ \A from \in Int : latest - Retention <= from /\ At(i) < from
           => \E j \in held : Stands(j, i, from)

KeptOK == kept \subseteq Ids /\ \A i \in kept : StoodFor(i)

-----------------------------------------------------------------------------
(* The walk. *)

Paging == view.phase = "paging"
Walked == view.phase \in {"paging", "complete"}

Rising(s) == \A k, l \in DOMAIN s : k < l => Before(s[k], s[l])

\* What was shown, and what there was to show.
ShownOK ==
    /\ view.anchor \in Ids \cup {0}
    /\ view.asked.upTo \in 0 .. Len(written)
    /\ view.asked.rows \subseteq 1 .. view.asked.upTo
    /\ view.events \in Seq(1 .. view.asked.upTo)
    /\ Rising(view.events)

\* What there was and has not been shown comes after the cursor, and will be
\* found there as long as the cursor's edge has not been merged into another.
CursorOK ==
    /\ view.cursor \in [at : Times, id : Nat, edge : AllEdges, high : Nat]
    /\ view.cursor.id \in 1 .. view.cursor.high
    /\ view.cursor.high <= view.asked.upTo
    /\ view.cursor.at = At(view.cursor.id)
    /\ view.events # <<>> /\ view.events[Len(view.events)] = view.cursor.id
    /\ \A i \in view.asked.rows :
           /\ i <= view.cursor.high
           /\ view.to - view.window <= At(i) /\ At(i) < view.to
           /\ Root(view.cursor.edge[1]) /\ Root(view.cursor.edge[2])
                  => written[i].edge \in Originals(view.cursor.edge)
           /\ i \in held => i \in ToSet(view.events) \/ After(view.cursor, i)

ViewOK ==
    /\ view.phase \in {"closed", "paging", "complete", "embedded", "failed"}
    /\ Walked => ShownOK
    /\ Paging =>
           /\ view.edge \in AllEdges /\ view.window \in Windows /\ view.to \in Times
           /\ view.cursor = NoCursor => view.events = <<>>
           /\ view.cursor # NoCursor => CursorOK
    /\ view.phase = "complete" => view.asked.rows \cap held \subseteq ToSet(view.events)

StoreOK == RowsOK /\ RedirectsOK /\ ClockOK

Inv == StoreOK /\ KeptOK /\ ViewOK

-----------------------------------------------------------------------------
(* The order of the rows. *)

LEMMA NatsHaveLeast ==
  ASSUME NEW S \in SUBSET Nat, S # {}
  PROVE  \E x \in S : \A y \in S : x <= y
<1>1. PICK x \in S : \A y \in S : ~(<<y, x>> \in OpToRel(<, Nat))
  BY NatLessThanWellFounded, WFMin
<1>2. \A y \in S : ~(y < x)
  BY <1>1 DEF OpToRel
<1> QED
  BY <1>2

LEMMA NatsHaveGreatest ==
  ASSUME NEW S \in SUBSET Nat, S # {}, NEW n \in Nat, \A x \in S : x <= n
  PROVE  \E x \in S : \A y \in S : y <= x
<1> DEFINE R == {n - x : x \in S}
<1>1. R \in SUBSET Nat /\ R # {}
  <2>1. \A x \in S : x \in Nat /\ x <= n
    OBVIOUS
  <2>2. \A x \in S : n - x \in Nat
    BY <2>1
  <2> QED
    BY <2>2
<1>2. PICK r \in R : \A q \in R : r <= q
  <2> HIDE DEF R
  <2> QED
    BY <1>1, NatsHaveLeast
<1>3. PICK x \in S : r = n - x
  BY <1>2
<1>4. ASSUME NEW y \in S
      PROVE  y <= x
  <2>1. n - y \in R
    OBVIOUS
  <2>2. r <= n - y
    BY <2>1, <1>2
  <2>3. x \in Nat /\ y \in Nat
    OBVIOUS
  <2> QED
    BY <2>2, <2>3, <1>3
<1> QED
  BY <1>4

LEMMA RowType ==
  ASSUME RowsOK, NEW i \in Ids
  PROVE  written[i].edge \in AllEdges /\ At(i) \in Times /\ At(i) \in Nat
<1> DEFINE Row == [edge : AllEdges, at : Times]
<1>1. written[i] \in Row
  <2>1. written \in Seq(Row)
    BY DEF RowsOK
  <2> HIDE DEF Row
  <2> QED
    BY <2>1 DEF Ids
<1> QED
  BY <1>1, PathAssumption DEF At, Times

LEMMA IdsAreNat == ASSUME RowsOK PROVE Len(written) \in Nat /\ Ids \subseteq Nat \ {0}
  BY DEF RowsOK, Ids

LEMMA BeforeOrder ==
  ASSUME RowsOK
  PROVE  /\ \A i \in Ids : ~Before(i, i)
         /\ \A i, j \in Ids : i = j \/ Before(i, j) \/ Before(j, i)
         /\ \A i, j, k \in Ids : Before(i, j) /\ Before(j, k) => Before(i, k)
<1>1. \A i \in Ids : At(i) \in Nat /\ i \in Nat
  BY RowType, IdsAreNat
<1>2. \A i \in Ids : ~Before(i, i)
  BY <1>1 DEF Before
<1>3. \A i, j \in Ids : i = j \/ Before(i, j) \/ Before(j, i)
  <2> TAKE i, j \in Ids
  <2> QED
    BY <1>1 DEF Before
<1>4. \A i, j, k \in Ids : Before(i, j) /\ Before(j, k) => Before(i, k)
  <2> TAKE i, j, k \in Ids
  <2> QED
    BY <1>1 DEF Before
<1> QED
  BY <1>2, <1>3, <1>4

\* A set of rows has a last one.
LEMMA LastRow ==
  ASSUME RowsOK, NEW S \in SUBSET Ids, S # {}
  PROVE  \E i \in S : \A j \in S \ {i} : Before(j, i)
<1>1. \A i \in S : At(i) \in Nat /\ At(i) <= MaxTime /\ i \in Nat /\ i <= Len(written)
  BY RowType, IdsAreNat, PathAssumption DEF Times, Ids
<1> DEFINE Stamps == {At(i) : i \in S}
<1>2. PICK t \in Stamps : \A u \in Stamps : u <= t
  <2>1. Stamps \in SUBSET Nat /\ Stamps # {} /\ \A u \in Stamps : u <= MaxTime
    BY <1>1
  <2>2. MaxTime \in Nat
    BY PathAssumption
  <2> HIDE DEF Stamps
  <2> QED
    BY <2>1, <2>2, NatsHaveGreatest
<1> DEFINE Newest == {i \in S : At(i) = t}
<1>3. PICK i \in Newest : \A j \in Newest : j <= i
  <2>1. Newest \in SUBSET Nat /\ Newest # {} /\ \A j \in Newest : j <= Len(written)
    BY <1>1, <1>2
  <2>2. Len(written) \in Nat
    BY IdsAreNat
  <2> HIDE DEF Newest
  <2> QED
    BY <2>1, <2>2, NatsHaveGreatest
<1>4. ASSUME NEW j \in S \ {i}
      PROVE  Before(j, i)
  <2>1. At(j) <= t /\ At(i) = t /\ At(j) \in Nat /\ t \in Nat
    BY <1>1, <1>2, <1>3
  <2>2. At(j) = t => j <= i /\ j # i
    BY <1>3
  <2>3. i \in Nat /\ j \in Nat
    BY <1>1, <1>3
  <2> QED
    BY <2>1, <2>2, <2>3 DEF Before
<1>5. i \in S
  BY <1>3
<1> QED
  BY <1>4, <1>5

LEMMA LatestIsLast ==
  ASSUME RowsOK, NEW S \in SUBSET Ids, S # {}
  PROVE  /\ Latest(S) \in S
         /\ \A j \in S \ {Latest(S)} : Before(j, Latest(S))
  BY LastRow, Zenon DEF Latest

LEMMA LatestType ==
  ASSUME RowsOK, NEW S \in SUBSET Ids
  PROVE  Latest(S) \in Ids \cup {0} /\ (Latest(S) = 0 <=> S = {})
<1>1. CASE S = {}
  BY <1>1 DEF Latest
<1>2. CASE S # {}
  <2>1. Latest(S) \in S
    BY <1>2, LatestIsLast
  <2> QED
    BY <2>1, <1>2, IdsAreNat
<1> QED
  BY <1>1, <1>2

\* Rows can be put in order.
LEMMA OrderExists ==
  ASSUME RowsOK, NEW S \in SUBSET Ids
  PROVE  /\ IsFiniteSet(S)
         /\ \E s \in SetToSeqs(S) : Rising(s)
<1>1. IsFiniteSet(Ids) /\ \A T \in SUBSET Ids : IsFiniteSet(T) /\ Cardinality(T) \in Nat
  <2>1. IsFiniteSet(1 .. Len(written))
    BY IdsAreNat, FS_Interval
  <2>2. IsFiniteSet(Ids)
    BY <2>1 DEF Ids
  <2> QED
    BY <2>2, FS_Subset, FS_CardinalityType
<1> DEFINE Bad == {n \in Nat : \E T \in SUBSET Ids :
                       Cardinality(T) = n /\ ~\E s \in SetToSeqs(T) : Rising(s)}
<1>2. CASE Bad = {}
  BY <1>1, <1>2
<1>3. CASE Bad # {}
  <2>1. PICK n \in Bad : \A m \in Bad : n <= m
    <3>1. Bad \in SUBSET Nat
      OBVIOUS
    <3> HIDE DEF Bad
    <3> QED
      BY <1>3, <3>1, NatsHaveLeast
  <2>2. PICK T \in SUBSET Ids : Cardinality(T) = n /\ ~\E s \in SetToSeqs(T) : Rising(s)
    BY <2>1
  <2>3. n \in Nat
    BY <2>1
  <2>4. CASE n = 0
    <3>1. T = {}
      BY <1>1, <2>2, <2>4, FS_EmptySet
    <3> DEFINE none == [k \in 1 .. 0 |-> 0]
    <3>2. none \in [1 .. Cardinality(T) -> T] /\ DOMAIN none = {}
      BY <2>2, <2>4
    <3>3. none \in SetToSeqs(T) /\ Rising(none)
      BY <3>2 DEF SetToSeqs, Rising
    <3> QED
      BY <3>3, <2>2
  <2>5. CASE n # 0
    <3>1. T # {}
      BY <2>2, <2>5, FS_EmptySet
    <3> DEFINE last == Latest(T)
               U    == T \ {last}
    <3>2. last \in T /\ \A j \in U : Before(j, last)
      BY <3>1, LatestIsLast
    <3>3. Cardinality(U) = n - 1 /\ U \in SUBSET Ids
      BY <1>1, <2>2, <3>2, FS_RemoveElement
    <3>4. n - 1 \notin Bad /\ n - 1 \in Nat
      BY <2>1, <2>3, <2>5
    <3>5. PICK s \in SetToSeqs(U) : Rising(s)
      BY <3>3, <3>4
    <3> DEFINE t == [k \in 1 .. n |-> IF k = n THEN last ELSE s[k]]
    <3>6. s \in [1 .. n - 1 -> U] /\ \A k, l \in 1 .. n - 1 : k # l => s[k] # s[l]
      BY <3>3 DEF SetToSeqs
    <3>7. /\ t \in [1 .. n -> T]
          /\ \A k \in 1 .. n - 1 : t[k] = s[k] /\ t[k] \in U
          /\ t[n] = last
      <4> HIDE DEF last
      <4>1. \A k \in 1 .. n : k # n => k \in 1 .. n - 1
        BY <2>3
      <4> QED
        BY <3>2, <3>6, <2>3, <2>5, <4>1
    <3> HIDE DEF t, last
    <3>8. \A k, l \in 1 .. n : k < l => k \in 1 .. n - 1 /\ (l = n \/ l \in 1 .. n - 1)
      BY <2>3
    <3>9. Rising(t)
      <4>1. DOMAIN t = 1 .. n /\ DOMAIN s = 1 .. n - 1
        BY <3>6, <3>7
      <4> SUFFICES ASSUME NEW k \in 1 .. n, NEW l \in 1 .. n, k < l
                   PROVE  Before(t[k], t[l])
        BY <4>1 DEF Rising
      <4> QED
        BY <3>2, <3>5, <3>7, <3>8, <4>1 DEF Rising
    <3>10. \A k, l \in 1 .. n : k # l => t[k] # t[l]
      <4>1. \A k, l \in 1 .. n : k < l => t[k] # t[l]
        <5> SUFFICES ASSUME NEW k \in 1 .. n, NEW l \in 1 .. n, k < l
                     PROVE  t[k] # t[l]
          OBVIOUS
        <5> QED
          BY <3>6, <3>7, <3>8
      <4>2. \A k, l \in 1 .. n : k # l => k < l \/ l < k
        BY <2>3
      <4> QED
        BY <4>1, <4>2
    <3>11. t \in SetToSeqs(T)
      BY <2>2, <3>7, <3>10 DEF SetToSeqs
    <3> QED
      BY <2>2, <3>9, <3>11
  <2> QED
    BY <2>4, <2>5
<1> QED
  BY <1>2, <1>3

LEMMA InOrderIs ==
  ASSUME RowsOK, NEW S \in SUBSET Ids
  PROVE  /\ InOrder(S) \in Seq(S) /\ InOrder(S) \in Seq(Ids)
         /\ Rising(InOrder(S))
         /\ ToSet(InOrder(S)) = S
<1> DEFINE s == InOrder(S)
           n == Cardinality(S)
<1>1. s \in SetToSeqs(S) /\ Rising(s)
  <2>1. \E t \in SetToSeqs(S) : \A k, l \in DOMAIN t : k < l => Before(t[k], t[l])
    BY OrderExists DEF Rising
  <2> QED
    BY <2>1, Zenon DEF InOrder, Rising
<1>2. n \in Nat /\ IsFiniteSet(S)
  BY OrderExists, FS_CardinalityType
<1> HIDE DEF s, n
<1>3. s \in [1 .. n -> S] /\ \A k, l \in 1 .. n : k # l => s[k] # s[l]
  BY <1>1 DEF SetToSeqs, n
<1>4. s \in Seq(S) /\ s \in Seq(Ids)
  BY <1>2, <1>3
<1>5. s \in Injection(1 .. n, S)
  BY <1>3 DEF Injection, IsInjective
<1>6. IsFiniteSet(1 .. n) /\ Cardinality(1 .. n) = Cardinality(S)
  BY <1>2, FS_Interval DEF n
<1>7. s \in Surjection(1 .. n, S)
  BY <1>2, <1>5, <1>6, FS_Injection
<1>8. ToSet(s) = S
  BY <1>3, <1>7 DEF Surjection, ToSet
<1> QED
  BY <1>1, <1>4, <1>8 DEF s

-----------------------------------------------------------------------------
(* Physical and logical edges. *)

LEMMA EdgesAreEdges ==
  ASSUME RowsOK, RedirectsOK
  PROVE  /\ Mapped \subseteq AllEdges
         /\ \A e \in Mapped : /\ LogicalOf(e) \in AllEdges
                              /\ Root(LogicalOf(e)[1]) /\ Root(LogicalOf(e)[2])
         /\ Edges \cup Logical \subseteq AllEdges
<1>1. Mapped \subseteq AllEdges
  BY DEF Mapped, RowsOK
<1>2. ASSUME NEW e \in Mapped
      PROVE  /\ LogicalOf(e) \in AllEdges
             /\ Root(LogicalOf(e)[1]) /\ Root(LogicalOf(e)[2])
  <2> DEFINE m == redirects[e[1]]
             n == redirects[e[2]]
  <2>1. e[1] \in Nodes /\ e[2] \in Nodes
    BY <1>1 DEF AllEdges
  <2>2. m \in Nodes /\ n \in Nodes /\ Root(m) /\ Root(n) /\ m # n
    BY <2>1 DEF RedirectsOK, Mapped, IsLoop
  <2>3. LogicalOf(e) = IF m < n THEN <<m, n>> ELSE <<n, m>>
    BY DEF LogicalOf
  <2> HIDE DEF m, n
  <2>4. m \in Nat /\ n \in Nat
    BY <2>2, PathAssumption
  <2> QED
    BY <2>2, <2>3, <2>4 DEF AllEdges
<1>3. Edges \subseteq AllEdges
  BY PathAssumption DEF AllEdges
<1> QED
  BY <1>1, <1>2, <1>3 DEF Logical

\* An edge between nodes that are there is its own logical edge.
LEMMA OwnLogical ==
  ASSUME NEW e \in AllEdges, Root(e[1]), Root(e[2])
  PROVE  ~IsLoop(e) /\ LogicalOf(e) = e
<1>1. PICK m \in Nodes, n \in Nodes : e = <<m, n>>
  BY DEF AllEdges
<1>2. m \in Nat /\ n \in Nat /\ m < n
  <2>1. e[1] = m /\ e[2] = n
    BY <1>1
  <2> QED
    BY <2>1, PathAssumption DEF AllEdges
<1>3. redirects[m] = m /\ redirects[n] = n
  BY <1>1 DEF Root
<1> QED
  BY <1>1, <1>2, <1>3 DEF IsLoop, LogicalOf

LEMMA RetainedIs ==
  ASSUME NEW last, NEW cutoff, NEW l
  PROVE  l \in Retained(last, cutoff) <=>
             \E x \in DOMAIN last : ~IsLoop(x) /\ last[x] >= cutoff /\ LogicalOf(x) = l
  BY DEF Retained

LEMMA WindowsAreShort ==
  ASSUME NEW w \in Windows
  PROVE  w \in Nat /\ w <= Retention /\ Retention \in Nat
  BY PathAssumption

-----------------------------------------------------------------------------
(* The anchors. *)

\* What the invariant says is what a window needs.
LEMMA StandsIsEnough ==
  ASSUME StoreOK, KeptOK, now = latest,
         NEW logical \in Logical, NEW w \in Windows,
         NEW i \in kept, LogicalOf(written[i].edge) = logical, At(i) < now - w
  PROVE  /\ AnchorOf(logical, now - w) # 0
         /\ ~Before(AnchorOf(logical, now - w), i)
<1> DEFINE from == now - w
           rows == Rows(logical, 0, from)
<1>1. from \in Int /\ latest - Retention <= from /\ At(i) < from
  BY WindowsAreShort, PathAssumption DEF StoreOK, ClockOK, Times
<1>2. PICK j \in held : Stands(j, i, from)
  BY <1>1 DEF KeptOK, StoodFor
<1>3. i \in Ids /\ j \in Ids
  BY DEF KeptOK, StoreOK, RowsOK
<1>4. rows \in SUBSET Ids /\ rows \subseteq held
  BY DEF Rows, StoreOK, RowsOK
<1>5. j \in rows
  <2>1. 0 <= At(j)
    BY <1>3, RowType DEF StoreOK
  <2>2. written[j].edge \in Originals(logical)
    BY <1>2 DEF Stands, Originals
  <2> QED
    BY <1>2, <2>1, <2>2 DEF Rows, Stands
<1> DEFINE a == AnchorOf(logical, from)
<1>6. a = Latest(rows)
  BY DEF AnchorOf
<1> HIDE DEF a, rows
<1>7. a \in rows /\ (j = a \/ Before(j, a)) /\ a \in Ids
  BY <1>4, <1>5, <1>6, LatestIsLast DEF StoreOK
<1>8. ~Before(j, i)
  BY <1>2 DEF Stands
<1>9. ~Before(a, i)
  BY <1>3, <1>7, <1>8, BeforeOrder DEF StoreOK
<1>10. a # 0
  BY <1>7, IdsAreNat DEF StoreOK
<1> QED
  BY <1>9, <1>10 DEF a

LEMMA AnchorFromInv == StoreOK /\ KeptOK => AnchorKept
<1> SUFFICES ASSUME StoreOK, KeptOK, now = latest, NEW logical \in Logical, NEW w \in Windows,
                    NEW i \in kept, LogicalOf(written[i].edge) = logical, At(i) < now - w
             PROVE  /\ AnchorOf(logical, now - w) # 0
                    /\ ~Before(AnchorOf(logical, now - w), i)
  BY DEF AnchorKept
<1> QED
  BY StandsIsEnough

\* Reports and the clock only add: rows, traffic, time.
LEMMA StaysStoodFor ==
  ASSUME StoreOK, KeptOK, NEW i \in kept,
         redirects' = redirects,
         latest \in Int /\ latest' \in Int /\ latest <= latest',
         held \subseteq held',
         \A j \in Ids : written'[j] = written[j],
         DOMAIN lastTraffic \subseteq DOMAIN lastTraffic',
         LogicalOf(written[i].edge) \in Retained(lastTraffic', latest' - Retention)
  PROVE  StoodFor(i)'
<1>1. i \in Ids /\ held \subseteq Ids /\ Retention \in Int
  BY PathAssumption DEF KeptOK, StoreOK, RowsOK
<1>2. \A x : (LogicalOf(x)' = LogicalOf(x)) /\ (IsLoop(x)' <=> IsLoop(x))
  BY DEF LogicalOf, IsLoop
<1>3. \A j \in Ids : /\ At(j)' = At(j) /\ written'[j].edge = written[j].edge
                     /\ (Before(j, i)' <=> Before(j, i))
  BY <1>1 DEF At, Before
<1>4. Mapped \subseteq Mapped'
  BY <1>2 DEF Mapped
<1>5. written[i].edge \in Mapped
  BY DEF KeptOK, StoodFor
<1>6. \A l : l \in Retained(lastTraffic', latest' - Retention)
                 => l \in Retained(lastTraffic, latest - Retention)'
  <2>1. ASSUME NEW l, l \in Retained(lastTraffic', latest' - Retention)
        PROVE  l \in Retained(lastTraffic, latest - Retention)'
    <3>1. PICK x \in DOMAIN lastTraffic' :
              ~IsLoop(x) /\ lastTraffic'[x] >= latest' - Retention /\ LogicalOf(x) = l
      BY <2>1, RetainedIs
    <3> QED
      BY <3>1, <1>2 DEF Retained
  <2> QED
    BY <2>1
<1>7. (LogicalOf(written[i].edge) \in Retained(lastTraffic, latest - Retention))'
  BY <1>1, <1>2, <1>3, <1>6
<1>8. ASSUME NEW from \in Int, latest' - Retention <= from, At(i) < from
      PROVE  \E j \in held' : Stands(j, i, from)'
  <2>1. latest - Retention <= from
    <3>1. Retention \in Int /\ latest' - Retention <= from
      BY <1>8, <1>1
    <3>2. \A a, b, c, d \in Int : a <= b /\ b - c <= d => a - c <= d
      OBVIOUS
    <3> QED
      BY <3>1, <3>2
  <2>2. PICK j \in held : Stands(j, i, from)
    BY <1>8, <2>1 DEF KeptOK, StoodFor
  <2>3. Stands(j, i, from)'
    BY <2>2, <1>1, <1>2, <1>3, <1>4 DEF Stands
  <2> QED
    BY <2>3
<1> QED
  BY <1>1, <1>3, <1>4, <1>5, <1>7, <1>8 DEF StoodFor

LEMMA LastTrafficGrows ==
  ASSUME StoreOK, NEW e \in AllEdges, NEW t \in BOOLEAN, NEW m \in BOOLEAN, Report(e, t, m)
  PROVE  /\ DOMAIN lastTraffic \subseteq DOMAIN lastTraffic' /\ DOMAIN lastTraffic' \subseteq AllEdges
         /\ \A x \in DOMAIN lastTraffic' : lastTraffic'[x] \in Times
         /\ \A x \in DOMAIN lastTraffic : lastTraffic'[x] >= lastTraffic[x]
<1>1. Times \subseteq Int
  BY PathAssumption DEF Times
<1>2. CASE ~t
  <2>1. lastTraffic' = lastTraffic
    BY <1>2 DEF Report
  <2>2. \A v \in Times : v >= v
    BY <1>1
  <2>3. DOMAIN lastTraffic \subseteq AllEdges /\ \A x \in DOMAIN lastTraffic : lastTraffic[x] \in Times
    BY DEF StoreOK, RowsOK
  <2> QED
    BY <2>1, <2>2, <2>3
<1>3. CASE t
  <2>1. lastTraffic' = [x \in DOMAIN lastTraffic \cup {e} |->
                         IF x # e THEN lastTraffic[x]
                         ELSE IF e \in DOMAIN lastTraffic THEN Larger(lastTraffic[e], now) ELSE now]
    BY <1>3 DEF Report
  <2>2. now \in Times
    BY DEF StoreOK, ClockOK
  <2>3. \A x \in DOMAIN lastTraffic : lastTraffic[x] \in Times /\ lastTraffic[x] \in Int
    BY <1>1 DEF StoreOK, RowsOK
  <2>4. \A v \in Times : Larger(v, now) \in Times /\ Larger(v, now) >= v
    BY <2>2, <1>1 DEF Larger
  <2>5. DOMAIN lastTraffic \subseteq AllEdges
    BY DEF StoreOK, RowsOK
  <2>6. \A v \in Times : v >= v
    BY <1>1
  <2> QED
    BY <2>1, <2>2, <2>3, <2>4, <2>5, <2>6
<1> QED
  BY <1>2, <1>3

LEMMA ReportRows ==
  ASSUME StoreOK, NEW e \in AllEdges, NEW t \in BOOLEAN, NEW m \in BOOLEAN, Report(e, t, m)
  PROVE  /\ RowsOK' /\ Ids \subseteq Ids' /\ held \subseteq held'
         /\ Len(written') \in Nat /\ Len(written) <= Len(written')
         /\ \A j \in Ids : written'[j] = written[j]
         /\ ~m => written' = written /\ held' = held
         /\ m => /\ NextID \in Ids' /\ NextID \notin Ids
                 /\ held' = held \cup {NextID}
                 /\ written'[NextID] = [edge |-> e, at |-> now]
<1> DEFINE Row == [edge : AllEdges, at : Times]
<1>1. written \in Seq(Row) /\ held \subseteq Ids /\ [edge |-> e, at |-> now] \in Row
  BY DEF StoreOK, RowsOK, ClockOK
<1>2. CASE ~m
  <2>1. written' = written /\ held' = held
    BY <1>2 DEF Report
  <2>2. RowsOK'
    BY <2>1, <1>1, LastTrafficGrows DEF RowsOK, Ids
  <2> HIDE DEF Row
  <2> QED
    BY <2>1, <2>2, <1>1, <1>2 DEF Ids
<1>3. CASE m
  <2> DEFINE row == [edge |-> e, at |-> now]
  <2>1. written' = Append(written, row) /\ held' = held \cup {NextID}
    BY <1>3 DEF Report
  <2>2. row \in Row
    BY <1>1
  <2> HIDE DEF Row, row
  <2>3. /\ Append(written, row) \in Seq(Row)
        /\ Len(Append(written, row)) = Len(written) + 1
        /\ Len(written) \in Nat
        /\ \A j \in 1 .. Len(written) : Append(written, row)[j] = written[j]
        /\ Append(written, row)[Len(written) + 1] = row
    BY <1>1, <2>2
  <2>4. NextID \in Ids' /\ NextID \notin Ids /\ Ids \subseteq Ids'
    BY <2>1, <2>3 DEF NextID, Ids
  <2>5. RowsOK'
    BY <2>1, <2>3, <2>4, <1>1, LastTrafficGrows DEF RowsOK, Row
  <2> QED
    BY <1>3, <2>1, <2>3, <2>4, <2>5 DEF Ids, NextID, row
<1> QED
  BY <1>2, <1>3

LEMMA ReportKept ==
  ASSUME StoreOK, KeptOK, NEW e \in Edges \cup Logical, NEW t \in BOOLEAN, NEW m \in BOOLEAN,
         Report(e, t, m)
  PROVE  StoreOK' /\ KeptOK'
<1>1. e \in AllEdges /\ Root(e[1]) /\ Root(e[2]) /\ ~IsLoop(e) /\ LogicalOf(e) = e
  <2>1. e \in AllEdges
    BY EdgesAreEdges DEF StoreOK
  <2>2. Root(e[1]) /\ Root(e[2])
    BY DEF Report, Root
  <2> QED
    BY <2>1, <2>2, OwnLogical
<1>2. UNCHANGED <<redirects, now, latest>>
  BY DEF Report
<1>3. StoreOK'
  BY <1>1, <1>2, ReportRows DEF StoreOK, RedirectsOK, Root, ClockOK
<1>4. latest \in Int /\ latest <= latest /\ Retention \in Int
  BY PathAssumption DEF StoreOK, ClockOK, Times
<1>5. ASSUME NEW i \in kept
      PROVE  StoodFor(i)'
  <2> DEFINE l == LogicalOf(written[i].edge)
  <2>1. PICK x \in DOMAIN lastTraffic :
            ~IsLoop(x) /\ lastTraffic[x] >= latest - Retention /\ LogicalOf(x) = l
    <3>1. l \in Retained(lastTraffic, latest - Retention)
      BY DEF KeptOK, StoodFor
    <3> HIDE DEF l
    <3> QED
      BY <3>1, RetainedIs
  <2>2. lastTraffic'[x] >= latest' - Retention /\ x \in DOMAIN lastTraffic'
    <3>1. lastTraffic'[x] \in Int /\ lastTraffic[x] \in Int
      BY <2>1, <1>1, LastTrafficGrows, PathAssumption DEF Times, StoreOK, RowsOK
    <3>2. lastTraffic'[x] >= lastTraffic[x] /\ x \in DOMAIN lastTraffic'
      BY <2>1, <1>1, LastTrafficGrows
    <3> QED
      BY <3>1, <3>2, <2>1, <1>2, <1>4
  <2>3. l \in Retained(lastTraffic', latest' - Retention)
    BY <2>1, <2>2, RetainedIs
  <2> QED
    BY <1>1, <1>2, <1>4, <2>3, StaysStoodFor, ReportRows, LastTrafficGrows
<1>6. CASE kept' = kept
  <2>1. kept \subseteq Ids'
    BY <1>1, ReportRows DEF KeptOK
  <2> QED
    BY <1>3, <1>5, <1>6, <2>1 DEF KeptOK
<1>7. CASE kept' # kept
  <2>1. /\ m /\ kept' = kept \cup {NextID}
        /\ e \in DOMAIN lastTraffic' /\ e \in Retained(lastTraffic', latest - Retention)
    BY <1>7 DEF Report
  <2>2. /\ NextID \in Ids' /\ NextID \in held' /\ Ids \subseteq Ids'
        /\ written'[NextID] = [edge |-> e, at |-> now]
    BY <1>1, <2>1, ReportRows
  <2>3. \A x : (LogicalOf(x)' = LogicalOf(x)) /\ (IsLoop(x)' <=> IsLoop(x))
    BY <1>2 DEF LogicalOf, IsLoop
  <2>4. e \in Mapped'
    BY <1>1, <2>1, <2>3 DEF Mapped
  <2>5. written'[NextID].edge = e
    BY <2>2
  <2>6. e \in Retained(lastTraffic, latest - Retention)'
    <3>1. PICK x \in DOMAIN lastTraffic' :
              ~IsLoop(x) /\ lastTraffic'[x] >= latest - Retention /\ LogicalOf(x) = e
      BY <2>1, RetainedIs
    <3> QED
      BY <3>1, <2>3, <1>2 DEF Retained
  <2>7. PICK new : new = NextID
    OBVIOUS
  <2>8. new \in Ids' /\ new \in held' /\ written'[new].edge = e
    BY <2>2, <2>5, <2>7
  <2>9. ~Before(new, new)'
    <3>1. written'[new].at \in Int /\ new \in Int
      BY <2>2, <2>7, IdsAreNat, PathAssumption DEF StoreOK, ClockOK, Times, NextID
    <3> QED
      BY <3>1 DEF Before, At
  <2>10. StoodFor(new)'
    BY <1>1, <2>3, <2>4, <2>6, <2>8, <2>9 DEF StoodFor, Stands
  <2>11. kept' \subseteq Ids'
    BY <2>1, <2>2 DEF KeptOK
  <2> QED
    BY <1>3, <1>5, <2>1, <2>7, <2>10, <2>11 DEF KeptOK
<1> QED
  BY <1>6, <1>7

LEMMA MergeKept ==
  ASSUME StoreOK, KeptOK, NEW keep \in Nodes, NEW drop \in Nodes, Merge(keep, drop)
  PROVE  StoreOK' /\ KeptOK'
<1>1. /\ Root(keep) /\ Root(drop) /\ keep # drop
      /\ redirects' = [n \in Nodes |-> IF redirects[n] = drop THEN keep ELSE redirects[n]]
      /\ UNCHANGED <<written, held, lastTraffic, now, latest>>
  BY DEF Merge, Root
<1>2. \A x, y : redirects[x] = redirects[y] /\ x \in Nodes /\ y \in Nodes => redirects'[x] = redirects'[y]
  BY <1>1
<1>3. StoreOK'
  <2>1. RowsOK' /\ ClockOK'
    BY <1>1 DEF StoreOK, RowsOK, ClockOK, Ids
  <2>2. RedirectsOK'
    BY <1>1 DEF StoreOK, RedirectsOK, Root
  <2> QED
    BY <2>1, <2>2 DEF StoreOK
\* Edges that had one logical edge still have one.
<1>4. ASSUME NEW x \in Mapped, NEW y \in Mapped, LogicalOf(x) = LogicalOf(y), ~IsLoop(y)'
      PROVE  x \in Mapped' /\ LogicalOf(x)' = LogicalOf(y)'
  <2> DEFINE a == redirects[x[1]]
             b == redirects[x[2]]
             c == redirects[y[1]]
             d == redirects[y[2]]
             f(n) == IF n = drop THEN keep ELSE n
  <2>1. x[1] \in Nodes /\ x[2] \in Nodes /\ y[1] \in Nodes /\ y[2] \in Nodes
    BY EdgesAreEdges DEF StoreOK, AllEdges
  <2>2. redirects'[x[1]] = f(a) /\ redirects'[x[2]] = f(b) /\ redirects'[y[1]] = f(c) /\ redirects'[y[2]] = f(d)
    BY <1>1, <2>1
  <2>3. a \in Nat /\ b \in Nat /\ c \in Nat /\ d \in Nat
    BY <2>1, PathAssumption DEF StoreOK, RedirectsOK
  <2>4. (IF a < b THEN <<a, b>> ELSE <<b, a>>) = (IF c < d THEN <<c, d>> ELSE <<d, c>>)
    BY <1>4 DEF LogicalOf
  <2>5. f(c) # f(d)
    BY <1>4, <2>2 DEF IsLoop
  <2> HIDE DEF a, b, c, d
  <2>6. (a = c /\ b = d) \/ (a = d /\ b = c)
    BY <2>3, <2>4
  <2>7. f(a) \in Nat /\ f(b) \in Nat /\ f(c) \in Nat /\ f(d) \in Nat
    BY <2>3, PathAssumption
  <2>8. LogicalOf(x)' = (IF f(a) < f(b) THEN <<f(a), f(b)>> ELSE <<f(b), f(a)>>)
    BY <2>2 DEF LogicalOf
  <2>9. LogicalOf(y)' = (IF f(c) < f(d) THEN <<f(c), f(d)>> ELSE <<f(d), f(c)>>)
    BY <2>2 DEF LogicalOf
  <2>10. x \in DOMAIN lastTraffic /\ f(a) # f(b)
    BY <2>5, <2>6 DEF Mapped
  <2>11. x \in Mapped'
    BY <1>1, <2>2, <2>10 DEF Mapped, IsLoop
  <2> HIDE DEF f
  <2>12. LogicalOf(x)' = LogicalOf(y)'
    <3>1. CASE a = c /\ b = d
      BY <3>1, <2>8, <2>9
    <3>2. CASE a = d /\ b = c
      <4>1. f(c) < f(d) <=> ~(f(d) < f(c))
        BY <2>5, <2>7
      <4> QED
        BY <4>1, <3>2, <2>8, <2>9
    <3> QED
      BY <2>6, <3>1, <3>2
  <2> QED
    BY <2>11, <2>12
<1>5. ASSUME NEW i \in kept'
      PROVE  StoodFor(i)'
  <2>1. i \in kept /\ ~IsLoop(written[i].edge)'
    BY <1>1 DEF Merge, IsLoop
  <2>2. PICK e : e = written[i].edge /\ e = written'[i].edge
    BY <1>1
  <2>3. /\ e \in Mapped /\ i \in Ids /\ ~IsLoop(e)'
        /\ \A j : At(j)' = At(j) /\ (Before(j, i)' <=> Before(j, i))
    BY <1>1, <2>1, <2>2 DEF At, Before, KeptOK, StoodFor
  <2>4. e \in Mapped'
    BY <1>4, <2>3
  <2>5. (LogicalOf(e) \in Retained(lastTraffic, latest - Retention))'
    <3>1. LogicalOf(e) \in Retained(lastTraffic, latest - Retention)
      BY <2>1, <2>2 DEF KeptOK, StoodFor
    <3>2. PICK x \in DOMAIN lastTraffic :
              ~IsLoop(x) /\ lastTraffic[x] >= latest - Retention /\ LogicalOf(x) = LogicalOf(e)
      BY <3>1, RetainedIs
    <3>3. x \in Mapped
      BY <3>2 DEF Mapped
    <3>4. x \in Mapped' /\ LogicalOf(x)' = LogicalOf(e)'
      BY <1>4, <2>3, <3>2, <3>3
    <3>5. (\E z \in DOMAIN lastTraffic : ~IsLoop(z) /\ lastTraffic[z] >= latest - Retention
                                        /\ LogicalOf(z) = LogicalOf(e))'
      BY <1>1, <3>2, <3>4 DEF Mapped
    <3> QED
      BY <3>5 DEF Retained
  <2>6. ASSUME NEW from \in Int, latest' - Retention <= from, At(i)' < from
        PROVE  \E j \in held' : Stands(j, i, from)'
    <3>1. PICK j \in held : Stands(j, i, from)
      BY <1>1, <2>1, <2>3, <2>6 DEF KeptOK, StoodFor
    <3>2. PICK f : f = written[j].edge /\ f = written'[j].edge
      BY <1>1
    <3>3. f \in Mapped' /\ LogicalOf(f)' = LogicalOf(e)'
      BY <1>4, <2>2, <2>3, <3>1, <3>2 DEF Stands
    <3> QED
      BY <1>1, <2>2, <2>3, <3>1, <3>2, <3>3 DEF Stands
  <2> QED
    BY <2>2, <2>3, <2>4, <2>5, <2>6 DEF StoodFor
<1>6. kept' \subseteq Ids'
  BY <1>1 DEF Merge, KeptOK, Ids
<1> QED
  BY <1>3, <1>5, <1>6 DEF KeptOK

LEMMA TickKept ==
  ASSUME StoreOK, KeptOK, NEW t \in Times, Tick(t)
  PROVE  StoreOK' /\ KeptOK'
<1>1. /\ UNCHANGED <<written, held, lastTraffic, redirects>>
      /\ now' = t /\ latest' = Larger(latest, t)
      /\ kept' = {i \in kept : LogicalOf(written[i].edge) \in Retained(lastTraffic, latest' - Retention)}
  BY DEF Tick
<1>2. latest \in Int /\ latest' \in Int /\ latest <= latest' /\ latest' \in Times /\ t <= latest'
  BY <1>1, PathAssumption DEF StoreOK, ClockOK, Times, Larger
<1>3. StoreOK'
  BY <1>1, <1>2 DEF StoreOK, RowsOK, RedirectsOK, Root, ClockOK, Ids
<1>4. ASSUME NEW i \in kept'
      PROVE  StoodFor(i)'
  <2>1. i \in kept /\ LogicalOf(written[i].edge) \in Retained(lastTraffic', latest' - Retention)
    BY <1>1
  <2> QED
    BY <1>1, <1>2, <2>1, StaysStoodFor
<1>5. kept' \subseteq Ids'
  BY <1>1 DEF KeptOK, Ids
<1> QED
  BY <1>3, <1>4, <1>5 DEF KeptOK

\* What maintenance keeps it had: it deletes rows, and the last row of a logical
\* edge from before the cutoff is not one of them while there is traffic.
LEMMA LastEventsAreHeld ==
  ASSUME StoreOK, NEW cutoff \in Int
  PROVE  /\ Anchors(cutoff) \subseteq held
         /\ \A j \in held : written[j].edge \in Mapped /\ At(j) < cutoff =>
                \E a \in LastEvents(cutoff) :
                    /\ a \in held /\ written[a].edge \in Mapped
                    /\ LogicalOf(written[a].edge) = LogicalOf(written[j].edge)
                    /\ At(a) < cutoff
                    /\ a = j \/ Before(j, a)
<1> DEFINE Earlier(logical) == {i \in held : /\ written[i].edge \in Mapped
                                             /\ LogicalOf(written[i].edge) = logical
                                             /\ At(i) < cutoff}
<1>1. LastEvents(cutoff) = {Latest(Earlier(logical)) : logical \in {l \in Logical : Earlier(l) # {}}}
  BY DEF LastEvents
<1>2. \A l : Earlier(l) \in SUBSET Ids /\ Earlier(l) \subseteq held
  BY DEF StoreOK, RowsOK
<1>3. \A l : Earlier(l) # {} =>
          /\ Latest(Earlier(l)) \in Earlier(l)
          /\ \A j \in Earlier(l) : j = Latest(Earlier(l)) \/ Before(j, Latest(Earlier(l)))
  <2> SUFFICES ASSUME NEW l, Earlier(l) # {}
               PROVE  /\ Latest(Earlier(l)) \in Earlier(l)
                      /\ \A j \in Earlier(l) : j = Latest(Earlier(l)) \/ Before(j, Latest(Earlier(l)))
    OBVIOUS
  <2> DEFINE S == Earlier(l)
  <2>1. S \in SUBSET Ids /\ S # {} /\ RowsOK
    BY <1>2 DEF StoreOK
  <2> HIDE DEF S
  <2>2. Latest(S) \in S /\ \A j \in S \ {Latest(S)} : Before(j, Latest(S))
    BY <2>1, LatestIsLast
  <2>3. Latest(S) \in S /\ \A j \in S : j = Latest(S) \/ Before(j, Latest(S))
    BY <2>2
  <2> QED
    BY <2>3 DEF S
<1>4. Anchors(cutoff) \subseteq held
  <2>1. \A a \in LastEvents(cutoff) : a \in held
    <3> HIDE DEF Earlier
    <3> QED
      BY <1>1, <1>2, <1>3
  <2> QED
    BY <2>1 DEF Anchors
<1>5. ASSUME NEW j \in held, written[j].edge \in Mapped, At(j) < cutoff
      PROVE  \E a \in LastEvents(cutoff) :
                    /\ a \in held /\ written[a].edge \in Mapped
                    /\ LogicalOf(written[a].edge) = LogicalOf(written[j].edge)
                    /\ At(a) < cutoff
                    /\ a = j \/ Before(j, a)
  <2>1. PICK l : l = LogicalOf(written[j].edge)
    OBVIOUS
  <2>2. j \in Earlier(l) /\ l \in Logical
    BY <1>5, <2>1 DEF Logical
  <2>3. PICK a : a = Latest(Earlier(l))
    OBVIOUS
  <2>4. a \in Earlier(l) /\ (a = j \/ Before(j, a))
    BY <1>3, <2>2, <2>3
  <2>5. a \in LastEvents(cutoff)
    BY <1>1, <2>2, <2>3
  <2> QED
    BY <2>1, <2>4, <2>5
<1> QED
  BY <1>4, <1>5

LEMMA MaintainKept ==
  ASSUME StoreOK, KeptOK, Maintain
  PROVE  StoreOK' /\ KeptOK' /\ held' \subseteq held
<1> DEFINE cutoff == now - Retention
<1>1. /\ UNCHANGED <<written, lastTraffic, redirects, kept, now, latest>>
      /\ held' = {i \in held : At(i) >= cutoff} \cup Anchors(cutoff)
  BY DEF Maintain
<1>2. cutoff \in Int /\ latest - Retention \in Int /\ cutoff <= latest - Retention
  BY PathAssumption DEF StoreOK, ClockOK, Times
<1> HIDE DEF cutoff
<1>3. held' \subseteq held
  BY <1>1, <1>2, LastEventsAreHeld
<1>4. StoreOK'
  BY <1>1, <1>3 DEF StoreOK, RowsOK, RedirectsOK, Root, ClockOK, Ids
<1>5. \A x : (LogicalOf(x)' = LogicalOf(x)) /\ (IsLoop(x)' <=> IsLoop(x)) /\ At(x)' = At(x)
  BY <1>1 DEF LogicalOf, IsLoop, At
<1>6. ASSUME NEW i \in kept
      PROVE  StoodFor(i)'
  <2>1. StoodFor(i) /\ i \in Ids
    BY DEF KeptOK
  <2>2. (written[i].edge \in Mapped)'
    BY <1>1, <1>5, <2>1 DEF StoodFor, Mapped
  <2>3. (LogicalOf(written[i].edge) \in Retained(lastTraffic, latest - Retention))'
    BY <1>1, <1>5, <2>1 DEF StoodFor, Retained
  <2>4. ASSUME NEW from \in Int, latest - Retention <= from, At(i) < from
        PROVE  \E j \in held' : Stands(j, i, from)
    <3>1. PICK j \in held : Stands(j, i, from)
      BY <2>1, <2>4 DEF StoodFor
    <3>2. At(j) \in Int /\ j \in Ids
      BY RowType DEF StoreOK, RowsOK
    <3>3. CASE At(j) >= cutoff
      BY <1>1, <3>1, <3>3
    <3>4. CASE ~(At(j) >= cutoff)
      <4>1. At(j) < cutoff
        BY <3>2, <3>4, <1>2
      <4>2. PICK a \in LastEvents(cutoff) :
                    /\ a \in held /\ written[a].edge \in Mapped
                    /\ LogicalOf(written[a].edge) = LogicalOf(written[j].edge)
                    /\ At(a) < cutoff
                    /\ a = j \/ Before(j, a)
        BY <1>2, <3>1, <4>1, LastEventsAreHeld DEF Stands
      <4>3. a \in Anchors(cutoff)
        <5>1. PICK x \in DOMAIN lastTraffic : /\ ~IsLoop(x) /\ lastTraffic[x] >= latest - Retention
                                              /\ LogicalOf(x) = LogicalOf(written[i].edge)
          <6>1. LogicalOf(written[i].edge) \in Retained(lastTraffic, latest - Retention)
            BY <2>1 DEF StoodFor
          <6> QED
            BY <6>1, RetainedIs
        <5>2. lastTraffic[x] \in Int
          BY PathAssumption DEF StoreOK, RowsOK, Times
        <5>3. lastTraffic[x] >= cutoff
          BY <1>2, <5>1, <5>2
        <5>4. LogicalOf(written[a].edge) = LogicalOf(x)
          BY <3>1, <4>2, <5>1 DEF Stands
        <5>5. LogicalOf(written[a].edge) \in Retained(lastTraffic, cutoff)
          BY <5>1, <5>3, <5>4, RetainedIs
        <5> QED
          BY <4>2, <5>5 DEF Anchors
      <4>4. At(a) < from
        <5>1. At(a) \in Int /\ At(a) < cutoff
          BY <4>2, RowType DEF StoreOK, RowsOK
        <5> QED
          BY <5>1, <1>2, <2>4
      <4>5. ~Before(a, i)
        <5>1. a \in Ids
          BY <4>2 DEF StoreOK, RowsOK
        <5> QED
          BY <2>1, <3>1, <3>2, <4>2, <5>1, BeforeOrder DEF Stands, StoreOK
      <4>6. Stands(a, i, from)
        BY <3>1, <4>2, <4>4, <4>5 DEF Stands
      <4> QED
        BY <1>1, <4>3, <4>6
    <3> QED
      BY <3>3, <3>4
  <2>5. ASSUME NEW from \in Int, latest' - Retention <= from, At(i)' < from
        PROVE  \E j \in held' : Stands(j, i, from)'
    <3>1. PICK j \in held' : Stands(j, i, from)
      BY <1>1, <1>5, <2>4, <2>5
    <3>2. Stands(j, i, from)'
      BY <1>1, <1>5, <3>1 DEF Stands, Mapped, Before
    <3> QED
      BY <3>2
  <2> QED
    BY <2>2, <2>3, <2>5 DEF StoodFor
<1>7. kept' = kept /\ kept \subseteq Ids'
  BY <1>1 DEF KeptOK, Ids
<1> QED
  BY <1>3, <1>4, <1>6, <1>7 DEF KeptOK

-----------------------------------------------------------------------------
(* The walk, while the store changes under it. *)

LEMMA ViewStays ==
  ASSUME StoreOK, ViewOK, StoreOK', view' = view,
         Ids \subseteq Ids',
         \A i \in Ids : written'[i] = written[i] /\ (i \in held' => i \in held),
         \A c \in AllEdges, i \in Ids :
             Root(c[1])' /\ Root(c[2])' =>
                 /\ Root(c[1]) /\ Root(c[2])
                 /\ written[i].edge \in Originals(c) => written[i].edge \in Originals(c)'
  PROVE  ViewOK'
<1>1. Len(written) \in Nat /\ Len(written') \in Nat /\ Len(written) <= Len(written')
  <2>1. Len(written) \in Nat /\ Len(written') \in Nat
    BY DEF StoreOK, RowsOK
  <2>2. 1 .. Len(written) \subseteq 1 .. Len(written')
    BY DEF Ids
  <2>3. Len(written) # 0 => Len(written) \in 1 .. Len(written)
    BY <2>1
  <2> QED
    BY <2>1, <2>2, <2>3
<1>2. /\ \A i \in Ids : At(i)' = At(i)
      /\ \A i, j \in Ids : Before(i, j)' <=> Before(i, j)
      /\ \A c : \A i \in Ids : After(c, i)' <=> After(c, i)
  BY DEF At, Before, After
<1>3. Walked => ShownOK'
  <2> SUFFICES ASSUME Walked PROVE ShownOK'
    OBVIOUS
  <2>1. ShownOK
    BY DEF ViewOK
  <2>2. PICK upTo \in 0 .. Len(written) : upTo = view.asked.upTo
    BY <2>1 DEF ShownOK
  <2>3. PICK events \in Seq(1 .. upTo) : events = view.events
    BY <2>1, <2>2 DEF ShownOK
  <2>4. 1 .. upTo \subseteq Ids
    BY <1>1, <2>2 DEF Ids
  <2>5. Rising(events)'
    <3>1. \A k \in DOMAIN events : events[k] \in Ids
      BY <2>3, <2>4
    <3>2. Rising(events)
      BY <2>1, <2>3 DEF ShownOK
    <3> QED
      BY <3>1, <3>2, <1>2 DEF Rising
  <2>6. view.anchor \in Ids' \cup {0} /\ upTo \in 0 .. Len(written')
    BY <1>1, <2>1, <2>2 DEF ShownOK
  <2> QED
    BY <2>1, <2>2, <2>3, <2>5, <2>6 DEF ShownOK
<1>4. ASSUME Paging, view.cursor # NoCursor
      PROVE  CursorOK'
  <2>1. CursorOK /\ ShownOK
    BY <1>4 DEF ViewOK, Walked, Paging
  <2>2. PICK c \in [at : Times, id : Nat, edge : AllEdges, high : Nat] : c = view.cursor
    BY <2>1 DEF CursorOK
  <2>3. c.id \in Ids /\ view.asked.rows \subseteq Ids
    <3>1. c.id \in 1 .. c.high /\ c.high <= view.asked.upTo /\ c.high \in Nat
      BY <2>1, <2>2 DEF CursorOK
    <3>2. PICK upTo \in 0 .. Len(written) : upTo = view.asked.upTo
      BY <2>1 DEF ShownOK
    <3>3. 1 .. upTo \subseteq Ids
      BY <1>1, <3>2 DEF Ids
    <3>4. c.id \in 1 .. upTo
      BY <1>1, <3>1, <3>2
    <3>5. view.asked.rows \subseteq 1 .. upTo
      BY <2>1, <3>2 DEF ShownOK
    <3> QED
      BY <3>3, <3>4, <3>5
  <2>4. ASSUME NEW i \in view.asked.rows
        PROVE  /\ i <= c.high
               /\ view.to - view.window <= At(i)' /\ At(i)' < view.to
               /\ (Root(c.edge[1]) /\ Root(c.edge[2]) => written[i].edge \in Originals(c.edge))'
               /\ i \in held' => i \in ToSet(view.events) \/ After(c, i)'
    <3>1. /\ i <= c.high
          /\ view.to - view.window <= At(i) /\ At(i) < view.to
          /\ Root(c.edge[1]) /\ Root(c.edge[2]) => written[i].edge \in Originals(c.edge)
          /\ i \in held => i \in ToSet(view.events) \/ After(c, i)
      BY <2>1, <2>2 DEF CursorOK
    <3>2. i \in Ids /\ c.edge \in AllEdges
      BY <2>2, <2>3
    <3>3. PICK e : e = c.edge
      OBVIOUS
    <3>4. PICK row : row = written[i] /\ row = written'[i]
      BY <3>2
    <3>5. (Root(e[1]) /\ Root(e[2]))' => row.edge \in Originals(e)'
      BY <3>1, <3>2, <3>3, <3>4
    <3>6. (Root(c.edge[1]) /\ Root(c.edge[2]) => written[i].edge \in Originals(c.edge))'
      BY <3>3, <3>4, <3>5
    <3> QED
      BY <3>1, <3>2, <3>6, <1>2
  <2>5. c.at = At(c.id)'
    BY <1>2, <2>1, <2>2, <2>3 DEF CursorOK
  <2> QED
    BY <2>1, <2>2, <2>4, <2>5 DEF CursorOK
<1>5. view.phase = "complete" => view.asked.rows \cap held' \subseteq ToSet(view.events)
  <2> SUFFICES ASSUME view.phase = "complete", NEW i \in view.asked.rows, i \in held'
               PROVE  i \in ToSet(view.events)
    OBVIOUS
  <2>1. ShownOK
    BY DEF ViewOK, Walked
  <2>2. i \in Ids
    BY <1>1, <2>1 DEF ShownOK, Ids
  <2> QED
    BY <2>2 DEF ViewOK
<1> QED
  BY <1>3, <1>4, <1>5 DEF ViewOK, Walked, Paging

LEMMA ReportView ==
  ASSUME StoreOK, ViewOK, KeptOK, NEW e \in Edges \cup Logical, NEW t \in BOOLEAN, NEW m \in BOOLEAN,
         Report(e, t, m)
  PROVE  ViewOK'
<1>1. e \in AllEdges
  BY EdgesAreEdges DEF StoreOK
<1>2. redirects' = redirects /\ view' = view
  BY DEF Report
<1>3. /\ StoreOK' /\ Ids \subseteq Ids' /\ \A j \in Ids : written'[j] = written[j]
      /\ \A i \in Ids : i \in held' => i \in held
  BY <1>1, ReportRows, ReportKept
<1>4. \A x, c : x \in Originals(c) => x \in Originals(c)'
  BY <1>1, <1>2, LastTrafficGrows DEF Originals, Mapped, LogicalOf, IsLoop
<1>5. \A n : Root(n)' <=> Root(n)
  BY <1>2 DEF Root
<1> QED
  BY <1>2, <1>3, <1>4, <1>5, ViewStays

LEMMA MergeView ==
  ASSUME StoreOK, ViewOK, KeptOK, NEW keep \in Nodes, NEW drop \in Nodes, Merge(keep, drop)
  PROVE  ViewOK'
<1>1. /\ Root(keep) /\ Root(drop) /\ keep # drop
      /\ redirects' = [n \in Nodes |-> IF redirects[n] = drop THEN keep ELSE redirects[n]]
      /\ UNCHANGED <<written, held, lastTraffic, now, latest, view>>
  BY DEF Merge, Root
<1>2. StoreOK' /\ Ids' = Ids
  BY <1>1, MergeKept DEF Ids
<1>3. ASSUME NEW c \in AllEdges, Root(c[1])', Root(c[2])'
      PROVE  /\ Root(c[1]) /\ Root(c[2])
             /\ \A x : x \in Originals(c) => x \in Originals(c)'
  <2>1. c[1] \in Nodes /\ c[2] \in Nodes
    BY DEF AllEdges
  <2>2. c[1] # drop /\ c[2] # drop /\ Root(c[1]) /\ Root(c[2])
    BY <1>1, <1>3, <2>1 DEF Root
  <2>3. ASSUME NEW x \in Mapped, LogicalOf(x) = c
        PROVE  x \in Mapped' /\ LogicalOf(x)' = c
    <3>1. x[1] \in Nodes /\ x[2] \in Nodes /\ x \in DOMAIN lastTraffic /\ ~IsLoop(x)
      BY EdgesAreEdges DEF StoreOK, AllEdges, Mapped
    <3>2. {redirects[x[1]], redirects[x[2]]} = {c[1], c[2]}
      BY <2>3 DEF LogicalOf
    <3>3. redirects'[x[1]] = redirects[x[1]] /\ redirects'[x[2]] = redirects[x[2]]
      BY <1>1, <2>2, <3>1, <3>2
    <3> QED
      BY <1>1, <2>3, <3>1, <3>3 DEF Mapped, IsLoop, LogicalOf
  <2> QED
    BY <2>2, <2>3 DEF Originals
<1> QED
  BY <1>1, <1>2, <1>3, ViewStays

LEMMA MaintainView ==
  ASSUME StoreOK, ViewOK, KeptOK, Maintain
  PROVE  ViewOK'
<1>1. UNCHANGED <<written, lastTraffic, redirects, view>>
  BY DEF Maintain
<1>2. StoreOK' /\ held' \subseteq held /\ Ids' = Ids
  BY <1>1, MaintainKept DEF Ids
<1>3. \A c : (Originals(c)' = Originals(c)) /\ \A n : (Root(n)' <=> Root(n))
  BY <1>1 DEF Originals, Mapped, LogicalOf, IsLoop, Root
<1> QED
  BY <1>1, <1>2, <1>3, ViewStays

LEMMA TickView ==
  ASSUME StoreOK, ViewOK, KeptOK, NEW t \in Times, Tick(t)
  PROVE  ViewOK'
<1>1. UNCHANGED <<written, held, lastTraffic, redirects, view>>
  BY DEF Tick
<1>2. StoreOK' /\ Ids' = Ids
  BY <1>1, TickKept DEF Ids
<1>3. \A c : (Originals(c)' = Originals(c)) /\ \A n : (Root(n)' <=> Root(n))
  BY <1>1 DEF Originals, Mapped, LogicalOf, IsLoop, Root
<1> QED
  BY <1>1, <1>2, <1>3, ViewStays

-----------------------------------------------------------------------------
(* Pages. *)

LEMMA MaxIs ==
  ASSUME RowsOK, NEW S \in SUBSET Ids
  PROVE  /\ Max(S \cup {0}) \in 0 .. Len(written)
         /\ \A i \in S : i <= Max(S \cup {0})
<1>1. S \cup {0} \in SUBSET Nat /\ S \cup {0} # {} /\ \A i \in S \cup {0} : i <= Len(written)
  BY IdsAreNat DEF Ids
<1>2. Len(written) \in Nat
  BY IdsAreNat
<1>3. \E x \in S \cup {0} : \A y \in S \cup {0} : y <= x
  <2> DEFINE T == S \cup {0}
  <2>1. T \in SUBSET Nat /\ T # {} /\ \A i \in T : i <= Len(written)
    BY <1>1
  <2> HIDE DEF T
  <2>2. \E x \in T : \A y \in T : y <= x
    BY <1>2, <2>1, NatsHaveGreatest
  <2> QED
    BY <2>2 DEF T
<1>4. \E x \in S \cup {0} : \A y \in S \cup {0} : x >= y
  BY <1>1, <1>3
<1>5. Max(S \cup {0}) \in S \cup {0} /\ \A y \in S \cup {0} : Max(S \cup {0}) >= y
  BY <1>4, Zenon DEF Max
<1>6. PICK m : m = Max(S \cup {0})
  OBVIOUS
<1>7. m \in S \cup {0} /\ \A y \in S \cup {0} : m >= y
  BY <1>5, <1>6
<1>8. m \in Nat /\ m <= Len(written)
  BY <1>1, <1>7
<1>9. \A i \in S : i <= m
  BY <1>1, <1>7, <1>8
<1>10. m \in 0 .. Len(written)
  BY <1>2, <1>8
<1> QED
  BY <1>6, <1>9, <1>10, Zenon

\* The rows a page may show.
Left(logical, from, to, cursor) ==
    {i \in Rows(logical, from, to) : i <= HighWater(cursor, logical, to) /\ After(cursor, i)}

\* A page shows the first of what is left in order, and its cursor says where
\* it ends.
LEMMA PageIs ==
  ASSUME RowsOK, NEW logical \in AllEdges, NEW from, NEW to, NEW cursor,
         HighWater(cursor, logical, to) \in Nat
  PROVE  LET page == Page(logical, from, to, cursor)
             left == Left(logical, from, to, cursor)
         IN  /\ page.events \in Seq(left) /\ page.events \in Seq(Ids)
             /\ Rising(page.events)
             /\ page.next = NoCursor => left \subseteq ToSet(page.events)
             /\ page.next # NoCursor =>
                    \E last \in left :
                        /\ page.events # <<>> /\ page.events[Len(page.events)] = last
                        /\ page.next = [at |-> At(last), id |-> last, edge |-> logical,
                                        high |-> HighWater(cursor, logical, to)]
                        /\ \A i \in left : i \in ToSet(page.events) \/ Before(last, i)
<1> DEFINE S    == Left(logical, from, to, cursor)
           high == HighWater(cursor, logical, to)
<1>1. S \in SUBSET Ids
  BY DEF Left, Rows, RowsOK
<1>2. PICK left : left = InOrder(S)
  OBVIOUS
<1>3. left \in Seq(S) /\ left \in Seq(Ids) /\ Rising(left) /\ ToSet(left) = S
  BY <1>1, <1>2, InOrderIs
<1>4. PICK n \in Nat : n = Smaller(PageLimit, Len(left)) /\ n <= Len(left) /\ n <= PageLimit
                      /\ (Len(left) <= PageLimit => n = Len(left))
                      /\ (~(Len(left) <= PageLimit) => n = PageLimit /\ n # 0 /\ n < Len(left))
  <2>1. Len(left) \in Nat /\ PageLimit \in Nat \ {0}
    BY <1>3, PathAssumption
  <2> QED
    BY <2>1 DEF Smaller
<1>5. PICK items : items = SubSeq(left, 1, n)
  OBVIOUS
<1>6. PICK page : page = Page(logical, from, to, cursor)
  OBVIOUS
<1>7. /\ page.events = items
      /\ page.next = IF Len(left) <= PageLimit THEN NoCursor
                     ELSE [at |-> At(Last(items)), id |-> Last(items), edge |-> logical, high |-> high]
  BY <1>2, <1>4, <1>5, <1>6 DEF Page, Left
<1> HIDE DEF S
<1>8. /\ items \in Seq(S) /\ items \in Seq(Ids) /\ Len(items) = n
      /\ \A k \in 1 .. n : items[k] = left[k]
      /\ DOMAIN items = 1 .. n /\ DOMAIN left = 1 .. Len(left) /\ Len(left) \in Nat
  <2>1. \A k \in 1 .. n : left[k] \in S /\ left[k] \in Ids
    BY <1>3, <1>4
  <2>2. \A k \in 1 .. n : 1 + k - 1 = k
    OBVIOUS
  <2>3. items \in Seq(S) /\ items \in Seq(Ids) /\ Len(items) = n /\ \A k \in 1 .. n : items[k] = left[k]
    BY <1>4, <1>5, <2>1, <2>2, SubSeqProperties
  <2> QED
    BY <1>3, <2>3
<1>9. Rising(items)
  <2>1. 1 .. n \subseteq 1 .. Len(left)
    BY <1>4, <1>8
  <2> QED
    BY <1>3, <1>8, <2>1 DEF Rising
<1>10. CASE Len(left) <= PageLimit
  <2>1. page.next = NoCursor /\ n = Len(left)
    BY <1>4, <1>7, <1>10
  <2>2. S \subseteq ToSet(items)
    BY <1>3, <1>8, <2>1 DEF ToSet
  <2> QED
    BY <1>6, <1>7, <1>8, <1>9, <2>1, <2>2 DEF S
<1>11. CASE ~(Len(left) <= PageLimit)
  <2>1. PICK last : last = items[n]
    OBVIOUS
  <2>2. n \in 1 .. n /\ n \in 1 .. Len(left)
    BY <1>4, <1>8, <1>11
  <2>3. last \in S /\ last \in Ids /\ Last(items) = last /\ items # <<>> /\ left[n] = last
    <3>1. items # <<>>
      BY <1>4, <1>8, <1>11
    <3> QED
      BY <1>1, <1>8, <2>1, <2>2, <3>1 DEF Last
  <2>4. page.next = [at |-> At(last), id |-> last, edge |-> logical, high |-> high]
    BY <1>7, <1>11, <2>3
  <2>5. page.next # NoCursor
    <3>1. logical \in Nodes \X Nodes /\ high \in Nat
      BY DEF AllEdges
    <3>2. At(last) \in Nat /\ last \in Nat
      BY <2>3, RowType, IdsAreNat
    <3>3. NoCursor \notin [at : Nat, id : Nat, edge : Nodes \X Nodes, high : Nat]
      BY PathAssumption
    <3> HIDE DEF high
    <3> QED
      BY <2>4, <3>1, <3>2, <3>3
  <2>6. ASSUME NEW i \in S
        PROVE  i \in ToSet(items) \/ Before(last, i)
    <3>1. PICK k \in 1 .. Len(left) : left[k] = i
      BY <1>3, <1>8 DEF ToSet
    <3>2. CASE k <= n
      <4>1. k \in 1 .. n
        BY <3>2
      <4> QED
        BY <1>8, <3>1, <4>1 DEF ToSet
    <3>3. CASE ~(k <= n)
      <4>1. n < k
        BY <3>3, <1>4
      <4> QED
        BY <1>3, <1>8, <2>2, <2>3, <3>1, <4>1 DEF Rising
    <3> QED
      BY <3>2, <3>3
  <2> QED
    BY <1>6, <1>7, <1>8, <1>9, <2>3, <2>4, <2>5, <2>6 DEF S
<1> QED
  BY <1>10, <1>11

LEMMA PageAnchor ==
  ASSUME RowsOK, NEW logical, NEW from, NEW to, NEW cursor
  PROVE  Page(logical, from, to, cursor).anchor \in Ids \cup {0}
<1> DEFINE S == {i \in Rows(logical, 0, from) : i <= HighWater(cursor, logical, to)}
<1>1. S \in SUBSET Ids
  BY DEF Rows, RowsOK
<1>2. Page(logical, from, to, cursor).anchor = Latest(S)
  BY DEF Page
<1> QED
  BY <1>1, <1>2, LatestType

\* Two walks in order, one after the other, are one.
LEMMA RisingConcat ==
  ASSUME RowsOK, NEW s \in Seq(Ids), NEW t \in Seq(Ids), Rising(s), Rising(t),
         \A k \in DOMAIN s, l \in DOMAIN t : Before(s[k], t[l])
  PROVE  Rising(s \o t) /\ ToSet(s \o t) = ToSet(s) \cup ToSet(t)
<1>1. Len(s) \in Nat /\ Len(t) \in Nat /\ DOMAIN s = 1 .. Len(s) /\ DOMAIN t = 1 .. Len(t)
  OBVIOUS
<1>2. PICK u : u = s \o t
  OBVIOUS
<1>3. /\ DOMAIN u = 1 .. Len(s) + Len(t)
      /\ \A k \in 1 .. Len(s) + Len(t) : u[k] = IF k <= Len(s) THEN s[k] ELSE t[k - Len(s)]
  BY <1>2
<1>4. PICK m \in Nat, n \in Nat : m = Len(s) /\ n = Len(t)
  BY <1>1
<1>5. \A k \in 1 .. m + n : \/ k \in 1 .. m /\ u[k] = s[k]
                            \/ ~(k <= m) /\ k - m \in 1 .. n /\ u[k] = t[k - m]
  BY <1>3, <1>4
<1>6. Rising(u)
  <2> SUFFICES ASSUME NEW k \in 1 .. m + n, NEW l \in 1 .. m + n, k < l
               PROVE  Before(u[k], u[l])
    BY <1>3, <1>4 DEF Rising
  <2>1. CASE l <= m
    <3>1. k \in 1 .. m /\ l \in 1 .. m
      BY <2>1
    <3> QED
      BY <1>1, <1>4, <1>5, <3>1 DEF Rising
  <2>2. CASE k <= m /\ ~(l <= m)
    BY <1>1, <1>4, <1>5, <2>2
  <2>3. CASE ~(k <= m)
    <3>1. k - m \in 1 .. n /\ l - m \in 1 .. n /\ k - m < l - m /\ ~(l <= m)
      BY <2>3
    <3>2. u[k] = t[k - m] /\ u[l] = t[l - m]
      BY <1>5, <2>3, <3>1
    <3>3. k - m \in DOMAIN t /\ l - m \in DOMAIN t
      BY <1>1, <1>4, <3>1
    <3>4. Before(t[k - m], t[l - m])
      BY <3>1, <3>3 DEF Rising
    <3> QED
      BY <3>2, <3>4
  <2> QED
    BY <2>1, <2>2, <2>3
<1>7. ToSet(u) = ToSet(s) \cup ToSet(t)
  <2>1. \A k \in 1 .. m : k \in 1 .. m + n /\ u[k] = s[k]
    BY <1>3, <1>4
  <2>2. \A k \in 1 .. n : k + m \in 1 .. m + n /\ u[k + m] = t[k]
    <3> TAKE k \in 1 .. n
    <3>1. k + m \in 1 .. m + n /\ ~(k + m <= m) /\ (k + m) - m = k
      OBVIOUS
    <3> QED
      BY <3>1, <1>5
  <2>3. ToSet(u) \subseteq ToSet(s) \cup ToSet(t)
    BY <1>1, <1>3, <1>4, <1>5 DEF ToSet
  <2>4. ToSet(s) \subseteq ToSet(u)
    BY <1>1, <1>3, <1>4, <2>1 DEF ToSet
  <2>5. ToSet(t) \subseteq ToSet(u)
    <3>1. DOMAIN t = 1 .. n /\ DOMAIN u = 1 .. m + n
      BY <1>1, <1>3, <1>4
    <3>2. ASSUME NEW k \in DOMAIN t
          PROVE  t[k] \in ToSet(u)
      BY <2>2, <3>1 DEF ToSet
    <3> QED
      BY <3>2 DEF ToSet
  <2> QED
    BY <2>3, <2>4, <2>5
<1> QED
  BY <1>2, <1>6, <1>7

-----------------------------------------------------------------------------
(* A page arrives. *)

From == view.to - view.window

\* What there was for the first page to see.
Asked(logical) ==
    IF view.cursor # NoCursor THEN view.asked
    ELSE [rows |-> Rows(logical, From, view.to), upTo |-> Len(written)]

\* Before the page: what was there has been shown or is left, and the rows that
\* are left come after those that were shown.
LEMMA BeforePage ==
  ASSUME StoreOK, ViewOK, Paging, NEW logical \in Logical,
         view.cursor # NoCursor => view.cursor.edge = logical,
         NEW asked, asked = Asked(logical),
         NEW high, high = HighWater(view.cursor, logical, view.to),
         NEW left, left = Left(logical, From, view.to, view.cursor)
  PROVE  /\ high \in Nat /\ asked.upTo \in 0 .. Len(written) /\ high <= asked.upTo
         /\ asked.rows \subseteq 1 .. asked.upTo
         /\ view.events \in Seq(1 .. asked.upTo) /\ view.events \in Seq(Ids) /\ Rising(view.events)
         /\ left \subseteq 1 .. high /\ left \subseteq Ids
         /\ \A i \in asked.rows :
                /\ i <= high
                /\ From <= At(i) /\ At(i) < view.to
                /\ written[i].edge \in Originals(logical)
                /\ i \in held => i \in ToSet(view.events) \/ i \in left
         /\ \A k \in DOMAIN view.events, i \in left : Before(view.events[k], i)
<1>1. view.to \in Int /\ view.window \in Nat /\ From \in Int /\ Len(written) \in Nat
  <2>1. view.to \in Times /\ view.window \in Windows
    BY DEF ViewOK, Paging
  <2>2. view.to \in Int
    BY <2>1, PathAssumption DEF Times
  <2>3. view.window \in Nat
    <3>1. \A w \in Windows : w \in Nat
      BY WindowsAreShort
    <3> QED
      BY <2>1, <3>1
  <2> QED
    BY <2>2, <2>3, IdsAreNat DEF From, StoreOK
<1>2. logical \in AllEdges /\ Root(logical[1]) /\ Root(logical[2])
  BY EdgesAreEdges DEF Logical, StoreOK
<1>3. left \subseteq Ids /\ left \subseteq held /\ \A i \in left : i <= high
  BY DEF Left, Rows, StoreOK, RowsOK
<1>4. ShownOK
  BY DEF ViewOK, Paging, Walked
<1>5. CASE view.cursor = NoCursor
  <2>1. view.events = <<>>
    BY <1>5 DEF ViewOK, Paging
  <2>2. asked.rows = Rows(logical, From, view.to) /\ asked.upTo = Len(written)
    BY <1>5 DEF Asked
  <2>3. high = Max(Rows(logical, 0, view.to) \cup {0})
    BY <1>5 DEF HighWater
  <2>4. Rows(logical, 0, view.to) \in SUBSET Ids /\ asked.rows \subseteq Ids
    BY <2>2 DEF Rows, StoreOK, RowsOK
  <2>5. high \in 0 .. Len(written) /\ \A i \in Rows(logical, 0, view.to) : i <= high
    BY <2>3, <2>4, MaxIs DEF StoreOK
  <2>6. ASSUME NEW i \in asked.rows
        PROVE  /\ i \in held /\ i <= high
               /\ From <= At(i) /\ At(i) < view.to
               /\ written[i].edge \in Originals(logical)
               /\ i \in left
    <3>1. /\ i \in held /\ From <= At(i) /\ At(i) < view.to
          /\ written[i].edge \in Originals(logical)
      BY <2>2 DEF Rows
    <3>2. 0 <= At(i)
      BY <2>4, RowType DEF StoreOK
    <3>3. i \in Rows(logical, 0, view.to) /\ i \in Rows(logical, From, view.to)
      BY <2>2, <3>1, <3>2 DEF Rows
    <3>4. After(view.cursor, i)
      BY <1>5 DEF After
    <3>5. i <= high
      BY <2>5, <3>3
    <3>6. i \in left
      BY <3>3, <3>4, <3>5 DEF Left
    <3> QED
      BY <3>1, <3>5, <3>6
  <2>7. left \subseteq 1 .. high
    BY <1>3, <2>5, <1>1 DEF Ids
  <2>8. view.events \in Seq(1 .. asked.upTo) /\ view.events \in Seq(Ids) /\ DOMAIN view.events = {}
    BY <2>1
  <2>9. Rising(view.events)
    BY <2>8 DEF Rising
  <2>10. asked.rows \subseteq 1 .. asked.upTo /\ asked.upTo \in 0 .. Len(written) /\ high <= asked.upTo /\ high \in Nat
    BY <1>1, <2>2, <2>4, <2>5 DEF Ids
  <2> QED
    BY <1>3, <2>6, <2>7, <2>8, <2>9, <2>10
<1>6. CASE view.cursor # NoCursor
  <2>1. CursorOK /\ asked = view.asked /\ view.cursor.edge = logical /\ high = view.cursor.high
    BY <1>6 DEF ViewOK, Paging, Asked, HighWater
  <2>2. PICK c \in [at : Times, id : Nat, edge : AllEdges, high : Nat] : c = view.cursor
    BY <2>1 DEF CursorOK
  <2>3. /\ c.id \in 1 .. high /\ high \in Nat /\ c.at = At(c.id) /\ high <= asked.upTo
        /\ asked.upTo \in 0 .. Len(written)
    BY <1>4, <2>1, <2>2 DEF CursorOK, ShownOK
  <2>4. PICK s \in Seq(1 .. asked.upTo) : s = view.events
    BY <1>4, <2>1 DEF ShownOK
  <2>5. s \in Seq(Ids) /\ Rising(s) /\ s # <<>> /\ s[Len(s)] = c.id /\ c.id \in Ids
    <3>1. 1 .. asked.upTo \subseteq Ids /\ c.id \in Ids
      BY <1>1, <2>3 DEF Ids
    <3>2. s \in Seq(Ids)
      BY <2>4, <3>1, SeqMonotonic
    <3> QED
      BY <1>4, <2>1, <2>2, <2>4, <3>1, <3>2 DEF CursorOK, ShownOK
  <2>6. \A i \in Ids : After(c, i) <=> Before(c.id, i)
    BY <1>6, <2>2, <2>3 DEF After, Before
  <2>7. ASSUME NEW i \in asked.rows
        PROVE  /\ i <= high
               /\ From <= At(i) /\ At(i) < view.to
               /\ written[i].edge \in Originals(logical)
               /\ i \in held => i \in ToSet(s) \/ i \in left
    <3>1. /\ i <= high
          /\ From <= At(i) /\ At(i) < view.to
          /\ written[i].edge \in Originals(logical)
          /\ i \in held => i \in ToSet(view.events) \/ After(view.cursor, i)
      BY <1>2, <2>1, <2>2 DEF CursorOK, From
    <3>2. i \in held /\ After(view.cursor, i) => i \in left
      BY <3>1, <2>1 DEF Left, Rows, HighWater
    <3> QED
      BY <3>1, <3>2, <2>4
  <2>8. ASSUME NEW k \in DOMAIN s, NEW i \in left
        PROVE  Before(s[k], i)
    <3>1. Before(c.id, i) /\ i \in Ids
      BY <1>3, <2>2, <2>6 DEF Left
    <3>2. k \in 1 .. Len(s) /\ Len(s) \in Nat /\ DOMAIN s = 1 .. Len(s) /\ s[k] \in Ids
      BY <2>5
    <3>3. CASE k = Len(s)
      BY <2>5, <3>1, <3>3
    <3>4. CASE k # Len(s)
      <4>1. k < Len(s) /\ Len(s) \in DOMAIN s
        BY <3>2, <3>4
      <4>2. Before(s[k], c.id)
        BY <2>5, <3>2, <4>1 DEF Rising
      <4> QED
        BY <2>5, <3>1, <3>2, <4>2, BeforeOrder DEF StoreOK
    <3> QED
      BY <3>3, <3>4
  <2>9. left \subseteq 1 .. high
    BY <1>3, <2>3, <1>1 DEF Ids
  <2>10. asked.rows \subseteq 1 .. asked.upTo
    BY <1>4, <2>1 DEF ShownOK
  <2> QED
    BY <1>3, <2>3, <2>4, <2>5, <2>7, <2>8, <2>9, <2>10
<1> QED
  BY <1>5, <1>6

\* The cursor for the next page: the last event shown, and every row asked for
\* and still held is either shown or comes after it.
NextIs(asked, page, events) ==
    \E c \in [at : Times, id : Nat, edge : AllEdges, high : Nat] :
        /\ c = page.next
        /\ c.id \in 1 .. c.high /\ c.high <= asked.upTo /\ c.at = At(c.id)
        /\ events # <<>> /\ events[Len(events)] = c.id
        /\ \A i \in asked.rows :
               /\ i <= c.high
               /\ From <= At(i) /\ At(i) < view.to
               /\ written[i].edge \in Originals(c.edge)
               /\ i \in held => i \in ToSet(events) \/ After(c, i)

\* After it: the same, of the events shown with the page.
LEMMA AfterPage ==
  ASSUME StoreOK, ViewOK, Paging, NEW logical \in Logical,
         view.cursor # NoCursor => view.cursor.edge = logical,
         NEW asked, asked = Asked(logical),
         NEW page, page = Page(logical, From, view.to, view.cursor),
         NEW events, events = view.events \o page.events
  PROVE  /\ asked.upTo \in 0 .. Len(written) /\ asked.rows \subseteq 1 .. asked.upTo
         /\ events \in Seq(1 .. asked.upTo) /\ Rising(events)
         /\ page.anchor \in Ids \cup {0}
         /\ page.next = NoCursor => asked.rows \cap held \subseteq ToSet(events)
         /\ page.next # NoCursor => NextIs(asked, page, events)
<1>1. PICK high : high = HighWater(view.cursor, logical, view.to)
  OBVIOUS
<1>2. PICK left : left = Left(logical, From, view.to, view.cursor)
  OBVIOUS
<1>3. /\ high \in Nat /\ asked.upTo \in 0 .. Len(written) /\ high <= asked.upTo
      /\ asked.rows \subseteq 1 .. asked.upTo
      /\ view.events \in Seq(1 .. asked.upTo) /\ view.events \in Seq(Ids) /\ Rising(view.events)
      /\ left \subseteq 1 .. high /\ left \subseteq Ids
      /\ \A i \in asked.rows :
             /\ i <= high
             /\ From <= At(i) /\ At(i) < view.to
             /\ written[i].edge \in Originals(logical)
             /\ i \in held => i \in ToSet(view.events) \/ i \in left
      /\ \A k \in DOMAIN view.events, i \in left : Before(view.events[k], i)
  BY <1>1, <1>2, BeforePage
<1>4. logical \in AllEdges /\ RowsOK
  BY EdgesAreEdges DEF StoreOK
<1>5. /\ page.events \in Seq(left) /\ page.events \in Seq(Ids)
      /\ Rising(page.events)
      /\ page.next = NoCursor => left \subseteq ToSet(page.events)
      /\ page.next # NoCursor =>
             \E last \in left :
                 /\ page.events # <<>> /\ page.events[Len(page.events)] = last
                 /\ page.next = [at |-> At(last), id |-> last, edge |-> logical, high |-> high]
                 /\ \A i \in left : i \in ToSet(page.events) \/ Before(last, i)
  BY <1>1, <1>2, <1>3, <1>4, PageIs
<1>6. page.anchor \in Ids \cup {0}
  BY <1>4, PageAnchor
<1>7. PICK s : s = view.events
  OBVIOUS
<1>8. PICK t : t = page.events
  OBVIOUS
<1>9. /\ s \in Seq(1 .. asked.upTo) /\ s \in Seq(Ids) /\ Rising(s)
      /\ t \in Seq(left) /\ t \in Seq(Ids) /\ Rising(t) /\ events = s \o t
  BY <1>3, <1>5, <1>7, <1>8
<1>10. Rising(events) /\ ToSet(events) = ToSet(s) \cup ToSet(t)
  <2>1. \A k \in DOMAIN s, l \in DOMAIN t : Before(s[k], t[l])
    <3>1. \A l \in DOMAIN t : t[l] \in left
      BY <1>9
    <3> QED
      BY <1>3, <1>7, <3>1
  <2> QED
    BY <1>4, <1>9, <2>1, RisingConcat
<1>11. events \in Seq(1 .. asked.upTo)
  <2>1. left \subseteq 1 .. asked.upTo
    BY <1>3
  <2>2. t \in Seq(1 .. asked.upTo)
    BY <1>9, <2>1, SeqMonotonic
  <2> QED
    BY <1>9, <2>2, ConcatProperties
<1>12. page.next = NoCursor => asked.rows \cap held \subseteq ToSet(events)
  BY <1>3, <1>5, <1>7, <1>8, <1>10
<1>13. ASSUME page.next # NoCursor
       PROVE  NextIs(asked, page, events)
  <2>1. PICK last \in left :
                 /\ t # <<>> /\ t[Len(t)] = last
                 /\ page.next = [at |-> At(last), id |-> last, edge |-> logical, high |-> high]
                 /\ \A i \in left : i \in ToSet(t) \/ Before(last, i)
    BY <1>5, <1>8, <1>13
  <2>2. PICK c : c = [at |-> At(last), id |-> last, edge |-> logical, high |-> high]
    OBVIOUS
  <2>3. /\ c.at = At(last) /\ c.id = last /\ c.edge = logical /\ c.high = high
        /\ c \in [at : Times, id : Nat, edge : AllEdges, high : Nat]
    BY <1>3, <1>4, <2>1, <2>2, RowType, IdsAreNat
  <2>4. events # <<>> /\ events[Len(events)] = last
    <3>1. Len(t) \in Nat \ {0} /\ Len(s) \in Nat /\ Len(events) = Len(s) + Len(t)
      BY <1>9, <2>1, ConcatProperties, EmptySeq
    <3>2. Len(events) \in 1 .. Len(s) + Len(t) /\ ~(Len(events) <= Len(s)) /\ Len(events) - Len(s) = Len(t)
      BY <3>1
    <3>3. \A i \in 1 .. Len(s) + Len(t) : (s \o t)[i] = IF i <= Len(s) THEN s[i] ELSE t[i - Len(s)]
      BY <1>9, ConcatProperties
    <3>4. events[Len(events)] = t[Len(t)]
      BY <1>9, <3>2, <3>3
    <3>5. events # <<>>
      <4>1. Len(events) # 0
        BY <3>1
      <4> QED
        BY <4>1, EmptySeq
    <3> QED
      BY <2>1, <3>4, <3>5
  <2>5. \A i \in Ids : Before(last, i) => After(c, i)
    BY <2>3 DEF After, Before
  <2>6. \A i \in asked.rows : i \in held => i \in ToSet(events) \/ After(c, i)
    BY <1>3, <1>7, <1>10, <2>1, <2>5
  <2>7. last \in 1 .. high
    BY <1>3, <2>1
  <2> QED
    BY <1>3, <2>1, <2>2, <2>3, <2>4, <2>6, <2>7 DEF NextIs
<1> QED
  BY <1>3, <1>6, <1>10, <1>11, <1>12, <1>13

LEMMA StillWrites ==
  ASSUME StoreOK, KeptOK, UNCHANGED <<storeVars, now, latest>>
  PROVE  /\ StoreOK' /\ KeptOK'
         /\ Ids' = Ids /\ \A i : At(i)' = At(i)
         /\ \A i, j : Before(i, j)' <=> Before(i, j)
         /\ \A n : Root(n)' <=> Root(n)
         /\ \A c : Originals(c)' = Originals(c)
<1>1. UNCHANGED <<written, held, lastTraffic, redirects, kept, now, latest>>
  BY DEF storeVars
<1>2. \A x : (LogicalOf(x)' = LogicalOf(x)) /\ (IsLoop(x)' <=> IsLoop(x)) /\ (At(x)' = At(x))
  BY <1>1 DEF LogicalOf, IsLoop, At
<1>3. StoreOK'
  BY <1>1 DEF StoreOK, RowsOK, RedirectsOK, ClockOK, Ids, Root
<1>4. KeptOK'
  BY <1>1, <1>2 DEF KeptOK, StoodFor, Stands, Ids, Mapped, Retained, Before
<1> QED
  BY <1>1, <1>2, <1>3, <1>4 DEF Ids, Before, Root, Originals, Mapped

LEMMA OpenView ==
  ASSUME StoreOK, KeptOK, ViewOK, NEW e \in Edges \cup Logical, NEW w \in Windows, Open(e, w)
  PROVE  ViewOK'
<1>1. UNCHANGED <<storeVars, now, latest>>
  BY DEF Open
<1>2. PICK logical : logical = CanonicalOf(e)
  OBVIOUS
<1>3. CASE logical \notin Logical
  <2>1. view' = [phase |-> "failed"]
    BY <1>2, <1>3 DEF Open
  <2> QED
    BY <2>1 DEF ViewOK, Walked, Paging
<1>4. CASE logical \in Logical
  <2>1. PICK anchor : anchor = AnchorOf(logical, now - w)
    OBVIOUS
  <2>2. view' = [phase |-> "paging", edge |-> e, window |-> w, to |-> now,
                 anchor |-> anchor, events |-> <<>>,
                 cursor |-> NoCursor, asked |-> [rows |-> {}, upTo |-> 0]]
    BY <1>2, <1>4, <2>1 DEF Open
  <2>3. anchor \in Ids \cup {0}
    <3>1. Rows(logical, 0, now - w) \in SUBSET Ids
      BY DEF Rows, StoreOK, RowsOK
    <3> QED
      BY <2>1, <3>1, LatestType DEF AnchorOf, StoreOK
  <2>4. e \in AllEdges /\ now \in Times
    BY EdgesAreEdges DEF StoreOK, ClockOK
  <2>5. Ids' = Ids /\ written' = written /\ Len(written) \in Nat
    BY <1>1, IdsAreNat DEF storeVars, Ids, StoreOK
  <2>6. /\ view'.phase = "paging" /\ view'.edge = e /\ view'.window = w /\ view'.to = now
        /\ view'.anchor = anchor /\ view'.events = <<>> /\ view'.cursor = NoCursor
        /\ view'.asked.rows = {} /\ view'.asked.upTo = 0
    BY <2>2
  <2>7. ShownOK'
    <3>1. <<>> \in Seq(1 .. 0) /\ DOMAIN <<>> = {}
      OBVIOUS
    <3>2. Rising(<<>>)'
      BY <3>1 DEF Rising
    <3> QED
      BY <2>3, <2>5, <2>6, <3>1, <3>2 DEF ShownOK
  <2> QED
    BY <2>4, <2>6, <2>7 DEF ViewOK, Walked, Paging
<1> QED
  BY <1>3, <1>4

LEMMA PageView ==
  ASSUME StoreOK, KeptOK, ViewOK, PageArrives
  PROVE  ViewOK'
<1>1. Paging /\ UNCHANGED <<storeVars, now, latest>>
  BY DEF PageArrives, Paging
<1>2. PICK logical : logical = CanonicalOf(view.edge)
  OBVIOUS
<1>3. PICK page : page = Page(logical, From, view.to, view.cursor)
  OBVIOUS
<1>4. PICK asked : asked = Asked(logical)
  OBVIOUS
<1>5. PICK events : events = view.events \o page.events
  OBVIOUS
<1>6. PICK anchor : anchor = IF view.cursor = NoCursor /\ page.anchor # 0 THEN page.anchor ELSE view.anchor
  OBVIOUS
<1>7. /\ logical \in Logical
      /\ view.cursor # NoCursor => view.cursor.edge = logical
      /\ view' = IF page.next = NoCursor
                 THEN [phase |-> "complete", anchor |-> anchor, events |-> events, asked |-> asked]
                 ELSE [view EXCEPT !.anchor = anchor, !.events = events, !.asked = asked,
                                   !.cursor = page.next]
  BY <1>2, <1>3, <1>4, <1>5, <1>6 DEF PageArrives, From, Asked
<1>8. /\ asked.upTo \in 0 .. Len(written) /\ asked.rows \subseteq 1 .. asked.upTo
      /\ events \in Seq(1 .. asked.upTo) /\ Rising(events)
      /\ page.anchor \in Ids \cup {0}
      /\ page.next = NoCursor => asked.rows \cap held \subseteq ToSet(events)
      /\ page.next # NoCursor => NextIs(asked, page, events)
  BY <1>1, <1>3, <1>4, <1>5, <1>7, AfterPage
<1>9. anchor \in Ids \cup {0}
  BY <1>1, <1>6, <1>8 DEF ViewOK, Walked, Paging, ShownOK
<1>10. /\ written' = written /\ held' = held /\ Ids' = Ids /\ (Rising(events)' <=> Rising(events))
       /\ \A i : At(i)' = At(i)
       /\ \A c, i : After(c, i)' <=> After(c, i)
       /\ \A n : Root(n)' <=> Root(n)
       /\ \A c : Originals(c)' = Originals(c)
  BY <1>1, StillWrites DEF storeVars, Rising, After
<1>11. CASE page.next = NoCursor
  <2>1. /\ view'.phase = "complete" /\ view'.anchor = anchor /\ view'.events = events
        /\ view'.asked = asked
    BY <1>7, <1>11
  <2>2. ShownOK'
    BY <1>8, <1>9, <1>10, <2>1 DEF ShownOK
  <2> QED
    BY <1>8, <1>10, <1>11, <2>1, <2>2 DEF ViewOK, Walked, Paging
<1>12. CASE page.next # NoCursor
  <2>1. PICK c \in [at : Times, id : Nat, edge : AllEdges, high : Nat] :
            /\ c = page.next
            /\ c.id \in 1 .. c.high /\ c.high <= asked.upTo /\ c.at = At(c.id)
            /\ events # <<>> /\ events[Len(events)] = c.id
            /\ \A i \in asked.rows :
                   /\ i <= c.high
                   /\ From <= At(i) /\ At(i) < view.to
                   /\ written[i].edge \in Originals(c.edge)
                   /\ i \in held => i \in ToSet(events) \/ After(c, i)
    BY <1>8, <1>12 DEF NextIs
  <2>2. /\ view'.phase = "paging" /\ view'.edge = view.edge /\ view'.window = view.window
        /\ view'.to = view.to /\ view'.anchor = anchor /\ view'.events = events
        /\ view'.asked = asked /\ view'.cursor = c
    BY <1>1, <1>7, <1>12, <2>1 DEF Paging
  <2>3. ShownOK'
    BY <1>8, <1>9, <1>10, <2>2 DEF ShownOK
  <2>4. CursorOK'
    BY <1>10, <2>1, <2>2 DEF CursorOK, From
  <2>5. view.edge \in AllEdges /\ view.window \in Windows /\ view.to \in Times
    BY <1>1 DEF ViewOK
  <2>6. c # NoCursor
    BY <2>1, <1>12
  <2> QED
    BY <2>2, <2>3, <2>4, <2>5, <2>6 DEF ViewOK, Walked, Paging
<1> QED
  BY <1>11, <1>12

LEMMA ViewEnds ==
  ASSUME StoreOK, KeptOK, ViewOK, CursorRefused \/ PageNotFound \/ PageFails
  PROVE  StoreOK' /\ KeptOK' /\ ViewOK'
<1>1. UNCHANGED <<storeVars, now, latest>> /\ view'.phase \in {"failed", "embedded"}
  BY DEF CursorRefused, PageNotFound, PageFails
<1> QED
  BY <1>1, StillWrites DEF ViewOK, Walked, Paging

-----------------------------------------------------------------------------
(* The invariant. *)

LEMMA InvInit == Init => Inv
<1> SUFFICES ASSUME Init PROVE Inv
  OBVIOUS
<1>1. /\ written = <<>> /\ held = {} /\ lastTraffic = <<>> /\ kept = {}
      /\ redirects = [n \in Nodes |-> n] /\ now = 0 /\ latest = 0 /\ view = [phase |-> "closed"]
  BY DEF Init
<1>2. RowsOK
  BY <1>1 DEF RowsOK
<1>3. RedirectsOK /\ ClockOK /\ KeptOK
  BY <1>1, PathAssumption DEF RedirectsOK, Root, ClockOK, Times, KeptOK
<1>4. ViewOK
  BY <1>1 DEF ViewOK, Walked, Paging
<1> QED
  BY <1>2, <1>3, <1>4 DEF Inv, StoreOK

LEMMA InvStep == Inv /\ [Next]_vars => Inv'
<1> SUFFICES ASSUME Inv, [Next]_vars PROVE Inv'
  OBVIOUS
<1> USE DEF Inv
<1>1. ASSUME NEW e \in Edges \cup Logical, NEW t \in BOOLEAN, NEW m \in BOOLEAN, Report(e, t, m)
      PROVE  Inv'
  BY <1>1, ReportKept, ReportView
<1>2. ASSUME NEW m \in Merges, Merge(m[1], m[2])
      PROVE  Inv'
  <2>1. m[1] \in Nodes /\ m[2] \in Nodes
    BY PathAssumption
  <2> QED
    BY <1>2, <2>1, MergeKept, MergeView
<1>3. CASE Maintain
  BY <1>3, MaintainKept, MaintainView
<1>4. ASSUME NEW t \in Times, Tick(t)
      PROVE  Inv'
  BY <1>4, TickKept, TickView
<1>5. ASSUME NEW e \in Edges \cup Logical, NEW w \in Windows, Open(e, w)
      PROVE  Inv'
  <2>1. UNCHANGED <<storeVars, now, latest>>
    BY <1>5 DEF Open
  <2> QED
    BY <1>5, <2>1, OpenView, StillWrites
<1>6. CASE PageArrives
  <2>1. UNCHANGED <<storeVars, now, latest>>
    BY <1>6 DEF PageArrives
  <2> QED
    BY <1>6, <2>1, PageView, StillWrites
<1>7. CASE CursorRefused \/ PageNotFound \/ PageFails
  BY <1>7, ViewEnds
<1>8. CASE UNCHANGED vars
  <2>1. UNCHANGED <<storeVars, now, latest>> /\ view' = view
    BY <1>8 DEF vars
  <2>2. StoreOK' /\ KeptOK' /\ Ids' = Ids
    BY <2>1, StillWrites
  <2>3. \A c : (Originals(c)' = Originals(c)) /\ \A n : (Root(n)' <=> Root(n))
    BY <2>1, StillWrites
  <2>4. written' = written /\ held' = held
    BY <2>1 DEF storeVars
  <2>5. ViewOK'
    BY <2>1, <2>2, <2>3, <2>4, ViewStays
  <2> QED
    BY <2>2, <2>5
<1> QED
  BY <1>1, <1>2, <1>3, <1>4, <1>5, <1>6, <1>7, <1>8 DEF Next

THEOREM InvAlways == Spec => []Inv
  BY InvInit, InvStep, PTL DEF Spec

LEMMA TypeFromInv == Inv => TypeOK
<1> SUFFICES ASSUME Inv PROVE TypeOK
  OBVIOUS
<1>1. /\ written \in Seq([edge : AllEdges, at : Times])
      /\ held \subseteq Ids /\ kept \subseteq Ids
      /\ DOMAIN lastTraffic \subseteq AllEdges /\ Range(lastTraffic) \subseteq Times
      /\ redirects \in [Nodes -> Nodes] /\ now \in Times /\ latest \in Times
  BY DEF Inv, StoreOK, RowsOK, RedirectsOK, ClockOK, KeptOK, Range
<1>2. ASSUME Walked
      PROVE  view.anchor \in Ids \cup {0} /\ view.asked.rows \subseteq Ids /\ view.events \in Seq(Ids)
  <2>1. ShownOK
    BY <1>2 DEF Inv, ViewOK
  <2>2. 1 .. view.asked.upTo \subseteq Ids
    BY <2>1, IdsAreNat DEF ShownOK, Ids, Inv, StoreOK
  <2>3. view.events \in Seq(Ids)
    BY <2>1, <2>2, SeqMonotonic DEF ShownOK
  <2> QED
    BY <2>1, <2>2, <2>3 DEF ShownOK
<1>3. view.phase \in {"closed", "paging", "complete", "embedded", "failed"}
  BY DEF Inv, ViewOK
<1>4. ASSUME Paging
      PROVE  /\ view.edge \in AllEdges /\ view.window \in Windows /\ view.to \in Times
             /\ view.cursor # NoCursor => view.cursor.id \in 1 .. view.cursor.high
  BY <1>4 DEF Inv, ViewOK, CursorOK
<1> QED
  BY <1>1, <1>2, <1>3, <1>4 DEF TypeOK, Walked, Paging

LEMMA WalkFromInv == Inv => WalkIsExact
<1> SUFFICES ASSUME Inv, Walked PROVE
        LET shown == ToSet(view.events)
        IN  /\ \A k \in 1 .. Len(view.events) - 1 : Before(view.events[k], view.events[k + 1])
            /\ view.phase = "complete" => view.asked.rows \cap held \subseteq shown
            /\ \A i \in shown : i <= view.asked.upTo
  BY DEF WalkIsExact, Walked
<1>1. ShownOK /\ (view.phase = "complete" => view.asked.rows \cap held \subseteq ToSet(view.events))
  BY DEF Inv, ViewOK
<1>2. PICK s \in Seq(1 .. view.asked.upTo) : s = view.events
  BY <1>1 DEF ShownOK
<1>3. \A k \in 1 .. Len(s) - 1 : Before(s[k], s[k + 1])
  <2> TAKE k \in 1 .. Len(s) - 1
  <2>1. DOMAIN s = 1 .. Len(s) /\ Len(s) \in Nat
    BY <1>2
  <2>2. k \in 1 .. Len(s) /\ k + 1 \in 1 .. Len(s) /\ k < k + 1
    BY <2>1
  <2> QED
    BY <1>1, <1>2, <2>1, <2>2 DEF ShownOK, Rising
<1>4. \A i \in ToSet(s) : i <= view.asked.upTo
  <2>1. \A k \in DOMAIN s : s[k] \in 1 .. view.asked.upTo
    BY ElementOfSeq, LenProperties
  <2>2. \A k \in DOMAIN s : s[k] <= view.asked.upTo
    <3>1. view.asked.upTo \in Int
      BY <1>1 DEF ShownOK
    <3> QED
      BY <2>1, <3>1
  <2> QED
    BY <2>2 DEF ToSet
<1> QED
  BY <1>1, <1>2, <1>3, <1>4

\* Rows, edges, redirects, the clock and the browser's walk keep their types,
\* for any nodes, windows, retention, page size and slip of the clock.
THEOREM TypeCorrect == Spec => []TypeOK
  BY InvAlways, TypeFromInv, PTL

\* As long as an edge has retained traffic, no window of it ever opens without
\* its anchor: the row that maintenance keeps for an edge stands for all the
\* older ones, through merges and a clock set back (maintainPathAnchors).
THEOREM NoAnchorIsLost == Spec => []AnchorKept
<1>1. Inv => AnchorKept
  BY AnchorFromInv DEF Inv
<1> QED
  BY <1>1, InvAlways, PTL

\* Pages of one walk put together are exact, of whatever size they are and
\* whatever is written, merged and deleted between two of them
\* (EdgePathHistoryWindow).
THEOREM WalksAreExact == Spec => []WalkIsExact
  BY InvAlways, WalkFromInv, PTL
=============================================================================
