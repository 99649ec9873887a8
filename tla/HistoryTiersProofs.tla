------------------------- MODULE HistoryTiersProofs -------------------------
(* Proofs about HistoryTiers, for every set of nodes, every retention and      *)
(* every interval its assumptions allow.                                       *)
(*                                                                             *)
(* The first part are facts about sums: what SumFunction, defined by a         *)
(* recursive function over subsets, adds up is the cardinality of a set of     *)
(* units, so that facts about sums follow from facts about cardinalities.      *)
(*                                                                             *)
(* The inductive invariant Inv relates every table to the ledger, the history  *)
(* of all that was written: a raw row is the ledger's, a minute is what the    *)
(* ledger carried in it, an hour is between what any one alias carried and     *)
(* what all did, and each tier is complete up to its cursor and since its age. *)
(* The three readings of the tables are then sums over rows, each between      *)
(* what the ledger carried in the time the row stands for.                     *)
EXTENDS HistoryTiers, FiniteSetTheorems, WellFoundedInduction, TLAPS

\* A set of naturals that is not empty has a least member.
LEMMA NatsHaveLeast ==
  ASSUME NEW S \in SUBSET Nat, S # {}
  PROVE  \E x \in S : \A y \in S : x <= y
<1>1. PICK x \in S : \A y \in S : ~(<<y, x>> \in OpToRel(<, Nat))
  BY NatLessThanWellFounded, WFMin
<1>2. \A y \in S : ~(y < x)
  BY <1>1 DEF OpToRel
<1> QED
  BY <1>2

-----------------------------------------------------------------------------
(* Sums of functions. *)

\* A set of subsets that holds the empty one, and every one all of whose parts
\* with one element less it holds, holds the whole set.
LEMMA SetInduction ==
  ASSUME NEW S, IsFiniteSet(S), NEW Good, {} \in Good,
         \A T \in SUBSET S : T # {} /\ (\A x \in T : T \ {x} \in Good) => T \in Good
  PROVE  S \in Good
<1> SUFFICES ASSUME S \notin Good
             PROVE  FALSE
  OBVIOUS
<1> DEFINE Sizes == {n \in Nat : \E T \in SUBSET S : T \notin Good /\ Cardinality(T) = n}
<1>1. Cardinality(S) \in Sizes
  BY FS_CardinalityType
<1>2. PICK n \in Sizes : \A m \in Sizes : n <= m
  BY <1>1, NatsHaveLeast
<1>3. PICK T \in SUBSET S : T \notin Good /\ Cardinality(T) = n
  BY <1>2
<1>4. IsFiniteSet(T)
  BY FS_Subset
<1>5. PICK x \in T : T \ {x} \notin Good
  BY <1>3
<1>6. IsFiniteSet(T \ {x}) /\ Cardinality(T \ {x}) = n - 1 /\ Cardinality(T \ {x}) \in Nat
  BY <1>3, <1>4, <1>5, FS_RemoveElement, FS_CardinalityType
<1>8. T \ {x} \in SUBSET S
  BY <1>3
<1>9. n - 1 \in Sizes
  BY <1>5, <1>6, <1>8
<1> QED
  BY <1>2, <1>9

\* A function of counts, and the units that make up the counts of a set.
Counts(f) == IsFiniteSet(DOMAIN f) /\ f \in [DOMAIN f -> Nat]

UnitsOf(f, S) == {p \in S \X Nat : 1 <= p[2] /\ p[2] <= f[p[1]]}

\* The units of a set are those of its member x and those of the rest.
LEMMA UnitsOfOneMore ==
  ASSUME NEW f, NEW S, NEW x \in S, f[x] \in Nat, IsFiniteSet(UnitsOf(f, S \ {x}))
  PROVE  /\ IsFiniteSet(UnitsOf(f, S))
         /\ Cardinality(UnitsOf(f, S)) = f[x] + Cardinality(UnitsOf(f, S \ {x}))
<1> DEFINE rest == UnitsOf(f, S \ {x})
           own  == {x} \X (1 .. f[x])
<1>1. UnitsOf(f, S) = rest \cup own
  BY DEF UnitsOf
<1>2. rest \cap own = {}
  BY DEF UnitsOf
<1>3. IsFiniteSet(own) /\ Cardinality(own) = f[x]
  <2>1. IsFiniteSet(1 .. f[x]) /\ Cardinality(1 .. f[x]) = f[x]
    <3>1. PICK n \in Nat : n = f[x]
      OBVIOUS
    <3>2. IsFiniteSet(1 .. n) /\ Cardinality(1 .. n) = IF 1 > n THEN 0 ELSE n - 1 + 1
      BY FS_Interval
    <3>3. (IF 1 > n THEN 0 ELSE n - 1 + 1) = n
      OBVIOUS
    <3> QED
      BY <3>1, <3>2, <3>3
  <2>2. IsFiniteSet({x}) /\ Cardinality({x}) = 1
    BY FS_Singleton
  <2>3. IsFiniteSet(own) /\ Cardinality(own) = Cardinality({x}) * Cardinality(1 .. f[x])
    BY <2>1, <2>2, FS_Product
  <2> HIDE DEF own
  <2>4. 1 * f[x] = f[x]
    OBVIOUS
  <2> QED
    BY <2>1, <2>2, <2>3, <2>4
<1> HIDE DEF rest, own
<1>4. Cardinality(rest) \in Nat
  BY FS_CardinalityType DEF rest
<1>5. /\ IsFiniteSet(rest \cup own)
      /\ Cardinality(rest \cup own) = Cardinality(rest) + Cardinality(own) - Cardinality(rest \cap own)
  <2>1. IsFiniteSet(rest)
    BY DEF rest
  <2> QED
    BY <2>1, <1>3, FS_Union
<1>6. Cardinality(rest \cup own) = Cardinality(rest) + f[x]
  <2>1. Cardinality(rest \cap own) = 0
    BY <1>2, FS_EmptySet, Zenon
  <2>2. \A c \in Nat : c + f[x] - 0 = c + f[x]
    OBVIOUS
  <2> QED
    BY <1>3, <1>4, <1>5, <2>1, <2>2
<1> QED
  BY <1>1, <1>4, <1>5, <1>6 DEF rest

\* A function of naturals on a finite set has finitely many units.
LEMMA UnitsFinite ==
  ASSUME NEW f, Counts(f), NEW S \in SUBSET DOMAIN f
  PROVE  IsFiniteSet(UnitsOf(f, S))
<1> DEFINE Good == {T \in SUBSET S : IsFiniteSet(UnitsOf(f, T))}
<1>1. IsFiniteSet(S)
  BY FS_Subset DEF Counts
<1>2. UnitsOf(f, {}) = {}
  BY DEF UnitsOf
<1>3. {} \in Good
  BY <1>2, FS_EmptySet
<1>4. ASSUME NEW T \in SUBSET S, T # {}, \A x \in T : T \ {x} \in Good
      PROVE  T \in Good
  <2>1. PICK x \in T : T \ {x} \in Good
    BY <1>4
  <2>2. f[x] \in Nat
    BY DEF Counts
  <2> QED
    BY <2>1, <2>2, UnitsOfOneMore
<1>5. S \in Good
  <2> HIDE DEF Good
  <2> QED
    BY <1>1, <1>3, <1>4, SetInduction
<1> QED
  BY <1>5

\* The steps by which SumFunction adds up.
SumSteps(f, h) ==
    h = [s \in SUBSET DOMAIN f |->
            IF s = {} THEN 0 ELSE f[CHOOSE x \in s : TRUE] + h[s \ {CHOOSE x \in s : TRUE}]]

\* A function that adds member by member, as the fold does, counts the units.
LEMMA SumStepsCount ==
  ASSUME NEW f, Counts(f), NEW h, SumSteps(f, h)
  PROVE  h[DOMAIN f] = Cardinality(UnitsOf(f, DOMAIN f))
<1> DEFINE Good == {T \in SUBSET DOMAIN f : \A U \in SUBSET T : h[U] = Cardinality(UnitsOf(f, U))}
<1>1. UnitsOf(f, {}) = {}
  BY DEF UnitsOf
<1>2. h[{}] = 0
  BY DEF SumSteps
<1>3. {} \in Good
  BY <1>1, <1>2, FS_EmptySet
<1>4. ASSUME NEW T \in SUBSET DOMAIN f, \A x \in T : T \ {x} \in Good
      PROVE  T \in Good
  <2> SUFFICES ASSUME NEW U \in SUBSET T
               PROVE  h[U] = Cardinality(UnitsOf(f, U))
    OBVIOUS
  <2>1. CASE U = {}
    BY <2>1, <1>1, <1>2, FS_EmptySet
  <2>2. CASE U # {}
    <3> DEFINE x == CHOOSE x \in U : TRUE
    <3>1. x \in U
      BY <2>2
    <3>2. U \in SUBSET DOMAIN f
      OBVIOUS
    <3>3. h[U] = f[x] + h[U \ {x}]
      BY <2>2, <3>2 DEF SumSteps
    <3> HIDE DEF x
    <3>4. U \ {x} \in SUBSET (T \ {x}) /\ x \in T
      BY <3>1
    <3>5. h[U \ {x}] = Cardinality(UnitsOf(f, U \ {x}))
      BY <3>4, <1>4
    <3>6. f[x] \in Nat
      BY <3>1, <3>2 DEF Counts
    <3>7. IsFiniteSet(UnitsOf(f, U \ {x}))
      BY <3>2, UnitsFinite
    <3>8. Cardinality(UnitsOf(f, U)) = f[x] + Cardinality(UnitsOf(f, U \ {x}))
      BY <3>1, <3>6, <3>7, UnitsOfOneMore
    <3> QED
      BY <3>3, <3>5, <3>8
  <2> QED
    BY <2>1, <2>2
<1>5. DOMAIN f \in Good
  <2>1. IsFiniteSet(DOMAIN f)
    BY DEF Counts
  <2> HIDE DEF Good
  <2> QED
    BY <2>1, <1>3, <1>4, SetInduction
<1> QED
  BY <1>5

\* A sum counts the units.
LEMMA SumCountsUnits ==
  ASSUME NEW f, Counts(f)
  PROVE  SumFunction(f) = Cardinality(UnitsOf(f, DOMAIN f))
<1> DEFINE h == [s \in SUBSET DOMAIN f |-> Cardinality(UnitsOf(f, s))]
<1>1. SumSteps(f, h)
  <2>1. ASSUME NEW s \in SUBSET DOMAIN f, s # {}
        PROVE  h[s] = f[CHOOSE x \in s : TRUE] + h[s \ {CHOOSE x \in s : TRUE}]
    <3> DEFINE x == CHOOSE x \in s : TRUE
    <3>1. x \in s
      BY <2>1
    <3> HIDE DEF x
    <3>2. f[x] \in Nat
      BY <3>1 DEF Counts
    <3>3. IsFiniteSet(UnitsOf(f, s \ {x}))
      BY UnitsFinite
    <3>4. Cardinality(UnitsOf(f, s)) = f[x] + Cardinality(UnitsOf(f, s \ {x}))
      BY <3>1, <3>2, <3>3, UnitsOfOneMore
    <3>5. h[s] = f[x] + h[s \ {x}]
      BY <3>4
    <3> QED
      BY <3>5 DEF x
  <2>2. h[{}] = 0
    <3>1. UnitsOf(f, {}) = {}
      BY DEF UnitsOf
    <3> QED
      BY <3>1, FS_EmptySet
  <2>3. h = [s \in SUBSET DOMAIN f |-> h[s]]
    OBVIOUS
  <2> HIDE DEF h
  <2> QED
    BY <2>1, <2>2, <2>3 DEF SumSteps
<1>2. SumSteps(f, CHOOSE g : SumSteps(f, g))
  BY <1>1
<1>3. SumFunction(f) = (CHOOSE g : SumSteps(f, g))[DOMAIN f]
  BY DEF SumFunction, SumFunctionOnSet, FoldFunctionOnSet, MapThenFoldSet, SumSteps
<1> QED
  BY <1>2, <1>3, SumStepsCount

\* A sum of naturals is a natural.
LEMMA SumType ==
  ASSUME NEW f, Counts(f)
  PROVE  SumFunction(f) \in Nat
<1>1. IsFiniteSet(UnitsOf(f, DOMAIN f))
  BY UnitsFinite
<1> QED
  BY <1>1, SumCountsUnits, FS_CardinalityType

\* A part of a function of naturals is one.
LEMMA PartCounts ==
  ASSUME NEW f, Counts(f), NEW S \in SUBSET DOMAIN f
  PROVE  Counts(Restrict(f, S))
BY FS_Subset DEF Counts, Restrict

\* The sum of a part counts the units of the part.
LEMMA SumOfPart ==
  ASSUME NEW f, Counts(f), NEW S \in SUBSET DOMAIN f
  PROVE  SumFunction(Restrict(f, S)) = Cardinality(UnitsOf(f, S))
<1>1. UnitsOf(Restrict(f, S), S) = UnitsOf(f, S)
  BY DEF UnitsOf, Restrict
<1>2. DOMAIN Restrict(f, S) = S
  BY DEF Restrict
<1> QED
  BY <1>1, <1>2, PartCounts, SumCountsUnits

\* A sum grows with its terms and with their number.
LEMMA SumAtMost ==
  ASSUME NEW f, Counts(f), NEW g, Counts(g), DOMAIN f \subseteq DOMAIN g,
         \A x \in DOMAIN f : f[x] <= g[x]
  PROVE  SumFunction(f) <= SumFunction(g)
<1>1. UnitsOf(f, DOMAIN f) \in SUBSET UnitsOf(g, DOMAIN g)
  <2> SUFFICES ASSUME NEW x \in DOMAIN f, NEW u \in Nat, 1 <= u, u <= f[x]
               PROVE  x \in DOMAIN g /\ u <= g[x]
    BY DEF UnitsOf
  <2>1. f[x] \in Nat /\ g[x] \in Nat /\ f[x] <= g[x]
    BY DEF Counts
  <2> QED
    BY <2>1
<1>2. IsFiniteSet(UnitsOf(g, DOMAIN g))
  BY UnitsFinite
<1> QED
  BY <1>1, <1>2, SumCountsUnits, FS_Subset

\* Nothing adds up to zero.
LEMMA SumEmpty ==
  ASSUME NEW f, Counts(f), DOMAIN f = {}
  PROVE  SumFunction(f) = 0
<1>1. UnitsOf(f, DOMAIN f) = {}
  BY DEF UnitsOf
<1>2. Cardinality({}) = 0
  BY FS_EmptySet
<1> QED
  BY <1>1, <1>2, SumCountsUnits

\* A sum is that of a part and that of the rest.
LEMMA SumSplit ==
  ASSUME NEW f, Counts(f), NEW S \in SUBSET DOMAIN f
  PROVE  SumFunction(f) = SumFunction(Restrict(f, S)) + SumFunction(Restrict(f, DOMAIN f \ S))
<1> DEFINE T == DOMAIN f \ S
           u == UnitsOf(f, S)
           v == UnitsOf(f, T)
<1>1. UnitsOf(f, DOMAIN f) = u \cup v /\ u \cap v = {}
  BY DEF UnitsOf
<1>2. IsFiniteSet(u) /\ IsFiniteSet(v)
  BY UnitsFinite
<1>3. SumFunction(Restrict(f, S)) = Cardinality(u) /\ SumFunction(Restrict(f, T)) = Cardinality(v)
  BY SumOfPart
<1> HIDE DEF T, u, v
<1>4. Cardinality(u \cup v) = Cardinality(u) + Cardinality(v) - Cardinality(u \cap v)
  BY <1>2, FS_Union
<1>5. Cardinality(u \cap v) = 0
  BY <1>1, FS_EmptySet, Zenon
<1>6. Cardinality(u) \in Nat /\ Cardinality(v) \in Nat
  BY <1>2, FS_CardinalityType
<1>7. SumFunction(f) = Cardinality(u \cup v)
  BY <1>1, SumCountsUnits
<1>8. SumFunction(f) = SumFunction(Restrict(f, S)) + SumFunction(Restrict(f, T))
  BY <1>3, <1>4, <1>5, <1>6, <1>7
<1> QED
  BY <1>8 DEF T

\* The sum over one member.
LEMMA SumOfOne ==
  ASSUME NEW f, NEW x, DOMAIN f = {x}, f \in [{x} -> Nat]
  PROVE  Counts(f) /\ SumFunction(f) = f[x]
<1>1. Counts(f)
  BY FS_Singleton DEF Counts
<1>2. UnitsOf(f, {x} \ {x}) = {}
  BY DEF UnitsOf
<1>3. IsFiniteSet({}) /\ Cardinality({}) = 0
  BY FS_EmptySet
<1>4. f[x] \in Nat
  OBVIOUS
<1>5. Cardinality(UnitsOf(f, {x})) = f[x] + Cardinality(UnitsOf(f, {x} \ {x}))
  BY <1>2, <1>3, <1>4, UnitsOfOneMore
<1> QED
  BY <1>1, <1>2, <1>3, <1>4, <1>5, SumCountsUnits

\* The terms that are counted under t.
Group(f, g, t) == Restrict(f, {x \in DOMAIN f : g[x] = t})

\* Terms may be added up group by group.
LEMMA SumByGroups ==
  ASSUME NEW f, Counts(f), NEW T, IsFiniteSet(T), NEW g \in [DOMAIN f -> T]
  PROVE  /\ Counts([t \in T |-> SumFunction(Group(f, g, t))])
         /\ SumFunction(f) = SumFunction([t \in T |-> SumFunction(Group(f, g, t))])
<1> DEFINE sums(U)  == [t \in U |-> SumFunction(Group(f, g, t))]
           under(U) == {x \in DOMAIN f : g[x] \in U}
           Good == {U \in SUBSET T : SumFunction(Restrict(f, under(U))) = SumFunction(sums(U))}
<1>1. ASSUME NEW t \in T
      PROVE  SumFunction(Group(f, g, t)) \in Nat
  BY PartCounts, SumType DEF Group
<1>2. ASSUME NEW U \in SUBSET T
      PROVE  Counts(sums(U))
  BY <1>1, FS_Subset DEF Counts
<1>3. {} \in Good
  <2>1. /\ Counts(sums({})) /\ DOMAIN sums({}) = {}
        /\ Counts(Restrict(f, under({}))) /\ DOMAIN Restrict(f, under({})) = {}
    <3>1. under({}) \in SUBSET DOMAIN f /\ under({}) = {}
      OBVIOUS
    <3> QED
      BY <1>2, <3>1, PartCounts DEF Restrict
  <2>2. SumFunction(sums({})) = 0 /\ SumFunction(Restrict(f, under({}))) = 0
    BY <2>1, SumEmpty
  <2> HIDE DEF sums, under
  <2> QED
    BY <2>2
<1>4. ASSUME NEW U \in SUBSET T, U # {}, \A t \in U : U \ {t} \in Good
      PROVE  U \in Good
  <2>1. PICK t \in U : SumFunction(Restrict(f, under(U \ {t}))) = SumFunction(sums(U \ {t}))
    BY <1>4
  <2> DEFINE part == Restrict(f, under(U))
             own  == {x \in DOMAIN f : g[x] = t}
  <2>2. Counts(part) /\ DOMAIN part = under(U) /\ own \subseteq under(U)
    BY <2>1, PartCounts DEF Restrict
  <2>3. Restrict(part, own) = Group(f, g, t)
    BY <2>2 DEF Restrict, Group
  <2>4. under(U) \ own = under(U \ {t}) /\ Restrict(part, under(U) \ own) = Restrict(f, under(U \ {t}))
    BY <2>2 DEF Restrict
  <2> HIDE DEF part, own, under
  <2>5. SumFunction(part) = SumFunction(Group(f, g, t)) + SumFunction(sums(U \ {t}))
    BY <2>1, <2>2, <2>3, <2>4, SumSplit
  <2>6. Counts(sums(U)) /\ DOMAIN sums(U) = U /\ sums(U)[t] = SumFunction(Group(f, g, t))
    BY <2>1, <1>2
  <2>7. Restrict(sums(U), U \ {t}) = sums(U \ {t})
    BY DEF Restrict
  <2>8. Restrict(sums(U), {t}) = [x \in {t} |-> SumFunction(Group(f, g, t))]
    BY <2>1 DEF Restrict
  <2>9. SumFunction(Restrict(sums(U), {t})) = SumFunction(Group(f, g, t))
    <3> DEFINE one == [x \in {t} |-> SumFunction(Group(f, g, t))]
    <3>1. one \in [{t} -> Nat] /\ DOMAIN one = {t} /\ one[t] = SumFunction(Group(f, g, t))
      BY <1>1, <2>1
    <3> HIDE DEF one
    <3>2. SumFunction(one) = one[t]
      BY <3>1, SumOfOne
    <3> QED
      BY <3>1, <3>2, <2>8 DEF one
  <2> HIDE DEF sums
  <2>10. SumFunction(sums(U)) = SumFunction(Group(f, g, t)) + SumFunction(sums(U \ {t}))
    BY <2>1, <2>6, <2>7, <2>9, SumSplit
  <2>11. SumFunction(part) = SumFunction(sums(U))
    BY <2>5, <2>10
  <2> QED
    BY <2>11 DEF part
<1>5. T \in Good
  <2> HIDE DEF Good
  <2> QED
    BY <1>3, <1>4, SetInduction
<1>6. Restrict(f, under(T)) = f
  BY DEF Restrict, Counts
<1> QED
  BY <1>2, <1>5, <1>6

\* What every group is at most bounds the whole.
LEMMA SumWithin ==
  ASSUME NEW f, Counts(f), NEW d, Counts(d), NEW g \in [DOMAIN f -> DOMAIN d],
         \A t \in DOMAIN d : SumFunction(Group(f, g, t)) <= d[t]
  PROVE  SumFunction(f) <= SumFunction(d)
<1> DEFINE sums == [t \in DOMAIN d |-> SumFunction(Group(f, g, t))]
<1>1. IsFiniteSet(DOMAIN d)
  BY DEF Counts
<1>2. Counts(sums) /\ SumFunction(f) = SumFunction(sums)
  BY <1>1, SumByGroups
<1>3. DOMAIN sums = DOMAIN d /\ \A t \in DOMAIN d : sums[t] <= d[t]
  OBVIOUS
<1> HIDE DEF sums
<1> QED
  BY <1>2, <1>3, SumAtMost

\* A sum is one term and the sum of the others.
LEMMA SumOneMore ==
  ASSUME NEW f, Counts(f), NEW x \in DOMAIN f
  PROVE  SumFunction(f) = f[x] + SumFunction(Restrict(f, DOMAIN f \ {x}))
<1> DEFINE one == Restrict(f, {x})
<1>1. one \in [{x} -> Nat] /\ DOMAIN one = {x} /\ one[x] = f[x]
  BY DEF Counts, Restrict
<1>2. SumFunction(f) = SumFunction(one) + SumFunction(Restrict(f, DOMAIN f \ {x}))
  BY SumSplit
<1> HIDE DEF one
<1>3. SumFunction(one) = one[x]
  BY <1>1, SumOfOne
<1> QED
  BY <1>1, <1>2, <1>3

\* No term is more than the sum.
LEMMA TermAtMostSum ==
  ASSUME NEW f, Counts(f), NEW x \in DOMAIN f
  PROVE  f[x] <= SumFunction(f)
<1>1. SumFunction(f) = f[x] + SumFunction(Restrict(f, DOMAIN f \ {x}))
  BY SumOneMore
<1>2. SumFunction(Restrict(f, DOMAIN f \ {x})) \in Nat
  BY PartCounts, SumType
<1>3. f[x] \in Nat
  BY DEF Counts
<1> QED
  BY <1>1, <1>2, <1>3

\* Zeros add up to zero.
LEMMA SumOfZeros ==
  ASSUME NEW f, Counts(f), \A x \in DOMAIN f : f[x] = 0
  PROVE  SumFunction(f) = 0
<1>1. UnitsOf(f, DOMAIN f) = {}
  BY DEF UnitsOf
<1>2. Cardinality({}) = 0
  BY FS_EmptySet
<1> QED
  BY <1>1, <1>2, SumCountsUnits

\* Only the terms that are not zero count.
LEMMA SumOfSupport ==
  ASSUME NEW f, Counts(f), NEW S \in SUBSET DOMAIN f, \A x \in DOMAIN f \ S : f[x] = 0
  PROVE  SumFunction(Restrict(f, S)) = SumFunction(f)
<1> DEFINE rest == Restrict(f, DOMAIN f \ S)
<1>1. Counts(rest) /\ \A x \in DOMAIN rest : rest[x] = 0
  BY PartCounts DEF Restrict
<1>2. SumFunction(f) = SumFunction(Restrict(f, S)) + SumFunction(rest)
  BY SumSplit
<1>3. SumFunction(Restrict(f, S)) \in Nat
  BY PartCounts, SumType
<1> HIDE DEF rest
<1>4. SumFunction(rest) = 0
  BY <1>1, SumOfZeros
<1> QED
  BY <1>2, <1>3, <1>4

\* The sum of the sums, term by term.
LEMMA SumPlus ==
  ASSUME NEW f, Counts(f), NEW g, Counts(g), DOMAIN g = DOMAIN f
  PROVE  /\ Counts([x \in DOMAIN f |-> f[x] + g[x]])
         /\ SumFunction([x \in DOMAIN f |-> f[x] + g[x]]) = SumFunction(f) + SumFunction(g)
<1> DEFINE both == [x \in DOMAIN f |-> f[x] + g[x]]
           Good == {U \in SUBSET DOMAIN f :
                        SumFunction(Restrict(both, U))
                            = SumFunction(Restrict(f, U)) + SumFunction(Restrict(g, U))}
<1>1. Counts(both) /\ DOMAIN both = DOMAIN f
  BY DEF Counts
<1>2. ASSUME NEW h, Counts(h), DOMAIN h = DOMAIN f, NEW U \in SUBSET DOMAIN f
      PROVE  /\ Counts(Restrict(h, U))
             /\ SumFunction(Restrict(h, U)) \in Nat
             /\ U = {} => SumFunction(Restrict(h, U)) = 0
             /\ \A x \in U : /\ h[x] \in Nat
                             /\ SumFunction(Restrict(h, U))
                                    = h[x] + SumFunction(Restrict(h, U \ {x}))
  <2> DEFINE part == Restrict(h, U)
  <2>1. Counts(part) /\ DOMAIN part = U /\ \A x \in U : part[x] = h[x] /\ h[x] \in Nat
    BY <1>2, PartCounts DEF Restrict, Counts
  <2>2. \A x \in U : Restrict(part, U \ {x}) = Restrict(h, U \ {x})
    BY DEF Restrict
  <2> HIDE DEF part
  <2>3. SumFunction(part) \in Nat /\ (U = {} => SumFunction(part) = 0)
    BY <2>1, SumType, SumEmpty
  <2>4. \A x \in U : SumFunction(part) = h[x] + SumFunction(Restrict(h, U \ {x}))
    <3> TAKE x \in U
    <3>1. SumFunction(part) = part[x] + SumFunction(Restrict(part, DOMAIN part \ {x}))
      BY <2>1, SumOneMore
    <3>2. Restrict(part, DOMAIN part \ {x}) = Restrict(h, U \ {x}) /\ part[x] = h[x]
      BY <2>1, <2>2
    <3> QED
      BY <3>1, <3>2
  <2> QED
    BY <2>1, <2>3, <2>4 DEF part
<1> HIDE DEF both
<1>3. {} \in Good
  <2>1. SumFunction(Restrict(both, {})) = 0
    BY <1>1, <1>2
  <2>2. SumFunction(Restrict(f, {})) = 0
    BY <1>1, <1>2
  <2>3. SumFunction(Restrict(g, {})) = 0
    BY <1>1, <1>2
  <2> QED
    BY <2>1, <2>2, <2>3
<1>4. ASSUME NEW U \in SUBSET DOMAIN f, U # {}, \A x \in U : U \ {x} \in Good
      PROVE  U \in Good
  <2>1. PICK x \in U : SumFunction(Restrict(both, U \ {x}))
                           = SumFunction(Restrict(f, U \ {x})) + SumFunction(Restrict(g, U \ {x}))
    BY <1>4
  <2>2. SumFunction(Restrict(both, U)) = both[x] + SumFunction(Restrict(both, U \ {x}))
    BY <1>1, <1>2
  <2>3. SumFunction(Restrict(f, U)) = f[x] + SumFunction(Restrict(f, U \ {x})) /\ f[x] \in Nat
    BY <1>1, <1>2
  <2>4. SumFunction(Restrict(g, U)) = g[x] + SumFunction(Restrict(g, U \ {x})) /\ g[x] \in Nat
    BY <1>1, <1>2
  <2>5. SumFunction(Restrict(f, U \ {x})) \in Nat /\ SumFunction(Restrict(g, U \ {x})) \in Nat
    <3>1. U \ {x} \in SUBSET DOMAIN f
      OBVIOUS
    <3> QED
      BY <1>2, <3>1
  <2>6. both[x] = f[x] + g[x]
    BY DEF both
  <2>7. SumFunction(Restrict(both, U)) = SumFunction(Restrict(f, U)) + SumFunction(Restrict(g, U))
    BY <2>1, <2>2, <2>3, <2>4, <2>5, <2>6
  <2> QED
    BY <2>7
<1>5. DOMAIN f \in Good
  <2>1. IsFiniteSet(DOMAIN f)
    BY DEF Counts
  <2> HIDE DEF Good
  <2> QED
    BY <2>1, <1>3, <1>4, SetInduction
<1>6. /\ Restrict(both, DOMAIN f) = both
      /\ Restrict(f, DOMAIN f) = f
      /\ Restrict(g, DOMAIN f) = g
  BY <1>1 DEF Restrict, Counts
<1>7. SumFunction(both) = SumFunction(f) + SumFunction(g)
  BY <1>5, <1>6
<1> QED
  BY <1>1, <1>7 DEF both

\* The terms of a table may be added up by rows or by columns.
LEMMA SumExchange ==
  ASSUME NEW E, IsFiniteSet(E), NEW S, IsFiniteSet(S), NEW c \in [E -> [S -> Nat]]
  PROVE  SumFunction([e \in E |-> SumFunction(c[e])])
             = SumFunction([s \in S |-> SumFunction([e \in E |-> c[e][s]])])
<1> DEFINE down(s) == [e \in E |-> c[e][s]]
           rows(U) == [e \in E |-> SumFunction(Restrict(c[e], U))]
           cols(U) == [s \in U |-> SumFunction(down(s))]
           Good    == {U \in SUBSET S : SumFunction(rows(U)) = SumFunction(cols(U))}
<1>1. ASSUME NEW s \in S
      PROVE  Counts(down(s)) /\ SumFunction(down(s)) \in Nat /\ DOMAIN down(s) = E
  <2>1. Counts(down(s)) /\ DOMAIN down(s) = E
    BY DEF Counts
  <2> HIDE DEF down
  <2> QED
    BY <2>1, SumType
<1>2. ASSUME NEW e \in E
      PROVE  Counts(c[e]) /\ DOMAIN c[e] = S
  BY DEF Counts
<1>3. ASSUME NEW U \in SUBSET S
      PROVE  /\ Counts(rows(U)) /\ DOMAIN rows(U) = E
             /\ Counts(cols(U)) /\ DOMAIN cols(U) = U
             /\ \A e \in E : Counts(Restrict(c[e], U)) /\ DOMAIN Restrict(c[e], U) = U
  <2>1. \A e \in E : Counts(Restrict(c[e], U)) /\ DOMAIN Restrict(c[e], U) = U
    BY <1>2, PartCounts DEF Restrict
  <2>2. \A e \in E : SumFunction(Restrict(c[e], U)) \in Nat
    BY <2>1, SumType
  <2>3. \A s \in U : SumFunction(down(s)) \in Nat
    BY <1>1
  <2>4. IsFiniteSet(U)
    BY FS_Subset
  <2> HIDE DEF down
  <2> QED
    BY <2>1, <2>2, <2>3, <2>4 DEF Counts
<1>4. {} \in Good
  <2>1. SumFunction(cols({})) = 0
    <3>1. Counts(cols({})) /\ DOMAIN cols({}) = {}
      BY <1>3
    <3> HIDE DEF cols
    <3> QED
      BY <3>1, SumEmpty
  <2>2. SumFunction(rows({})) = 0
    <3>1. Counts(rows({})) /\ DOMAIN rows({}) = E
      BY <1>3
    <3>2. \A e \in E : Counts(Restrict(c[e], {})) /\ DOMAIN Restrict(c[e], {}) = {}
      BY <1>3
    <3>3. \A e \in E : rows({})[e] = 0
      BY <3>2, SumEmpty
    <3> HIDE DEF rows
    <3> QED
      BY <3>1, <3>3, SumOfZeros
  <2> HIDE DEF rows, cols
  <2> QED
    BY <2>1, <2>2
<1>5. ASSUME NEW U \in SUBSET S, U # {}, \A s \in U : U \ {s} \in Good
      PROVE  U \in Good
  <2>1. PICK s \in U : SumFunction(rows(U \ {s})) = SumFunction(cols(U \ {s}))
    BY <1>5
  <2>2. U \ {s} \in SUBSET S /\ s \in S
    BY <2>1
  <2>3. SumFunction(cols(U)) = SumFunction(down(s)) + SumFunction(cols(U \ {s}))
    <3>1. Restrict(cols(U), U \ {s}) = cols(U \ {s}) /\ cols(U)[s] = SumFunction(down(s))
      BY DEF Restrict
    <3>2. Counts(cols(U)) /\ DOMAIN cols(U) = U
      BY <1>3
    <3> HIDE DEF cols, down
    <3> QED
      BY <3>1, <3>2, <2>1, SumOneMore
  <2>4. ASSUME NEW e \in E
        PROVE  rows(U)[e] = down(s)[e] + rows(U \ {s})[e]
    <3> DEFINE part == Restrict(c[e], U)
    <3>1. Counts(part) /\ DOMAIN part = U /\ part[s] = c[e][s]
      BY <1>3, <2>1 DEF Restrict
    <3>2. Restrict(part, U \ {s}) = Restrict(c[e], U \ {s})
      BY DEF Restrict
    <3> HIDE DEF part
    <3>3. SumFunction(part) = c[e][s] + SumFunction(Restrict(c[e], U \ {s}))
      BY <3>1, <3>2, <2>1, SumOneMore
    <3> QED
      BY <3>3 DEF part
  <2>5. SumFunction(rows(U)) = SumFunction(down(s)) + SumFunction(rows(U \ {s}))
    <3>1. Counts(down(s)) /\ DOMAIN down(s) = E
      BY <1>1, <2>2
    <3>2. Counts(rows(U \ {s})) /\ DOMAIN rows(U \ {s}) = E
      BY <1>3, <2>2
    <3>3. rows(U) = [e \in DOMAIN down(s) |-> down(s)[e] + rows(U \ {s})[e]]
      <4>1. rows(U) = [e \in E |-> rows(U)[e]]
        OBVIOUS
      <4> HIDE DEF rows, down
      <4> QED
        BY <4>1, <3>1, <2>4
    <3> HIDE DEF rows, down
    <3> QED
      BY <3>1, <3>2, <3>3, SumPlus
  <2> HIDE DEF rows, cols, down
  <2> QED
    BY <2>1, <2>3, <2>5
<1>6. S \in Good
  <2> HIDE DEF Good
  <2> QED
    BY <1>4, <1>5, SetInduction
<1>7. \A e \in E : Restrict(c[e], S) = c[e]
  BY DEF Restrict
<1>8. rows(S) = [e \in E |-> SumFunction(c[e])]
  BY <1>7
<1> QED
  BY <1>6, <1>8

\* A set of naturals that is bounded and not empty has a greatest member.
LEMMA NatsHaveGreatest ==
  ASSUME NEW S \in SUBSET Nat, S # {}, NEW n \in Nat, \A x \in S : x <= n
  PROVE  \E x \in S : \A y \in S : y <= x
<1> DEFINE R == {n - x : x \in S}
<1>1. R \in SUBSET Nat /\ R # {}
  <2>1. \A x \in S : x \in Nat /\ x <= n
    OBVIOUS
  <2>2. \A x \in S : n - x \in Nat
    BY <2>1
  <2> QED
    BY <2>2
<1>2. PICK r \in R : \A q \in R : r <= q
  <2> HIDE DEF R
  <2> QED
    BY <1>1, NatsHaveLeast
<1>3. PICK x \in S : r = n - x
  BY <1>2
<1>4. ASSUME NEW y \in S
      PROVE  y <= x
  <2>1. n - y \in R
    OBVIOUS
  <2>2. r <= n - y
    BY <2>1, <1>2
  <2>3. x \in Nat /\ y \in Nat
    OBVIOUS
  <2> QED
    BY <2>2, <2>3, <1>3
<1> QED
  BY <1>4

\* The greatest count is one of the counts, or there are none but zero.
LEMMA GreatestIs ==
  ASSUME NEW f, Counts(f)
  PROVE  /\ Greatest(f) \in Nat
         /\ \A x \in DOMAIN f : f[x] <= Greatest(f)
         /\ Greatest(f) = 0 \/ \E x \in DOMAIN f : Greatest(f) = f[x]
<1> DEFINE S == {0} \cup {f[x] : x \in DOMAIN f}
<1>1. S \in SUBSET Nat /\ S # {}
  BY DEF Counts
<1>2. SumFunction(f) \in Nat /\ \A x \in S : x <= SumFunction(f)
  BY SumType, TermAtMostSum
<1>3. \E x \in S : \A y \in S : x >= y
  <2> HIDE DEF S
  <2>1. PICK x \in S : \A y \in S : y <= x
    BY <1>1, <1>2, NatsHaveGreatest
  <2>2. \A y \in S : x >= y
    BY <1>1, <2>1
  <2> QED
    BY <2>2
<1>4. Greatest(f) \in S /\ \A y \in S : Greatest(f) >= y
  <2>1. Greatest(f) = CHOOSE x \in S : \A y \in S : x >= y
    BY DEF Greatest, Max
  <2> HIDE DEF S
  <2> QED
    BY <1>3, <2>1
<1>5. \A x \in DOMAIN f : f[x] \in S
  OBVIOUS
<1>6. Greatest(f) \in Nat /\ \A x \in DOMAIN f : f[x] <= Greatest(f)
  <2> HIDE DEF S
  <2> QED
    BY <1>1, <1>4, <1>5
<1> QED
  BY <1>4, <1>6

-----------------------------------------------------------------------------
(* Byte counts. *)

Fields == {"ab", "ba"}

\* A function of byte counts.
Table(t) == IsFiniteSet(DOMAIN t) /\ t \in [DOMAIN t -> Bytes]

\* Byte counts that agree in both directions are the same.
LEMMA BytesEqual ==
  ASSUME NEW b \in Bytes, NEW c \in Bytes, b.ab = c.ab, b.ba = c.ba
  PROVE  b = c
BY DEF Bytes

\* How byte counts are ordered, added and swapped.
LEMMA BytesOrder ==
  ASSUME NEW b \in Bytes, NEW c \in Bytes, NEW d \in Bytes
  PROVE  /\ AtMost(b, b)
         /\ AtMost(Zero, b)
         /\ AtMost(b, c) /\ AtMost(c, d) => AtMost(b, d)
         /\ AtMost(b, c) => AtMost(Swap(b), Swap(c))
         /\ Swap(b) \in Bytes /\ Swap(Swap(b)) = b
         /\ Zero \in Bytes /\ Swap(Zero) = Zero
         /\ Plus(b, c) \in Bytes
         /\ AtMost(b, Zero) => b = Zero
<1>1. b.ab \in Nat /\ b.ba \in Nat /\ c.ab \in Nat /\ c.ba \in Nat /\ d.ab \in Nat /\ d.ba \in Nat
  BY DEF Bytes
<1>2. b = [ab |-> b.ab, ba |-> b.ba]
  BY DEF Bytes
<1> QED
  BY <1>1, <1>2 DEF AtMost, Zero, Swap, Plus, Bytes

\* One direction of a table of byte counts.
LEMMA ColumnCounts ==
  ASSUME NEW t, Table(t), NEW field \in Fields
  PROVE  /\ Counts(Column(t, field)) /\ DOMAIN Column(t, field) = DOMAIN t
         /\ \A x \in DOMAIN t : Column(t, field)[x] = t[x][field]
         /\ \A S \in SUBSET DOMAIN t : Restrict(Column(t, field), S) = Column(Restrict(t, S), field)
<1>1. \A x \in DOMAIN t : t[x][field] \in Nat
  BY DEF Table, Bytes, Fields
<1> QED
  BY <1>1 DEF Table, Counts, Column, Restrict

\* A part of a table is a table.
LEMMA PartTable ==
  ASSUME NEW t, Table(t), NEW S \in SUBSET DOMAIN t
  PROVE  Table(Restrict(t, S)) /\ DOMAIN Restrict(t, S) = S /\ \A x \in S : Restrict(t, S)[x] = t[x]
BY FS_Subset DEF Table, Restrict

\* A total is a byte count.
LEMMA SumOfType ==
  ASSUME NEW t, Table(t)
  PROVE  SumOf(t) \in Bytes
<1>1. SumFunction(Column(t, "ab")) \in Nat /\ SumFunction(Column(t, "ba")) \in Nat
  BY ColumnCounts, SumType DEF Fields
<1> QED
  BY <1>1 DEF SumOf, Bytes

\* The largest of a table is its least upper bound.
LEMMA MaxOfIs ==
  ASSUME NEW t, Table(t)
  PROVE  /\ MaxOf(t) \in Bytes
         /\ \A x \in DOMAIN t : AtMost(t[x], MaxOf(t))
         /\ \A b \in Bytes : (\A x \in DOMAIN t : AtMost(t[x], b)) => AtMost(MaxOf(t), b)
<1> DEFINE ab == Column(t, "ab")
           ba == Column(t, "ba")
<1>1. /\ Counts(ab) /\ DOMAIN ab = DOMAIN t /\ \A x \in DOMAIN t : ab[x] = t[x].ab
      /\ Counts(ba) /\ DOMAIN ba = DOMAIN t /\ \A x \in DOMAIN t : ba[x] = t[x].ba
  BY ColumnCounts DEF Fields
<1>2. MaxOf(t) = [ab |-> Greatest(ab), ba |-> Greatest(ba)]
  BY DEF MaxOf
<1> HIDE DEF ab, ba
<1>3. /\ Greatest(ab) \in Nat /\ \A x \in DOMAIN t : ab[x] <= Greatest(ab)
      /\ Greatest(ab) = 0 \/ \E x \in DOMAIN t : Greatest(ab) = ab[x]
  BY <1>1, GreatestIs
<1>4. /\ Greatest(ba) \in Nat /\ \A x \in DOMAIN t : ba[x] <= Greatest(ba)
      /\ Greatest(ba) = 0 \/ \E x \in DOMAIN t : Greatest(ba) = ba[x]
  BY <1>1, GreatestIs
<1>5. \A b \in Bytes : (\A x \in DOMAIN t : AtMost(t[x], b)) => AtMost(MaxOf(t), b)
  <2> SUFFICES ASSUME NEW b \in Bytes, \A x \in DOMAIN t : AtMost(t[x], b)
               PROVE  Greatest(ab) <= b.ab /\ Greatest(ba) <= b.ba
    BY <1>2 DEF AtMost
  <2>1. b.ab \in Nat /\ b.ba \in Nat
    BY DEF Bytes
  <2>2. \A x \in DOMAIN t : ab[x] <= b.ab /\ ba[x] <= b.ba
    BY <1>1 DEF AtMost
  <2> QED
    BY <1>3, <1>4, <2>1, <2>2
<1> QED
  BY <1>1, <1>2, <1>3, <1>4, <1>5 DEF Bytes, AtMost

\* Rows that are less, and fewer, total less.
LEMMA TotalAtMost ==
  ASSUME NEW t, Table(t), NEW u, Table(u), DOMAIN t \subseteq DOMAIN u,
         \A x \in DOMAIN t : AtMost(t[x], u[x])
  PROVE  AtMost(SumOf(t), SumOf(u))
<1>1. ASSUME NEW field \in Fields, \A x \in DOMAIN t : t[x][field] <= u[x][field]
      PROVE  SumFunction(Column(t, field)) <= SumFunction(Column(u, field))
  <2>1. /\ Counts(Column(t, field)) /\ DOMAIN Column(t, field) = DOMAIN t
        /\ \A x \in DOMAIN t : Column(t, field)[x] = t[x][field]
    BY ColumnCounts
  <2>2. /\ Counts(Column(u, field)) /\ DOMAIN Column(u, field) = DOMAIN u
        /\ \A x \in DOMAIN u : Column(u, field)[x] = u[x][field]
    BY ColumnCounts
  <2> QED
    BY <1>1, <2>1, <2>2, SumAtMost
<1>2. SumFunction(Column(t, "ab")) <= SumFunction(Column(u, "ab"))
  BY <1>1 DEF Fields, AtMost
<1>3. SumFunction(Column(t, "ba")) <= SumFunction(Column(u, "ba"))
  BY <1>1 DEF Fields, AtMost
<1> QED
  BY <1>2, <1>3 DEF AtMost, SumOf

\* No row is more than the total.
LEMMA TermAtMostTotal ==
  ASSUME NEW t, Table(t), NEW x \in DOMAIN t
  PROVE  AtMost(t[x], SumOf(t))
<1>1. ASSUME NEW field \in Fields
      PROVE  t[x][field] <= SumFunction(Column(t, field))
  BY ColumnCounts, TermAtMostSum
<1> QED
  BY <1>1 DEF Fields, AtMost, SumOf

\* Rows that are zero do not count.
LEMMA TotalOfSupport ==
  ASSUME NEW t, Table(t), NEW S \in SUBSET DOMAIN t, \A x \in DOMAIN t \ S : t[x] = Zero
  PROVE  SumOf(Restrict(t, S)) = SumOf(t)
<1>1. ASSUME NEW field \in Fields
      PROVE  SumFunction(Column(Restrict(t, S), field)) = SumFunction(Column(t, field))
  <2>1. \A x \in DOMAIN t \ S : Column(t, field)[x] = 0
    BY DEF Fields, Column, Zero
  <2>2. /\ Counts(Column(t, field)) /\ DOMAIN Column(t, field) = DOMAIN t
        /\ Restrict(Column(t, field), S) = Column(Restrict(t, S), field)
    BY ColumnCounts
  <2> QED
    BY <2>1, <2>2, SumOfSupport
<1> QED
  BY <1>1 DEF SumOf, Fields

\* The rows that g counts under x.
Under(t, g, x) == Restrict(t, {y \in DOMAIN t : g[y] = x})

\* A total is the total of the totals of its groups.
LEMMA TotalByGroups ==
  ASSUME NEW t, Table(t), NEW T, IsFiniteSet(T), NEW g \in [DOMAIN t -> T]
  PROVE  /\ Table([x \in T |-> SumOf(Under(t, g, x))])
         /\ SumOf(t) = SumOf([x \in T |-> SumOf(Under(t, g, x))])
<1> DEFINE sums == [x \in T |-> SumOf(Under(t, g, x))]
<1>1. \A x \in T : Table(Under(t, g, x))
  BY PartTable DEF Under
<1>2. Table(sums)
  BY <1>1, SumOfType DEF Table
<1>3. ASSUME NEW field \in Fields
      PROVE  SumFunction(Column(t, field)) = SumFunction(Column(sums, field))
  <2> DEFINE col == Column(t, field)
  <2>1. Counts(col) /\ DOMAIN col = DOMAIN t
    BY ColumnCounts
  <2>2. ASSUME NEW x \in T
        PROVE  Group(col, g, x) = Column(Under(t, g, x), field)
    <3>1. Restrict(col, {y \in DOMAIN t : g[y] = x}) = Column(Restrict(t, {y \in DOMAIN t : g[y] = x}), field)
      BY ColumnCounts
    <3> QED
      BY <3>1, <2>1 DEF Group, Under
  <2>3. \A x \in T : SumOf(Under(t, g, x))[field] = SumFunction(Column(Under(t, g, x), field))
    BY DEF SumOf, Fields
  <2>4. Column(sums, field) = [x \in T |-> SumFunction(Group(col, g, x))]
    BY <2>2, <2>3 DEF Column
  <2> HIDE DEF col, sums
  <2>5. SumFunction(col) = SumFunction([x \in T |-> SumFunction(Group(col, g, x))])
    BY <2>1, SumByGroups
  <2> QED
    BY <2>4, <2>5 DEF col
<1>4. SumOf(t) = SumOf(sums)
  BY <1>3 DEF SumOf, Fields
<1> QED
  BY <1>2, <1>4

\* What is at most a bound in every group is at most the total of the bounds.
LEMMA TotalWithin ==
  ASSUME NEW t, Table(t), NEW d, Table(d), NEW g \in [DOMAIN t -> DOMAIN d],
         \A x \in DOMAIN d : AtMost(SumOf(Under(t, g, x)), d[x])
  PROVE  AtMost(SumOf(t), SumOf(d))
<1> DEFINE sums == [x \in DOMAIN d |-> SumOf(Under(t, g, x))]
<1>1. IsFiniteSet(DOMAIN d)
  BY DEF Table
<1>2. Table(sums) /\ SumOf(t) = SumOf(sums)
  BY <1>1, TotalByGroups
<1>3. DOMAIN sums = DOMAIN d /\ \A x \in DOMAIN d : AtMost(sums[x], d[x])
  OBVIOUS
<1> HIDE DEF sums
<1> QED
  BY <1>2, <1>3, TotalAtMost

\* Rows that are told of by groups of others, each by a group of its own.
LEMMA TotalOver ==
  ASSUME NEW t, Table(t), NEW d, Table(d), NEW S \in SUBSET DOMAIN t, NEW g \in [S -> DOMAIN d],
         \A x \in DOMAIN d : AtMost(d[x], SumOf(Restrict(t, {y \in S : g[y] = x})))
  PROVE  AtMost(SumOf(d), SumOf(t))
<1> DEFINE part == Restrict(t, S)
           sums == [x \in DOMAIN d |-> SumOf(Under(part, g, x))]
<1>1. Table(part) /\ DOMAIN part = S /\ \A y \in S : part[y] = t[y]
  BY PartTable
<1>2. \A x \in DOMAIN d : Under(part, g, x) = Restrict(t, {y \in S : g[y] = x})
  BY <1>1 DEF Under, Restrict
<1>3. IsFiniteSet(DOMAIN d)
  BY DEF Table
<1> HIDE DEF part
<1>4. Table(sums) /\ SumOf(part) = SumOf(sums)
  BY <1>1, <1>3, TotalByGroups
<1>5. DOMAIN sums = DOMAIN d /\ \A x \in DOMAIN d : AtMost(d[x], sums[x])
  BY <1>2
<1> HIDE DEF sums
<1>6. AtMost(SumOf(d), SumOf(part))
  BY <1>4, <1>5, TotalAtMost
<1>7. AtMost(SumOf(part), SumOf(t))
  <2>1. \A y \in DOMAIN part : part[y] \in Bytes /\ AtMost(part[y], t[y])
    BY <1>1, BytesOrder DEF Table
  <2> QED
    BY <1>1, <2>1, TotalAtMost
<1>8. SumOf(d) \in Bytes /\ SumOf(part) \in Bytes /\ SumOf(t) \in Bytes
  BY <1>1, SumOfType
<1> QED
  BY <1>6, <1>7, <1>8, BytesOrder

\* The directions of a total are swapped by swapping those of its rows.
LEMMA TotalSwapped ==
  ASSUME NEW t, Table(t)
  PROVE  /\ Table([x \in DOMAIN t |-> Swap(t[x])])
         /\ SumOf([x \in DOMAIN t |-> Swap(t[x])]) = Swap(SumOf(t))
<1> DEFINE swapped == [x \in DOMAIN t |-> Swap(t[x])]
<1>1. Table(swapped)
  BY BytesOrder DEF Table
<1>2. Column(swapped, "ab") = Column(t, "ba") /\ Column(swapped, "ba") = Column(t, "ab")
  BY DEF Column, Swap
<1>3. SumOf(swapped) = Swap(SumOf(t))
  BY <1>2 DEF SumOf, Swap
<1> QED
  BY <1>1, <1>3

\* Totals over two indices may be taken in either order.
LEMMA TotalExchange ==
  ASSUME NEW E, IsFiniteSet(E), NEW S, IsFiniteSet(S), NEW c \in [E -> [S -> Bytes]]
  PROVE  SumOf([e \in E |-> SumOf(c[e])])
             = SumOf([s \in S |-> SumOf([e \in E |-> c[e][s]])])
<1> DEFINE rows == [e \in E |-> SumOf(c[e])]
           cols == [s \in S |-> SumOf([e \in E |-> c[e][s]])]
<1>1. ASSUME NEW field \in Fields
      PROVE  SumFunction(Column(rows, field)) = SumFunction(Column(cols, field))
  <2> DEFINE n == [e \in E |-> [s \in S |-> c[e][s][field]]]
  <2>1. n \in [E -> [S -> Nat]]
    BY DEF Bytes, Fields
  <2>2. ASSUME NEW e \in E
        PROVE  Column(rows, field)[e] = SumFunction(n[e])
    <3>1. Column(c[e], field) = n[e]
      BY DEF Column
    <3>2. SumOf(c[e])[field] = SumFunction(Column(c[e], field))
      BY DEF SumOf, Fields
    <3> QED
      BY <3>1, <3>2 DEF Column
  <2>3. ASSUME NEW s \in S
        PROVE  Column(cols, field)[s] = SumFunction([e \in E |-> n[e][s]])
    <3> DEFINE down == [e \in E |-> c[e][s]]
    <3>1. Column(down, field) = [e \in E |-> n[e][s]]
      BY DEF Column
    <3>2. SumOf(down)[field] = SumFunction(Column(down, field))
      BY DEF SumOf, Fields
    <3>3. Column(cols, field)[s] = SumOf(down)[field]
      BY DEF Column
    <3> HIDE DEF down, n
    <3> QED
      BY <3>1, <3>2, <3>3
  <2>4. Column(rows, field) = [e \in E |-> Column(rows, field)[e]]
    BY DEF Column
  <2>5. Column(cols, field) = [s \in S |-> Column(cols, field)[s]]
    BY DEF Column
  <2> HIDE DEF rows, cols, n
  <2>6. Column(rows, field) = [e \in E |-> SumFunction(n[e])]
    BY <2>2, <2>4
  <2>7. Column(cols, field) = [s \in S |-> SumFunction([e \in E |-> n[e][s]])]
    BY <2>3, <2>5
  <2> QED
    BY <2>1, <2>6, <2>7, SumExchange
<1>2. SumOf(rows) = SumOf(cols)
  <2> HIDE DEF rows, cols
  <2> QED
    BY <1>1 DEF SumOf, Fields
<1> QED
  BY <1>2

-----------------------------------------------------------------------------
(* Intervals. *)

\* What quotient and remainder are.
LEMMA Division ==
  ASSUME NEW t \in Int, NEW n \in Nat \ {0}
  PROVE  /\ t \div n \in Int
         /\ t % n \in Int /\ 0 <= t % n /\ t % n < n
         /\ t = (n * (t \div n)) + (t % n)
<1>1. t \div n \in Int
  OBVIOUS
<1>2. t % n \in 0 .. n - 1
  OBVIOUS
<1>3. t = (n * (t \div n)) + (t % n)
  OBVIOUS
<1> QED
  BY <1>1, <1>2, <1>3

\* A multiple leaves no remainder.
LEMMA MultipleAligned ==
  ASSUME NEW q \in Int, NEW n \in Nat \ {0}
  PROVE  n * q \in Int /\ (n * q) % n = 0
  OBVIOUS

\* Multiples are in the order of their factors.
LEMMA MultiplesOrder ==
  ASSUME NEW p \in Int, NEW q \in Int, NEW n \in Nat \ {0}, p <= q
  PROVE  n * p <= n * q
  OBVIOUS

\* The multiple after a multiple.
LEMMA NextMultiple ==
  ASSUME NEW p \in Int, NEW n \in Nat \ {0}
  PROVE  n * (p + 1) = (n * p) + n
  OBVIOUS

\* What leaves no remainder is a multiple.
LEMMA AlignedIsMultiple ==
  ASSUME NEW t \in Int, NEW n \in Nat \ {0}
  PROVE  t % n = 0 => \E q \in Int : t = n * q
<1>1. t \div n \in Int /\ t = (n * (t \div n)) + (t % n)
  BY Division
<1>2. ASSUME t % n = 0
      PROVE  t = n * (t \div n)
  <2>1. n * (t \div n) \in Int
    BY <1>1, MultipleAligned
  <2> QED
    BY <1>1, <1>2, <2>1
<1> QED
  BY <1>1, <1>2

\* Between two multiples there is an interval.
LEMMA AlignedApart ==
  ASSUME NEW a \in Int, NEW b \in Int, NEW n \in Nat \ {0}, a % n = 0, b % n = 0, a < b
  PROVE  a + n <= b
<1>1. PICK p \in Int : a = n * p
  BY AlignedIsMultiple
<1>2. PICK q \in Int : b = n * q
  BY AlignedIsMultiple
<1>3. p + 1 <= q
  <2> SUFFICES ASSUME q <= p
               PROVE  FALSE
    OBVIOUS
  <2>1. n * q <= n * p
    BY MultiplesOrder
  <2>2. b <= a
    BY <1>1, <1>2, <2>1
  <2> QED
    BY <2>2
<1>4. n * (p + 1) <= n * q
  BY <1>3, MultiplesOrder
<1>5. n * (p + 1) = (n * p) + n
  BY NextMultiple
<1>6. (n * p) + n <= n * q
  BY <1>4, <1>5
<1> QED
  BY <1>1, <1>2, <1>6

\* The start after an aligned start is aligned.
LEMMA AlignedNext ==
  ASSUME NEW a \in Int, NEW n \in Nat \ {0}, a % n = 0
  PROVE  (a + n) % n = 0
<1>1. PICK p \in Int : a = n * p
  BY AlignedIsMultiple
<1>2. a + n = n * (p + 1)
  BY <1>1, NextMultiple
<1>3. (n * (p + 1)) % n = 0
  BY MultipleAligned
<1> QED
  BY <1>2, <1>3

\* Truncate goes back to the start of the interval.
LEMMA TruncateIs ==
  ASSUME NEW t \in Int, NEW n \in Nat \ {0}
  PROVE  /\ Truncate(t, n) \in Int
         /\ Truncate(t, n) % n = 0
         /\ Truncate(t, n) <= t /\ t < Truncate(t, n) + n
<1>1. t \div n \in Int /\ t % n \in Int /\ 0 <= t % n /\ t % n < n /\ t = (n * (t \div n)) + (t % n)
  BY Division
<1>2. n * (t \div n) \in Int /\ (n * (t \div n)) % n = 0
  BY <1>1, MultipleAligned
<1>3. Truncate(t, n) = t - (t % n)
  BY DEF Truncate
<1>4. Truncate(t, n) = n * (t \div n)
  BY <1>1, <1>2, <1>3
<1>5. Truncate(t, n) <= t /\ t < Truncate(t, n) + n
  BY <1>1, <1>3
<1> QED
  BY <1>2, <1>4, <1>5

\* The interval a time is in starts at a or after if the time does.
LEMMA TruncateAfter ==
  ASSUME NEW t \in Int, NEW n \in Nat \ {0}, NEW a \in Int, a % n = 0
  PROVE  /\ a <= t => a <= Truncate(t, n)
         /\ t < a => Truncate(t, n) + n <= a
         /\ a <= t /\ t < a + n => Truncate(t, n) = a
<1>1. /\ Truncate(t, n) \in Int /\ Truncate(t, n) % n = 0
      /\ Truncate(t, n) <= t /\ t < Truncate(t, n) + n
  BY TruncateIs
<1>2. ASSUME a <= t
      PROVE  a <= Truncate(t, n)
  <2> SUFFICES ASSUME Truncate(t, n) < a
               PROVE  FALSE
    BY <1>1
  <2>1. Truncate(t, n) + n <= a
    BY <1>1, AlignedApart
  <2> QED
    BY <2>1, <1>1, <1>2
<1>3. ASSUME t < a
      PROVE  Truncate(t, n) + n <= a
  <2>1. Truncate(t, n) < a
    BY <1>1, <1>3
  <2> QED
    BY <2>1, <1>1, AlignedApart
<1>4. ASSUME a <= t, t < a + n
      PROVE  Truncate(t, n) = a
  <2>1. a <= Truncate(t, n)
    BY <1>2, <1>4
  <2>2. ~(a < Truncate(t, n))
    <3> SUFFICES ASSUME a < Truncate(t, n)
                 PROVE  FALSE
      OBVIOUS
    <3>1. a + n <= Truncate(t, n)
      BY <1>1, AlignedApart
    <3> QED
      BY <3>1, <1>1, <1>4
  <2> QED
    BY <2>1, <2>2, <1>1
<1> QED
  BY <1>2, <1>3, <1>4

\* Whole hours are whole minutes.
LEMMA HoursAreMinutes ==
  ASSUME NEW t \in Int, t % Hour = 0
  PROVE  t % Minute = 0
<1>1. Minute \in Nat \ {0} /\ Hour \in Nat \ {0} /\ Hour % Minute = 0
  BY TiersAssumption
<1>2. PICK q \in Int : t = Hour * q
  BY <1>1, AlignedIsMultiple
<1>3. PICK k \in Int : Hour = Minute * k
  BY <1>1, AlignedIsMultiple
<1>4. t = Minute * (k * q)
  <2>1. (Minute * k) * q = Minute * (k * q)
    BY <1>1
  <2> QED
    BY <1>2, <1>3, <2>1
<1>5. k * q \in Int
  OBVIOUS
<1>6. (Minute * (k * q)) % Minute = 0
  <2> DEFINE r == k * q
  <2>1. r \in Int
    BY <1>5
  <2> HIDE DEF r
  <2>2. (Minute * r) % Minute = 0
    BY <2>1, <1>1, MultipleAligned
  <2> QED
    BY <2>2 DEF r
<1> QED
  BY <1>4, <1>6

\* The minute of a time lies within its hour.
LEMMA MinuteInHour ==
  ASSUME NEW t \in Int
  PROVE  /\ Truncate(t, Hour) <= Truncate(t, Minute)
         /\ Truncate(t, Minute) + Minute <= Truncate(t, Hour) + Hour
<1>1. Minute \in Nat \ {0} /\ Hour \in Nat \ {0}
  BY TiersAssumption
<1>2. /\ Truncate(t, Hour) \in Int /\ Truncate(t, Hour) % Hour = 0
      /\ Truncate(t, Hour) <= t /\ t < Truncate(t, Hour) + Hour
  BY <1>1, TruncateIs
<1>3. Truncate(t, Hour) % Minute = 0 /\ (Truncate(t, Hour) + Hour) % Minute = 0
  <2>1. (Truncate(t, Hour) + Hour) % Hour = 0
    BY <1>1, <1>2, AlignedNext
  <2>2. Truncate(t, Hour) + Hour \in Int
    BY <1>1, <1>2
  <2> QED
    BY <1>2, <2>1, <2>2, HoursAreMinutes
<1>4. Truncate(t, Hour) <= Truncate(t, Minute)
  BY <1>1, <1>2, <1>3, TruncateAfter
<1>5. Truncate(t, Minute) + Minute <= Truncate(t, Hour) + Hour
  <2> DEFINE a == Truncate(t, Hour) + Hour
  <2>1. a \in Int /\ a % Minute = 0 /\ t < a
    BY <1>1, <1>2, <1>3
  <2> HIDE DEF a
  <2>2. Truncate(t, Minute) + Minute <= a
    BY <2>1, <1>1, TruncateAfter
  <2> QED
    BY <2>2 DEF a
<1> QED
  BY <1>4, <1>5

\* FirstWhole rounds up.
LEMMA FirstWholeIs ==
  ASSUME NEW from \in Int, NEW n \in Nat \ {0}
  PROVE  /\ FirstWhole(from, n) \in Int /\ FirstWhole(from, n) % n = 0
         /\ from <= FirstWhole(from, n)
<1> DEFINE t == -from
<1>1. t \in Int /\ from = 0 - t
  OBVIOUS
<1> HIDE DEF t
<1>2. t \div n \in Int /\ t % n \in Int /\ 0 <= t % n /\ t = (n * (t \div n)) + (t % n)
  BY <1>1, Division
<1>3. FirstWhole(from, n) = from + (t % n)
  BY DEF FirstWhole, t
<1> DEFINE q == t \div n
           r == 0 - q
<1>4. q \in Int /\ r \in Int /\ n * q \in Int /\ t = (n * q) + (t % n)
  BY <1>2, MultipleAligned
<1>5. n * r = 0 - (n * q)
  <2> HIDE DEF q
  <2> QED
    BY <1>4
<1> HIDE DEF q, r
<1>6. FirstWhole(from, n) = n * r
  <2> DEFINE m == t % n
             p == n * q
  <2>1. m \in Int /\ p \in Int /\ t = p + m /\ FirstWhole(from, n) = from + m /\ n * r = 0 - p
    BY <1>2, <1>3, <1>4, <1>5
  <2> HIDE DEF m, p
  <2> QED
    BY <1>1, <2>1
<1>7. n * r \in Int /\ (n * r) % n = 0
  BY <1>4, MultipleAligned
<1>8. from <= FirstWhole(from, n)
  BY <1>2, <1>3
<1> QED
  BY <1>6, <1>7, <1>8

-----------------------------------------------------------------------------
(* What several observers tell of an edge. *)

\* The rows of one bucket of an edge.
Bucket(t, e, start) == {k \in DOMAIN t : k.edge = e /\ k.start = start}

\* The rows of a table are counts in each direction.
LEMMA BucketColumn ==
  ASSUME NEW t, Table(t), NEW field \in Fields, NEW S \in SUBSET DOMAIN t
  PROVE  Counts([k \in S |-> t[k][field]])
<1>1. \A k \in S : t[k][field] \in Nat
  BY DEF Table, Bytes, Fields
<1>2. IsFiniteSet(S)
  BY FS_Subset DEF Table
<1> QED
  BY <1>1, <1>2 DEF Counts

\* What the preferred observer counted is a natural.
LEMMA PreferredType ==
  ASSUME NEW t, Table(t), NEW e, NEW start, NEW near, NEW far, NEW field \in Fields
  PROVE  Preferred(t, e, start, near, far, field) \in Nat
<1> DEFINE rows == {k \in DOMAIN t : k.edge = e /\ k.start = start}
           By(o) == {k \in rows : k.observer = o}
           Column_(S) == [k \in S |-> t[k][field]]
<1>1. ASSUME NEW S \in SUBSET DOMAIN t
      PROVE  SumFunction(Column_(S)) \in Nat /\ Greatest(Column_(S)) \in Nat
  <2>1. Counts(Column_(S))
    BY BucketColumn
  <2> HIDE DEF Column_
  <2> QED
    BY <2>1, SumType, GreatestIs
<1>2. Preferred(t, e, start, near, far, field) =
          IF By(near) # {} THEN SumFunction(Column_(By(near)))
          ELSE IF By(far) # {} THEN SumFunction(Column_(By(far)))
          ELSE Greatest(Column_(rows))
  BY DEF Preferred
<1>3. By(near) \in SUBSET DOMAIN t /\ By(far) \in SUBSET DOMAIN t /\ rows \in SUBSET DOMAIN t
  OBVIOUS
<1> HIDE DEF By, rows, Column_
<1> QED
  BY <1>1, <1>2, <1>3

\* What a bucket carried is a byte count.
LEMMA RawBytesType ==
  ASSUME NEW t, Table(t), NEW e, NEW start
  PROVE  RawBytes(t, e, start) \in Bytes
BY PreferredType DEF RawBytes, Bytes, Fields

\* Only the rows of the bucket count.
LEMMA RawBytesSame ==
  ASSUME NEW t, NEW u, NEW e, NEW start, Bucket(t, e, start) = Bucket(u, e, start),
         \A k \in Bucket(t, e, start) : t[k] = u[k]
  PROVE  RawBytes(t, e, start) = RawBytes(u, e, start)
<1>1. ASSUME NEW near, NEW far, NEW field
      PROVE  Preferred(t, e, start, near, far, field) = Preferred(u, e, start, near, far, field)
  <2> DEFINE rows == Bucket(t, e, start)
             By(o) == {k \in rows : k.observer = o}
             ColT(S) == [k \in S |-> t[k][field]]
             ColU(S) == [k \in S |-> u[k][field]]
  <2>1. \A S \in SUBSET rows : ColT(S) = ColU(S)
    OBVIOUS
  <2>2. Preferred(t, e, start, near, far, field) =
            IF By(near) # {} THEN SumFunction(ColT(By(near)))
            ELSE IF By(far) # {} THEN SumFunction(ColT(By(far)))
            ELSE Greatest(ColT(rows))
    BY DEF Preferred, Bucket
  <2>3. Preferred(u, e, start, near, far, field) =
            IF By(near) # {} THEN SumFunction(ColU(By(near)))
            ELSE IF By(far) # {} THEN SumFunction(ColU(By(far)))
            ELSE Greatest(ColU(rows))
    <3>1. rows = {k \in DOMAIN u : k.edge = e /\ k.start = start}
      BY DEF Bucket
    <3> HIDE DEF rows
    <3> QED
      BY <3>1 DEF Preferred
  <2>4. By(near) \in SUBSET rows /\ By(far) \in SUBSET rows /\ rows \in SUBSET rows
    OBVIOUS
  <2> HIDE DEF By, rows, ColT, ColU
  <2> QED
    BY <2>1, <2>2, <2>3, <2>4
<1> QED
  BY <1>1 DEF RawBytes

\* A bucket without rows carried nothing.
LEMMA RawBytesNone ==
  ASSUME NEW t, NEW e, NEW start, Bucket(t, e, start) = {}
  PROVE  RawBytes(t, e, start) = Zero
<1> DEFINE none == [k \in {} |-> 0]
<1>1. Counts(none) /\ DOMAIN none = {}
  BY FS_EmptySet DEF Counts
<1>2. Greatest(none) = 0
  BY <1>1, GreatestIs
<1>3. ASSUME NEW near, NEW far, NEW field
      PROVE  Preferred(t, e, start, near, far, field) = 0
  <2>1. [k \in {} |-> t[k][field]] = none
    OBVIOUS
  <2>2. Preferred(t, e, start, near, far, field) = Greatest([k \in {} |-> t[k][field]])
    BY DEF Preferred, Bucket
  <2> HIDE DEF none
  <2> QED
    BY <1>2, <2>1, <2>2
<1> QED
  BY <1>3 DEF RawBytes, Zero

\* What an edge carried in a time, told by the observers nearest the senders.
Carries(t, e, from, to) == SumOf([s \in from .. to - 1 |-> RawBytes(t, e, s)])

\* What an edge carried in a time is a byte count.
LEMMA CarriesTable ==
  ASSUME NEW t, Table(t), NEW e, NEW from \in Int, NEW to \in Int
  PROVE  /\ Table([s \in from .. to - 1 |-> RawBytes(t, e, s)])
         /\ Carries(t, e, from, to) \in Bytes
<1> DEFINE c == [s \in from .. to - 1 |-> RawBytes(t, e, s)]
<1>1. IsFiniteSet(from .. to - 1)
  BY FS_Interval
<1>2. Table(c)
  BY <1>1, RawBytesType DEF Table
<1> HIDE DEF c
<1>3. SumOf(c) \in Bytes
  BY <1>2, SumOfType
<1> QED
  BY <1>2, <1>3 DEF Carries, c

\* Tables that agree in a time tell the same of it.
LEMMA CarriesSame ==
  ASSUME NEW t, NEW u, NEW e, NEW from \in Int, NEW to \in Int,
         \A s \in from .. to - 1 : RawBytes(t, e, s) = RawBytes(u, e, s)
  PROVE  Carries(t, e, from, to) = Carries(u, e, from, to)
<1>1. [s \in from .. to - 1 |-> RawBytes(t, e, s)] = [s \in from .. to - 1 |-> RawBytes(u, e, s)]
  OBVIOUS
<1> QED
  BY <1>1 DEF Carries

\* A time without rows carried nothing.
LEMMA CarriesNone ==
  ASSUME NEW t, Table(t), NEW e, NEW from \in Int, NEW to \in Int,
         \A s \in from .. to - 1 : Bucket(t, e, s) = {}
  PROVE  Carries(t, e, from, to) = Zero
<1> DEFINE c == [s \in from .. to - 1 |-> RawBytes(t, e, s)]
           none == Restrict(c, {})
<1>1. Table(c) /\ DOMAIN c = from .. to - 1
  BY CarriesTable
<1>2. \A s \in DOMAIN c : c[s] = Zero
  BY RawBytesNone
<1> HIDE DEF c
<1>3. SumOf(none) = SumOf(c)
  BY <1>1, <1>2, TotalOfSupport
<1>4. SumOf(none) = Zero
  <2>1. Table(none) /\ DOMAIN none = {}
    BY <1>1, PartTable
  <2>2. Counts(Column(none, "ab")) /\ DOMAIN Column(none, "ab") = {}
    BY <2>1, ColumnCounts DEF Fields
  <2>3. Counts(Column(none, "ba")) /\ DOMAIN Column(none, "ba") = {}
    BY <2>1, ColumnCounts DEF Fields
  <2> HIDE DEF none
  <2> QED
    BY <2>2, <2>3, SumEmpty DEF SumOf, Zero
<1> QED
  BY <1>3, <1>4 DEF Carries, c

\* A part of a time carries at most what the whole does.
LEMMA CarriesPart ==
  ASSUME NEW t, Table(t), NEW e, NEW from \in Int, NEW to \in Int, NEW a \in Int, NEW b \in Int,
         from <= a, b <= to
  PROVE  AtMost(Carries(t, e, a, b), Carries(t, e, from, to))
<1> DEFINE c == [s \in from .. to - 1 |-> RawBytes(t, e, s)]
           d == [s \in a .. b - 1 |-> RawBytes(t, e, s)]
<1>1. Table(c) /\ DOMAIN c = from .. to - 1 /\ Table(d) /\ DOMAIN d = a .. b - 1
  BY CarriesTable
<1>2. a .. b - 1 \subseteq from .. to - 1
  OBVIOUS
<1>3. \A s \in DOMAIN d : AtMost(d[s], c[s])
  BY <1>2, RawBytesType, BytesOrder
<1> HIDE DEF c, d
<1>4. AtMost(SumOf(d), SumOf(c))
  BY <1>1, <1>2, <1>3, TotalAtMost
<1> QED
  BY <1>4 DEF Carries, c, d

\* A time of whole intervals carries what its intervals do.
LEMMA CarriesByIntervals ==
  ASSUME NEW t, Table(t), NEW e, NEW n \in Nat \ {0}, NEW from \in Int, NEW to \in Int,
         from % n = 0, to % n = 0
  PROVE  Carries(t, e, from, to) = SumOf([s \in Starts(from, to, n) |-> Carries(t, e, s, s + n)])
<1> DEFINE c == [s \in from .. to - 1 |-> RawBytes(t, e, s)]
           T == Starts(from, to, n)
           g == [s \in from .. to - 1 |-> Truncate(s, n)]
<1>1. Table(c) /\ DOMAIN c = from .. to - 1
  BY CarriesTable
<1>2. IsFiniteSet(T)
  <2>1. IsFiniteSet(from .. to - 1) /\ T \in SUBSET (from .. to - 1)
    BY FS_Interval DEF Starts
  <2> HIDE DEF T
  <2> QED
    BY <2>1, FS_Subset
<1>3. g \in [DOMAIN c -> T]
  <2> SUFFICES ASSUME NEW s \in from .. to - 1
               PROVE  Truncate(s, n) \in T
    OBVIOUS
  <2>1. s \in Int /\ from <= s /\ s < to
    OBVIOUS
  <2>2. /\ Truncate(s, n) \in Int /\ Truncate(s, n) % n = 0 /\ Truncate(s, n) <= s
        /\ from <= Truncate(s, n)
    BY <2>1, TruncateIs, TruncateAfter
  <2> QED
    BY <2>1, <2>2 DEF Starts
<1>4. ASSUME NEW a \in T
      PROVE  Under(c, g, a) = [s \in a .. (a + n) - 1 |-> RawBytes(t, e, s)]
  <2>1. a \in Int /\ from <= a /\ a < to /\ a % n = 0
    BY DEF Starts
  <2>2. a + n <= to
    BY <2>1, AlignedApart
  <2>3. \A s \in from .. to - 1 : Truncate(s, n) = a => a <= s /\ s < a + n
    BY TruncateIs
  <2>4. \A s \in from .. to - 1 : a <= s /\ s < a + n => Truncate(s, n) = a
    BY <2>1, TruncateAfter
  <2>5. {s \in from .. to - 1 : Truncate(s, n) = a} = a .. (a + n) - 1
    <3>1. ASSUME NEW s \in a .. (a + n) - 1
          PROVE  s \in from .. to - 1 /\ a <= s /\ s < a + n
      BY <2>1, <2>2
    <3>2. ASSUME NEW s \in from .. to - 1, a <= s, s < a + n
          PROVE  s \in a .. (a + n) - 1
      BY <2>1, <3>2
    <3> QED
      BY <2>3, <2>4, <3>1, <3>2
  <2>6. {s \in DOMAIN c : g[s] = a} = {s \in from .. to - 1 : Truncate(s, n) = a}
    OBVIOUS
  <2>7. \A s \in a .. (a + n) - 1 : c[s] = RawBytes(t, e, s)
    BY <2>5
  <2> HIDE DEF c, g
  <2> QED
    BY <2>5, <2>6, <2>7 DEF Under, Restrict
<1>5. ASSUME NEW a \in T
      PROVE  SumOf(Under(c, g, a)) = Carries(t, e, a, a + n)
  <2> HIDE DEF c, g, T
  <2>1. Under(c, g, a) = [s \in a .. (a + n) - 1 |-> RawBytes(t, e, s)]
    BY <1>4
  <2> QED
    BY <2>1 DEF Carries
<1> HIDE DEF c, g, T
<1>6. SumOf(c) = SumOf([a \in T |-> SumOf(Under(c, g, a))])
  BY <1>1, <1>2, <1>3, TotalByGroups
<1> QED
  BY <1>5, <1>6 DEF Carries, c, T

-----------------------------------------------------------------------------
(* Edges under redirects. *)

\* Bytes of an edge, from the lower end of its logical edge to the higher.
Facing(to, e, bytes) == IF to[e[1]] < to[e[2]] THEN bytes ELSE Swap(bytes)

LogicalUnder(to, e) == EdgeOf(to[e[1]], to[e[2]])

\* The edges that are one with e.
AliasesUnder(to, S, e) == {f \in S : ~IsLoop(to, f) /\ LogicalUnder(to, f) = LogicalUnder(to, e)}

\* The ends of an edge.
LEMMA EdgeEnds ==
  ASSUME NEW e \in AllEdges
  PROVE  /\ e[1] \in Nodes /\ e[2] \in Nodes /\ e[1] \in Nat /\ e[2] \in Nat
         /\ e[1] < e[2] /\ e = <<e[1], e[2]>>
<1>1. PICK m \in Nodes, n \in Nodes : e = <<m, n>>
  BY DEF AllEdges
<1>2. e[1] = m /\ e[2] = n
  BY <1>1
<1>3. e[1] < e[2]
  BY DEF AllEdges
<1> QED
  BY <1>1, <1>2, <1>3, NodesAssumption

\* The logical edge of an edge that is no loop.
LEMMA LogicalIs ==
  ASSUME NEW to \in [Nodes -> Nodes], NEW e \in AllEdges, ~IsLoop(to, e)
  PROVE  /\ LogicalUnder(to, e) \in AllEdges
         /\ to[e[1]] \in Nat /\ to[e[2]] \in Nat /\ to[e[1]] # to[e[2]]
         /\ LogicalUnder(to, e) = IF to[e[1]] < to[e[2]] THEN <<to[e[1]], to[e[2]]>>
                                                         ELSE <<to[e[2]], to[e[1]]>>
<1>1. e[1] \in Nodes /\ e[2] \in Nodes
  BY EdgeEnds
<1>2. to[e[1]] \in Nodes /\ to[e[2]] \in Nodes
  BY <1>1
<1>3. to[e[1]] \in Nat /\ to[e[2]] \in Nat
  BY <1>2, NodesAssumption
<1>4. to[e[1]] # to[e[2]]
  BY DEF IsLoop
<1> DEFINE m == to[e[1]]
           n == to[e[2]]
<1>5. EdgeOf(m, n) = IF m < n THEN <<m, n>> ELSE <<n, m>>
  <2>1. m \in Nat /\ n \in Nat /\ m # n
    BY <1>3, <1>4
  <2> HIDE DEF m, n
  <2> QED
    BY <2>1 DEF EdgeOf, Smaller, Larger
<1>6. EdgeOf(m, n) \in AllEdges
  <2>1. m \in Nat /\ n \in Nat /\ m # n /\ m \in Nodes /\ n \in Nodes
    BY <1>2, <1>3, <1>4
  <2> HIDE DEF m, n
  <2> QED
    BY <2>1, <1>5 DEF AllEdges
<1> QED
  BY <1>3, <1>4, <1>5, <1>6 DEF LogicalUnder

\* The row of the map for an edge that is no loop.
LEMMA MappingIs ==
  ASSUME NEW to \in [Nodes -> Nodes], NEW e \in AllEdges, ~IsLoop(to, e)
  PROVE  /\ Mapping(to, e) = [edge |-> LogicalUnder(to, e), reversed |-> ~(to[e[1]] < to[e[2]])]
         /\ Mapping(to, e) \in [edge : AllEdges, reversed : BOOLEAN]
<1> DEFINE m == to[e[1]]
           n == to[e[2]]
           L == LogicalUnder(to, e)
<1>1. /\ L \in AllEdges /\ m \in Nat /\ n \in Nat /\ m # n
      /\ L = IF m < n THEN <<m, n>> ELSE <<n, m>>
  BY LogicalIs
<1>2. Mapping(to, e) = [edge |-> L, reversed |-> m # L[1]]
  BY DEF Mapping, LogicalUnder
<1> HIDE DEF m, n, L
<1>3. (m # L[1]) = ~(m < n)
  BY <1>1
<1>4. Mapping(to, e) = [edge |-> L, reversed |-> ~(m < n)]
  BY <1>2, <1>3
<1>5. Mapping(to, e) \in [edge : AllEdges, reversed : BOOLEAN]
  BY <1>1, <1>4
<1> QED
  BY <1>4, <1>5 DEF m, n, L

\* Orienting keeps byte counts and their order.
LEMMA FacingType ==
  ASSUME NEW to, NEW e, NEW b \in Bytes, NEW c \in Bytes
  PROVE  /\ Facing(to, e, b) \in Bytes
         /\ AtMost(b, c) => AtMost(Facing(to, e, b), Facing(to, e, c))
         /\ Facing(to, e, Zero) = Zero
BY BytesOrder DEF Facing

\* Turning a table around turns its sum around.
LEMMA TotalFacing ==
  ASSUME NEW t, Table(t), NEW to, NEW e
  PROVE  /\ Table([x \in DOMAIN t |-> Facing(to, e, t[x])])
         /\ SumOf([x \in DOMAIN t |-> Facing(to, e, t[x])]) = Facing(to, e, SumOf(t))
<1>1. CASE to[e[1]] < to[e[2]]
  <2>1. [x \in DOMAIN t |-> Facing(to, e, t[x])] = t
    BY <1>1 DEF Facing, Table
  <2>2. Facing(to, e, SumOf(t)) = SumOf(t)
    BY <1>1 DEF Facing
  <2> QED
    BY <2>1, <2>2
<1>2. CASE ~(to[e[1]] < to[e[2]])
  <2>1. [x \in DOMAIN t |-> Facing(to, e, t[x])] = [x \in DOMAIN t |-> Swap(t[x])]
    BY <1>2 DEF Facing
  <2>2. Facing(to, e, SumOf(t)) = Swap(SumOf(t))
    BY <1>2 DEF Facing
  <2> QED
    BY <2>1, <2>2, TotalSwapped
<1> QED
  BY <1>1, <1>2

\* More redirects after the ones there are: what is no loop after them was none
\* before, one edge stays one edge, and all its aliases turn around or none does.
LEMMA RedirectedFurther ==
  ASSUME NEW to \in [Nodes -> Nodes], NEW then \in [Nodes -> Nodes],
         NEW further \in [Nodes -> Nodes], \A n \in Nodes : further[n] = then[to[n]],
         NEW e \in AllEdges, ~IsLoop(further, e), NEW f \in AllEdges, ~IsLoop(to, f),
         LogicalUnder(to, f) = LogicalUnder(to, e)
  PROVE  /\ ~IsLoop(to, e) /\ ~IsLoop(further, f)
         /\ LogicalUnder(further, f) = LogicalUnder(further, e)
         /\ (further[f[1]] < further[f[2]] <=> to[f[1]] < to[f[2]])
                <=> (further[e[1]] < further[e[2]] <=> to[e[1]] < to[e[2]])
<1>1. /\ e[1] \in Nodes /\ e[2] \in Nodes /\ f[1] \in Nodes /\ f[2] \in Nodes
  BY EdgeEnds
<1>2. ~IsLoop(to, e)
  BY <1>1 DEF IsLoop
<1> DEFINE a == to[e[1]]
           b == to[e[2]]
           c == to[f[1]]
           d == to[f[2]]
<1>3. /\ a \in Nodes /\ b \in Nodes /\ c \in Nodes /\ d \in Nodes
      /\ a \in Nat /\ b \in Nat /\ c \in Nat /\ d \in Nat /\ a # b /\ c # d
  BY <1>1, <1>2, LogicalIs
<1>4. /\ further[e[1]] = then[a] /\ further[e[2]] = then[b]
      /\ further[f[1]] = then[c] /\ further[f[2]] = then[d]
  BY <1>1
<1>5. (IF a < b THEN <<a, b>> ELSE <<b, a>>) = (IF c < d THEN <<c, d>> ELSE <<d, c>>)
  BY <1>2, LogicalIs
<1>6. then[a] # then[b]
  BY <1>4 DEF IsLoop
<1> DEFINE p == then[a]
           q == then[b]
<1>7. p \in Nat /\ q \in Nat /\ p # q
  BY <1>3, <1>6, NodesAssumption
<1>8. (c = a /\ d = b) \/ (c = b /\ d = a)
  <2> HIDE DEF a, b, c, d
  <2> QED
    BY <1>3, <1>5
<1>9. ~IsLoop(further, f)
  BY <1>4, <1>6, <1>8 DEF IsLoop
<1>10. LogicalUnder(further, e) = EdgeOf(p, q)
       /\ (LogicalUnder(further, f) = EdgeOf(p, q) \/ LogicalUnder(further, f) = EdgeOf(q, p))
  BY <1>4, <1>8 DEF LogicalUnder
<1>11. EdgeOf(p, q) = EdgeOf(q, p)
  <2> HIDE DEF p, q
  <2> QED
    BY <1>7 DEF EdgeOf, Smaller, Larger
<1>12. CASE c = a /\ d = b
  BY <1>2, <1>4, <1>9, <1>10, <1>11, <1>12
<1>13. CASE c = b /\ d = a
  <2>1. further[f[1]] = q /\ further[f[2]] = p /\ further[e[1]] = p /\ further[e[2]] = q
    BY <1>4, <1>13
  <2>2. (q < p <=> c < d) <=> (p < q <=> a < b)
    <3> HIDE DEF a, b, c, d, p, q
    <3> QED
      BY <1>3, <1>7, <1>13
  <2> QED
    BY <1>2, <1>9, <1>10, <1>11, <2>1, <2>2
<1> QED
  BY <1>8, <1>12, <1>13

-----------------------------------------------------------------------------
(* Finite sets. *)

\* The image of a finite set is finite.
LEMMA ImageFinite ==
  ASSUME NEW f, IsFiniteSet(DOMAIN f)
  PROVE  IsFiniteSet({f[x] : x \in DOMAIN f})
<1> DEFINE T == {f[x] : x \in DOMAIN f}
           g == [x \in DOMAIN f |-> f[x]]
<1>1. g \in [DOMAIN f -> T] /\ \A y \in T : \E x \in DOMAIN f : g[x] = y
  OBVIOUS
<1>2. g \in Surjection(DOMAIN f, T)
  <2> HIDE DEF g, T
  <2> QED
    BY <1>1 DEF Surjection
<1> HIDE DEF g, T
<1>3. IsFiniteSet(T)
  BY <1>2, FS_Surjection
<1> QED
  BY <1>3 DEF T

\* Keys of finitely many edges and starts are finitely many.
LEMMA KeysFinite ==
  ASSUME NEW E, IsFiniteSet(E), NEW S, IsFiniteSet(S), NEW K \in SUBSET [edge : E, start : S]
  PROVE  IsFiniteSet(K)
<1> DEFINE g == [k \in K |-> <<k.edge, k.start>>]
<1>1. g \in [K -> E \X S]
  OBVIOUS
<1>2. \A k \in K, l \in K : g[k] = g[l] => k = l
  OBVIOUS
<1>3. g \in Injection(K, E \X S)
  <2> HIDE DEF g
  <2> QED
    BY <1>1, <1>2 DEF Injection, IsInjective
<1>4. IsFiniteSet(E \X S)
  BY FS_Product
<1> HIDE DEF g
<1> QED
  BY <1>3, <1>4, FS_Injection

\* A time has finitely many intervals.
LEMMA StartsFinite ==
  ASSUME NEW from \in Int, NEW to \in Int, NEW n
  PROVE  IsFiniteSet(Starts(from, to, n))
<1>1. IsFiniteSet(from .. to - 1) /\ Starts(from, to, n) \in SUBSET (from .. to - 1)
  BY FS_Interval DEF Starts
<1> QED
  BY <1>1, FS_Subset

\* The least member is a member.
LEMMA MinIsMember ==
  ASSUME NEW S \in SUBSET Nat, S # {}
  PROVE  Min(S) \in S
  BY NatsHaveLeast DEF Min

\* Truncate rounds down.
LEMMA TruncateRoundsDown ==
  ASSUME NEW t \in Int, NEW interval \in Nat \ {0}
  PROVE  Truncate(t, interval) \in Int /\ Truncate(t, interval) <= t
  BY DEF Truncate

\* A rollup ends at least the grace behind the clock.
LEMMA MinuteEndBehind ==
  ASSUME NEW t \in Int
  PROVE  MinuteEnd(t) \in Int /\ MinuteEnd(t) <= t - Grace
  BY TruncateRoundsDown, TiersAssumption DEF MinuteEnd

\* A first rollup starts no later than it ends.
LEMMA RollupStartEarly ==
  ASSUME NEW starts \in SUBSET Nat, NEW end \in Int
  PROVE  /\ RollupStart(NoTime, starts, Minute, end) \in Int
         /\ RollupStart(NoTime, starts, Minute, end) <= end
<1>1. CASE starts = {}
  BY <1>1 DEF RollupStart
<1>2. CASE starts # {}
  <2>1. Min(starts) \in Int
    <3>1. Min(starts) \in starts
      BY <1>2, MinIsMember
    <3>2. \A x \in starts : x \in Int
      OBVIOUS
    <3> QED
      BY <3>1, <3>2, Zenon
  <2>2. Minute \in Nat \ {0}
    BY TiersAssumption
  <2>3. Truncate(Min(starts), Minute) \in Int
    BY <2>1, <2>2, TruncateRoundsDown
  <2>4. RollupStart(NoTime, starts, Minute, end) = Smaller(end, Truncate(Min(starts), Minute))
    BY <1>2 DEF RollupStart
  <2> QED
    BY <2>3, <2>4 DEF Smaller
<1> QED
  BY <1>1, <1>2

-----------------------------------------------------------------------------
(* The clock and the cursor. *)

\* The clock is never further behind its latest reading than it may be set back.
ClockInv ==
    /\ now \in Nat /\ latest \in Nat
    /\ latest - ClockSlip <= now /\ now <= latest

RawInv == \A k \in DOMAIN raw : k.start \in Nat

\* The cursor is behind the latest reading by the grace.
CursorInv ==
    \/ cursor.minute = NoTime
    \/ cursor.minute \in Int /\ cursor.minute <= latest - Grace

Behind == ClockInv /\ RawInv /\ CursorInv

\* At first no cursor is set.
LEMMA BehindInit == Init => Behind
  BY TiersAssumption DEF Init, Behind, ClockInv, RawInv, CursorInv

\* A reading of the clock never lies before the cursor.
LEMMA ClockPastCursor ==
  ASSUME Behind
  PROVE  cursor.minute # NoTime => cursor.minute \in Int /\ cursor.minute <= now
  BY TiersAssumption DEF Behind, ClockInv, CursorInv

\* A report adds at most one raw row.
LEMMA RecordDomain ==
  ASSUME NEW e, NEW o, NEW b, Record(e, o, b)
  PROVE  DOMAIN raw' = DOMAIN raw \cup {[edge |-> e, start |-> now, observer |-> o]}
  BY DEF Record, Upsert

\* A report is not behind the cursor.
LEMMA RecordStep ==
  ASSUME Behind, NEW e, NEW o, NEW b, Record(e, o, b)
  PROVE  Behind'
<1>1. UNCHANGED <<cursor, now, latest>>
  BY DEF Record
<1>2. DOMAIN raw' = DOMAIN raw \cup {[edge |-> e, start |-> now, observer |-> o]}
  BY RecordDomain
<1>3. [edge |-> e, start |-> now, observer |-> o].start \in Nat
  BY DEF Behind, ClockInv
<1>4. RawInv'
  BY <1>2, <1>3 DEF Behind, RawInv
<1> QED
  BY <1>1, <1>4 DEF Behind, ClockInv, CursorInv

\* Where maintenance leaves the minute cursor.
LEMMA MinuteCursorBehind ==
  ASSUME Behind
  PROVE  MinuteCursor(now) \in Int /\ MinuteCursor(now) <= latest - Grace
<1>1. MinuteEnd(now) \in Int /\ MinuteEnd(now) <= now - Grace
  BY MinuteEndBehind DEF Behind, ClockInv
<1>2. Grace \in Nat /\ NoTime \notin Int
  BY TiersAssumption
<1>3. MinuteEnd(now) <= latest - Grace
  BY <1>1, <1>2 DEF Behind, ClockInv
<1>4. StartsOf(raw) \in SUBSET Nat
  BY DEF Behind, RawInv, StartsOf
<1>5. CASE cursor.minute = NoTime
  BY <1>1, <1>2, <1>3, <1>4, <1>5, RollupStartEarly DEF MinuteCursor, Larger, Behind, ClockInv
<1>6. CASE cursor.minute # NoTime
  <2>1. RollupStart(cursor.minute, StartsOf(raw), Minute, MinuteEnd(now)) = cursor.minute
    BY <1>6 DEF RollupStart
  <2>2. cursor.minute \in Int /\ cursor.minute <= latest - Grace
    BY <1>6 DEF Behind, CursorInv
  <2> QED
    BY <1>1, <1>3, <2>1, <2>2 DEF MinuteCursor, Larger
<1> QED
  BY <1>5, <1>6

\* Maintenance keeps the cursor behind the clock.
LEMMA MaintainStep == ASSUME Behind, Maintain PROVE Behind'
<1>1. UNCHANGED <<now, latest>>
  BY DEF Maintain
<1>2. cursor'.minute = MinuteCursor(now)
  BY DEF Maintain
<1>3. raw' = Since(raw, RawCutoff(now, MinuteCursor(now)))
  BY DEF Maintain
<1>4. DOMAIN raw' \subseteq DOMAIN raw
  BY <1>3 DEF Since, Restrict
<1> QED
  BY <1>1, <1>2, <1>4, MinuteCursorBehind DEF Behind, ClockInv, RawInv, CursorInv

\* A clock set back within the grace stays past the cursor.
LEMMA TickStep == ASSUME Behind, NEW t \in Times, Tick(t) PROVE Behind'
<1>1. t \in Nat
  BY TiersAssumption DEF Times
<1>2. now' = t /\ latest' = Larger(latest, t) /\ t >= latest - ClockSlip /\ UNCHANGED <<raw, cursor>>
  BY DEF Tick, tierVars
<1>3. ClockInv' /\ latest' >= latest
  BY <1>1, <1>2, TiersAssumption DEF Behind, ClockInv, Larger
<1> QED
  BY <1>2, <1>3, TiersAssumption DEF Behind, ClockInv, RawInv, CursorInv

\* Every step keeps the cursor behind the clock.
LEMMA BehindNext == ASSUME Behind, [Next]_vars PROVE Behind'
<1>1. ASSUME NEW m, Merge(m[1], m[2])
      PROVE  Behind'
  BY <1>1 DEF Merge, tierVars, Behind, ClockInv, RawInv, CursorInv
<1>2. CASE UNCHANGED vars
  BY <1>2 DEF vars, tierVars, Behind, ClockInv, RawInv, CursorInv
<1> QED
  BY <1>1, <1>2, RecordStep, MaintainStep, TickStep DEF Next

\* The minute cursor is never ahead of a reading the clock may still take
\* (rollupHistory's grace).
THEOREM CursorStaysBehind == Spec => []Behind
  BY BehindInit, BehindNext, PTL DEF Spec

\* No raw row is ever written behind the minute cursor, however long the
\* intervals are, as long as the clock is set back by no more than the grace
\* (recordTraffic, minuteRollupGrace).
THEOREM WritesStayAhead == Spec => NothingWrittenBehindCursor
<1>1. Behind /\ [Next]_vars =>
          [\A k \in DOMAIN raw' \ DOMAIN raw : cursor.minute # NoTime => k.start >= cursor.minute]_vars
  <2> SUFFICES ASSUME Behind, Next, NEW k \in DOMAIN raw' \ DOMAIN raw, cursor.minute # NoTime
               PROVE  k.start >= cursor.minute
    OBVIOUS
  <2>1. ASSUME NEW e, NEW o, NEW b, Record(e, o, b)
        PROVE  k.start >= cursor.minute
    <3>1. DOMAIN raw' = DOMAIN raw \cup {[edge |-> e, start |-> now, observer |-> o]}
      BY <2>1, RecordDomain
    <3>2. k = [edge |-> e, start |-> now, observer |-> o]
      BY <3>1
    <3>3. k.start = now
      BY <3>2
    <3> QED
      BY <3>3, ClockPastCursor DEF Behind, ClockInv
  <2>2. CASE Maintain
    BY <2>2 DEF Maintain, Since, Restrict
  <2>3. ASSUME NEW t, Tick(t)
        PROVE  UNCHANGED raw
    BY <2>3 DEF Tick, tierVars
  <2>4. ASSUME NEW m, Merge(m[1], m[2])
        PROVE  UNCHANGED raw
    BY <2>4 DEF Merge, tierVars
  <2> QED
    BY <2>1, <2>2, <2>3, <2>4 DEF Next
<1> QED
  BY <1>1, CursorStaysBehind, PTL DEF Spec, NothingWrittenBehindCursor

-----------------------------------------------------------------------------
(* The inductive invariant. *)

Started == cursor.minute # NoTime

TimesOK == now \in Times /\ latest \in Times

MapOK ==
    /\ redirects \in [Nodes -> Nodes]
    /\ \A n \in Nodes : redirects[redirects[n]] = redirects[n]
    /\ edges \in SUBSET AllEdges /\ IsFiniteSet(edges)
    /\ map = Mapped(redirects, edges)

CursorOK ==
    /\ cursor \in [minute : Int \cup {NoTime}, hour : Int \cup {NoTime}]
    /\ Started <=> cursor.hour # NoTime
    /\ Started => /\ cursor.minute % Minute = 0 /\ cursor.hour % Hour = 0
                  /\ cursor.hour <= cursor.minute

LedgerOK ==
    /\ Table(ledger) /\ DOMAIN ledger \subseteq RawKeys
    /\ \A k \in DOMAIN ledger : /\ k.edge \in edges /\ k.start <= latest
                                /\ k.observer \in {k.edge[1], k.edge[2], 0}

\* Raw rows are kept until their minute is rolled up and they are old, and those
\* of one bucket go together.
RawOK ==
    /\ Table(raw)
    /\ DOMAIN raw \subseteq DOMAIN ledger
    /\ \A k \in DOMAIN raw : raw[k] = ledger[k]
    /\ \A k \in DOMAIN raw, l \in DOMAIN ledger :
           l.edge = k.edge /\ l.start = k.start => l \in DOMAIN raw
    /\ \A k \in DOMAIN ledger :
           (Started => k.start >= cursor.minute \/ k.start >= latest - RawRetention)
               => k \in DOMAIN raw

\* Every minute of a row before upto that is not rolled up, or not old, is there.
MinutesHold(table, minutes, upto, hourly, since) ==
    \A k \in DOMAIN table :
        LET m == Truncate(k.start, Minute)
        IN  m < upto /\ (m >= hourly \/ m >= since) => [edge |-> k.edge, start |-> m] \in DOMAIN minutes

\* The minutes before the cursor tell what the raw rows told, and are kept until
\* their hour is rolled up and they are old.
MinuteOK ==
    /\ Table(minute)
    /\ \A k \in DOMAIN minute :
           /\ Started
           /\ k \in [edge : edges, start : Nat]
           /\ k.start % Minute = 0 /\ k.start < cursor.minute
           /\ minute[k] = Carries(ledger, k.edge, k.start, k.start + Minute)
    /\ Started =>
           MinutesHold(ledger, minute, cursor.minute, cursor.hour, latest - MinuteRetention)

\* What an edge that was rolled up as row says of an hour is at most what its
\* aliases carried together.
HourAtMost(to, S, table, e, h, row) ==
    AtMost(Facing(to, e, row),
           SumOf([f \in AliasesUnder(to, S, e) |-> Facing(to, f, Carries(table, f, h, h + Hour))]))

\* What e carried in an hour is at most what the row of an edge says that is one
\* with it.
HourAtLeast(to, table, e, h, f, row) ==
    /\ ~IsLoop(to, f) /\ LogicalUnder(to, f) = LogicalUnder(to, e)
    /\ AtMost(Facing(to, e, Carries(table, e, h, h + Hour)), Facing(to, f, row))

HoursWithin(to, S, table, hours) ==
    \A k \in DOMAIN hours :
        ~IsLoop(to, k.edge) => HourAtMost(to, S, table, k.edge, k.start, hours[k])

HoursHold(to, table, hours, upto, since) ==
    \A k \in DOMAIN table :
        ~IsLoop(to, k.edge) /\ Truncate(k.start, Hour) < upto /\ Truncate(k.start, Hour) >= since
            => \E l \in DOMAIN hours :
                   /\ l.start = Truncate(k.start, Hour)
                   /\ HourAtLeast(to, table, k.edge, l.start, l.edge, hours[l])

\* The hours before the cursor tell no less than any one alias carried and no
\* more than all did, whatever was merged since.
HourOK ==
    /\ Table(hour)
    /\ \A k \in DOMAIN hour : /\ Started
                             /\ k \in [edge : edges, start : Int]
                             /\ k.start % Hour = 0 /\ k.start < cursor.hour
    /\ HoursWithin(redirects, edges, ledger, hour)
    /\ Started => HoursHold(redirects, ledger, hour, cursor.hour, latest - HourRetention)

Inv == Behind /\ TimesOK /\ MapOK /\ CursorOK /\ LedgerOK /\ RawOK /\ MinuteOK /\ HourOK

-----------------------------------------------------------------------------
(* What the map is. *)

\* The map holds the edges that are no loops, each with its logical edge.
LEMMA MapIs ==
  ASSUME MapOK
  PROVE  /\ DOMAIN map = {e \in edges : ~IsLoop(redirects, e)}
         /\ \A e \in DOMAIN map : /\ e \in AllEdges /\ e \in edges /\ ~IsLoop(redirects, e)
                                  /\ map[e].edge = LogicalUnder(redirects, e)
                                  /\ map[e].edge \in AllEdges
                                  /\ map[e] \in [edge : AllEdges, reversed : BOOLEAN]
         /\ \A e \in DOMAIN map : \A b : Oriented(e, b) = Facing(redirects, e, b)
         /\ \A L : Aliases(L) \subseteq DOMAIN map
         /\ \A e \in DOMAIN map : Aliases(map[e].edge) = AliasesUnder(redirects, edges, e)
         /\ IsFiniteSet(DOMAIN map)
<1>1. DOMAIN map = {e \in edges : ~IsLoop(redirects, e)}
      /\ \A e \in DOMAIN map : map[e] = Mapping(redirects, e)
  BY DEF MapOK, Mapped
<1>2. \A e \in DOMAIN map : e \in AllEdges /\ e \in edges /\ ~IsLoop(redirects, e)
  BY <1>1 DEF MapOK
<1>3. ASSUME NEW e \in DOMAIN map
      PROVE  /\ map[e].edge = LogicalUnder(redirects, e) /\ map[e].edge \in AllEdges
             /\ map[e].reversed = ~(redirects[e[1]] < redirects[e[2]])
             /\ map[e] \in [edge : AllEdges, reversed : BOOLEAN]
  <2>1. redirects \in [Nodes -> Nodes]
    BY DEF MapOK
  <2>2. /\ Mapping(redirects, e) = [edge |-> LogicalUnder(redirects, e),
                                   reversed |-> ~(redirects[e[1]] < redirects[e[2]])]
        /\ Mapping(redirects, e) \in [edge : AllEdges, reversed : BOOLEAN]
    BY <1>2, <2>1, MappingIs
  <2>3. map[e] = Mapping(redirects, e)
    BY <1>1
  <2>4. map[e] \in [edge : AllEdges, reversed : BOOLEAN]
    BY <2>2, <2>3
  <2>5. map[e].edge = LogicalUnder(redirects, e)
    BY <2>2, <2>3
  <2>6. map[e].reversed = ~(redirects[e[1]] < redirects[e[2]])
    <3> DEFINE turned == ~(redirects[e[1]] < redirects[e[2]])
    <3>1. map[e] = [edge |-> LogicalUnder(redirects, e), reversed |-> turned]
      BY <2>2, <2>3
    <3> HIDE DEF turned
    <3>2. map[e].reversed = turned
      BY <3>1
    <3> QED
      BY <3>2 DEF turned
  <2> QED
    BY <2>4, <2>5, <2>6
<1>4. \A e \in DOMAIN map : \A b : Oriented(e, b) = Facing(redirects, e, b)
  BY <1>3 DEF Oriented, Facing
<1>5. \A L : Aliases(L) \subseteq DOMAIN map
  BY DEF Aliases
<1>6. \A e \in DOMAIN map : Aliases(map[e].edge) = AliasesUnder(redirects, edges, e)
  BY <1>1, <1>3 DEF Aliases, AliasesUnder
<1>7. IsFiniteSet(DOMAIN map)
  BY <1>1, FS_Subset DEF MapOK
<1> QED
  BY <1>1, <1>2, <1>3, <1>4, <1>5, <1>6, <1>7

\* A logical edge joins two nodes that are there, and is its own logical edge.
LEMMA LogicalIsRoot ==
  ASSUME MapOK, NEW L \in Logical
  PROVE  /\ L \in AllEdges /\ redirects[L[1]] = L[1] /\ redirects[L[2]] = L[2]
         /\ ~IsLoop(redirects, L) /\ LogicalUnder(redirects, L) = L
         /\ Mapping(redirects, L) = [edge |-> L, reversed |-> FALSE]
         /\ \A b : Facing(redirects, L, b) = b
<1>1. PICK e \in DOMAIN map : L = map[e].edge
  BY DEF Logical
<1>2. e \in AllEdges /\ ~IsLoop(redirects, e) /\ L = LogicalUnder(redirects, e) /\ L \in AllEdges
  BY <1>1, MapIs
<1>3. redirects \in [Nodes -> Nodes] /\ \A n \in Nodes : redirects[redirects[n]] = redirects[n]
  BY DEF MapOK
<1>4. e[1] \in Nodes /\ e[2] \in Nodes
  BY <1>2, EdgeEnds
<1>5. L = IF redirects[e[1]] < redirects[e[2]] THEN <<redirects[e[1]], redirects[e[2]]>>
                                              ELSE <<redirects[e[2]], redirects[e[1]]>>
  BY <1>2, <1>3, LogicalIs
<1>6. redirects[L[1]] = L[1] /\ redirects[L[2]] = L[2]
  BY <1>3, <1>4, <1>5
<1>7. L[1] \in Nat /\ L[2] \in Nat /\ L[1] < L[2] /\ L = <<L[1], L[2]>>
  BY <1>2, EdgeEnds
<1>8. ~IsLoop(redirects, L)
  BY <1>6, <1>7 DEF IsLoop
<1>9. LogicalUnder(redirects, L) = L
  BY <1>2, <1>3, <1>6, <1>7, <1>8, LogicalIs
<1>10. Mapping(redirects, L) = [edge |-> L, reversed |-> FALSE]
  <2>1. Mapping(redirects, L) = [edge |-> LogicalUnder(redirects, L),
                                 reversed |-> ~(redirects[L[1]] < redirects[L[2]])]
    BY <1>2, <1>3, <1>8, MappingIs
  <2> QED
    BY <1>6, <1>7, <1>9, <2>1
<1>11. \A b : Facing(redirects, L, b) = b
  BY <1>6, <1>7 DEF Facing
<1> QED
  BY <1>2, <1>6, <1>8, <1>9, <1>10, <1>11

-----------------------------------------------------------------------------
(* The first state. *)

\* The empty table.
LEMMA EmptyTable == Table(<<>>) /\ DOMAIN <<>> = {}
  BY FS_EmptySet DEF Table

\* At first the invariant holds.
LEMMA InvInit == Init => Inv
<1> SUFFICES ASSUME Init
             PROVE  Inv
  OBVIOUS
<1>1. Behind
  BY BehindInit
<1>2. TimesOK
  BY TiersAssumption DEF Init, TimesOK, Times
<1>3. MapOK
  <2>1. edges = {} /\ map = <<>> /\ redirects = [n \in Nodes |-> n]
    BY DEF Init
  <2>2. map = Mapped(redirects, edges)
    <3>1. Mapped(redirects, {}) = [e \in {} |-> Mapping(redirects, e)]
      BY DEF Mapped
    <3> QED
      BY <2>1, <3>1
  <2> QED
    BY <2>1, <2>2, FS_EmptySet DEF MapOK
<1>4. CursorOK
  BY DEF Init, CursorOK, Started
<1>5. LedgerOK /\ RawOK
  BY EmptyTable DEF Init, LedgerOK, RawOK
<1>6. MinuteOK /\ HourOK
  <2>1. hour = <<>> /\ minute = <<>> /\ ~Started
    BY DEF Init, Started
  <2>2. HoursWithin(redirects, edges, ledger, hour)
    BY <2>1, EmptyTable DEF HoursWithin
  <2> QED
    BY <2>1, <2>2, EmptyTable DEF MinuteOK, HourOK
<1> QED
  BY <1>1, <1>2, <1>3, <1>4, <1>5, <1>6 DEF Inv

-----------------------------------------------------------------------------
(* The steps of the clock and of the redirects. *)

\* The types the steps keep needing.
LEMMA Kinds ==
  ASSUME Inv
  PROVE  /\ now \in Int /\ latest \in Int /\ now <= latest
         /\ Minute \in Nat \ {0} /\ Hour \in Nat \ {0} /\ NoTime \notin Int
         /\ RawRetention \in Nat /\ MinuteRetention \in Nat /\ HourRetention \in Nat /\ Day \in Nat
         /\ Started => cursor.minute \in Int /\ cursor.hour \in Int /\ cursor.hour <= cursor.minute
                       /\ cursor.minute % Minute = 0 /\ cursor.hour % Hour = 0 /\ cursor.minute <= now
         /\ \A k \in DOMAIN ledger :
                /\ k \in RawKeys /\ k.edge \in AllEdges /\ k.start \in Int /\ k.start <= latest
                /\ Truncate(k.start, Minute) \in Int /\ Truncate(k.start, Hour) \in Int
<1>1. now \in Int /\ latest \in Int /\ now <= latest
  BY DEF Inv, Behind, ClockInv
<1>2. Started => cursor.minute \in Int /\ cursor.minute <= now
  BY ClockPastCursor DEF Inv, Started
<1>3. Started => /\ cursor.hour \in Int /\ cursor.hour <= cursor.minute
                 /\ cursor.minute % Minute = 0 /\ cursor.hour % Hour = 0
  BY DEF Inv, CursorOK, Started
<1>4. ASSUME NEW k \in DOMAIN ledger
      PROVE  /\ k \in RawKeys /\ k.edge \in AllEdges /\ k.start \in Int /\ k.start <= latest
             /\ Truncate(k.start, Minute) \in Int /\ Truncate(k.start, Hour) \in Int
  <2>1. k \in RawKeys /\ k.start <= latest
    BY DEF Inv, LedgerOK
  <2>2. k.edge \in AllEdges /\ k.start \in Int
    BY <2>1, TiersAssumption DEF RawKeys, Times
  <2> QED
    BY <2>1, <2>2, TruncateRoundsDown, TiersAssumption
<1> QED
  BY <1>1, <1>2, <1>3, <1>4, TiersAssumption

\* The parts of a key.
LEMMA KeyParts ==
  ASSUME NEW E, NEW S, NEW k \in [edge : E, start : S]
  PROVE  k.edge \in E /\ k.start \in S /\ k = [edge |-> k.edge, start |-> k.start]
OBVIOUS

\* What the invariant says of an hour row.
LEMMA HourRow ==
  ASSUME Inv, NEW k \in DOMAIN hour
  PROVE  /\ k.edge \in edges /\ k.edge \in AllEdges /\ k.start \in Int
         /\ k = [edge |-> k.edge, start |-> k.start] /\ hour[k] \in Bytes
         /\ Started /\ k.start % Hour = 0 /\ k.start < cursor.hour
<1>1. /\ Started /\ k \in [edge : edges, start : Int]
      /\ k.start % Hour = 0 /\ k.start < cursor.hour
  BY DEF Inv, HourOK
<1>2. k.edge \in edges /\ k.start \in Int /\ k = [edge |-> k.edge, start |-> k.start]
  BY <1>1, KeyParts
<1>3. k.edge \in AllEdges
  BY <1>2 DEF Inv, MapOK
<1>4. hour[k] \in Bytes
  BY DEF Inv, HourOK, Table
<1> QED
  BY <1>1, <1>2, <1>3, <1>4

\* What the invariant says of a minute row.
LEMMA MinuteRow ==
  ASSUME Inv, NEW k \in DOMAIN minute
  PROVE  /\ k.edge \in edges /\ k.edge \in AllEdges /\ k.start \in Nat
         /\ k = [edge |-> k.edge, start |-> k.start] /\ minute[k] \in Bytes
         /\ Started /\ k.start % Minute = 0 /\ k.start < cursor.minute
         /\ minute[k] = Carries(ledger, k.edge, k.start, k.start + Minute)
<1>1. /\ Started /\ k \in [edge : edges, start : Nat]
      /\ k.start % Minute = 0 /\ k.start < cursor.minute
      /\ minute[k] = Carries(ledger, k.edge, k.start, k.start + Minute)
  BY DEF Inv, MinuteOK
<1>2. k.edge \in edges /\ k.start \in Nat /\ k = [edge |-> k.edge, start |-> k.start]
  BY <1>1, KeyParts
<1>3. k.edge \in AllEdges
  BY <1>2 DEF Inv, MapOK
<1>4. minute[k] \in Bytes
  BY DEF Inv, MinuteOK, Table
<1> QED
  BY <1>1, <1>2, <1>3, <1>4

\* A tick only moves the ages on.
LEMMA TickInv == ASSUME Inv, NEW t \in Times, Tick(t) PROVE Inv'
<1>1. /\ UNCHANGED <<raw, minute, hour, cursor, edges, map, redirects, ledger>>
      /\ now' = t /\ latest' = Larger(latest, t)
  BY DEF Tick, tierVars, mapVars
<1>2. Behind'
  BY TickStep DEF Inv
<1>3. TimesOK'
  BY <1>1 DEF Inv, TimesOK, Larger
<1>4. latest' \in Int /\ latest' >= latest
  BY <1>1, <1>3, Kinds, TiersAssumption DEF TimesOK, Times, Larger
<1>5. MapOK' /\ CursorOK'
  BY <1>1 DEF Inv, MapOK, CursorOK, Started
<1>6. LedgerOK'
  BY <1>1, <1>4, Kinds DEF Inv, LedgerOK
<1>7. RawOK'
  BY <1>1, <1>4, Kinds DEF Inv, RawOK, Started
<1>8. MinuteOK'
  <2>1. ASSUME Started
        PROVE  MinutesHold(ledger, minute, cursor.minute, cursor.hour, latest' - MinuteRetention)
    <3>1. MinutesHold(ledger, minute, cursor.minute, cursor.hour, latest - MinuteRetention)
      BY <2>1 DEF Inv, MinuteOK
    <3> QED
      BY <1>4, <3>1, Kinds DEF MinutesHold
  <2> QED
    BY <1>1, <2>1 DEF Inv, MinuteOK, Started
<1>9. HourOK'
  <2>1. ASSUME Started
        PROVE  HoursHold(redirects, ledger, hour, cursor.hour, latest' - HourRetention)
    <3>1. HoursHold(redirects, ledger, hour, cursor.hour, latest - HourRetention)
      BY <2>1 DEF Inv, HourOK
    <3> QED
      BY <1>4, <3>1, Kinds DEF HoursHold
  <2> QED
    BY <1>1, <2>1 DEF Inv, HourOK, Started
<1> QED
  BY <1>2, <1>3, <1>5, <1>6, <1>7, <1>8, <1>9 DEF Inv

-----------------------------------------------------------------------------
(* Merges. *)

\* The hours of the aliases of an edge, as their logical edge counts them.
AliasHours(to, S, table, e, h) ==
    [f \in AliasesUnder(to, S, e) |-> Facing(to, f, Carries(table, f, h, h + Hour))]

\* What the aliases carried in an hour are byte counts.
LEMMA AliasHoursTable ==
  ASSUME NEW to, NEW S, IsFiniteSet(S), NEW table, Table(table), NEW e, NEW h \in Int
  PROVE  Table(AliasHours(to, S, table, e, h))
<1>1. IsFiniteSet(AliasesUnder(to, S, e))
  BY FS_Subset DEF AliasesUnder
<1>2. h + Hour \in Int
  BY TiersAssumption
<1>3. \A f : Facing(to, f, Carries(table, f, h, h + Hour)) \in Bytes
  BY <1>2, CarriesTable, FacingType
<1> QED
  BY <1>1, <1>3 DEF Table, AliasHours

\* Turned(...) : the two ends of e changed their order.
Turned(to, further, e) == ~(further[e[1]] < further[e[2]] <=> to[e[1]] < to[e[2]])

\* A merge turns an edge, or it does not.
LEMMA FacingTurned ==
  ASSUME NEW to, NEW further, NEW e, NEW b \in Bytes
  PROVE  Facing(further, e, b) = IF Turned(to, further, e) THEN Swap(Facing(to, e, b)) ELSE Facing(to, e, b)
<1>1. Swap(Swap(b)) = b
  BY BytesOrder
<1> QED
  BY <1>1 DEF Facing, Turned

\* Merges keep an upper bound: the aliases only get more.
LEMMA MergedAtMost ==
  ASSUME NEW to \in [Nodes -> Nodes], NEW then \in [Nodes -> Nodes],
         NEW further \in [Nodes -> Nodes], \A n \in Nodes : further[n] = then[to[n]],
         NEW S \in SUBSET AllEdges, IsFiniteSet(S), NEW table, Table(table), NEW e \in S,
         NEW h \in Int, NEW row \in Bytes, ~IsLoop(further, e), HourAtMost(to, S, table, e, h, row)
  PROVE  HourAtMost(further, S, table, e, h, row)
<1> DEFINE old == AliasHours(to, S, table, e, h)
           new == AliasHours(further, S, table, e, h)
           C(f) == Carries(table, f, h, h + Hour)
<1>1. Table(old) /\ Table(new)
  BY AliasHoursTable
<1>2. DOMAIN old = AliasesUnder(to, S, e) /\ \A f \in DOMAIN old : old[f] = Facing(to, f, C(f))
  BY DEF AliasHours
<1>3. DOMAIN new = AliasesUnder(further, S, e) /\ \A f \in DOMAIN new : new[f] = Facing(further, f, C(f))
  BY DEF AliasHours
<1>4. \A f : C(f) \in Bytes
  <2>1. h + Hour \in Int
    BY TiersAssumption
  <2> QED
    BY <2>1, CarriesTable
<1>5. ~IsLoop(to, e)
  BY EdgeEnds DEF IsLoop
<1>6. ASSUME NEW f \in DOMAIN old
      PROVE  f \in DOMAIN new /\ (Turned(to, further, f) <=> Turned(to, further, e))
  <2>1. f \in S /\ f \in AllEdges /\ ~IsLoop(to, f) /\ LogicalUnder(to, f) = LogicalUnder(to, e)
    BY <1>2 DEF AliasesUnder
  <2>2. /\ ~IsLoop(further, f) /\ LogicalUnder(further, f) = LogicalUnder(further, e)
        /\ (further[f[1]] < further[f[2]] <=> to[f[1]] < to[f[2]])
               <=> (further[e[1]] < further[e[2]] <=> to[e[1]] < to[e[2]])
    BY <2>1, RedirectedFurther
  <2> QED
    BY <1>3, <2>1, <2>2 DEF AliasesUnder, Turned
<1>7. AtMost(Facing(to, e, row), SumOf(old)) /\ SumOf(old) \in Bytes /\ SumOf(new) \in Bytes
  BY <1>1, SumOfType DEF HourAtMost, AliasHours
<1>8. Facing(to, e, row) \in Bytes /\ Facing(further, e, row) \in Bytes
  BY FacingType
<1> HIDE DEF old, new
<1>9. CASE ~Turned(to, further, e)
  <2>1. \A f \in DOMAIN old : old[f] = new[f]
    BY <1>2, <1>3, <1>4, <1>6, <1>9, FacingTurned
  <2>2. \A f \in DOMAIN old : AtMost(old[f], new[f])
    BY <1>1, <2>1, BytesOrder DEF Table
  <2>3. AtMost(SumOf(old), SumOf(new))
    BY <1>1, <1>6, <2>2, TotalAtMost
  <2>4. Facing(further, e, row) = Facing(to, e, row)
    BY <1>9, FacingTurned
  <2>5. AtMost(Facing(further, e, row), SumOf(new))
    BY <1>7, <1>8, <2>3, <2>4, BytesOrder
  <2> QED
    BY <2>5 DEF HourAtMost, new, AliasHours
<1>10. CASE Turned(to, further, e)
  <2> DEFINE swapped == [f \in DOMAIN old |-> Swap(old[f])]
  <2>0. Table(swapped) /\ SumOf(swapped) = Swap(SumOf(old)) /\ SumOf(swapped) \in Bytes
    BY <1>1, TotalSwapped, SumOfType
  <2>1. \A f \in DOMAIN old : swapped[f] = new[f]
    BY <1>2, <1>3, <1>4, <1>6, <1>10, FacingTurned
  <2>10. DOMAIN swapped = DOMAIN old
    OBVIOUS
  <2> HIDE DEF swapped
  <2>2. \A f \in DOMAIN swapped : AtMost(swapped[f], new[f])
    BY <2>0, <2>1, <2>10, BytesOrder DEF Table
  <2>3. AtMost(SumOf(swapped), SumOf(new))
    BY <1>1, <1>6, <2>0, <2>10, <2>2, TotalAtMost
  <2>4. Facing(further, e, row) = Swap(Facing(to, e, row))
    BY <1>10, FacingTurned
  <2>5. AtMost(Facing(further, e, row), SumOf(swapped))
    BY <1>7, <1>8, <2>0, <2>4, BytesOrder
  <2>6. AtMost(Facing(further, e, row), SumOf(new))
    BY <1>7, <1>8, <2>0, <2>3, <2>5, BytesOrder
  <2> QED
    BY <2>6 DEF HourAtMost, new, AliasHours
<1> QED
  BY <1>9, <1>10

\* Merges keep a lower bound: edges that are one stay one and turn together.
LEMMA MergedAtLeast ==
  ASSUME NEW to \in [Nodes -> Nodes], NEW then \in [Nodes -> Nodes],
         NEW further \in [Nodes -> Nodes], \A n \in Nodes : further[n] = then[to[n]],
         NEW table, Table(table), NEW e \in AllEdges, NEW h \in Int, NEW f \in AllEdges,
         NEW row \in Bytes, ~IsLoop(further, e), HourAtLeast(to, table, e, h, f, row)
  PROVE  HourAtLeast(further, table, e, h, f, row)
<1> DEFINE c == Carries(table, e, h, h + Hour)
<1>1. c \in Bytes
  <2>1. h + Hour \in Int
    BY TiersAssumption
  <2> QED
    BY <2>1, CarriesTable
<1>2. ~IsLoop(to, f) /\ LogicalUnder(to, f) = LogicalUnder(to, e) /\ AtMost(Facing(to, e, c), Facing(to, f, row))
  BY DEF HourAtLeast
<1>3. /\ ~IsLoop(further, f) /\ LogicalUnder(further, f) = LogicalUnder(further, e)
      /\ (further[f[1]] < further[f[2]] <=> to[f[1]] < to[f[2]])
             <=> (further[e[1]] < further[e[2]] <=> to[e[1]] < to[e[2]])
  BY <1>2, RedirectedFurther
<1> HIDE DEF c
<1>4. Turned(to, further, f) <=> Turned(to, further, e)
  BY <1>3 DEF Turned
<1>5. Facing(to, e, c) \in Bytes /\ Facing(to, f, row) \in Bytes
  BY <1>1, FacingType
<1>6. AtMost(Facing(further, e, c), Facing(further, f, row))
  BY <1>1, <1>2, <1>4, <1>5, FacingTurned, BytesOrder
<1> QED
  BY <1>3, <1>6 DEF HourAtLeast, c

\* A merge leaves every hour row between the bounds of its new aliases.
LEMMA MergeInv == ASSUME Inv, NEW m \in Merges, Merge(m[1], m[2]) PROVE Inv'
<1> DEFINE keep == m[1]
           drop == m[2]
           then == [n \in Nodes |-> IF n = drop THEN keep ELSE n]
<1>1. keep \in Nodes /\ drop \in Nodes /\ keep # drop
      /\ redirects[keep] = keep /\ redirects[drop] = drop
  BY NodesAssumption DEF Merge
<1>2. /\ redirects' = [n \in Nodes |-> IF redirects[n] = drop THEN keep ELSE redirects[n]]
      /\ map' = Mapped(redirects', edges)
      /\ UNCHANGED <<raw, minute, hour, cursor, edges, now, latest, ledger>>
  BY DEF Merge, tierVars
<1>3. redirects \in [Nodes -> Nodes] /\ \A n \in Nodes : redirects[redirects[n]] = redirects[n]
      /\ edges \in SUBSET AllEdges /\ IsFiniteSet(edges)
  BY DEF Inv, MapOK
<1>4. redirects' \in [Nodes -> Nodes] /\ then \in [Nodes -> Nodes]
      /\ \A n \in Nodes : redirects'[n] = then[redirects[n]]
  BY <1>1, <1>2, <1>3
<1>5. \A n \in Nodes : redirects'[redirects'[n]] = redirects'[n]
  BY <1>1, <1>2, <1>3, <1>4
<1> HIDE DEF then, keep, drop
<1>6. Behind' /\ TimesOK'
  BY <1>2 DEF Inv, Behind, ClockInv, RawInv, CursorInv, TimesOK
<1>7. MapOK'
  <2>0. edges' = edges
    BY <1>2
  <2>1. edges' \in SUBSET AllEdges /\ IsFiniteSet(edges')
    <3>1. edges \in SUBSET AllEdges /\ IsFiniteSet(edges)
      BY DEF Inv, MapOK
    <3>2. edges' \in SUBSET AllEdges
      BY <2>0, <3>1
    <3>3. IsFiniteSet(edges')
      BY <2>0, <3>1
    <3> QED
      BY <3>2, <3>3
  <2>2. map' = Mapped(redirects', edges')
    BY <1>2
  <2>3. (redirects \in [Nodes -> Nodes])'
    BY <1>4
  <2>4. (\A n \in Nodes : redirects[redirects[n]] = redirects[n])'
    BY <1>5
  <2>5. (edges \in SUBSET AllEdges)' /\ IsFiniteSet(edges)'
    BY <2>1
  <2>6. (map = Mapped(redirects, edges))'
    BY <2>2
  <2> QED
    BY <2>3, <2>4, <2>5, <2>6 DEF MapOK
<1>8. CursorOK' /\ LedgerOK' /\ RawOK'
  BY <1>2 DEF Inv, CursorOK, LedgerOK, RawOK, Started
<1>9. MinuteOK'
  BY <1>2 DEF Inv, MinuteOK, Started
<1>10. PICK further : further = redirects'
  OBVIOUS
<1>11. HourOK'
  <2>1. Table(hour) /\ Table(ledger)
    BY DEF Inv, HourOK, LedgerOK
  <2>2. further \in [Nodes -> Nodes] /\ \A n \in Nodes : further[n] = then[redirects[n]]
    BY <1>4, <1>10
  <2>3. \A e \in AllEdges : ~IsLoop(further, e) => ~IsLoop(redirects, e)
    BY <1>3, <1>4, <2>2, EdgeEnds DEF IsLoop
  <2>4. HoursWithin(further, edges, ledger, hour)
    <3> SUFFICES ASSUME NEW k \in DOMAIN hour, ~IsLoop(further, k.edge)
                 PROVE  HourAtMost(further, edges, ledger, k.edge, k.start, hour[k])
      BY DEF HoursWithin
    <3>1. k.edge \in edges /\ k.start \in Int /\ k.edge \in AllEdges /\ hour[k] \in Bytes
      BY HourRow
    <3>2. HourAtMost(redirects, edges, ledger, k.edge, k.start, hour[k])
      BY <2>3, <3>1 DEF Inv, HourOK, HoursWithin
    <3> QED
      BY <1>3, <1>4, <2>1, <2>2, <3>1, <3>2, MergedAtMost
  <2>5. ASSUME Started
        PROVE  HoursHold(further, ledger, hour, cursor.hour, latest - HourRetention)
    <3> DEFINE start(k) == Truncate(k.start, Hour)
    <3> SUFFICES ASSUME NEW k \in DOMAIN ledger, ~IsLoop(further, k.edge),
                        start(k) < cursor.hour, start(k) >= latest - HourRetention
                 PROVE  \E l \in DOMAIN hour :
                            /\ l.start = start(k)
                            /\ HourAtLeast(further, ledger, k.edge, l.start, l.edge, hour[l])
      BY DEF HoursHold
    <3>1. k.edge \in AllEdges /\ start(k) \in Int
      BY Kinds
    <3>2. HoursHold(redirects, ledger, hour, cursor.hour, latest - HourRetention)
      BY <2>5 DEF Inv, HourOK
    <3>3. PICK l \in DOMAIN hour :
             l.start = start(k) /\ HourAtLeast(redirects, ledger, k.edge, l.start, l.edge, hour[l])
      BY <2>3, <3>1, <3>2 DEF HoursHold
    <3>4. l.edge \in AllEdges /\ hour[l] \in Bytes /\ l.start \in Int
      BY HourRow
    <3>5. HourAtLeast(further, ledger, k.edge, l.start, l.edge, hour[l])
      BY <1>3, <1>4, <2>1, <2>2, <3>1, <3>3, <3>4, MergedAtLeast
    <3> QED
      BY <3>3, <3>5
  <2>6. /\ hour' = hour /\ cursor' = cursor /\ ledger' = ledger /\ edges' = edges
        /\ latest' = latest /\ redirects' = further /\ (Started' <=> Started)
    BY <1>2, <1>10 DEF Started
  <2>7. \A k \in DOMAIN hour : Started /\ k \in [edge : edges, start : Int]
                                /\ k.start % Hour = 0 /\ k.start < cursor.hour
    BY DEF Inv, HourOK
  <2> QED
    BY <2>1, <2>4, <2>5, <2>6, <2>7 DEF HourOK
<1> QED
  BY <1>6, <1>7, <1>8, <1>9, <1>11 DEF Inv

-----------------------------------------------------------------------------
(* Reports. *)

\* What is at most a byte count is at most a larger one.
LEMMA AtMostMore ==
  ASSUME NEW to, NEW S, IsFiniteSet(S), NEW S2, IsFiniteSet(S2), S \subseteq S2,
         NEW t, Table(t), NEW u, Table(u), NEW e, NEW h \in Int, NEW row \in Bytes,
         \A f : Carries(u, f, h, h + Hour) = Carries(t, f, h, h + Hour),
         HourAtMost(to, S, t, e, h, row)
  PROVE  HourAtMost(to, S2, u, e, h, row)
<1> DEFINE old == AliasHours(to, S, t, e, h)
           new == AliasHours(to, S2, u, e, h)
<1>1. Table(old) /\ Table(new)
  BY AliasHoursTable
<1>2. DOMAIN old \subseteq DOMAIN new /\ \A f \in DOMAIN old : old[f] = new[f] /\ old[f] \in Bytes
  BY <1>1 DEF AliasHours, AliasesUnder, Table
<1>3. AtMost(Facing(to, e, row), SumOf(old)) /\ SumOf(old) \in Bytes /\ SumOf(new) \in Bytes
  BY <1>1, SumOfType DEF HourAtMost, AliasHours
<1> HIDE DEF old, new
<1>4. AtMost(SumOf(old), SumOf(new))
  BY <1>1, <1>2, BytesOrder, TotalAtMost
<1>5. Facing(to, e, row) \in Bytes
  BY FacingType
<1>6. AtMost(Facing(to, e, row), SumOf(new))
  BY <1>3, <1>4, <1>5, BytesOrder
<1> QED
  BY <1>6 DEF HourAtMost, new, AliasHours

\* An upsert keeps a table.
LEMMA UpsertTable ==
  ASSUME NEW t, Table(t), NEW key, NEW b \in Bytes
  PROVE  /\ Table(Upsert(t, key, b)) /\ DOMAIN Upsert(t, key, b) = DOMAIN t \cup {key}
         /\ Upsert(t, key, b)[key] = b /\ \A k \in DOMAIN t : k # key => Upsert(t, key, b)[k] = t[k]
<1>1. DOMAIN Upsert(t, key, b) = DOMAIN t \cup {key}
  BY DEF Upsert
<1>2. IsFiniteSet(DOMAIN t \cup {key})
  BY FS_AddElement DEF Table
<1> QED
  BY <1>1, <1>2 DEF Upsert, Table

\* A row written at a start changes what was counted then only.
LEMMA UpsertElsewhere ==
  ASSUME NEW t, Table(t), NEW key, NEW b \in Bytes, NEW e, NEW from \in Int, NEW to \in Int,
         key.start \in Int, to <= key.start
  PROVE  Carries(Upsert(t, key, b), e, from, to) = Carries(t, e, from, to)
<1> DEFINE u == Upsert(t, key, b)
<1>0. DOMAIN u = DOMAIN t \cup {key} /\ \A k \in DOMAIN t : k # key => u[k] = t[k]
  BY DEF Upsert
<1> HIDE DEF u
<1>1. ASSUME NEW s \in from .. to - 1
      PROVE  RawBytes(t, e, s) = RawBytes(u, e, s)
  <2>1. s # key.start
    OBVIOUS
  <2>2. Bucket(t, e, s) = Bucket(u, e, s)
    BY <1>0, <2>1 DEF Bucket
  <2>3. \A k \in Bucket(t, e, s) : t[k] = u[k]
    BY <1>0, <2>1 DEF Bucket
  <2> QED
    BY <2>2, <2>3, RawBytesSame
<1>2. \A s \in from .. to - 1 : RawBytes(t, e, s) = RawBytes(u, e, s)
  BY <1>1
<1> QED
  BY <1>2, CarriesSame DEF u

\* What a report changes.
LEMMA RecordIs ==
  ASSUME Inv, NEW e \in Edges \cup Logical, NEW o \in Observers, NEW b \in Samples, Record(e, o, b)
  PROVE  \E key : \E new \in Bytes :
           /\ key = [edge |-> e, start |-> now, observer |-> o]
           /\ key \in RawKeys /\ key.edge = e /\ key.start = now
           /\ key.observer = o /\ o \in {e[1], e[2], 0}
           /\ raw' = Upsert(raw, key, new) /\ ledger' = Upsert(ledger, key, new)
           /\ e \in AllEdges /\ redirects[e[1]] = e[1] /\ redirects[e[2]] = e[2]
           /\ edges' = edges \cup {e} /\ map' = Upsert(map, e, Mapping(redirects, e))
<1> DEFINE key == [edge |-> e, start |-> now, observer |-> o]
           old == IF key \in DOMAIN raw THEN raw[key] ELSE Zero
<1>1. e \in AllEdges
  <2>1. CASE e \in Edges
    BY <2>1, NodesAssumption DEF AllEdges
  <2>2. CASE e \in Logical
    BY <2>2, LogicalIsRoot DEF Inv
  <2> QED
    BY <2>1, <2>2
<1>2. now \in Times
  BY DEF Inv, TimesOK
<1>3. key \in RawKeys
  BY <1>1, <1>2 DEF RawKeys
<1>4. old \in Bytes
  <2>1. CASE key \in DOMAIN raw
    <3>1. raw[key] = ledger[key] /\ key \in DOMAIN ledger
      BY <2>1 DEF Inv, RawOK
    <3>2. ledger[key] \in Bytes
      BY <3>1 DEF Inv, LedgerOK, Table
    <3> QED
      BY <2>1, <3>1, <3>2
  <2>2. CASE key \notin DOMAIN raw
    BY <2>2 DEF Bytes, Zero
  <2> QED
    BY <2>1, <2>2
<1>5. b \in Bytes
  BY SamplesAssumption DEF Bytes
<1>6. Plus(old, b) \in Bytes
  BY <1>4, <1>5, BytesOrder
<1>7. /\ raw' = Upsert(raw, key, Plus(old, b)) /\ ledger' = Upsert(ledger, key, Plus(old, b))
      /\ o \in {e[1], e[2], 0} /\ redirects[e[1]] = e[1] /\ redirects[e[2]] = e[2]
      /\ edges' = edges \cup {e} /\ map' = Upsert(map, e, Mapping(redirects, e))
  BY DEF Record
<1>8. key.edge = e /\ key.start = now /\ key.observer = o
  OBVIOUS
<1>9. key = [edge |-> e, start |-> now, observer |-> o]
  OBVIOUS
<1> HIDE DEF key, old
<1> QED
  BY <1>1, <1>3, <1>6, <1>7, <1>8, <1>9

\* A report keeps the map in step with the edges.
LEMMA RecordMap ==
  ASSUME Inv, NEW e \in AllEdges, redirects[e[1]] = e[1], redirects[e[2]] = e[2],
         edges' = edges \cup {e}, map' = Upsert(map, e, Mapping(redirects, e)), redirects' = redirects
  PROVE  MapOK'
<1>1. redirects \in [Nodes -> Nodes] /\ (\A n \in Nodes : redirects[redirects[n]] = redirects[n])
      /\ edges \in SUBSET AllEdges /\ IsFiniteSet(edges) /\ map = Mapped(redirects, edges)
  BY DEF Inv, MapOK
<1>2. IsFiniteSet(edges \cup {e}) /\ edges \cup {e} \in SUBSET AllEdges
  BY <1>1, FS_AddElement
<1>3. ~IsLoop(redirects, e)
  BY EdgeEnds DEF IsLoop
<1>4. map' = Mapped(redirects, edges \cup {e})
  <2>1. DOMAIN map' = DOMAIN map \cup {e}
    BY DEF Upsert
  <2>2. DOMAIN map = {x \in edges : ~IsLoop(redirects, x)}
        /\ \A x \in DOMAIN map : map[x] = Mapping(redirects, x)
    BY <1>1 DEF Mapped
  <2>3. \A x \in DOMAIN map' : map'[x] = Mapping(redirects, x)
    BY <2>2 DEF Upsert
  <2>4. map' = [x \in DOMAIN map \cup {e} |-> Mapping(redirects, x)]
    BY <2>2 DEF Upsert
  <2>5. DOMAIN map \cup {e} = {x \in edges \cup {e} : ~IsLoop(redirects, x)}
    BY <1>3, <2>2
  <2> QED
    BY <2>4, <2>5 DEF Mapped
<1>5. (redirects \in [Nodes -> Nodes])' /\ (\A n \in Nodes : redirects[redirects[n]] = redirects[n])'
  BY <1>1
<1>6. edges' \in SUBSET AllEdges
  BY <1>2
<1>7. IsFiniteSet(edges')
  BY <1>2
<1>8. map' = Mapped(redirects', edges')
  BY <1>4
<1> QED
  BY <1>5, <1>6, <1>7, <1>8 DEF MapOK

\* A report adds to what no rollup has passed.
LEMMA RecordInv ==
  ASSUME Inv, NEW e \in Edges \cup Logical, NEW o \in Observers, NEW b \in Samples, Record(e, o, b)
  PROVE  Inv'
<1>1. UNCHANGED <<minute, hour, cursor, redirects, now, latest>>
  BY DEF Record
<1>2. PICK key : \E new \in Bytes :
           /\ key = [edge |-> e, start |-> now, observer |-> o]
           /\ key \in RawKeys /\ key.edge = e /\ key.start = now
           /\ key.observer = o /\ o \in {e[1], e[2], 0}
           /\ raw' = Upsert(raw, key, new) /\ ledger' = Upsert(ledger, key, new)
           /\ e \in AllEdges /\ redirects[e[1]] = e[1] /\ redirects[e[2]] = e[2]
           /\ edges' = edges \cup {e} /\ map' = Upsert(map, e, Mapping(redirects, e))
  BY RecordIs
<1>3. PICK new \in Bytes :
           /\ key \in RawKeys /\ key.edge = e /\ key.start = now
           /\ key.observer = o /\ o \in {e[1], e[2], 0}
           /\ raw' = Upsert(raw, key, new) /\ ledger' = Upsert(ledger, key, new)
           /\ e \in AllEdges /\ redirects[e[1]] = e[1] /\ redirects[e[2]] = e[2]
           /\ edges' = edges \cup {e} /\ map' = Upsert(map, e, Mapping(redirects, e))
  BY <1>2
<1>4. Behind' /\ TimesOK'
  BY <1>1, RecordStep DEF Inv, TimesOK
<1>5. MapOK'
  BY <1>1, <1>3, RecordMap
<1>6. CursorOK'
  BY <1>1 DEF Inv, CursorOK, Started
<1>7. Table(ledger) /\ DOMAIN ledger \subseteq RawKeys
      /\ \A k \in DOMAIN ledger : k.edge \in edges /\ k.start <= latest /\ k.observer \in {k.edge[1], k.edge[2], 0}
  BY DEF Inv, LedgerOK
<1>8. PICK L : L = Upsert(ledger, key, new)
  OBVIOUS
<1>9. /\ Table(L) /\ DOMAIN L = DOMAIN ledger \cup {key}
      /\ L[key] = new /\ \A k \in DOMAIN ledger : k # key => L[k] = ledger[k]
  <2>1. /\ Table(Upsert(ledger, key, new)) /\ DOMAIN Upsert(ledger, key, new) = DOMAIN ledger \cup {key}
        /\ Upsert(ledger, key, new)[key] = new
        /\ \A k \in DOMAIN ledger : k # key => Upsert(ledger, key, new)[k] = ledger[k]
    <3>1. Table(ledger)
      BY <1>7
    <3>2. Table(Upsert(ledger, key, new))
      BY <3>1, UpsertTable
    <3> QED
      BY <3>1, <3>2 DEF Upsert
  <2> QED
    BY <1>8, <2>1
<1>10. ledger' = L /\ edges' = edges \cup {e} /\ latest' = latest
  BY <1>1, <1>3, <1>8
<1>11. LedgerOK'
  <2>1. DOMAIN L \subseteq RawKeys
    BY <1>3, <1>7, <1>9
  <2>2. \A k \in DOMAIN L : k.edge \in edges \cup {e} /\ k.start <= latest /\ k.observer \in {k.edge[1], k.edge[2], 0}
    BY <1>3, <1>7, <1>9, Kinds
  <2> QED
    BY <1>9, <1>10, <2>1, <2>2 DEF LedgerOK
<1>12. RawOK'
  <2>1. /\ DOMAIN raw \subseteq DOMAIN ledger
        /\ \A k \in DOMAIN raw : raw[k] = ledger[k]
        /\ \A k \in DOMAIN raw, l \in DOMAIN ledger :
               l.edge = k.edge /\ l.start = k.start => l \in DOMAIN raw
        /\ \A k \in DOMAIN ledger :
               (Started => k.start >= cursor.minute \/ k.start >= latest - RawRetention)
                   => k \in DOMAIN raw
    BY DEF Inv, RawOK
  <2>2. DOMAIN raw' = DOMAIN raw \cup {key} /\ raw'[key] = new
        /\ \A k \in DOMAIN raw : k # key => raw'[k] = raw[k]
    BY <1>3 DEF Upsert
  <2>3. DOMAIN raw' \subseteq DOMAIN L
    BY <1>9, <2>1, <2>2
  <2>4. \A k \in DOMAIN raw' : raw'[k] = L[k]
    BY <1>9, <2>1, <2>2
  <2>5. \A k \in DOMAIN L :
               (Started => k.start >= cursor.minute \/ k.start >= latest - RawRetention)
                   => k \in DOMAIN raw'
    BY <1>9, <2>1, <2>2
  <2>6. Table(raw')
    <3>1. Table(raw)
      BY DEF Inv, RawOK
    <3>2. Table(Upsert(raw, key, new))
      BY <3>1, UpsertTable
    <3> QED
      BY <1>3, <3>2
  <2>7. ASSUME NEW k \in DOMAIN raw', NEW l \in DOMAIN L, l.edge = k.edge, l.start = k.start
        PROVE  l \in DOMAIN raw'
    <3>1. CASE l = key
      BY <2>2, <3>1
    <3>2. CASE l # key /\ k # key
      BY <1>9, <2>1, <2>2, <2>7, <3>2
    <3>3. CASE l # key /\ k = key
      <4>1. l \in DOMAIN ledger /\ l.start = now
        BY <1>3, <1>9, <2>7, <3>3
      <4>2. Started => l.start >= cursor.minute
        BY <4>1, Kinds
      <4>3. l \in DOMAIN raw
        BY <2>1, <4>1, <4>2
      <4> QED
        BY <2>2, <4>3
    <3> QED
      BY <3>1, <3>2, <3>3
  <2> QED
    BY <1>1, <1>10, <2>3, <2>4, <2>5, <2>6, <2>7 DEF RawOK, Started
<1>13. \A x : \A from, to \in Int : to <= now => Carries(L, x, from, to) = Carries(ledger, x, from, to)
  BY <1>3, <1>7, <1>8, UpsertElsewhere, Kinds
<1>14. MinuteOK'
  <2>1. ASSUME NEW k \in DOMAIN minute
        PROVE  /\ Started
               /\ k \in [edge : edges \cup {e}, start : Nat]
               /\ k.start % Minute = 0 /\ k.start < cursor.minute
               /\ minute[k] = Carries(L, k.edge, k.start, k.start + Minute)
    <3>1. k.start + Minute \in Int /\ k.start + Minute <= now
      <4>1. k.start + Minute <= cursor.minute
        BY MinuteRow, Kinds, AlignedApart
      <4> QED
        BY <4>1, MinuteRow, Kinds
    <3>2. k \in [edge : edges \cup {e}, start : Nat]
      <4>1. k.edge \in edges \cup {e} /\ k.start \in Nat /\ k = [edge |-> k.edge, start |-> k.start]
        BY MinuteRow
      <4> QED
        BY <4>1
    <3> QED
      BY <1>13, <3>1, <3>2, MinuteRow
  <2>2. ASSUME Started
        PROVE  MinutesHold(L, minute, cursor.minute, cursor.hour, latest - MinuteRetention)
    <3>1. MinutesHold(ledger, minute, cursor.minute, cursor.hour, latest - MinuteRetention)
      BY <2>2 DEF Inv, MinuteOK
    <3>2. Truncate(key.start, Minute) \in Int /\ cursor.minute <= Truncate(key.start, Minute)
      BY <1>3, <2>2, Kinds, TruncateAfter, TruncateIs
    <3>3. ~(Truncate(key.start, Minute) < cursor.minute)
      BY <2>2, <3>2, Kinds
    <3> SUFFICES ASSUME NEW k \in DOMAIN L, Truncate(k.start, Minute) < cursor.minute,
                        \/ Truncate(k.start, Minute) >= cursor.hour
                        \/ Truncate(k.start, Minute) >= latest - MinuteRetention
                 PROVE  [edge |-> k.edge, start |-> Truncate(k.start, Minute)] \in DOMAIN minute
      BY DEF MinutesHold
    <3>4. k \in DOMAIN ledger
      BY <1>9, <3>3
    <3> QED
      BY <3>1, <3>4 DEF MinutesHold
  <2>3. Table(minute)
    BY DEF Inv, MinuteOK
  <2> QED
    BY <1>1, <1>10, <2>1, <2>2, <2>3 DEF MinuteOK, Started
<1>15. HourOK'
  <2>0. ASSUME NEW h \in Int, Started, h % Hour = 0, h < cursor.hour
        PROVE  h + Hour \in Int /\ h + Hour <= now
    <3>1. h + Hour <= cursor.hour
      BY <2>0, Kinds, AlignedApart
    <3> QED
      BY <2>0, <3>1, Kinds
  <2>1. ASSUME NEW k \in DOMAIN hour
        PROVE  /\ Started
               /\ k \in [edge : edges \cup {e}, start : Int]
               /\ k.start % Hour = 0 /\ k.start < cursor.hour
    <3>1. k.edge \in edges \cup {e} /\ k.start \in Int /\ k = [edge |-> k.edge, start |-> k.start]
      BY HourRow
    <3>2. k \in [edge : edges \cup {e}, start : Int]
      BY <3>1
    <3> QED
      BY <3>2, HourRow
  <2>2. HoursWithin(redirects, edges \cup {e}, L, hour)
    <3> SUFFICES ASSUME NEW k \in DOMAIN hour, ~IsLoop(redirects, k.edge)
                 PROVE  HourAtMost(redirects, edges \cup {e}, L, k.edge, k.start, hour[k])
      BY DEF HoursWithin
    <3>1. HourAtMost(redirects, edges, ledger, k.edge, k.start, hour[k])
      BY DEF Inv, HourOK, HoursWithin
    <3>2. k.start \in Int /\ hour[k] \in Bytes /\ k.start + Hour \in Int /\ k.start + Hour <= now
      BY <2>0, HourRow
    <3>3. \A f : Carries(L, f, k.start, k.start + Hour) = Carries(ledger, f, k.start, k.start + Hour)
      BY <1>13, <3>2
    <3>4. IsFiniteSet(edges) /\ IsFiniteSet(edges \cup {e}) /\ edges \subseteq edges \cup {e}
      BY FS_AddElement DEF Inv, MapOK
    <3> QED
      BY <1>7, <1>9, <3>1, <3>2, <3>3, <3>4, AtMostMore
  <2>3. ASSUME Started
        PROVE  HoursHold(redirects, L, hour, cursor.hour, latest - HourRetention)
    <3>1. HoursHold(redirects, ledger, hour, cursor.hour, latest - HourRetention)
      BY <2>3 DEF Inv, HourOK
    <3> SUFFICES ASSUME NEW k \in DOMAIN L, ~IsLoop(redirects, k.edge), Truncate(k.start, Hour) < cursor.hour,
                        Truncate(k.start, Hour) >= latest - HourRetention
                 PROVE  \E l \in DOMAIN hour :
                            /\ l.start = Truncate(k.start, Hour)
                            /\ HourAtLeast(redirects, L, k.edge, l.start, l.edge, hour[l])
      BY DEF HoursHold
    <3>2. k # key
      <4>1. Truncate(now, Hour) \in Int /\ cursor.hour <= Truncate(now, Hour)
        <5>1. /\ now \in Int /\ Hour \in Nat \ {0} /\ cursor.hour \in Int /\ cursor.hour % Hour = 0
              /\ cursor.hour <= now
          BY <2>3, Kinds
        <5> QED
          BY <5>1, TruncateAfter, TruncateIs
      <4> QED
        BY <1>3, <2>3, <4>1, Kinds
    <3>3. k \in DOMAIN ledger
      BY <1>9, <3>2
    <3>4. PICK l \in DOMAIN hour :
              /\ l.start = Truncate(k.start, Hour)
              /\ HourAtLeast(redirects, ledger, k.edge, l.start, l.edge, hour[l])
      BY <3>1, <3>3 DEF HoursHold
    <3>5. l.start \in Int /\ l.start + Hour \in Int /\ l.start + Hour <= now
      BY <2>0, <2>3, HourRow
    <3>6. Carries(L, k.edge, l.start, l.start + Hour) = Carries(ledger, k.edge, l.start, l.start + Hour)
      BY <1>13, <3>5
    <3>7. HourAtLeast(redirects, L, k.edge, l.start, l.edge, hour[l])
      BY <3>4, <3>6 DEF HourAtLeast
    <3> QED
      BY <3>4, <3>7
  <2>4. Table(hour)
    BY DEF Inv, HourOK
  <2> QED
    BY <1>1, <1>10, <2>1, <2>2, <2>3, <2>4 DEF HourOK, Started
<1> QED
  BY <1>4, <1>5, <1>6, <1>11, <1>12, <1>14, <1>15 DEF Inv

-----------------------------------------------------------------------------
(* Maintenance: the minutes. *)

MinuteFrom == RollupStart(cursor.minute, StartsOf(raw), Minute, MinuteEnd(now))
NewMinutes == Override(RolledMinutes(MinuteFrom, MinuteEnd(now)), minute)

\* A first rollup starts before every row, on a whole interval.
LEMMA StartEarly ==
  ASSUME NEW starts \in SUBSET Nat, NEW interval \in Nat \ {0}, NEW end \in Int, end % interval = 0
  PROVE  LET from == RollupStart(NoTime, starts, interval, end)
         IN  from \in Int /\ from % interval = 0 /\ from <= end /\ \A s \in starts : from <= s
<1>1. CASE starts = {}
  BY <1>1 DEF RollupStart
<1>2. CASE starts # {}
  <2>1. PICK least \in Nat : least = Min(starts) /\ least \in starts
    BY <1>2, MinIsMember
  <2>2. \A s \in starts : least <= s
    <3>1. \E x \in starts : \A y \in starts : x <= y
      BY <1>2, NatsHaveLeast
    <3> QED
      BY <2>1, <3>1 DEF Min
  <2>3. /\ Truncate(least, interval) \in Int /\ Truncate(least, interval) <= least
        /\ Truncate(least, interval) % interval = 0
    BY TruncateIs
  <2>4. RollupStart(NoTime, starts, interval, end) = Smaller(end, Truncate(least, interval))
    BY <1>2, <2>1 DEF RollupStart
  <2> QED
    BY <2>2, <2>3, <2>4 DEF Smaller
<1> QED
  BY <1>1, <1>2

\* The span of a minute rollup: from is the cursor or before every row.
LEMMA MinuteSpan ==
  ASSUME Inv
  PROVE  /\ MinuteEnd(now) \in Int /\ MinuteEnd(now) % Minute = 0 /\ MinuteEnd(now) <= now
         /\ MinuteFrom \in Int /\ MinuteFrom % Minute = 0
         /\ MinuteCursor(now) = Larger(MinuteEnd(now), MinuteFrom)
         /\ MinuteCursor(now) \in Int /\ MinuteCursor(now) % Minute = 0
         /\ MinuteCursor(now) >= MinuteFrom /\ MinuteCursor(now) >= MinuteEnd(now)
         /\ Started => MinuteFrom = cursor.minute
         /\ ~Started => \A k \in DOMAIN ledger : k \in DOMAIN raw /\ MinuteFrom <= k.start
         /\ \A k \in DOMAIN ledger : k.start >= MinuteFrom => k \in DOMAIN raw
<1>1. MinuteEnd(now) \in Int /\ MinuteEnd(now) % Minute = 0 /\ MinuteEnd(now) <= now
  <2>1. now - Grace \in Int /\ now - Grace <= now /\ Minute \in Nat \ {0}
    BY Kinds, TiersAssumption
  <2>2. Truncate(now - Grace, Minute) \in Int /\ Truncate(now - Grace, Minute) % Minute = 0
        /\ Truncate(now - Grace, Minute) <= now - Grace
    BY <2>1, TruncateIs
  <2> QED
    BY <2>1, <2>2, Kinds DEF MinuteEnd
<1>2. StartsOf(raw) \in SUBSET Nat
  BY DEF Inv, Behind, RawInv, StartsOf
<1>3. Started => MinuteFrom = cursor.minute
  BY DEF Started, MinuteFrom, RollupStart
<1>4. ASSUME ~Started
      PROVE  /\ MinuteFrom \in Int /\ MinuteFrom % Minute = 0
             /\ \A k \in DOMAIN ledger : k \in DOMAIN raw /\ MinuteFrom <= k.start
  <2>1. MinuteFrom = RollupStart(NoTime, StartsOf(raw), Minute, MinuteEnd(now))
    BY <1>4 DEF Started, MinuteFrom
  <2>2. MinuteFrom \in Int /\ MinuteFrom % Minute = 0 /\ \A s \in StartsOf(raw) : MinuteFrom <= s
    BY <1>1, <1>2, <2>1, StartEarly, TiersAssumption
  <2>3. \A k \in DOMAIN ledger : k \in DOMAIN raw
    BY <1>4 DEF Inv, RawOK
  <2> QED
    BY <2>2, <2>3 DEF StartsOf
<1>5. MinuteFrom \in Int /\ MinuteFrom % Minute = 0
  BY <1>3, <1>4, Kinds
<1>6. MinuteCursor(now) = Larger(MinuteEnd(now), MinuteFrom)
  BY DEF MinuteCursor, MinuteFrom
<1>7. \A k \in DOMAIN ledger : k.start >= MinuteFrom => k \in DOMAIN raw
  BY <1>3, <1>4 DEF Inv, RawOK
<1> QED
  BY <1>1, <1>3, <1>4, <1>5, <1>6, <1>7 DEF Larger

\* Since the start of a rollup the raw rows are all there.
LEMMA RawTells ==
  ASSUME Inv, NEW e, NEW from \in Int, NEW to \in Int, MinuteFrom <= from
  PROVE  Carries(raw, e, from, to) = Carries(ledger, e, from, to)
<1>1. ASSUME NEW s \in from .. to - 1
      PROVE  RawBytes(raw, e, s) = RawBytes(ledger, e, s)
  <2>1. s >= MinuteFrom
    BY MinuteSpan
  <2>2. DOMAIN raw \subseteq DOMAIN ledger /\ \A k \in DOMAIN raw : raw[k] = ledger[k]
    BY DEF Inv, RawOK
  <2>3. Bucket(raw, e, s) = Bucket(ledger, e, s)
    BY <2>1, <2>2, MinuteSpan DEF Bucket
  <2>4. \A k \in Bucket(raw, e, s) : raw[k] = ledger[k]
    BY <2>2 DEF Bucket
  <2> QED
    BY <2>3, <2>4, RawBytesSame
<1> QED
  BY <1>1, CarriesSame

\* The minutes after a rollup.
LEMMA RolledMinutesIs ==
  ASSUME Inv
  PROVE  LET rolled == RolledMinutes(MinuteFrom, MinuteEnd(now))
         IN  /\ IsFiniteSet(DOMAIN rolled)
             /\ \A k \in DOMAIN rolled :
                    /\ k \in [edge : edges, start : Nat]
                    /\ k.start % Minute = 0 /\ k.start < MinuteEnd(now)
                    /\ rolled[k] = Carries(ledger, k.edge, k.start, k.start + Minute)
             /\ \A r \in DOMAIN raw :
                    MinuteFrom <= Truncate(r.start, Minute) /\ Truncate(r.start, Minute) < MinuteEnd(now)
                        => [edge |-> r.edge, start |-> Truncate(r.start, Minute)] \in DOMAIN rolled
<1> DEFINE end == MinuteEnd(now)
           rolled == RolledMinutes(MinuteFrom, end)
           E == {r.edge : r \in DOMAIN raw}
<1>0. Minute \in Nat \ {0} /\ MinuteFrom \in Int /\ end \in Int
  BY MinuteSpan, Kinds
<1>1. DOMAIN rolled = {k \in [edge : E, start : Starts(MinuteFrom, end, Minute)] :
                           \E r \in DOMAIN raw : r.edge = k.edge /\ r.start \in k.start .. k.start + Minute - 1}
      /\ \A k \in DOMAIN rolled :
             rolled[k] = SumOf([s \in k.start .. k.start + Minute - 1 |-> RawBytes(raw, k.edge, s)])
  BY DEF RolledMinutes
<1> HIDE DEF rolled, E, end
<1>2. IsFiniteSet(DOMAIN rolled)
  <2>1. IsFiniteSet(DOMAIN raw)
    BY DEF Inv, RawOK, Table
  <2>2. IsFiniteSet({[r \in DOMAIN raw |-> r.edge][x] : x \in DOMAIN [r \in DOMAIN raw |-> r.edge]})
    BY <2>1, ImageFinite
  <2>3. IsFiniteSet(E)
    <3>1. E = {[r \in DOMAIN raw |-> r.edge][x] : x \in DOMAIN [r \in DOMAIN raw |-> r.edge]}
      BY DEF E
    <3> QED
      BY <2>2, <3>1
  <2>4. IsFiniteSet(Starts(MinuteFrom, end, Minute))
    BY <1>0, StartsFinite
  <2>5. DOMAIN rolled \in SUBSET [edge : E, start : Starts(MinuteFrom, end, Minute)]
    BY <1>1
  <2> QED
    BY <2>3, <2>4, <2>5, KeysFinite
<1>3. ASSUME NEW r \in DOMAIN raw
      PROVE  r.edge \in edges /\ r.edge \in E /\ r.start \in Nat
  <2>1. r \in DOMAIN ledger /\ r.start \in Nat
    BY DEF Inv, RawOK, Behind, RawInv
  <2> QED
    BY <2>1 DEF Inv, LedgerOK, E
<1>4. ASSUME NEW k \in DOMAIN rolled
      PROVE  /\ k \in [edge : edges, start : Nat]
             /\ k.start % Minute = 0 /\ k.start < end
             /\ rolled[k] = Carries(ledger, k.edge, k.start, k.start + Minute)
  <2>1. k.edge \in E /\ k.start \in Starts(MinuteFrom, end, Minute) /\ k = [edge |-> k.edge, start |-> k.start]
    BY <1>1, KeyParts
  <2>2. k.start \in Int /\ MinuteFrom <= k.start /\ k.start < end /\ k.start % Minute = 0
    BY <1>0, <2>1 DEF Starts
  <2>3. PICK r \in DOMAIN raw : r.edge = k.edge /\ r.start \in k.start .. k.start + Minute - 1
    BY <1>1
  <2>4. k.edge \in edges /\ r.start \in Nat
    BY <1>3, <2>3
  <2>5. k.start >= 0
    <3>1. k.start <= r.start /\ r.start < k.start + Minute
      BY <1>0, <2>2, <2>3, <2>4
    <3>2. Truncate(r.start, Minute) = k.start
      BY <1>0, <2>2, <2>4, <3>1, TruncateAfter
    <3>3. 0 % Minute = 0
      BY <1>0
    <3>4. 0 <= Truncate(r.start, Minute)
      BY <1>0, <2>4, <3>3, TruncateAfter
    <3> QED
      BY <3>2, <3>4
  <2>6. rolled[k] = Carries(raw, k.edge, k.start, k.start + Minute)
    <3>1. k.start .. k.start + Minute - 1 = k.start .. (k.start + Minute) - 1
      BY <1>0, <2>2
    <3>2. [s \in k.start .. k.start + Minute - 1 |-> RawBytes(raw, k.edge, s)]
              = [s \in k.start .. (k.start + Minute) - 1 |-> RawBytes(raw, k.edge, s)]
      BY <3>1
    <3>3. Carries(raw, k.edge, k.start, k.start + Minute)
              = SumOf([s \in k.start .. (k.start + Minute) - 1 |-> RawBytes(raw, k.edge, s)])
      BY DEF Carries
    <3>4. rolled[k] = SumOf([s \in k.start .. k.start + Minute - 1 |-> RawBytes(raw, k.edge, s)])
      BY <1>1
    <3> QED
      BY <3>2, <3>3, <3>4, Zenon
  <2>7. k.start + Minute \in Int
    BY <1>0, <2>2
  <2>8. rolled[k] = Carries(ledger, k.edge, k.start, k.start + Minute)
    BY <2>2, <2>6, <2>7, RawTells
  <2>9. k.start \in Nat
    BY <2>2, <2>5
  <2> QED
    BY <2>1, <2>2, <2>4, <2>8, <2>9
<1>5. ASSUME NEW r \in DOMAIN raw, MinuteFrom <= Truncate(r.start, Minute), Truncate(r.start, Minute) < end
      PROVE  [edge |-> r.edge, start |-> Truncate(r.start, Minute)] \in DOMAIN rolled
  <2>1. PICK m \in Int : m = Truncate(r.start, Minute)
    BY <1>0, <1>3, TruncateIs
  <2>2. m % Minute = 0 /\ m <= r.start /\ r.start < m + Minute
    <3>1. r.start \in Int
      BY <1>3
    <3> QED
      BY <1>0, <2>1, <3>1, TruncateIs
  <2>3. m \in Starts(MinuteFrom, end, Minute)
    BY <1>0, <1>5, <2>1, <2>2 DEF Starts
  <2>4. PICK k : k = [edge |-> r.edge, start |-> m]
    OBVIOUS
  <2>5. k \in [edge : E, start : Starts(MinuteFrom, end, Minute)] /\ k.edge = r.edge /\ k.start = m
    BY <1>3, <2>3, <2>4
  <2>6. r.start \in k.start .. k.start + Minute - 1
    BY <1>0, <1>3, <2>2, <2>5
  <2> QED
    BY <1>1, <2>1, <2>4, <2>5, <2>6
<1> QED
  BY <1>2, <1>4, <1>5 DEF rolled, end

\* What an insert that ignores conflicts leaves.
LEMMA OverrideIs ==
  ASSUME NEW f, NEW g
  PROVE  /\ DOMAIN Override(f, g) = DOMAIN f \cup DOMAIN g
         /\ \A k \in DOMAIN f : Override(f, g)[k] = f[k]
         /\ \A k \in DOMAIN g \ DOMAIN f : Override(f, g)[k] = g[k]
         /\ Override(f, g) = [k \in DOMAIN f \cup DOMAIN g |-> Override(f, g)[k]]
BY DEF Override

\* The minutes after a rollup tell the ledger's bytes, up to the new cursor.
LEMMA NewMinutesIs ==
  ASSUME Inv
  PROVE  /\ Table(NewMinutes)
         /\ \A k \in DOMAIN NewMinutes :
                /\ k \in [edge : edges, start : Nat]
                /\ k.start % Minute = 0 /\ k.start < MinuteCursor(now)
                /\ NewMinutes[k] = Carries(ledger, k.edge, k.start, k.start + Minute)
         /\ \A k \in DOMAIN ledger :
                LET m == Truncate(k.start, Minute)
                IN  m < MinuteCursor(now) /\ (Started => m >= cursor.hour \/ m >= latest - MinuteRetention)
                        => [edge |-> k.edge, start |-> m] \in DOMAIN NewMinutes
<1> DEFINE rolled == RolledMinutes(MinuteFrom, MinuteEnd(now))
<1>1. /\ DOMAIN NewMinutes = DOMAIN rolled \cup DOMAIN minute
      /\ \A k \in DOMAIN rolled : NewMinutes[k] = rolled[k]
      /\ \A k \in DOMAIN minute \ DOMAIN rolled : NewMinutes[k] = minute[k]
      /\ NewMinutes = [k \in DOMAIN rolled \cup DOMAIN minute |-> NewMinutes[k]]
  BY OverrideIs DEF NewMinutes
<1>2. /\ IsFiniteSet(DOMAIN rolled)
      /\ \A k \in DOMAIN rolled :
             /\ k \in [edge : edges, start : Nat]
             /\ k.start % Minute = 0 /\ k.start < MinuteEnd(now)
             /\ rolled[k] = Carries(ledger, k.edge, k.start, k.start + Minute)
      /\ \A r \in DOMAIN raw :
             MinuteFrom <= Truncate(r.start, Minute) /\ Truncate(r.start, Minute) < MinuteEnd(now)
                 => [edge |-> r.edge, start |-> Truncate(r.start, Minute)] \in DOMAIN rolled
  BY RolledMinutesIs
<1> HIDE DEF rolled
<1>3. Table(minute) /\ Table(ledger)
  BY DEF Inv, MinuteOK, LedgerOK
<1>4. ASSUME NEW k \in DOMAIN NewMinutes
      PROVE  /\ k \in [edge : edges, start : Nat] /\ k.start \in Nat
             /\ k.start % Minute = 0 /\ k.start < MinuteCursor(now)
             /\ NewMinutes[k] = Carries(ledger, k.edge, k.start, k.start + Minute)
  <2>1. CASE k \in DOMAIN rolled
    <3>1. k \in [edge : edges, start : Nat] /\ k.start % Minute = 0 /\ k.start < MinuteEnd(now)
          /\ NewMinutes[k] = Carries(ledger, k.edge, k.start, k.start + Minute)
      BY <1>1, <1>2, <2>1
    <3>2. k.start \in Nat
      BY <3>1, KeyParts
    <3> QED
      BY <3>1, <3>2, MinuteSpan
  <2>2. CASE k \notin DOMAIN rolled
    <3>1. k \in DOMAIN minute /\ NewMinutes[k] = minute[k]
      BY <1>1, <2>2
    <3>2. /\ k.edge \in edges /\ k.start \in Nat /\ k = [edge |-> k.edge, start |-> k.start]
          /\ Started /\ k.start % Minute = 0 /\ k.start < cursor.minute
          /\ minute[k] = Carries(ledger, k.edge, k.start, k.start + Minute)
      BY <3>1, MinuteRow
    <3>3. k.start < MinuteCursor(now)
      BY <3>2, MinuteSpan
    <3>4. k \in [edge : edges, start : Nat]
      BY <3>2
    <3> QED
      BY <3>1, <3>2, <3>3, <3>4
  <2> QED
    BY <2>1, <2>2
<1>5. Table(NewMinutes)
  <2>1. IsFiniteSet(DOMAIN NewMinutes)
    <3>1. IsFiniteSet(DOMAIN minute)
      BY <1>3 DEF Table
    <3>2. IsFiniteSet(DOMAIN rolled \cup DOMAIN minute)
      BY <1>2, <3>1, FS_Union
    <3> QED
      BY <1>1, <3>2
  <2>2. ASSUME NEW k \in DOMAIN NewMinutes
        PROVE  NewMinutes[k] \in Bytes
    <3>1. k.start \in Int /\ k.start + Minute \in Int
      BY <1>4, Kinds
    <3>2. Carries(ledger, k.edge, k.start, k.start + Minute) \in Bytes
      BY <1>3, <3>1, CarriesTable
    <3> QED
      BY <1>4, <3>2
  <2>3. NewMinutes = [k \in DOMAIN NewMinutes |-> NewMinutes[k]]
    BY <1>1
  <2> QED
    BY <2>1, <2>2, <2>3 DEF Table
<1>6. ASSUME NEW k \in DOMAIN ledger, NEW m \in Int, m = Truncate(k.start, Minute), m < MinuteCursor(now),
             Started => m >= cursor.hour \/ m >= latest - MinuteRetention
      PROVE  [edge |-> k.edge, start |-> m] \in DOMAIN NewMinutes
  <2>0. k.start \in Int /\ m <= k.start /\ Minute \in Nat \ {0}
    BY <1>6, Kinds, TruncateIs
  <2>1. CASE MinuteFrom <= m
    <3>1. m < MinuteEnd(now)
      BY <1>6, <2>1, MinuteSpan DEF Larger
    <3>2. k \in DOMAIN raw
      BY <2>0, <2>1, MinuteSpan
    <3> QED
      BY <1>1, <1>2, <1>6, <2>1, <3>1, <3>2
  <2>2. CASE ~(MinuteFrom <= m)
    <3>1. Started
      <4>1. MinuteFrom <= k.start => MinuteFrom <= m
        BY <1>6, <2>0, MinuteSpan, TruncateAfter
      <4> QED
        BY <2>2, <4>1, MinuteSpan
    <3>2. m < cursor.minute
      BY <2>2, <3>1, MinuteSpan
    <3>3. MinutesHold(ledger, minute, cursor.minute, cursor.hour, latest - MinuteRetention)
      BY <3>1 DEF Inv, MinuteOK
    <3>4. [edge |-> k.edge, start |-> m] \in DOMAIN minute
      BY <1>6, <3>1, <3>2, <3>3 DEF MinutesHold
    <3> QED
      BY <1>1, <3>4
  <2> QED
    BY <2>1, <2>2
<1> QED
  BY <1>4, <1>5, <1>6, Kinds

-----------------------------------------------------------------------------
(* Maintenance: the hours. *)

\* The invariant's tables are tables.
LEMMA Tables == ASSUME Inv PROVE Table(raw) /\ Table(ledger) /\ Table(minute) /\ Table(hour)
  BY DEF Inv, RawOK, LedgerOK, MinuteOK, HourOK

\* What an edge carried, oriented, is the total over its intervals.
LEMMA FacedCarries ==
  ASSUME NEW t, Table(t), NEW red, NEW f, NEW n \in Nat \ {0}, NEW from \in Int, NEW to \in Int,
         from % n = 0, to % n = 0
  PROVE  LET parts == [s \in Starts(from, to, n) |-> Facing(red, f, Carries(t, f, s, s + n))]
         IN  Table(parts) /\ SumOf(parts) = Facing(red, f, Carries(t, f, from, to))
<1> DEFINE T == Starts(from, to, n)
           c == [s \in T |-> Carries(t, f, s, s + n)]
<1>1. \A s \in T : s \in Int /\ s + n \in Int
  BY DEF Starts
<1>2. Table(c)
  <2>1. IsFiniteSet(T)
    BY StartsFinite
  <2>2. \A s \in T : Carries(t, f, s, s + n) \in Bytes
    BY <1>1, CarriesTable
  <2> QED
    BY <2>1, <2>2 DEF Table
<1>3. SumOf(c) = Carries(t, f, from, to)
  BY CarriesByIntervals
<1>4. DOMAIN c = T /\ \A s \in T : c[s] = Carries(t, f, s, s + n)
  OBVIOUS
<1> HIDE DEF c
<1>5. Table([s \in DOMAIN c |-> Facing(red, f, c[s])])
      /\ SumOf([s \in DOMAIN c |-> Facing(red, f, c[s])]) = Facing(red, f, SumOf(c))
  BY <1>2, TotalFacing
<1>6. [s \in DOMAIN c |-> Facing(red, f, c[s])] = [s \in T |-> Facing(red, f, Carries(t, f, s, s + n))]
  BY <1>4
<1> QED
  BY <1>3, <1>5, <1>6, Zenon

\* What the edges of E carried together.
Together(t, red, E, from, to) == SumOf([f \in E |-> Facing(red, f, Carries(t, f, from, to))])

\* Together, interval by interval.
LEMMA AliasTotals ==
  ASSUME NEW t, Table(t), NEW red, NEW E, IsFiniteSet(E), NEW n \in Nat \ {0},
         NEW from \in Int, NEW to \in Int, from % n = 0, to % n = 0
  PROVE  SumOf([s \in Starts(from, to, n) |-> Together(t, red, E, s, s + n)]) = Together(t, red, E, from, to)
<1> DEFINE T == Starts(from, to, n)
           part(f, s) == Facing(red, f, Carries(t, f, s, s + n))
           c == [f \in E |-> [s \in T |-> part(f, s)]]
<1>1. IsFiniteSet(T)
  BY StartsFinite
<1>2. \A f \in E : Table([s \in T |-> part(f, s)])
                   /\ SumOf([s \in T |-> part(f, s)]) = Facing(red, f, Carries(t, f, from, to))
  BY FacedCarries
<1>3. \A f \in E : [s \in T |-> part(f, s)] \in [T -> Bytes]
  BY <1>2 DEF Table
<1> HIDE DEF part, T
<1>4. c \in [E -> [T -> Bytes]]
  BY <1>3
<1>5. \A f \in E : c[f] = [s \in T |-> part(f, s)]
  OBVIOUS
<1>6. \A f \in E : \A s \in T : c[f][s] = part(f, s)
  BY <1>5
<1> HIDE DEF c
<1>7. SumOf([f \in E |-> SumOf(c[f])]) = SumOf([s \in T |-> SumOf([f \in E |-> c[f][s]])])
  BY <1>1, <1>4, TotalExchange
<1>8. [f \in E |-> SumOf(c[f])] = [f \in E |-> Facing(red, f, Carries(t, f, from, to))]
  BY <1>2, <1>5
<1>9. [s \in T |-> SumOf([f \in E |-> c[f][s]])] = [s \in T |-> SumOf([f \in E |-> part(f, s)])]
  <2>1. \A s \in T : [f \in E |-> c[f][s]] = [f \in E |-> part(f, s)]
    BY <1>6
  <2> QED
    BY <2>1
<1>10. SumOf([f \in E |-> Facing(red, f, Carries(t, f, from, to))])
           = SumOf([s \in T |-> SumOf([f \in E |-> part(f, s)])])
  BY <1>7, <1>8, <1>9, Zenon
<1>11. [s \in T |-> SumOf([f \in E |-> part(f, s)])] = [s \in T |-> Together(t, red, E, s, s + n)]
  BY DEF Together, part
<1> QED
  BY <1>10, <1>11, Zenon DEF T, Together

\* A sum of parts that may be left out grows with its parts.
LEMMA AliasTable ==
  ASSUME NEW t, Table(t), NEW red, NEW E, IsFiniteSet(E), NEW from \in Int, NEW to \in Int
  PROVE  /\ Table([f \in E |-> Facing(red, f, Carries(t, f, from, to))])
         /\ Together(t, red, E, from, to) \in Bytes
<1> DEFINE c == [f \in E |-> Facing(red, f, Carries(t, f, from, to))]
<1>1. \A f : Facing(red, f, Carries(t, f, from, to)) \in Bytes
  BY CarriesTable, FacingType
<1>2. Table(c)
  BY <1>1 DEF Table
<1>3. SumOf(c) \in Bytes
  BY <1>2, SumOfType
<1> QED
  BY <1>2, <1>3 DEF Together

\* The largest of the aliases' minutes.
LEMMA MinuteBytesIs ==
  ASSUME Inv, NEW L \in Logical, NEW s \in Int
  PROVE  LET told == MinuteBytes(NewMinutes, L, s)
             Carried_(f) == Facing(redirects, f, Carries(ledger, f, s, s + Minute))
         IN  /\ told \in Bytes
             /\ AtMost(told, Together(ledger, redirects, Aliases(L), s, s + Minute))
             /\ \A f \in Aliases(L) :
                    [edge |-> f, start |-> s] \in DOMAIN NewMinutes => AtMost(Carried_(f), told)
<1> DEFINE rows == {k \in DOMAIN NewMinutes : k.edge \in Aliases(L) /\ k.start = s}
           t == [k \in rows |-> Oriented(k.edge, NewMinutes[k])]
           part(f) == Facing(redirects, f, Carries(ledger, f, s, s + Minute))
           all == [f \in Aliases(L) |-> part(f)]
<1>1. Table(NewMinutes) /\ Table(ledger) /\ s + Minute \in Int
  BY NewMinutesIs, Tables, Kinds
<1>2. IsFiniteSet(Aliases(L)) /\ \A f \in Aliases(L) : \A b : Oriented(f, b) = Facing(redirects, f, b)
  <2>1. MapOK
    BY DEF Inv
  <2>2. Aliases(L) \subseteq DOMAIN map /\ IsFiniteSet(DOMAIN map)
        /\ \A e \in DOMAIN map : \A b : Oriented(e, b) = Facing(redirects, e, b)
    BY <2>1, MapIs
  <2> QED
    BY <2>2, FS_Subset
<1>3. Table(all)
  BY <1>1, <1>2, AliasTable
<1>4. ASSUME NEW k \in rows
      PROVE  k.edge \in Aliases(L) /\ t[k] = part(k.edge) /\ part(k.edge) \in Bytes
  <2>1. k \in DOMAIN NewMinutes /\ k.edge \in Aliases(L) /\ k.start = s
    OBVIOUS
  <2>2. NewMinutes[k] = Carries(ledger, k.edge, k.start, k.start + Minute)
    BY <2>1, NewMinutesIs
  <2>3. part(k.edge) \in Bytes
    BY <1>3, <2>1 DEF Table
  <2>4. t[k] = Oriented(k.edge, NewMinutes[k])
    OBVIOUS
  <2>5. t[k] = part(k.edge)
    BY <1>2, <2>1, <2>2, <2>4
  <2> QED
    BY <2>1, <2>3, <2>5
<1>5. IsFiniteSet(rows)
  BY <1>1, FS_Subset DEF Table
<1>6. DOMAIN t = rows /\ DOMAIN all = Aliases(L) /\ \A f \in Aliases(L) : all[f] = part(f)
  OBVIOUS
<1>7. MinuteBytes(NewMinutes, L, s) = MaxOf(t)
  BY DEF MinuteBytes
<1>8. \A f \in Aliases(L) : [edge |-> f, start |-> s] \in DOMAIN NewMinutes => [edge |-> f, start |-> s] \in rows
  OBVIOUS
<1>9. t = [k \in rows |-> t[k]]
  OBVIOUS
<1> HIDE DEF rows, t, part, all
<1>10. Table(t)
  BY <1>4, <1>5, <1>9 DEF Table
<1>11. MaxOf(t) \in Bytes /\ (\A k \in rows : AtMost(t[k], MaxOf(t)))
       /\ \A b \in Bytes : (\A k \in rows : AtMost(t[k], b)) => AtMost(MaxOf(t), b)
  BY <1>6, <1>10, MaxOfIs
<1>12. AtMost(MaxOf(t), SumOf(all))
  <2>1. SumOf(all) \in Bytes
    BY <1>3, SumOfType
  <2>2. \A k \in rows : AtMost(t[k], SumOf(all))
    BY <1>3, <1>4, <1>6, TermAtMostTotal
  <2> QED
    BY <1>11, <2>1, <2>2
<1>13. ASSUME NEW f \in Aliases(L), [edge |-> f, start |-> s] \in DOMAIN NewMinutes
       PROVE  AtMost(part(f), MaxOf(t))
  <2>1. PICK k : k = [edge |-> f, start |-> s]
    OBVIOUS
  <2>2. k \in rows /\ k.edge = f
    BY <1>8, <1>13, <2>1
  <2> QED
    BY <1>4, <1>11, <2>2
<1> QED
  BY <1>7, <1>11, <1>12, <1>13 DEF all, part, Together

HourUpto == HourEnd(now, MinuteCursor(now))
HourFrom == RollupStart(cursor.hour, StartsOf(NewMinutes), Hour, HourUpto)
HourTo   == Larger(HourUpto, HourFrom)
NewHours == RolledHours(NewMinutes, HourFrom, HourUpto)

\* Where an hour rollup starts and ends.
LEMMA HourSpan ==
  ASSUME Inv
  PROVE  /\ HourUpto \in Int /\ HourUpto % Hour = 0 /\ HourUpto <= MinuteCursor(now)
         /\ HourFrom \in Int /\ HourFrom % Hour = 0
         /\ HourTo \in Int /\ HourTo % Hour = 0 /\ HourTo <= MinuteCursor(now)
         /\ HourTo >= HourUpto /\ HourTo >= HourFrom
         /\ HourTo = HourUpto \/ HourTo = HourFrom
         /\ HourFrom > HourUpto \/ HourTo = HourUpto
         /\ Started => HourFrom = cursor.hour
         /\ ~Started => HourFrom <= HourUpto /\ \A k \in DOMAIN NewMinutes : HourFrom <= k.start
<1>1. MinuteCursor(now) \in Int /\ now \in Int /\ Hour \in Nat \ {0}
  BY MinuteSpan, Kinds
<1>2. HourUpto \in Int /\ HourUpto % Hour = 0 /\ HourUpto <= MinuteCursor(now)
  <2>1. Truncate(now, Hour) \in Int /\ Truncate(now, Hour) % Hour = 0
    BY <1>1, TruncateIs
  <2>2. /\ Truncate(MinuteCursor(now), Hour) \in Int /\ Truncate(MinuteCursor(now), Hour) % Hour = 0
        /\ Truncate(MinuteCursor(now), Hour) <= MinuteCursor(now)
    BY <1>1, TruncateIs
  <2> QED
    BY <1>1, <2>1, <2>2 DEF HourUpto, HourEnd, Smaller
<1>3. CASE Started
  <2>1. HourFrom = cursor.hour
    <3>1. cursor.hour # NoTime
      BY <1>3 DEF Inv, CursorOK
    <3> QED
      BY <3>1 DEF HourFrom, RollupStart
  <2>2. cursor.hour \in Int /\ cursor.hour % Hour = 0 /\ cursor.hour <= cursor.minute /\ cursor.minute \in Int
    BY <1>3, Kinds
  <2>3. cursor.minute <= MinuteCursor(now)
    BY <1>3, MinuteSpan
  <2> QED
    BY <1>1, <1>2, <1>3, <2>1, <2>2, <2>3 DEF HourTo, Larger
<1>4. CASE ~Started
  <2>1. StartsOf(NewMinutes) \in SUBSET Nat
    <3>1. \A k \in DOMAIN NewMinutes : k.start \in Nat
      BY NewMinutesIs, KeyParts
    <3> QED
      BY <3>1 DEF StartsOf
  <2>2. HourFrom = RollupStart(NoTime, StartsOf(NewMinutes), Hour, HourUpto)
    <3>1. cursor.hour = NoTime
      BY <1>4 DEF Inv, CursorOK
    <3> QED
      BY <3>1 DEF HourFrom
  <2>3. HourFrom \in Int /\ HourFrom % Hour = 0 /\ HourFrom <= HourUpto /\ \A s \in StartsOf(NewMinutes) : HourFrom <= s
    BY <1>1, <1>2, <2>1, <2>2, StartEarly
  <2> QED
    BY <1>1, <1>2, <1>4, <2>3 DEF HourTo, Larger, StartsOf
<1> QED
  BY <1>3, <1>4

\* The minutes of a row before the hour cursor to be are there since the hour
\* cursor that was.
LEMMA MinutesOfHour ==
  ASSUME Inv, NEW k \in DOMAIN ledger, NEW h \in Int, h = Truncate(k.start, Hour), h < HourTo,
         Started => cursor.hour <= h
  PROVE  /\ h <= Truncate(k.start, Minute) /\ Truncate(k.start, Minute) < h + Hour
         /\ Truncate(k.start, Minute) \in Starts(h, h + Hour, Minute)
         /\ [edge |-> k.edge, start |-> Truncate(k.start, Minute)] \in DOMAIN NewMinutes
         /\ HourFrom <= h
<1> DEFINE m == Truncate(k.start, Minute)
<1>1. k.start \in Int /\ Minute \in Nat \ {0} /\ Hour \in Nat \ {0} /\ MinuteCursor(now) \in Int
  BY Kinds, MinuteSpan
<1>2. m \in Int /\ m % Minute = 0 /\ m <= k.start /\ k.start < m + Minute
  BY <1>1, TruncateIs
<1>3. h % Hour = 0 /\ h <= k.start /\ k.start < h + Hour
  BY <1>1, TruncateIs
<1>4. h <= m /\ m + Minute <= h + Hour
  BY <1>1, MinuteInHour
<1> HIDE DEF m
<1>5. m < h + Hour
  BY <1>1, <1>2, <1>4
<1>6. m \in Starts(h, h + Hour, Minute)
  BY <1>1, <1>2, <1>4, <1>5 DEF Starts
<1>7. h + Hour <= HourTo
  BY <1>1, <1>3, HourSpan, AlignedApart
<1>8. m < MinuteCursor(now)
  BY <1>1, <1>2, <1>5, <1>7, HourSpan
<1>9. Started => m >= cursor.hour
  BY <1>2, <1>4, Kinds
<1>10. [edge |-> k.edge, start |-> m] \in DOMAIN NewMinutes
  BY <1>8, <1>9, NewMinutesIs DEF m
<1>11. HourFrom <= h
  <2>1. CASE Started
    BY <2>1, HourSpan
  <2>2. CASE ~Started
    <3>1. PICK l : l = [edge |-> k.edge, start |-> m]
      OBVIOUS
    <3>2. l.start = m /\ l \in DOMAIN NewMinutes
      BY <1>10, <3>1
    <3>3. HourFrom <= m
      BY <2>2, <3>2, HourSpan
    <3>4. HourFrom <= k.start
      BY <1>1, <1>2, <3>3, HourSpan
    <3> QED
      BY <1>1, <3>4, HourSpan, TruncateAfter
  <2> QED
    BY <2>1, <2>2
<1> QED
  BY <1>4, <1>5, <1>6, <1>10, <1>11 DEF m

\* Which hours a rollup writes, and what it adds up for them.
LEMMA RolledHoursIs ==
  ASSUME Inv
  PROVE  /\ IsFiniteSet(DOMAIN NewHours) /\ NewHours = [k \in DOMAIN NewHours |-> NewHours[k]]
         /\ \A k \in DOMAIN NewHours :
                /\ k.edge \in Logical /\ k.start \in Int /\ k = [edge |-> k.edge, start |-> k.start]
                /\ k.start % Hour = 0 /\ HourFrom <= k.start /\ k.start < HourUpto
                /\ NewHours[k] = SumOf([s \in Starts(k.start, k.start + Hour, Minute)
                                            |-> MinuteBytes(NewMinutes, k.edge, s)])
         /\ \A L \in Logical : \A h \in Starts(HourFrom, HourUpto, Hour) : \A m \in DOMAIN NewMinutes :
                m.edge \in Aliases(L) /\ m.start \in Starts(h, h + Hour, Minute)
                    => [edge |-> L, start |-> h] \in DOMAIN NewHours
<1>0. HourFrom \in Int /\ HourUpto \in Int
  BY HourSpan
<1>1. /\ DOMAIN NewHours = {k \in [edge : Logical, start : Starts(HourFrom, HourUpto, Hour)] :
                               \E m \in DOMAIN NewMinutes :
                                   m.edge \in Aliases(k.edge)
                                   /\ m.start \in Starts(k.start, k.start + Hour, Minute)}
      /\ \A k \in DOMAIN NewHours :
             NewHours[k] = SumOf([s \in Starts(k.start, k.start + Hour, Minute)
                                     |-> MinuteBytes(NewMinutes, k.edge, s)])
      /\ NewHours = [k \in DOMAIN NewHours |-> NewHours[k]]
  BY DEF NewHours, RolledHours
<1>2. ASSUME NEW k \in DOMAIN NewHours
      PROVE  /\ k.edge \in Logical /\ k.start \in Int /\ k = [edge |-> k.edge, start |-> k.start]
             /\ k.start % Hour = 0 /\ HourFrom <= k.start /\ k.start < HourUpto
  <2>1. k.edge \in Logical /\ k.start \in Starts(HourFrom, HourUpto, Hour) /\ k = [edge |-> k.edge, start |-> k.start]
    BY <1>1, KeyParts
  <2> QED
    BY <1>0, <2>1 DEF Starts
<1>3. IsFiniteSet(DOMAIN NewHours)
  <2>1. IsFiniteSet(Logical)
    <3>1. IsFiniteSet(DOMAIN map)
      BY MapIs DEF Inv
    <3>2. IsFiniteSet({[e \in DOMAIN map |-> map[e].edge][x] : x \in DOMAIN [e \in DOMAIN map |-> map[e].edge]})
      BY <3>1, ImageFinite
    <3>3. Logical = {[e \in DOMAIN map |-> map[e].edge][x] : x \in DOMAIN [e \in DOMAIN map |-> map[e].edge]}
      BY DEF Logical
    <3> QED
      BY <3>2, <3>3
  <2>2. IsFiniteSet(Starts(HourFrom, HourUpto, Hour))
    BY <1>0, StartsFinite
  <2>3. DOMAIN NewHours \in SUBSET [edge : Logical, start : Starts(HourFrom, HourUpto, Hour)]
    BY <1>1
  <2> QED
    BY <2>1, <2>2, <2>3, KeysFinite
<1>4. ASSUME NEW L \in Logical, NEW h \in Starts(HourFrom, HourUpto, Hour), NEW m \in DOMAIN NewMinutes,
             m.edge \in Aliases(L), m.start \in Starts(h, h + Hour, Minute)
      PROVE  [edge |-> L, start |-> h] \in DOMAIN NewHours
  <2>1. PICK k : k = [edge |-> L, start |-> h]
    OBVIOUS
  <2>2. k \in [edge : Logical, start : Starts(HourFrom, HourUpto, Hour)] /\ k.edge = L /\ k.start = h
    BY <2>1
  <2>3. m.edge \in Aliases(k.edge) /\ m.start \in Starts(k.start, k.start + Hour, Minute)
    BY <1>4, <2>2
  <2> QED
    BY <1>1, <2>1, <2>2, <2>3
<1> QED
  BY <1>1, <1>2, <1>3, <1>4

\* The aliases of a logical edge are those of the edge itself.
LEMMA LogicalAliases ==
  ASSUME MapOK, NEW L \in Logical
  PROVE  Aliases(L) = AliasesUnder(redirects, edges, L) /\ IsFiniteSet(Aliases(L)) /\ Aliases(L) \subseteq AllEdges
<1>1. LogicalUnder(redirects, L) = L
  BY LogicalIsRoot
<1>2. /\ DOMAIN map = {e \in edges : ~IsLoop(redirects, e)} /\ IsFiniteSet(DOMAIN map)
      /\ \A e \in DOMAIN map : map[e].edge = LogicalUnder(redirects, e) /\ e \in AllEdges
      /\ Aliases(L) \subseteq DOMAIN map
  BY MapIs
<1>3. Aliases(L) = AliasesUnder(redirects, edges, L)
  BY <1>1, <1>2 DEF Aliases, AliasesUnder
<1> QED
  BY <1>2, <1>3, FS_Subset

\* The minutes of an hour are byte counts.
LEMMA MinutesTable ==
  ASSUME Inv, NEW L \in Logical, NEW h \in Int
  PROVE  Table([s \in Starts(h, h + Hour, Minute) |-> MinuteBytes(NewMinutes, L, s)])
<1>1. h + Hour \in Int
  BY Kinds
<1>2. IsFiniteSet(Starts(h, h + Hour, Minute)) /\ \A s \in Starts(h, h + Hour, Minute) : s \in Int
  <2>1. IsFiniteSet(Starts(h, h + Hour, Minute))
    BY <1>1, StartsFinite
  <2> QED
    BY <2>1 DEF Starts
<1>3. \A s \in Starts(h, h + Hour, Minute) : MinuteBytes(NewMinutes, L, s) \in Bytes
  BY <1>2, MinuteBytesIs
<1> QED
  BY <1>2, <1>3 DEF Table

\* A new hour is no more than its aliases carried together.
LEMMA NewHourUpper ==
  ASSUME Inv, NEW k \in DOMAIN NewHours
  PROVE  NewHours[k] \in Bytes /\ HourAtMost(redirects, edges, ledger, k.edge, k.start, NewHours[k])
<1>1. PICK L \in Logical, h \in Int : L = k.edge /\ h = k.start
  BY RolledHoursIs
<1> DEFINE T == Starts(h, h + Hour, Minute)
           told == [s \in T |-> MinuteBytes(NewMinutes, L, s)]
           all == [s \in T |-> Together(ledger, redirects, Aliases(L), s, s + Minute)]
           sum == Together(ledger, redirects, Aliases(L), h, h + Hour)
<1>2. MapOK /\ Table(ledger) /\ Minute \in Nat \ {0} /\ Hour \in Nat \ {0} /\ h % Hour = 0 /\ h + Hour \in Int
  <2>1. h % Hour = 0
    BY <1>1, RolledHoursIs
  <2>2. MapOK /\ Table(ledger)
    BY DEF Inv, LedgerOK
  <2>3. Minute \in Nat \ {0} /\ Hour \in Nat \ {0} /\ h + Hour \in Int
    BY Kinds
  <2> QED
    BY <2>1, <2>2, <2>3
<1>3. h % Minute = 0 /\ (h + Hour) % Minute = 0
  BY <1>2, HoursAreMinutes, AlignedNext
<1>4. IsFiniteSet(Aliases(L)) /\ Aliases(L) = AliasesUnder(redirects, edges, L)
  BY <1>2, LogicalAliases
<1>5. SumOf(all) = sum
  <2>1. Table(ledger) /\ IsFiniteSet(Aliases(L)) /\ Minute \in Nat \ {0} /\ h \in Int /\ h + Hour \in Int
        /\ h % Minute = 0 /\ (h + Hour) % Minute = 0
    BY <1>2, <1>3, <1>4
  <2> QED
    BY <2>1, AliasTotals
<1>6. Table(told)
  BY MinutesTable
<1>7. \A s \in T : s \in Int /\ s + Minute \in Int
  BY <1>2 DEF Starts
<1>8. \A s \in T : Together(ledger, redirects, Aliases(L), s, s + Minute) \in Bytes
  BY <1>2, <1>4, <1>7, AliasTable
<1>9. IsFiniteSet(T)
  BY <1>2, StartsFinite
<1>10. Table(all)
  <2> HIDE DEF T
  <2> QED
    BY <1>8, <1>9 DEF Table
<1>11. \A s \in T : AtMost(MinuteBytes(NewMinutes, L, s), Together(ledger, redirects, Aliases(L), s, s + Minute))
  BY <1>7, MinuteBytesIs
<1>12. \A s \in T : AtMost(told[s], all[s])
  <2> HIDE DEF T
  <2> QED
    BY <1>11
<1>13. DOMAIN told = T /\ DOMAIN all = T
  OBVIOUS
<1>14. NewHours[k] = SumOf(told)
  BY <1>1, RolledHoursIs
<1> HIDE DEF told, all, sum
<1>15. AtMost(SumOf(told), SumOf(all))
  BY <1>6, <1>10, <1>12, <1>13, TotalAtMost
<1>16. SumOf(told) \in Bytes
  BY <1>6, SumOfType
<1>17. Facing(redirects, L, NewHours[k]) = NewHours[k]
  BY <1>2, LogicalIsRoot
<1>18. AtMost(Facing(redirects, L, NewHours[k]), sum)
  BY <1>5, <1>14, <1>15, <1>17
<1>19. HourAtMost(redirects, edges, ledger, L, h, NewHours[k])
  BY <1>4, <1>18 DEF HourAtMost, sum, Together
<1> QED
  BY <1>1, <1>14, <1>16, <1>19

\* A new hour is no less than any one alias carried.
LEMMA NewHourLower ==
  ASSUME Inv, NEW k \in DOMAIN ledger, ~IsLoop(redirects, k.edge), NEW h \in Int,
         h = Truncate(k.start, Hour), h < HourUpto, Started => cursor.hour <= h
  PROVE  \E l \in DOMAIN NewHours :
             l.start = h /\ HourAtLeast(redirects, ledger, k.edge, l.start, l.edge, NewHours[l])
<1>1. MapOK /\ Table(ledger) /\ Minute \in Nat \ {0} /\ Hour \in Nat \ {0} /\ h + Hour \in Int
      /\ k.start \in Int /\ h % Hour = 0
  <2>1. k.start \in Int /\ Minute \in Nat \ {0} /\ Hour \in Nat \ {0} /\ h + Hour \in Int
    BY Kinds
  <2>2. MapOK /\ Table(ledger)
    BY DEF Inv, LedgerOK
  <2>3. h % Hour = 0
    BY <2>1, TruncateIs
  <2> QED
    BY <2>1, <2>2, <2>3
<1>2. PICK e : e = k.edge
  OBVIOUS
<1>3. e \in DOMAIN map /\ e \in AllEdges
  <2>1. e \in edges
    BY <1>2 DEF Inv, LedgerOK
  <2> QED
    BY <1>1, <1>2, <2>1, MapIs
<1>4. PICK L \in Logical : L = map[e].edge /\ e \in Aliases(L) /\ L = LogicalUnder(redirects, e)
  BY <1>1, <1>3, MapIs DEF Logical, Aliases
<1>5. h < HourTo
  BY HourSpan
<1>6. PICK m : m = [edge |-> e, start |-> Truncate(k.start, Minute)]
  OBVIOUS
<1>7. m \in DOMAIN NewMinutes /\ m.edge = e /\ m.start \in Starts(h, h + Hour, Minute) /\ HourFrom <= h
  BY <1>2, <1>5, <1>6, MinutesOfHour
<1>8. h \in Starts(HourFrom, HourUpto, Hour)
  BY <1>1, <1>7, HourSpan DEF Starts
<1>9. PICK l : l = [edge |-> L, start |-> h]
  OBVIOUS
<1>10. l \in DOMAIN NewHours /\ l.edge = L /\ l.start = h
  BY <1>4, <1>7, <1>8, <1>9, RolledHoursIs
<1> DEFINE T == Starts(h, h + Hour, Minute)
           part == [s \in T |-> Facing(redirects, e, Carries(ledger, e, s, s + Minute))]
           told == [s \in T |-> MinuteBytes(NewMinutes, L, s)]
           whole == Facing(redirects, e, Carries(ledger, e, h, h + Hour))
<1>11. Table(part) /\ SumOf(part) = whole
  <2>1. h % Minute = 0 /\ (h + Hour) % Minute = 0
    BY <1>1, HoursAreMinutes, AlignedNext
  <2> QED
    BY <1>1, <2>1, FacedCarries
<1>12. Table(told)
  BY <1>1, MinutesTable
<1>13. NewHours[l] = SumOf(told)
  BY <1>10, RolledHoursIs
<1>14. ASSUME NEW s \in T
       PROVE  AtMost(Facing(redirects, e, Carries(ledger, e, s, s + Minute)), MinuteBytes(NewMinutes, L, s))
  <2>1. s \in Int /\ s + Minute \in Int /\ s % Minute = 0 /\ h <= s /\ s < h + Hour
    BY <1>1 DEF Starts
  <2>2. CASE [edge |-> e, start |-> s] \in DOMAIN NewMinutes
    BY <1>4, <2>1, <2>2, MinuteBytesIs
  <2>3. CASE [edge |-> e, start |-> s] \notin DOMAIN NewMinutes
    <3>1. ASSUME NEW x \in s .. (s + Minute) - 1
          PROVE  Bucket(ledger, e, x) = {}
      <4> SUFFICES ASSUME NEW r \in Bucket(ledger, e, x)
                   PROVE  FALSE
        OBVIOUS
      <4>1. r \in DOMAIN ledger /\ r.edge = e /\ r.start = x
        BY DEF Bucket
      <4>2. r.start \in Int /\ s <= r.start /\ r.start < s + Minute
        BY <1>1, <2>1, <4>1
      <4>3. Truncate(r.start, Minute) = s
        BY <1>1, <2>1, <4>2, TruncateAfter
      <4>4. h <= r.start /\ r.start < h + Hour
        <5>1. s + Minute <= h + Hour
          <6>1. (h + Hour) % Minute = 0
            BY <1>1, HoursAreMinutes, AlignedNext
          <6> QED
            BY <1>1, <2>1, <6>1, AlignedApart
        <5> QED
          BY <1>1, <2>1, <4>2, <5>1
      <4>5. h = Truncate(r.start, Hour)
        BY <1>1, <4>2, <4>4, TruncateAfter
      <4>6. [edge |-> r.edge, start |-> Truncate(r.start, Minute)] \in DOMAIN NewMinutes
        BY <1>5, <4>1, <4>5, MinutesOfHour
      <4> QED
        BY <2>3, <4>1, <4>3, <4>6
    <3>2. Carries(ledger, e, s, s + Minute) = Zero
      BY <1>1, <2>1, <3>1, CarriesNone
    <3>3. MinuteBytes(NewMinutes, L, s) \in Bytes
      BY <2>1, MinuteBytesIs
    <3>4. Facing(redirects, e, Zero) = Zero
      BY <3>3, FacingType
    <3>5. AtMost(Zero, MinuteBytes(NewMinutes, L, s))
      BY <3>3, BytesOrder
    <3> QED
      BY <3>2, <3>4, <3>5
  <2> QED
    BY <2>2, <2>3
<1>15. DOMAIN part = T /\ DOMAIN told = T /\ \A s \in T : AtMost(part[s], told[s])
  BY <1>14
<1> HIDE DEF part, told, whole
<1>16. AtMost(whole, SumOf(told))
  BY <1>11, <1>12, <1>15, TotalAtMost
<1>17. /\ ~IsLoop(redirects, L) /\ LogicalUnder(redirects, L) = L
       /\ Facing(redirects, L, NewHours[l]) = NewHours[l]
  BY <1>1, LogicalIsRoot
<1>18. HourAtLeast(redirects, ledger, e, h, L, NewHours[l])
  BY <1>4, <1>13, <1>16, <1>17 DEF HourAtLeast, whole
<1> QED
  BY <1>2, <1>10, <1>18

\* What a deletion by age leaves.
LEMMA SinceIs ==
  ASSUME NEW t, NEW cutoff
  PROVE  /\ DOMAIN Since(t, cutoff) = {k \in DOMAIN t : k.start >= cutoff}
         /\ \A k \in DOMAIN Since(t, cutoff) : Since(t, cutoff)[k] = t[k]
         /\ Table(t) => Table(Since(t, cutoff))
<1> DEFINE S == {k \in DOMAIN t : k.start >= cutoff}
<1>1. Since(t, cutoff) = Restrict(t, S)
  BY DEF Since
<1>2. Restrict(t, S) = [k \in S |-> t[k]]
  BY DEF Restrict
<1>3. DOMAIN Restrict(t, S) = S /\ \A k \in S : Restrict(t, S)[k] = t[k]
  BY <1>2
<1>4. Table(t) => Table(Restrict(t, S))
  BY PartTable
<1> QED
  BY <1>1, <1>3, <1>4

\* Maintenance, in the names used here.
LEMMA MaintainIs ==
  ASSUME Maintain
  PROVE  /\ cursor' = [minute |-> MinuteCursor(now), hour |-> HourTo]
         /\ raw' = Since(raw, RawCutoff(now, MinuteCursor(now)))
         /\ minute' = Since(NewMinutes, MinuteCutoff(now, HourTo))
         /\ hour' = Since(Override(NewHours, hour), now - HourRetention)
         /\ edges' = edges \cup {k.edge : k \in DOMAIN NewHours}
         /\ map' = WithHourEdges(map, NewHours)
         /\ UNCHANGED <<redirects, now, latest, ledger>>
BY DEF Maintain, HourTo, HourFrom, HourUpto, NewHours, NewMinutes, MinuteFrom

\* Maintenance keeps the map in step with the edges.
LEMMA MaintainMap ==
  ASSUME Inv, Maintain
  PROVE  /\ MapOK' /\ edges \subseteq edges' /\ IsFiniteSet(edges')
         /\ \A k \in DOMAIN NewHours : k.edge \in edges'
<1> DEFINE R == {k.edge : k \in DOMAIN NewHours}
<1>1. redirects \in [Nodes -> Nodes] /\ (\A n \in Nodes : redirects[redirects[n]] = redirects[n])
      /\ edges \in SUBSET AllEdges /\ IsFiniteSet(edges) /\ map = Mapped(redirects, edges)
  BY DEF Inv, MapOK
<1>2. edges' = edges \cup R /\ map' = WithHourEdges(map, NewHours) /\ redirects' = redirects
  BY MaintainIs
<1>3. R \subseteq Logical
  BY RolledHoursIs
<1>4. \A L \in R : L \in AllEdges /\ ~IsLoop(redirects, L) /\ Mapping(redirects, L) = [edge |-> L, reversed |-> FALSE]
  BY <1>3, LogicalIsRoot DEF Inv
<1>5. IsFiniteSet(R)
  <2>1. IsFiniteSet(DOMAIN NewHours)
    BY RolledHoursIs
  <2>2. IsFiniteSet({[k \in DOMAIN NewHours |-> k.edge][x] : x \in DOMAIN [k \in DOMAIN NewHours |-> k.edge]})
    BY <2>1, ImageFinite
  <2>3. R = {[k \in DOMAIN NewHours |-> k.edge][x] : x \in DOMAIN [k \in DOMAIN NewHours |-> k.edge]}
    OBVIOUS
  <2> QED
    BY <2>2, <2>3
<1>6. map' = [e \in DOMAIN map \cup R |-> IF e \in R THEN [edge |-> e, reversed |-> FALSE] ELSE map[e]]
  BY <1>2 DEF WithHourEdges
<1>7. \A k \in DOMAIN NewHours : k.edge \in R
  OBVIOUS
<1> HIDE DEF R
<1>8. DOMAIN map = {x \in edges : ~IsLoop(redirects, x)} /\ \A x \in DOMAIN map : map[x] = Mapping(redirects, x)
  BY <1>1 DEF Mapped
<1>9. DOMAIN map \cup R = {x \in edges \cup R : ~IsLoop(redirects, x)}
  BY <1>4, <1>8
<1>10. \A e \in DOMAIN map \cup R : (IF e \in R THEN [edge |-> e, reversed |-> FALSE] ELSE map[e]) = Mapping(redirects, e)
  BY <1>4, <1>8
<1>11. map' = [e \in DOMAIN map \cup R |-> Mapping(redirects, e)]
  BY <1>6, <1>10
<1>12. map' = Mapped(redirects, edges \cup R)
  BY <1>9, <1>11 DEF Mapped
<1>13. edges \cup R \in SUBSET AllEdges
  BY <1>1, <1>4
<1>14. IsFiniteSet(edges \cup R)
  BY <1>1, <1>5, FS_Union
<1>15. (redirects \in [Nodes -> Nodes])' /\ (\A n \in Nodes : redirects[redirects[n]] = redirects[n])'
  BY <1>1, <1>2
<1>16. edges' \in SUBSET AllEdges
  BY <1>2, <1>13
<1>17. IsFiniteSet(edges')
  BY <1>2, <1>14
<1>18. map' = Mapped(redirects', edges')
  BY <1>2, <1>12
<1>19. MapOK'
  BY <1>15, <1>16, <1>17, <1>18 DEF MapOK
<1> QED
  BY <1>2, <1>7, <1>17, <1>19

\* Deleting raw rows keeps those that are young or not rolled up.
LEMMA MaintainRaw == ASSUME Inv, Maintain PROVE RawOK'
<1> DEFINE cutoff == RawCutoff(now, MinuteCursor(now))
<1>1. /\ DOMAIN raw \subseteq DOMAIN ledger
      /\ \A k \in DOMAIN raw : raw[k] = ledger[k]
      /\ \A k \in DOMAIN ledger :
             (Started => k.start >= cursor.minute \/ k.start >= latest - RawRetention)
                 => k \in DOMAIN raw
      /\ Table(raw)
      /\ \A k \in DOMAIN raw, l \in DOMAIN ledger :
             l.edge = k.edge /\ l.start = k.start => l \in DOMAIN raw
  BY DEF Inv, RawOK
<1>2. PICK new : new = Since(raw, cutoff)
  OBVIOUS
<1>3. Table(new) /\ DOMAIN new = {k \in DOMAIN raw : k.start >= cutoff} /\ \A k \in DOMAIN new : new[k] = raw[k]
  BY <1>1, <1>2, SinceIs, Zenon
<1>4. raw' = new /\ ledger' = ledger /\ cursor'.minute = MinuteCursor(now) /\ latest' = latest
  BY <1>2, MaintainIs
<1>5. cutoff \in Int /\ cutoff <= MinuteCursor(now) /\ cutoff <= latest - RawRetention
      /\ MinuteCursor(now) \in Int /\ (Started => cursor.minute \in Int /\ cursor.minute <= MinuteCursor(now))
  BY MinuteSpan, Kinds DEF RawCutoff, Smaller
<1> HIDE DEF cutoff
<1>6. ASSUME NEW k \in DOMAIN ledger, k.start >= MinuteCursor(now) \/ k.start >= latest - RawRetention
      PROVE  k \in DOMAIN new
  <2>1. k.start \in Int /\ latest - RawRetention \in Int
    BY Kinds
  <2>2. k \in DOMAIN raw
    BY <1>1, <1>5, <1>6, <2>1
  <2> QED
    BY <1>3, <1>5, <1>6, <2>1, <2>2
<1>7. DOMAIN new \subseteq DOMAIN ledger /\ \A k \in DOMAIN new : new[k] = ledger[k]
  BY <1>1, <1>3
<1>8. Started'
  BY <1>4, MinuteSpan, TiersAssumption DEF Started
<1>9. \A k \in DOMAIN new, l \in DOMAIN ledger :
          l.edge = k.edge /\ l.start = k.start => l \in DOMAIN new
  BY <1>1, <1>3
<1> QED
  BY <1>3, <1>4, <1>6, <1>7, <1>8, <1>9 DEF RawOK

\* Deleting minutes keeps those that are young or not rolled up.
LEMMA MaintainMinute == ASSUME Inv, Maintain PROVE MinuteOK'
<1> DEFINE cutoff == MinuteCutoff(now, HourTo)
<1>1. PICK new : new = Since(NewMinutes, cutoff)
  OBVIOUS
<1>2. Table(new) /\ DOMAIN new = {k \in DOMAIN NewMinutes : k.start >= cutoff} /\ \A k \in DOMAIN new : new[k] = NewMinutes[k]
  BY <1>1, SinceIs, NewMinutesIs
<1>3. /\ minute' = new /\ ledger' = ledger /\ cursor'.minute = MinuteCursor(now) /\ cursor'.hour = HourTo
      /\ latest' = latest /\ edges \subseteq edges'
  BY <1>1, MaintainIs
<1>4. cutoff \in Int /\ cutoff <= HourTo /\ cutoff <= latest - MinuteRetention
  BY HourSpan, Kinds DEF MinuteCutoff, Smaller
<1> HIDE DEF cutoff
<1>5. Started'
  BY <1>3, MinuteSpan, TiersAssumption DEF Started
<1>6. ASSUME NEW k \in DOMAIN new
      PROVE  /\ k \in [edge : edges', start : Nat]
             /\ k.start % Minute = 0 /\ k.start < MinuteCursor(now)
             /\ new[k] = Carries(ledger, k.edge, k.start, k.start + Minute)
  <2>1. k \in DOMAIN NewMinutes /\ new[k] = NewMinutes[k]
    BY <1>2
  <2>2. /\ k \in [edge : edges, start : Nat] /\ k.start % Minute = 0 /\ k.start < MinuteCursor(now)
        /\ NewMinutes[k] = Carries(ledger, k.edge, k.start, k.start + Minute)
    BY <2>1, NewMinutesIs
  <2>3. k \in [edge : edges', start : Nat]
    BY <1>3, <2>2
  <2> QED
    BY <2>1, <2>2, <2>3
<1>7. MinutesHold(ledger, new, MinuteCursor(now), HourTo, latest - MinuteRetention)
  <2> SUFFICES ASSUME NEW k \in DOMAIN ledger, NEW m, m = Truncate(k.start, Minute), m < MinuteCursor(now),
                      m >= HourTo \/ m >= latest - MinuteRetention
               PROVE  [edge |-> k.edge, start |-> m] \in DOMAIN new
    BY DEF MinutesHold
  <2>1. m \in Int /\ latest - MinuteRetention \in Int
    BY Kinds
  <2>2. Started => m >= cursor.hour \/ m >= latest - MinuteRetention
    BY <2>1, HourSpan, Kinds
  <2>3. PICK l : l = [edge |-> k.edge, start |-> m]
    OBVIOUS
  <2>4. l \in DOMAIN NewMinutes /\ l.start = m
    BY <2>2, <2>3, NewMinutesIs
  <2>5. m >= cutoff
    BY <1>4, <2>1, HourSpan
  <2> QED
    BY <1>2, <2>3, <2>4, <2>5
<1> QED
  BY <1>2, <1>3, <1>5, <1>6, <1>7 DEF MinuteOK

\* Deleting hours keeps those that are young.
LEMMA MaintainHour == ASSUME Inv, Maintain PROVE HourOK'
<1> DEFINE both == Override(NewHours, hour)
           cutoff == now - HourRetention
<1>1. PICK new : new = Since(both, cutoff)
  OBVIOUS
<1>2. /\ DOMAIN both = DOMAIN NewHours \cup DOMAIN hour
      /\ \A k \in DOMAIN NewHours : both[k] = NewHours[k]
      /\ \A k \in DOMAIN hour \ DOMAIN NewHours : both[k] = hour[k]
      /\ both = [k \in DOMAIN NewHours \cup DOMAIN hour |-> both[k]]
  BY OverrideIs
<1>3. MapOK /\ Table(hour) /\ Table(ledger)
  BY Tables DEF Inv
<1>14. new = Since(Override(NewHours, hour), now - HourRetention)
  BY <1>1
<1> HIDE DEF both
<1>4. Table(both)
  <2>1. IsFiniteSet(DOMAIN hour)
    BY <1>3 DEF Table
  <2>2. IsFiniteSet(DOMAIN NewHours \cup DOMAIN hour)
    BY <2>1, RolledHoursIs, FS_Union
  <2>3. ASSUME NEW k \in DOMAIN both
        PROVE  both[k] \in Bytes
    <3>1. CASE k \in DOMAIN NewHours
      BY <1>2, <3>1, NewHourUpper
    <3>2. CASE k \notin DOMAIN NewHours
      BY <1>2, <3>2, HourRow
    <3> QED
      BY <3>1, <3>2
  <2> QED
    BY <1>2, <2>2, <2>3 DEF Table
<1>5. Table(new) /\ DOMAIN new = {k \in DOMAIN both : k.start >= cutoff} /\ \A k \in DOMAIN new : new[k] = both[k]
  BY <1>1, <1>4, SinceIs
<1>6. /\ hour' = new /\ ledger' = ledger /\ cursor'.minute = MinuteCursor(now) /\ cursor'.hour = HourTo
      /\ latest' = latest /\ redirects' = redirects
  BY <1>14, MaintainIs
<1>7. PICK E : E = edges'
  OBVIOUS
<1>8. edges \subseteq E /\ IsFiniteSet(E) /\ IsFiniteSet(edges) /\ \A k \in DOMAIN NewHours : k.edge \in E
  BY <1>3, <1>7, MaintainMap DEF MapOK
<1>9. cutoff \in Int /\ cutoff <= latest - HourRetention /\ latest - HourRetention \in Int
  BY Kinds
<1> HIDE DEF cutoff
<1>10. Started'
  BY <1>6, MinuteSpan, TiersAssumption DEF Started
<1>11. ASSUME NEW k \in DOMAIN new
       PROVE  /\ k \in [edge : E, start : Int]
              /\ k.start % Hour = 0 /\ k.start < HourTo
              /\ ~IsLoop(redirects, k.edge) => HourAtMost(redirects, E, ledger, k.edge, k.start, new[k])
  <2>1. \A f : Carries(ledger, f, k.start, k.start + Hour) = Carries(ledger, f, k.start, k.start + Hour)
    OBVIOUS
  <2>2. CASE k \in DOMAIN NewHours
    <3>1. /\ k.start \in Int /\ k = [edge |-> k.edge, start |-> k.start] /\ k.edge \in E
          /\ k.start % Hour = 0 /\ k.start < HourUpto
      BY <1>8, <2>2, RolledHoursIs
    <3>2. k.start < HourTo
      BY <3>1, HourSpan
    <3>3. new[k] = NewHours[k]
      BY <1>2, <1>5, <2>2
    <3>4. NewHours[k] \in Bytes /\ HourAtMost(redirects, edges, ledger, k.edge, k.start, NewHours[k])
      BY <2>2, NewHourUpper
    <3>5. HourAtMost(redirects, E, ledger, k.edge, k.start, NewHours[k])
      BY <1>3, <1>8, <2>1, <3>1, <3>4, AtMostMore
    <3>6. k \in [edge : E, start : Int]
      BY <3>1
    <3> QED
      BY <3>1, <3>2, <3>3, <3>5, <3>6
  <2>3. CASE k \notin DOMAIN NewHours
    <3>1. k \in DOMAIN hour /\ new[k] = hour[k]
      BY <1>2, <1>5, <2>3
    <3>2. /\ k.edge \in edges /\ k.start \in Int /\ k = [edge |-> k.edge, start |-> k.start] /\ hour[k] \in Bytes
          /\ Started /\ k.start % Hour = 0 /\ k.start < cursor.hour
      BY <3>1, HourRow
    <3>3. k.start < HourTo
      BY <3>2, HourSpan, Kinds
    <3>4. ASSUME ~IsLoop(redirects, k.edge)
          PROVE  HourAtMost(redirects, E, ledger, k.edge, k.start, hour[k])
      <4>1. HourAtMost(redirects, edges, ledger, k.edge, k.start, hour[k])
        BY <3>1, <3>4 DEF Inv, HourOK, HoursWithin
      <4> QED
        BY <1>3, <1>8, <2>1, <3>2, <4>1, AtMostMore
    <3>5. k \in [edge : E, start : Int]
      BY <1>8, <3>2
    <3> QED
      BY <3>1, <3>2, <3>3, <3>4, <3>5
  <2> QED
    BY <2>2, <2>3
<1>12. HoursWithin(redirects, E, ledger, new)
  BY <1>11 DEF HoursWithin
<1>13. HoursHold(redirects, ledger, new, HourTo, latest - HourRetention)
  <2> SUFFICES ASSUME NEW k \in DOMAIN ledger, NEW h, h = Truncate(k.start, Hour), ~IsLoop(redirects, k.edge),
                      h < HourTo, h >= latest - HourRetention
               PROVE  \E l \in DOMAIN new :
                          /\ l.start = h
                          /\ HourAtLeast(redirects, ledger, k.edge, l.start, l.edge, new[l])
    BY DEF HoursHold
  <2>1. h \in Int /\ h >= cutoff
    BY <1>9, Kinds
  <2>2. CASE HourFrom <= h
    <3>1. h < HourUpto
      BY <2>1, <2>2, HourSpan
    <3>2. Started => cursor.hour <= h
      BY <2>2, HourSpan
    <3>3. PICK l \in DOMAIN NewHours :
             l.start = h /\ HourAtLeast(redirects, ledger, k.edge, l.start, l.edge, NewHours[l])
      BY <2>1, <3>1, <3>2, NewHourLower
    <3>4. l \in DOMAIN new /\ new[l] = NewHours[l]
      BY <1>2, <1>5, <2>1, <3>3
    <3> QED
      BY <3>3, <3>4
  <2>3. CASE ~(HourFrom <= h)
    <3>1. Started
      BY <2>1, <2>3, MinutesOfHour
    <3>2. h < cursor.hour
      BY <2>1, <2>3, <3>1, HourSpan
    <3>3. HoursHold(redirects, ledger, hour, cursor.hour, latest - HourRetention)
      BY <3>1 DEF Inv, HourOK
    <3>4. PICK l \in DOMAIN hour :
             l.start = h /\ HourAtLeast(redirects, ledger, k.edge, l.start, l.edge, hour[l])
      BY <3>2, <3>3 DEF HoursHold
    <3>5. l \notin DOMAIN NewHours
      BY <2>3, <3>4, RolledHoursIs
    <3>6. l \in DOMAIN new /\ new[l] = hour[l]
      BY <1>2, <1>5, <2>1, <3>4, <3>5
    <3> QED
      BY <3>4, <3>6
  <2> QED
    BY <2>2, <2>3
<1> QED
  BY <1>5, <1>6, <1>7, <1>10, <1>11, <1>12, <1>13 DEF HourOK

\* Maintenance keeps the invariant.
LEMMA MaintainInv == ASSUME Inv, Maintain PROVE Inv'
<1>1. Behind'
  BY MaintainStep DEF Inv
<1>2. UNCHANGED <<redirects, now, latest, ledger>> /\ cursor' = [minute |-> MinuteCursor(now), hour |-> HourTo]
  BY MaintainIs
<1>3. TimesOK'
  BY <1>2 DEF Inv, TimesOK
<1>4. CursorOK'
  BY <1>2, MinuteSpan, HourSpan, TiersAssumption DEF CursorOK, Started
<1>5. LedgerOK'
  BY <1>2, MaintainMap DEF Inv, LedgerOK
<1> QED
  BY <1>1, <1>3, <1>4, <1>5, MaintainMap, MaintainRaw, MaintainMinute, MaintainHour DEF Inv

\* Every step keeps the invariant.
LEMMA InvNext == ASSUME Inv, [Next]_vars PROVE Inv'
<1>1. CASE UNCHANGED vars
  <2>1. /\ UNCHANGED <<raw, minute, hour, cursor, edges, map, redirects, now, latest, ledger>>
    BY <1>1 DEF vars, tierVars, mapVars
  <2> QED
    BY <2>1 DEF Inv, Behind, ClockInv, RawInv, CursorInv, TimesOK, MapOK, CursorOK, LedgerOK, RawOK,
                MinuteOK, HourOK, Started
<1> QED
  BY <1>1, RecordInv, MergeInv, MaintainInv, TickInv DEF Next

\* Every raw row is the ledger's, and kept until its minute is rolled up and it is old;
\* every minute is what the ledger carried in it, and kept until its hour is rolled up
\* and it is old; every hour is at least what any one alias carried and at most what
\* all did, whatever was merged since (recordTraffic, rollupHistory, pruneHistory).
THEOREM TiersInv == Spec => []Inv
  BY InvInit, InvNext, PTL DEF Spec

\* The invariant implies the types.
LEMMA InvType == Inv => TypeOK
<1> SUFFICES ASSUME Inv
             PROVE  TypeOK
  OBVIOUS
<1>1. Table(raw) /\ Table(ledger) /\ Table(minute) /\ Table(hour)
  BY Tables
<1>2. DOMAIN raw \subseteq RawKeys /\ DOMAIN ledger \subseteq RawKeys
  BY DEF Inv, RawOK, LedgerOK
<1>3. cursor \in [minute : Int \cup {NoTime}, hour : Int \cup {NoTime}]
  BY DEF Inv, CursorOK
<1>4. edges \subseteq AllEdges /\ redirects \in [Nodes -> Nodes] /\ map = Mapped(redirects, edges)
  BY DEF Inv, MapOK
<1>5. DOMAIN map \subseteq edges /\ map \in [DOMAIN map -> [edge : AllEdges, reversed : BOOLEAN]]
  <2>1. MapOK
    BY DEF Inv
  <2>2. DOMAIN map \subseteq edges /\ \A e \in DOMAIN map : map[e] \in [edge : AllEdges, reversed : BOOLEAN]
    BY <2>1, MapIs
  <2>3. map = [e \in DOMAIN map |-> map[e]]
    BY <1>4 DEF Mapped
  <2> QED
    BY <2>2, <2>3
<1>6. now \in Times /\ latest \in Times
  BY DEF Inv, TimesOK
<1> QED
  BY <1>1, <1>2, <1>3, <1>4, <1>5, <1>6 DEF TypeOK, Table

\* Every table holds what its columns say, and every cursor and clock reading is
\* a time.
THEOREM TypeCorrect == Spec => []TypeOK
  BY TiersInv, InvType, PTL

-----------------------------------------------------------------------------
(* What an edge carried, as the properties tell it. *)

\* The properties' choice of an observer is the one the query makes.
LEMMA OneWayIs ==
  ASSUME Inv, NEW e \in AllEdges, NEW s, NEW near, NEW far, NEW field \in Fields,
         \/ near = e[1] /\ far = e[2]
         \/ near = e[2] /\ far = e[1]
  PROVE  CarriedOneWay(e, s, near, far, field) = Preferred(ledger, e, s, near, far, field)
<1> DEFINE Key(o) == [edge |-> e, start |-> s, observer |-> o]
           seen == {o \in Observers : Key(o) \in DOMAIN ledger}
           best == CHOOSE o \in seen : (o = near) \/ (near \notin seen /\ (far \in seen => o = far))
           rows == {k \in DOMAIN ledger : k.edge = e /\ k.start = s}
           By(o) == {k \in rows : k.observer = o}
           Col(S) == [k \in S |-> ledger[k][field]]
<1>1. near \in Nodes /\ far \in Nodes /\ near # far /\ near \in Nat \ {0} /\ far \in Nat \ {0}
  <2>1. e[1] \in Nodes /\ e[2] \in Nodes /\ e[1] \in Nat /\ e[2] \in Nat /\ e[1] < e[2]
    BY EdgeEnds
  <2> QED
    BY <2>1, NodesAssumption
<1>2. Table(ledger)
  BY Tables
<1>3. ASSUME NEW k \in rows
      PROVE  k.observer \in {near, far, 0} /\ k = Key(k.observer) /\ k.observer \in seen
  <2>1. k \in RawKeys /\ k.observer \in {e[1], e[2], 0} /\ k.edge = e /\ k.start = s /\ k \in DOMAIN ledger
    BY DEF Inv, LedgerOK
  <2>2. k = [edge |-> k.edge, start |-> k.start, observer |-> k.observer] /\ k.observer \in Observers
    BY <2>1 DEF RawKeys
  <2> QED
    BY <2>1, <2>2
<1>4. \A o \in seen : Key(o) \in rows /\ Key(o) \in DOMAIN ledger /\ Key(o).observer = o
  OBVIOUS
<1>5. \A o : By(o) = IF o \in seen THEN {Key(o)} ELSE {}
  <2> TAKE o
  <2>1. ASSUME NEW k \in By(o)
        PROVE  k = Key(o) /\ o \in seen
    <3>1. k \in rows /\ k.observer = o
      OBVIOUS
    <3> QED
      BY <1>3, <3>1
  <2>2. o \in seen => Key(o) \in By(o)
    BY <1>4
  <2> HIDE DEF By, seen, Key
  <2> QED
    BY <2>1, <2>2
<1>6. ASSUME NEW o \in seen
      PROVE  SumFunction(Col({Key(o)})) = ledger[Key(o)][field]
  <2>1. Key(o) \in DOMAIN ledger
    OBVIOUS
  <2>2. ledger[Key(o)][field] \in Nat
    BY <1>2, <2>1 DEF Table, Bytes, Fields
  <2> QED
    BY <2>2, SumOfOne
<1>7. CarriedOneWay(e, s, near, far, field) = IF seen = {} THEN 0 ELSE ledger[Key(best)][field]
  BY DEF CarriedOneWay
<1>8. Preferred(ledger, e, s, near, far, field) =
          IF By(near) # {} THEN SumFunction(Col(By(near)))
          ELSE IF By(far) # {} THEN SumFunction(Col(By(far)))
          ELSE Greatest(Col(rows))
  BY DEF Preferred
<1>9. \A o \in seen : o \in {near, far, 0}
  <2>1. ASSUME NEW o \in seen
        PROVE  o \in {near, far, 0}
    <3>1. Key(o) \in rows /\ Key(o).observer = o
      BY <1>4
    <3> QED
      BY <1>3, <3>1
  <2> QED
    BY <2>1
<1>10. \A S : S \subseteq rows => Counts(Col(S)) /\ DOMAIN Col(S) = S /\ \A k \in S : Col(S)[k] = ledger[k][field]
  <2>1. \A S : S \subseteq rows => S \in SUBSET DOMAIN ledger
    OBVIOUS
  <2> QED
    BY <1>2, <2>1, BucketColumn
<1>11. ASSUME NEW o \in seen
       PROVE  By(o) # {} /\ SumFunction(Col(By(o))) = ledger[Key(o)][field]
  <2>1. By(o) = {Key(o)}
    BY <1>5
  <2> HIDE DEF By, Col, Key, seen
  <2> QED
    BY <1>6, <2>1
<1>12. \A o : o \notin seen => By(o) = {}
  BY <1>5
<1>13. ASSUME seen = {}
       PROVE  rows = {} /\ Greatest(Col(rows)) = 0
  <2>1. rows = {}
    BY <1>3, <1>13
  <2>2. Counts(Col(rows)) /\ DOMAIN Col(rows) = {}
    BY <1>10, <2>1
  <2> HIDE DEF Col, rows
  <2> QED
    BY <2>1, <2>2, GreatestIs
<1>14. ASSUME seen = {0}
       PROVE  Greatest(Col(rows)) = ledger[Key(0)][field]
  <2>1. rows = {Key(0)}
    <3>1. Key(0) \in rows
      BY <1>4, <1>14
    <3>2. \A k \in rows : k = Key(k.observer) /\ k.observer \in {0}
      BY <1>3, <1>14
    <3>3. \A k \in rows : k = Key(0)
      BY <3>2
    <3> QED
      BY <3>1, <3>3
  <2>2. Counts(Col(rows)) /\ DOMAIN Col(rows) = {Key(0)} /\ Col(rows)[Key(0)] = ledger[Key(0)][field]
    BY <1>10, <2>1
  <2>3. Col(rows)[Key(0)] \in Nat
    BY <2>2 DEF Counts
  <2> HIDE DEF Col, rows, Key, seen
  <2>4. /\ Greatest(Col(rows)) \in Nat /\ Col(rows)[Key(0)] <= Greatest(Col(rows))
        /\ Greatest(Col(rows)) = 0 \/ Greatest(Col(rows)) = Col(rows)[Key(0)]
    BY <2>2, GreatestIs
  <2> QED
    BY <2>2, <2>3, <2>4
<1>15. best = CHOOSE o \in seen : (o = near) \/ (near \notin seen /\ (far \in seen => o = far))
  OBVIOUS
<1> HIDE DEF best, rows, By, Col, Key, seen
<1>16. CASE near \in seen
  <2>1. best = near
    BY <1>15, <1>16
  <2> QED
    BY <1>7, <1>8, <1>11, <1>16, <2>1
<1>17. CASE near \notin seen /\ far \in seen
  <2>1. best = far
    BY <1>15, <1>17
  <2> QED
    BY <1>7, <1>8, <1>11, <1>12, <1>17, <2>1
<1>18. CASE near \notin seen /\ far \notin seen /\ seen # {}
  <2>1. seen = {0}
    BY <1>9, <1>18
  <2>2. best = 0
    BY <1>15, <1>18, <2>1
  <2> QED
    BY <1>7, <1>8, <1>12, <1>14, <1>18, <2>1, <2>2
<1>19. CASE seen = {}
  BY <1>7, <1>8, <1>12, <1>13, <1>19
<1> QED
  BY <1>16, <1>17, <1>18, <1>19

\* What the properties say an edge carried is what the ledger carried, oriented.
LEMMA CarriedIs ==
  ASSUME Inv, NEW e \in AllEdges, NEW from \in Int, NEW to \in Int
  PROVE  Carried(e, from, to) = Facing(redirects, e, Carries(ledger, e, from, to))
<1> DEFINE starts == {s \in StartsOf(ledger) : from <= s /\ s < to}
           told == [s \in starts |-> [ab |-> CarriedOneWay(e, s, e[1], e[2], "ab"),
                                       ba |-> CarriedOneWay(e, s, e[2], e[1], "ba")]]
           all == [s \in from .. to - 1 |-> RawBytes(ledger, e, s)]
<1>1. Table(ledger)
  BY Tables
<1>2. \A s \in StartsOf(ledger) : s \in Int
  BY Kinds DEF StartsOf
<1>3. starts \in SUBSET (from .. to - 1)
  BY <1>2
<1>4. \A s \in starts : told[s] = RawBytes(ledger, e, s)
  BY OneWayIs DEF RawBytes, Fields
<1>5. told = Restrict(all, starts)
  BY <1>3, <1>4 DEF Restrict
<1>6. Table(all)
  BY <1>1, CarriesTable
<1>7. \A s \in DOMAIN all \ starts : all[s] = Zero
  <2> SUFFICES ASSUME NEW s \in from .. to - 1, s \notin starts
               PROVE  RawBytes(ledger, e, s) = Zero
    OBVIOUS
  <2>1. Bucket(ledger, e, s) = {}
    BY DEF Bucket, StartsOf
  <2> QED
    BY <2>1, RawBytesNone
<1>8. DOMAIN all = from .. to - 1
  OBVIOUS
<1>9. SumOf(all) = Carries(ledger, e, from, to)
  BY DEF Carries
<1>10. Carried(e, from, to) = IF redirects[e[1]] < redirects[e[2]] THEN SumOf(told) ELSE Swap(SumOf(told))
  BY DEF Carried
<1> HIDE DEF told, all, starts
<1>11. SumOf(told) = SumOf(all)
  BY <1>3, <1>5, <1>6, <1>7, <1>8, TotalOfSupport
<1> QED
  BY <1>9, <1>10, <1>11 DEF Facing

-----------------------------------------------------------------------------
(* What the tiers answer: both queries add up, over the starts that are held, *)
(* the largest of what the aliases say in the tier that answers for the time. *)

Tiers == {"hour", "minute", "raw"}

TierAt(hourTo, minuteTo, s) == IF s < hourTo THEN "hour" ELSE IF s < minuteTo THEN "minute" ELSE "raw"

Told(L, tier, s) == [f \in Aliases(L) |-> Facing(redirects, f, TierBytes(tier, f, s))]

HeldIn(from, to) == {s \in HeldStarts : from <= s /\ s < to}

Rows(L, from, hourTo, minuteTo, to) ==
    [s \in HeldIn(from, to) |-> MaxOf(Told(L, TierAt(hourTo, minuteTo, s), s))]

\* Finitely many starts are held.
LEMMA HeldFinite ==
  ASSUME Inv
  PROVE  IsFiniteSet(HeldStarts) /\ HeldStarts \subseteq Int
<1>1. \A t : IsFiniteSet(DOMAIN t) => IsFiniteSet(StartsOf(t))
  <2> SUFFICES ASSUME NEW t, IsFiniteSet(DOMAIN t)
               PROVE  IsFiniteSet(StartsOf(t))
    OBVIOUS
  <2> DEFINE start == [k \in DOMAIN t |-> k.start]
  <2>1. IsFiniteSet({start[k] : k \in DOMAIN start})
    BY ImageFinite
  <2>2. StartsOf(t) = {start[k] : k \in DOMAIN start}
    BY DEF StartsOf
  <2> QED
    BY <2>1, <2>2
<1>2. IsFiniteSet(StartsOf(raw)) /\ IsFiniteSet(StartsOf(minute)) /\ IsFiniteSet(StartsOf(hour))
  BY <1>1, Tables DEF Table
<1>3. \A k \in DOMAIN raw : k.start \in Int
  BY Kinds DEF Inv, RawOK
<1>4. \A k \in DOMAIN minute : k.start \in Int
  BY MinuteRow
<1>5. \A k \in DOMAIN hour : k.start \in Int
  BY HourRow
<1>6. IsFiniteSet(StartsOf(raw) \cup StartsOf(minute))
  BY <1>2, FS_Union
<1>7. IsFiniteSet(HeldStarts)
  BY <1>2, <1>6, FS_Union DEF HeldStarts
<1> QED
  BY <1>3, <1>4, <1>5, <1>7 DEF HeldStarts, StartsOf

\* What each tier holds for an edge at a start.
LEMMA TierBytesIs ==
  ASSUME Inv, NEW f, NEW s
  PROVE  LET key == [edge |-> f, start |-> s]
         IN  /\ TierBytes("raw", f, s) = RawBytes(raw, f, s)
             /\ TierBytes("minute", f, s) = IF key \in DOMAIN minute THEN minute[key] ELSE Zero
             /\ TierBytes("hour", f, s) = IF key \in DOMAIN hour THEN hour[key] ELSE Zero
             /\ \A tier \in Tiers : TierBytes(tier, f, s) \in Bytes
<1> DEFINE key == [edge |-> f, start |-> s]
<1>1. TierBytes("raw", f, s) = RawBytes(raw, f, s)
  BY DEF TierBytes
<1>2. TierBytes("minute", f, s) = IF key \in DOMAIN minute THEN minute[key] ELSE Zero
  BY DEF TierBytes
<1>3. TierBytes("hour", f, s) = IF key \in DOMAIN hour THEN hour[key] ELSE Zero
  BY DEF TierBytes
<1>4. Zero \in Bytes
  BY DEF Zero, Bytes
<1>5. TierBytes("raw", f, s) \in Bytes
  BY <1>1, Tables, RawBytesType
<1>6. TierBytes("minute", f, s) \in Bytes
  BY <1>2, <1>4, Tables DEF Table
<1>7. TierBytes("hour", f, s) \in Bytes
  BY <1>3, <1>4, Tables DEF Table
<1> QED
  BY <1>1, <1>2, <1>3, <1>5, <1>6, <1>7 DEF Tiers

\* What the aliases say in a tier are byte counts.
LEMMA ToldTable ==
  ASSUME Inv, NEW L \in Logical, NEW tier \in Tiers, NEW s
  PROVE  /\ Table(Told(L, tier, s)) /\ DOMAIN Told(L, tier, s) = Aliases(L)
         /\ \A f \in Aliases(L) : Told(L, tier, s)[f] = Facing(redirects, f, TierBytes(tier, f, s))
         /\ Told(L, tier, s) = [f \in Aliases(L) |-> Oriented(f, TierBytes(tier, f, s))]
<1>1. IsFiniteSet(Aliases(L)) /\ Aliases(L) \subseteq DOMAIN map
  BY LogicalAliases, MapIs DEF Inv
<1>2. \A f \in Aliases(L) : TierBytes(tier, f, s) \in Bytes
  BY TierBytesIs
<1>3. \A f \in Aliases(L) : Facing(redirects, f, TierBytes(tier, f, s)) \in Bytes
  BY <1>2, FacingType
<1>4. \A f \in Aliases(L) : Oriented(f, TierBytes(tier, f, s)) = Facing(redirects, f, TierBytes(tier, f, s))
  BY <1>1, MapIs DEF Inv
<1> QED
  BY <1>1, <1>3, <1>4 DEF Told, Table

\* What the rows of a window say are byte counts.
LEMMA RowsTable ==
  ASSUME Inv, NEW L \in Logical, NEW from, NEW hourTo, NEW minuteTo, NEW to
  PROVE  /\ Table(Rows(L, from, hourTo, minuteTo, to))
         /\ DOMAIN Rows(L, from, hourTo, minuteTo, to) = HeldIn(from, to)
         /\ \A s \in HeldIn(from, to) :
                Rows(L, from, hourTo, minuteTo, to)[s] = MaxOf(Told(L, TierAt(hourTo, minuteTo, s), s))
<1>1. IsFiniteSet(HeldIn(from, to))
  BY HeldFinite, FS_Subset DEF HeldIn
<1>2. ASSUME NEW s \in HeldIn(from, to)
      PROVE  MaxOf(Told(L, TierAt(hourTo, minuteTo, s), s)) \in Bytes
  <2>1. TierAt(hourTo, minuteTo, s) \in Tiers
    BY DEF TierAt, Tiers
  <2>2. Table(Told(L, TierAt(hourTo, minuteTo, s), s))
    BY <2>1, ToldTable
  <2> QED
    BY <2>2, MaxOfIs
<1> QED
  BY <1>1, <1>2 DEF Rows, Table

\* The segments tile the window, each in the tier of its time.
Tiling(segments, from, hourTo, minuteTo, to) ==
    /\ IsFiniteSet(segments)
    /\ \A g \in segments : g.from \in Int /\ g.to \in Int /\ from <= g.from /\ g.to <= to
    /\ \A g \in segments : \A s \in Int :
           g.from <= s /\ s < g.to => g.tier = TierAt(hourTo, minuteTo, s)
    /\ \A s \in Int : from <= s /\ s < to => \E g \in segments : g.from <= s /\ s < g.to
    /\ \A g, h \in segments : \A s \in Int :
           g.from <= s /\ s < g.to /\ h.from <= s /\ s < h.to => g = h

\* Segments whose ends are in order tile the window.
LEMMA SegmentsTile ==
  ASSUME NEW from \in Int, NEW hourTo \in Int, NEW minuteTo \in Int, NEW to \in Int,
         from <= hourTo, hourTo <= minuteTo, minuteTo <= to
  PROVE  Tiling(Segments(from, hourTo, minuteTo, to), from, hourTo, minuteTo, to)
<1> DEFINE segments == Segments(from, hourTo, minuteTo, to)
           h1 == [tier |-> "hour", from |-> from, to |-> hourTo]
           m1 == [tier |-> "minute", from |-> hourTo, to |-> minuteTo]
           r1 == [tier |-> "raw", from |-> minuteTo, to |-> to]
<1>1. segments = {s \in {h1, m1, r1} : s.from < s.to}
  BY DEF Segments
<1>2. IsFiniteSet({h1, m1, r1})
  <2>1. IsFiniteSet({h1}) /\ IsFiniteSet({m1}) /\ IsFiniteSet({r1})
    BY FS_Singleton
  <2>2. IsFiniteSet({h1} \cup {m1})
    BY <2>1, FS_Union
  <2>3. IsFiniteSet(({h1} \cup {m1}) \cup {r1})
    BY <2>1, <2>2, FS_Union
  <2>4. ({h1} \cup {m1}) \cup {r1} = {h1, m1, r1}
    OBVIOUS
  <2> QED
    BY <2>3, <2>4
<1>3. IsFiniteSet(segments)
  BY <1>1, <1>2, FS_Subset
<1>4. /\ h1.tier = "hour" /\ h1.from = from /\ h1.to = hourTo
      /\ m1.tier = "minute" /\ m1.from = hourTo /\ m1.to = minuteTo
      /\ r1.tier = "raw" /\ r1.from = minuteTo /\ r1.to = to
  OBVIOUS
<1> HIDE DEF segments, h1, m1, r1
<1>5. \A g \in segments : g \in {h1, m1, r1} /\ g.from < g.to
  BY <1>1
<1>6. \A g \in segments : g.from \in Int /\ g.to \in Int /\ from <= g.from /\ g.to <= to
  BY <1>4, <1>5
<1>7. \A g \in segments : \A s \in Int : g.from <= s /\ s < g.to => g.tier = TierAt(hourTo, minuteTo, s)
  BY <1>4, <1>5 DEF TierAt
<1>8. ASSUME NEW s \in Int, from <= s, s < to
      PROVE  \E g \in segments : g.from <= s /\ s < g.to
  <2>1. CASE s < hourTo
    <3>1. h1 \in segments
      BY <1>1, <1>4, <1>8, <2>1
    <3> QED
      BY <1>4, <1>8, <2>1, <3>1
  <2>2. CASE hourTo <= s /\ s < minuteTo
    <3>1. m1 \in segments
      BY <1>1, <1>4, <1>8, <2>2
    <3> QED
      BY <1>4, <1>8, <2>2, <3>1
  <2>3. CASE minuteTo <= s
    <3>1. r1 \in segments
      BY <1>1, <1>4, <1>8, <2>3
    <3> QED
      BY <1>4, <1>8, <2>3, <3>1
  <2> QED
    BY <2>1, <2>2, <2>3
<1>9. \A g, h \in segments : \A s \in Int :
          g.from <= s /\ s < g.to /\ h.from <= s /\ s < h.to => g = h
  BY <1>4, <1>5
<1> QED
  BY <1>3, <1>6, <1>7, <1>8, <1>9 DEF Tiling, segments

\* The detail's largest over aliases and tiers is over the aliases in one tier.
LEMMA DetailIsRows ==
  ASSUME Inv, NEW L \in Logical, NEW window \in Int,
         NEW hourTo \in Int, NEW minuteTo \in Int, now - window <= hourTo, hourTo <= minuteTo, minuteTo <= now,
         DetailSegments(window, now) = Segments(now - window, hourTo, minuteTo, now)
  PROVE  DetailBytes(L, window, now) = SumOf(Rows(L, now - window, hourTo, minuteTo, now))
<1> DEFINE segments == Segments(now - window, hourTo, minuteTo, now)
           At(s) == {r \in segments \X Aliases(L) : r[1].from <= s /\ s < r[1].to}
           Each(s) == [r \in At(s) |-> Oriented(r[2], TierBytes(r[1].tier, r[2], s))]
           tier(s) == TierAt(hourTo, minuteTo, s)
<1>1. now \in Int /\ now - window \in Int
  BY Kinds
<1> HIDE DEF segments
<1>0. Tiling(segments, now - window, hourTo, minuteTo, now)
  BY <1>1, SegmentsTile DEF segments
<1>2. /\ IsFiniteSet(segments)
      /\ \A g \in segments : \A s \in Int : g.from <= s /\ s < g.to => g.tier = tier(s)
      /\ \A s \in Int : now - window <= s /\ s < now => \E g \in segments : g.from <= s /\ s < g.to
  BY <1>0 DEF Tiling
<1>3. ASSUME NEW s \in HeldIn(now - window, now)
      PROVE  MaxOf(Each(s)) = MaxOf(Told(L, tier(s), s))
  <2>1. s \in Int /\ now - window <= s /\ s < now
    BY HeldFinite DEF HeldIn
  <2>2. tier(s) \in Tiers
    BY DEF TierAt, Tiers
  <2>3. /\ Table(Told(L, tier(s), s)) /\ DOMAIN Told(L, tier(s), s) = Aliases(L)
        /\ \A f \in Aliases(L) : Told(L, tier(s), s)[f] = Oriented(f, TierBytes(tier(s), f, s))
    <3>1. Table(Told(L, tier(s), s)) /\ Told(L, tier(s), s) = [f \in Aliases(L) |-> Oriented(f, TierBytes(tier(s), f, s))]
      BY <2>2, ToldTable
    <3> HIDE DEF tier
    <3> QED
      BY <3>1
  <2>4. IsFiniteSet(Aliases(L))
    BY LogicalAliases DEF Inv
  <2>5. IsFiniteSet(segments \X Aliases(L))
    BY <1>2, <2>4, FS_Product
  <2>6. IsFiniteSet(At(s))
    BY <2>5, FS_Subset
  <2>7. \A r \in At(s) : r[1] \in segments /\ r[2] \in Aliases(L) /\ r[1].tier = tier(s)
    BY <1>2, <2>1
  <2>8. \A r \in At(s) : Each(s)[r] = Told(L, tier(s), s)[r[2]] /\ r[2] \in Aliases(L)
    BY <2>3, <2>7
  <2>9. PICK g \in segments : g.from <= s /\ s < g.to
    BY <1>2, <2>1
  <2>10. \A f \in Aliases(L) : <<g, f>> \in At(s) /\ <<g, f>>[2] = f
    BY <2>9
  <2>11. Table(Each(s)) /\ DOMAIN Each(s) = At(s)
    <3>1. \A r \in At(s) : Each(s)[r] \in Bytes
      BY <2>3, <2>8 DEF Table
    <3>2. Each(s) \in [At(s) -> Bytes]
      BY <3>1
    <3> QED
      BY <2>6, <3>2 DEF Table
  <2> DEFINE told == Told(L, tier(s), s)
             each == Each(s)
             at == At(s)
  <2> HIDE DEF Each, At, tier, segments, told, each
  <2>12. Table(told) /\ Table(each) /\ DOMAIN told = Aliases(L) /\ DOMAIN each = at
    BY <2>3, <2>11 DEF told, each
  <2>13. \A r \in at : each[r] = told[r[2]] /\ r[2] \in Aliases(L)
    BY <2>8 DEF told, each
  <2>14. \A f \in Aliases(L) : \E r \in at : each[r] = told[f]
    BY <2>10, <2>13
  <2> HIDE DEF at
  <2>15. AtMost(MaxOf(each), MaxOf(told))
    <3>1. \A r \in at : AtMost(each[r], MaxOf(told))
      BY <2>12, <2>13, MaxOfIs
    <3> QED
      BY <2>12, <3>1, MaxOfIs
  <2>16. AtMost(MaxOf(told), MaxOf(each))
    <3>1. \A f \in Aliases(L) : AtMost(told[f], MaxOf(each))
      BY <2>12, <2>14, MaxOfIs
    <3> QED
      BY <2>12, <3>1, MaxOfIs
  <2>17. MaxOf(each) \in Bytes /\ MaxOf(told) \in Bytes
    BY <2>12, MaxOfIs
  <2>18. MaxOf(each) = MaxOf(told)
    BY <2>15, <2>16, <2>17, BytesEqual DEF AtMost, Bytes
  <2> QED
    BY <2>18 DEF told, each
<1>4. DetailBytes(L, window, now) = SumOf([s \in HeldIn(now - window, now) |-> MaxOf(Each(s))])
  BY DEF DetailBytes, HeldIn, segments
<1> HIDE DEF Each
<1>5. [s \in HeldIn(now - window, now) |-> MaxOf(Each(s))] = Rows(L, now - window, hourTo, minuteTo, now)
  BY <1>3 DEF Rows
<1> QED
  BY <1>4, <1>5

\* The list's total by segments is the total over the starts.
LEMMA SummaryIsRows ==
  ASSUME Inv, NEW L \in Logical, NEW window \in Int,
         NEW hourTo \in Int, NEW minuteTo \in Int, now - window <= hourTo, hourTo <= minuteTo, minuteTo <= now,
         SummarySegments(window, now) = Segments(now - window, hourTo, minuteTo, now)
  PROVE  SummaryBytes(L, window, now) = SumOf(Rows(L, now - window, hourTo, minuteTo, now))
<1> DEFINE segments == Segments(now - window, hourTo, minuteTo, now)
           rows == Rows(L, now - window, hourTo, minuteTo, now)
           held == HeldIn(now - window, now)
           Of(g) == {s \in HeldStarts : g.from <= s /\ s < g.to}
           In(g) == [s \in Of(g) |-> MaxOf([e \in Aliases(L) |-> Oriented(e, TierBytes(g.tier, e, s))])]
           g1 == [s \in held |-> CHOOSE g \in segments : g.from <= s /\ s < g.to]
<1>1. now \in Int /\ now - window \in Int
  BY Kinds
<1> HIDE DEF segments
<1>0. Tiling(segments, now - window, hourTo, minuteTo, now)
  BY <1>1, SegmentsTile DEF segments
<1>2. /\ IsFiniteSet(segments)
      /\ \A g \in segments : g.from \in Int /\ g.to \in Int /\ now - window <= g.from /\ g.to <= now
      /\ \A g \in segments : \A s \in Int : g.from <= s /\ s < g.to => g.tier = TierAt(hourTo, minuteTo, s)
      /\ \A s \in Int : now - window <= s /\ s < now => \E g \in segments : g.from <= s /\ s < g.to
      /\ \A g, h \in segments : \A s \in Int : g.from <= s /\ s < g.to /\ h.from <= s /\ s < h.to => g = h
  BY <1>0 DEF Tiling
<1>3. HeldStarts \subseteq Int /\ \A s \in held : s \in Int /\ now - window <= s /\ s < now
  BY HeldFinite DEF HeldIn
<1>4. /\ Table(rows) /\ DOMAIN rows = held
      /\ \A s \in held : rows[s] = MaxOf(Told(L, TierAt(hourTo, minuteTo, s), s))
  BY RowsTable
<1>5. SummaryBytes(L, window, now) = SumOf([g \in segments |-> SumOf(In(g))])
  BY DEF SummaryBytes, segments
<1>6. \A s \in held : g1[s] \in segments /\ g1[s].from <= s /\ s < g1[s].to
  BY <1>2, <1>3
<1>7. g1 \in [DOMAIN rows -> segments]
  BY <1>4, <1>6
<1>8. ASSUME NEW g \in segments
      PROVE  In(g) = Under(rows, g1, g)
  <2>1. Of(g) = {s \in held : g1[s] = g}
    <3>1. \A s \in Of(g) : s \in held
      BY <1>1, <1>2, <1>3 DEF HeldIn
    <3>2. \A s \in Of(g) : g1[s] = g
      BY <1>2, <1>3, <1>6, <3>1
    <3>3. \A s \in held : g1[s] = g => s \in Of(g)
      BY <1>6 DEF HeldIn
    <3> QED
      BY <3>1, <3>2, <3>3
  <2>2. ASSUME NEW s \in Of(g)
        PROVE  MaxOf([e \in Aliases(L) |-> Oriented(e, TierBytes(g.tier, e, s))]) = rows[s]
    <3>1. s \in held /\ s \in Int /\ g.tier = TierAt(hourTo, minuteTo, s)
      BY <1>2, <1>3, <2>1
    <3>2. g.tier \in Tiers
      BY <3>1 DEF TierAt, Tiers
    <3>3. Told(L, g.tier, s) = [e \in Aliases(L) |-> Oriented(e, TierBytes(g.tier, e, s))]
      BY <3>2, ToldTable
    <3> QED
      BY <1>4, <3>1, <3>3
  <2>3. Under(rows, g1, g) = [s \in {y \in held : g1[y] = g} |-> rows[s]]
    BY <1>4 DEF Under, Restrict
  <2> HIDE DEF rows, g1, held, Of
  <2> QED
    BY <2>1, <2>2, <2>3
<1> HIDE DEF rows, g1, held, In
<1>9. SumOf(rows) = SumOf([g \in segments |-> SumOf(Under(rows, g1, g))])
  BY <1>2, <1>4, <1>7, TotalByGroups
<1>10. [g \in segments |-> SumOf(In(g))] = [g \in segments |-> SumOf(Under(rows, g1, g))]
  BY <1>8
<1> QED
  BY <1>5, <1>9, <1>10 DEF rows

-----------------------------------------------------------------------------
(* What the rows of a window tell, at least. *)

\* The largest is no less than what any one alias says.
LEMMA ToldAtLeast ==
  ASSUME Inv, NEW L \in Logical, NEW tier \in Tiers, NEW s, NEW f \in Aliases(L)
  PROVE  /\ MaxOf(Told(L, tier, s)) \in Bytes
         /\ AtMost(Facing(redirects, f, TierBytes(tier, f, s)), MaxOf(Told(L, tier, s)))
<1> DEFINE told == Told(L, tier, s)
<1>1. Table(told) /\ DOMAIN told = Aliases(L) /\ told[f] = Facing(redirects, f, TierBytes(tier, f, s))
  BY ToldTable
<1> HIDE DEF told
<1>2. MaxOf(told) \in Bytes /\ AtMost(told[f], MaxOf(told))
  BY <1>1, MaxOfIs
<1> QED
  BY <1>1, <1>2 DEF told

\* The aliases of a logical edge.
LEMMA AliasIs ==
  ASSUME Inv, NEW L \in Logical, NEW e \in Aliases(L)
  PROVE  /\ e \in AllEdges /\ e \in edges /\ ~IsLoop(redirects, e)
         /\ \A f \in edges : ~IsLoop(redirects, f) /\ LogicalUnder(redirects, f) = LogicalUnder(redirects, e)
                                 => f \in Aliases(L)
<1>1. e \in DOMAIN map /\ map[e].edge = L
  BY DEF Aliases
<1>2. e \in AllEdges /\ e \in edges /\ ~IsLoop(redirects, e) /\ Aliases(L) = AliasesUnder(redirects, edges, e)
  BY <1>1, MapIs DEF Inv
<1> QED
  BY <1>2 DEF AliasesUnder

\* An hour that is rolled up and not old tells what an alias carried in it.
LEMMA HourTells ==
  ASSUME Inv, now = latest, NEW L \in Logical, NEW e \in Aliases(L), NEW k \in DOMAIN ledger,
         k.edge = e, NEW h \in Int, h = Truncate(k.start, Hour), Started, h < cursor.hour,
         h >= latest - HourRetention
  PROVE  /\ h \in HeldStarts
         /\ AtMost(Facing(redirects, e, Carries(ledger, e, h, h + Hour)), MaxOf(Told(L, "hour", h)))
<1>1. HoursHold(redirects, ledger, hour, cursor.hour, latest - HourRetention)
  BY DEF Inv, HourOK
<1>2. ~IsLoop(redirects, e) /\ e \in AllEdges
  BY AliasIs
<1>3. PICK l \in DOMAIN hour : /\ l.start = h
                               /\ HourAtLeast(redirects, ledger, e, h, l.edge, hour[l])
  BY <1>1, <1>2 DEF HoursHold
<1>4. /\ ~IsLoop(redirects, l.edge) /\ LogicalUnder(redirects, l.edge) = LogicalUnder(redirects, e)
      /\ AtMost(Facing(redirects, e, Carries(ledger, e, h, h + Hour)), Facing(redirects, l.edge, hour[l]))
  BY <1>3 DEF HourAtLeast
<1>5. l.edge \in edges /\ l = [edge |-> l.edge, start |-> h] /\ hour[l] \in Bytes
  BY <1>3, HourRow
<1>6. l.edge \in Aliases(L)
  BY <1>4, <1>5, AliasIs
<1>7. TierBytes("hour", l.edge, h) = hour[l]
  BY <1>5, TierBytesIs
<1>8. /\ MaxOf(Told(L, "hour", h)) \in Bytes
      /\ AtMost(Facing(redirects, l.edge, hour[l]), MaxOf(Told(L, "hour", h)))
  BY <1>6, <1>7, ToldAtLeast DEF Tiers
<1>9. Facing(redirects, l.edge, hour[l]) \in Bytes
  BY <1>5, FacingType
<1>10. Facing(redirects, e, Carries(ledger, e, h, h + Hour)) \in Bytes
  <2>1. Carries(ledger, e, h, h + Hour) \in Bytes
    <3>1. Table(ledger) /\ h \in Int /\ h + Hour \in Int
      BY Tables, TiersAssumption
    <3> QED
      BY <3>1, CarriesTable
  <2> QED
    BY <2>1, FacingType
<1>11. AtMost(Facing(redirects, e, Carries(ledger, e, h, h + Hour)), MaxOf(Told(L, "hour", h)))
  <2> DEFINE b == Facing(redirects, e, Carries(ledger, e, h, h + Hour))
             c == Facing(redirects, l.edge, hour[l])
             d == MaxOf(Told(L, "hour", h))
  <2>1. b \in Bytes /\ c \in Bytes /\ d \in Bytes /\ AtMost(b, c) /\ AtMost(c, d)
    BY <1>4, <1>8, <1>9, <1>10
  <2> HIDE DEF b, c, d
  <2>2. AtMost(b, d)
    BY <2>1, BytesOrder
  <2> QED
    BY <2>2 DEF b, d
<1>12. h \in HeldStarts
  BY <1>3 DEF HeldStarts, StartsOf
<1> QED
  BY <1>11, <1>12

\* A minute that is rolled up and kept tells what an alias carried in it.
LEMMA MinuteTells ==
  ASSUME Inv, now = latest, NEW L \in Logical, NEW e \in Aliases(L), NEW k \in DOMAIN ledger,
         k.edge = e, NEW m \in Int, m = Truncate(k.start, Minute), Started, m < cursor.minute,
         m >= cursor.hour \/ m >= latest - MinuteRetention
  PROVE  /\ m \in HeldStarts
         /\ AtMost(Facing(redirects, e, Carries(ledger, e, m, m + Minute)), MaxOf(Told(L, "minute", m)))
<1> DEFINE key == [edge |-> e, start |-> m]
<1>1. MinutesHold(ledger, minute, cursor.minute, cursor.hour, latest - MinuteRetention)
  BY DEF Inv, MinuteOK
<1>2. key \in DOMAIN minute
  BY <1>1 DEF MinutesHold
<1>3. minute[key] = Carries(ledger, e, m, m + Minute)
  <2>1. minute[key] = Carries(ledger, key.edge, key.start, key.start + Minute)
    BY <1>2, MinuteRow
  <2>2. key.edge = e /\ key.start = m
    OBVIOUS
  <2> HIDE DEF key
  <2> QED
    BY <2>1, <2>2
<1>4. TierBytes("minute", e, m) = minute[key]
  BY <1>2, TierBytesIs
<1>5. AtMost(Facing(redirects, e, TierBytes("minute", e, m)), MaxOf(Told(L, "minute", m)))
  BY ToldAtLeast DEF Tiers
<1>6. m \in HeldStarts
  <2>1. key.start = m
    OBVIOUS
  <2> QED
    BY <1>2, <2>1 DEF HeldStarts, StartsOf
<1> QED
  BY <1>3, <1>4, <1>5, <1>6

\* The raw rows of a bucket are all of the ledger's.
LEMMA RawTellsBucket ==
  ASSUME Inv, NEW k \in DOMAIN raw
  PROVE  RawBytes(raw, k.edge, k.start) = RawBytes(ledger, k.edge, k.start)
<1>1. Bucket(raw, k.edge, k.start) = Bucket(ledger, k.edge, k.start)
  BY DEF Inv, RawOK, Bucket
<1>2. \A l \in Bucket(raw, k.edge, k.start) : raw[l] = ledger[l]
  BY DEF Inv, RawOK, Bucket
<1> QED
  BY <1>1, <1>2, RawBytesSame

\* A bucket that is kept tells what an alias carried in it.
LEMMA BucketTells ==
  ASSUME Inv, now = latest, NEW L \in Logical, NEW e \in Aliases(L), NEW k \in DOMAIN ledger,
         k.edge = e, Started => k.start >= cursor.minute \/ k.start >= latest - RawRetention
  PROVE  /\ k.start \in HeldStarts
         /\ AtMost(Facing(redirects, e, RawBytes(ledger, e, k.start)), MaxOf(Told(L, "raw", k.start)))
<1>1. k \in DOMAIN raw
  BY DEF Inv, RawOK
<1>2. RawBytes(raw, e, k.start) = RawBytes(ledger, e, k.start)
  BY <1>1, RawTellsBucket
<1>3. TierBytes("raw", e, k.start) = RawBytes(raw, e, k.start)
  BY TierBytesIs
<1>4. AtMost(Facing(redirects, e, TierBytes("raw", e, k.start)), MaxOf(Told(L, "raw", k.start)))
  BY ToldAtLeast DEF Tiers
<1>5. k.start \in HeldStarts
  BY <1>1 DEF HeldStarts, StartsOf
<1> QED
  BY <1>2, <1>3, <1>4, <1>5

\* Some buckets of a time carried no more than the time did.
LEMMA FacedPart ==
  ASSUME NEW t, Table(t), NEW red, NEW e, NEW a \in Int, NEW b \in Int, NEW G \in SUBSET (a .. b - 1)
  PROVE  /\ Table([s \in G |-> Facing(red, e, RawBytes(t, e, s))])
         /\ AtMost(SumOf([s \in G |-> Facing(red, e, RawBytes(t, e, s))]), Facing(red, e, Carries(t, e, a, b)))
<1> DEFINE all == [s \in a .. b - 1 |-> RawBytes(t, e, s)]
           faced == [s \in a .. b - 1 |-> Facing(red, e, RawBytes(t, e, s))]
           part == [s \in G |-> Facing(red, e, RawBytes(t, e, s))]
<1>1. Table(all) /\ SumOf(all) = Carries(t, e, a, b) /\ DOMAIN all = a .. b - 1
  BY CarriesTable DEF Carries
<1>2. faced = [s \in DOMAIN all |-> Facing(red, e, all[s])]
  OBVIOUS
<1>3. Table(faced) /\ SumOf(faced) = Facing(red, e, Carries(t, e, a, b)) /\ DOMAIN faced = a .. b - 1
  <2> HIDE DEF all, faced
  <2>1. Table(faced) /\ SumOf(faced) = Facing(red, e, Carries(t, e, a, b)) /\ DOMAIN faced = DOMAIN all
    BY <1>1, <1>2, TotalFacing
  <2> QED
    BY <1>1, <2>1
<1>4. part = Restrict(faced, G)
  BY DEF Restrict
<1>5. \A s \in G : part[s] = faced[s]
  OBVIOUS
<1> HIDE DEF all, faced, part
<1>6. Table(part) /\ DOMAIN part = G /\ \A s \in G : part[s] = faced[s]
  BY <1>3, <1>4, PartTable
<1>7. \A s \in G : AtMost(part[s], faced[s])
  <2>1. \A s \in G : faced[s] \in Bytes
    BY <1>3 DEF Table
  <2> QED
    BY <2>1, <1>6, BytesOrder
<1>8. AtMost(SumOf(part), SumOf(faced))
  BY <1>3, <1>6, <1>7, TotalAtMost
<1> QED
  BY <1>3, <1>6, <1>8 DEF part

\* Where the row is that answers for the bucket at s.
RowOf(from, hourTo, minuteTo, s) ==
    IF hourTo > from /\ Truncate(s, Hour) < hourTo THEN Truncate(s, Hour)
    ELSE IF minuteTo > hourTo /\ Truncate(s, Minute) < minuteTo THEN Truncate(s, Minute)
    ELSE s

\* Each tier of a window holds, of the traffic since, what it answers for.
TiersHold(from, hourTo, minuteTo, since) ==
    /\ hourTo > from => /\ Started /\ hourTo <= cursor.hour
                        /\ from >= latest - HourRetention /\ since % Hour = 0
    /\ minuteTo > hourTo => /\ Started /\ minuteTo <= cursor.minute /\ since % Minute = 0
                            /\ hourTo >= cursor.hour \/ hourTo >= latest - MinuteRetention
    /\ Started => minuteTo >= cursor.minute \/ minuteTo >= latest - RawRetention

\* The row of a bucket is in its tier, and covers it.
RowCovers(row, from, hourTo, minuteTo, s) ==
    /\ row \in Int /\ from <= row /\ row <= s
    /\ TierAt(hourTo, minuteTo, row) = "hour" =>
           row = Truncate(s, Hour) /\ s < row + Hour /\ hourTo > from /\ row < hourTo
    /\ TierAt(hourTo, minuteTo, row) = "minute" =>
           /\ row = Truncate(s, Minute) /\ s < row + Minute /\ minuteTo > hourTo
           /\ hourTo <= row /\ row < minuteTo
    /\ TierAt(hourTo, minuteTo, row) = "raw" => row = s /\ minuteTo <= s

\* RowOf covers its bucket, in the tier of its time.
LEMMA RowIs ==
  ASSUME NEW from \in Int, NEW hourTo \in Int, NEW minuteTo \in Int, NEW since \in Int,
         from <= hourTo, hourTo <= minuteTo, from <= since, NEW s \in Int, since <= s,
         hourTo > from => since % Hour = 0, minuteTo > hourTo => since % Minute = 0
  PROVE  RowCovers(RowOf(from, hourTo, minuteTo, s), from, hourTo, minuteTo, s)
<1> DEFINE h == Truncate(s, Hour)
           m == Truncate(s, Minute)
           row == RowOf(from, hourTo, minuteTo, s)
<1>1. h \in Int /\ h <= s /\ s < h + Hour /\ m \in Int /\ m <= s /\ s < m + Minute
  BY TruncateIs, TiersAssumption
<1>2. h <= m
  BY MinuteInHour
<1>3. since % Hour = 0 => since <= h
  BY TruncateAfter, TiersAssumption
<1>4. since % Minute = 0 => since <= m
  BY TruncateAfter, TiersAssumption
<1>5. row = IF hourTo > from /\ h < hourTo THEN h ELSE IF minuteTo > hourTo /\ m < minuteTo THEN m ELSE s
  BY DEF RowOf
<1> HIDE DEF h, m, row
<1>6. CASE hourTo > from /\ h < hourTo
  <2>1. row = h /\ from <= h /\ TierAt(hourTo, minuteTo, row) = "hour"
    BY <1>1, <1>3, <1>5, <1>6 DEF TierAt
  <2> QED
    BY <1>1, <1>6, <2>1 DEF h, row, RowCovers
<1>7. CASE ~(hourTo > from /\ h < hourTo) /\ minuteTo > hourTo /\ m < minuteTo
  <2>1. row = m /\ from <= m /\ hourTo <= m /\ TierAt(hourTo, minuteTo, row) = "minute"
    BY <1>1, <1>2, <1>4, <1>5, <1>7 DEF TierAt
  <2> QED
    BY <1>1, <1>7, <2>1 DEF m, row, RowCovers
<1>8. CASE ~(hourTo > from /\ h < hourTo) /\ ~(minuteTo > hourTo /\ m < minuteTo)
  <2>1. row = s /\ minuteTo <= s /\ TierAt(hourTo, minuteTo, row) = "raw"
    BY <1>1, <1>2, <1>5, <1>8 DEF TierAt
  <2> QED
    BY <1>1, <1>8, <2>1 DEF row, RowCovers
<1> QED
  BY <1>6, <1>7, <1>8 DEF row

\* What the row of some buckets says is at least what they carried.
LEMMA RowTells ==
  ASSUME Inv, now = latest, NEW L \in Logical, NEW e \in Aliases(L),
         NEW from \in Int, NEW hourTo \in Int, NEW minuteTo \in Int, NEW since \in Int,
         from <= hourTo, hourTo <= minuteTo, from <= since, TiersHold(from, hourTo, minuteTo, since),
         NEW x \in Int, NEW G, IsFiniteSet(G), G # {},
         \A s \in G : /\ s \in Int /\ since <= s /\ Bucket(ledger, e, s) # {}
                      /\ RowOf(from, hourTo, minuteTo, s) = x
  PROVE  /\ x \in HeldStarts
         /\ AtMost(SumOf([s \in G |-> Facing(redirects, e, RawBytes(ledger, e, s))]),
                   MaxOf(Told(L, TierAt(hourTo, minuteTo, x), x)))
<1> DEFINE tier == TierAt(hourTo, minuteTo, x)
           told == MaxOf(Told(L, tier, x))
           part == [s \in G |-> Facing(redirects, e, RawBytes(ledger, e, s))]
<1>1. Table(ledger) /\ Hour \in Nat \ {0} /\ Minute \in Nat \ {0}
  BY Tables, TiersAssumption
<1>2. /\ hourTo > from => Started /\ hourTo <= cursor.hour /\ from >= latest - HourRetention
      /\ minuteTo > hourTo => Started /\ minuteTo <= cursor.minute
      /\ minuteTo > hourTo => hourTo >= cursor.hour \/ hourTo >= latest - MinuteRetention
      /\ Started => minuteTo >= cursor.minute \/ minuteTo >= latest - RawRetention
      /\ hourTo > from => since % Hour = 0
      /\ minuteTo > hourTo => since % Minute = 0
  BY DEF TiersHold
<1>3. ASSUME NEW s \in G
      PROVE  /\ from <= x /\ x <= s
             /\ tier = "hour" => x = Truncate(s, Hour) /\ s < x + Hour /\ hourTo > from /\ x < hourTo
             /\ tier = "minute" => /\ x = Truncate(s, Minute) /\ s < x + Minute /\ minuteTo > hourTo
                                   /\ hourTo <= x /\ x < minuteTo
             /\ tier = "raw" => x = s /\ minuteTo <= s
  <2>1. RowOf(from, hourTo, minuteTo, s) = x /\ s \in Int /\ since <= s
    OBVIOUS
  <2>2. RowCovers(x, from, hourTo, minuteTo, s)
    BY <1>2, <2>1, RowIs
  <2> QED
    BY <2>2 DEF RowCovers
<1>4. PICK s \in G : TRUE
  OBVIOUS
<1>5. PICK k \in DOMAIN ledger : k.edge = e /\ k.start = s
  BY <1>4 DEF Bucket
<1>6. tier \in Tiers /\ told \in Bytes
  <2>1. tier \in Tiers
    BY DEF TierAt, Tiers
  <2> QED
    BY <2>1, ToldAtLeast
<1>7. now \in Int /\ latest \in Int /\ (Started => cursor.hour \in Int /\ cursor.minute \in Int)
      /\ RawRetention \in Int /\ MinuteRetention \in Int /\ HourRetention \in Int
  BY Kinds
<1>8. CASE tier = "hour"
  <2>1. x = Truncate(k.start, Hour) /\ Started /\ x < cursor.hour /\ x >= latest - HourRetention
    BY <1>2, <1>3, <1>4, <1>5, <1>7, <1>8
  <2>2. x \in HeldStarts /\ AtMost(Facing(redirects, e, Carries(ledger, e, x, x + Hour)), told)
    BY <1>5, <1>8, <2>1, HourTells
  <2>3. G \in SUBSET (x .. (x + Hour) - 1)
    BY <1>1, <1>3, <1>8
  <2>4. Table(part) /\ AtMost(SumOf(part), Facing(redirects, e, Carries(ledger, e, x, x + Hour)))
    <3>1. x + Hour \in Int
      BY <1>1
    <3> QED
      BY <1>1, <2>3, <3>1, FacedPart
  <2>5. Facing(redirects, e, Carries(ledger, e, x, x + Hour)) \in Bytes
    <3>1. x + Hour \in Int
      BY <1>1
    <3> QED
      BY <1>1, <3>1, CarriesTable, FacingType
  <2>6. SumOf(part) \in Bytes
    BY <2>4, SumOfType
  <2> HIDE DEF part, told
  <2>7. AtMost(SumOf(part), told)
    BY <1>6, <2>2, <2>4, <2>5, <2>6, BytesOrder
  <2> QED
    BY <2>2, <2>7 DEF part, told
<1>9. CASE tier = "minute"
  <2>1. /\ x = Truncate(k.start, Minute) /\ Started /\ x < cursor.minute
        /\ x >= cursor.hour \/ x >= latest - MinuteRetention
    BY <1>2, <1>3, <1>4, <1>5, <1>7, <1>9
  <2>2. x \in HeldStarts /\ AtMost(Facing(redirects, e, Carries(ledger, e, x, x + Minute)), told)
    <3>1. /\ k \in DOMAIN ledger /\ k.edge = e /\ x = Truncate(k.start, Minute)
          /\ Started /\ x < cursor.minute
      BY <1>5, <2>1
    <3>2. x >= cursor.hour \/ x >= latest - MinuteRetention
      BY <2>1
    <3>3. x \in HeldStarts /\ AtMost(Facing(redirects, e, Carries(ledger, e, x, x + Minute)),
                                     MaxOf(Told(L, "minute", x)))
      BY <3>1, <3>2, MinuteTells
    <3> QED
      BY <1>9, <3>3
  <2>3. G \in SUBSET (x .. (x + Minute) - 1)
    BY <1>1, <1>3, <1>9
  <2>4. Table(part) /\ AtMost(SumOf(part), Facing(redirects, e, Carries(ledger, e, x, x + Minute)))
    <3>1. x + Minute \in Int
      BY <1>1
    <3> QED
      BY <1>1, <2>3, <3>1, FacedPart
  <2>5. Facing(redirects, e, Carries(ledger, e, x, x + Minute)) \in Bytes
    <3>1. x + Minute \in Int
      BY <1>1
    <3> QED
      BY <1>1, <3>1, CarriesTable, FacingType
  <2>6. SumOf(part) \in Bytes
    BY <2>4, SumOfType
  <2> HIDE DEF part, told
  <2>7. AtMost(SumOf(part), told)
    BY <1>6, <2>2, <2>4, <2>5, <2>6, BytesOrder
  <2> QED
    BY <2>2, <2>7 DEF part, told
<1>10. CASE tier = "raw"
  <2>1. x = k.start /\ (Started => x >= cursor.minute \/ x >= latest - RawRetention)
    BY <1>2, <1>3, <1>4, <1>5, <1>7, <1>10
  <2>2. x \in HeldStarts /\ AtMost(Facing(redirects, e, RawBytes(ledger, e, x)), told)
    BY <1>5, <1>10, <2>1, BucketTells
  <2>3. G = {x}
    BY <1>3, <1>4, <1>10
  <2>4. SumOf(part) = Facing(redirects, e, RawBytes(ledger, e, x))
    <3>1. DOMAIN part = {x} /\ part[x] = Facing(redirects, e, RawBytes(ledger, e, x))
      BY <2>3
    <3>2. part[x] \in Bytes
      BY <1>1, <3>1, RawBytesType, FacingType
    <3> HIDE DEF part
    <3>3. DOMAIN Column(part, "ab") = {x} /\ DOMAIN Column(part, "ba") = {x}
          /\ Column(part, "ab")[x] = part[x].ab /\ Column(part, "ba")[x] = part[x].ba
          /\ part[x].ab \in Nat /\ part[x].ba \in Nat
      BY <3>1, <3>2 DEF Column, Bytes
    <3>4. Column(part, "ab") \in [{x} -> Nat] /\ Column(part, "ba") \in [{x} -> Nat]
      BY <3>1, <3>3 DEF Column
    <3>5. SumFunction(Column(part, "ab")) = part[x].ab /\ SumFunction(Column(part, "ba")) = part[x].ba
      BY <3>3, <3>4, SumOfOne
    <3>6. SumOf(part) = [ab |-> part[x].ab, ba |-> part[x].ba]
      BY <3>5 DEF SumOf
    <3>7. part[x] = [ab |-> part[x].ab, ba |-> part[x].ba]
      BY <3>2 DEF Bytes
    <3> QED
      BY <3>1, <3>6, <3>7
  <2> QED
    BY <2>2, <2>4
<1> QED
  BY <1>6, <1>8, <1>9, <1>10 DEF Tiers

\* The rows of a window tell what any one alias carried.
LEMMA RowsAtLeast ==
  ASSUME Inv, now = latest, NEW L \in Logical, NEW e \in Aliases(L),
         NEW from \in Int, NEW hourTo \in Int, NEW minuteTo \in Int, NEW since \in Int,
         from <= hourTo, hourTo <= minuteTo, minuteTo <= now, from <= since,
         TiersHold(from, hourTo, minuteTo, since)
  PROVE  AtMost(Facing(redirects, e, Carries(ledger, e, since, now)),
                SumOf(Rows(L, from, hourTo, minuteTo, now)))
<1> DEFINE S == {s \in since .. now - 1 : Bucket(ledger, e, s) # {}}
           all == [s \in since .. now - 1 |-> RawBytes(ledger, e, s)]
           faced == [s \in since .. now - 1 |-> Facing(redirects, e, RawBytes(ledger, e, s))]
           t == [s \in S |-> Facing(redirects, e, RawBytes(ledger, e, s))]
           rows == Rows(L, from, hourTo, minuteTo, now)
           g1 == [s \in S |-> RowOf(from, hourTo, minuteTo, s)]
           Of(x) == {s \in S : g1[s] = x}
<1>1. Table(ledger) /\ now \in Int
  BY Tables, Kinds
<1>2. /\ Table(rows) /\ DOMAIN rows = HeldIn(from, now)
      /\ \A x \in HeldIn(from, now) : rows[x] = MaxOf(Told(L, TierAt(hourTo, minuteTo, x), x))
  BY RowsTable
<1>3. Table(faced) /\ SumOf(faced) = Facing(redirects, e, Carries(ledger, e, since, now))
  <2>1. Table(all) /\ SumOf(all) = Carries(ledger, e, since, now)
    BY <1>1, CarriesTable DEF Carries
  <2>2. faced = [s \in DOMAIN all |-> Facing(redirects, e, all[s])]
    OBVIOUS
  <2> HIDE DEF all, faced
  <2> QED
    BY <2>1, <2>2, TotalFacing
<1>4. S \in SUBSET DOMAIN faced /\ DOMAIN faced = since .. now - 1
  OBVIOUS
<1>5. \A s \in DOMAIN faced \ S : faced[s] = Zero
  <2> SUFFICES ASSUME NEW s \in since .. now - 1, s \notin S
               PROVE  faced[s] = Zero
    BY <1>4
  <2>1. RawBytes(ledger, e, s) = Zero
    BY RawBytesNone
  <2>2. faced[s] = Facing(redirects, e, Zero)
    BY <2>1
  <2> QED
    BY <2>2 DEF Facing, Swap, Zero
<1>6. t = Restrict(faced, S)
  BY DEF Restrict
<1>7. Table(t) /\ DOMAIN t = S /\ SumOf(t) = SumOf(faced)
  <2> HIDE DEF t, faced, S
  <2> QED
    BY <1>3, <1>4, <1>5, <1>6, PartTable, TotalOfSupport
<1>8. \A s \in S : /\ s \in Int /\ since <= s /\ s < now /\ Bucket(ledger, e, s) # {}
                   /\ g1[s] = RowOf(from, hourTo, minuteTo, s)
  BY <1>1
<1>9. \A s \in S : g1[s] \in Int /\ from <= g1[s] /\ g1[s] <= s
  <2>1. (hourTo > from => since % Hour = 0) /\ (minuteTo > hourTo => since % Minute = 0)
    BY DEF TiersHold
  <2> SUFFICES ASSUME NEW s \in S
               PROVE  g1[s] \in Int /\ from <= g1[s] /\ g1[s] <= s
    OBVIOUS
  <2>2. s \in Int /\ since <= s /\ g1[s] = RowOf(from, hourTo, minuteTo, s)
    BY <1>8
  <2> HIDE DEF g1, S
  <2>3. RowCovers(RowOf(from, hourTo, minuteTo, s), from, hourTo, minuteTo, s)
    BY <2>1, <2>2, RowIs
  <2>4. RowCovers(g1[s], from, hourTo, minuteTo, s)
    BY <2>2, <2>3
  <2> QED
    BY <2>4 DEF RowCovers
<1>10. IsFiniteSet(S)
  BY <1>7 DEF Table
<1>11. ASSUME NEW x \in Int, Of(x) # {}
       PROVE  /\ x \in HeldStarts
              /\ AtMost(SumOf([s \in Of(x) |-> Facing(redirects, e, RawBytes(ledger, e, s))]),
                        MaxOf(Told(L, TierAt(hourTo, minuteTo, x), x)))
  <2>1. IsFiniteSet(Of(x))
    BY <1>10, FS_Subset
  <2>2. \A s \in Of(x) : /\ s \in Int /\ since <= s /\ Bucket(ledger, e, s) # {}
                         /\ RowOf(from, hourTo, minuteTo, s) = x
    BY <1>8
  <2> HIDE DEF Of
  <2> QED
    BY <1>11, <2>1, <2>2, RowTells
<1>12. \A s \in S : g1[s] \in HeldIn(from, now)
  <2> SUFFICES ASSUME NEW s \in S
               PROVE  g1[s] \in HeldIn(from, now)
    OBVIOUS
  <2>1. g1[s] \in Int /\ from <= g1[s] /\ g1[s] <= s /\ s \in Int /\ s < now
    BY <1>8, <1>9
  <2>2. s \in Of(g1[s])
    OBVIOUS
  <2>3. g1[s] \in HeldStarts
    BY <1>11, <2>1, <2>2
  <2> QED
    BY <1>1, <2>1, <2>3 DEF HeldIn
<1>13. g1 \in [S -> HeldIn(from, now)]
  <2>1. g1 = [s \in S |-> g1[s]]
    OBVIOUS
  <2> HIDE DEF g1, S
  <2> QED
    BY <1>12, <2>1
<1>14. \A x : Under(t, g1, x) = [s \in Of(x) |-> Facing(redirects, e, RawBytes(ledger, e, s))]
  BY DEF Under, Restrict
<1>15. \A x \in HeldIn(from, now) : x \in Int
  BY HeldFinite DEF HeldIn
<1>16. \A x \in HeldIn(from, now) : AtMost(SumOf(Under(t, g1, x)), rows[x])
  <2> SUFFICES ASSUME NEW x \in HeldIn(from, now)
               PROVE  AtMost(SumOf(Under(t, g1, x)), rows[x])
    OBVIOUS
  <2>1. CASE Of(x) # {}
    <3> HIDE DEF Of, t, g1, rows
    <3> QED
      BY <1>2, <1>11, <1>14, <1>15, <2>1
  <2>2. CASE Of(x) = {}
    <3>1. DOMAIN Under(t, g1, x) = {}
      BY <1>14, <2>2
    <3>2. Table(Under(t, g1, x))
      BY <1>7, PartTable DEF Under
    <3>3. rows[x] \in Bytes
      BY <1>2 DEF Table
    <3> HIDE DEF Of, t, g1, rows
    <3>4. SumOf(Under(t, g1, x)) = Zero
      <4>1. Under(t, g1, x) = <<>>
        BY <3>1, <3>2 DEF Table
      <4> DEFINE u == Under(t, g1, x)
      <4>2. /\ Counts(Column(u, "ab")) /\ DOMAIN Column(u, "ab") = {}
            /\ Counts(Column(u, "ba")) /\ DOMAIN Column(u, "ba") = {}
        BY <3>1, <3>2, ColumnCounts DEF Fields
      <4> HIDE DEF u
      <4>3. SumFunction(Column(u, "ab")) = 0 /\ SumFunction(Column(u, "ba")) = 0
        BY <4>2, SumEmpty
      <4> QED
        BY <4>3 DEF SumOf, Zero, u
    <3> QED
      BY <3>3, <3>4, BytesOrder
  <2> QED
    BY <2>1, <2>2
<1> HIDE DEF t, g1, rows, S, faced, Of, all
<1>17. AtMost(SumOf(t), SumOf(rows))
  BY <1>2, <1>7, <1>13, <1>16, TotalWithin
<1> QED
  BY <1>3, <1>7, <1>17 DEF rows

-----------------------------------------------------------------------------
(* What the rows of a window tell, at most. *)

All(L, from, to) == Together(ledger, redirects, Aliases(L), from, to)

\* What the aliases carried together is no less than what any one did.
LEMMA AllIs ==
  ASSUME Inv, NEW L \in Logical, NEW from \in Int, NEW to \in Int
  PROVE  /\ All(L, from, to) \in Bytes
         /\ \A f \in Aliases(L) : AtMost(Facing(redirects, f, Carries(ledger, f, from, to)), All(L, from, to))
<1> DEFINE parts == [f \in Aliases(L) |-> Facing(redirects, f, Carries(ledger, f, from, to))]
<1>1. Table(ledger) /\ IsFiniteSet(Aliases(L))
  BY Tables, LogicalAliases DEF Inv
<1>2. Table(parts) /\ Together(ledger, redirects, Aliases(L), from, to) \in Bytes
  BY <1>1, AliasTable
<1>3. \A f \in Aliases(L) : AtMost(parts[f], SumOf(parts))
  <2> HIDE DEF parts
  <2>1. DOMAIN parts = Aliases(L)
    BY DEF parts
  <2> QED
    BY <1>2, <2>1, TermAtMostTotal
<1> QED
  BY <1>2, <1>3 DEF All, Together

\* The largest is no more than what bounds every alias.
LEMMA ToldAtMost ==
  ASSUME Inv, NEW L \in Logical, NEW tier \in Tiers, NEW s, NEW b \in Bytes,
         \A f \in Aliases(L) : AtMost(Facing(redirects, f, TierBytes(tier, f, s)), b)
  PROVE  AtMost(MaxOf(Told(L, tier, s)), b)
<1> DEFINE told == Told(L, tier, s)
<1>1. /\ Table(told) /\ DOMAIN told = Aliases(L)
      /\ \A f \in Aliases(L) : told[f] = Facing(redirects, f, TierBytes(tier, f, s))
  BY ToldTable
<1>2. \A f \in DOMAIN told : AtMost(told[f], b)
  BY <1>1
<1> HIDE DEF told
<1>3. AtMost(MaxOf(told), b)
  BY <1>1, <1>2, MaxOfIs
<1> QED
  BY <1>3 DEF told

\* An hour says no more than its aliases carried in it together.
LEMMA HourWithin ==
  ASSUME Inv, NEW L \in Logical, NEW x \in Int
  PROVE  IF x % Hour = 0 THEN AtMost(MaxOf(Told(L, "hour", x)), All(L, x, x + Hour))
                         ELSE AtMost(MaxOf(Told(L, "hour", x)), Zero)
<1>1. x + Hour \in Int
  BY TiersAssumption
<1>2. All(L, x, x + Hour) \in Bytes /\ Zero \in Bytes
  BY <1>1, AllIs DEF Zero, Bytes
<1>3. ASSUME NEW f \in Aliases(L)
      PROVE  IF x % Hour = 0 THEN AtMost(Facing(redirects, f, TierBytes("hour", f, x)), All(L, x, x + Hour))
                             ELSE AtMost(Facing(redirects, f, TierBytes("hour", f, x)), Zero)
  <2> DEFINE key == [edge |-> f, start |-> x]
  <2>1. CASE key \notin DOMAIN hour
    <3>1. TierBytes("hour", f, x) = Zero
      BY <2>1, TierBytesIs
    <3>2. Facing(redirects, f, TierBytes("hour", f, x)) = Zero
      BY <1>2, <3>1, FacingType
    <3> QED
      BY <1>2, <3>2, BytesOrder
  <2>2. CASE key \in DOMAIN hour
    <3>1. key.edge = f /\ key.start = x
      OBVIOUS
    <3>2. x % Hour = 0
      BY <2>2, <3>1, HourRow
    <3>3. TierBytes("hour", f, x) = hour[key]
      BY <2>2, TierBytesIs
    <3> HIDE DEF key
    <3>4. ~IsLoop(redirects, f) /\ f \in DOMAIN map /\ map[f].edge = L
      BY MapIs DEF Inv, Aliases
    <3>5. HourAtMost(redirects, edges, ledger, f, x, hour[key])
      BY <2>2, <3>1, <3>4 DEF Inv, HourOK, HoursWithin
    <3>6. AliasesUnder(redirects, edges, f) = Aliases(L)
      BY <3>4, MapIs DEF Inv
    <3> QED
      BY <3>2, <3>3, <3>5, <3>6 DEF HourAtMost, All, Together
  <2> QED
    BY <2>1, <2>2
<1>4. CASE x % Hour = 0
  <2> DEFINE b == All(L, x, x + Hour)
  <2>1. b \in Bytes /\ \A f \in Aliases(L) : AtMost(Facing(redirects, f, TierBytes("hour", f, x)), b)
    BY <1>2, <1>3, <1>4
  <2> HIDE DEF b
  <2>2. AtMost(MaxOf(Told(L, "hour", x)), b)
    BY <2>1, ToldAtMost DEF Tiers
  <2> QED
    BY <1>4, <2>2 DEF b
<1>5. CASE x % Hour # 0
  <2>1. \A f \in Aliases(L) : AtMost(Facing(redirects, f, TierBytes("hour", f, x)), Zero)
    BY <1>3, <1>5
  <2>2. AtMost(MaxOf(Told(L, "hour", x)), Zero)
    BY <1>2, <2>1, ToldAtMost DEF Tiers
  <2> QED
    BY <1>5, <2>2
<1> QED
  BY <1>4, <1>5

\* A minute says no more than its aliases carried in it together.
LEMMA MinuteWithin ==
  ASSUME Inv, NEW L \in Logical, NEW x \in Int
  PROVE  IF x % Minute = 0 THEN AtMost(MaxOf(Told(L, "minute", x)), All(L, x, x + Minute))
                           ELSE AtMost(MaxOf(Told(L, "minute", x)), Zero)
<1>1. x + Minute \in Int
  BY TiersAssumption
<1>2. All(L, x, x + Minute) \in Bytes /\ Zero \in Bytes
  BY <1>1, AllIs DEF Zero, Bytes
<1>3. ASSUME NEW f \in Aliases(L)
      PROVE  IF x % Minute = 0 THEN AtMost(Facing(redirects, f, TierBytes("minute", f, x)), All(L, x, x + Minute))
                               ELSE AtMost(Facing(redirects, f, TierBytes("minute", f, x)), Zero)
  <2> DEFINE key == [edge |-> f, start |-> x]
  <2>1. CASE key \notin DOMAIN minute
    <3>1. TierBytes("minute", f, x) = Zero
      BY <2>1, TierBytesIs
    <3>2. Facing(redirects, f, TierBytes("minute", f, x)) = Zero
      BY <1>2, <3>1, FacingType
    <3> QED
      BY <1>2, <3>2, BytesOrder
  <2>2. CASE key \in DOMAIN minute
    <3>1. key.edge = f /\ key.start = x
      OBVIOUS
    <3>2. TierBytes("minute", f, x) = minute[key]
      BY <2>2, TierBytesIs
    <3> HIDE DEF key
    <3>3. x % Minute = 0 /\ minute[key] = Carries(ledger, f, x, x + Minute)
      BY <2>2, <3>1, MinuteRow
    <3>4. AtMost(Facing(redirects, f, Carries(ledger, f, x, x + Minute)), All(L, x, x + Minute))
      BY <1>1, AllIs
    <3> QED
      BY <3>2, <3>3, <3>4
  <2> QED
    BY <2>1, <2>2
<1>4. CASE x % Minute = 0
  <2> DEFINE b == All(L, x, x + Minute)
  <2>1. b \in Bytes /\ \A f \in Aliases(L) : AtMost(Facing(redirects, f, TierBytes("minute", f, x)), b)
    BY <1>2, <1>3, <1>4
  <2> HIDE DEF b
  <2>2. AtMost(MaxOf(Told(L, "minute", x)), b)
    BY <2>1, ToldAtMost DEF Tiers
  <2> QED
    BY <1>4, <2>2 DEF b
<1>5. CASE x % Minute # 0
  <2>1. \A f \in Aliases(L) : AtMost(Facing(redirects, f, TierBytes("minute", f, x)), Zero)
    BY <1>3, <1>5
  <2>2. AtMost(MaxOf(Told(L, "minute", x)), Zero)
    BY <1>2, <2>1, ToldAtMost DEF Tiers
  <2> QED
    BY <1>5, <2>2
<1> QED
  BY <1>4, <1>5

\* The total of one row.
LEMMA SumOfSingle ==
  ASSUME NEW t, NEW x, DOMAIN t = {x}, Table(t)
  PROVE  SumOf(t) = t[x]
<1>1. t[x] \in Bytes
  BY DEF Table
<1>2. /\ DOMAIN Column(t, "ab") = {x} /\ DOMAIN Column(t, "ba") = {x}
      /\ Column(t, "ab")[x] = t[x].ab /\ Column(t, "ba")[x] = t[x].ba
      /\ t[x].ab \in Nat /\ t[x].ba \in Nat
  BY <1>1 DEF Column, Bytes
<1>3. Column(t, "ab") \in [{x} -> Nat] /\ Column(t, "ba") \in [{x} -> Nat]
  BY <1>2 DEF Column
<1>4. SumFunction(Column(t, "ab")) = t[x].ab /\ SumFunction(Column(t, "ba")) = t[x].ba
  BY <1>2, <1>3, SumOfOne
<1>5. SumOf(t) = [ab |-> t[x].ab, ba |-> t[x].ba]
  BY <1>4 DEF SumOf
<1>6. t[x] = [ab |-> t[x].ab, ba |-> t[x].ba]
  BY <1>1 DEF Bytes
<1> QED
  BY <1>5, <1>6

\* What an edge carried in one bucket.
LEMMA CarriesOne ==
  ASSUME NEW t, Table(t), NEW e, NEW s \in Int
  PROVE  Carries(t, e, s, s + 1) = RawBytes(t, e, s)
<1> DEFINE all == [y \in s .. (s + 1) - 1 |-> RawBytes(t, e, y)]
<1>1. s .. (s + 1) - 1 = {s}
  OBVIOUS
<1>2. Table(all)
  <2>1. s + 1 \in Int
    OBVIOUS
  <2> QED
    BY <2>1, CarriesTable
<1>3. DOMAIN all = {s} /\ all[s] = RawBytes(t, e, s)
  BY <1>1
<1>4. Carries(t, e, s, s + 1) = SumOf(all)
  BY DEF Carries
<1> HIDE DEF all
<1> QED
  BY <1>2, <1>3, <1>4, SumOfSingle

\* A bucket says no more than its aliases carried in it together.
LEMMA BucketWithin ==
  ASSUME Inv, NEW L \in Logical, NEW x \in Int
  PROVE  AtMost(MaxOf(Told(L, "raw", x)), All(L, x, x + 1))
<1> DEFINE b == All(L, x, x + 1)
<1>1. x + 1 \in Int
  OBVIOUS
<1>2. b \in Bytes /\ Zero \in Bytes
  BY <1>1, AllIs DEF Zero, Bytes
<1>3. ASSUME NEW f \in Aliases(L)
      PROVE  AtMost(Facing(redirects, f, TierBytes("raw", f, x)), b)
  <2>1. TierBytes("raw", f, x) = RawBytes(raw, f, x)
    BY TierBytesIs
  <2>2. CASE Bucket(raw, f, x) = {}
    <3>1. TierBytes("raw", f, x) = Zero
      BY <2>1, <2>2, RawBytesNone
    <3>2. Facing(redirects, f, TierBytes("raw", f, x)) = Zero
      BY <1>2, <3>1, FacingType
    <3> HIDE DEF b
    <3> QED
      BY <1>2, <3>2, BytesOrder
  <2>3. CASE Bucket(raw, f, x) # {}
    <3>1. PICK k \in DOMAIN raw : k.edge = f /\ k.start = x
      BY <2>3 DEF Bucket
    <3>2. RawBytes(raw, f, x) = RawBytes(ledger, f, x)
      BY <3>1, RawTellsBucket
    <3>3. Carries(ledger, f, x, x + 1) = RawBytes(ledger, f, x)
      BY Tables, CarriesOne
    <3>4. AtMost(Facing(redirects, f, Carries(ledger, f, x, x + 1)), b)
      BY <1>1, AllIs
    <3> QED
      BY <2>1, <3>2, <3>3, <3>4
  <2> QED
    BY <2>2, <2>3
<1> HIDE DEF b
<1>4. AtMost(MaxOf(Told(L, "raw", x)), b)
  BY <1>2, <1>3, ToldAtMost DEF Tiers
<1> QED
  BY <1>4 DEF b

\* The buckets of a time, among others, carried at least what the time did.
LEMMA AllOfPart ==
  ASSUME Inv, NEW L \in Logical, NEW from \in Int, NEW to \in Int, NEW a \in Int, NEW b \in Int,
         NEW R \in SUBSET (from .. to - 1), a .. b - 1 \subseteq R
  PROVE  LET each == [s \in from .. to - 1 |-> All(L, s, s + 1)]
         IN  AtMost(All(L, a, b), SumOf(Restrict(each, R)))
<1> DEFINE each == [s \in from .. to - 1 |-> All(L, s, s + 1)]
           part == [s \in a .. b - 1 |-> All(L, s, s + 1)]
<1>1. \A s \in Int : All(L, s, s + 1) \in Bytes
  <2> SUFFICES ASSUME NEW s \in Int
               PROVE  All(L, s, s + 1) \in Bytes
    OBVIOUS
  <2>1. s + 1 \in Int
    OBVIOUS
  <2> QED
    BY <2>1, AllIs
<1>2. \A x, y \in Int : IsFiniteSet(x .. y - 1) /\ Starts(x, y, 1) = x .. y - 1
  <2> SUFFICES ASSUME NEW x \in Int, NEW y \in Int
               PROVE  IsFiniteSet(x .. y - 1) /\ Starts(x, y, 1) = x .. y - 1
    OBVIOUS
  <2>1. IsFiniteSet(x .. y - 1)
    BY FS_Interval
  <2>2. \A s \in x .. y - 1 : s \in Int /\ s % 1 = 0
    OBVIOUS
  <2> QED
    BY <2>1, <2>2 DEF Starts
<1>3. Table(each) /\ Table(part)
  <2>1. \A s \in from .. to - 1 : s \in Int
    OBVIOUS
  <2>2. \A s \in a .. b - 1 : s \in Int
    OBVIOUS
  <2> QED
    BY <1>1, <1>2, <2>1, <2>2 DEF Table
<1>4. SumOf(part) = All(L, a, b)
  <2>1. Table(ledger) /\ IsFiniteSet(Aliases(L)) /\ 1 \in Nat \ {0} /\ a % 1 = 0 /\ b % 1 = 0
    BY Tables, LogicalAliases DEF Inv
  <2>2. SumOf([s \in Starts(a, b, 1) |-> Together(ledger, redirects, Aliases(L), s, s + 1)])
            = Together(ledger, redirects, Aliases(L), a, b)
    BY <2>1, AliasTotals
  <2> QED
    BY <1>2, <2>2 DEF All
<1>5. R \in SUBSET DOMAIN each /\ DOMAIN part = a .. b - 1
  OBVIOUS
<1>6. \A s \in a .. b - 1 : part[s] = each[s]
  OBVIOUS
<1> HIDE DEF each, part
<1>7. Table(Restrict(each, R)) /\ DOMAIN Restrict(each, R) = R /\ \A s \in R : Restrict(each, R)[s] = each[s]
  BY <1>3, <1>5, PartTable
<1>8. \A s \in DOMAIN part : AtMost(part[s], Restrict(each, R)[s])
  <2>1. \A s \in DOMAIN part : part[s] \in Bytes /\ Restrict(each, R)[s] = part[s]
    BY <1>3, <1>5, <1>6, <1>7 DEF Table
  <2> QED
    BY <2>1, BytesOrder
<1>9. AtMost(SumOf(part), SumOf(Restrict(each, R)))
  BY <1>3, <1>5, <1>7, <1>8, TotalAtMost
<1> QED
  BY <1>4, <1>9 DEF each

\* The tiers of a window hand over on whole hours and minutes.
HandOverAligned(from, hourTo, minuteTo) ==
    /\ hourTo = from \/ hourTo % Hour = 0
    /\ minuteTo = hourTo \/ minuteTo % Minute = 0

\* The row, if there is one, that tells of the bucket at s.
TellerOf(hourTo, minuteTo, s) ==
    IF s < hourTo THEN Truncate(s, Hour) ELSE IF s < minuteTo THEN Truncate(s, Minute) ELSE s

\* Rows that hand over on whole intervals tell nothing twice.
LEMMA RowsAtMost ==
  ASSUME Inv, NEW L \in Logical,
         NEW from \in Int, NEW hourTo \in Int, NEW minuteTo \in Int,
         from <= hourTo, hourTo <= minuteTo, minuteTo <= now,
         HandOverAligned(from, hourTo, minuteTo)
  PROVE  AtMost(SumOf(Rows(L, from, hourTo, minuteTo, now)), All(L, from, now))
<1> DEFINE each == [s \in from .. now - 1 |-> All(L, s, s + 1)]
           rows == Rows(L, from, hourTo, minuteTo, now)
           held == HeldIn(from, now)
           S == {s \in from .. now - 1 : TellerOf(hourTo, minuteTo, s) \in held}
           g1 == [s \in S |-> TellerOf(hourTo, minuteTo, s)]
           Of(x) == {s \in S : g1[s] = x}
<1>1. Table(ledger) /\ now \in Int /\ Hour \in Nat \ {0} /\ Minute \in Nat \ {0}
  BY Tables, Kinds
<1>2. /\ Table(rows) /\ DOMAIN rows = held
      /\ \A x \in held : rows[x] = MaxOf(Told(L, TierAt(hourTo, minuteTo, x), x))
  BY RowsTable
<1>3. /\ Table(each) /\ DOMAIN each = from .. now - 1
      /\ \A s \in from .. now - 1 : s \in Int
      /\ SumOf(each) = All(L, from, now)
  <2>1. \A s \in from .. now - 1 : s \in Int /\ s % 1 = 0 /\ All(L, s, s + 1) \in Bytes
    <3> SUFFICES ASSUME NEW s \in from .. now - 1
                 PROVE  s \in Int /\ s % 1 = 0 /\ All(L, s, s + 1) \in Bytes
      OBVIOUS
    <3>1. s \in Int /\ s + 1 \in Int /\ s % 1 = 0
      BY <1>1
    <3> QED
      BY <3>1, AllIs
  <2>2. IsFiniteSet(from .. now - 1)
    BY <1>1, FS_Interval
  <2>3. Starts(from, now, 1) = from .. now - 1
    BY <2>1 DEF Starts
  <2>4. IsFiniteSet(Aliases(L)) /\ 1 \in Nat \ {0} /\ from % 1 = 0 /\ now % 1 = 0
    BY <1>1, LogicalAliases DEF Inv
  <2>5. SumOf([s \in Starts(from, now, 1) |-> Together(ledger, redirects, Aliases(L), s, s + 1)])
            = Together(ledger, redirects, Aliases(L), from, now)
    BY <1>1, <2>4, AliasTotals
  <2> QED
    BY <2>1, <2>2, <2>3, <2>5 DEF All, Table
<1>4. \A x \in held : x \in Int /\ from <= x /\ x < now /\ rows[x] \in Bytes
  BY <1>2, HeldFinite DEF HeldIn, Table
<1>5. S \in SUBSET DOMAIN each /\ \A x : Of(x) \in SUBSET (from .. now - 1)
  BY <1>3
<1>6. g1 \in [S -> DOMAIN rows]
  BY <1>2
<1>7. \A x : SumOf(Restrict(each, Of(x))) \in Bytes
  <2> SUFFICES ASSUME NEW x
               PROVE  SumOf(Restrict(each, Of(x))) \in Bytes
    OBVIOUS
  <2>1. Of(x) \in SUBSET DOMAIN each
    BY <1>3, <1>5
  <2> HIDE DEF Of, each
  <2> QED
    BY <1>3, <2>1, PartTable, SumOfType
\* The buckets from x to before the next row are x's.
<1>8. ASSUME NEW x \in held, NEW n \in Nat \ {0}, x + n <= now,
             \A s \in Int : x <= s /\ s < x + n => TellerOf(hourTo, minuteTo, s) = x
      PROVE  AtMost(All(L, x, x + n), SumOf(Restrict(each, Of(x))))
  <2>1. x .. (x + n) - 1 \subseteq Of(x)
    <3> SUFFICES ASSUME NEW s \in x .. (x + n) - 1
                 PROVE  s \in Of(x)
      OBVIOUS
    <3>1. s \in Int /\ x <= s /\ s < x + n /\ x \in Int /\ from <= x
      BY <1>4
    <3>2. s \in from .. now - 1 /\ TellerOf(hourTo, minuteTo, s) = x
      BY <1>1, <1>8, <3>1
    <3> QED
      BY <3>2
  <2>2. x \in Int /\ x + n \in Int
    BY <1>4
  <2>3. Of(x) \in SUBSET (from .. now - 1)
    BY <1>5
  <2> HIDE DEF Of
  <2> QED
    BY <1>1, <2>1, <2>2, <2>3, AllOfPart
<1>9. ASSUME NEW x \in held
      PROVE  AtMost(rows[x], SumOf(Restrict(each, Of(x))))
  <2> DEFINE total == SumOf(Restrict(each, Of(x)))
             told == MaxOf(Told(L, TierAt(hourTo, minuteTo, x), x))
  <2>1. x \in Int /\ from <= x /\ x < now /\ told \in Bytes /\ rows[x] = told
    BY <1>2, <1>4
  <2>2. total \in Bytes
    BY <1>7
  <2>3. CASE x < hourTo
    <3>1. TierAt(hourTo, minuteTo, x) = "hour"
      BY <2>3 DEF TierAt
    <3>2. CASE x % Hour = 0
      <4>1. hourTo % Hour = 0
        BY <2>1, <2>3 DEF HandOverAligned
      <4>2. x + Hour <= hourTo
        BY <1>1, <2>1, <2>3, <3>2, <4>1, AlignedApart
      <4>3. \A s \in Int : x <= s /\ s < x + Hour => TellerOf(hourTo, minuteTo, s) = x
        <5> SUFFICES ASSUME NEW s \in Int, x <= s, s < x + Hour
                     PROVE  TellerOf(hourTo, minuteTo, s) = x
          OBVIOUS
        <5>1. Truncate(s, Hour) = x
          BY <1>1, <2>1, <3>2, TruncateAfter
        <5>2. s < hourTo
          BY <1>1, <2>1, <4>2
        <5> QED
          BY <5>1, <5>2 DEF TellerOf
      <4>4. x + Hour <= now
        BY <1>1, <2>1, <4>2
      <4>5. AtMost(All(L, x, x + Hour), total)
        BY <1>1, <1>8, <4>3, <4>4
      <4>6. AtMost(told, All(L, x, x + Hour))
        BY <2>1, <3>1, <3>2, HourWithin
      <4>7. All(L, x, x + Hour) \in Bytes
        <5>1. x + Hour \in Int
          BY <1>1, <2>1
        <5> QED
          BY <2>1, <5>1, AllIs
      <4> HIDE DEF total, told
      <4>8. AtMost(told, total)
        BY <2>1, <2>2, <4>5, <4>6, <4>7, BytesOrder
      <4> QED
        BY <2>1, <4>8 DEF total
    <3>3. CASE x % Hour # 0
      <4>1. AtMost(told, Zero) /\ Zero \in Bytes
        BY <2>1, <3>1, <3>3, HourWithin DEF Zero, Bytes
      <4> HIDE DEF total, told
      <4>2. AtMost(told, total)
        BY <2>1, <2>2, <4>1, BytesOrder
      <4> QED
        BY <2>1, <4>2 DEF total
    <3> QED
      BY <3>2, <3>3
  <2>4. CASE hourTo <= x /\ x < minuteTo
    <3>1. TierAt(hourTo, minuteTo, x) = "minute"
      BY <2>1, <2>4 DEF TierAt
    <3>2. CASE x % Minute = 0
      <4>1. minuteTo % Minute = 0
        BY <2>1, <2>4 DEF HandOverAligned
      <4>2. x + Minute <= minuteTo
        BY <1>1, <2>1, <2>4, <3>2, <4>1, AlignedApart
      <4>3. \A s \in Int : x <= s /\ s < x + Minute => TellerOf(hourTo, minuteTo, s) = x
        <5> SUFFICES ASSUME NEW s \in Int, x <= s, s < x + Minute
                     PROVE  TellerOf(hourTo, minuteTo, s) = x
          OBVIOUS
        <5>1. Truncate(s, Minute) = x
          BY <1>1, <2>1, <3>2, TruncateAfter
        <5>2. ~(s < hourTo) /\ s < minuteTo
          BY <1>1, <2>1, <2>4, <4>2
        <5> QED
          BY <5>1, <5>2 DEF TellerOf
      <4>4. x + Minute <= now
        BY <1>1, <2>1, <4>2
      <4>5. AtMost(All(L, x, x + Minute), total)
        BY <1>1, <1>8, <4>3, <4>4
      <4>6. AtMost(told, All(L, x, x + Minute))
        BY <2>1, <3>1, <3>2, MinuteWithin
      <4>7. All(L, x, x + Minute) \in Bytes
        <5>1. x + Minute \in Int
          BY <1>1, <2>1
        <5> QED
          BY <2>1, <5>1, AllIs
      <4> HIDE DEF total, told
      <4>8. AtMost(told, total)
        BY <2>1, <2>2, <4>5, <4>6, <4>7, BytesOrder
      <4> QED
        BY <2>1, <4>8 DEF total
    <3>3. CASE x % Minute # 0
      <4>1. AtMost(told, Zero) /\ Zero \in Bytes
        BY <2>1, <3>1, <3>3, MinuteWithin DEF Zero, Bytes
      <4> HIDE DEF total, told
      <4>2. AtMost(told, total)
        BY <2>1, <2>2, <4>1, BytesOrder
      <4> QED
        BY <2>1, <4>2 DEF total
    <3> QED
      BY <3>2, <3>3
  <2>5. CASE minuteTo <= x
    <3>1. TierAt(hourTo, minuteTo, x) = "raw"
      BY <2>1, <2>5 DEF TierAt
    <3>2. \A s \in Int : x <= s /\ s < x + 1 => TellerOf(hourTo, minuteTo, s) = x
      BY <2>1, <2>5 DEF TellerOf
    <3>3. x + 1 <= now /\ 1 \in Nat \ {0} /\ x + 1 \in Int
      BY <1>1, <2>1
    <3>4. AtMost(All(L, x, x + 1), total)
      BY <1>8, <3>2, <3>3
    <3>5. AtMost(told, All(L, x, x + 1))
      BY <2>1, <3>1, BucketWithin
    <3>6. All(L, x, x + 1) \in Bytes
      BY <2>1, <3>3, AllIs
    <3> HIDE DEF total, told
    <3>7. AtMost(told, total)
      BY <2>1, <2>2, <3>4, <3>5, <3>6, BytesOrder
    <3> QED
      BY <2>1, <3>7 DEF total
  <2> QED
    BY <2>1, <2>3, <2>4, <2>5
<1>10. \A x \in DOMAIN rows : AtMost(rows[x], SumOf(Restrict(each, {y \in S : g1[y] = x})))
  BY <1>2, <1>9
<1> HIDE DEF each, rows, S, g1
<1>11. AtMost(SumOf(rows), SumOf(each))
  BY <1>2, <1>3, <1>5, <1>6, <1>10, TotalOver
<1> QED
  BY <1>3, <1>11 DEF rows

-----------------------------------------------------------------------------
(* Windows. *)

\* Coverage keeps a cursor within its bounds.
LEMMA CoverageIs ==
  ASSUME NEW saved, saved \in Int \/ saved = NoTime, NEW lower \in Int, NEW upper \in Int, lower <= upper
  PROVE  LET to == Coverage(saved, lower, upper)
         IN  /\ to \in Int /\ lower <= to /\ to <= upper
             /\ to > lower => saved # NoTime /\ to <= saved
             /\ saved # NoTime => to >= saved \/ to = upper
             /\ to = lower \/ to = saved \/ to = upper
BY TiersAssumption DEF Coverage

\* The lengths of the windows and the retentions.
LEMMA WindowIs ==
  ASSUME NEW window \in Windows
  PROVE  /\ window \in Int /\ 0 <= window /\ window <= HourRetention
         /\ 0 <= RawRetention /\ RawRetention <= MinuteRetention /\ MinuteRetention <= HourRetention
         /\ RawRetention \in Int /\ MinuteRetention \in Int /\ HourRetention \in Int
         /\ window # HourRetention => window <= MinuteRetention
         /\ window > RawRetention => window = HourRetention \/ window = Day
BY TiersAssumption DEF Windows

\* Where the detail's tiers hand over.
LEMMA DetailTiers ==
  ASSUME Inv, NEW window \in Windows
  PROVE  \E hourTo, minuteTo \in Int :
             /\ DetailSegments(window, now) = Segments(now - window, hourTo, minuteTo, now)
             /\ now - window <= hourTo /\ hourTo <= minuteTo /\ minuteTo <= now
             /\ hourTo > now - window => window = HourRetention /\ Started /\ hourTo <= cursor.hour
             /\ minuteTo > hourTo => window > RawRetention /\ Started /\ minuteTo <= cursor.minute
             /\ Started => hourTo >= cursor.hour \/ hourTo >= now - MinuteRetention
             /\ Started => minuteTo >= cursor.minute \/ minuteTo >= now - RawRetention
             /\ hourTo = now - window \/ hourTo = now - MinuteRetention
                    \/ (Started /\ hourTo = cursor.hour)
             /\ minuteTo = hourTo \/ minuteTo = now - RawRetention
                    \/ (Started /\ minuteTo = cursor.minute)
<1> DEFINE from == now - window
           upper == Larger(from, now - MinuteRetention)
           hourTo == IF window = HourRetention THEN Coverage(cursor.hour, from, upper) ELSE from
           upto == Larger(from, now - RawRetention)
           minuteTo == IF window <= RawRetention THEN from ELSE Coverage(cursor.minute, hourTo, upto)
<1>1. now \in Int /\ from \in Int
  BY Kinds, WindowIs
<1>2. /\ cursor.hour \in Int \/ cursor.hour = NoTime
      /\ cursor.minute \in Int \/ cursor.minute = NoTime
      /\ Started <=> cursor.minute # NoTime
      /\ Started <=> cursor.hour # NoTime
  BY DEF Inv, CursorOK, Started
<1>3. upper \in Int /\ from <= upper /\ (upper = from \/ upper = now - MinuteRetention)
      /\ now - MinuteRetention <= upper
  BY <1>1, WindowIs DEF Larger
<1>4. upto \in Int /\ from <= upto /\ (upto = from \/ upto = now - RawRetention)
      /\ now - RawRetention <= upto /\ upto <= now /\ upper <= upto
  BY <1>1, WindowIs DEF Larger
<1>5. DetailSegments(window, now) = Segments(from, hourTo, minuteTo, now)
  BY DEF DetailSegments
<1> HIDE DEF from, upper, upto
<1>6. /\ hourTo \in Int /\ from <= hourTo /\ hourTo <= upper
      /\ hourTo > from => window = HourRetention /\ Started /\ hourTo <= cursor.hour
      /\ Started => hourTo >= cursor.hour \/ hourTo >= now - MinuteRetention
      /\ hourTo = from \/ hourTo = now - MinuteRetention \/ (Started /\ hourTo = cursor.hour)
  <2>1. CASE window = HourRetention
    <3> DEFINE c == Coverage(cursor.hour, from, upper)
    <3>1. /\ c \in Int /\ from <= c /\ c <= upper
          /\ c > from => cursor.hour # NoTime /\ c <= cursor.hour
          /\ cursor.hour # NoTime => c >= cursor.hour \/ c = upper
          /\ c = from \/ c = cursor.hour \/ c = upper
      BY <1>1, <1>2, <1>3, CoverageIs
    <3>2. hourTo = c
      BY <2>1
    <3> HIDE DEF c, hourTo
    <3> QED
      BY <1>1, <1>2, <1>3, <2>1, <3>1, <3>2, TiersAssumption
  <2>2. CASE window # HourRetention
    <3>1. hourTo = from
      BY <2>2
    <3>2. from >= now - MinuteRetention
      BY <1>1, <2>2, WindowIs DEF from
    <3> HIDE DEF hourTo
    <3> QED
      BY <1>1, <1>3, <3>1, <3>2
  <2> QED
    BY <2>1, <2>2
<1> HIDE DEF hourTo
<1>7. /\ minuteTo \in Int /\ hourTo <= minuteTo /\ minuteTo <= now
      /\ minuteTo > hourTo => window > RawRetention /\ Started /\ minuteTo <= cursor.minute
      /\ Started => minuteTo >= cursor.minute \/ minuteTo >= now - RawRetention
      /\ minuteTo = hourTo \/ minuteTo = now - RawRetention \/ (Started /\ minuteTo = cursor.minute)
  <2>1. CASE window <= RawRetention
    <3>1. minuteTo = from
      BY <2>1
    <3>2. from >= now - RawRetention /\ from <= now
      BY <1>1, <2>1, WindowIs DEF from
    <3>3. hourTo = from
      <4>1. CASE window # HourRetention
        BY <4>1 DEF hourTo
      <4>2. CASE window = HourRetention
        <5>1. window = MinuteRetention
          BY <2>1, <4>2, WindowIs
        <5>2. upper = from
          BY <1>1, <1>3, <5>1 DEF from
        <5> QED
          BY <1>1, <1>6, <5>2
      <4> QED
        BY <4>1, <4>2
    <3> HIDE DEF minuteTo
    <3> QED
      BY <1>1, <3>1, <3>2, <3>3
  <2>2. CASE ~(window <= RawRetention)
    <3> DEFINE c == Coverage(cursor.minute, hourTo, upto)
    <3>1. hourTo <= upto
      BY <1>3, <1>4, <1>6
    <3>2. /\ c \in Int /\ hourTo <= c /\ c <= upto
          /\ c > hourTo => cursor.minute # NoTime /\ c <= cursor.minute
          /\ cursor.minute # NoTime => c >= cursor.minute \/ c = upto
          /\ c = hourTo \/ c = cursor.minute \/ c = upto
      BY <1>2, <1>4, <1>6, <3>1, CoverageIs
    <3>3. minuteTo = c
      BY <2>2
    <3>4. window > RawRetention
      BY <2>2, WindowIs
    <3>5. upto = now - RawRetention
      BY <1>1, <1>4, <3>4, WindowIs DEF from
    <3> HIDE DEF c, minuteTo
    <3> QED
      BY <1>1, <1>2, <1>4, <1>6, <3>2, <3>3, <3>4, <3>5, TiersAssumption
  <2> QED
    BY <2>1, <2>2
<1> HIDE DEF minuteTo
<1> QED
  BY <1>5, <1>6, <1>7 DEF from

\* Where the list's tiers hand over.
LEMMA SummaryTiers ==
  ASSUME Inv, NEW window \in Windows
  PROVE  \E hourTo, minuteTo \in Int :
             /\ SummarySegments(window, now) = Segments(now - window, hourTo, minuteTo, now)
             /\ now - window <= hourTo /\ hourTo <= minuteTo /\ minuteTo <= now
             /\ hourTo > now - window => Started /\ hourTo <= cursor.hour
             /\ minuteTo > hourTo => Started /\ minuteTo <= cursor.minute
             /\ Started => hourTo >= cursor.hour /\ minuteTo >= cursor.minute
             /\ hourTo = now - window \/ (Started /\ hourTo = cursor.hour)
             /\ minuteTo = hourTo \/ (Started /\ minuteTo = cursor.minute)
<1> DEFINE from == now - window
           hourTo == Coverage(cursor.hour, from, now)
           minuteTo == Coverage(cursor.minute, hourTo, now)
<1>1. now \in Int /\ from \in Int /\ from <= now
  BY Kinds, WindowIs
<1>2. /\ cursor.hour \in Int \/ cursor.hour = NoTime
      /\ cursor.minute \in Int \/ cursor.minute = NoTime
      /\ Started <=> cursor.minute # NoTime
      /\ Started <=> cursor.hour # NoTime
      /\ Started => cursor.hour <= now /\ cursor.minute <= now /\ cursor.hour \in Int /\ cursor.minute \in Int
  BY Kinds DEF Inv, CursorOK, Started
<1>3. SummarySegments(window, now) = Segments(from, hourTo, minuteTo, now)
  BY DEF SummarySegments
<1>4. /\ hourTo \in Int /\ from <= hourTo /\ hourTo <= now
      /\ hourTo > from => cursor.hour # NoTime /\ hourTo <= cursor.hour
      /\ cursor.hour # NoTime => hourTo >= cursor.hour
      /\ hourTo = from \/ (cursor.hour # NoTime /\ hourTo = cursor.hour)
  BY <1>1, <1>2, TiersAssumption DEF Coverage
<1> HIDE DEF from, hourTo
<1>5. /\ minuteTo \in Int /\ hourTo <= minuteTo /\ minuteTo <= now
      /\ minuteTo > hourTo => cursor.minute # NoTime /\ minuteTo <= cursor.minute
      /\ cursor.minute # NoTime => minuteTo >= cursor.minute
      /\ minuteTo = hourTo \/ (cursor.minute # NoTime /\ minuteTo = cursor.minute)
  BY <1>1, <1>2, <1>4, TiersAssumption DEF Coverage
<1> HIDE DEF minuteTo
<1> QED
  BY <1>2, <1>3, <1>4, <1>5 DEF from

\* The invariant implies that the detail loses nothing.
LEMMA InvDetail == Inv => DetailLosesNothing
<1> SUFFICES ASSUME Inv, now = latest, NEW L \in Logical, NEW window \in Windows, NEW e \in Aliases(L)
             PROVE  AtMost(Carried(e, FirstWhole(now - window, ResolutionOf(window)), now),
                           DetailBytes(L, window, now))
  BY DEF DetailLosesNothing
<1> DEFINE since == FirstWhole(now - window, ResolutionOf(window))
<1>1. /\ now \in Int /\ latest \in Int /\ window \in Int /\ now - window \in Int
      /\ Hour \in Nat \ {0} /\ Minute \in Nat \ {0} /\ 1 \in Nat \ {0}
  BY Kinds, WindowIs
<1>2. ResolutionOf(window) \in {Hour, Minute, 1}
  BY DEF ResolutionOf
<1>3. since \in Int /\ since % ResolutionOf(window) = 0 /\ now - window <= since
  BY <1>1, <1>2, FirstWholeIs
<1>4. window = HourRetention => since % Hour = 0
  BY <1>3 DEF ResolutionOf
<1>5. window > RawRetention => since % Minute = 0
  <2> SUFFICES ASSUME window > RawRetention
               PROVE  since % Minute = 0
    OBVIOUS
  <2>1. CASE window = HourRetention
    BY <1>3, <1>4, <2>1, HoursAreMinutes
  <2>2. CASE window # HourRetention
    <3>1. ResolutionOf(window) = Minute
      BY <2>2, WindowIs DEF ResolutionOf
    <3> QED
      BY <1>3, <3>1
  <2> QED
    BY <2>1, <2>2
<1> HIDE DEF since
<1>6. PICK hourTo \in Int, minuteTo \in Int :
             /\ DetailSegments(window, now) = Segments(now - window, hourTo, minuteTo, now)
             /\ now - window <= hourTo /\ hourTo <= minuteTo /\ minuteTo <= now
             /\ hourTo > now - window => window = HourRetention /\ Started /\ hourTo <= cursor.hour
             /\ minuteTo > hourTo => window > RawRetention /\ Started /\ minuteTo <= cursor.minute
             /\ Started => hourTo >= cursor.hour \/ hourTo >= now - MinuteRetention
             /\ Started => minuteTo >= cursor.minute \/ minuteTo >= now - RawRetention
  BY DetailTiers
<1>7. TiersHold(now - window, hourTo, minuteTo, since)
  <2>1. hourTo > now - window => /\ Started /\ hourTo <= cursor.hour
                                 /\ now - window >= latest - HourRetention /\ since % Hour = 0
    BY <1>1, <1>4, <1>6
  <2>2. minuteTo > hourTo => /\ Started /\ minuteTo <= cursor.minute /\ since % Minute = 0
                             /\ hourTo >= cursor.hour \/ hourTo >= latest - MinuteRetention
    BY <1>5, <1>6
  <2>3. Started => minuteTo >= cursor.minute \/ minuteTo >= latest - RawRetention
    BY <1>6
  <2> QED
    BY <2>1, <2>2, <2>3 DEF TiersHold
<1>8. AtMost(Facing(redirects, e, Carries(ledger, e, since, now)),
             SumOf(Rows(L, now - window, hourTo, minuteTo, now)))
  BY <1>1, <1>3, <1>6, <1>7, RowsAtLeast
<1>9. DetailBytes(L, window, now) = SumOf(Rows(L, now - window, hourTo, minuteTo, now))
  BY <1>1, <1>6, DetailIsRows
<1>10. Carried(e, since, now) = Facing(redirects, e, Carries(ledger, e, since, now))
  BY <1>1, <1>3, AliasIs, CarriedIs
<1> QED
  BY <1>8, <1>9, <1>10 DEF since

\* What the properties say all aliases carried.
LEMMA AllIsCarried ==
  ASSUME Inv, NEW L \in Logical, NEW from \in Int
  PROVE  SumOf([e \in Aliases(L) |-> Carried(e, from, now)]) = All(L, from, now)
<1>1. \A e \in Aliases(L) : Carried(e, from, now) = Facing(redirects, e, Carries(ledger, e, from, now))
  BY Kinds, AliasIs, CarriedIs
<1>2. [e \in Aliases(L) |-> Carried(e, from, now)]
          = [e \in Aliases(L) |-> Facing(redirects, e, Carries(ledger, e, from, now))]
  BY <1>1
<1> QED
  BY <1>2 DEF All, Together

\* The invariant implies the bounds of the list.
LEMMA InvList == Inv => ListWithinAnHour
<1> SUFFICES ASSUME Inv, NEW L \in Logical, NEW window \in Windows
             PROVE  /\ AtMost(SummaryBytes(L, window, now),
                              SumOf([e \in Aliases(L) |-> Carried(e, now - window, now)]))
                    /\ now = latest =>
                          \A e \in Aliases(L) :
                              AtMost(Carried(e, FirstWhole(now - window, Hour), now), SummaryBytes(L, window, now))
  BY DEF ListWithinAnHour
<1>1. /\ now \in Int /\ latest \in Int /\ window \in Int /\ now - window \in Int
      /\ Hour \in Nat \ {0} /\ Minute \in Nat \ {0} /\ window <= HourRetention /\ HourRetention \in Int
  BY Kinds, WindowIs
<1>2. PICK hourTo \in Int, minuteTo \in Int :
             /\ SummarySegments(window, now) = Segments(now - window, hourTo, minuteTo, now)
             /\ now - window <= hourTo /\ hourTo <= minuteTo /\ minuteTo <= now
             /\ hourTo > now - window => Started /\ hourTo <= cursor.hour
             /\ minuteTo > hourTo => Started /\ minuteTo <= cursor.minute
             /\ Started => hourTo >= cursor.hour /\ minuteTo >= cursor.minute
             /\ hourTo = now - window \/ (Started /\ hourTo = cursor.hour)
             /\ minuteTo = hourTo \/ (Started /\ minuteTo = cursor.minute)
  BY SummaryTiers
<1>3. SummaryBytes(L, window, now) = SumOf(Rows(L, now - window, hourTo, minuteTo, now))
  BY <1>1, <1>2, SummaryIsRows
<1>4. AtMost(SummaryBytes(L, window, now), SumOf([e \in Aliases(L) |-> Carried(e, now - window, now)]))
  <2>1. HandOverAligned(now - window, hourTo, minuteTo)
    BY <1>2, Kinds DEF HandOverAligned
  <2>2. AtMost(SumOf(Rows(L, now - window, hourTo, minuteTo, now)), All(L, now - window, now))
    BY <1>1, <1>2, <2>1, RowsAtMost
  <2> QED
    BY <1>1, <1>3, <2>2, AllIsCarried
<1>5. ASSUME now = latest, NEW e \in Aliases(L)
      PROVE  AtMost(Carried(e, FirstWhole(now - window, Hour), now), SummaryBytes(L, window, now))
  <2> DEFINE since == FirstWhole(now - window, Hour)
  <2>1. since \in Int /\ since % Hour = 0 /\ now - window <= since
    BY <1>1, FirstWholeIs
  <2> HIDE DEF since
  <2>2. since % Minute = 0
    BY <2>1, HoursAreMinutes
  <2>3. TiersHold(now - window, hourTo, minuteTo, since)
    <3>1. hourTo > now - window => /\ Started /\ hourTo <= cursor.hour
                                   /\ now - window >= latest - HourRetention /\ since % Hour = 0
      BY <1>1, <1>2, <1>5, <2>1
    <3>2. minuteTo > hourTo => /\ Started /\ minuteTo <= cursor.minute /\ since % Minute = 0
                               /\ hourTo >= cursor.hour \/ hourTo >= latest - MinuteRetention
      BY <1>2, <2>2
    <3>3. Started => minuteTo >= cursor.minute \/ minuteTo >= latest - RawRetention
      BY <1>2
    <3> QED
      BY <3>1, <3>2, <3>3 DEF TiersHold
  <2>4. AtMost(Facing(redirects, e, Carries(ledger, e, since, now)),
               SumOf(Rows(L, now - window, hourTo, minuteTo, now)))
    BY <1>1, <1>2, <1>5, <2>1, <2>3, RowsAtLeast
  <2>5. Carried(e, since, now) = Facing(redirects, e, Carries(ledger, e, since, now))
    BY <1>1, <2>1, AliasIs, CarriedIs
  <2> QED
    BY <1>3, <2>4, <2>5 DEF since
<1> QED
  BY <1>4, <1>5

\* The invariant implies that aligned details count nothing twice.
LEMMA InvAligned == Inv => DetailExactWhenAligned
<1> SUFFICES ASSUME Inv, (now - MinuteRetention) % Hour = 0, (now - RawRetention) % Minute = 0,
                    NEW L \in Logical, NEW window \in Windows
             PROVE  AtMost(DetailBytes(L, window, now),
                           SumOf([e \in Aliases(L) |-> Carried(e, now - window, now)]))
  BY DEF DetailExactWhenAligned
<1>1. now \in Int /\ window \in Int /\ now - window \in Int
  BY Kinds, WindowIs
<1>2. PICK hourTo \in Int, minuteTo \in Int :
             /\ DetailSegments(window, now) = Segments(now - window, hourTo, minuteTo, now)
             /\ now - window <= hourTo /\ hourTo <= minuteTo /\ minuteTo <= now
             /\ hourTo = now - window \/ hourTo = now - MinuteRetention
                    \/ (Started /\ hourTo = cursor.hour)
             /\ minuteTo = hourTo \/ minuteTo = now - RawRetention
                    \/ (Started /\ minuteTo = cursor.minute)
  BY DetailTiers
<1>3. HandOverAligned(now - window, hourTo, minuteTo)
  BY <1>2, Kinds DEF HandOverAligned
<1>4. AtMost(SumOf(Rows(L, now - window, hourTo, minuteTo, now)), All(L, now - window, now))
  BY <1>1, <1>2, <1>3, RowsAtMost
<1>5. DetailBytes(L, window, now) = SumOf(Rows(L, now - window, hourTo, minuteTo, now))
  BY <1>1, <1>2, DetailIsRows
<1> QED
  BY <1>1, <1>4, <1>5, AllIsCarried

\* No answer of the edge detail says less than what any one alias carried since the
\* first whole interval of its window's resolution (detailTrafficSegments).
THEOREM AnswersLoseNothing == Spec => []DetailLosesNothing
  BY TiersInv, InvDetail, PTL

\* The History list loses at most the traffic of the hour its window starts in, and
\* never says more than the aliases carried together (summaryTrafficSegments).
THEOREM ListIsWithinAnHour == Spec => []ListWithinAnHour
  BY TiersInv, InvList, PTL

\* Where the tiers hand over on whole intervals, the detail says no more than the
\* aliases carried together (detailTrafficSegments).
THEOREM AlignedAnswersCountOnce == Spec => []DetailExactWhenAligned
  BY TiersInv, InvAligned, PTL

=============================================================================
