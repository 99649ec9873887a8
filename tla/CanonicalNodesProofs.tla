------------------------ MODULE CanonicalNodesProofs ------------------------
(* That nodes merge without anybody being lost: proofs about CanonicalNodes.   *)
(*                                                                             *)
(* Every operator from a state to a state keeps Sound, the invariant in parts, *)
(* and Leads on: what was said of a node is said of what the node has become.  *)
(* Leads is transitive, so a report, however its parts merge nodes that later  *)
(* parts speak of, is one long chain of such steps, and so is a directory.     *)
EXTENDS CanonicalNodes, FiniteSetTheorems, WellFoundedInduction, TLAPS

\* A set of naturals that is not empty has a least member.
LEMMA NatsHaveLeast ==
  ASSUME NEW S \in SUBSET Nat, S # {}
  PROVE  \E x \in S : \A y \in S : x <= y
<1>1. PICK x \in S : \A y \in S : ~(<<y, x>> \in OpToRel(<, Nat))
  BY NatLessThanWellFounded, WFMin
<1>2. \A y \in S : ~(y < x)
  BY <1>1 DEF OpToRel
<1> QED
  BY <1>2

\* A set of subsets that holds the empty one, and every one all of whose parts
\* with one element less it holds, holds the whole set.
LEMMA SetInduction ==
  ASSUME NEW S, IsFiniteSet(S), NEW Good, {} \in Good,
         \A T \in SUBSET S : T # {} /\ (\A x \in T : T \ {x} \in Good) => T \in Good
  PROVE  S \in Good
<1> SUFFICES ASSUME S \notin Good
             PROVE  FALSE
  OBVIOUS
<1> DEFINE Sizes == {n \in Nat : \E T \in SUBSET S : T \notin Good /\ Cardinality(T) = n}
<1>1. Cardinality(S) \in Sizes
  BY FS_CardinalityType
<1>2. PICK n \in Sizes : \A m \in Sizes : n <= m
  BY <1>1, NatsHaveLeast
<1>3. PICK T \in SUBSET S : T \notin Good /\ Cardinality(T) = n
  BY <1>2
<1>4. IsFiniteSet(T)
  BY FS_Subset
<1>5. PICK x \in T : T \ {x} \notin Good
  BY <1>3
<1>6. IsFiniteSet(T \ {x}) /\ Cardinality(T \ {x}) = n - 1 /\ Cardinality(T \ {x}) \in Nat
  BY <1>3, <1>4, <1>5, FS_RemoveElement, FS_CardinalityType
<1>7. T \ {x} \in SUBSET S
  BY <1>3
<1>8. n - 1 \in Sizes
  BY <1>5, <1>6, <1>7
<1> QED
  BY <1>2, <1>8

\* A set that holds zero and with a number the next holds every natural.
LEMMA NatInductionInSets ==
  ASSUME NEW G, 0 \in G, \A n \in Nat : n \in G => n + 1 \in G
  PROVE  Nat \subseteq G
<1> SUFFICES ASSUME NEW m \in Nat, m \notin G
             PROVE  FALSE
  OBVIOUS
<1>1. Nat \ G \in SUBSET Nat /\ Nat \ G # {}
  OBVIOUS
<1>2. PICK n \in Nat \ G : \A k \in Nat \ G : n <= k
  BY <1>1, NatsHaveLeast
<1>3. n # 0 /\ n - 1 \in Nat
  BY <1>2
<1>4. n - 1 \in G
  BY <1>2, <1>3
<1> QED
  BY <1>2, <1>3, <1>4

\* A finite set of naturals that is not empty has a greatest member, and Max is it.
LEMMA MaxIs ==
  ASSUME NEW S \in SUBSET Nat, S # {}, IsFiniteSet(S)
  PROVE  Max(S) \in S
<1> DEFINE Bounds(T) == {n \in Nat : \A x \in T : x <= n}
           G == {c \in Nat : \A T \in SUBSET Nat : IsFiniteSet(T) /\ Cardinality(T) = c => Bounds(T) # {}}
<1>1. 0 \in G
  <2>1. ASSUME NEW T \in SUBSET Nat, IsFiniteSet(T), Cardinality(T) = 0
        PROVE  0 \in Bounds(T)
    BY <2>1, FS_EmptySet
  <2> QED
    BY <2>1
<1>2. ASSUME NEW c \in Nat, c \in G
      PROVE  c + 1 \in G
  <2> SUFFICES ASSUME NEW T \in SUBSET Nat, IsFiniteSet(T), Cardinality(T) = c + 1
               PROVE  Bounds(T) # {}
    OBVIOUS
  <2>1. T # {}
    BY FS_EmptySet
  <2>2. PICK x \in T : TRUE
    BY <2>1
  <2>3. IsFiniteSet(T \ {x}) /\ Cardinality(T \ {x}) = c
    <3>1. IsFiniteSet(T \ {x}) /\ Cardinality(T \ {x}) = Cardinality(T) - 1
      BY <2>2, FS_RemoveElement
    <3> QED
      BY <3>1
  <2>4. Bounds(T \ {x}) # {}
    BY <2>3, <1>2
  <2>5. PICK b \in Nat : \A y \in T \ {x} : y <= b
    BY <2>4
  <2>6. x + b \in Bounds(T)
    BY <2>5
  <2> QED
    BY <2>6
<1>3. Nat \subseteq G
  <2> HIDE DEF G
  <2> QED
    BY <1>1, <1>2, NatInductionInSets
<1>4. Cardinality(S) \in G
  BY <1>3, FS_CardinalityType
<1>5. PICK b \in Nat : \A x \in S : x <= b
  BY <1>4
<1> DEFINE R == {n \in Nat : \A x \in S : x <= n}
<1>6. R \in SUBSET Nat /\ R # {}
  BY <1>5
<1>7. PICK m \in R : \A k \in R : m <= k
  <2> HIDE DEF R
  <2> QED
    BY <1>6, NatsHaveLeast
<1>8. m \in S
  <2> SUFFICES ASSUME m \notin S
               PROVE  FALSE
    OBVIOUS
  <2>1. PICK x \in S : TRUE
    OBVIOUS
  <2>2. m # 0 /\ m - 1 \in Nat
    BY <2>1, <1>7
  <2>3. m - 1 \in R
    BY <2>2, <1>7
  <2> QED
    BY <2>2, <2>3, <1>7
<1> QED
  BY <1>7, <1>8 DEF Max

-----------------------------------------------------------------------------
(* Folds.  One operator stands for the step of every fold of the model, so     *)
(* that what is true of folds is proved once.                                  *)

Step(kind, ctx, x, acc) ==
    CASE kind = "merge"   -> Merge(acc, ctx, x)
      [] kind = "infer"   -> Infer(acc, ctx, x)
      [] kind = "peers"   -> LET found == Resolve(acc.state, ctx[x].identity)
                             IN  [state |-> found.state, members |-> acc.members \cup {found.node}]
      [] kind = "samples" -> Sample(acc, ctx.o, ctx.peers[x])
      [] kind = "devices" -> LET found == ResolveDevice(acc.state, ctx[x], SharedKey(ctx, x))
                             IN  [state |-> found.state,
                                  ids |-> Put(acc.ids, {ctx[x].stable}, found.node)]
      [] kind = "parts"   -> Apply(acc, ctx, ctx.parts[x])

Pick(kind, T) == IF kind = "infer" THEN CHOOSE x \in T : TRUE ELSE Max(T)

Unfolds(kind, ctx, base, S, h) ==
    h = [T \in SUBSET S |->
            IF T = {} THEN base
            ELSE Step(kind, ctx, Pick(kind, T), h[T \ {Pick(kind, T)}])]

\* A fold over a finite set has a result: the recursive function exists.
LEMMA FoldExists ==
  ASSUME NEW kind, NEW ctx, NEW base, NEW S, IsFiniteSet(S),
         \A T \in SUBSET S : T # {} => Pick(kind, T) \in T
  PROVE  \E h : Unfolds(kind, ctx, base, S, h)
<1> DEFINE Low(n) == {T \in SUBSET S : Cardinality(T) <= n}
           Grown(n, g) == g = [T \in Low(n) |->
                             IF T = {} THEN base
                             ELSE Step(kind, ctx, Pick(kind, T), g[T \ {Pick(kind, T)}])]
           G == {n \in Nat : \E g : Grown(n, g)}
<1>1. ASSUME NEW T \in SUBSET S
      PROVE  IsFiniteSet(T) /\ Cardinality(T) \in Nat /\ (Cardinality(T) = 0 <=> T = {})
  BY FS_Subset, FS_CardinalityType, FS_EmptySet
<1>2. ASSUME NEW T \in SUBSET S, T # {}, NEW n \in Nat, Cardinality(T) <= n + 1
      PROVE  T \ {Pick(kind, T)} \in Low(n)
  <2>1. Pick(kind, T) \in T
    BY <1>2
  <2>2. Cardinality(T \ {Pick(kind, T)}) = Cardinality(T) - 1
    BY <2>1, <1>1, FS_RemoveElement
  <2> QED
    BY <2>2, <1>1, <1>2
<1>3. 0 \in G
  <2> DEFINE g == [T \in Low(0) |-> base]
  <2>1. \A T \in Low(0) : T = {}
    BY <1>1
  <2>2. Grown(0, g)
    BY <2>1
  <2> QED
    BY <2>2
<1>4. ASSUME NEW n \in Nat, n \in G
      PROVE  n + 1 \in G
  <2>1. PICK g : Grown(n, g)
    BY <1>4
  <2> DEFINE f == [T \in Low(n + 1) |->
                      IF T = {} THEN base
                      ELSE Step(kind, ctx, Pick(kind, T), g[T \ {Pick(kind, T)}])]
  <2>2. \A T \in Low(n) : T \in Low(n + 1)
    BY <1>1
  <2>3. \A T \in Low(n) : f[T] = g[T]
    BY <2>1, <2>2
  <2>4. \A T \in Low(n + 1) : T # {} => f[T \ {Pick(kind, T)}] = g[T \ {Pick(kind, T)}]
    <3> HIDE DEF f
    <3> QED
      BY <2>3, <1>2
  <2>5. f = [T \in Low(n + 1) |->
                IF T = {} THEN base
                ELSE Step(kind, ctx, Pick(kind, T), f[T \ {Pick(kind, T)}])]
    <3> DEFINE e == [T \in Low(n + 1) |->
                        IF T = {} THEN base
                        ELSE Step(kind, ctx, Pick(kind, T), f[T \ {Pick(kind, T)}])]
    <3> HIDE DEF Low
    <3>1. \A T \in Low(n + 1) : f[T] = e[T]
      BY <2>4
    <3> QED
      BY <3>1
  <2>6. Grown(n + 1, f)
    BY <2>5
  <2> HIDE DEF f, Grown
  <2> QED
    BY <2>6
<1>5. Nat \subseteq G
  <2> HIDE DEF G
  <2> QED
    BY <1>3, <1>4, NatInductionInSets
<1>6. PICK g : Grown(Cardinality(S), g)
  BY <1>1, <1>5
<1>7. Low(Cardinality(S)) = SUBSET S
  BY FS_Subset
<1> QED
  BY <1>6, <1>7 DEF Unfolds

-----------------------------------------------------------------------------
(* The inductive invariant, in parts, and what a step within a report keeps. *)

Fields == {"now", "live", "stable", "resolved", "report", "alias", "seen", "redirect", "edges",
           "observers", "holds", "scopes", "canonical", "order", "given", "touched", "broken"}

IsState(s) == s = [f \in Fields |-> s[f]]

\* A node's id is one of those given out, and no node has the id of a redirect.
NodesSound(s) ==
    /\ s.order \in Seq(1 .. Len(s.order)) /\ IsInjective(s.order) /\ s.given \in Nat
    /\ s.live \cup DOMAIN s.redirect = {IdAt(s.order, i) : i \in 1 .. s.given}
    /\ DOMAIN s.redirect \cap s.live = {}
    /\ \A n \in DOMAIN s.redirect : s.redirect[n] \in s.live
    /\ DOMAIN s.stable = s.live /\ DOMAIN s.report = s.live /\ s.resolved \subseteq s.live

\* A node's stable id is the alias that finds it, and every stable id among the
\* aliases finds a node that has one: so a node without one can be merged away
\* and no device of the directory is lost.
AliasesSound(s) ==
    /\ \A a \in DOMAIN s.alias : a \in Names /\ s.alias[a] \in s.live
    /\ DOMAIN s.seen \subseteq DOMAIN s.alias \cap Addresses
    /\ \A n \in s.live : s.stable[n] # None =>
           /\ s.stable[n] \in StableIds \cap DOMAIN s.alias
           /\ s.alias[s.stable[n]] = n
    /\ \A a \in DOMAIN s.alias \cap StableIds : s.stable[s.alias[a]] # None
    /\ \A x \in DOMAIN s.canonical :
           x \in StableIds \cap DOMAIN s.alias /\ s.canonical[x] = s.alias[x]

\* Each side of the ownership says what the other says.
OwnersAgree(s) ==
    /\ \A o \in DOMAIN s.observers :
           s.observers[o] = [owner |-> s.observers[o].owner, members |-> s.observers[o].members]
    /\ s.holds = [r \in Reporters |-> {o \in DOMAIN s.observers : s.observers[o].owner = r}]

ObserversSound(s) == DOMAIN s.observers \subseteq s.live /\ OwnersAgree(s)

IsScope(c) ==
    /\ c = [pair |-> c.pair, pairAt |-> c.pairAt, conflictAt |-> c.conflictAt, seen |-> c.seen,
            sessions |-> c.sessions]
    /\ IsFiniteSet(DOMAIN c.sessions)

ScopesSound(s) == \A k \in DOMAIN s.scopes : k = <<k[1], k[2]>> /\ IsScope(s.scopes[k])

Sound(s) == IsState(s) /\ NodesSound(s) /\ AliasesSound(s) /\ ObserversSound(s) /\ ScopesSound(s)

\* What was said of nodes of s is said in t of what they have become.
Follows(s, t) ==
    /\ \A n \in s.live : Became(t, n) \in t.live
    /\ \A n \in DOMAIN s.redirect : n \in DOMAIN t.redirect /\ t.redirect[n] = Became(t, s.redirect[n])
    /\ \A a \in DOMAIN s.alias \ Addresses :
           a \in DOMAIN t.alias /\ t.alias[a] = Became(t, s.alias[a])
    /\ \A m, n \in s.live : {m, n} \in DOMAIN s.edges /\ Became(t, m) # Became(t, n) =>
           {Became(t, m), Became(t, n)} \in DOMAIN t.edges

ScopesFollow(s, t) ==
    \A k \in DOMAIN s.scopes : k[1] \in s.live => <<Became(t, k[1]), k[2]>> \in DOMAIN t.scopes

\* One operation, or several of them.
Leads(s, t) == Sound(t) /\ Follows(s, t) /\ ScopesFollow(s, t)

\* Every stable id that was known finds the same node as before.
Unmoves(s, t) ==
    \A x \in StableIds \cap DOMAIN s.alias : x \in DOMAIN t.alias /\ t.alias[x] = s.alias[x]

\* What holds of a fold when the members of T are done.
Holds(kind, ctx, base, T, acc) ==
    CASE kind = "merge" ->
           /\ Leads(base, acc) /\ acc.live = base.live \ T /\ DOMAIN acc.alias = DOMAIN base.alias
           /\ \A n \in T : Became(acc, n) = ctx
      [] kind = "peers" -> Leads(base.state, acc.state)
      [] kind = "devices" ->
           /\ acc = [state |-> acc.state, ids |-> acc.ids]
           /\ Leads(base.state, acc.state)
           /\ \A x \in DOMAIN acc.ids : x \in StableIds \cap DOMAIN acc.state.alias
                                        /\ acc.ids[x] = acc.state.alias[x]
           /\ Unmoves(base.state, acc.state)
      [] OTHER -> Leads(base, acc)

\* A fold all of whose steps keep what holds of it ends with that.
LEMMA FoldHolds ==
  ASSUME NEW kind, NEW ctx, NEW base, NEW S, IsFiniteSet(S),
         \A T \in SUBSET S : T # {} => Pick(kind, T) \in T,
         NEW h, Unfolds(kind, ctx, base, S, h),
         Holds(kind, ctx, base, {}, base),
         \A T \in SUBSET S : \A x \in S \ T : \A acc :
             Holds(kind, ctx, base, T, acc) =>
                 Holds(kind, ctx, base, T \cup {x}, Step(kind, ctx, x, acc))
  PROVE  Holds(kind, ctx, base, S, h[S])
<1> DEFINE G == {T \in SUBSET S : \A U \in SUBSET T : Holds(kind, ctx, base, U, h[U])}
<1>1. h[{}] = base
  BY DEF Unfolds
<1>2. {} \in G
  BY <1>1
<1>3. ASSUME NEW T \in SUBSET S, \A x \in T : T \ {x} \in G
      PROVE  T \in G
  <2> SUFFICES ASSUME NEW U \in SUBSET T
               PROVE  Holds(kind, ctx, base, U, h[U])
    OBVIOUS
  <2>1. CASE U = {}
    BY <2>1, <1>1
  <2>2. CASE U # {}
    <3> DEFINE x == Pick(kind, U)
    <3>1. x \in U /\ U \in SUBSET S
      BY <2>2
    <3>2. h[U] = Step(kind, ctx, x, h[U \ {x}])
      BY <2>2, <3>1 DEF Unfolds
    <3> HIDE DEF x
    <3>3. U \ {x} \in SUBSET (T \ {x}) /\ x \in T
      BY <3>1
    <3>4. Holds(kind, ctx, base, U \ {x}, h[U \ {x}])
      BY <3>3, <1>3
    <3>5. U \ {x} \in SUBSET S /\ x \in S \ (U \ {x}) /\ (U \ {x}) \cup {x} = U
      BY <3>1
    <3>6. Holds(kind, ctx, base, (U \ {x}) \cup {x}, Step(kind, ctx, x, h[U \ {x}]))
      BY <3>4, <3>5
    <3> QED
      BY <3>2, <3>5, <3>6
  <2> QED
    BY <2>1, <2>2
<1>4. S \in G
  <2> HIDE DEF G
  <2> QED
    BY <1>2, <1>3, SetInduction
<1> QED
  BY <1>4

-----------------------------------------------------------------------------
(* What the operations have in common. *)

\* The ids of newNodeID are positive and never repeat.
LEMMA IdsApart ==
  ASSUME NEW order, order \in Seq(1 .. Len(order)), IsInjective(order)
  PROVE  /\ \A i \in Nat \ {0} : IdAt(order, i) \in Nat \ {0}
         /\ \A i, j \in Nat \ {0} : IdAt(order, i) = IdAt(order, j) => i = j
<1> DEFINE L == Len(order)
<1>1. L \in Nat /\ DOMAIN order = 1 .. L /\ \A i \in 1 .. L : order[i] \in 1 .. L
  OBVIOUS
<1>2. \A i, j \in 1 .. L : order[i] = order[j] => i = j
  BY <1>1 DEF IsInjective
<1>3. \A i \in Nat \ {0} : IdAt(order, i) = IF i <= L THEN order[i] ELSE i
  BY <1>1 DEF IdAt
<1> HIDE DEF L
<1>4. \A i \in Nat \ {0} : i <= L => i \in 1 .. L
  BY <1>1
<1>5. \A i \in Nat \ {0} : IdAt(order, i) \in Nat \ {0}
  BY <1>1, <1>3, <1>4
<1>6. ASSUME NEW i \in Nat \ {0}, NEW j \in Nat \ {0}, IdAt(order, i) = IdAt(order, j)
      PROVE  i = j
  <2>1. CASE i <= L /\ j <= L
    BY <2>1, <1>2, <1>3, <1>4, <1>6
  <2>2. CASE i <= L /\ ~(j <= L)
    BY <2>2, <1>1, <1>3, <1>4, <1>6
  <2>3. CASE ~(i <= L) /\ j <= L
    BY <2>3, <1>1, <1>3, <1>4, <1>6
  <2>4. CASE ~(i <= L) /\ ~(j <= L)
    BY <2>4, <1>3, <1>6
  <2> QED
    BY <2>1, <2>2, <2>3, <2>4
<1> QED
  BY <1>5, <1>6

\* Nodes are ids that were given out.
LEMMA NodesAreNaturals ==
  ASSUME NEW s, NodesSound(s)
  PROVE  s.live \subseteq Nat \ {0}
<1>1. \A n \in s.live : \E i \in 1 .. s.given : n = IdAt(s.order, i)
  BY DEF NodesSound
<1>2. \A i \in 1 .. s.given : i \in Nat \ {0}
  BY DEF NodesSound
<1> QED
  BY <1>1, <1>2, IdsApart DEF NodesSound

\* An operation that does nothing leads on.
LEMMA LeadsToItself ==
  ASSUME NEW s, Sound(s)
  PROVE  Leads(s, s)
<1>1. \A n \in s.live : Became(s, n) = n
  BY DEF Sound, NodesSound, Became
<1>2. \A n \in DOMAIN s.redirect : Became(s, s.redirect[n]) = s.redirect[n]
  BY <1>1 DEF Sound, NodesSound
<1>3. \A a \in DOMAIN s.alias : Became(s, s.alias[a]) = s.alias[a]
  BY <1>1 DEF Sound, AliasesSound
<1>4. Follows(s, s)
  BY <1>1, <1>2, <1>3 DEF Follows
<1>5. ScopesFollow(s, s)
  BY <1>1 DEF ScopesFollow, Sound, ScopesSound
<1> QED
  BY <1>4, <1>5 DEF Leads

\* Where a node ends up does not depend on where one looks in between.
LEMMA BecameInTwoSteps ==
  ASSUME NEW s, NEW t, NEW n, Sound(s), Follows(s, t), n \in s.live \/ n \in DOMAIN s.redirect
  PROVE  Became(t, n) = Became(t, Became(s, n))
<1>1. CASE n \in DOMAIN s.redirect
  BY <1>1 DEF Became, Follows
<1>2. CASE n \in s.live
  BY <1>2 DEF Became, Sound, NodesSound
<1> QED
  BY <1>1, <1>2

\* What follows in two steps follows in one.
LEMMA FollowsTransitive ==
  ASSUME NEW s, NEW t, NEW u, Sound(s), Sound(t), Follows(s, t), Follows(t, u)
  PROVE  Follows(s, u)
<1>1. ASSUME NEW n, n \in s.live
      PROVE  n \in t.live \/ n \in DOMAIN t.redirect
  BY <1>1 DEF Follows, Became
<1>2. ASSUME NEW n, n \in s.live
      PROVE  Became(u, n) = Became(u, Became(t, n)) /\ Became(t, n) \in t.live
  <2>1. n \in t.live \/ n \in DOMAIN t.redirect
    BY <1>1, <1>2
  <2>2. Became(t, n) \in t.live
    BY <1>2 DEF Follows
  <2>3. Became(u, n) = Became(u, Became(t, n))
    BY <2>1, BecameInTwoSteps
  <2> QED
    BY <2>2, <2>3
<1>3. \A n \in s.live : Became(u, n) \in u.live
  BY <1>2 DEF Follows
<1>4. \A n \in DOMAIN s.redirect : n \in DOMAIN u.redirect /\ u.redirect[n] = Became(u, s.redirect[n])
  <2> SUFFICES ASSUME NEW n \in DOMAIN s.redirect
               PROVE  n \in DOMAIN u.redirect /\ u.redirect[n] = Became(u, s.redirect[n])
    OBVIOUS
  <2>1. n \in DOMAIN t.redirect /\ t.redirect[n] = Became(t, s.redirect[n]) /\ s.redirect[n] \in s.live
    BY DEF Follows, Sound, NodesSound
  <2>2. n \in DOMAIN u.redirect /\ u.redirect[n] = Became(u, t.redirect[n])
    BY <2>1 DEF Follows
  <2> QED
    BY <2>1, <2>2, <1>2
<1>5. \A a \in DOMAIN s.alias \ Addresses :
          a \in DOMAIN u.alias /\ u.alias[a] = Became(u, s.alias[a])
  <2> SUFFICES ASSUME NEW a \in DOMAIN s.alias \ Addresses
               PROVE  a \in DOMAIN u.alias /\ u.alias[a] = Became(u, s.alias[a])
    OBVIOUS
  <2>1. a \in DOMAIN t.alias \ Addresses /\ t.alias[a] = Became(t, s.alias[a]) /\ s.alias[a] \in s.live
    BY DEF Follows, Sound, AliasesSound
  <2>2. a \in DOMAIN u.alias /\ u.alias[a] = Became(u, t.alias[a])
    BY <2>1 DEF Follows
  <2> QED
    BY <2>1, <2>2, <1>2
<1>6. ASSUME NEW m \in s.live, NEW n \in s.live, {m, n} \in DOMAIN s.edges, Became(u, m) # Became(u, n)
      PROVE  {Became(u, m), Became(u, n)} \in DOMAIN u.edges
  <2>1. Became(t, m) # Became(t, n)
    BY <1>6, <1>2
  <2>2. {Became(t, m), Became(t, n)} \in DOMAIN t.edges
    BY <1>6, <2>1 DEF Follows
  <2> DEFINE x == Became(t, m)
             y == Became(t, n)
  <2>3. x \in t.live /\ y \in t.live /\ Became(u, m) = Became(u, x) /\ Became(u, n) = Became(u, y)
    BY <1>2
  <2>4. {x, y} \in DOMAIN t.edges
    BY <2>2
  <2> HIDE DEF x, y
  <2>5. {Became(u, x), Became(u, y)} \in DOMAIN u.edges
    BY <1>6, <2>3, <2>4 DEF Follows
  <2> QED
    BY <2>3, <2>5
<1> QED
  BY <1>3, <1>4, <1>5, <1>6 DEF Follows

\* Two operations one after the other lead on when each does.
LEMMA LeadsTransitive ==
  ASSUME NEW s, NEW t, NEW u, Sound(s), Leads(s, t), Leads(t, u)
  PROVE  Leads(s, u)
<1>1. Sound(t) /\ Sound(u) /\ Follows(s, t) /\ Follows(t, u)
  BY DEF Leads
<1>2. Follows(s, u)
  BY <1>1, FollowsTransitive
<1>3. ASSUME NEW k \in DOMAIN s.scopes, k[1] \in s.live
      PROVE  <<Became(u, k[1]), k[2]>> \in DOMAIN u.scopes
  <2>1. Became(t, k[1]) \in t.live
    BY <1>1, <1>3 DEF Follows
  <2>2. Became(u, k[1]) = Became(u, Became(t, k[1]))
    <3>1. k[1] \in t.live \/ k[1] \in DOMAIN t.redirect
      BY <2>1 DEF Became
    <3> QED
      BY <3>1, <1>1, BecameInTwoSteps
  <2> DEFINE q == <<Became(t, k[1]), k[2]>>
  <2>3. q \in DOMAIN t.scopes /\ q[1] \in t.live
    BY <1>3, <2>1 DEF Leads, ScopesFollow
  <2>4. <<Became(u, q[1]), q[2]>> \in DOMAIN u.scopes
    <3> HIDE DEF q
    <3> QED
      BY <2>3 DEF Leads, ScopesFollow
  <2> QED
    BY <2>2, <2>4
<1> QED
  BY <1>1, <1>2, <1>3 DEF Leads, ScopesFollow

\* The parts of a state by which nodes are found.
SameNodes(s, t) ==
    /\ t.live = s.live /\ t.stable = s.stable /\ t.alias = s.alias /\ t.redirect = s.redirect
    /\ t.order = s.order /\ t.given = s.given
    /\ t.resolved \subseteq s.live /\ DOMAIN t.report = DOMAIN s.report

\* An operation that adds to what is said of nodes and finds nobody anew.
LEMMA Frame ==
  ASSUME NEW s, NEW t, Sound(s), IsState(t), SameNodes(s, t),
         t.seen = s.seen, t.canonical = s.canonical,
         ObserversSound(t), ScopesSound(t),
         DOMAIN s.edges \subseteq DOMAIN t.edges, DOMAIN s.scopes \subseteq DOMAIN t.scopes
  PROVE  Leads(s, t)
<1>1. NodesSound(t)
  BY DEF Sound, NodesSound, SameNodes
<1>2. AliasesSound(t)
  BY DEF Sound, AliasesSound, SameNodes
<1>3. Sound(t)
  BY <1>1, <1>2 DEF Sound
<1>4. \A n \in s.live : Became(t, n) = n
  BY DEF Sound, NodesSound, SameNodes, Became
<1>5. Follows(s, t)
  <2>1. \A n \in s.live : Became(t, n) \in t.live
    BY <1>4 DEF SameNodes
  <2>2. \A n \in DOMAIN s.redirect : n \in DOMAIN t.redirect /\ t.redirect[n] = Became(t, s.redirect[n])
    BY <1>4 DEF SameNodes, Sound, NodesSound
  <2>3. \A a \in DOMAIN s.alias \ Addresses : a \in DOMAIN t.alias /\ t.alias[a] = Became(t, s.alias[a])
    BY <1>4 DEF SameNodes, Sound, AliasesSound
  <2>4. \A m, n \in s.live : {m, n} \in DOMAIN s.edges /\ Became(t, m) # Became(t, n) =>
            {Became(t, m), Became(t, n)} \in DOMAIN t.edges
    BY <1>4
  <2> QED
    BY <2>1, <2>2, <2>3, <2>4 DEF Follows
<1>6. ScopesFollow(s, t)
  <2>1. \A k \in DOMAIN s.scopes : k = <<k[1], k[2]>>
    BY DEF Sound, ScopesSound
  <2> QED
    BY <1>4, <2>1 DEF ScopesFollow
<1> QED
  BY <1>3, <1>5, <1>6 DEF Leads

\* A set of two ends has two members only if they differ.
LEMMA PairCount ==
  ASSUME NEW x, NEW y, x # y
  PROVE  Cardinality({x, y}) = 2
<1>1. Cardinality({x}) = 1 /\ IsFiniteSet({x})
  BY FS_Singleton
<1>2. Cardinality({x} \cup {y}) = 2
  BY <1>1, FS_AddElement
<1>3. {x} \cup {y} = {x, y}
  OBVIOUS
<1> QED
  BY <1>2, <1>3

-----------------------------------------------------------------------------
(* A merge *)

\* mergeRelayScopes makes a scope of two.
LEMMA MergedScopeSound ==
  ASSUME NEW a, NEW b, IsScope(a), IsScope(b)
  PROVE  IsScope(MergedScope(a, b))
<1> DEFINE m == MergedScope(a, b)
<1>1. m = [pair |-> m.pair, pairAt |-> m.pairAt, conflictAt |-> m.conflictAt, seen |-> m.seen,
           sessions |-> m.sessions]
  BY DEF MergedScope
<1>2. DOMAIN m.sessions = DOMAIN a.sessions \cup DOMAIN b.sessions
  BY DEF MergedScope
<1>3. IsFiniteSet(DOMAIN m.sessions)
  BY <1>2, FS_Union DEF IsScope
<1> HIDE DEF m
<1> QED
  BY <1>1, <1>3 DEF IsScope, m

\* replaceRelayNodeReferencesLocked keeps every scope, under its relay's new id.
LEMMA MergedScopesSound ==
  ASSUME NEW s, ScopesSound(s), NEW keep, NEW remove
  PROVE  LET c == MergedScopes(s.scopes, keep, remove)
         IN  /\ DOMAIN c = {<<Renamed(q[1], keep, remove), q[2]>> : q \in DOMAIN s.scopes}
             /\ \A k \in DOMAIN c : k = <<k[1], k[2]>> /\ IsScope(c[k])
<1> DEFINE To(n) == Renamed(n, keep, remove)
           OfSession(y) ==
               [y EXCEPT !.ends = <<To(@[1]), To(@[2])>>,
                         !.clients = [d \in DOMAIN @ |-> To(@[d])]]
           Moved(k) ==
               [s.scopes[k] EXCEPT !.pair = {To(n) : n \in @},
                                   !.sessions = [x \in DOMAIN @ |-> OfSession(@[x])]]
           c == MergedScopes(s.scopes, keep, remove)
           Keys == {<<To(q[1]), q[2]>> : q \in DOMAIN s.scopes}
<1>1. ASSUME NEW k \in DOMAIN s.scopes
      PROVE  IsScope(Moved(k))
  <2> DEFINE pair == {To(n) : n \in s.scopes[k].pair}
             sessions == [x \in DOMAIN s.scopes[k].sessions |-> OfSession(s.scopes[k].sessions[x])]
  <2> HIDE DEF OfSession
  <2>1. IsScope(s.scopes[k])
    BY DEF ScopesSound
  <2>2. Moved(k) = [s.scopes[k] EXCEPT !.pair = pair, !.sessions = sessions]
    OBVIOUS
  <2>3. DOMAIN sessions = DOMAIN s.scopes[k].sessions
    OBVIOUS
  <2> HIDE DEF pair, sessions, Moved
  <2> QED
    BY <2>1, <2>2, <2>3 DEF IsScope
<1>2. c = [k \in Keys |->
            IF k[1] # keep \/ <<remove, k[2]>> \notin DOMAIN s.scopes THEN Moved(k)
            ELSE IF k \notin DOMAIN s.scopes THEN Moved(<<remove, k[2]>>)
            ELSE MergedScope(Moved(k), Moved(<<remove, k[2]>>))]
  BY DEF MergedScopes
<1>3. ASSUME NEW k \in Keys
      PROVE  k = <<k[1], k[2]>> /\ IsScope(c[k])
  <2>1. PICK q \in DOMAIN s.scopes : k = <<To(q[1]), q[2]>>
    OBVIOUS
  <2>2. q = <<q[1], q[2]>>
    BY DEF ScopesSound
  <2>3. k = <<k[1], k[2]>> /\ k[1] = To(q[1]) /\ k[2] = q[2]
    BY <2>1
  <2> HIDE DEF Moved, Keys
  <2>4. CASE q[1] = remove
    <3>1. k[1] = keep /\ <<remove, k[2]>> \in DOMAIN s.scopes
      BY <2>2, <2>3, <2>4 DEF Renamed
    <3>2. c[k] = IF k \notin DOMAIN s.scopes THEN Moved(<<remove, k[2]>>)
                 ELSE MergedScope(Moved(k), Moved(<<remove, k[2]>>))
      BY <3>1, <1>2
    <3> QED
      BY <3>1, <3>2, <2>3, <1>1, MergedScopeSound
  <2>5. CASE q[1] # remove
    <3>1. k \in DOMAIN s.scopes
      BY <2>2, <2>3, <2>5 DEF Renamed
    <3>2. c[k] = Moved(k) \/ (<<remove, k[2]>> \in DOMAIN s.scopes
                              /\ c[k] = MergedScope(Moved(k), Moved(<<remove, k[2]>>)))
      BY <3>1, <1>2
    <3> QED
      BY <3>1, <3>2, <2>3, <1>1, MergedScopeSound
  <2> QED
    BY <2>4, <2>5
<1>4. DOMAIN c = Keys
  BY <1>2
<1> HIDE DEF c
<1> QED
  BY <1>3, <1>4 DEF c

\* mergeObserverRuntimeStatesLocked: the observers and their reporters still agree.
LEMMA MergedObserversSound ==
  ASSUME NEW s, OwnersAgree(s), NEW keep, NEW remove, keep # remove,
         NEW t, t.observers = MergedObservers(s, keep, remove),
         t.holds = MergedHolds(s, t.observers, keep, remove)
  PROVE  /\ \A p \in DOMAIN t.observers : \E o \in DOMAIN s.observers : p = Renamed(o, keep, remove)
         /\ OwnersAgree(t)
<1> DEFINE To(n) == Renamed(n, keep, remove)
           k == s.observers[keep]
           r == s.observers[remove]
           newer == s.report[remove] > s.report[keep]
           both == [owner |-> IF newer \/ k.owner = None THEN r.owner ELSE k.owner,
                    members |-> k.members \cup r.members]
           Joined(o) == IF o # keep \/ remove \notin DOMAIN s.observers THEN s.observers[o]
                        ELSE IF keep \notin DOMAIN s.observers THEN r
                        ELSE both
           Ends == {To(o) : o \in DOMAIN s.observers}
<1>1. t.observers = [o \in Ends |-> [Joined(o) EXCEPT !.members = {To(m) : m \in @}]]
  BY DEF MergedObservers
<1>2. ASSUME NEW o \in Ends
      PROVE  Joined(o) = [owner |-> Joined(o).owner, members |-> Joined(o).members]
  <2>1. both = [owner |-> both.owner, members |-> both.members]
    OBVIOUS
  <2>2. o \in DOMAIN s.observers \/ (o = keep /\ remove \in DOMAIN s.observers)
    BY DEF Renamed
  <2> HIDE DEF both
  <2> QED
    BY <2>1, <2>2 DEF OwnersAgree
<1>3. ASSUME NEW o \in Ends
      PROVE  /\ t.observers[o] = [owner |-> t.observers[o].owner, members |-> t.observers[o].members]
             /\ t.observers[o].owner = Joined(o).owner
  <2> DEFINE j == Joined(o)
  <2>1. t.observers[o] = [j EXCEPT !.members = {To(m) : m \in j.members}]
    <3> HIDE DEF Joined, Ends
    <3> QED
      BY <1>1
  <2>2. j = [owner |-> j.owner, members |-> j.members]
    BY <1>2
  <2> HIDE DEF j
  <2> DEFINE members == {To(m) : m \in j.members}
             x == [j EXCEPT !.members = members]
  <2> HIDE DEF members
  <2>3. x.owner = j.owner /\ x = [owner |-> x.owner, members |-> x.members]
    BY <2>2
  <2>4. t.observers[o] = x
    BY <2>1 DEF members
  <2> HIDE DEF x
  <2> QED
    BY <2>3, <2>4 DEF j
<1>4. \A o \in Ends : o # keep => o \in DOMAIN s.observers /\ o # remove /\ t.observers[o].owner = s.observers[o].owner
  BY <1>3 DEF Renamed
<1>5. \A o \in DOMAIN s.observers : o # keep /\ o # remove => o \in Ends
  BY DEF Renamed
<1>6. DOMAIN t.observers = Ends
  BY <1>1
<1>7. ASSUME NEW p \in Reporters
      PROVE  t.holds[p] = {o \in DOMAIN t.observers : t.observers[o].owner = p}
  <2>1. t.holds[p] = (s.holds[p] \ {keep, remove}) \cup
                     (IF keep \in DOMAIN t.observers /\ t.observers[keep].owner = p THEN {keep} ELSE {})
    BY DEF MergedHolds
  <2>2. s.holds[p] = {o \in DOMAIN s.observers : s.observers[o].owner = p}
    BY DEF OwnersAgree
  <2> HIDE DEF Ends
  <2> QED
    BY <2>1, <2>2, <1>4, <1>5, <1>6
<1>8. t.holds = [p \in Reporters |-> t.holds[p]]
  BY DEF MergedHolds
<1> HIDE DEF Ends
<1>9. t.holds = [p \in Reporters |-> {o \in DOMAIN t.observers : t.observers[o].owner = p}]
  BY <1>7, <1>8
<1>10. OwnersAgree(t)
  BY <1>3, <1>6, <1>9 DEF OwnersAgree
<1> QED
  BY <1>6, <1>10 DEF Ends

\* What mergeNodesLocked writes, field by field.
LEMMA MergeFields ==
  ASSUME NEW s, IsState(s), NEW keep, NEW remove, keep # remove, keep \in s.live, remove \in s.live
  PROVE  LET t == Merge(s, keep, remove)
         IN  /\ IsState(t)
             /\ t.live = s.live \ {remove}
             /\ t.stable = [n \in DOMAIN s.stable \ {remove} |->
                    IF n = keep /\ s.stable[n] = None THEN s.stable[remove] ELSE s.stable[n]]
             /\ t.resolved = {Renamed(n, keep, remove) : n \in s.resolved}
             /\ DOMAIN t.report = DOMAIN s.report \ {remove}
             /\ t.redirect = Redirected(s.redirect, keep, remove)
             /\ t.alias = [a \in DOMAIN s.alias |-> Renamed(s.alias[a], keep, remove)]
             /\ t.observers = MergedObservers(s, keep, remove)
             /\ t.holds = MergedHolds(s, t.observers, keep, remove)
             /\ t.edges = MergedEdges(s.edges, keep, remove)
             /\ t.scopes = MergedScopes(s.scopes, keep, remove)
             /\ t.canonical = Followed(s.canonical, keep, remove)
             /\ t.order = s.order /\ t.given = s.given /\ t.seen = s.seen /\ t.now = s.now
             /\ t.touched = s.touched /\ t.broken = s.broken
<1> DEFINE To(n) == Renamed(n, keep, remove)
           report == [n \in DOMAIN s.report \ {remove} |->
                         IF n = keep THEN Later(s.report[n], s.report[remove]) ELSE s.report[n]]
           stable == [n \in DOMAIN s.stable \ {remove} |->
                         IF n = keep /\ s.stable[n] = None THEN s.stable[remove] ELSE s.stable[n]]
           observers == MergedObservers(s, keep, remove)
           holds == MergedHolds(s, observers, keep, remove)
           alias == [a \in DOMAIN s.alias |-> To(s.alias[a])]
           resolved == {To(n) : n \in s.resolved}
           edges == MergedEdges(s.edges, keep, remove)
           scopes == MergedScopes(s.scopes, keep, remove)
           canonical == Followed(s.canonical, keep, remove)
           redirect == Redirected(s.redirect, keep, remove)
           t == Merge(s, keep, remove)
<1>1. t = [s EXCEPT !.live = s.live \ {remove}, !.stable = stable, !.resolved = resolved,
                    !.report = report, !.redirect = redirect, !.alias = alias,
                    !.observers = observers, !.holds = holds, !.edges = edges,
                    !.scopes = scopes, !.canonical = canonical]
  BY DEF Merge
<1>2. DOMAIN report = DOMAIN s.report \ {remove}
  OBVIOUS
<1> HIDE DEF report, stable, observers, holds, alias, resolved, edges, scopes, canonical, redirect, t
<1>3. IsState(t)
  BY <1>1 DEF IsState, Fields
<1>4. /\ t.live = s.live \ {remove} /\ t.stable = stable /\ t.resolved = resolved
      /\ t.report = report /\ t.redirect = redirect /\ t.alias = alias
  BY <1>1 DEF IsState, Fields
<1>5. /\ t.observers = observers /\ t.holds = holds /\ t.edges = edges
      /\ t.scopes = scopes /\ t.canonical = canonical
  BY <1>1 DEF IsState, Fields
<1>6. /\ t.order = s.order /\ t.given = s.given /\ t.seen = s.seen /\ t.now = s.now
      /\ t.touched = s.touched /\ t.broken = s.broken
  BY <1>1 DEF IsState, Fields
<1>7. t.holds = MergedHolds(s, t.observers, keep, remove)
  BY <1>5 DEF holds
<1>8. t.alias = [a \in DOMAIN s.alias |-> Renamed(s.alias[a], keep, remove)]
  BY <1>4 DEF alias
<1>9. t.resolved = {Renamed(n, keep, remove) : n \in s.resolved}
  BY <1>4 DEF resolved
<1>10. t.stable = [n \in DOMAIN s.stable \ {remove} |->
           IF n = keep /\ s.stable[n] = None THEN s.stable[remove] ELSE s.stable[n]]
  BY <1>4 DEF stable
<1>11. /\ t.redirect = Redirected(s.redirect, keep, remove)
       /\ t.observers = MergedObservers(s, keep, remove)
       /\ t.edges = MergedEdges(s.edges, keep, remove)
       /\ t.scopes = MergedScopes(s.scopes, keep, remove)
       /\ t.canonical = Followed(s.canonical, keep, remove)
  BY <1>4, <1>5 DEF redirect, observers, edges, scopes, canonical
<1>12. DOMAIN t.report = DOMAIN s.report \ {remove}
  BY <1>2, <1>4
<1> HIDE DEF To
<1> QED
  BY <1>3, <1>4, <1>6, <1>7, <1>8, <1>9, <1>10, <1>11, <1>12 DEF t

\* Two nodes become one: every index leads on, every reference is moved.
LEMMA MergeMoves ==
  ASSUME NEW s, Sound(s), NEW keep, NEW remove, keep # remove, keep \in s.live, remove \in s.live
  PROVE  LET t == Merge(s, keep, remove)
         IN  Leads(s, t) /\ t.live = s.live \ {remove} /\ Became(t, remove) = keep
             /\ DOMAIN t.alias = DOMAIN s.alias
             /\ \A n \in DOMAIN s.redirect : Became(s, n) = keep => Became(t, n) = keep
<1> DEFINE t == Merge(s, keep, remove)
           To(n) == Renamed(n, keep, remove)
<1>1. /\ IsState(t) /\ t.live = s.live \ {remove}
      /\ t.stable = [n \in DOMAIN s.stable \ {remove} |->
             IF n = keep /\ s.stable[n] = None THEN s.stable[remove] ELSE s.stable[n]]
      /\ t.resolved = {To(n) : n \in s.resolved} /\ DOMAIN t.report = DOMAIN s.report \ {remove}
      /\ t.redirect = Redirected(s.redirect, keep, remove)
      /\ t.alias = [a \in DOMAIN s.alias |-> To(s.alias[a])]
      /\ t.observers = MergedObservers(s, keep, remove)
      /\ t.holds = MergedHolds(s, t.observers, keep, remove)
      /\ t.edges = MergedEdges(s.edges, keep, remove)
      /\ t.scopes = MergedScopes(s.scopes, keep, remove)
      /\ t.canonical = Followed(s.canonical, keep, remove)
      /\ t.order = s.order /\ t.given = s.given /\ t.seen = s.seen
  BY MergeFields DEF Sound
<1> HIDE DEF t
<1>2. \A n \in s.live : To(n) \in t.live
  BY <1>1 DEF Renamed
<1>3. /\ DOMAIN t.redirect = DOMAIN s.redirect \cup {remove}
      /\ t.redirect[remove] = keep
      /\ \A n \in DOMAIN s.redirect : n # remove /\ t.redirect[n] = To(s.redirect[n])
  BY <1>1 DEF Redirected, Renamed, Sound, NodesSound
<1>4. \A n \in s.live : Became(t, n) = To(n)
  BY <1>3 DEF Became, Renamed, Sound, NodesSound
<1>5. NodesSound(t)
  <2>1. t.live \cup DOMAIN t.redirect = s.live \cup DOMAIN s.redirect
    BY <1>1, <1>3
  <2>2. DOMAIN t.redirect \cap t.live = {}
    BY <1>1, <1>3 DEF Sound, NodesSound
  <2>3. \A n \in DOMAIN t.redirect : t.redirect[n] \in t.live
    BY <1>1, <1>2, <1>3 DEF Sound, NodesSound
  <2>4. DOMAIN t.stable = t.live /\ DOMAIN t.report = t.live
    BY <1>1 DEF Sound, NodesSound
  <2>5. t.resolved \subseteq t.live
    BY <1>1, <1>2 DEF Sound, NodesSound
  <2> QED
    BY <1>1, <2>1, <2>2, <2>3, <2>4, <2>5 DEF Sound, NodesSound
<1>6. AliasesSound(t)
  <2>1. DOMAIN t.alias = DOMAIN s.alias /\ \A a \in DOMAIN s.alias : t.alias[a] = To(s.alias[a])
    BY <1>1
  <2>2. DOMAIN s.stable = s.live
    BY DEF Sound, NodesSound
  <2>3. \A a \in DOMAIN t.alias : a \in Names /\ t.alias[a] \in t.live
    BY <1>2, <2>1 DEF Sound, AliasesSound
  <2>4. ASSUME NEW n \in t.live, t.stable[n] # None
        PROVE  t.stable[n] \in StableIds \cap DOMAIN t.alias /\ t.alias[t.stable[n]] = n
    <3>1. CASE n = keep /\ s.stable[keep] = None
      <4>1. t.stable[n] = s.stable[remove]
        BY <1>1, <2>2, <3>1
      <4> QED
        BY <2>1, <2>4, <3>1, <4>1 DEF Sound, AliasesSound, Renamed
    <3>2. CASE ~(n = keep /\ s.stable[keep] = None)
      <4>1. t.stable[n] = s.stable[n] /\ n # remove /\ n \in s.live
        BY <1>1, <2>2, <3>2
      <4> QED
        BY <2>1, <2>4, <4>1 DEF Sound, AliasesSound, Renamed
    <3> QED
      BY <3>1, <3>2
  <2>5. ASSUME NEW a \in DOMAIN t.alias \cap StableIds
        PROVE  t.stable[t.alias[a]] # None
    <3>1. s.stable[s.alias[a]] # None /\ s.alias[a] \in s.live /\ t.alias[a] = To(s.alias[a])
      BY <2>1 DEF Sound, AliasesSound
    <3>2. CASE s.alias[a] = remove
      <4>1. t.stable[keep] = IF s.stable[keep] = None THEN s.stable[remove] ELSE s.stable[keep]
        BY <1>1, <2>2
      <4> QED
        BY <3>1, <3>2, <4>1 DEF Renamed
    <3>3. CASE s.alias[a] # remove
      <4>1. t.alias[a] = s.alias[a]
        BY <3>1, <3>3 DEF Renamed
      <4>2. t.stable[s.alias[a]] = s.stable[s.alias[a]]
        BY <1>1, <2>2, <3>1, <3>3
      <4> QED
        BY <3>1, <4>1, <4>2
    <3> QED
      BY <3>2, <3>3
  <2>6. ASSUME NEW x \in DOMAIN t.canonical
        PROVE  x \in StableIds \cap DOMAIN t.alias /\ t.canonical[x] = t.alias[x]
    BY <1>1, <2>1 DEF Sound, AliasesSound, Followed, Renamed
  <2>7. DOMAIN t.seen \subseteq DOMAIN t.alias \cap Addresses
    BY <1>1, <2>1 DEF Sound, AliasesSound
  <2> QED
    BY <2>3, <2>4, <2>5, <2>6, <2>7 DEF AliasesSound
<1>7. ObserversSound(t)
  <2>1. /\ \A p \in DOMAIN t.observers : \E o \in DOMAIN s.observers : p = To(o)
        /\ OwnersAgree(t)
    <3>1. OwnersAgree(s) /\ t.observers = MergedObservers(s, keep, remove)
          /\ t.holds = MergedHolds(s, t.observers, keep, remove)
      BY <1>1 DEF Sound, ObserversSound
    <3> QED
      BY <3>1, MergedObserversSound
  <2>2. DOMAIN t.observers \subseteq t.live
    BY <2>1, <1>2 DEF Sound, ObserversSound
  <2> QED
    BY <2>1, <2>2 DEF ObserversSound
<1>8. /\ DOMAIN t.scopes = {<<To(q[1]), q[2]>> : q \in DOMAIN s.scopes}
      /\ \A k \in DOMAIN t.scopes : k = <<k[1], k[2]>> /\ IsScope(t.scopes[k])
  <2>1. ScopesSound(s)
    BY DEF Sound
  <2>2. LET c == MergedScopes(s.scopes, keep, remove)
        IN  /\ DOMAIN c = {<<Renamed(q[1], keep, remove), q[2]>> : q \in DOMAIN s.scopes}
            /\ \A k \in DOMAIN c : k = <<k[1], k[2]>> /\ IsScope(c[k])
    BY <2>1, MergedScopesSound, Zenon
  <2>3. t.scopes = MergedScopes(s.scopes, keep, remove)
    BY <1>1
  <2> QED
    BY <2>2, <2>3
<1>9. Sound(t)
  BY <1>1, <1>5, <1>6, <1>7, <1>8 DEF Sound, ScopesSound
<1>10. Follows(s, t)
  <2>1. \A n \in DOMAIN s.redirect : n \in DOMAIN t.redirect /\ t.redirect[n] = Became(t, s.redirect[n])
    BY <1>3, <1>4 DEF Sound, NodesSound
  <2>2. \A a \in DOMAIN s.alias : a \in DOMAIN t.alias /\ t.alias[a] = Became(t, s.alias[a])
    BY <1>1, <1>4 DEF Sound, AliasesSound
  <2>3. ASSUME NEW m \in s.live, NEW n \in s.live, {m, n} \in DOMAIN s.edges, To(m) # To(n)
        PROVE  {To(m), To(n)} \in DOMAIN t.edges
    <3> DEFINE Ends(e) == {To(x) : x \in e}
               kept == {e \in DOMAIN s.edges : Cardinality(Ends(e)) = 2}
    <3>1. Ends({m, n}) = {To(m), To(n)}
      OBVIOUS
    <3>2. Cardinality({To(m), To(n)}) = 2
      BY <2>3, PairCount
    <3>3. {m, n} \in kept
      BY <2>3, <3>1, <3>2
    <3>4. DOMAIN t.edges = {Ends(e) : e \in kept}
      BY <1>1 DEF MergedEdges
    <3> QED
      BY <3>1, <3>3, <3>4
  <2>4. \A n \in s.live : Became(t, n) \in t.live
    BY <1>2, <1>4
  <2>5. \A m, n \in s.live : {m, n} \in DOMAIN s.edges /\ Became(t, m) # Became(t, n) =>
            {Became(t, m), Became(t, n)} \in DOMAIN t.edges
    BY <1>4, <2>3
  <2> QED
    BY <2>1, <2>2, <2>4, <2>5 DEF Follows
<1>11. ScopesFollow(s, t)
  BY <1>4, <1>8 DEF ScopesFollow
<1>12. Became(t, remove) = keep
  BY <1>3 DEF Became
<1>13. \A n \in DOMAIN s.redirect : Became(s, n) = keep => Became(t, n) = keep
  BY <1>3 DEF Became, Renamed
<1>14. Leads(s, t) /\ t.live = s.live \ {remove} /\ DOMAIN t.alias = DOMAIN s.alias
  BY <1>1, <1>9, <1>10, <1>11 DEF Leads
<1> HIDE DEF To
<1> QED
  BY <1>12, <1>13, <1>14 DEF t

\* A merge of a node with itself, or with one that is gone, is no step at all.
LEMMA MergeLeads ==
  ASSUME NEW s, Sound(s), NEW keep, NEW remove
  PROVE  Leads(s, Merge(s, keep, remove)) /\ (keep \in s.live => keep \in Merge(s, keep, remove).live)
<1>1. CASE keep # remove /\ keep \in s.live /\ remove \in s.live
  BY <1>1, MergeMoves
<1>2. CASE ~(keep # remove /\ keep \in s.live /\ remove \in s.live)
  <2>1. Merge(s, keep, remove) = s
    BY <1>2 DEF Merge
  <2> QED
    BY <2>1, LeadsToItself
<1> QED
  BY <1>1, <1>2

\* A merge of several nodes into one: each has become that one.
LEMMA MergeAllLeads ==
  ASSUME NEW s, Sound(s), NEW keep, keep \in s.live, NEW nodes, nodes \subseteq s.live \ {keep},
         IsFiniteSet(nodes)
  PROVE  LET t == MergeAll(s, keep, nodes)
         IN  Leads(s, t) /\ t.live = s.live \ nodes /\ DOMAIN t.alias = DOMAIN s.alias
             /\ \A n \in nodes : Became(t, n) = keep
<1> DEFINE P(h) == h = [T \in SUBSET nodes |->
                           IF T = {} THEN s ELSE Merge(h[T \ {Max(T)}], keep, Max(T))]
<1>1. \A T \in SUBSET nodes : T # {} => Pick("merge", T) \in T
  <2> SUFFICES ASSUME NEW T \in SUBSET nodes, T # {}
               PROVE  Max(T) \in T
    BY DEF Pick
  <2>1. T \in SUBSET Nat /\ IsFiniteSet(T)
    BY FS_Subset, NodesAreNaturals DEF Sound
  <2> QED
    BY <2>1, MaxIs
<1>2. \A h : Unfolds("merge", keep, s, nodes, h) <=> P(h)
  BY DEF Unfolds, Step, Pick
<1>3. \E h : P(h)
  <2>1. \E h : Unfolds("merge", keep, s, nodes, h)
    BY <1>1, FoldExists
  <2> QED
    BY <2>1, <1>2
<1> DEFINE h == CHOOSE h : P(h)
<1>4. P(h)
  BY <1>3
<1>5. MergeAll(s, keep, nodes) = h[nodes]
  BY DEF MergeAll, MapThenFoldSet
<1> HIDE DEF h, P
<1>6. Holds("merge", keep, s, {}, s)
  BY LeadsToItself DEF Holds
<1>7. ASSUME NEW T \in SUBSET nodes, NEW x \in nodes \ T, NEW acc, Holds("merge", keep, s, T, acc)
      PROVE  Holds("merge", keep, s, T \cup {x}, Step("merge", keep, x, acc))
  <2> DEFINE t == Merge(acc, keep, x)
  <2>1. /\ Leads(s, acc) /\ acc.live = s.live \ T /\ DOMAIN acc.alias = DOMAIN s.alias
        /\ \A n \in T : Became(acc, n) = keep
    BY <1>7 DEF Holds
  <2>2. Sound(acc) /\ keep # x /\ keep \in acc.live /\ x \in acc.live
    BY <2>1 DEF Leads
  <2>3. /\ Leads(acc, t) /\ t.live = acc.live \ {x} /\ Became(t, x) = keep /\ DOMAIN t.alias = DOMAIN acc.alias
        /\ \A n \in DOMAIN acc.redirect : Became(acc, n) = keep => Became(t, n) = keep
    BY <2>2, MergeMoves
  <2>4. \A n \in T : n \in DOMAIN acc.redirect
    <3>1. \A n \in T : n # keep
      OBVIOUS
    <3> QED
      BY <3>1, <2>1 DEF Became
  <2>5. Leads(s, t)
    BY <2>1, <2>3, LeadsTransitive
  <2> HIDE DEF t
  <2>6. t.live = s.live \ (T \cup {x}) /\ DOMAIN t.alias = DOMAIN s.alias
        /\ \A n \in T \cup {x} : Became(t, n) = keep
    BY <2>1, <2>3, <2>4
  <2>7. Step("merge", keep, x, acc) = t
    BY DEF Step, t
  <2> QED
    BY <2>5, <2>6, <2>7 DEF Holds
<1>8. Holds("merge", keep, s, nodes, h[nodes])
  <2>1. Unfolds("merge", keep, s, nodes, h)
    BY <1>2, <1>4
  <2> QED
    BY <2>1, <1>1, <1>6, <1>7, FoldHolds
<1> QED
  BY <1>5, <1>8 DEF Holds

-----------------------------------------------------------------------------
(* From an identity to a node *)

\* newNodeID: the new node has an id nobody has or had.
LEMMA NewNodeLeads ==
  ASSUME NEW s, Sound(s)
  PROVE  LET r == NewNode(s)
         IN  /\ r = [node |-> r.node, state |-> r.state]
             /\ Leads(s, r.state) /\ r.node \in r.state.live
             /\ r.state.alias = s.alias /\ r.state.redirect = s.redirect
<1> DEFINE n == IdAt(s.order, s.given + 1)
           t == NewNode(s).state
           stable == Put(s.stable, {n}, None)
           report == Put(s.report, {n}, 0)
<1>1. NewNode(s) = [node |-> n, state |-> t]
  BY DEF NewNode
<1>2. t = [s EXCEPT !.live = s.live \cup {n}, !.stable = stable, !.report = report, !.given = s.given + 1]
  BY DEF NewNode
<1>3. /\ DOMAIN stable = DOMAIN s.stable \cup {n} /\ DOMAIN report = DOMAIN s.report \cup {n}
      /\ stable[n] = None /\ \A m \in DOMAIN s.stable : m # n => stable[m] = s.stable[m]
  BY DEF Put
<1> HIDE DEF stable, report, t, n
<1>4. IsState(s)
  BY DEF Sound
<1>5. /\ IsState(t) /\ t.live = s.live \cup {n} /\ t.stable = stable /\ t.report = report
      /\ t.given = s.given + 1 /\ t.alias = s.alias /\ t.redirect = s.redirect /\ t.order = s.order
  BY <1>2, <1>4 DEF IsState, Fields
<1>6. /\ t.seen = s.seen /\ t.canonical = s.canonical /\ t.observers = s.observers
      /\ t.holds = s.holds /\ t.scopes = s.scopes /\ t.edges = s.edges /\ t.resolved = s.resolved
  BY <1>2, <1>4 DEF IsState, Fields
<1>7. n \notin s.live \cup DOMAIN s.redirect
  <2>1. \A i \in 1 .. s.given : i \in Nat \ {0} /\ i # s.given + 1 /\ s.given + 1 \in Nat \ {0}
    BY DEF Sound, NodesSound
  <2>2. \A i \in 1 .. s.given : IdAt(s.order, i) # n
    BY <2>1, IdsApart DEF Sound, NodesSound, n
  <2> QED
    BY <2>2 DEF Sound, NodesSound
<1>8. NodesSound(t)
  <2>1. t.live \cup DOMAIN t.redirect = {IdAt(t.order, i) : i \in 1 .. t.given}
    <3>1. 1 .. t.given = (1 .. s.given) \cup {s.given + 1}
      BY <1>5 DEF Sound, NodesSound
    <3>2. s.live \cup DOMAIN s.redirect = {IdAt(s.order, i) : i \in 1 .. s.given}
      BY DEF Sound, NodesSound
    <3> QED
      BY <1>5, <3>1, <3>2 DEF n
  <2> QED
    BY <2>1, <1>3, <1>5, <1>6, <1>7 DEF Sound, NodesSound
<1>9. AliasesSound(t)
  <2>1. DOMAIN s.stable = s.live
    BY DEF Sound, NodesSound
  <2>2. \A m \in s.live : m # n /\ t.stable[m] = s.stable[m]
    BY <2>1, <1>3, <1>5, <1>7
  <2>3. \A a \in DOMAIN s.alias : s.alias[a] \in s.live
    BY DEF Sound, AliasesSound
  <2> QED
    BY <1>3, <1>5, <1>6, <2>2, <2>3 DEF Sound, AliasesSound
<1>10. Sound(t)
  BY <1>5, <1>6, <1>8, <1>9 DEF Sound, ObserversSound, OwnersAgree, ScopesSound
<1>11. \A m \in s.live : Became(t, m) = m
  BY <1>5 DEF Became, Sound, NodesSound
<1>12. Follows(s, t)
  <2>1. \A m \in s.live : Became(t, m) \in t.live
    BY <1>5, <1>11
  <2>2. \A m \in DOMAIN s.redirect : m \in DOMAIN t.redirect /\ t.redirect[m] = Became(t, s.redirect[m])
    BY <1>5, <1>11 DEF Sound, NodesSound
  <2>3. \A a \in DOMAIN s.alias \ Addresses : a \in DOMAIN t.alias /\ t.alias[a] = Became(t, s.alias[a])
    BY <1>5, <1>11 DEF Sound, AliasesSound
  <2>4. \A k, m \in s.live : {k, m} \in DOMAIN s.edges /\ Became(t, k) # Became(t, m) =>
            {Became(t, k), Became(t, m)} \in DOMAIN t.edges
    BY <1>6, <1>11
  <2> QED
    BY <2>1, <2>2, <2>3, <2>4 DEF Follows
<1>13. ScopesFollow(s, t)
  BY <1>6, <1>11 DEF ScopesFollow, Sound, ScopesSound
<1>14. Leads(s, t)
  BY <1>10, <1>12, <1>13 DEF Leads
<1> QED
  BY <1>1, <1>5, <1>14

\* The node n takes names on: none of them may find another node but an address.
Takes(s, t, n, keys) ==
    /\ n \in s.live /\ keys \subseteq Names /\ IsState(t)
    /\ t.alias = Put(s.alias, keys, n)
    /\ DOMAIN t.seen \subseteq DOMAIN s.seen \cup (keys \cap Addresses)
    /\ DOMAIN t.stable = s.live /\ \A m \in s.live : m # n => t.stable[m] = s.stable[m]
    /\ \/ t.stable[n] = s.stable[n] /\ keys \cap StableIds = {}
       \/ t.stable[n] \in StableIds /\ keys \cap StableIds = {t.stable[n]}
    /\ \A a \in keys : a \in DOMAIN s.alias => a \in Addresses \/ s.alias[a] = n
    /\ t.live = s.live /\ t.redirect = s.redirect /\ t.order = s.order /\ t.given = s.given
    /\ t.resolved \subseteq s.live /\ t.report = s.report /\ t.observers = s.observers
    /\ t.holds = s.holds /\ t.edges = s.edges /\ t.scopes = s.scopes /\ t.canonical = s.canonical

\* A node may take such names on.
LEMMA BindLeads ==
  ASSUME NEW s, Sound(s), NEW n, NEW keys, NEW t, Takes(s, t, n, keys)
  PROVE  Leads(s, t)
<1> USE DEF Takes
<1>1. /\ DOMAIN t.alias = DOMAIN s.alias \cup keys
      /\ \A a \in DOMAIN t.alias : t.alias[a] = IF a \in keys THEN n ELSE s.alias[a]
  BY DEF Put
<1>2. \A a \in DOMAIN s.alias : a \notin Addresses => t.alias[a] = s.alias[a]
  BY <1>1
<1>3. StableIds \cap Addresses = {} /\ None \notin StableIds
  BY NamesAssumption DEF Names
<1>4. NodesSound(t)
  BY DEF Sound, NodesSound
<1>5. AliasesSound(t)
  <2>1. \A a \in DOMAIN t.alias : a \in Names /\ t.alias[a] \in t.live
    BY <1>1 DEF Sound, AliasesSound
  <2>2. DOMAIN t.seen \subseteq DOMAIN t.alias \cap Addresses
    BY <1>1 DEF Sound, AliasesSound
  <2>3. ASSUME NEW m \in t.live, t.stable[m] # None
        PROVE  t.stable[m] \in StableIds \cap DOMAIN t.alias /\ t.alias[t.stable[m]] = m
    <3>1. CASE m = n /\ t.stable[n] # s.stable[n]
      BY <1>1, <3>1
    <3>2. CASE ~(m = n /\ t.stable[n] # s.stable[n])
      <4>1. t.stable[m] = s.stable[m]
        BY <3>2
      <4>2. t.stable[m] \in StableIds \cap DOMAIN s.alias /\ s.alias[t.stable[m]] = m
        BY <4>1, <2>3 DEF Sound, AliasesSound
      <4> QED
        BY <4>2, <1>1, <1>2, <1>3
    <3> QED
      BY <3>1, <3>2
  <2>4. ASSUME NEW a \in DOMAIN t.alias \cap StableIds
        PROVE  t.stable[t.alias[a]] # None
    <3>1. CASE a \in keys
      BY <3>1, <1>1, <1>3
    <3>2. CASE a \notin keys
      <4>1. t.alias[a] = s.alias[a] /\ s.alias[a] \in s.live /\ s.stable[s.alias[a]] # None
        BY <3>2, <1>1 DEF Sound, AliasesSound
      <4> QED
        BY <4>1, <1>3
    <3> QED
      BY <3>1, <3>2
  <2>5. \A x \in DOMAIN t.canonical : x \in StableIds \cap DOMAIN t.alias /\ t.canonical[x] = t.alias[x]
    BY <1>1, <1>2, <1>3 DEF Sound, AliasesSound
  <2> QED
    BY <2>1, <2>2, <2>3, <2>4, <2>5 DEF AliasesSound
<1>6. Sound(t)
  BY <1>4, <1>5 DEF Sound, ObserversSound, OwnersAgree, ScopesSound
<1>7. \A m \in s.live : Became(t, m) = m
  BY DEF Became, Sound, NodesSound
<1>8. Follows(s, t)
  <2>1. \A m \in s.live : Became(t, m) \in t.live
    BY <1>7
  <2>2. \A m \in DOMAIN s.redirect : m \in DOMAIN t.redirect /\ t.redirect[m] = Became(t, s.redirect[m])
    BY <1>7 DEF Sound, NodesSound
  <2>3. \A a \in DOMAIN s.alias \ Addresses : a \in DOMAIN t.alias /\ t.alias[a] = Became(t, s.alias[a])
    BY <1>1, <1>2, <1>7 DEF Sound, AliasesSound
  <2>4. \A k, m \in s.live : {k, m} \in DOMAIN s.edges /\ Became(t, k) # Became(t, m) =>
            {Became(t, k), Became(t, m)} \in DOMAIN t.edges
    BY <1>7
  <2> QED
    BY <2>1, <2>2, <2>3, <2>4 DEF Follows
<1>9. ScopesFollow(s, t)
  BY <1>7 DEF ScopesFollow, Sound, ScopesSound
<1> QED
  BY <1>6, <1>8, <1>9 DEF Leads

\* Whoever matches an identity is a node, and there are finitely many.
LEMMA MatchesAreNodes ==
  ASSUME NEW s, Sound(s), NEW identity
  PROVE  Matches(s, identity) \subseteq s.live /\ IsFiniteSet(Matches(s, identity))
<1> DEFINE all == {s.alias[identity.stable]} \cup {s.alias[identity.key]} \cup
                  {s.alias[identity.disco]} \cup {s.alias[identity.ip]}
<1>1. Matches(s, identity) \subseteq s.live
  BY DEF Matches, AddressMatches, Sound, AliasesSound
<1>2. Matches(s, identity) \subseteq all
  BY DEF Matches, Strong
<1>3. IsFiniteSet(all)
  BY FS_Singleton, FS_Union
<1> QED
  BY <1>1, <1>2, <1>3, FS_Subset

\* The node that is found is one, and whatever matched has become that one.
LEMMA FoundLeads ==
  ASSUME NEW s, Sound(s), NEW identity \in Identities
  PROVE  LET r == Found(s, identity, Matches(s, identity))
         IN  /\ r = [node |-> r.node, state |-> r.state]
             /\ Leads(s, r.state) /\ r.node \in r.state.live
             /\ DOMAIN r.state.alias = DOMAIN s.alias
             /\ \A m \in Matches(s, identity) : Became(r.state, m) = r.node
<1> DEFINE found == Matches(s, identity)
           keep == IF identity.stable \in DOMAIN s.alias THEN s.alias[identity.stable] ELSE First(found)
           r == Found(s, identity, found)
<1>1. CASE found = {}
  <2>1. r = NewNode(s)
    BY <1>1 DEF Found
  <2> QED
    BY <1>1, <2>1, NewNodeLeads
<1>2. CASE found # {}
  <2>1. found \subseteq s.live /\ IsFiniteSet(found) /\ found \subseteq Nat
    BY MatchesAreNodes, NodesAreNaturals DEF Sound
  <2>2. keep \in found
    <3>1. CASE identity.stable \in DOMAIN s.alias
      <4>1. identity.stable \in Strong(identity)
        BY <3>1, NamesAssumption DEF Strong, Sound, AliasesSound
      <4> QED
        BY <3>1, <4>1 DEF Matches
    <3>2. CASE identity.stable \notin DOMAIN s.alias
      <4>1. \E n \in found : \A m \in found : n <= m
        BY <1>2, <2>1, NatsHaveLeast
      <4>2. First(found) \in found
        BY <4>1 DEF First
      <4> QED
        BY <3>2, <4>2
    <3> QED
      BY <3>1, <3>2
  <2>3. r = [node |-> keep, state |-> MergeAll(s, keep, found \ {keep})]
    BY <1>2 DEF Found
  <2> HIDE DEF keep, found
  <2>4. IsFiniteSet(found \ {keep}) /\ found \ {keep} \subseteq s.live \ {keep} /\ keep \in s.live
    BY <2>1, <2>2, FS_Subset
  <2> DEFINE others == found \ {keep}
             t == MergeAll(s, keep, others)
  <2>5. /\ Leads(s, t) /\ t.live = s.live \ others /\ DOMAIN t.alias = DOMAIN s.alias
        /\ \A n \in others : Became(t, n) = keep
    <3> HIDE DEF others
    <3>1. IsFiniteSet(others) /\ others \subseteq s.live \ {keep} /\ keep \in s.live
      BY <2>4 DEF others
    <3> QED
      BY <3>1, MergeAllLeads
  <2> HIDE DEF t
  <2>6. keep \in t.live
    BY <2>4, <2>5
  <2>7. Became(t, keep) = keep
    BY <2>5, <2>6 DEF Became, Leads, Sound, NodesSound
  <2>8. r.node = keep /\ r.state = t /\ r = [node |-> r.node, state |-> r.state]
    BY <2>3 DEF t
  <2> HIDE DEF r
  <2>9. \A m \in found : Became(r.state, m) = r.node
    BY <2>5, <2>7, <2>8
  <2>10. Leads(s, r.state) /\ r.node \in r.state.live /\ DOMAIN r.state.alias = DOMAIN s.alias
    BY <2>5, <2>6, <2>8
  <2> QED
    BY <2>8, <2>9, <2>10 DEF r, found
<1> QED
  BY <1>1, <1>2

\* An identity's strong names are no addresses, and one at most is a stable id.
LEMMA StrongNames ==
  ASSUME NEW identity \in Identities
  PROVE  /\ Strong(identity) \subseteq Names \ Addresses
         /\ Strong(identity) \cap StableIds = {identity.stable} \ {None}
<1>1. /\ identity.stable \in StableIds \cup {None} /\ identity.key \in NodeKeys \cup {None}
      /\ identity.disco \in DiscoKeys \cup {None}
  BY DEF Identities
<1> QED
  BY <1>1, NamesAssumption DEF Strong, Names

\* The second half of resolveIdentityLocked: the node takes the identity on.
LEMMA IdentifiedLeads ==
  ASSUME NEW s, Sound(s), NEW n, n \in s.live, NEW identity \in Identities,
         \A a \in Strong(identity) \cap DOMAIN s.alias : s.alias[a] = n
  PROVE  LET r == Identified(s, n, identity)
         IN  /\ r = [node |-> n, state |-> r.state]
             /\ Leads(s, r.state) /\ r.state.live = s.live
             /\ r.state.alias = Put(s.alias, Strong(identity) \cup ({identity.ip} \ {None}), n)
<1> DEFINE r == Identified(s, n, identity)
           address == {identity.ip} \ {None}
           keys == Strong(identity) \cup address
           stable == [s.stable EXCEPT ![n] = IF identity.stable # None THEN identity.stable
                                             ELSE s.stable[n]]
           resolved == IF Strong(identity) # {} THEN s.resolved \cup {n} ELSE s.resolved
           alias == Put(s.alias, keys, n)
           seen == Put(s.seen, address, s.now)
           t == [s EXCEPT !.stable = stable, !.resolved = resolved, !.alias = alias, !.seen = seen]
<1>1. r = [node |-> n, state |-> t]
  BY DEF Identified
<1>2. /\ DOMAIN seen = DOMAIN s.seen \cup address
      /\ DOMAIN stable = DOMAIN s.stable
      /\ \A m \in DOMAIN s.stable : m # n => stable[m] = s.stable[m]
      /\ stable[n] = IF identity.stable # None THEN identity.stable ELSE s.stable[n]
  BY DEF Put, Sound, NodesSound
<1>3. resolved \subseteq s.live
  BY DEF Sound, NodesSound
<1>4. address \subseteq Addresses
  BY DEF Identities
<1> HIDE DEF stable, resolved, alias, seen
<1>5. IsState(s)
  BY DEF Sound
<1>6. /\ IsState(t) /\ t.stable = stable /\ t.resolved = resolved /\ t.alias = alias /\ t.seen = seen
      /\ t.live = s.live /\ t.redirect = s.redirect /\ t.order = s.order /\ t.given = s.given
  BY <1>5 DEF IsState, Fields
<1>7. /\ t.report = s.report /\ t.observers = s.observers /\ t.holds = s.holds /\ t.edges = s.edges
      /\ t.scopes = s.scopes /\ t.canonical = s.canonical
  BY <1>5 DEF IsState, Fields
<1> HIDE DEF t, address
<1>8. keys \subseteq Names /\ keys \cap StableIds = {identity.stable} \ {None} /\ address \subseteq keys
  BY <1>4, StrongNames, NamesAssumption DEF Names
<1>9. \A a \in keys : a \in DOMAIN s.alias => a \in Addresses \/ s.alias[a] = n
  BY <1>4
<1>10. t.alias = Put(s.alias, keys, n)
  BY <1>6 DEF alias
<1> HIDE DEF keys
<1>11. identity.stable \in StableIds \cup {None}
  BY DEF Identities
<1>12. \/ t.stable[n] = s.stable[n] /\ keys \cap StableIds = {}
       \/ t.stable[n] \in StableIds /\ keys \cap StableIds = {t.stable[n]}
  BY <1>2, <1>6, <1>8, <1>11
<1>13. DOMAIN t.stable = s.live /\ \A m \in s.live : m # n => t.stable[m] = s.stable[m]
  BY <1>2, <1>6 DEF Sound, NodesSound
<1>14. DOMAIN t.seen \subseteq DOMAIN s.seen \cup (keys \cap Addresses)
  BY <1>2, <1>4, <1>6, <1>8
<1>15. t.resolved \subseteq s.live
  BY <1>3, <1>6
<1>16. Leads(s, t)
  <2>1. Takes(s, t, n, keys)
    BY <1>6, <1>7, <1>8, <1>9, <1>10, <1>12, <1>13, <1>14, <1>15 DEF Takes
  <2> QED
    BY <2>1, BindLeads
<1>17. r = [node |-> n, state |-> r.state] /\ r.state = t
  BY <1>1
<1> HIDE DEF r
<1> QED
  BY <1>6, <1>10, <1>16, <1>17 DEF r, keys, address

\* Whoever an identity belongs to is a node afterwards, and its stable id leads there.
LEMMA ResolveLeads ==
  ASSUME NEW s, Sound(s), NEW given \in Identities
  PROVE  LET r == Resolve(s, given)
         IN  /\ r = [node |-> r.node, state |-> r.state]
             /\ Leads(s, r.state) /\ r.node \in r.state.live
<1> DEFINE identity == WithoutConflict(s, given)
           f == Found(s, identity, Matches(s, identity))
           r == Identified(f.state, f.node, identity)
<1>1. identity \in Identities
  BY DEF WithoutConflict, Identities
<1> HIDE DEF identity
<1>2. /\ f = [node |-> f.node, state |-> f.state]
      /\ Leads(s, f.state) /\ f.node \in f.state.live /\ DOMAIN f.state.alias = DOMAIN s.alias
      /\ \A m \in Matches(s, identity) : Became(f.state, m) = f.node
  BY <1>1, FoundLeads
<1> HIDE DEF f
<1>3. \A a \in Strong(identity) \cap DOMAIN f.state.alias : f.state.alias[a] = f.node
  <2> SUFFICES ASSUME NEW a \in Strong(identity), a \in DOMAIN f.state.alias
               PROVE  f.state.alias[a] = f.node
    OBVIOUS
  <2>1. a \in DOMAIN s.alias \ Addresses
    BY <1>1, <1>2, StrongNames
  <2>2. s.alias[a] \in Matches(s, identity)
    BY <2>1 DEF Matches
  <2>3. f.state.alias[a] = Became(f.state, s.alias[a])
    BY <1>2, <2>1 DEF Leads, Follows
  <2> QED
    BY <1>2, <2>2, <2>3
<1>4. Sound(f.state)
  BY <1>2 DEF Leads
<1>5. /\ r = [node |-> r.node, state |-> r.state]
      /\ r.node = f.node /\ Leads(f.state, r.state) /\ r.state.live = f.state.live
  <2>1. r = [node |-> f.node, state |-> r.state] /\ Leads(f.state, r.state) /\ r.state.live = f.state.live
    <3> DEFINE u == f.state
               n == f.node
    <3>1. Sound(u) /\ n \in u.live /\ \A a \in Strong(identity) \cap DOMAIN u.alias : u.alias[a] = n
      BY <1>2, <1>3, <1>4
    <3> HIDE DEF u, n
    <3>2. LET q == Identified(u, n, identity)
          IN  /\ q = [node |-> n, state |-> q.state] /\ Leads(u, q.state) /\ q.state.live = u.live
              /\ q.state.alias = Put(u.alias, Strong(identity) \cup ({identity.ip} \ {None}), n)
      BY <1>1, <3>1, IdentifiedLeads
    <3> QED
      BY <3>2 DEF u, n
  <2> HIDE DEF r
  <2> QED
    BY <2>1
<1>6. Leads(s, r.state)
  BY <1>2, <1>5, LeadsTransitive
<1> HIDE DEF r
<1>7. Resolve(s, given) = r
  BY DEF Resolve, r, f, identity
<1> QED
  BY <1>2, <1>5, <1>6, <1>7

-----------------------------------------------------------------------------
(* Relay scopes *)

\* An operation on the scopes alone.
LEMMA ScopesSet ==
  ASSUME NEW s, Sound(s), NEW c, DOMAIN s.scopes \subseteq DOMAIN c,
         \A k \in DOMAIN c : k = <<k[1], k[2]>> /\ IsScope(c[k]),
         NEW t, t = [s EXCEPT !.scopes = c]
  PROVE  /\ Leads(s, t) /\ t.scopes = c /\ t.live = s.live /\ t.redirect = s.redirect
         /\ t.now = s.now
<1>1. IsState(s)
  BY DEF Sound
<1>2. /\ IsState(t) /\ t.scopes = c /\ t.live = s.live /\ t.redirect = s.redirect
      /\ t.stable = s.stable /\ t.alias = s.alias /\ t.order = s.order /\ t.given = s.given
      /\ t.now = s.now
  BY <1>1 DEF IsState, Fields
<1>3. /\ t.resolved = s.resolved /\ t.report = s.report /\ t.seen = s.seen /\ t.edges = s.edges
      /\ t.canonical = s.canonical /\ t.observers = s.observers /\ t.holds = s.holds
  BY <1>1 DEF IsState, Fields
<1>4. SameNodes(s, t)
  BY <1>2, <1>3 DEF SameNodes, Sound, NodesSound
<1>5. ObserversSound(t)
  BY <1>2, <1>3 DEF Sound, ObserversSound, OwnersAgree
<1>6. ScopesSound(t)
  BY <1>2 DEF ScopesSound
<1> QED
  BY <1>2, <1>3, <1>4, <1>5, <1>6, Frame

\* A new scope is a scope, without sessions.
LEMMA NewScopeIs ==
  IsScope(NewScope) /\ NewScope.sessions = NoFunction
<1>1. DOMAIN NoFunction = {}
  BY DEF NoFunction
<1> QED
  BY <1>1, FS_EmptySet DEF NewScope, IsScope

\* The scope of the relay is there, and its key with it.
LEMMA WithScopeLeads ==
  ASSUME NEW s, Sound(s), NEW key, key = <<key[1], key[2]>>
  PROVE  LET t == WithScope(s, key)
         IN  Leads(s, t) /\ key \in DOMAIN t.scopes /\ t.live = s.live /\ t.redirect = s.redirect
             /\ t.now = s.now
<1> DEFINE old == IF key \in DOMAIN s.scopes THEN s.scopes[key] ELSE NewScope
           new == [old EXCEPT !.seen = s.now]
           c == Put(s.scopes, {key}, new)
           t == WithScope(s, key)
<1>1. t = [s EXCEPT !.scopes = c]
  BY DEF WithScope
<1>2. IsScope(old)
  BY NewScopeIs DEF Sound, ScopesSound
<1>3. IsScope(new)
  <2> HIDE DEF old
  <2> QED
    BY <1>2 DEF IsScope
<1>4. /\ DOMAIN c = DOMAIN s.scopes \cup {key}
      /\ \A k \in DOMAIN c : c[k] = IF k = key THEN new ELSE s.scopes[k]
  BY DEF Put
<1> HIDE DEF new, old, t, c
<1>5. \A k \in DOMAIN c : k = <<k[1], k[2]>> /\ IsScope(c[k])
  BY <1>3, <1>4 DEF Sound, ScopesSound
<1>6. /\ Leads(s, t) /\ t.scopes = c /\ t.live = s.live /\ t.redirect = s.redirect
      /\ t.now = s.now
  BY <1>1, <1>4, <1>5, ScopesSet
<1> QED
  BY <1>4, <1>6 DEF t

\* One session of reconcileRelayScopeLocked merges two nodes or none.
LEMMA InferLeads ==
  ASSUME NEW s, Sound(s), NEW key, NEW x
  PROVE  Leads(s, Infer(s, key, x))
<1>1. Infer(s, key, x) = s \/ \E m, n : Infer(s, key, x) = Merge(s, m, n)
  BY DEF Infer
<1> QED
  BY <1>1, LeadsToItself, MergeLeads

\* reconcileRelayScopeLocked, over all sessions of the scope.
LEMMA ReconcileLeads ==
  ASSUME NEW s, Sound(s), NEW key \in DOMAIN s.scopes
  PROVE  Leads(s, Reconcile(s, key))
<1> DEFINE S == DOMAIN s.scopes[key].sessions
           P(h) == h = [T \in SUBSET S |->
                          IF T = {} THEN s
                          ELSE Infer(h[T \ {CHOOSE x \in T : TRUE}], key, CHOOSE x \in T : TRUE)]
<1>1. IsFiniteSet(S)
  BY DEF Sound, ScopesSound, IsScope
<1>2. \A T \in SUBSET S : T # {} => Pick("infer", T) \in T
  BY DEF Pick
<1>3. \A h : Unfolds("infer", key, s, S, h) <=> P(h)
  BY DEF Unfolds, Step, Pick
<1>4. \E h : P(h)
  <2> HIDE DEF S, P
  <2>1. IsFiniteSet(S) /\ \A T \in SUBSET S : T # {} => Pick("infer", T) \in T
    BY <1>1, <1>2
  <2>2. \E h : Unfolds("infer", key, s, S, h)
    BY <2>1, FoldExists
  <2> QED
    BY <2>2, <1>3
<1> DEFINE h == CHOOSE h : P(h)
<1>5. P(h)
  BY <1>4
<1>6. Reconcile(s, key) = s \/ Reconcile(s, key) = h[S]
  BY DEF Reconcile, FoldSet, MapThenFoldSet
<1> HIDE DEF h, P, S
<1>7. Holds("infer", key, s, {}, s)
  BY LeadsToItself DEF Holds
<1>8. ASSUME NEW T \in SUBSET S, NEW x \in S \ T, NEW acc, Holds("infer", key, s, T, acc)
      PROVE  Holds("infer", key, s, T \cup {x}, Step("infer", key, x, acc))
  <2>1. Leads(s, acc) /\ Sound(acc)
    BY <1>8 DEF Holds, Leads
  <2>2. Leads(acc, Infer(acc, key, x))
    BY <2>1, InferLeads
  <2>3. Leads(s, Infer(acc, key, x))
    BY <2>1, <2>2, LeadsTransitive
  <2> QED
    BY <2>3 DEF Holds, Step
<1>9. Holds("infer", key, s, S, h[S])
  <2>1. Unfolds("infer", key, s, S, h)
    BY <1>3, <1>5
  <2> QED
    BY <2>1, <1>1, <1>2, <1>7, <1>8, FoldHolds
<1>10. Leads(s, h[S])
  BY <1>9 DEF Holds
<1> QED
  BY <1>6, <1>10, LeadsToItself

\* recordRelayPairLocked
LEMMA RecordPairLeads ==
  ASSUME NEW s, Sound(s), NEW key, key = <<key[1], key[2]>>, NEW pair
  PROVE  Leads(s, RecordPair(s, key, pair))
<1> DEFINE t == WithScope(s, key)
           scope == t.scopes[key]
           expired == scope.pairAt = 0 \/ ~Within(s, scope.pairAt, EvidenceWindow)
           recorded ==
               IF expired THEN [scope EXCEPT !.pair = pair, !.pairAt = s.now, !.conflictAt = 0]
               ELSE IF scope.pair = pair THEN [scope EXCEPT !.pairAt = s.now]
               ELSE [scope EXCEPT !.conflictAt = s.now]
           c == [t.scopes EXCEPT ![key] = recorded]
           u == [t EXCEPT !.scopes = c]
<1>1. Leads(s, t) /\ key \in DOMAIN t.scopes
  BY WithScopeLeads
<1>2. Sound(t) /\ IsScope(scope)
  BY <1>1 DEF Leads, Sound, ScopesSound
<1>3. IsScope(recorded)
  <2> HIDE DEF scope, expired
  <2> QED
    BY <1>2 DEF IsScope
<1>4. RecordPair(s, key, pair) = s \/ RecordPair(s, key, pair) = Reconcile(u, key)
  BY DEF RecordPair
<1> HIDE DEF t, recorded
<1>5. DOMAIN c = DOMAIN t.scopes /\ \A k \in DOMAIN c : k = <<k[1], k[2]>> /\ IsScope(c[k])
  BY <1>2, <1>3 DEF Sound, ScopesSound
<1> HIDE DEF c
<1>6. Leads(t, u) /\ key \in DOMAIN u.scopes
  BY <1>1, <1>2, <1>5, ScopesSet
<1> HIDE DEF u
<1>7. Leads(u, Reconcile(u, key))
  BY <1>6, ReconcileLeads DEF Leads
<1>8. Leads(s, u)
  BY <1>1, <1>6, LeadsTransitive
<1>9. Leads(s, Reconcile(u, key))
  BY <1>7, <1>8, LeadsTransitive
<1> QED
  BY <1>4, <1>9, LeadsToItself

-----------------------------------------------------------------------------
(* Ownership, evidence and inventories *)

\* touchObserverLocked
LEMMA ReportedLeads ==
  ASSUME NEW s, Sound(s), NEW o
  PROVE  LET t == Reported(s, o)
         IN  /\ Leads(s, t) /\ t.live = s.live /\ t.redirect = s.redirect
             /\ t.observers = s.observers /\ t.holds = s.holds
<1> DEFINE report == [s.report EXCEPT ![o] = s.now]
           t == Reported(s, o)
<1>1. t = [s EXCEPT !.report = report]
  BY DEF Reported
<1>2. DOMAIN report = DOMAIN s.report
  OBVIOUS
<1> HIDE DEF t, report
<1>3. IsState(s)
  BY DEF Sound
<1>4. /\ IsState(t) /\ t.scopes = s.scopes /\ t.live = s.live /\ t.redirect = s.redirect
      /\ t.stable = s.stable /\ t.alias = s.alias /\ t.order = s.order /\ t.given = s.given
  BY <1>1, <1>3 DEF IsState, Fields
<1>5. /\ t.resolved = s.resolved /\ t.report = report /\ t.seen = s.seen /\ t.edges = s.edges
      /\ t.canonical = s.canonical /\ t.observers = s.observers /\ t.holds = s.holds
  BY <1>1, <1>3 DEF IsState, Fields
<1>6. SameNodes(s, t)
  BY <1>2, <1>4, <1>5 DEF SameNodes, Sound, NodesSound
<1>7. ObserversSound(t) /\ ScopesSound(t)
  BY <1>4, <1>5 DEF Sound, ObserversSound, OwnersAgree, ScopesSound
<1>8. Leads(s, t)
  BY <1>4, <1>5, <1>6, <1>7, Frame
<1> QED
  BY <1>4, <1>5, <1>8 DEF t

\* An operation that adds edges or evidence.
LEMMA EdgesSet ==
  ASSUME NEW s, Sound(s), NEW edges, DOMAIN s.edges \subseteq DOMAIN edges, NEW touched,
         NEW t, t = [s EXCEPT !.touched = touched, !.edges = edges]
  PROVE  /\ Leads(s, t) /\ t.live = s.live /\ t.redirect = s.redirect
         /\ t.observers = s.observers /\ t.holds = s.holds
<1>1. IsState(s)
  BY DEF Sound
<1>2. /\ IsState(t) /\ t.scopes = s.scopes /\ t.live = s.live /\ t.redirect = s.redirect
      /\ t.stable = s.stable /\ t.alias = s.alias /\ t.order = s.order /\ t.given = s.given
  BY <1>1 DEF IsState, Fields
<1>3. /\ t.resolved = s.resolved /\ t.report = s.report /\ t.seen = s.seen /\ t.edges = edges
      /\ t.canonical = s.canonical /\ t.observers = s.observers /\ t.holds = s.holds
  BY <1>1 DEF IsState, Fields
<1>4. SameNodes(s, t)
  BY <1>2, <1>3 DEF SameNodes, Sound, NodesSound
<1>5. ObserversSound(t) /\ ScopesSound(t)
  BY <1>2, <1>3 DEF Sound, ObserversSound, OwnersAgree, ScopesSound
<1>6. Leads(s, t)
  BY <1>2, <1>3, <1>4, <1>5, Frame
<1> QED
  BY <1>2, <1>3, <1>6

\* An edge gets evidence and is marked (applyPeerLocked).
LEMMA TouchLeads ==
  ASSUME NEW s, Sound(s), NEW edge, NEW observer
  PROVE  Leads(s, Touch(s, edge, observer))
<1> DEFINE edges == Put(s.edges, {edge}, {observer} \cup IF edge \in DOMAIN s.edges THEN s.edges[edge] ELSE {})
           touched == s.touched \cup {edge}
           t == Touch(s, edge, observer)
<1>1. t = [s EXCEPT !.touched = touched, !.edges = edges]
  BY DEF Touch
<1>2. DOMAIN s.edges \subseteq DOMAIN edges
  BY DEF Put
<1> HIDE DEF edges, touched, t
<1>3. Leads(s, t)
  BY <1>1, <1>2, EdgesSet
<1> QED
  BY <1>3 DEF t

\* An operation that marks edges alone.
LEMMA TouchedLeads ==
  ASSUME NEW s, Sound(s), NEW touched
  PROVE  LET t == [s EXCEPT !.touched = touched]
         IN  /\ Leads(s, t) /\ t.live = s.live /\ t.redirect = s.redirect
             /\ t.observers = s.observers /\ t.holds = s.holds
<1> DEFINE t == [s EXCEPT !.touched = touched]
<1>1. IsState(s)
  BY DEF Sound
<1> DEFINE edges == s.edges
<1>2. t = [s EXCEPT !.touched = touched, !.edges = edges] /\ DOMAIN s.edges \subseteq DOMAIN edges
  BY <1>1 DEF IsState, Fields
<1> HIDE DEF t, edges
<1>3. Leads(s, t)
  BY <1>2, EdgesSet
<1>4. /\ t.live = s.live /\ t.redirect = s.redirect
      /\ t.observers = s.observers /\ t.holds = s.holds
  BY <1>1, <1>2 DEF IsState, Fields
<1> QED
  BY <1>3, <1>4 DEF t

\* markObserverEdgesTouchedLocked
LEMMA TouchObservedLeads ==
  ASSUME NEW s, Sound(s), NEW o
  PROVE  LET t == TouchObserved(s, o)
         IN  /\ Leads(s, t) /\ t.live = s.live /\ t.redirect = s.redirect
             /\ t.observers = s.observers /\ t.holds = s.holds
<1> DEFINE touched == s.touched \cup {e \in DOMAIN s.edges : o \in s.edges[e]}
<1>1. TouchObserved(s, o) = [s EXCEPT !.touched = touched]
  BY DEF TouchObserved
<1> HIDE DEF touched
<1> QED
  BY <1>1, TouchedLeads

\* An operation on observers, ownership and evidence that keeps the two sides agreed.
LEMMA ObserversSet ==
  ASSUME NEW s, Sound(s), NEW observers, DOMAIN observers \subseteq s.live, NEW holds, NEW edges,
         DOMAIN s.edges \subseteq DOMAIN edges,
         NEW t, t = [s EXCEPT !.observers = observers, !.holds = holds, !.edges = edges],
         OwnersAgree(t)
  PROVE  Leads(s, t) /\ t.live = s.live /\ t.redirect = s.redirect
<1>1. IsState(s)
  BY DEF Sound
<1>2. /\ IsState(t) /\ t.scopes = s.scopes /\ t.live = s.live /\ t.redirect = s.redirect
      /\ t.stable = s.stable /\ t.alias = s.alias /\ t.order = s.order /\ t.given = s.given
  BY <1>1 DEF IsState, Fields
<1>3. /\ t.resolved = s.resolved /\ t.report = s.report /\ t.seen = s.seen /\ t.edges = edges
      /\ t.canonical = s.canonical /\ t.observers = observers
  BY <1>1 DEF IsState, Fields
<1>4. SameNodes(s, t)
  BY <1>2, <1>3 DEF SameNodes, Sound, NodesSound
<1>5. ObserversSound(t) /\ ScopesSound(t)
  BY <1>2, <1>3 DEF Sound, ObserversSound, ScopesSound
<1>6. Leads(s, t)
  BY <1>2, <1>3, <1>4, <1>5, Frame
<1> QED
  BY <1>2, <1>6

\* claimReporterObserverLocked takes the observer from every other reporter.
LEMMA ClaimLeads ==
  ASSUME NEW s, Sound(s), NEW reporter \in Reporters, NEW o \in s.live
  PROVE  LET t == Claim(s, reporter, o)
         IN  Leads(s, t) /\ t.live = s.live /\ t.redirect = s.redirect
<1> DEFINE members == IF o \in DOMAIN s.observers THEN s.observers[o].members ELSE {}
           observer == [owner |-> reporter, members |-> members]
           observers == Put(s.observers, {o}, observer)
           holds == [r \in Reporters |-> IF r = reporter THEN s.holds[r] \cup {o} ELSE s.holds[r] \ {o}]
           t == Claim(s, reporter, o)
<1>1. IsState(s)
  BY DEF Sound
<1>2. t = [s EXCEPT !.observers = observers, !.holds = holds]
  BY DEF Claim
<1>3. /\ observer.owner = reporter /\ observer = [owner |-> observer.owner, members |-> observer.members]
  OBVIOUS
<1>4. /\ DOMAIN observers = DOMAIN s.observers \cup {o}
      /\ \A p \in DOMAIN observers : observers[p] = IF p = o THEN observer ELSE s.observers[p]
  BY DEF Put
<1> HIDE DEF observer, observers
<1>5. \A r \in Reporters : s.holds[r] = {p \in DOMAIN s.observers : s.observers[p].owner = r}
  BY DEF Sound, ObserversSound, OwnersAgree
<1>6. holds = [r \in Reporters |-> {p \in DOMAIN observers : observers[p].owner = r}]
  BY <1>3, <1>4, <1>5
<1> HIDE DEF holds, t
<1> DEFINE edges == s.edges
<1>7. /\ t = [s EXCEPT !.observers = observers, !.holds = holds, !.edges = edges]
      /\ DOMAIN s.edges \subseteq DOMAIN edges
  BY <1>1, <1>2 DEF IsState, Fields
<1> HIDE DEF edges
<1>8. t.observers = observers /\ t.holds = holds
  BY <1>1, <1>2 DEF IsState, Fields
<1>9. OwnersAgree(t)
  BY <1>3, <1>4, <1>6, <1>8 DEF OwnersAgree, Sound, ObserversSound
<1>10. DOMAIN observers \subseteq s.live
  BY <1>4 DEF Sound, ObserversSound
<1>11. Leads(s, t)
  BY <1>7, <1>9, <1>10, ObserversSet
<1>12. t.live = s.live /\ t.redirect = s.redirect
  BY <1>1, <1>7 DEF IsState, Fields
<1> QED
  BY <1>11, <1>12 DEF t

\* A withdrawal gives up what the reporter owns, on both sides.
LEMMA WithdrawLeads ==
  ASSUME NEW s, Sound(s), NEW report, report.by \in Reporters, NEW part
  PROVE  Leads(s, Withdraw(s, report, part))
<1> DEFINE o == Lookup(s, part.observer)
           u == TouchObserved(Reported(s, o), o)
           observers == [u.observers EXCEPT ![o].owner = None]
           holds == [u.holds EXCEPT ![report.by] = u.holds[report.by] \ {o}]
           t == [u EXCEPT !.observers = observers, !.holds = holds]
<1>1. Withdraw(s, report, part) = s \/
      (o \in DOMAIN s.observers /\ s.observers[o].owner = report.by /\ Withdraw(s, report, part) = t)
  BY DEF Withdraw
<1>2. SUFFICES ASSUME o \in DOMAIN s.observers, s.observers[o].owner = report.by
               PROVE  Leads(s, t)
  BY <1>1, LeadsToItself
<1> HIDE DEF o
<1>3. Leads(s, u) /\ Sound(u) /\ u.observers = s.observers /\ u.holds = s.holds
  <2> DEFINE v == Reported(s, o)
  <2>1. Leads(s, v) /\ v.observers = s.observers /\ v.holds = s.holds
    BY ReportedLeads
  <2> HIDE DEF v
  <2>2. Sound(v)
    BY <2>1 DEF Leads
  <2>3. LET w == TouchObserved(v, o)
        IN  Leads(v, w) /\ w.observers = v.observers /\ w.holds = v.holds
    BY <2>2, TouchObservedLeads
  <2>4. u = TouchObserved(v, o)
    BY DEF v
  <2> HIDE DEF u
  <2>5. Leads(v, u) /\ u.observers = v.observers /\ u.holds = v.holds
    BY <2>3, <2>4
  <2>6. Leads(s, u)
    BY <2>1, <2>5, LeadsTransitive
  <2> QED
    BY <2>1, <2>5, <2>6 DEF Leads
<1> HIDE DEF u
<1>4. IsState(u)
  BY <1>3 DEF Sound
<1> DEFINE edges == u.edges
<1>5. /\ t = [u EXCEPT !.observers = observers, !.holds = holds, !.edges = edges]
      /\ DOMAIN u.edges \subseteq DOMAIN edges
  BY <1>4 DEF IsState, Fields
<1> HIDE DEF edges
<1>6. t.observers = observers /\ t.holds = holds
  BY <1>4 DEF IsState, Fields
<1>7. OwnersAgree(t)
  <2>1. OwnersAgree(u)
    BY <1>3 DEF Sound, ObserversSound
  <2>2. /\ DOMAIN observers = DOMAIN u.observers
        /\ observers[o] = [owner |-> None, members |-> u.observers[o].members]
        /\ \A p \in DOMAIN u.observers : p # o => observers[p] = u.observers[p]
    <3> DEFINE old == u.observers[o]
    <3>1. o \in DOMAIN u.observers
      BY <1>2, <1>3
    <3>2. old = [owner |-> old.owner, members |-> old.members]
      BY <3>1, <2>1 DEF OwnersAgree
    <3>3. observers = [u.observers EXCEPT ![o] = [old EXCEPT !.owner = None]]
      OBVIOUS
    <3> HIDE DEF old
    <3>4. [old EXCEPT !.owner = None] = [owner |-> None, members |-> old.members]
      BY <3>2
    <3> HIDE DEF observers
    <3> QED
      BY <3>1, <3>3, <3>4 DEF old
  <2>3. \A p \in DOMAIN observers : observers[p] = [owner |-> observers[p].owner, members |-> observers[p].members]
    BY <2>1, <2>2 DEF OwnersAgree
  <2>4. \A r \in Reporters : holds[r] = {p \in DOMAIN observers : observers[p].owner = r}
    <3>1. \A r \in Reporters : u.holds[r] = {p \in DOMAIN u.observers : u.observers[p].owner = r}
      BY <2>1 DEF OwnersAgree
    <3>2. DOMAIN u.holds = Reporters /\ None \notin Reporters
      BY <2>1, NamesAssumption DEF OwnersAgree
    <3>3. u.observers[o].owner = report.by /\ o \in DOMAIN u.observers
      BY <1>2, <1>3
    <3>4. observers[o].owner = None
      BY <2>2
    <3>5. \A r \in Reporters : holds[r] = IF r = report.by THEN u.holds[r] \ {o} ELSE u.holds[r]
      BY <3>2
    <3> HIDE DEF observers, holds
    <3>6. DOMAIN observers = DOMAIN u.observers
      BY <2>2
    <3>7. \A p \in DOMAIN u.observers : p # o => observers[p].owner = u.observers[p].owner
      BY <2>2
    <3>8. ASSUME NEW r \in Reporters
          PROVE  holds[r] = {p \in DOMAIN observers : observers[p].owner = r}
      <4>1. CASE r = report.by
        <5>1. r # None
          BY <3>2
        <5>2. holds[r] = {p \in DOMAIN u.observers : u.observers[p].owner = r} \ {o}
          BY <4>1, <3>1, <3>5
        <5>3. \A p \in DOMAIN u.observers :
                  u.observers[p].owner = r /\ p # o <=> observers[p].owner = r
          BY <5>1, <3>4, <3>7
        <5> QED
          BY <5>2, <5>3, <3>6
      <4>2. CASE r # report.by
        <5>1. r # None
          BY <3>2
        <5>2. \A p \in DOMAIN u.observers : u.observers[p].owner = r <=> observers[p].owner = r
          BY <4>2, <5>1, <3>3, <3>4, <3>7
        <5>3. holds[r] = {p \in DOMAIN u.observers : u.observers[p].owner = r}
          BY <4>2, <3>1, <3>5
        <5> QED
          BY <5>2, <5>3, <3>6
      <4> QED
        BY <4>1, <4>2
    <3> QED
      BY <3>8
  <2>5. holds = [r \in Reporters |-> holds[r]]
    BY <2>1 DEF OwnersAgree
  <2> HIDE DEF observers, holds, t
  <2>6. holds = [r \in Reporters |-> {p \in DOMAIN observers : observers[p].owner = r}]
    BY <2>4, <2>5
  <2> QED
    BY <1>6, <2>3, <2>6 DEF OwnersAgree
<1>8. DOMAIN observers \subseteq u.live
  BY <1>3 DEF Sound, ObserversSound
<1> HIDE DEF observers, holds, t
<1>9. Leads(u, t)
  BY <1>3, <1>5, <1>7, <1>8, ObserversSet
<1> QED
  BY <1>3, <1>9, LeadsTransitive

-----------------------------------------------------------------------------
(* Relay sessions *)

\* An operation on the sessions of one scope.
LEMMA SessionsSet ==
  ASSUME NEW s, Sound(s), NEW key, NEW sessions, key \in DOMAIN s.scopes => IsFiniteSet(DOMAIN sessions),
         NEW t, t = [s EXCEPT !.scopes = [s.scopes EXCEPT ![key] = [s.scopes[key] EXCEPT !.sessions = sessions]]]
  PROVE  Leads(s, t) /\ DOMAIN t.scopes = DOMAIN s.scopes /\ t.live = s.live /\ t.redirect = s.redirect
<1> DEFINE scope == [s.scopes[key] EXCEPT !.sessions = sessions]
           c == [s.scopes EXCEPT ![key] = scope]
<1>1. key \in DOMAIN s.scopes => IsScope(scope)
  <2> SUFFICES ASSUME key \in DOMAIN s.scopes
               PROVE  IsScope(scope)
    OBVIOUS
  <2>1. IsScope(s.scopes[key]) /\ IsFiniteSet(DOMAIN sessions)
    BY DEF Sound, ScopesSound
  <2> QED
    BY <2>1 DEF IsScope
<1> HIDE DEF scope
<1>2. DOMAIN c = DOMAIN s.scopes /\ \A k \in DOMAIN c : c[k] = IF k = key THEN scope ELSE s.scopes[k]
  OBVIOUS
<1>3. t = [s EXCEPT !.scopes = c]
  BY DEF scope
<1> HIDE DEF c
<1>4. \A k \in DOMAIN c : k = <<k[1], k[2]>> /\ IsScope(c[k])
  BY <1>1, <1>2 DEF Sound, ScopesSound
<1>5. DOMAIN s.scopes \subseteq DOMAIN c
  BY <1>2
<1>6. Leads(s, t)
  BY <1>3, <1>4, <1>5, ScopesSet
<1>7. IsState(s)
  BY DEF Sound
<1>8. t.scopes = c /\ t.live = s.live /\ t.redirect = s.redirect
  BY <1>3, <1>7 DEF IsState, Fields
<1> HIDE DEF c
<1> QED
  BY <1>2, <1>6, <1>8

\* An operation on one session.
LEMMA SessionSet ==
  ASSUME NEW s, Sound(s), NEW key, NEW x, NEW session,
         NEW t, t = [s EXCEPT !.scopes = [s.scopes EXCEPT ![key] =
                        [s.scopes[key] EXCEPT !.sessions = [s.scopes[key].sessions EXCEPT ![x] = session]]]]
  PROVE  Leads(s, t) /\ DOMAIN t.scopes = DOMAIN s.scopes /\ t.live = s.live /\ t.redirect = s.redirect
<1> DEFINE sessions == [s.scopes[key].sessions EXCEPT ![x] = session]
<1>1. key \in DOMAIN s.scopes => IsFiniteSet(DOMAIN sessions)
  BY DEF Sound, ScopesSound, IsScope
<1>2. t = [s EXCEPT !.scopes = [s.scopes EXCEPT ![key] = [s.scopes[key] EXCEPT !.sessions = sessions]]]
  OBVIOUS
<1> HIDE DEF sessions
<1> QED
  BY <1>1, <1>2, SessionsSet

\* The client of a session is bound to its node, wherever the scope is now.
LEMMA BoundLeads ==
  ASSUME NEW s, Sound(s), NEW n, NEW key, NEW x, NEW client
  PROVE  LET r == Bound([node |-> n, state |-> s], key, x, client)
         IN  r = [node |-> r.node, state |-> r.state] /\ Leads(s, r.state)
<1> DEFINE at == Where(s, key)
           session == [s.scopes[at].sessions[x] EXCEPT !.clients =
                          Put(s.scopes[at].sessions[x].clients, {client}, n)]
           t == [s EXCEPT !.scopes = [s.scopes EXCEPT ![at] =
                    [s.scopes[at] EXCEPT !.sessions = [s.scopes[at].sessions EXCEPT ![x] = session]]]]
           r == Bound([node |-> n, state |-> s], key, x, client)
<1>1. r = [node |-> n, state |-> t]
  <2>1. PICK f : f = [node |-> n, state |-> s]
    OBVIOUS
  <2>2. f.node = n /\ f.state = s
    BY <2>1
  <2>3. Bound(f, key, x, client) = [f EXCEPT !.state = t]
    BY <2>2 DEF Bound
  <2> HIDE DEF t
  <2>4. [f EXCEPT !.state = t] = [node |-> n, state |-> t]
    BY <2>1
  <2> QED
    BY <2>1, <2>3, <2>4
<1>2. Leads(s, t)
  <2> HIDE DEF at, session
  <2> QED
    BY SessionSet
<1> HIDE DEF r, t
<1>3. r = [node |-> r.node, state |-> r.state] /\ Leads(s, r.state)
  BY <1>1, <1>2
<1> QED
  BY <1>3 DEF r

\* A client that is found under its names absorbs the one its session knew.
LEMMA MergedIntoLeads ==
  ASSUME NEW s, Sound(s), NEW n, NEW existing
  PROVE  LET r == MergedInto([node |-> n, state |-> s], existing)
         IN  r = [node |-> n, state |-> r.state] /\ Leads(s, r.state)
<1>1. Leads(s, s) /\ Leads(s, Merge(s, n, existing))
  BY LeadsToItself, MergeLeads
<1>2. MergedInto([node |-> n, state |-> s], existing) =
          [node |-> n, state |-> IF existing = None THEN s ELSE Merge(s, n, existing)]
  BY DEF MergedInto
<1> QED
  BY <1>1, <1>2

\* resolveRelayClientLocked
LEMMA ResolveClientLeads ==
  ASSUME NEW s, Sound(s), NEW key, NEW x, NEW client \in Clients
  PROVE  Leads(s, ResolveClient(s, key, x, client).state)
<1> DEFINE bound == s.scopes[key].sessions[x].clients
           existing == IF client.id \in DOMAIN bound THEN bound[client.id] ELSE None
           found == IF Strong(client.identity) # {} THEN MergedInto(Resolve(s, client.identity), existing)
                    ELSE IF existing # None THEN [node |-> existing, state |-> s]
                    ELSE NewNode(s)
<1>1. ResolveClient(s, key, x, client) = Bound(found, key, x, client.id)
  BY DEF ResolveClient
<1>2. found = [node |-> found.node, state |-> found.state] /\ Leads(s, found.state)
  <2> HIDE DEF existing
  <2>1. CASE Strong(client.identity) # {}
    <3> DEFINE r == Resolve(s, client.identity)
               u == r.state
               n == r.node
               m == MergedInto([node |-> n, state |-> u], existing)
    <3>1. client.identity \in Identities
      BY DEF Clients
    <3>2. r = [node |-> n, state |-> u] /\ Leads(s, u)
      <4>1. r = [node |-> r.node, state |-> r.state] /\ Leads(s, r.state) /\ r.node \in r.state.live
        BY <3>1, ResolveLeads
      <4> QED
        BY <4>1
    <3>3. found = m
      BY <2>1, <3>2
    <3> HIDE DEF u, n
    <3>4. m = [node |-> n, state |-> m.state] /\ Leads(u, m.state)
      BY <3>2, MergedIntoLeads DEF Leads
    <3> HIDE DEF m
    <3>5. Leads(s, m.state)
      BY <3>2, <3>4, LeadsTransitive
    <3> QED
      BY <3>3, <3>4, <3>5
  <2>2. CASE ~(Strong(client.identity) # {}) /\ existing # None
    <3>1. found = [node |-> existing, state |-> s]
      BY <2>2
    <3> QED
      BY <3>1, LeadsToItself
  <2>3. CASE ~(Strong(client.identity) # {}) /\ ~(existing # None)
    <3>1. found = NewNode(s)
      BY <2>3
    <3> QED
      BY <3>1, NewNodeLeads
  <2> QED
    BY <2>1, <2>2, <2>3
<1> DEFINE n == found.node
           u == found.state
           r == Bound([node |-> n, state |-> u], key, x, client.id)
<1>3. Bound(found, key, x, client.id) = r
  BY <1>2
<1>4. Leads(s, u)
  BY <1>2
<1> HIDE DEF found, n, u
<1>5. Leads(u, r.state)
  BY <1>4, BoundLeads DEF Leads
<1>6. Leads(s, r.state)
  BY <1>4, <1>5, LeadsTransitive
<1> QED
  BY <1>1, <1>3, <1>6

\* The scope of a session is there, under its key, once the session is under way.
LEMMA OpenedLeads ==
  ASSUME NEW s, Sound(s), NEW n \in s.live, NEW by \in Reporters, NEW session
  PROVE  LET open == Opened([node |-> n, state |-> s], by, session)
         IN  /\ open = [key |-> open.key, ends |-> open.ends, state |-> open.state]
             /\ open.key = <<n, session.vni>> /\ Leads(s, open.state)
             /\ open.key \in DOMAIN open.state.scopes /\ n \in open.state.live
<1> DEFINE key == <<n, session.vni>>
           r == Reported(s, n)
           c == Claim(r, by, n)
           t == WithScope(c, key)
           x == session.id
           old == t.scopes[key].sessions
           sessions == Put(old, {x}, [IF x \in DOMAIN old THEN old[x] ELSE NewSession EXCEPT !.seen = t.now])
           u == [t EXCEPT !.scopes = [t.scopes EXCEPT ![key] = [t.scopes[key] EXCEPT !.sessions = sessions]]]
           open == Opened([node |-> n, state |-> s], by, session)
<1>1. open = [key |-> key, ends |-> <<>>, state |-> u]
  BY DEF Opened
<1>2. Leads(s, r) /\ Sound(r) /\ r.live = s.live
  BY ReportedLeads DEF Leads
<1> HIDE DEF r
<1>3. Leads(r, c) /\ c.live = r.live
  BY <1>2, ClaimLeads
<1>4. Leads(s, c) /\ Sound(c)
  BY <1>2, <1>3, LeadsTransitive DEF Leads
<1> HIDE DEF c
<1>5. key = <<key[1], key[2]>>
  OBVIOUS
<1> HIDE DEF key
<1>6. Leads(c, t) /\ key \in DOMAIN t.scopes /\ t.live = c.live
  BY <1>4, <1>5, WithScopeLeads
<1>7. Leads(s, t) /\ Sound(t)
  BY <1>4, <1>6, LeadsTransitive DEF Leads
<1> HIDE DEF t
<1>8. IsFiniteSet(DOMAIN sessions)
  <2>1. IsFiniteSet(DOMAIN old)
    BY <1>6, <1>7 DEF Sound, ScopesSound, IsScope
  <2>2. DOMAIN sessions = DOMAIN old \cup {x}
    BY DEF Put
  <2>3. IsFiniteSet({x})
    BY FS_Singleton
  <2> QED
    BY <2>1, <2>2, <2>3, FS_Union
<1> HIDE DEF sessions
<1>9. u = [t EXCEPT !.scopes = [t.scopes EXCEPT ![key] = [t.scopes[key] EXCEPT !.sessions = sessions]]]
  OBVIOUS
<1> HIDE DEF u
<1>10. key \in DOMAIN t.scopes => IsFiniteSet(DOMAIN sessions)
  BY <1>8
<1>11. Leads(t, u) /\ DOMAIN u.scopes = DOMAIN t.scopes /\ u.live = t.live /\ u.redirect = t.redirect
  BY <1>7, <1>9, <1>10, SessionsSet
<1>12. Leads(s, u)
  BY <1>7, <1>11, LeadsTransitive
<1>13. open.key = key /\ open.state = u /\ open = [key |-> open.key, ends |-> open.ends, state |-> open.state]
  BY <1>1
<1> HIDE DEF open
<1>14. n \in u.live /\ key \in DOMAIN u.scopes
  BY <1>2, <1>3, <1>6, <1>11
<1> QED
  BY <1>12, <1>13, <1>14 DEF open, key


\* resolveRelaySessionLocked, after the clients.
LEMMA PairedLeads ==
  ASSUME NEW s, Sound(s), NEW key, key = <<key[1], key[2]>>, Where(s, key) \in DOMAIN s.scopes,
         NEW ends, NEW session
  PROVE  Leads(s, Paired([key |-> key, ends |-> ends, state |-> s], session))
<1> DEFINE open == [key |-> key, ends |-> ends, state |-> s]
           at == Where(s, key)
           x == session.id
           new == [s.scopes[at].sessions[x] EXCEPT !.ends = ends]
           t == [s EXCEPT !.scopes = [s.scopes EXCEPT ![at] =
                    [s.scopes[at] EXCEPT !.sessions = [s.scopes[at].sessions EXCEPT ![x] = new]]]]
           p == Paired(open, session)
<1>1. p = t \/ p = Reconcile(t, at) \/ \E pair : p = RecordPair(t, key, pair)
  BY DEF Paired
<1>2. t = [s EXCEPT !.scopes = [s.scopes EXCEPT ![at] =
              [s.scopes[at] EXCEPT !.sessions = [s.scopes[at].sessions EXCEPT ![x] = new]]]]
  OBVIOUS
<1> HIDE DEF t, new, at, p
<1> SUFFICES Leads(s, p)
  BY DEF p
<1>3. Leads(s, t) /\ DOMAIN t.scopes = DOMAIN s.scopes
  <2>1. Leads(s, t)
    BY <1>2, SessionSet
  <2>2. DOMAIN t.scopes = DOMAIN s.scopes
    BY <1>2, SessionSet
  <2> QED
    BY <2>1, <2>2
<1>4. Sound(t)
  BY <1>3 DEF Leads
<1>5. at \in DOMAIN t.scopes
  BY <1>3 DEF at
<1>6. CASE p = t
  BY <1>3, <1>6
<1>7. CASE p = Reconcile(t, at)
  <2>1. Leads(t, p)
    BY <1>4, <1>5, <1>7, ReconcileLeads
  <2> QED
    BY <1>3, <2>1, LeadsTransitive
<1>8. CASE \E pair : p = RecordPair(t, key, pair)
  <2>1. Leads(t, p)
    BY <1>4, <1>8, RecordPairLeads
  <2> QED
    BY <1>3, <2>1, LeadsTransitive
<1> QED
  BY <1>1, <1>6, <1>7, <1>8

\* The edge of a session.
LEMMA LinkedLeads ==
  ASSUME NEW s, Sound(s), NEW key, NEW x
  PROVE  Leads(s, Linked(s, key, x))
<1>1. Linked(s, key, x) = s \/ \E final : Linked(s, key, x) = Touch(s, final, key[1])
  BY DEF Linked
<1> QED
  BY <1>1, LeadsToItself, TouchLeads

\* However its clients merge, the session's scope is found to the end.
LEMMA SessionLeads ==
  ASSUME NEW s, Sound(s), NEW report, report.by \in Reporters, NEW session \in Sessions
  PROVE  Leads(s, Session(s, report, session))
<1>1. session.relay \in Identities /\ session.source \in Clients /\ session.target \in Clients
  BY DEF Sessions
<1> DEFINE x == session.id
           relay == Resolve(s, session.relay)
           s1 == relay.state
           n == relay.node
           open == Opened([node |-> n, state |-> s1], report.by, session)
           key == open.key
           s2 == open.state
           first == ResolveClient(s2, Where(s2, key), x, session.source)
           s3 == first.state
           second == ResolveClient(s3, Where(s3, key), x, session.target)
           s4 == second.state
           ends == Append(Append(open.ends, first.node), second.node)
           s5 == Paired([key |-> key, ends |-> ends, state |-> s4], session)
           s6 == Linked(s5, key, x)
<1>2. relay = [node |-> n, state |-> s1] /\ Leads(s, s1) /\ n \in s1.live
  <2>1. relay = [node |-> relay.node, state |-> relay.state] /\ Leads(s, relay.state)
        /\ relay.node \in relay.state.live
    BY <1>1, ResolveLeads
  <2> QED
    BY <2>1
<1>3. Session(s, report, session) = s6
  <2> HIDE DEF n, s1
  <2>1. relay = [node |-> n, state |-> s1]
    BY <1>2
  <2> HIDE DEF relay
  <2>2. open.key = key /\ open.state = s2
    OBVIOUS
  <2> DEFINE open1 == [key |-> key, ends |-> Append(open.ends, first.node), state |-> s3]
             open2 == [key |-> key, ends |-> ends, state |-> s4]
  <2> HIDE DEF open, s2, key
  <2> HIDE DEF first, second
  <2>3. Ended(open, first) = open1
    BY <2>2 DEF Ended
  <2>4. Ended(open1, second) = open2
    BY DEF Ended
  <2>5. open.key = key /\ open.state = s2
    BY DEF key, s2
  <2>6. open1.key = key /\ open1.state = s3 /\ open2.key = key /\ open2.state = s4
    OBVIOUS
  <2>7. Session(s, report, session) = Linked(Paired(open2, session), open2.key, x)
    <3>1. Opened(Resolve(s, session.relay), report.by, session) = open
      BY <2>1 DEF open, relay
    <3> HIDE DEF open1, open2, first, second
    <3> DEFINE WithClient(o, client) ==
                   Ended(o, ResolveClient(o.state, Where(o.state, o.key), session.id, client))
    <3>2. WithClient(open, session.source) = open1
      BY <2>3, <2>5 DEF first
    <3>3. WithClient(open1, session.target) = open2
      BY <2>4, <2>6 DEF second
    <3> HIDE DEF WithClient
    <3>4. Session(s, report, session) = LET o == WithClient(WithClient(
              Opened(Resolve(s, session.relay), report.by, session), session.source), session.target)
          IN  Linked(Paired(o, session), o.key, session.id)
      BY DEF Session, WithClient
    <3> QED
      BY <3>1, <3>2, <3>3, <3>4
  <2> QED
    BY <2>6, <2>7
<1>4. Sound(s1)
  BY <1>2 DEF Leads
<1> HIDE DEF n, s1
<1>5. /\ key = <<n, session.vni>> /\ Leads(s1, s2)
      /\ key \in DOMAIN s2.scopes /\ n \in s2.live
  BY <1>2, <1>4, OpenedLeads
<1>6. Sound(s2)
  BY <1>5 DEF Leads
<1> HIDE DEF key, s2
<1>7. Leads(s2, s3)
  BY <1>1, <1>6, ResolveClientLeads
<1>8. Sound(s3)
  BY <1>7 DEF Leads
<1> HIDE DEF s3
<1>9. Leads(s3, s4)
  BY <1>1, <1>8, ResolveClientLeads
<1>10. Leads(s2, s4)
  BY <1>6, <1>7, <1>9, LeadsTransitive
<1>11. Sound(s4)
  BY <1>9 DEF Leads
<1> HIDE DEF s4, ends
<1>12. Where(s4, key) \in DOMAIN s4.scopes /\ key = <<key[1], key[2]>>
  <2>1. key[1] = n /\ key[2] = session.vni /\ key = <<key[1], key[2]>>
    BY <1>5
  <2>2. <<Became(s4, key[1]), key[2]>> \in DOMAIN s4.scopes
    BY <1>5, <1>10, <2>1 DEF Leads, ScopesFollow
  <2> QED
    BY <2>1, <2>2 DEF Where
<1>13. Leads(s4, s5)
  BY <1>11, <1>12, PairedLeads
<1>14. Sound(s5)
  BY <1>13 DEF Leads
<1> HIDE DEF s5
<1>15. Leads(s5, s6)
  BY <1>14, LinkedLeads
<1> HIDE DEF s6
<1>16. Leads(s, s2)
  BY <1>2, <1>5, LeadsTransitive
<1>17. Leads(s, s4)
  BY <1>16, <1>10, LeadsTransitive
<1>18. Leads(s, s5)
  BY <1>17, <1>13, LeadsTransitive
<1> QED
  BY <1>3, <1>15, <1>18, LeadsTransitive

-----------------------------------------------------------------------------
(* A whole report *)

\* The folds over a sequence take its last element last.
LEMMA Indexes ==
  ASSUME NEW S, NEW seq \in Seq(S), NEW kind, kind # "infer"
  PROVE  /\ IsFiniteSet(DOMAIN seq)
         /\ \A T \in SUBSET DOMAIN seq : T # {} => Pick(kind, T) \in T
<1>1. DOMAIN seq = 1 .. Len(seq) /\ Len(seq) \in Nat
  OBVIOUS
<1>2. IsFiniteSet(DOMAIN seq)
  BY <1>1, FS_Interval
<1>3. ASSUME NEW T \in SUBSET DOMAIN seq, T # {}
      PROVE  Max(T) \in T
  <2>1. T \in SUBSET Nat /\ IsFiniteSet(T)
    BY <1>1, <1>2, FS_Subset
  <2> QED
    BY <2>1, <1>3, MaxIs
<1> QED
  BY <1>2, <1>3 DEF Pick

\* The elements of a sequence over S are in S.
LEMMA ElementsOf ==
  ASSUME NEW S, NEW seq \in Seq(S), NEW i \in DOMAIN seq
  PROVE  seq[i] \in S
OBVIOUS

\* Every peer of an inventory is resolved, one after the other.
LEMMA ResolvedLeads ==
  ASSUME NEW s, Sound(s), NEW peers \in Seq([identity : Identities, via : Relays])
  PROVE  Leads(s, Resolved(s, peers).state)
<1> DEFINE S == DOMAIN peers
           base == [state |-> s, members |-> {}]
           P(h) == h = [T \in SUBSET S |->
                          IF T = {} THEN base
                          ELSE [state   |-> Resolve(h[T \ {Max(T)}].state, peers[Max(T)].identity).state,
                                members |-> h[T \ {Max(T)}].members \cup
                                    {Resolve(h[T \ {Max(T)}].state, peers[Max(T)].identity).node}]]
<1>1. IsFiniteSet(S) /\ \A T \in SUBSET S : T # {} => Pick("peers", T) \in T
  <2>1. "peers" # "infer"
    OBVIOUS
  <2> QED
    BY <2>1, Indexes
<1>2. \A h : Unfolds("peers", peers, base, S, h) <=> P(h)
  BY DEF Unfolds, Step, Pick
<1>3. \E h : P(h)
  <2>1. \E h : Unfolds("peers", peers, base, S, h)
    BY <1>1, FoldExists
  <2> QED
    BY <2>1, <1>2
<1> DEFINE h == CHOOSE h : P(h)
<1>4. P(h)
  BY <1>3
<1>5. Resolved(s, peers) = h[S]
  BY DEF Resolved, FoldLeft, MapThenFoldSet
<1> HIDE DEF h, P
<1>6. Holds("peers", peers, base, {}, base)
  BY LeadsToItself DEF Holds
<1>7. ASSUME NEW T \in SUBSET S, NEW x \in S \ T, NEW acc, Holds("peers", peers, base, T, acc)
      PROVE  Holds("peers", peers, base, T \cup {x}, Step("peers", peers, x, acc))
  <2> DEFINE u == acc.state
             v == Resolve(u, peers[x].identity).state
  <2>1. Leads(s, u) /\ Sound(u)
    BY <1>7 DEF Holds, Leads
  <2>2. peers[x].identity \in Identities
    <3>1. peers[x] \in [identity : Identities, via : Relays]
      BY ElementsOf
    <3> QED
      BY <3>1
  <2> HIDE DEF u
  <2>3. Leads(u, v)
    BY <2>1, <2>2, ResolveLeads
  <2>4. Leads(s, v)
    BY <2>1, <2>3, LeadsTransitive
  <2>5. Step("peers", peers, x, acc).state = v
    BY DEF Step, u
  <2> HIDE DEF v
  <2> QED
    BY <2>4, <2>5 DEF Holds
<1>8. Holds("peers", peers, base, S, h[S])
  <2>1. Unfolds("peers", peers, base, S, h)
    BY <1>2, <1>4
  <2> QED
    BY <2>1, <1>1, <1>6, <1>7, FoldHolds
<1> QED
  BY <1>5, <1>8 DEF Holds

\* The members of an inventory, and the observer's edges marked.
LEMMA MembersLeads ==
  ASSUME NEW s, Sound(s), NEW o, NEW peers \in Seq([identity : Identities, via : Relays])
  PROVE  Leads(s, Members(s, o, peers).state)
<1> DEFINE u == Resolved(s, peers).state
<1>1. Leads(s, u)
  BY ResolvedLeads
<1>2. Members(s, o, peers).state = TouchObserved(u, o)
  BY DEF Members
<1> HIDE DEF u
<1>3. Leads(u, TouchObserved(u, o))
  BY <1>1, TouchObservedLeads DEF Leads
<1> QED
  BY <1>1, <1>2, <1>3, LeadsTransitive

\* A nil dereference is noted.
LEMMA BrokenLeads ==
  ASSUME NEW s, Sound(s)
  PROVE  Leads(s, [s EXCEPT !.broken = TRUE])
<1> DEFINE t == [s EXCEPT !.broken = TRUE]
<1>1. IsState(s)
  BY DEF Sound
<1>2. t = [s EXCEPT !.broken = TRUE]
  OBVIOUS
<1> HIDE DEF t
<1>3. /\ IsState(t) /\ t.scopes = s.scopes /\ t.live = s.live /\ t.redirect = s.redirect
      /\ t.stable = s.stable /\ t.alias = s.alias /\ t.order = s.order /\ t.given = s.given
  BY <1>1, <1>2 DEF IsState, Fields
<1>4. /\ t.resolved = s.resolved /\ t.report = s.report /\ t.seen = s.seen /\ t.edges = s.edges
      /\ t.canonical = s.canonical /\ t.observers = s.observers /\ t.holds = s.holds
  BY <1>1, <1>2 DEF IsState, Fields
<1>5. SameNodes(s, t)
  BY <1>3, <1>4 DEF SameNodes, Sound, NodesSound
<1>6. ObserversSound(t) /\ ScopesSound(t)
  BY <1>3, <1>4 DEF Sound, ObserversSound, OwnersAgree, ScopesSound
<1>7. Leads(s, t)
  BY <1>3, <1>4, <1>5, <1>6, Frame
<1> QED
  BY <1>7 DEF t

\* replaceInventoryLocked: the observer keeps its owner, and every edge stays.
LEMMA ListedLeads ==
  ASSUME NEW s, Sound(s), NEW o, NEW all, all.state = s
  PROVE  Leads(s, Listed(all, o))
<1> DEFINE gone == {{o, p} : p \in s.observers[o].members \ all.members}
           edges == [e \in DOMAIN s.edges |-> IF e \in gone THEN s.edges[e] \ {o} ELSE s.edges[e]]
           observers == [s.observers EXCEPT ![o] = [s.observers[o] EXCEPT !.members = all.members]]
           t == [s EXCEPT !.edges = edges, !.observers = observers]
<1>1. Listed(all, o) = [s EXCEPT !.broken = TRUE] \/ (o \in DOMAIN s.observers /\ Listed(all, o) = t)
  BY DEF Listed
<1>2. SUFFICES ASSUME o \in DOMAIN s.observers
               PROVE  Leads(s, t)
  BY <1>1, BrokenLeads
<1>3. IsState(s) /\ OwnersAgree(s)
  BY DEF Sound, ObserversSound
<1> DEFINE old == s.observers[o]
           new == [old EXCEPT !.members = all.members]
           holds == s.holds
<1>4. new.owner = old.owner /\ new = [owner |-> new.owner, members |-> new.members]
  <2>1. old = [owner |-> old.owner, members |-> old.members]
    BY <1>2, <1>3 DEF OwnersAgree
  <2> HIDE DEF old
  <2> QED
    BY <2>1
<1>5. observers = [s.observers EXCEPT ![o] = new]
  OBVIOUS
<1> HIDE DEF new
<1>6. /\ DOMAIN observers = DOMAIN s.observers
      /\ \A p \in DOMAIN observers : observers[p] = IF p = o THEN new ELSE s.observers[p]
  BY <1>5
<1>7. DOMAIN s.edges \subseteq DOMAIN edges
  OBVIOUS
<1> HIDE DEF observers, edges
<1>8. t = [s EXCEPT !.observers = observers, !.holds = holds, !.edges = edges]
  BY <1>3 DEF IsState, Fields
<1>9. t.observers = observers /\ t.holds = s.holds
  BY <1>3 DEF IsState, Fields
<1> HIDE DEF t, holds
<1>10. OwnersAgree(t)
  <2>1. s.holds = [r \in Reporters |-> {p \in DOMAIN s.observers : s.observers[p].owner = r}]
    BY <1>3 DEF OwnersAgree
  <2>2. \A p \in DOMAIN observers : observers[p].owner = s.observers[p].owner
    BY <1>4, <1>6
  <2>3. \A r : {p \in DOMAIN s.observers : s.observers[p].owner = r} =
               {p \in DOMAIN observers : observers[p].owner = r}
    BY <1>6, <2>2
  <2>4. t.holds = [r \in Reporters |-> {p \in DOMAIN t.observers : t.observers[p].owner = r}]
    BY <1>9, <2>1, <2>3
  <2>5. \A p \in DOMAIN observers : observers[p] = [owner |-> observers[p].owner, members |-> observers[p].members]
    BY <1>3, <1>4, <1>6 DEF OwnersAgree
  <2> QED
    BY <1>9, <2>4, <2>5 DEF OwnersAgree
<1>11. DOMAIN observers \subseteq s.live
  BY <1>6 DEF Sound, ObserversSound
<1> QED
  BY <1>7, <1>8, <1>10, <1>11, ObserversSet

\* A sample, up to the relay pair it records.
LEMMA SampledLeads ==
  ASSUME NEW s, Sound(s), NEW peer, peer.state = s, NEW o, NEW via \in Relays
  PROVE  Leads(s, Sampled(peer, o, via))
<1> DEFINE touched == s.touched \cup {{o, peer.node}}
           t == [s EXCEPT !.touched = touched]
           identity == [stable |-> via.stable, key |-> None, disco |-> None, ip |-> None]
           relay == Resolve(t, identity)
           u == relay.state
           key == <<relay.node, via.vni>>
           v == RecordPair(u, key, {o, peer.node})
<1>1. Sampled(peer, o, via) = IF via = None THEN t ELSE v
  BY DEF Sampled
<1>2. Leads(s, t)
  <2> HIDE DEF touched
  <2> QED
    BY TouchedLeads
<1>3. Sound(t)
  BY <1>2 DEF Leads
<1> HIDE DEF t
<1>4. ASSUME via # None
      PROVE  Leads(s, v)
  <2>1. identity \in Identities
    BY <1>4 DEF Relays, Identities
  <2> HIDE DEF identity
  <2>2. Leads(t, u)
    BY <1>3, <2>1, ResolveLeads
  <2>3. Leads(s, u) /\ Sound(u)
    BY <1>2, <2>2, LeadsTransitive DEF Leads
  <2>4. key = <<key[1], key[2]>>
    OBVIOUS
  <2> HIDE DEF u, key
  <2>5. Leads(u, v)
    BY <2>3, <2>4, RecordPairLeads
  <2> HIDE DEF v
  <2> QED
    BY <2>3, <2>5, LeadsTransitive
<1> QED
  BY <1>1, <1>2, <1>4

\* One sample of a traffic report.
LEMMA SampleLeads ==
  ASSUME NEW s, Sound(s), NEW o, NEW p \in [identity : Identities, via : Relays]
  PROVE  Leads(s, Sample(s, o, p))
<1> DEFINE peer == Resolve(s, p.identity)
           u == peer.state
           v == Sampled(peer, o, p.via)
           w == Touch(v, {o, peer.node}, o)
<1>1. Sample(s, o, p) = w
  BY DEF Sample
<1>2. Leads(s, u)
  BY ResolveLeads
<1>3. peer.state = u /\ Sound(u)
  BY <1>2 DEF Leads
<1> HIDE DEF u, peer
<1>4. Leads(u, v)
  BY <1>3, SampledLeads
<1>5. Leads(s, v) /\ Sound(v)
  BY <1>2, <1>4, LeadsTransitive DEF Leads
<1> HIDE DEF v
<1>6. Leads(v, w)
  BY <1>5, TouchLeads
<1> HIDE DEF w
<1> QED
  BY <1>1, <1>5, <1>6, LeadsTransitive

\* All samples of one observer.
LEMMA SamplesLead ==
  ASSUME NEW s, Sound(s), NEW o, NEW peers \in Seq([identity : Identities, via : Relays])
  PROVE  Leads(s, Samples(s, o, peers))
<1> DEFINE S == DOMAIN peers
           ctx == [o |-> o, peers |-> peers]
           P(h) == h = [T \in SUBSET S |->
                          IF T = {} THEN s ELSE Sample(h[T \ {Max(T)}], o, peers[Max(T)])]
<1>1. IsFiniteSet(S) /\ \A T \in SUBSET S : T # {} => Pick("samples", T) \in T
  <2>1. "samples" # "infer"
    OBVIOUS
  <2> QED
    BY <2>1, Indexes
<1>2. \A h : Unfolds("samples", ctx, s, S, h) <=> P(h)
  BY DEF Unfolds, Step, Pick
<1>3. \E h : P(h)
  <2>1. \E h : Unfolds("samples", ctx, s, S, h)
    BY <1>1, FoldExists
  <2> QED
    BY <2>1, <1>2
<1> DEFINE h == CHOOSE h : P(h)
<1>4. P(h)
  BY <1>3
<1>5. Samples(s, o, peers) = h[S]
  BY DEF Samples, FoldLeft, MapThenFoldSet
<1> HIDE DEF h, P
<1>6. Holds("samples", ctx, s, {}, s)
  BY LeadsToItself DEF Holds
<1>7. ASSUME NEW T \in SUBSET S, NEW x \in S \ T, NEW acc, Holds("samples", ctx, s, T, acc)
      PROVE  Holds("samples", ctx, s, T \cup {x}, Step("samples", ctx, x, acc))
  <2> DEFINE v == Sample(acc, o, peers[x])
  <2>1. Leads(s, acc) /\ Sound(acc)
    BY <1>7 DEF Holds, Leads
  <2>2. peers[x] \in [identity : Identities, via : Relays]
    BY ElementsOf
  <2>3. Leads(acc, v)
    BY <2>1, <2>2, SampleLeads
  <2>4. Leads(s, v)
    BY <2>1, <2>3, LeadsTransitive
  <2>5. Step("samples", ctx, x, acc) = v
    BY DEF Step
  <2> HIDE DEF v
  <2> QED
    BY <2>4, <2>5 DEF Holds
<1>8. Holds("samples", ctx, s, S, h[S])
  <2>1. Unfolds("samples", ctx, s, S, h)
    BY <1>2, <1>4
  <2> QED
    BY <2>1, <1>1, <1>6, <1>7, FoldHolds
<1> QED
  BY <1>5, <1>8 DEF Holds

\* One observer's part of a report, once the observer is known.
LEMMA ObservedLeads ==
  ASSUME NEW s, Sound(s), NEW found, found.state = s, found.node \in s.live,
         NEW report, report.by \in Reporters,
         NEW peers \in Seq([identity : Identities, via : Relays])
  PROVE  Leads(s, Observed(found, report, peers))
<1> DEFINE o == found.node
           c == IF report.kind = "hello" THEN Claim(s, report.by, o) ELSE s
           t == Reported(c, o)
           all == Members(t, o, peers)
           u == all.state
           listed == Listed(all, o)
           broke == [t EXCEPT !.broken = TRUE]
           sampled == Samples(t, o, peers)
<1>1. \/ Observed(found, report, peers) = listed
      \/ Observed(found, report, peers) = broke
      \/ Observed(found, report, peers) = sampled
  BY DEF Observed
<1>2. Leads(s, c)
  BY LeadsToItself, ClaimLeads
<1>3. Sound(c)
  BY <1>2 DEF Leads
<1> HIDE DEF c, o
<1>4. Leads(c, t)
  BY <1>3, ReportedLeads
<1>5. Leads(s, t) /\ Sound(t)
  BY <1>2, <1>4, LeadsTransitive DEF Leads
<1> HIDE DEF t
<1>6. Leads(s, listed)
  <2>1. Leads(t, u)
    BY <1>5, MembersLeads
  <2>2. Leads(s, u) /\ Sound(u)
    BY <1>5, <2>1, LeadsTransitive DEF Leads
  <2>3. all.state = u
    OBVIOUS
  <2> HIDE DEF u, all
  <2>4. Leads(u, listed)
    BY <2>2, <2>3, ListedLeads
  <2> HIDE DEF listed
  <2> QED
    BY <2>2, <2>4, LeadsTransitive
<1>7. Leads(s, broke)
  <2>1. Leads(t, broke)
    BY <1>5, BrokenLeads
  <2> HIDE DEF broke
  <2> QED
    BY <1>5, <2>1, LeadsTransitive
<1>8. Leads(s, sampled)
  <2>1. Leads(t, sampled)
    BY <1>5, SamplesLead
  <2> HIDE DEF sampled
  <2> QED
    BY <1>5, <2>1, LeadsTransitive
<1> HIDE DEF listed, broke, sampled
<1> QED
  BY <1>1, <1>6, <1>7, <1>8

\* One observer's part of a report.
LEMMA ObserveLeads ==
  ASSUME NEW s, Sound(s), NEW report, report.by \in Reporters, NEW part \in Observations
  PROVE  Leads(s, Observe(s, report, part))
<1> DEFINE found == Resolve(s, part.observer)
           u == found.state
           v == Observed(found, report, part.peers)
<1>1. Observe(s, report, part) = v
  BY DEF Observe
<1>2. part.observer \in Identities /\ part.peers \in Seq([identity : Identities, via : Relays])
  BY DEF Observations
<1>3. Leads(s, found.state) /\ found.node \in found.state.live
  BY <1>2, ResolveLeads
<1>4. Leads(s, u) /\ Sound(u) /\ found.state = u /\ found.node \in u.live
  BY <1>3 DEF Leads
<1> HIDE DEF u, found
<1>5. Leads(u, v)
  BY <1>2, <1>4, ObservedLeads
<1> HIDE DEF v
<1> QED
  BY <1>1, <1>4, <1>5, LeadsTransitive

\* One part of a report of any kind.
LEMMA ApplyLeads ==
  ASSUME NEW s, Sound(s), NEW report \in Reports, NEW i \in DOMAIN report.parts
  PROVE  Leads(s, Apply(s, report, report.parts[i]))
<1>1. /\ report.by \in Reporters
      /\ report.parts \in Seq(IF report.kind = "relay" THEN Sessions ELSE Observations)
  BY ReportsAssumption
<1>2. report.parts[i] \in IF report.kind = "relay" THEN Sessions ELSE Observations
  BY <1>1, ElementsOf
<1>3. CASE report.kind = "relay"
  <2>1. Apply(s, report, report.parts[i]) = Session(s, report, report.parts[i])
    BY <1>3 DEF Apply
  <2> QED
    BY <1>1, <1>2, <1>3, <2>1, SessionLeads
<1>4. CASE report.kind = "withdrawal"
  <2>1. Apply(s, report, report.parts[i]) = Withdraw(s, report, report.parts[i])
    BY <1>4 DEF Apply
  <2> QED
    BY <1>1, <2>1, WithdrawLeads
<1>5. CASE report.kind \notin {"relay", "withdrawal"}
  <2>1. Apply(s, report, report.parts[i]) = Observe(s, report, report.parts[i])
    BY <1>5 DEF Apply
  <2> QED
    BY <1>1, <1>2, <1>5, <2>1, ObserveLeads
<1> QED
  BY <1>3, <1>4, <1>5

\* A whole report (applyLocked).
LEMMA HandledLeads ==
  ASSUME NEW s, Sound(s), NEW report \in Reports
  PROVE  Leads(s, Handled(s, report))
<1> DEFINE S == DOMAIN report.parts
           P(h) == h = [T \in SUBSET S |->
                          IF T = {} THEN s ELSE Apply(h[T \ {Max(T)}], report, report.parts[Max(T)])]
<1>1. IsFiniteSet(S) /\ \A T \in SUBSET S : T # {} => Pick("parts", T) \in T
  <2>1. "parts" # "infer"
    OBVIOUS
  <2>2. report.parts \in Seq(IF report.kind = "relay" THEN Sessions ELSE Observations)
    BY ReportsAssumption
  <2> QED
    BY <2>1, <2>2, Indexes
<1>2. \A h : Unfolds("parts", report, s, S, h) <=> P(h)
  BY DEF Unfolds, Step, Pick
<1>3. \E h : P(h)
  <2>1. \E h : Unfolds("parts", report, s, S, h)
    BY <1>1, FoldExists
  <2> QED
    BY <2>1, <1>2
<1> DEFINE h == CHOOSE h : P(h)
<1>4. P(h)
  BY <1>3
<1>5. Handled(s, report) = h[S]
  BY DEF Handled, FoldLeft, MapThenFoldSet
<1> HIDE DEF h, P
<1>6. Holds("parts", report, s, {}, s)
  BY LeadsToItself DEF Holds
<1>7. ASSUME NEW T \in SUBSET S, NEW x \in S \ T, NEW acc, Holds("parts", report, s, T, acc)
      PROVE  Holds("parts", report, s, T \cup {x}, Step("parts", report, x, acc))
  <2> DEFINE v == Apply(acc, report, report.parts[x])
  <2>1. Leads(s, acc) /\ Sound(acc)
    BY <1>7 DEF Holds, Leads
  <2>2. Leads(acc, v)
    BY <2>1, ApplyLeads
  <2>3. Leads(s, v)
    BY <2>1, <2>2, LeadsTransitive
  <2>4. Step("parts", report, x, acc) = v
    BY DEF Step
  <2> HIDE DEF v
  <2> QED
    BY <2>3, <2>4 DEF Holds
<1>8. Holds("parts", report, s, S, h[S])
  <2>1. Unfolds("parts", report, s, S, h)
    BY <1>2, <1>4
  <2> QED
    BY <2>1, <1>1, <1>6, <1>7, FoldHolds
<1> QED
  BY <1>5, <1>8 DEF Holds

-----------------------------------------------------------------------------
(* The directory *)

\* Where no node and no redirect changed, everything follows that is still there.
LEMMA Unmoved ==
  ASSUME NEW s, NEW t, Sound(s), Sound(t), t.live = s.live, t.redirect = s.redirect,
         \A a \in DOMAIN s.alias \ Addresses : a \in DOMAIN t.alias /\ t.alias[a] = s.alias[a],
         DOMAIN s.edges \subseteq DOMAIN t.edges
  PROVE  Follows(s, t) /\ \A n \in s.live : Became(t, n) = n
<1>1. \A n \in s.live : Became(t, n) = n
  BY DEF Sound, NodesSound, Became
<1>2. \A n \in s.live : Became(t, n) \in t.live
  BY <1>1
<1>3. \A n \in DOMAIN s.redirect : n \in DOMAIN t.redirect /\ t.redirect[n] = Became(t, s.redirect[n])
  BY <1>1 DEF Sound, NodesSound
<1>4. \A a \in DOMAIN s.alias \ Addresses : a \in DOMAIN t.alias /\ t.alias[a] = Became(t, s.alias[a])
  BY <1>1 DEF Sound, AliasesSound
<1>5. \A m, n \in s.live : {m, n} \in DOMAIN s.edges /\ Became(t, m) # Became(t, n) =>
          {Became(t, m), Became(t, n)} \in DOMAIN t.edges
  BY <1>1
<1> QED
  BY <1>1, <1>2, <1>3, <1>4, <1>5 DEF Follows

\* The new CanonicalIDs take the place of the old ones.
LEMMA CanonicalSet ==
  ASSUME NEW s, Sound(s), NEW ids,
         \A x \in DOMAIN ids : x \in StableIds \cap DOMAIN s.alias /\ ids[x] = s.alias[x]
  PROVE  Leads(s, [s EXCEPT !.canonical = ids])
<1> DEFINE t == [s EXCEPT !.canonical = ids]
<1>1. IsState(s)
  BY DEF Sound
<1>2. t = [s EXCEPT !.canonical = ids]
  OBVIOUS
<1> HIDE DEF t
<1>3. /\ IsState(t) /\ t.scopes = s.scopes /\ t.live = s.live /\ t.redirect = s.redirect
      /\ t.stable = s.stable /\ t.alias = s.alias /\ t.order = s.order /\ t.given = s.given
  BY <1>1, <1>2 DEF IsState, Fields
<1>4. /\ t.resolved = s.resolved /\ t.report = s.report /\ t.seen = s.seen /\ t.edges = s.edges
      /\ t.canonical = ids /\ t.observers = s.observers /\ t.holds = s.holds
  BY <1>1, <1>2 DEF IsState, Fields
<1>5. NodesSound(t)
  BY <1>3, <1>4 DEF Sound, NodesSound
<1>6. AliasesSound(t)
  BY <1>3, <1>4 DEF Sound, AliasesSound
<1>7. ObserversSound(t) /\ ScopesSound(t)
  BY <1>3, <1>4 DEF Sound, ObserversSound, OwnersAgree, ScopesSound
<1>8. Sound(t)
  BY <1>3, <1>5, <1>6, <1>7 DEF Sound
<1>9. Follows(s, t) /\ \A n \in s.live : Became(t, n) = n
  <2>1. DOMAIN s.edges \subseteq DOMAIN t.edges
    BY <1>4
  <2>2. \A a \in DOMAIN s.alias \ Addresses : a \in DOMAIN t.alias /\ t.alias[a] = s.alias[a]
    BY <1>3
  <2> QED
    BY <1>3, <1>8, <2>1, <2>2, Unmoved
<1>10. ScopesFollow(s, t)
  BY <1>3, <1>9 DEF ScopesFollow, Sound, ScopesSound
<1> QED
  BY <1>8, <1>9, <1>10 DEF Leads, t

Devices == [stable : StableIds, key : NodeKeys \cup {None}]

\* Afterwards the device is known by its stable id, and every device that was
\* known still is the same node.
Keeps(s, x, r) ==
    /\ r = [node |-> r.node, state |-> r.state]
    /\ Leads(s, r.state)
    /\ x \in DOMAIN r.state.alias /\ r.node = r.state.alias[x]
    /\ Unmoves(s, r.state)

\* A node without a stable id takes the device's on.
LEMMA AttachedKeeps ==
  ASSUME NEW s, Sound(s), NEW n, n \in s.live, NEW x, x \in StableIds, x \notin DOMAIN s.alias
  PROVE  LET t == [s EXCEPT !.stable = [s.stable EXCEPT ![n] = x],
                            !.resolved = s.resolved \cup {n},
                            !.alias = Put(s.alias, {x}, n)]
         IN  Keeps(s, x, [node |-> n, state |-> t])
<1> DEFINE stable == [s.stable EXCEPT ![n] = x]
           resolved == s.resolved \cup {n}
           alias == Put(s.alias, {x}, n)
           t == [s EXCEPT !.stable = stable, !.resolved = resolved, !.alias = alias]
<1> SUFFICES Keeps(s, x, [node |-> n, state |-> t])
  OBVIOUS
<1>1. IsState(s) /\ DOMAIN s.stable = s.live /\ s.resolved \subseteq s.live
  BY DEF Sound, NodesSound
<1>2. x \in StableIds /\ x \in Names
  BY DEF Names
<1>3. DOMAIN stable = s.live /\ stable[n] = x /\ \A m \in s.live : m # n => stable[m] = s.stable[m]
  BY <1>1
<1>4. resolved \subseteq s.live
  BY <1>1
<1>5. x \notin DOMAIN s.alias
  OBVIOUS
<1> HIDE DEF stable, resolved, alias
<1>6. /\ IsState(t) /\ t.scopes = s.scopes /\ t.live = s.live /\ t.redirect = s.redirect
      /\ t.stable = stable /\ t.alias = alias /\ t.order = s.order /\ t.given = s.given
  BY <1>1 DEF IsState, Fields
<1>7. /\ t.resolved = resolved /\ t.report = s.report /\ t.seen = s.seen /\ t.edges = s.edges
      /\ t.canonical = s.canonical /\ t.observers = s.observers /\ t.holds = s.holds
  BY <1>1 DEF IsState, Fields
<1> HIDE DEF t
<1> DEFINE keys == {x}
<1>8. keys \subseteq Names /\ keys \cap StableIds = {x}
  BY <1>2
<1>9. t.alias = Put(s.alias, keys, n)
  BY <1>6 DEF alias
<1>10. \A a \in keys : a \in DOMAIN s.alias => a \in Addresses \/ s.alias[a] = n
  BY <1>5
<1> HIDE DEF keys
<1>11. \/ t.stable[n] = s.stable[n] /\ keys \cap StableIds = {}
       \/ t.stable[n] \in StableIds /\ keys \cap StableIds = {t.stable[n]}
  BY <1>2, <1>3, <1>6, <1>8
<1>12. DOMAIN t.seen \subseteq DOMAIN s.seen \cup (keys \cap Addresses)
  BY <1>7
<1>13. DOMAIN t.stable = s.live /\ \A m \in s.live : m # n => t.stable[m] = s.stable[m]
  BY <1>3, <1>6
<1>14. t.resolved \subseteq s.live
  BY <1>4, <1>7
<1>15. Leads(s, t)
  <2>1. Takes(s, t, n, keys)
    BY <1>6, <1>7, <1>8, <1>9, <1>10, <1>11, <1>12, <1>13, <1>14 DEF Takes
  <2> QED
    BY <2>1, BindLeads
<1>16. t.alias = Put(s.alias, {x}, n)
  BY <1>6 DEF alias
<1>17. x \in DOMAIN t.alias /\ t.alias[x] = n
  BY <1>16 DEF Put
<1>18. \A y \in StableIds \cap DOMAIN s.alias : y \in DOMAIN t.alias /\ t.alias[y] = s.alias[y]
  BY <1>16, <1>5 DEF Put
<1> QED
  BY <1>15, <1>17, <1>18 DEF Keeps, Unmoves

\* A node without a stable id is merged away, so no device loses its node.
LEMMA MergedKeeps ==
  ASSUME NEW s, Sound(s), NEW x \in StableIds \cap DOMAIN s.alias, NEW n,
         n \in s.live, s.stable[n] \in {None, x}
  PROVE  Keeps(s, x, [node |-> s.alias[x], state |-> Merge(s, s.alias[x], n)])
<1> DEFINE keep == s.alias[x]
           t == Merge(s, keep, n)
<1>1. keep \in s.live
  BY DEF Sound, AliasesSound
<1>2. /\ \A y \in StableIds \cap DOMAIN s.alias : s.alias[y] \in s.live /\ s.stable[s.alias[y]] # None
      /\ s.stable[n] # None => s.alias[s.stable[n]] = n
  BY DEF Sound, AliasesSound
<1> HIDE DEF keep
<1>3. CASE keep = n
  <2>1. t = s
    BY <1>3 DEF Merge
  <2> HIDE DEF t
  <2>2. Leads(s, t) /\ x \in DOMAIN t.alias /\ t.alias[x] = keep
    BY <2>1, LeadsToItself DEF keep
  <2> QED
    BY <2>1, <2>2 DEF Keeps, Unmoves, t, keep
<1>4. CASE keep # n
  <2>1. Leads(s, t) /\ t.live = s.live \ {n}
    BY <1>1, <1>4, MergeMoves
  <2> HIDE DEF t
  <2>2. s.stable[n] = None
    BY <1>2, <1>4 DEF keep
  <2>3. \A y \in StableIds \cap DOMAIN s.alias : s.alias[y] \in t.live
    BY <1>2, <2>1, <2>2
  <2>4. \A m \in t.live : Became(t, m) = m
    BY <2>1 DEF Leads, Sound, NodesSound, Became
  <2>5. \A y \in StableIds : y \notin Addresses
    BY NamesAssumption
  <2>6. \A y \in StableIds \cap DOMAIN s.alias : y \in DOMAIN t.alias /\ t.alias[y] = s.alias[y]
    BY <2>1, <2>3, <2>4, <2>5 DEF Leads, Follows
  <2>7. x \in DOMAIN t.alias /\ t.alias[x] = keep
    BY <2>6 DEF keep
  <2> QED
    BY <2>1, <2>6, <2>7 DEF Keeps, Unmoves, t, keep
<1> QED
  BY <1>3, <1>4

\* A device nobody knows becomes a node of its own.
LEMMA AddedKeeps ==
  ASSUME NEW s, Sound(s), NEW x \in StableIds, x \notin DOMAIN s.alias
  PROVE  Keeps(s, x, Resolve(s, [stable |-> x, key |-> None, disco |-> None, ip |-> None]))
<1> DEFINE identity == [stable |-> x, key |-> None, disco |-> None, ip |-> None]
           f == NewNode(s)
           u == f.state
           n == f.node
           r == Identified(u, n, identity)
           t == r.state
<1>1. None \notin Names /\ x # None /\ x \notin Addresses /\ (\A y \in StableIds : y \notin Addresses)
  BY NamesAssumption DEF Names
<1>2. None \notin DOMAIN s.alias
  BY <1>1 DEF Sound, AliasesSound
<1>3. identity \in Identities
  BY DEF Identities
<1>4. /\ identity.stable = x /\ identity.key = None /\ identity.disco = None /\ identity.ip = None
      /\ Strong(identity) = {x}
  BY <1>1 DEF Strong
<1> HIDE DEF identity
<1>5. WithoutConflict(s, identity) = identity
  BY <1>2, <1>4 DEF WithoutConflict, Conflicts
<1>6. Matches(s, identity) = {}
  BY <1>2, <1>4 DEF Matches, AddressMatches
<1>7. Found(s, identity, {}) = f
  BY DEF Found
<1>8. /\ f = [node |-> f.node, state |-> f.state]
      /\ Leads(s, f.state) /\ f.node \in f.state.live
      /\ f.state.alias = s.alias /\ f.state.redirect = s.redirect
  BY NewNodeLeads
<1>9. Resolve(s, identity) = r
  BY <1>5, <1>6, <1>7 DEF Resolve
<1>10. Leads(s, u) /\ Sound(u) /\ n \in u.live /\ u.alias = s.alias /\ u.redirect = s.redirect
  BY <1>8 DEF Leads
<1> HIDE DEF u, n, f
<1>11. \A a \in Strong(identity) \cap DOMAIN u.alias : u.alias[a] = n
  BY <1>4, <1>10
<1>12. r = [node |-> n, state |-> t] /\ Leads(u, t) /\ t.live = u.live
       /\ t.alias = Put(u.alias, Strong(identity) \cup ({identity.ip} \ {None}), n)
  <2>1. LET q == Identified(u, n, identity)
        IN  /\ q = [node |-> n, state |-> q.state] /\ Leads(u, q.state) /\ q.state.live = u.live
            /\ q.state.alias = Put(u.alias, Strong(identity) \cup ({identity.ip} \ {None}), n)
    BY <1>3, <1>10, <1>11, IdentifiedLeads
  <2> QED
    BY <2>1
<1> HIDE DEF t, r
<1>13. Leads(s, t)
  BY <1>10, <1>12, LeadsTransitive
<1>14. t.alias = Put(s.alias, {x}, n)
  BY <1>4, <1>10, <1>12
<1>15. x \in DOMAIN t.alias /\ t.alias[x] = n
       /\ \A y \in StableIds \cap DOMAIN s.alias : y \in DOMAIN t.alias /\ t.alias[y] = s.alias[y]
  BY <1>14 DEF Put
<1>16. r.node = n /\ r.state = t /\ r = [node |-> r.node, state |-> r.state]
  BY <1>12
<1>17. Keeps(s, x, r)
  BY <1>13, <1>15, <1>16 DEF Keeps, Unmoves
<1> QED
  BY <1>9, <1>17 DEF identity

\* resolveDirectoryDeviceLocked, in its four cases.
LEMMA ResolveDeviceKeeps ==
  ASSUME NEW s, Sound(s), NEW device \in Devices, NEW conflict
  PROVE  Keeps(s, device.stable, ResolveDevice(s, device, conflict))
<1> DEFINE x == device.stable
           n == s.alias[device.key]
           r == ResolveDevice(s, device, conflict)
           usable == /\ device.key \in DOMAIN s.alias /\ ~conflict
                     /\ ~Conflicts(s, x, device.key)
           known == x \in DOMAIN s.alias
           attached == [s EXCEPT !.stable = [s.stable EXCEPT ![n] = x],
                                 !.resolved = s.resolved \cup {n},
                                 !.alias = Put(s.alias, {x}, n)]
           alone == [stable |-> x, key |-> None, disco |-> None, ip |-> None]
<1>1. x \in StableIds
  BY DEF Devices
<1>2. device.key \in DOMAIN s.alias => n \in s.live
  BY DEF Sound, AliasesSound
<1>3. CASE usable /\ ~known
  <2>1. r = [node |-> n, state |-> attached]
    BY <1>3 DEF ResolveDevice
  <2>2. n \in s.live /\ x \notin DOMAIN s.alias
    BY <1>2, <1>3
  <2> HIDE DEF r, n, x
  <2> QED
    BY <2>1, <2>2, <1>1, AttachedKeeps DEF r, x
<1>4. CASE usable /\ known
  <2>1. r = [node |-> s.alias[x], state |-> Merge(s, s.alias[x], n)]
    BY <1>4 DEF ResolveDevice
  <2>2. n \in s.live /\ x \in StableIds \cap DOMAIN s.alias /\ s.stable[n] \in {None, x}
    BY <1>1, <1>2, <1>4 DEF Conflicts
  <2> HIDE DEF r, n, x
  <2> QED
    BY <2>1, <2>2, MergedKeeps DEF r, x
<1>5. CASE ~usable /\ known
  <2>1. r = [node |-> s.alias[x], state |-> s]
    BY <1>5 DEF ResolveDevice
  <2> QED
    BY <1>5, <2>1, LeadsToItself DEF Keeps, Unmoves
<1>6. CASE ~usable /\ ~known
  <2>1. r = Resolve(s, alone)
    BY <1>6 DEF ResolveDevice
  <2>2. x \notin DOMAIN s.alias
    BY <1>6
  <2> HIDE DEF r, x
  <2> QED
    BY <2>1, <2>2, <1>1, AddedKeeps DEF r, x
<1> QED
  BY <1>3, <1>4, <1>5, <1>6

\* applyDirectorySnapshotLocked: the ids collected on the way are right at the
\* end, because no device that has a node moves to another one.
LEMMA WithDirectoryLeads ==
  ASSUME NEW s, Sound(s), NEW devices \in Seq(Devices)
  PROVE  Leads(s, WithDirectory(s, devices)) /\ Unmoves(s, WithDirectory(s, devices))
<1> DEFINE S == DOMAIN devices
           base == [state |-> s, ids |-> NoFunction]
           index == [i \in S |-> i]
           found(acc, i) == ResolveDevice(acc.state, devices[i], SharedKey(devices, i))
           OneMore(acc, i) == [state |-> found(acc, i).state,
                               ids   |-> Put(acc.ids, {devices[i].stable}, found(acc, i).node)]
           P(h) == h = [T \in SUBSET S |->
                          IF T = {} THEN base ELSE OneMore(h[T \ {Max(T)}], Max(T))]
           Q(h) == h = [T \in SUBSET S |->
                          IF T = {} THEN base ELSE OneMore(h[T \ {Max(T)}], index[Max(T)])]
<1>1. IsFiniteSet(S) /\ \A T \in SUBSET S : T # {} => Pick("devices", T) \in T
  <2>1. "devices" # "infer"
    OBVIOUS
  <2> QED
    BY <2>1, Indexes
<1>2. \A h : Unfolds("devices", devices, base, S, h) <=> P(h)
  BY DEF Unfolds, Step, Pick
<1>3. \E h : P(h)
  <2>1. \E h : Unfolds("devices", devices, base, S, h)
    BY <1>1, FoldExists
  <2> QED
    BY <2>1, <1>2
<1>4. \A h : P(h) <=> Q(h)
  <2>1. \A T \in SUBSET S : T # {} => index[Max(T)] = Max(T)
    BY <1>1 DEF Pick
  <2> HIDE DEF index, OneMore, base, S
  <2>2. ASSUME NEW h
        PROVE  [T \in SUBSET S |-> IF T = {} THEN base ELSE OneMore(h[T \ {Max(T)}], Max(T))] =
               [T \in SUBSET S |-> IF T = {} THEN base ELSE OneMore(h[T \ {Max(T)}], index[Max(T)])]
    BY <2>1
  <2> QED
    BY <2>2
<1> DEFINE h == CHOOSE h : Q(h)
           all == h[S]
<1>5. \E g : Q(g)
  BY <1>3, <1>4
<1>6. Q(h)
  BY <1>5
<1>7. WithDirectory(s, devices) = [all.state EXCEPT !.canonical = all.ids]
  BY DEF WithDirectory, FoldLeftDomain, FoldLeft, MapThenFoldSet
<1>8. P(h)
  BY <1>4, <1>6
<1> HIDE DEF h, P, Q
<1>9. Holds("devices", devices, base, {}, base)
  <2>1. base = [state |-> base.state, ids |-> base.ids] /\ base.state = s /\ DOMAIN base.ids = {}
    BY DEF NoFunction
  <2> HIDE DEF base
  <2> QED
    BY <2>1, LeadsToItself DEF Holds, Unmoves
<1>10. ASSUME NEW T \in SUBSET S, NEW i \in S \ T, NEW acc, Holds("devices", devices, base, T, acc)
       PROVE  Holds("devices", devices, base, T \cup {i}, Step("devices", devices, i, acc))
  <2> DEFINE u == acc.state
             x == devices[i].stable
             r == ResolveDevice(u, devices[i], SharedKey(devices, i))
             ids == Put(acc.ids, {x}, r.node)
             v == r.state
  <2>1. /\ Leads(s, u) /\ Sound(u)
        /\ \A y \in DOMAIN acc.ids : y \in StableIds \cap DOMAIN u.alias /\ acc.ids[y] = u.alias[y]
        /\ Unmoves(s, u)
    BY <1>10 DEF Holds, Leads
  <2>2. devices[i] \in Devices
    BY ElementsOf
  <2>3. x \in StableIds
    BY <2>2 DEF Devices
  <2> HIDE DEF u
  <2>4. Keeps(u, x, r)
    BY <2>1, <2>2, ResolveDeviceKeeps
  <2>5. Step("devices", devices, i, acc) = [state |-> v, ids |-> ids]
    BY DEF Step, u
  <2> HIDE DEF r
  <2>6. /\ Leads(u, v) /\ x \in DOMAIN v.alias /\ r.node = v.alias[x]
        /\ Unmoves(u, v)
    BY <2>4 DEF Keeps
  <2> HIDE DEF v, x
  <2>7. Leads(s, v) /\ Unmoves(s, v)
    BY <2>1, <2>6, LeadsTransitive DEF Unmoves
  <2>8. \A y \in DOMAIN ids : y \in StableIds \cap DOMAIN v.alias /\ ids[y] = v.alias[y]
    BY <2>1, <2>3, <2>6 DEF Put, Unmoves
  <2> HIDE DEF ids
  <2> DEFINE next == Step("devices", devices, i, acc)
  <2>9. next.state = v /\ next.ids = ids /\ next = [state |-> next.state, ids |-> next.ids]
    BY <2>5
  <2> HIDE DEF next
  <2>10. base.state = s
    OBVIOUS
  <2> HIDE DEF base
  <2>11. Holds("devices", devices, base, T \cup {i}, next)
    BY <2>7, <2>8, <2>9, <2>10 DEF Holds
  <2> QED
    BY <2>11 DEF next
<1>11. Holds("devices", devices, base, S, h[S])
  <2>1. Unfolds("devices", devices, base, S, h)
    BY <1>2, <1>8
  <2> QED
    BY <2>1, <1>1, <1>9, <1>10, FoldHolds
<1> DEFINE u == all.state
           ids == all.ids
<1>12. /\ Leads(s, u)
       /\ \A y \in DOMAIN ids : y \in StableIds \cap DOMAIN u.alias /\ ids[y] = u.alias[y]
       /\ Unmoves(s, u)
  BY <1>11 DEF Holds
<1>13. Sound(u)
  BY <1>12 DEF Leads
<1> HIDE DEF u, ids
<1>14. Leads(u, [u EXCEPT !.canonical = ids])
  BY <1>12, <1>13, CanonicalSet
<1>15. Leads(s, [u EXCEPT !.canonical = ids])
  BY <1>12, <1>14, LeadsTransitive
<1>16. [u EXCEPT !.canonical = ids].alias = u.alias
  BY <1>13 DEF Sound, IsState, Fields
<1>17. Unmoves(s, [u EXCEPT !.canonical = ids])
  BY <1>12, <1>16 DEF Unmoves
<1> QED
  BY <1>7, <1>15, <1>17 DEF u, ids

-----------------------------------------------------------------------------
(* Time, and the whole step *)

\* Time passes.
LEMMA AtLeads ==
  ASSUME NEW s, Sound(s), NEW now
  PROVE  Leads(s, [s EXCEPT !.now = now])
<1> DEFINE t == [s EXCEPT !.now = now]
<1>1. IsState(s)
  BY DEF Sound
<1>2. t = [s EXCEPT !.now = now]
  OBVIOUS
<1> HIDE DEF t
<1>3. /\ IsState(t) /\ t.scopes = s.scopes /\ t.live = s.live /\ t.redirect = s.redirect
      /\ t.stable = s.stable /\ t.alias = s.alias /\ t.order = s.order /\ t.given = s.given
  BY <1>1, <1>2 DEF IsState, Fields
<1>4. /\ t.resolved = s.resolved /\ t.report = s.report /\ t.seen = s.seen /\ t.edges = s.edges
      /\ t.canonical = s.canonical /\ t.observers = s.observers /\ t.holds = s.holds
  BY <1>1, <1>2 DEF IsState, Fields
<1>5. SameNodes(s, t)
  BY <1>3, <1>4 DEF SameNodes, Sound, NodesSound
<1>6. ObserversSound(t) /\ ScopesSound(t)
  BY <1>3, <1>4 DEF Sound, ObserversSound, OwnersAgree, ScopesSound
<1>7. Leads(s, t)
  BY <1>3, <1>4, <1>5, <1>6, Frame
<1> QED
  BY <1>7 DEF t

\* Only addresses and relay scopes are forgotten.
LEMMA PruneFollows ==
  ASSUME NEW s, Sound(s)
  PROVE  Sound(Prune(s)) /\ Follows(s, Prune(s))
<1> DEFINE gone == Expired(s)
           kept == {k \in DOMAIN s.scopes : Within(s, s.scopes[k].seen, NodeWindow)}
           Conflict(at) == IF Within(s, at, EvidenceWindow) THEN at ELSE 0
           Fresh(sessions) == {x \in DOMAIN sessions : Within(s, sessions[x].seen, NodeWindow)}
           OfScope(scope) == [scope EXCEPT !.conflictAt = Conflict(scope.conflictAt),
                                           !.sessions = [x \in Fresh(scope.sessions) |-> scope.sessions[x]]]
           alias == [a \in DOMAIN s.alias \ gone |-> s.alias[a]]
           seen == [a \in DOMAIN s.seen \ gone |-> s.seen[a]]
           scopes == [k \in kept |-> OfScope(s.scopes[k])]
           t == Prune(s)
<1>1. t = [s EXCEPT !.alias = alias, !.seen = seen, !.scopes = scopes]
  BY DEF Prune
<1>2. gone \subseteq Addresses
  BY DEF Expired, Sound, AliasesSound
<1>3. \A k \in DOMAIN scopes : k = <<k[1], k[2]>> /\ IsScope(scopes[k])
  <2> SUFFICES ASSUME NEW k \in DOMAIN s.scopes
               PROVE  k = <<k[1], k[2]>> /\ IsScope(OfScope(s.scopes[k]))
    OBVIOUS
  <2> DEFINE c == s.scopes[k]
             at == Conflict(c.conflictAt)
             sessions == [x \in Fresh(c.sessions) |-> c.sessions[x]]
             d == [c EXCEPT !.conflictAt = at, !.sessions = sessions]
  <2>1. k = <<k[1], k[2]>> /\ IsScope(c)
    BY DEF Sound, ScopesSound
  <2>2. d = OfScope(s.scopes[k])
    OBVIOUS
  <2>3. IsFiniteSet(DOMAIN sessions)
    BY <2>1, FS_Subset DEF IsScope
  <2> HIDE DEF sessions, at, c
  <2> DEFINE e == [c EXCEPT !.conflictAt = at]
  <2>4. d = [e EXCEPT !.sessions = sessions]
    BY Zenon
  <2>5. IsScope(e)
    BY <2>1 DEF IsScope
  <2> HIDE DEF e, d
  <2>6. IsScope(d)
    BY <2>3, <2>4, <2>5 DEF IsScope
  <2> QED
    BY <2>1, <2>2, <2>6
<1>4. IsState(s)
  BY DEF Sound
<1>5. /\ DOMAIN alias = DOMAIN s.alias \ gone /\ \A a \in DOMAIN alias : alias[a] = s.alias[a]
      /\ DOMAIN seen = DOMAIN s.seen \ gone
  OBVIOUS
<1> HIDE DEF gone, alias, seen, scopes, t
<1>6. /\ IsState(t) /\ t.scopes = scopes /\ t.live = s.live /\ t.redirect = s.redirect
      /\ t.stable = s.stable /\ t.alias = alias /\ t.order = s.order /\ t.given = s.given
  BY <1>1, <1>4 DEF IsState, Fields
<1>7. /\ t.resolved = s.resolved /\ t.report = s.report /\ t.seen = seen /\ t.edges = s.edges
      /\ t.canonical = s.canonical /\ t.observers = s.observers /\ t.holds = s.holds
  BY <1>1, <1>4 DEF IsState, Fields
<1>8. NodesSound(t)
  BY <1>6, <1>7 DEF Sound, NodesSound
<1>9. AliasesSound(t)
  <2>1. \A x \in StableIds : x \notin gone
    BY <1>2, NamesAssumption
  <2>2. DOMAIN t.seen \subseteq DOMAIN t.alias \cap Addresses
    BY <1>5, <1>6, <1>7 DEF Sound, AliasesSound
  <2>3. \A a \in DOMAIN t.alias : a \in Names /\ t.alias[a] \in t.live
    BY <1>5, <1>6 DEF Sound, AliasesSound
  <2>4. \A n \in t.live : t.stable[n] # None =>
            t.stable[n] \in StableIds \cap DOMAIN t.alias /\ t.alias[t.stable[n]] = n
    BY <1>5, <1>6, <2>1 DEF Sound, AliasesSound
  <2>5. \A a \in DOMAIN t.alias \cap StableIds : t.stable[t.alias[a]] # None
    BY <1>5, <1>6 DEF Sound, AliasesSound
  <2>6. \A x \in DOMAIN t.canonical : x \in StableIds \cap DOMAIN t.alias /\ t.canonical[x] = t.alias[x]
    BY <1>5, <1>6, <1>7, <2>1 DEF Sound, AliasesSound
  <2> QED
    BY <2>2, <2>3, <2>4, <2>5, <2>6 DEF AliasesSound
<1>10. ObserversSound(t) /\ ScopesSound(t)
  BY <1>3, <1>6, <1>7 DEF Sound, ObserversSound, OwnersAgree, ScopesSound
<1>11. Sound(t)
  BY <1>6, <1>8, <1>9, <1>10 DEF Sound
<1>12. Follows(s, t)
  <2>1. DOMAIN s.edges \subseteq DOMAIN t.edges
    BY <1>7
  <2>2. \A a \in DOMAIN s.alias \ Addresses : a \in DOMAIN t.alias /\ t.alias[a] = s.alias[a]
    BY <1>2, <1>5, <1>6
  <2> QED
    BY <1>6, <1>11, <2>1, <2>2, Unmoved
<1> QED
  BY <1>11, <1>12 DEF t

IInv ==
    /\ Sound(state) /\ state.touched = {} /\ ~state.broken
    /\ broken \in BOOLEAN /\ steps \in 0 .. MaxSteps

\* The empty state is sound.
LEMMA InitSound == Init => IInv
<1> SUFFICES ASSUME NEW order \in Orders, state = Empty(order), broken = FALSE, steps = 0
             PROVE  IInv
  BY DEF Init
<1>1. /\ state.live = {} /\ state.stable = NoFunction /\ state.resolved = {}
      /\ state.report = NoFunction /\ state.alias = NoFunction /\ state.seen = NoFunction
      /\ state.redirect = NoFunction /\ state.order = order /\ state.given = 0
  BY DEF Empty
<1>2. /\ state.observers = NoFunction /\ state.holds = [r \in Reporters |-> {}]
      /\ state.scopes = NoFunction /\ state.canonical = NoFunction
      /\ state.touched = {} /\ ~state.broken
  BY DEF Empty
<1>3. IsState(state)
  BY DEF Empty, IsState, Fields
<1>4. DOMAIN NoFunction = {}
  BY DEF NoFunction
<1>5. order \in Seq(1 .. Len(order)) /\ IsInjective(order)
  BY OrdersAssumption
<1>6. NodesSound(state)
  BY <1>1, <1>4, <1>5 DEF NodesSound
<1>7. AliasesSound(state)
  BY <1>1, <1>2, <1>4 DEF AliasesSound
<1>8. ObserversSound(state) /\ ScopesSound(state)
  BY <1>1, <1>2, <1>4 DEF ObserversSound, OwnersAgree, ScopesSound
<1>9. broken \in BOOLEAN /\ steps \in 0 .. MaxSteps
  <2>1. MaxSteps \in Nat
    BY WindowsAssumption
  <2>2. steps \in 0 .. MaxSteps
    BY <2>1
  <2>3. broken \in BOOLEAN
    OBVIOUS
  <2> QED
    BY <2>2, <2>3
<1> QED
  BY <1>2, <1>3, <1>6, <1>7, <1>8, <1>9 DEF IInv, Sound

\* The clone takes the place of the state, or the state stays.
LEMMA CommitFollows ==
  ASSUME NEW s, Sound(s), Sound(state), Follows(state, s), Commit(s),
         state.touched = {}, ~state.broken, broken \in BOOLEAN
  PROVE  Sound(state') /\ Follows(state, state')
         /\ state'.touched = {} /\ ~state'.broken /\ broken' \in BOOLEAN
<1>1. CASE broken' = TRUE /\ state' = state
  BY <1>1, LeadsToItself DEF Leads
<1>2. CASE ~s.broken /\ state' = [s EXCEPT !.touched = {}] /\ broken' = broken
  <2> DEFINE t == [s EXCEPT !.touched = {}]
  <2>1. Leads(s, t)
    BY TouchedLeads
  <2>2. IsState(s)
    BY DEF Sound
  <2>3. t.touched = {} /\ t.broken = s.broken
    BY <2>2 DEF IsState, Fields
  <2>4. state' = t
    BY <1>2
  <2> HIDE DEF t
  <2>5. Sound(t) /\ Follows(s, t)
    BY <2>1 DEF Leads
  <2>6. Follows(state, t)
    BY <2>5, FollowsTransitive
  <2> QED
    BY <1>2, <2>3, <2>4, <2>5, <2>6
<1> QED
  BY <1>1, <1>2 DEF Commit

\* A whole step keeps the invariant, and what was said follows.
LEMMA NextFollows ==
  ASSUME IInv, Next
  PROVE  IInv' /\ Follows(state, state')
<1> PICK gap \in Gaps : \/ \E report \in Reports : ApplyReport(report, gap)
                        \/ \E devices \in Directories : ApplyDirectory(devices, gap)
  BY DEF Next
<1> DEFINE s == At(gap)
<1>1. Sound(state) /\ state.touched = {} /\ ~state.broken /\ broken \in BOOLEAN
  BY DEF IInv
<1>2. Leads(state, s)
  BY <1>1, AtLeads DEF At
<1>3. Sound(s) /\ Follows(state, s)
  BY <1>2 DEF Leads
<1> HIDE DEF s
<1>4. ASSUME NEW report \in Reports, ApplyReport(report, gap)
      PROVE  Sound(state') /\ Follows(state, state')
             /\ state'.touched = {} /\ ~state'.broken /\ broken' \in BOOLEAN
  <2> DEFINE t == Prune(s)
             u == Handled(t, report)
  <2>1. Commit(u)
    BY <1>4 DEF ApplyReport, s
  <2>2. Sound(t) /\ Follows(s, t)
    BY <1>3, PruneFollows
  <2> HIDE DEF t
  <2>3. Leads(t, u)
    BY <2>2, HandledLeads
  <2>4. Sound(u) /\ Follows(t, u)
    BY <2>3 DEF Leads
  <2> HIDE DEF u
  <2>5. Follows(state, t)
    BY <1>1, <1>3, <2>2, FollowsTransitive
  <2>6. Follows(state, u)
    BY <1>1, <2>2, <2>4, <2>5, FollowsTransitive
  <2> QED
    BY <1>1, <2>1, <2>4, <2>6, CommitFollows
<1>5. ASSUME NEW devices \in Directories, ApplyDirectory(devices, gap)
      PROVE  Sound(state') /\ Follows(state, state')
             /\ state'.touched = {} /\ ~state'.broken /\ broken' \in BOOLEAN
  <2> DEFINE u == WithDirectory(s, devices)
  <2>1. Commit(u)
    BY <1>5 DEF ApplyDirectory, s
  <2>2. devices \in Seq(Devices)
    BY DirectoriesAssumption DEF Devices
  <2>3. Leads(s, u)
    BY <1>3, <2>2, WithDirectoryLeads
  <2>4. Sound(u) /\ Follows(s, u)
    BY <2>3 DEF Leads
  <2> HIDE DEF u
  <2>5. Follows(state, u)
    BY <1>1, <1>3, <2>4, FollowsTransitive
  <2> QED
    BY <1>1, <2>1, <2>4, <2>5, CommitFollows
<1>6. steps' \in 0 .. MaxSteps
  BY WindowsAssumption DEF IInv, ApplyReport, ApplyDirectory
<1> QED
  BY <1>4, <1>5, <1>6 DEF IInv

\* The invariant is inductive.
LEMMA Inductive == IInv /\ [Next]_vars => IInv'
<1> SUFFICES ASSUME IInv, [Next]_vars
             PROVE  IInv'
  OBVIOUS
<1>1. CASE Next
  BY <1>1, NextFollows
<1>2. CASE UNCHANGED vars
  BY <1>2 DEF vars, IInv
<1> QED
  BY <1>1, <1>2

\* The invariant holds always.
LEMMA Invariant == Spec => []IInv
BY InitSound, Inductive, PTL DEF Spec

-----------------------------------------------------------------------------
(* What follows for the properties of the model *)

\* The types, with the account of the ids that were given out, hold always:
\* newNodeID never gives one out that a node or a redirect still has.
THEOREM TypeCorrect == Spec => []TypeOK
<1>1. IInv => TypeOK
  BY DEF IInv, Sound, NodesSound, AliasesSound, TypeOK
<1> QED
  BY <1>1, Invariant, PTL

\* Every index leads to a node that is there, for any reports, directories and
\* any order of ids (mergeNodesLocked and all who find nodes).
THEOREM IndexesAlwaysLead == Spec => []IndexesLead
<1>1. ASSUME IInv
      PROVE  IndexesLead
  <2>1. NodesSound(state) /\ AliasesSound(state) /\ DOMAIN state.observers \subseteq state.live
        /\ state.holds = [r \in Reporters |-> {o \in DOMAIN state.observers : state.observers[o].owner = r}]
    BY <1>1 DEF IInv, Sound, ObserversSound, OwnersAgree
  <2>2. Range(state.alias) \cup Range(state.redirect) \subseteq state.live
    BY <2>1 DEF NodesSound, AliasesSound, Range
  <2>3. DOMAIN state.redirect \cap state.live = {}
    BY <2>1 DEF NodesSound
  <2>4. DOMAIN state.observers \cup UNION Range(state.holds) \subseteq state.live
    BY <2>1 DEF Range
  <2>5. \A n \in state.live :
            state.stable[n] # None =>
                state.stable[n] \in DOMAIN state.alias /\ state.alias[state.stable[n]] = n
    BY <2>1 DEF AliasesSound
  <2>6. \A x \in DOMAIN state.canonical : x \in DOMAIN state.alias /\ state.canonical[x] = state.alias[x]
    BY <2>1 DEF AliasesSound
  <2> QED
    BY <2>2, <2>3, <2>4, <2>5, <2>6 DEF IndexesLead
<1> QED
  BY <1>1, Invariant, PTL

\* The owner an observer names and the reporter that lists it stay the same one
\* through every merge (mergeObserverRuntimeStatesLocked).
THEOREM OwnersStayOne == Spec => []OneOwnerThroughMerges
<1>1. IInv => OneOwnerThroughMerges
  BY DEF IInv, Sound, ObserversSound, OwnersAgree, OneOwnerThroughMerges
<1> QED
  BY <1>1, Invariant, PTL

\* Nodes, strong aliases and edges go on in what their nodes have become.
THEOREM ReferencesAlwaysFollow == Spec => ReferencesFollow
<1> DEFINE Step1 ==
        /\ \A n \in state.live : Now(n) \in state'.live
        /\ \A a \in DOMAIN state.alias \ Addresses :
               a \in DOMAIN state'.alias /\ state'.alias[a] = Now(state.alias[a])
        /\ \A m, n \in state.live :
               {m, n} \in DOMAIN state.edges /\ Now(m) # Now(n) =>
                   {Now(m), Now(n)} \in DOMAIN state'.edges
<1>1. ASSUME IInv, [Next]_vars
      PROVE  [Step1]_vars
  <2>1. CASE Next
    <3>1. Follows(state, state')
      BY <1>1, <2>1, NextFollows
    <3> QED
      BY <3>1 DEF Follows, Now
  <2>2. CASE UNCHANGED vars
    BY <2>2
  <2> QED
    BY <1>1, <2>1, <2>2
<1> HIDE DEF Step1
<1>2. Spec => [][Step1]_vars
  BY <1>1, Invariant, PTL DEF Spec
<1> QED
  BY <1>2 DEF ReferencesFollow, Step1
\* A device list moves no stable id from its node to another, so it joins no two
\* devices that have one each, whatever keys it lists and however they collide
\* (applyDirectorySnapshotLocked; "it can never merge two different
\* StableNodeIDs", docs/data-model.md).
DirectoryKeepsDevices ==
    [][(\E gap \in Gaps : \E devices \in Directories : ApplyDirectory(devices, gap)) =>
          /\ Unmoves(state, state')
          /\ \A p \in Apart(state) : Now(p[1]) = p[1] /\ Now(p[2]) = p[2]]_vars

\* The directory keeps devices apart, for any device lists and any state that
\* reports have led to.
THEOREM DirectoryKeepsDevicesApart == Spec => DirectoryKeepsDevices
<1> DEFINE Step1 ==
        (\E gap \in Gaps : \E devices \in Directories : ApplyDirectory(devices, gap)) =>
            /\ Unmoves(state, state')
            /\ \A p \in Apart(state) : Now(p[1]) = p[1] /\ Now(p[2]) = p[2]
<1>1. ASSUME IInv, IInv', NEW gap \in Gaps, NEW devices \in Directories, ApplyDirectory(devices, gap)
      PROVE  /\ Unmoves(state, state')
             /\ \A p \in Apart(state) : Now(p[1]) = p[1] /\ Now(p[2]) = p[2]
  <2> DEFINE s == At(gap)
             u == WithDirectory(s, devices)
  <2>1. Sound(state) /\ Sound(state') /\ Commit(u)
    BY <1>1 DEF IInv, ApplyDirectory
  <2>2. Leads(state, s)
    BY <2>1, AtLeads DEF At
  <2>3. Sound(s) /\ s.alias = state.alias
    BY <2>1, <2>2 DEF Leads, At, Sound, IsState, Fields
  <2> HIDE DEF s
  <2>4. devices \in Seq(Devices)
    BY DirectoriesAssumption DEF Devices
  <2>5. Leads(s, u) /\ Unmoves(s, u)
    BY <2>3, <2>4, WithDirectoryLeads
  <2> HIDE DEF u
  <2>6. state' = state \/ state' = [u EXCEPT !.touched = {}]
    BY <2>1 DEF Commit
  <2>7. [u EXCEPT !.touched = {}].alias = u.alias
    BY <2>5 DEF Leads, Sound, IsState, Fields
  <2>8. Unmoves(state, state')
    BY <2>3, <2>5, <2>6, <2>7 DEF Unmoves
  <2>9. ASSUME NEW n \in state.live, state.stable[n] # None
        PROVE  Now(n) = n
    <3>1. state.stable[n] \in StableIds \cap DOMAIN state.alias /\ state.alias[state.stable[n]] = n
      BY <2>1, <2>9 DEF Sound, AliasesSound
    <3>2. state.stable[n] \in DOMAIN state'.alias /\ state'.alias[state.stable[n]] = n
      BY <2>8, <3>1 DEF Unmoves
    <3>3. n \in state'.live
      BY <2>1, <3>2 DEF Sound, AliasesSound
    <3> QED
      BY <2>1, <3>3 DEF Now, Became, Sound, NodesSound
  <2> QED
    BY <2>8, <2>9 DEF Apart
<1>2. IInv /\ IInv' /\ [Next]_vars => [Step1]_vars
  BY <1>1
<1> HIDE DEF Step1
<1>3. Spec => [][Step1]_vars
  BY <1>2, Invariant, PTL DEF Spec
<1> QED
  BY <1>3 DEF DirectoryKeepsDevices, Step1
=============================================================================
