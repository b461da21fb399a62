------------------------- MODULE Traversals_proofs -------------------------
(***************************************************************************)
(* The walks of the query engine, over any graph: breadth first, hop by    *)
(* hop through a subsystem, and depth first for cycles.                    *)
(***************************************************************************)
EXTENDS QueryRules, FiniteSetTheorems, SequenceTheorems, TLAPS

LEMMA MaxIsGreatest == ASSUME NEW n \in Nat PROVE \A k \in 1..n : \A T \in SUBSET (1..k) : k \in T => Max(T) = k
<1> SUFFICES ASSUME NEW k \in 1..n, NEW T \in SUBSET (1..k), k \in T PROVE Max(T) = k
  OBVIOUS
<1>1. \A x \in T : (\A y \in T : x >= y) <=> x = k
  OBVIOUS
<1> QED
  BY <1>1 DEF Max

----------------------------------------------------------------------------
(* Within *)

Reached(pairs, S, i) == S \cup {p[2] : p \in {q \in pairs : q[1] \in S}}

WithinFold == INSTANCE FoldTheorems WITH Step <- Reached, Greatest <- Max

LEMMA MinIsMember ==
  ASSUME NEW S, S \subseteq Nat, S # {}
  PROVE  Min(S) \in S /\ \A x \in S : Min(S) <= x
BY WithinFold!LeastExists DEF Min

----------------------------------------------------------------------------
(* InOrder *)

(* R is a strict order on all of S, and where it ranks x among S *)
Orders(R, S) ==
    /\ \A x \in S : <<x, x>> \notin R
    /\ \A x, y \in S : x # y => <<x, y>> \in R \/ <<y, x>> \in R
    /\ \A x, y, z \in S : <<x, y>> \in R /\ <<y, z>> \in R => <<x, z>> \in R
Rank(S, R, x) == Cardinality({y \in S : <<y, x>> \in R})

(* Of a finite set that R orders, each member has a rank of its own *)
LEMMA RanksExist ==
  ASSUME NEW S, IsFiniteSet(S), NEW R,
         Orders(R, S)
  PROVE  /\ Cardinality(S) \in Nat
         /\ \A i \in 1..Cardinality(S) : \E x \in S : Rank(S, R, x) = i - 1
         /\ \A x, y \in S : <<x, y>> \in R =>
               Rank(S, R, x) < Rank(S, R, y)
<1> DEFINE below(x) == {y \in S : <<y, x>> \in R}
           n == Cardinality(S)
<1>1. n \in Nat
  BY FS_CardinalityType
<1>2. \A x \in S : IsFiniteSet(below(x)) /\ Cardinality(below(x)) \in 0..(n - 1)
  <2> TAKE x \in S
  <2>1. below(x) \subseteq S /\ x \notin below(x)
    BY DEF Orders
  <2> HIDE DEF below
  <2>2. IsFiniteSet(below(x)) /\ Cardinality(below(x)) <= n /\ Cardinality(below(x)) # n
    BY <2>1, FS_Subset
  <2>3. Cardinality(below(x)) \in Nat
    BY <2>2, FS_CardinalityType
  <2> QED
    BY <1>1, <2>2, <2>3
<1>3. ASSUME NEW x \in S, NEW y \in S, <<x, y>> \in R
      PROVE  Cardinality(below(x)) < Cardinality(below(y))
  <2>1. below(x) \subseteq below(y) /\ x \in below(y) /\ x \notin below(x)
    BY <1>3 DEF Orders
  <2> HIDE DEF below
  <2>2. /\ Cardinality(below(x)) <= Cardinality(below(y))
        /\ Cardinality(below(x)) # Cardinality(below(y))
    BY <1>2, <2>1, FS_Subset
  <2> QED
    BY <1>2, <2>2
<1> DEFINE rank == [x \in S |-> Cardinality(below(x))]
<1>4. \A i \in 1..n : \E x \in S : Cardinality(below(x)) = i - 1
  <2>1. IsFiniteSet(0..(n - 1)) /\ Cardinality(0..(n - 1)) = n
    <3>1. IsFiniteSet(0..(n - 1)) /\ Cardinality(0..(n - 1)) = IF 0 > n - 1 THEN 0 ELSE (n - 1) - 0 + 1
      BY <1>1, FS_Interval
    <3> QED
      BY <1>1, <3>1
  <2>2. rank \in [S -> 0..(n - 1)]
    BY <1>2
  <2>3. \A x, y \in S : rank[x] = rank[y] => x = y
    <3> SUFFICES ASSUME NEW x \in S, NEW y \in S, x # y PROVE rank[x] # rank[y]
      OBVIOUS
    <3>1. <<x, y>> \in R \/ <<y, x>> \in R
      BY DEF Orders
    <3> HIDE DEF below
    <3> QED
      BY <1>2, <1>3, <3>1
  <2> HIDE DEF rank
  <2>4. rank \in Injection(S, 0..(n - 1))
    BY <2>2, <2>3 DEF Injection, IsInjective
  <2>5. rank \in Surjection(S, 0..(n - 1))
    BY <2>1, <2>4, FS_Injection
  <2>6. \A k \in 0..(n - 1) : \E x \in S : rank[x] = k
    BY <2>5 DEF Surjection
  <2>7. ASSUME NEW i \in 1..n PROVE \E x \in S : Cardinality(below(x)) = i - 1
    <3>1. i - 1 \in 0..(n - 1)
      BY <1>1
    <3>2. PICK x \in S : rank[x] = i - 1
      BY <2>6, <3>1
    <3> QED
      BY <3>2 DEF rank
  <2> QED
    BY <2>7
<1>5. \A x : Rank(S, R, x) = Cardinality(below(x))
  BY DEF Rank
<1> HIDE DEF below
<1> QED
  BY <1>1, <1>3, <1>4, <1>5

(* Its members in order, each where it ranks *)
LEMMA RanksOrder ==
  ASSUME NEW S, IsFiniteSet(S), NEW R,
         Orders(R, S),
         NEW s \in [1..Cardinality(S) -> S],
         \A i \in 1..Cardinality(S) : Rank(S, R, s[i]) = i - 1
  PROVE  /\ s \in Seq(S) /\ Len(s) = Cardinality(S) /\ \A x \in S : \E i \in 1..Len(s) : s[i] = x
         /\ \A i, j \in 1..Len(s) : i < j => s[i] # s[j] /\ <<s[i], s[j]>> \in R
<1> DEFINE rank(x) == Rank(S, R, x)
           n == Cardinality(S)
<1>1. /\ n \in Nat
      /\ \A x, y \in S : <<x, y>> \in R => rank(x) < rank(y)
  BY RanksExist
<1>2. s \in Seq(S) /\ Len(s) = n
  <2> HIDE DEF n
  <2>1. s \in [1..n -> S]
    BY DEF n
  <2> QED
    BY <1>1, <2>1
<1>3. \A i \in 1..n : rank(s[i]) = i - 1
  OBVIOUS
<1> HIDE DEF rank
<1>4. ASSUME NEW i \in 1..n, NEW j \in 1..n, i < j PROVE s[i] # s[j] /\ <<s[i], s[j]>> \in R
  <2>1. rank(s[i]) = i - 1 /\ rank(s[j]) = j - 1
    BY <1>3
  <2>2. s[i] # s[j]
    BY <1>1, <1>4, <2>1
  <2>3. <<s[j], s[i]>> \notin R
    BY <1>1, <1>4, <2>1
  <2> QED
    BY <2>2, <2>3 DEF Orders
<1>5. \A x \in S : \E i \in 1..n : s[i] = x
  <2>1. s \in Injection(1..n, S)
    BY <1>1, <1>2, <1>4 DEF Injection, IsInjective
  <2>2. IsFiniteSet(1..n) /\ Cardinality(1..n) = n
    <3>1. IsFiniteSet(1..n) /\ Cardinality(1..n) = IF 1 > n THEN 0 ELSE n - 1 + 1
      BY <1>1, FS_Interval
    <3> QED
      BY <1>1, <3>1
  <2>3. s \in Surjection(1..n, S)
    BY <2>1, <2>2, FS_Injection
  <2> QED
    BY <2>3 DEF Surjection
<1> HIDE DEF n
<1> QED
  BY <1>2, <1>4, <1>5 DEF n
----------------------------------------------------------------------------
(* Rounds of Within *)

LEMMA WithinRuns == 
  ASSUME NEW pairs, NEW start, NEW n \in Nat
  PROVE  \E f : WithinFold!IsRun(f, pairs, start, UpTo(n), n) /\ Within(pairs, start, n) = f[n]
<1>1. WithinFold!GreatestUpTo(n)
  BY MaxIsGreatest DEF WithinFold!GreatestUpTo
<1>2. DOMAIN UpTo(n) = 1..n
  BY DEF UpTo
<1> DEFINE iter == CHOOSE iter : WithinFold!Iterates(iter, pairs, start, UpTo(n), DOMAIN UpTo(n))
<1>3. WithinFold!Iterates(iter, pairs, start, UpTo(n), DOMAIN UpTo(n))
  BY <1>1, <1>2, WithinFold!IterationExists
<1>4. Within(pairs, start, n) = iter[DOMAIN UpTo(n)]
  BY DEF Within, FoldLeft, MapThenFoldSet, WithinFold!Iterates, Reached
<1> HIDE DEF iter
<1> QED
  BY <1>1, <1>2, <1>3, <1>4, WithinFold!FoldRuns

LEMMA WithinZero == ASSUME NEW pairs, NEW start PROVE Within(pairs, start, 0) = start
BY WithinRuns DEF WithinFold!IsRun

LEMMA WithinNext ==
  ASSUME NEW pairs, NEW start, NEW n \in Nat
  PROVE  \A x : x \in Within(pairs, start, n + 1) <=>
                \/ x \in Within(pairs, start, n)
                \/ \E p \in pairs : p[1] \in Within(pairs, start, n) /\ p[2] = x
<1>1. PICK f : WithinFold!IsRun(f, pairs, start, UpTo(n), n) /\ Within(pairs, start, n) = f[n]
  BY WithinRuns
<1>2. PICK h : WithinFold!IsRun(h, pairs, start, UpTo(n + 1), n + 1) /\ Within(pairs, start, n + 1) = h[n + 1]
  BY WithinRuns
<1>3. WithinFold!IsRun(h, pairs, start, UpTo(n + 1), n) /\ \A i \in 1..n : UpTo(n)[i] = UpTo(n + 1)[i]
  BY <1>2 DEF WithinFold!IsRun, UpTo
<1>4. f[n] = h[n]
  BY <1>1, <1>3, WithinFold!RunsAgree
<1>5. h[n + 1] = Reached(pairs, h[n], UpTo(n + 1)[n + 1])
  BY <1>2 DEF WithinFold!IsRun
<1> QED
  BY <1>1, <1>2, <1>4, <1>5 DEF Reached

(* The pairs lead out of none of the sets that a walk may stay in *)
Closed(pairs, S) == \A p \in pairs : p[1] \in S => p[2] \in S

LEMMA WithinMonotone ==
  ASSUME NEW pairs, NEW start, NEW n \in Nat, NEW m \in 0..n
  PROVE  Within(pairs, start, m) \subseteq Within(pairs, start, n)
<1> DEFINE W(k) == Within(pairs, start, k)
           S == {k \in Nat : \A j \in 0..k : W(j) \subseteq W(k)}
<1>1. 0 \in S
  OBVIOUS
<1>2. ASSUME NEW k \in Nat, k \in S PROVE k + 1 \in S
  <2>1. W(k) \subseteq W(k + 1)
    BY WithinNext
  <2>2. \A j \in 0..(k + 1) : j \in 0..k \/ j = k + 1
    OBVIOUS
  <2> HIDE DEF W
  <2> QED
    BY <1>2, <2>1, <2>2
<1>3. Nat \subseteq S
  <2> HIDE DEF S
  <2> QED
    BY <1>1, <1>2, WithinFold!Induction
<1> QED
  BY <1>3

LEMMA WithinStays ==
  ASSUME NEW pairs, NEW start, NEW n \in Nat, NEW S, start \subseteq S, Closed(pairs, S)
  PROVE  Within(pairs, start, n) \subseteq S
<1> DEFINE T == {k \in Nat : Within(pairs, start, k) \subseteq S}
<1>1. 0 \in T
  BY WithinZero
<1>2. ASSUME NEW k \in Nat, k \in T PROVE k + 1 \in T
  BY <1>2, WithinNext DEF Closed
<1>3. Nat \subseteq T
  <2> HIDE DEF T
  <2> QED
    BY <1>1, <1>2, WithinFold!Induction
<1> QED
  BY <1>3

(* Once a step adds nothing none does *)
LEMMA WithinSettles ==
  ASSUME NEW pairs, NEW start, NEW k \in Nat, Closed(pairs, Within(pairs, start, k)), NEW n \in Nat, k <= n
  PROVE  Within(pairs, start, n) = Within(pairs, start, k)
<1> DEFINE T == {m \in Nat : k <= m => Within(pairs, start, m) = Within(pairs, start, k)}
<1>1. 0 \in T
  OBVIOUS
<1>2. ASSUME NEW m \in Nat, m \in T PROVE m + 1 \in T
  <2>1. CASE k <= m
    <3>1. Within(pairs, start, m) = Within(pairs, start, k)
      BY <1>2, <2>1
    <3>2. \A x : x \in Within(pairs, start, m + 1) <=> x \in Within(pairs, start, m)
      BY <3>1, WithinNext DEF Closed
    <3> QED
      BY <3>1, <3>2
  <2>2. CASE ~(k <= m)
    BY <2>2
  <2> QED
    BY <2>1, <2>2
<1>3. Nat \subseteq T
  <2> HIDE DEF T
  <2> QED
    BY <1>1, <1>2, WithinFold!Induction
<1> QED
  BY <1>3

(* Each step adds a member until one adds nothing: as many steps as there  *)
(* are members reach all there are to reach.                               *)
LEMMA WithinCloses ==
  ASSUME NEW pairs, NEW start, NEW N, IsFiniteSet(N), start \subseteq N, Closed(pairs, N)
  PROVE  Closed(pairs, Within(pairs, start, Cardinality(N)))
<1> DEFINE W(k) == Within(pairs, start, k)
           T == {k \in Nat : Closed(pairs, W(k)) \/ Cardinality(W(k)) >= k}
<1>1. \A k \in Nat : W(k) \subseteq N /\ IsFiniteSet(W(k)) /\ Cardinality(W(k)) \in Nat
                     /\ Cardinality(W(k)) <= Cardinality(N)
  BY WithinStays, FS_Subset, FS_CardinalityType
<1>2. 0 \in T
  BY <1>1
<1>3. ASSUME NEW k \in Nat, k \in T PROVE k + 1 \in T
  <2>1. CASE Closed(pairs, W(k))
    BY <2>1, WithinSettles
  <2>2. CASE ~Closed(pairs, W(k))
    <3>1. W(k) \subseteq W(k + 1) /\ W(k) # W(k + 1)
      BY <2>2, WithinNext DEF Closed
    <3>2. Cardinality(W(k)) < Cardinality(W(k + 1))
      <4>1. IsFiniteSet(W(k + 1)) /\ Cardinality(W(k + 1)) \in Nat /\ Cardinality(W(k)) \in Nat
        BY <1>1
      <4>2. W(k) \in SUBSET W(k + 1)
        BY <3>1
      <4> HIDE DEF W
      <4>3. Cardinality(W(k)) <= Cardinality(W(k + 1)) /\ Cardinality(W(k)) # Cardinality(W(k + 1))
        BY <3>1, <4>1, <4>2, FS_Subset
      <4> QED
        BY <4>1, <4>3
    <3> HIDE DEF W
    <3> QED
      BY <1>1, <1>3, <2>2, <3>2
  <2> QED
    BY <2>1, <2>2
<1>4. Nat \subseteq T
  <2> HIDE DEF T
  <2> QED
    BY <1>2, <1>3, WithinFold!Induction
<1>5. Cardinality(N) \in Nat
  BY FS_CardinalityType
<1>6. CASE Closed(pairs, W(Cardinality(N)))
  BY <1>6
<1>7. CASE Cardinality(W(Cardinality(N))) >= Cardinality(N)
  <2>1. W(Cardinality(N)) = N
    <3>1. W(Cardinality(N)) \subseteq N
      BY <1>1, <1>5
    <3> HIDE DEF W
    <3> QED
      BY <1>1, <1>5, <1>7, <3>1, FS_Subset
  <2> QED
    BY <2>1
<1> QED
  BY <1>4, <1>5, <1>6, <1>7

----------------------------------------------------------------------------
(* The rows of a statement *)

OutPick(s, found, e) == IF e.src = s THEN Append(found, e) ELSE found
InPick(s, found, e) == IF e.tgt = s /\ e.src # NoSource THEN Append(found, e) ELSE found

OutFold == INSTANCE FoldTheorems WITH Step <- OutPick, Greatest <- Max
InFold == INSTANCE FoldTheorems WITH Step <- InPick, Greatest <- Max

LEMMA OutSelected ==
  ASSUME NEW X, NEW q \in Seq(X), NEW T, NEW h, OutFold!Selects(h, q, T)
  PROVE  /\ h[Len(q)] \in Seq(X)
         /\ \A x : (\E i \in DOMAIN h[Len(q)] : h[Len(q)][i] = x) <=> x \in T /\ \E i \in DOMAIN q : q[i] = x
BY OutFold!RunSelects

LEMMA OutRowsAre ==
  ASSUME NEW graph, graph.edges \in Seq(Rows(graph)), NEW m
  PROVE  /\ OutRows(graph, m) \in Seq(Rows(graph))
         /\ ToSet(OutRows(graph, m)) = {e \in Rows(graph) : e.src = m}
<1> DEFINE n == Len(graph.edges)
           T == {e \in Rows(graph) : e.src = m}
           iter == CHOOSE iter : OutFold!Iterates(iter, m, <<>>, graph.edges, DOMAIN graph.edges)
<1>1. n \in Nat /\ DOMAIN graph.edges = 1..n /\ Rows(graph) = {graph.edges[i] : i \in DOMAIN graph.edges}
  BY DEF Rows, ToSet
<1>2. OutFold!GreatestUpTo(n)
  BY <1>1, MaxIsGreatest DEF OutFold!GreatestUpTo
<1>3. OutFold!Iterates(iter, m, <<>>, graph.edges, DOMAIN graph.edges)
  <2>1. \E it : OutFold!Iterates(it, m, <<>>, graph.edges, 1..n)
    <3> HIDE DEF n
    <3> QED
      BY <1>1, <1>2, OutFold!IterationExists
  <2> HIDE DEF n
  <2> QED
    BY <1>1, <2>1
<1>4. OutRows(graph, m) = iter[DOMAIN graph.edges]
  BY DEF OutRows, Which, FoldLeft, MapThenFoldSet, OutFold!Iterates, OutPick
<1> HIDE DEF iter
<1>5. PICK h : OutFold!IsRun(h, m, <<>>, graph.edges, n) /\ OutRows(graph, m) = h[n]
  <2> HIDE DEF n
  <2> QED
    BY <1>1, <1>2, <1>3, <1>4, OutFold!FoldRuns
<1>6. OutFold!Selects(h, graph.edges, T)
  BY <1>1, <1>5 DEF OutFold!IsRun, OutFold!Selects, OutPick
<1> HIDE DEF T
<1>7. /\ h[Len(graph.edges)] \in Seq(Rows(graph))
      /\ \A x : (\E i \in DOMAIN h[Len(graph.edges)] : h[Len(graph.edges)][i] = x)
                   <=> x \in T /\ \E i \in DOMAIN graph.edges : graph.edges[i] = x
  BY <1>6, OutSelected
<1>8. \A x \in T : \E i \in DOMAIN graph.edges : graph.edges[i] = x
  BY <1>1 DEF T
<1>9. \A x : x \in ToSet(h[n]) <=> x \in T
  BY <1>7, <1>8 DEF ToSet
<1> QED
  BY <1>5, <1>7, <1>9 DEF T

LEMMA InSelected ==
  ASSUME NEW X, NEW q \in Seq(X), NEW T, NEW h, InFold!Selects(h, q, T)
  PROVE  /\ h[Len(q)] \in Seq(X)
         /\ \A x : (\E i \in DOMAIN h[Len(q)] : h[Len(q)][i] = x) <=> x \in T /\ \E i \in DOMAIN q : q[i] = x
BY InFold!RunSelects

LEMMA InRowsAre ==
  ASSUME NEW graph, graph.edges \in Seq(Rows(graph)), NEW s
  PROVE  /\ InRows(graph, s) \in Seq(Rows(graph))
         /\ ToSet(InRows(graph, s)) = {e \in Rows(graph) : e.tgt = s /\ e.src # NoSource}
<1> DEFINE n == Len(graph.edges)
           T == {e \in Rows(graph) : e.tgt = s /\ e.src # NoSource}
           iter == CHOOSE iter : InFold!Iterates(iter, s, <<>>, graph.edges, DOMAIN graph.edges)
<1>1. n \in Nat /\ DOMAIN graph.edges = 1..n /\ Rows(graph) = {graph.edges[i] : i \in DOMAIN graph.edges}
  BY DEF Rows, ToSet
<1>2. InFold!GreatestUpTo(n)
  BY <1>1, MaxIsGreatest DEF InFold!GreatestUpTo
<1>3. InFold!Iterates(iter, s, <<>>, graph.edges, DOMAIN graph.edges)
  <2>1. \E it : InFold!Iterates(it, s, <<>>, graph.edges, 1..n)
    <3> HIDE DEF n
    <3> QED
      BY <1>1, <1>2, InFold!IterationExists
  <2> HIDE DEF n
  <2> QED
    BY <1>1, <2>1
<1>4. InRows(graph, s) = iter[DOMAIN graph.edges]
  BY DEF InRows, Which, FoldLeft, MapThenFoldSet, InFold!Iterates, InPick
<1> HIDE DEF iter
<1>5. PICK h : InFold!IsRun(h, s, <<>>, graph.edges, n) /\ InRows(graph, s) = h[n]
  <2> HIDE DEF n
  <2> QED
    BY <1>1, <1>2, <1>3, <1>4, InFold!FoldRuns
<1>6. InFold!Selects(h, graph.edges, T)
  BY <1>1, <1>5 DEF InFold!IsRun, InFold!Selects, InPick
<1> HIDE DEF T
<1>7. /\ h[Len(graph.edges)] \in Seq(Rows(graph))
      /\ \A x : (\E i \in DOMAIN h[Len(graph.edges)] : h[Len(graph.edges)][i] = x)
                   <=> x \in T /\ \E i \in DOMAIN graph.edges : graph.edges[i] = x
  BY <1>6, InSelected
<1>8. \A x \in T : \E i \in DOMAIN graph.edges : graph.edges[i] = x
  BY <1>1 DEF T
<1>9. \A x : x \in ToSet(h[n]) <=> x \in T
  BY <1>7, <1>8 DEF ToSet
<1> QED
  BY <1>5, <1>7, <1>9 DEF T

----------------------------------------------------------------------------
(* One row of a walk *)

IsWalk(w) ==
    /\ w = [root |-> w.root, depth |-> w.depth, max |-> w.max, out |-> w.out, in |-> w.in,
            loops |-> w.loops, queue |-> w.queue, at |-> w.at, level |-> w.level,
            reached |-> w.reached, nodes |-> w.nodes, seen |-> w.seen, edges |-> w.edges,
            truncated |-> w.truncated]
    /\ w.depth \in Nat /\ w.max \in Nat \ {0} /\ w.level \in Nat /\ w.reached \in Nat
    /\ {w.out, w.in, w.loops, w.truncated} \subseteq BOOLEAN
    /\ w.queue \in Seq(Nat \X Nat)
    /\ w.seen \subseteq Nat \ {NoSymbol} /\ IsFiniteSet(w.seen)
    /\ w.nodes = w.seen /\ IsFiniteSet(w.edges)

(* What a walk was asked for, and the entry it expands *)
SameEntry(w, v) ==
    /\ v.root = w.root /\ v.depth = w.depth /\ v.max = w.max /\ v.out = w.out /\ v.in = w.in
    /\ v.loops = w.loops /\ v.at = w.at /\ v.level = w.level /\ v.reached = w.reached

LEMMA RowFields ==
  ASSUME NEW graph, NEW w, IsWalk(w), NEW far \in Symbols(graph), far \in Nat \ {NoSymbol}, NEW edge,
         NEW loops \in BOOLEAN
  PROVE  LET r == Row(graph, w, far, edge, loops)
         IN  /\ IsWalk(r) /\ SameEntry(w, r)
             /\ \/ /\ Full(w) /\ r.truncated
                   /\ r.queue = w.queue /\ r.seen = w.seen /\ r.edges = w.edges
                \/ /\ ~Full(w) /\ far = w.at /\ ~loops /\ r = w
                \/ /\ ~Full(w) /\ (far # w.at \/ loops)
                   /\ r.truncated = w.truncated
                   /\ r.edges = w.edges \cup {edge} /\ r.seen = w.seen \cup {far}
                   /\ \/ far \in w.seen /\ r.queue = w.queue
                      \/ far \notin w.seen /\ r.queue = Append(w.queue, <<far, w.level + 1>>)
<1> DEFINE r == Row(graph, w, far, edge, loops)
<1>1. CASE Full(w)
  <2>1. r = [w EXCEPT !.truncated = TRUE]
    BY <1>1 DEF Row
  <2>2. /\ r = [root |-> w.root, depth |-> w.depth, max |-> w.max, out |-> w.out, in |-> w.in,
            loops |-> w.loops, queue |-> w.queue, at |-> w.at, level |-> w.level,
            reached |-> w.reached, nodes |-> w.nodes, seen |-> w.seen, edges |-> w.edges,
            truncated |-> TRUE]
    BY <2>1 DEF IsWalk
  <2> HIDE DEF r
  <2>3. IsWalk(r) /\ SameEntry(w, r)
    BY <2>2 DEF IsWalk, SameEntry
  <2> QED
    BY <1>1, <2>2, <2>3 DEF r
<1>2. CASE ~Full(w) /\ far = w.at /\ ~loops
  <2>1. r = w
    BY <1>2 DEF Row
  <2> HIDE DEF r
  <2> QED
    BY <1>2, <2>1 DEF SameEntry, r
<1>3. CASE ~Full(w) /\ (far # w.at \/ loops)
  <2>1. r = Visit(graph, w, far, edge)
    BY <1>3 DEF Row
  <2> DEFINE q == IF far \in w.seen THEN w.queue ELSE Append(w.queue, <<far, w.level + 1>>)
  <2>2. r = [root |-> w.root, depth |-> w.depth, max |-> w.max, out |-> w.out, in |-> w.in,
            loops |-> w.loops, queue |-> q, at |-> w.at, level |-> w.level,
            reached |-> w.reached, nodes |-> w.seen \cup {far}, seen |-> w.seen \cup {far},
            edges |-> w.edges \cup {edge}, truncated |-> w.truncated]
    <3>1. CASE far \in w.seen
      <4>1. w.seen \cup {far} = w.seen /\ w.nodes = w.seen
        BY <3>1 DEF IsWalk
      <4> QED
        BY <2>1, <3>1, <4>1 DEF Visit, IsWalk
    <3>2. CASE far \notin w.seen
      BY <2>1, <3>2 DEF Visit, IsWalk
    <3> QED
      BY <3>1, <3>2
  <2>3. q \in Seq(Nat \X Nat)
    BY DEF IsWalk
  <2>4. IsFiniteSet(w.seen \cup {far}) /\ IsFiniteSet(w.edges \cup {edge})
    BY FS_AddElement DEF IsWalk
  <2> HIDE DEF r, q
  <2>5. IsWalk(r) /\ SameEntry(w, r)
    BY <2>2, <2>3, <2>4 DEF IsWalk, SameEntry
  <2> QED
    BY <1>3, <2>2, <2>5 DEF r, q
<1> QED
  BY <1>1, <1>2, <1>3

(* What the rows a walk is offered add to it. An offer is a symbol and the *)
(* edge that leads to it.                                                  *)
Capped(w) == Cardinality(w.nodes) <= w.max /\ Cardinality(w.edges) <= MaxEdges(w)

Queues(w, v) ==
    /\ Len(w.queue) <= Len(v.queue)
    /\ \A i \in 1..Len(w.queue) : v.queue[i] = w.queue[i]
    /\ \A i \in (Len(w.queue) + 1)..Len(v.queue) :
          \E x \in v.seen \ w.seen : v.queue[i] = <<x, w.level + 1>>
    /\ \A x \in v.seen \ w.seen :
          \E i \in (Len(w.queue) + 1)..Len(v.queue) : v.queue[i] = <<x, w.level + 1>>
    /\ Cardinality(v.seen) - Len(v.queue) = Cardinality(w.seen) - Len(w.queue)

Takes(w, v, offers) ==
    /\ w.seen \subseteq v.seen /\ w.edges \subseteq v.edges
    /\ \A x \in v.seen \ w.seen : \E e \in v.edges : <<x, e>> \in offers
    /\ \A e \in v.edges \ w.edges : \E x \in v.seen : <<x, e>> \in offers
    /\ ~v.truncated => \A o \in offers : o[1] \in v.seen /\ o[2] \in v.edges
    /\ w.truncated => v.truncated

Progress(w, v, offers) ==
    /\ IsWalk(v) /\ SameEntry(w, v)
    /\ Takes(w, v, offers) /\ Queues(w, v)
    /\ Capped(w) => Capped(v)

LEMMA OneMore ==
  ASSUME NEW S, IsFiniteSet(S), NEW x
  PROVE  Cardinality(S \cup {x}) \in Nat /\ Cardinality(S \cup {x}) <= Cardinality(S) + 1
<1>1. IsFiniteSet(S \cup {x}) /\ Cardinality(S \cup {x}) = IF x \in S THEN Cardinality(S) ELSE Cardinality(S) + 1
  BY FS_AddElement
<1>2. Cardinality(S) \in Nat /\ Cardinality(S \cup {x}) \in Nat
  BY <1>1, FS_CardinalityType
<1> QED
  BY <1>1, <1>2

LEMMA WalkSizes ==
  ASSUME NEW w, IsWalk(w)
  PROVE  Len(w.queue) \in Nat /\ Cardinality(w.seen) \in Nat /\ Cardinality(w.edges) \in Nat
<1>1. IsFiniteSet(w.seen) /\ IsFiniteSet(w.edges) /\ w.queue \in Seq(Nat \X Nat)
  BY DEF IsWalk
<1>2. Len(w.queue) \in Nat
  BY <1>1
<1> QED
  BY <1>1, <1>2, FS_CardinalityType

LEMMA ProgressNone == ASSUME NEW w, IsWalk(w) PROVE Progress(w, w, {})
BY DEF Progress, Takes, Queues, SameEntry

LEMMA ProgressThen ==
  ASSUME NEW w, NEW v, NEW u, NEW first, NEW second,
         IsWalk(w), Progress(w, v, first), Progress(v, u, second)
  PROVE  Progress(w, u, first \cup second)
<1>1. IsWalk(u) /\ SameEntry(w, u) /\ (Capped(w) => Capped(u)) /\ v.level = w.level
  BY DEF Progress, SameEntry
<1>2. Takes(w, u, first \cup second)
  BY DEF Progress, Takes
<1>3. Queues(w, u)
  <2>1. /\ Len(w.queue) \in Nat /\ Len(v.queue) \in Nat /\ Len(u.queue) \in Nat
        /\ Cardinality(w.seen) \in Nat /\ Cardinality(v.seen) \in Nat /\ Cardinality(u.seen) \in Nat
    <3>1. IsWalk(v)
      BY DEF Progress
    <3> QED
      BY <1>1, <3>1, WalkSizes
  <2>2. Queues(w, v) /\ Queues(v, u) /\ w.seen \subseteq v.seen /\ v.seen \subseteq u.seen
    BY DEF Progress, Takes
  <2>3. Len(w.queue) <= Len(u.queue) /\ Cardinality(u.seen) - Len(u.queue) = Cardinality(w.seen) - Len(w.queue)
    BY <2>1, <2>2 DEF Queues
  <2>4. \A i \in 1..Len(w.queue) : u.queue[i] = w.queue[i]
    BY <2>1, <2>2 DEF Queues
  <2>5. ASSUME NEW i \in (Len(w.queue) + 1)..Len(u.queue)
        PROVE  \E x \in u.seen \ w.seen : u.queue[i] = <<x, w.level + 1>>
    <3>1. CASE i <= Len(v.queue)
      <4>1. i \in 1..Len(v.queue) /\ i \in (Len(w.queue) + 1)..Len(v.queue)
        BY <2>1, <3>1
      <4> QED
        BY <2>2, <4>1 DEF Queues
    <3>2. CASE ~(i <= Len(v.queue))
      <4>1. i \in (Len(v.queue) + 1)..Len(u.queue)
        BY <2>1, <3>2
      <4> QED
        BY <1>1, <2>2, <4>1 DEF Queues
    <3> QED
      BY <3>1, <3>2
  <2>6. ASSUME NEW x \in u.seen \ w.seen
        PROVE  \E i \in (Len(w.queue) + 1)..Len(u.queue) : u.queue[i] = <<x, w.level + 1>>
    <3>1. CASE x \in v.seen
      <4>1. PICK i \in (Len(w.queue) + 1)..Len(v.queue) : v.queue[i] = <<x, w.level + 1>>
        BY <2>2, <3>1 DEF Queues
      <4>2. i \in 1..Len(v.queue) /\ i \in (Len(w.queue) + 1)..Len(u.queue)
        BY <2>1, <2>2 DEF Queues
      <4> QED
        BY <2>2, <4>1, <4>2 DEF Queues
    <3>2. CASE x \notin v.seen
      <4>1. PICK i \in (Len(v.queue) + 1)..Len(u.queue) : u.queue[i] = <<x, w.level + 1>>
        BY <1>1, <2>2, <3>2 DEF Queues
      <4>2. i \in (Len(w.queue) + 1)..Len(u.queue)
        BY <2>1, <2>2 DEF Queues
      <4> QED
        BY <4>1, <4>2
    <3> QED
      BY <3>1, <3>2
  <2> QED
    BY <2>3, <2>4, <2>5, <2>6 DEF Queues
<1> QED
  BY <1>1, <1>2, <1>3 DEF Progress

OneOffer(far, edge, at, loops) == {o \in {<<far, edge>>} : far # at \/ loops}

LEMMA ProgressOne ==
  ASSUME NEW graph, NEW w, IsWalk(w), NEW far \in Symbols(graph), far \in Nat \ {NoSymbol}, NEW edge,
         NEW loops \in BOOLEAN
  PROVE  Progress(w, Row(graph, w, far, edge, loops),
                  OneOffer(far, edge, w.at, loops))
<1> DEFINE r == Row(graph, w, far, edge, loops)
           offers == OneOffer(far, edge, w.at, loops)
<1>0. /\ IsWalk(r) /\ SameEntry(w, r)
      /\ \/ /\ Full(w) /\ r.truncated
            /\ r.queue = w.queue /\ r.seen = w.seen /\ r.edges = w.edges
         \/ /\ ~Full(w) /\ far = w.at /\ ~loops /\ r = w
         \/ /\ ~Full(w) /\ (far # w.at \/ loops)
            /\ r.truncated = w.truncated
            /\ r.edges = w.edges \cup {edge} /\ r.seen = w.seen \cup {far}
            /\ \/ far \in w.seen /\ r.queue = w.queue
               \/ far \notin w.seen /\ r.queue = Append(w.queue, <<far, w.level + 1>>)
  BY RowFields
<1> HIDE DEF r
<1>1. CASE Full(w) /\ r.truncated /\ r.queue = w.queue /\ r.seen = w.seen /\ r.edges = w.edges
  <2>1. Takes(w, r, offers) /\ Queues(w, r)
    BY <1>1 DEF Takes, Queues
  <2>2. Capped(w) => Capped(r)
    BY <1>0, <1>1 DEF Capped, IsWalk, SameEntry, MaxEdges
  <2> QED
    BY <1>0, <2>1, <2>2 DEF Progress, r
<1>2. CASE ~Full(w) /\ far = w.at /\ ~loops /\ r = w
  <2>1. offers = {}
    BY <1>2 DEF OneOffer
  <2> QED
    BY <1>2, <2>1, ProgressNone DEF r
<1>3. CASE /\ ~Full(w) /\ (far # w.at \/ loops)
           /\ r.truncated = w.truncated
           /\ r.edges = w.edges \cup {edge} /\ r.seen = w.seen \cup {far}
           /\ \/ far \in w.seen /\ r.queue = w.queue
              \/ far \notin w.seen /\ r.queue = Append(w.queue, <<far, w.level + 1>>)
  <2>1. offers = {<<far, edge>>}
    BY <1>3 DEF OneOffer
  <2>2. Takes(w, r, offers)
    BY <1>3, <2>1 DEF Takes
  <2>3. Capped(w) => Capped(r)
    <3>1. w.nodes = w.seen /\ Cardinality(w.seen) \in Nat /\ Cardinality(w.edges) \in Nat
      BY WalkSizes DEF IsWalk
    <3>2. Cardinality(r.nodes) <= Cardinality(w.nodes) + 1
      <4>1. r.nodes = w.seen \cup {far} /\ IsFiniteSet(w.seen) /\ w.nodes = w.seen
        BY <1>0, <1>3 DEF IsWalk
      <4>2. Cardinality(w.seen \cup {far}) <= Cardinality(w.seen) + 1
        BY <4>1, OneMore
      <4> QED
        BY <4>1, <4>2
    <3>3. Cardinality(r.edges) <= Cardinality(w.edges) + 1
      <4>1. r.edges = w.edges \cup {edge} /\ IsFiniteSet(w.edges)
        BY <1>3 DEF IsWalk
      <4>2. Cardinality(w.edges \cup {edge}) <= Cardinality(w.edges) + 1
        BY <4>1, OneMore
      <4> QED
        BY <4>1, <4>2
    <3>4. Cardinality(r.nodes) \in Nat /\ Cardinality(r.edges) \in Nat /\ w.max \in Nat /\ r.max = w.max
      BY <1>0, WalkSizes DEF IsWalk, SameEntry
    <3>5. Cardinality(w.nodes) < w.max /\ Cardinality(w.edges) < 3 * w.max
      BY <1>3, <3>1, <3>4 DEF Full, MaxEdges
    <3> QED
      BY <3>1, <3>2, <3>3, <3>4, <3>5 DEF Capped, MaxEdges
  <2>4. Queues(w, r)
    <3>1. CASE far \in w.seen /\ r.queue = w.queue
      <4>1. r.seen = w.seen
        BY <1>3, <3>1
      <4> QED
        BY <3>1, <4>1 DEF Queues
    <3>2. CASE far \notin w.seen /\ r.queue = Append(w.queue, <<far, w.level + 1>>)
      <4>1. r.seen \ w.seen = {far} /\ Cardinality(r.seen) = Cardinality(w.seen) + 1 /\ Cardinality(w.seen) \in Nat
        <5>1. IsFiniteSet(w.seen) /\ r.seen = w.seen \cup {far} /\ r.seen \ w.seen = {far}
          BY <1>3, <3>2 DEF IsWalk
        <5>2. Cardinality(w.seen \cup {far}) = Cardinality(w.seen) + 1
          BY <3>2, <5>1, FS_AddElement
        <5> QED
          BY <5>1, <5>2, WalkSizes
      <4>2. /\ Len(w.queue) \in Nat /\ Len(r.queue) = Len(w.queue) + 1
            /\ \A i \in 1..Len(w.queue) : r.queue[i] = w.queue[i]
            /\ r.queue[Len(w.queue) + 1] = <<far, w.level + 1>>
        BY <3>2 DEF IsWalk
      <4>3. (Len(w.queue) + 1)..Len(r.queue) = {Len(w.queue) + 1}
        BY <4>2
      <4>4. \A i \in (Len(w.queue) + 1)..Len(r.queue) :
               \E x \in r.seen \ w.seen : r.queue[i] = <<x, w.level + 1>>
        BY <4>1, <4>2, <4>3
      <4>5. \A x \in r.seen \ w.seen :
               \E i \in (Len(w.queue) + 1)..Len(r.queue) : r.queue[i] = <<x, w.level + 1>>
        BY <4>1, <4>2, <4>3
      <4>6. Len(w.queue) <= Len(r.queue) /\ Cardinality(r.seen) - Len(r.queue) = Cardinality(w.seen) - Len(w.queue)
        BY <4>1, <4>2
      <4> QED
        BY <4>2, <4>4, <4>5, <4>6 DEF Queues
    <3> QED
      BY <1>3, <3>1, <3>2
  <2> QED
    BY <1>0, <2>2, <2>3, <2>4 DEF Progress, r
<1> QED
  BY <1>0, <1>1, <1>2, <1>3

Offered(far, mark, n, at, loops) ==
    {<<far[i], mark[i]>> : i \in {j \in 1..n : far[j] # at \/ loops}}

TakesRows(graph, f, w, far, mark, n, loops) ==
    /\ f[0] = w
    /\ \A i \in 1..n : far[i] \in Symbols(graph) /\ f[i] = Row(graph, f[i - 1], far[i], mark[i], loops)

LEMMA RowsProgress ==
  ASSUME NEW graph, Symbols(graph) \subseteq Nat \ {NoSymbol}, NEW w, IsWalk(w), NEW loops \in BOOLEAN,
         NEW n \in Nat, NEW far, NEW mark, NEW f, TakesRows(graph, f, w, far, mark, n, loops)
  PROVE  Progress(w, f[n], Offered(far, mark, n, w.at, loops))
<1> DEFINE S == {i \in 0..n : Progress(w, f[i], Offered(far, mark, i, w.at, loops))}
<1>1. 0 \in S
  <2>1. Offered(far, mark, 0, w.at, loops) = {} /\ f[0] = w
    BY DEF Offered, TakesRows
  <2> QED
    BY <2>1, ProgressNone
<1>2. ASSUME NEW i \in 1..n, i - 1 \in S PROVE i \in S
  <2> DEFINE v == f[i - 1]
             one == OneOffer(far[i], mark[i], w.at, loops)
  <2>1. Progress(w, v, Offered(far, mark, i - 1, w.at, loops))
    BY <1>2
  <2>2. IsWalk(v) /\ v.at = w.at
    BY <2>1 DEF Progress, SameEntry
  <2>3. far[i] \in Symbols(graph) /\ far[i] \in Nat \ {NoSymbol}
    BY DEF TakesRows
  <2>4. f[i] = Row(graph, v, far[i], mark[i], loops)
    BY DEF TakesRows
  <2>5. Progress(v, f[i], one)
    <3>1. Progress(v, Row(graph, v, far[i], mark[i], loops), OneOffer(far[i], mark[i], v.at, loops))
      <4> HIDE DEF v
      <4> QED
        BY <2>2, <2>3, ProgressOne
    <3> HIDE DEF v
    <3> QED
      BY <2>2, <2>4, <3>1
  <2> HIDE DEF v
  <2>6. Offered(far, mark, i, w.at, loops) = Offered(far, mark, i - 1, w.at, loops) \cup one
    BY DEF Offered, OneOffer
  <2> HIDE DEF one
  <2>7. Progress(w, f[i], Offered(far, mark, i, w.at, loops))
    BY <2>1, <2>5, <2>6, ProgressThen
  <2> QED
    BY <2>7
<1>3. 0..n \subseteq S
  <2> HIDE DEF S
  <2> QED
    BY <1>1, <1>2, WithinFold!InductionUpTo
<1> QED
  BY <1>3

(* The rows offered at a symbol by the two statements *)
OutOffers(graph, s, loops) ==
    {<<e.tgt, <<s, e.tgt, e.kind>>>> : e \in {r \in Rows(graph) : r.src = s /\ (r.tgt # s \/ loops)}}
InOffers(graph, s) ==
    {<<e.src, <<e.src, s, e.kind>>>> : e \in {r \in Rows(graph) : r.tgt = s /\ r.src \notin {s, NoSource}}}

OutTake(c, v, e) == Row(c[1], v, e.tgt, <<c[2], e.tgt, e.kind>>, c[3])
InTake(c, v, e) == Row(c[1], v, e.src, <<e.src, c[2], e.kind>>, FALSE)

OutWalk == INSTANCE FoldTheorems WITH Step <- OutTake, Greatest <- Max
InWalk == INSTANCE FoldTheorems WITH Step <- InTake, Greatest <- Max

OutRun(graph, w, rows) ==
    FoldLeft(LAMBDA v, e : Row(graph, v, e.tgt, <<w.at, e.tgt, e.kind>>, w.loops), w, rows)
InRun(graph, w, rows) ==
    FoldLeft(LAMBDA v, e : Row(graph, v, e.src, <<e.src, w.at, e.kind>>, FALSE), w, rows)

LEMMA OutRunProgress ==
  ASSUME NEW graph, Symbols(graph) \subseteq Nat \ {NoSymbol}, NEW w, IsWalk(w), NEW rows \in Seq(Rows(graph)),
         \A e \in Rows(graph) : e.tgt \in Symbols(graph)
  PROVE  Progress(w, OutRun(graph, w, rows),
                  {<<e.tgt, <<w.at, e.tgt, e.kind>>>> : e \in {r \in ToSet(rows) : r.tgt # w.at \/ w.loops}})
<1> DEFINE n == Len(rows)
           c == <<graph, w.at, w.loops>>
           iter == CHOOSE iter : OutWalk!Iterates(iter, c, w, rows, DOMAIN rows)
           far == [i \in 1..n |-> rows[i].tgt]
           mark == [i \in 1..n |-> <<w.at, rows[i].tgt, rows[i].kind>>]
<1>1. n \in Nat /\ DOMAIN rows = 1..n /\ \A i \in 1..n : rows[i] \in Rows(graph)
  OBVIOUS
<1>2. OutWalk!GreatestUpTo(n)
  BY <1>1, MaxIsGreatest DEF OutWalk!GreatestUpTo
<1>3. OutWalk!Iterates(iter, c, w, rows, DOMAIN rows)
  <2>1. \E it : OutWalk!Iterates(it, c, w, rows, 1..n)
    <3> HIDE DEF n, c
    <3> QED
      BY <1>1, <1>2, OutWalk!IterationExists
  <2> HIDE DEF n, c
  <2> QED
    BY <1>1, <2>1
<1>4. OutRun(graph, w, rows) = iter[DOMAIN rows]
  BY DEF OutRun, FoldLeft, MapThenFoldSet, OutWalk!Iterates, OutTake
<1> HIDE DEF iter
<1>5. PICK f : OutWalk!IsRun(f, c, w, rows, n) /\ OutRun(graph, w, rows) = f[n]
  <2> HIDE DEF n, c
  <2> QED
    BY <1>1, <1>2, <1>3, <1>4, OutWalk!FoldRuns
<1>6. f[0] = w /\ \A i \in 1..n : f[i] = Row(graph, f[i - 1], far[i], mark[i], w.loops)
  BY <1>5 DEF OutWalk!IsRun, OutTake
<1>7. \A i \in 1..n : far[i] \in Symbols(graph)
  BY <1>1
<1>8. Offered(far, mark, n, w.at, w.loops)
        = {<<e.tgt, <<w.at, e.tgt, e.kind>>>> : e \in {r \in ToSet(rows) : r.tgt # w.at \/ w.loops}}
  BY <1>1 DEF Offered, ToSet
<1>9. w.loops \in BOOLEAN
  BY DEF IsWalk
<1> HIDE DEF n, far, mark
<1>10. TakesRows(graph, f, w, far, mark, n, w.loops)
  BY <1>6, <1>7 DEF TakesRows
<1>11. Progress(w, f[n], Offered(far, mark, n, w.at, w.loops))
  BY <1>1, <1>9, <1>10, RowsProgress
<1> QED
  BY <1>5, <1>8, <1>11

LEMMA InRunProgress ==
  ASSUME NEW graph, Symbols(graph) \subseteq Nat \ {NoSymbol}, NEW w, IsWalk(w), NEW rows \in Seq(Rows(graph)),
         \A e \in ToSet(rows) : e.src \in Symbols(graph)
  PROVE  Progress(w, InRun(graph, w, rows),
                  {<<e.src, <<e.src, w.at, e.kind>>>> : e \in {r \in ToSet(rows) : r.src # w.at}})
<1> DEFINE n == Len(rows)
           c == <<graph, w.at, w.loops>>
           iter == CHOOSE iter : InWalk!Iterates(iter, c, w, rows, DOMAIN rows)
           far == [i \in 1..n |-> rows[i].src]
           mark == [i \in 1..n |-> <<rows[i].src, w.at, rows[i].kind>>]
<1>1. n \in Nat /\ DOMAIN rows = 1..n /\ \A i \in 1..n : rows[i] \in Rows(graph)
  OBVIOUS
<1>2. InWalk!GreatestUpTo(n)
  BY <1>1, MaxIsGreatest DEF InWalk!GreatestUpTo
<1>3. InWalk!Iterates(iter, c, w, rows, DOMAIN rows)
  <2>1. \E it : InWalk!Iterates(it, c, w, rows, 1..n)
    <3> HIDE DEF n, c
    <3> QED
      BY <1>1, <1>2, InWalk!IterationExists
  <2> HIDE DEF n, c
  <2> QED
    BY <1>1, <2>1
<1>4. InRun(graph, w, rows) = iter[DOMAIN rows]
  BY DEF InRun, FoldLeft, MapThenFoldSet, InWalk!Iterates, InTake
<1> HIDE DEF iter
<1>5. PICK f : InWalk!IsRun(f, c, w, rows, n) /\ InRun(graph, w, rows) = f[n]
  <2> HIDE DEF n, c
  <2> QED
    BY <1>1, <1>2, <1>3, <1>4, InWalk!FoldRuns
<1>6. f[0] = w /\ \A i \in 1..n : f[i] = Row(graph, f[i - 1], far[i], mark[i], FALSE)
  BY <1>5 DEF InWalk!IsRun, InTake
<1>7. \A i \in 1..n : far[i] \in Symbols(graph)
  BY <1>1 DEF ToSet
<1>8. Offered(far, mark, n, w.at, FALSE)
        = {<<e.src, <<e.src, w.at, e.kind>>>> : e \in {r \in ToSet(rows) : r.src # w.at}}
  BY <1>1 DEF Offered, ToSet
<1> HIDE DEF n, far, mark
<1>10. TakesRows(graph, f, w, far, mark, n, FALSE)
  BY <1>6, <1>7 DEF TakesRows
<1>11. Progress(w, f[n], Offered(far, mark, n, w.at, FALSE))
  BY <1>1, <1>10, RowsProgress
<1> QED
  BY <1>5, <1>8, <1>11

(* The two statements of an expansion: every row of the symbol, or the cap *)
LEMMA OutStepProgress ==
  ASSUME NEW graph, WellFormed(graph), NEW w, IsWalk(w)
  PROVE  Progress(w, OutStep(graph, w), IF w.out THEN OutOffers(graph, w.at, w.loops) ELSE {})
<1> DEFINE rows == IF w.out THEN OutRows(graph, w.at) ELSE <<>>
           next == OutRun(graph, w, rows)
           offers == IF w.out THEN OutOffers(graph, w.at, w.loops) ELSE {}
<1>1. /\ Symbols(graph) \subseteq Nat \ {NoSymbol} /\ \A e \in Rows(graph) : e.tgt \in Symbols(graph)
      /\ graph.edges \in Seq(Rows(graph))
  BY DEF WellFormed
<1>2. rows \in Seq(Rows(graph)) /\ ToSet(rows) = IF w.out THEN {e \in Rows(graph) : e.src = w.at} ELSE {}
  <2>1. CASE w.out
    BY <1>1, <2>1, OutRowsAre
  <2>2. CASE ~w.out
    BY <2>2 DEF ToSet
  <2> QED
    BY <2>1, <2>2
<1>3. {<<e.tgt, <<w.at, e.tgt, e.kind>>>> : e \in {r \in ToSet(rows) : r.tgt # w.at \/ w.loops}} = offers
  <2> HIDE DEF rows
  <2> QED
    BY <1>2 DEF OutOffers
<1>4. Progress(w, next, offers)
  <2> HIDE DEF rows
  <2> QED
    BY <1>1, <1>2, <1>3, OutRunProgress
<1>5. OutStep(graph, w) = IF Full(next) THEN [next EXCEPT !.truncated = TRUE] ELSE next
  BY DEF OutStep, OutRun
<1> HIDE DEF next, offers, rows
<1>6. CASE ~Full(next)
  BY <1>4, <1>5, <1>6 DEF offers
<1>7. CASE Full(next)
  <2> DEFINE r == OutStep(graph, w)
  <2>1. IsWalk(next)
    BY <1>4 DEF Progress
  <2>2. r = [root |-> next.root, depth |-> next.depth, max |-> next.max, out |-> next.out, in |-> next.in,
            loops |-> next.loops, queue |-> next.queue, at |-> next.at, level |-> next.level,
            reached |-> next.reached, nodes |-> next.nodes, seen |-> next.seen, edges |-> next.edges,
            truncated |-> TRUE]
    BY <1>5, <1>7, <2>1 DEF IsWalk
  <2> HIDE DEF r
  <2>3. IsWalk(r)
    BY <2>1, <2>2 DEF IsWalk
  <2>4. /\ SameEntry(next, r) /\ r.queue = next.queue /\ r.nodes = next.nodes /\ r.seen = next.seen
        /\ r.edges = next.edges /\ r.truncated
    BY <2>2 DEF SameEntry
  <2>5. SameEntry(w, r) /\ (Capped(w) => Capped(r))
    BY <1>4, <2>4 DEF Progress, SameEntry, Capped, MaxEdges
  <2>6. Takes(w, r, offers) /\ Queues(w, r)
    BY <1>4, <2>4 DEF Progress, Takes, Queues
  <2> QED
    BY <2>3, <2>5, <2>6 DEF Progress, r, offers
<1> QED
  BY <1>6, <1>7

LEMMA InStepProgress ==
  ASSUME NEW graph, WellFormed(graph), NEW w, IsWalk(w)
  PROVE  Progress(w, InStep(graph, w), IF w.in THEN InOffers(graph, w.at) ELSE {})
<1> DEFINE rows == IF w.in THEN InRows(graph, w.at) ELSE <<>>
           offers == IF w.in THEN InOffers(graph, w.at) ELSE {}
<1>1. /\ Symbols(graph) \subseteq Nat \ {NoSymbol}
      /\ \A e \in Rows(graph) : e.src # NoSource => e.src \in Symbols(graph)
      /\ graph.edges \in Seq(Rows(graph))
  BY DEF WellFormed
<1>2. rows \in Seq(Rows(graph))
      /\ ToSet(rows) = IF w.in THEN {e \in Rows(graph) : e.tgt = w.at /\ e.src # NoSource} ELSE {}
  <2>1. CASE w.in
    BY <1>1, <2>1, InRowsAre
  <2>2. CASE ~w.in
    BY <2>2 DEF ToSet
  <2> QED
    BY <2>1, <2>2
<1>3. {<<e.src, <<e.src, w.at, e.kind>>>> : e \in {r \in ToSet(rows) : r.src # w.at}} = offers
  <2> HIDE DEF rows
  <2> QED
    BY <1>2 DEF InOffers
<1>4. InStep(graph, w) = InRun(graph, w, rows)
  BY DEF InStep, InRun
<1> HIDE DEF rows
<1>5. \A e \in ToSet(rows) : e.src \in Symbols(graph)
  BY <1>1, <1>2
<1> QED
  BY <1>1, <1>2, <1>3, <1>4, <1>5, InRunProgress

----------------------------------------------------------------------------
(* shortest_path *)

(* Who is within n edges of a symbol, and how far away a symbol is *)
Onward(graph) == Steps(Sourced(graph), TRUE, FALSE)
Far(graph, from, n) == Within(Onward(graph), {from}, n)
Dist(graph, from, s) == Min({n \in Nat : s \in Far(graph, from, n)})
Reaches(graph, from, s) == \E n \in Nat : s \in Far(graph, from, n)

LEMMA OnwardAre ==
  ASSUME NEW graph
  PROVE  /\ \A e \in Sourced(graph) : <<e.src, e.tgt>> \in Onward(graph)
         /\ \A p \in Onward(graph) : \E e \in Sourced(graph) : p = <<e.src, e.tgt>>
BY DEF Onward, Steps

LEMMA FarGrows ==
  ASSUME NEW graph, NEW from, NEW m \in Nat, NEW n \in Nat, m <= n
  PROVE  Far(graph, from, m) \subseteq Far(graph, from, n)
BY WithinMonotone DEF Far

LEMMA FarNext ==
  ASSUME NEW graph, NEW from, NEW n \in Nat
  PROVE  \A x : x \in Far(graph, from, n + 1) <=>
                \/ x \in Far(graph, from, n)
                \/ \E e \in Sourced(graph) : e.src \in Far(graph, from, n) /\ e.tgt = x
<1>1. \A x : x \in Far(graph, from, n + 1) <=>
             \/ x \in Far(graph, from, n)
             \/ \E p \in Onward(graph) : p[1] \in Far(graph, from, n) /\ p[2] = x
  BY WithinNext DEF Far
<1>2. \A x : (\E p \in Onward(graph) : p[1] \in Far(graph, from, n) /\ p[2] = x)
             <=> \E e \in Sourced(graph) : e.src \in Far(graph, from, n) /\ e.tgt = x
  <2> TAKE x
  <2>1. ASSUME NEW p \in Onward(graph), p[1] \in Far(graph, from, n), p[2] = x
        PROVE  \E e \in Sourced(graph) : e.src \in Far(graph, from, n) /\ e.tgt = x
    BY <2>1, OnwardAre
  <2>2. ASSUME NEW e \in Sourced(graph), e.src \in Far(graph, from, n), e.tgt = x
        PROVE  \E p \in Onward(graph) : p[1] \in Far(graph, from, n) /\ p[2] = x
    <3>1. <<e.src, e.tgt>> \in Onward(graph) /\ <<e.src, e.tgt>>[1] = e.src /\ <<e.src, e.tgt>>[2] = e.tgt
      BY OnwardAre
    <3> QED
      BY <2>2, <3>1
  <2> QED
    BY <2>1, <2>2
<1> QED
  BY <1>1, <1>2

LEMMA DistIs ==
  ASSUME NEW graph, NEW from, NEW s, Reaches(graph, from, s)
  PROVE  /\ Dist(graph, from, s) \in Nat
         /\ \A n \in Nat : s \in Far(graph, from, n) <=> Dist(graph, from, s) <= n
<1> DEFINE N == {n \in Nat : s \in Far(graph, from, n)}
<1>1. N \subseteq Nat /\ N # {}
  BY DEF Reaches
<1>2. Min(N) \in N /\ \A n \in N : Min(N) <= n
  <2> HIDE DEF N
  <2> QED
    BY <1>1, MinIsMember
<1>3. Dist(graph, from, s) = Min(N)
  BY DEF Dist
<1> HIDE DEF Dist
<1>4. Dist(graph, from, s) \in N /\ \A n \in N : Dist(graph, from, s) <= n
  BY <1>2, <1>3
<1>5. ASSUME NEW n \in Nat, Dist(graph, from, s) <= n PROVE s \in Far(graph, from, n)
  BY <1>4, <1>5, FarGrows
<1> QED
  BY <1>4, <1>5

LEMMA DistStart == ASSUME NEW graph, NEW from PROVE Reaches(graph, from, from) /\ Dist(graph, from, from) = 0
<1>1. from \in Far(graph, from, 0)
  BY WithinZero DEF Far
<1>2. Reaches(graph, from, from)
  BY <1>1 DEF Reaches
<1> QED
  BY <1>1, <1>2, DistIs

(* An edge leads one step further at most *)
LEMMA DistEdge ==
  ASSUME NEW graph, NEW from, NEW e \in Sourced(graph), Reaches(graph, from, e.src)
  PROVE  /\ Reaches(graph, from, e.tgt)
         /\ Dist(graph, from, e.tgt) <= Dist(graph, from, e.src) + 1
<1> DEFINE d == Dist(graph, from, e.src)
<1>1. d \in Nat /\ d + 1 \in Nat /\ e.src \in Far(graph, from, d)
  BY DistIs
<1> HIDE DEF d
<1>2. e.tgt \in Far(graph, from, d + 1)
  BY <1>1, FarNext
<1>3. Reaches(graph, from, e.tgt)
  BY <1>1, <1>2 DEF Reaches
<1>4. Dist(graph, from, e.tgt) <= d + 1
  BY <1>1, <1>2, <1>3, DistIs
<1> QED
  BY <1>3, <1>4 DEF d

----------------------------------------------------------------------------
(* The search. What it has reached is D; the rows reached by are in parent *)

Seen(b) == DOMAIN b.parent
Waiting(b) == {b.queue[i] : i \in DOMAIN b.queue}

(* How it got there *)
Traced(graph, from, b) ==
    /\ b = [queue |-> b.queue, parent |-> b.parent, found |-> b.found] /\ b.found \in BOOLEAN
    /\ from \in Seen(b) /\ Seen(b) \subseteq Symbols(graph)
    /\ b.queue \in Seq(Seen(b))
    /\ \A s \in Seen(b) : Reaches(graph, from, s)
    /\ \A s \in Seen(b) \ {from} :
          /\ b.parent[s] \in Sourced(graph) /\ b.parent[s].tgt = s /\ b.parent[s].src \in Seen(b)
          /\ Dist(graph, from, s) = Dist(graph, from, b.parent[s].src) + 1

(* The queue goes from near to far, by one step at most *)
Ordered(graph, from, q) ==
    \A i, j \in DOMAIN q : i <= j => /\ Dist(graph, from, q[i]) <= Dist(graph, from, q[j])
                                     /\ Dist(graph, from, q[j]) <= Dist(graph, from, q[i]) + 1

(* The rows of u that are in the set lead to symbols already seen *)
Spread(b, rows) == \A e \in rows : e.tgt \in Seen(b)
RowsFrom(graph, s) == {e \in Sourced(graph) : e.src = s}

(* Between two rounds *)
Searching(graph, from, to, b) ==
    /\ Traced(graph, from, b)
    /\ b.found => to \in Seen(b)
    /\ ~b.found =>
          /\ to \in Seen(b) => to \in Waiting(b)
          /\ Ordered(graph, from, b.queue)
          /\ \A s \in Seen(b) \ Waiting(b) : Spread(b, RowsFrom(graph, s))

(* While the rows of u are read *)
Relaxing(graph, from, to, u, rows, b) ==
    /\ Traced(graph, from, b) /\ u \in Seen(b)
    /\ b.found => to \in Seen(b)
    /\ ~b.found =>
          /\ to \in Seen(b) => to \in Waiting(b)
          /\ Ordered(graph, from, b.queue)
          /\ \A i \in DOMAIN b.queue : /\ Dist(graph, from, u) <= Dist(graph, from, b.queue[i])
                                       /\ Dist(graph, from, b.queue[i]) <= Dist(graph, from, u) + 1
          /\ \A s \in Seen(b) \ (Waiting(b) \cup {u}) : Spread(b, RowsFrom(graph, s))
          /\ Spread(b, rows)
          /\ Far(graph, from, Dist(graph, from, u)) \subseteq Seen(b)

Unread(b) == Cardinality(Seen(b)) - Len(b.queue)

(* All that is nearer than the queue has been seen *)
LEMMA SearchCovers ==
  ASSUME NEW graph, NEW from, NEW to, NEW b, Searching(graph, from, to, b), ~b.found, NEW k \in Nat,
         \A i \in DOMAIN b.queue : k <= Dist(graph, from, b.queue[i])
  PROVE  Far(graph, from, k) \subseteq Seen(b)
<1> DEFINE S == {n \in 0..k : Far(graph, from, n) \subseteq Seen(b)}
<1>1. 0 \in S
  <2>1. Far(graph, from, 0) = {from}
    BY WithinZero DEF Far
  <2> QED
    BY <2>1 DEF Searching, Traced
<1>2. ASSUME NEW n \in 1..k, n - 1 \in S PROVE n \in S
  <2> DEFINE m == n - 1
  <2>1. m \in Nat /\ m + 1 = n /\ Far(graph, from, m) \subseteq Seen(b)
    BY <1>2
  <2> HIDE DEF m
  <2> SUFFICES ASSUME NEW y \in Far(graph, from, m + 1), y \notin Far(graph, from, m) PROVE y \in Seen(b)
    BY <2>1
  <2>2. PICK e \in Sourced(graph) : e.src \in Far(graph, from, m) /\ e.tgt = y
    BY <2>1, FarNext
  <2>3. e.src \in Seen(b) /\ Reaches(graph, from, e.src)
    BY <2>1, <2>2 DEF Reaches
  <2>4. Dist(graph, from, e.src) <= m /\ Dist(graph, from, e.src) \in Nat
    BY <2>1, <2>2, <2>3, DistIs
  <2>5. e.src \notin Waiting(b)
    BY <2>1, <2>4 DEF Waiting
  <2> QED
    BY <2>2, <2>3, <2>5 DEF Searching, Spread, RowsFrom
<1>3. 0..k \subseteq S
  <2> HIDE DEF S
  <2> QED
    BY <1>1, <1>2, WithinFold!InductionUpTo
<1> QED
  BY <1>3

LEMMA RelaxTakes ==
  ASSUME NEW graph, WellFormed(graph), NEW from, NEW to, NEW u, NEW rows, NEW b,
         Relaxing(graph, from, to, u, rows, b), NEW e \in Sourced(graph), e.src = u
  PROVE  /\ Relaxing(graph, from, to, u, rows \cup {e}, Relax(to, b, e))
         /\ Unread(Relax(to, b, e)) = Unread(b)
<1> DEFINE v == Relax(to, b, e)
           t == e.tgt
<1>0. Traced(graph, from, b) /\ b.queue \in Seq(Seen(b)) /\ Len(b.queue) \in Nat
      /\ DOMAIN b.queue = 1..Len(b.queue)
  BY DEF Relaxing, Traced
<1>1. CASE b.found \/ t \in Seen(b)
  <2>1. v = b
    BY <1>1 DEF Relax, Seen
  <2>2. Relaxing(graph, from, to, u, rows \cup {e}, b)
    BY <1>1 DEF Relaxing, Spread
  <2> QED
    BY <2>1, <2>2
<1>2. CASE ~b.found /\ t \notin Seen(b)
  <2>1. /\ v.queue = Append(b.queue, t) /\ Seen(v) = Seen(b) \cup {t}
        /\ v.parent[t] = e /\ \A s \in Seen(b) : v.parent[s] = b.parent[s]
        /\ v.found <=> t = to
        /\ v = [queue |-> v.queue, parent |-> v.parent, found |-> v.found] /\ v.found \in BOOLEAN
    BY <1>2 DEF Relax, Seen
  <2> HIDE DEF v
  <2>2. t \in Symbols(graph) /\ e.tgt = t
    BY DEF WellFormed, Sourced
  <2>3. u \in Seen(b) /\ Reaches(graph, from, u) /\ from \in Seen(b)
    BY DEF Relaxing, Traced
  <2>4. Reaches(graph, from, t) /\ Dist(graph, from, u) \in Nat /\ Dist(graph, from, t) \in Nat
        /\ Dist(graph, from, t) = Dist(graph, from, u) + 1
    <3>1. Reaches(graph, from, t) /\ Dist(graph, from, t) <= Dist(graph, from, u) + 1
      BY <2>3, DistEdge
    <3>2. Dist(graph, from, u) \in Nat /\ Dist(graph, from, t) \in Nat
      BY <2>3, <3>1, DistIs
    <3>3. t \notin Far(graph, from, Dist(graph, from, u))
      BY <1>2 DEF Relaxing
    <3>4. ~(Dist(graph, from, t) <= Dist(graph, from, u))
      BY <3>1, <3>2, <3>3, DistIs
    <3> QED
      BY <3>1, <3>2, <3>4
  <2>5. /\ Len(v.queue) = Len(b.queue) + 1 /\ v.queue \in Seq(Seen(v))
        /\ v.queue[Len(b.queue) + 1] = t /\ \A i \in 1..Len(b.queue) : v.queue[i] = b.queue[i]
        /\ DOMAIN v.queue = 1..(Len(b.queue) + 1)
    <3> DEFINE X == Seen(b) \cup {t}
    <3>1. b.queue \in Seq(X) /\ t \in X
      <4>1. b.queue = [i \in 1..Len(b.queue) |-> b.queue[i]] /\ \A i \in 1..Len(b.queue) : b.queue[i] \in X
        BY <1>0
      <4> HIDE DEF X
      <4>2. b.queue \in Seq(X)
        BY <1>0, <4>1
      <4> QED
        BY <4>2 DEF X
    <3>2. X = Seen(v)
      BY <2>1
    <3> HIDE DEF X
    <3> QED
      BY <2>1, <3>1, <3>2
  <2>6. Waiting(v) = Waiting(b) \cup {t}
    <3>1. ASSUME NEW x \in Waiting(v) PROVE x \in Waiting(b) \cup {t}
      <4>1. PICK i \in 1..(Len(b.queue) + 1) : x = v.queue[i]
        BY <2>5 DEF Waiting
      <4>2. CASE i \in 1..Len(b.queue)
        BY <1>0, <2>5, <4>1, <4>2 DEF Waiting
      <4>3. CASE i = Len(b.queue) + 1
        BY <2>5, <4>1, <4>3
      <4> QED
        BY <1>0, <4>2, <4>3
    <3>2. ASSUME NEW x \in Waiting(b) PROVE x \in Waiting(v)
      <4>1. PICK i \in 1..Len(b.queue) : x = b.queue[i]
        BY <1>0 DEF Waiting
      <4>2. i \in DOMAIN v.queue /\ x = v.queue[i]
        BY <1>0, <2>5, <4>1
      <4> QED
        BY <4>2 DEF Waiting
    <3>3. t \in Waiting(v)
      <4>1. Len(b.queue) + 1 \in DOMAIN v.queue
        BY <1>0, <2>5
      <4> QED
        BY <2>5, <4>1 DEF Waiting
    <3> QED
      BY <3>1, <3>2, <3>3
  <2>7. Traced(graph, from, v)
    <3>1. Seen(v) \subseteq Symbols(graph) /\ \A s \in Seen(v) : Reaches(graph, from, s)
      BY <1>0, <2>1, <2>2, <2>4 DEF Traced
    <3>2. ASSUME NEW s \in Seen(v) \ {from}
          PROVE  /\ v.parent[s] \in Sourced(graph) /\ v.parent[s].tgt = s /\ v.parent[s].src \in Seen(v)
                 /\ Dist(graph, from, s) = Dist(graph, from, v.parent[s].src) + 1
      <4>1. CASE s = t
        BY <2>1, <2>3, <2>4, <4>1
      <4>2. CASE s # t
        BY <1>0, <2>1, <4>2 DEF Traced
      <4> QED
        BY <4>1, <4>2
    <3> QED
      BY <2>1, <2>3, <2>5, <3>1, <3>2 DEF Traced
  <2>8. \A i \in DOMAIN b.queue : /\ Dist(graph, from, u) <= Dist(graph, from, b.queue[i])
                                  /\ Dist(graph, from, b.queue[i]) <= Dist(graph, from, u) + 1
                                  /\ Dist(graph, from, b.queue[i]) \in Nat
    <3>1. \A i \in DOMAIN b.queue : Reaches(graph, from, b.queue[i])
      BY <1>0 DEF Traced
    <3> QED
      BY <1>2, <3>1, DistIs DEF Relaxing
  <2>9. Ordered(graph, from, v.queue)
    <3> SUFFICES ASSUME NEW i \in DOMAIN v.queue, NEW j \in DOMAIN v.queue, i <= j
                 PROVE  /\ Dist(graph, from, v.queue[i]) <= Dist(graph, from, v.queue[j])
                        /\ Dist(graph, from, v.queue[j]) <= Dist(graph, from, v.queue[i]) + 1
      BY DEF Ordered
    <3>1. CASE j \in 1..Len(b.queue)
      <4>1. i \in DOMAIN b.queue /\ j \in DOMAIN b.queue /\ v.queue[i] = b.queue[i] /\ v.queue[j] = b.queue[j]
        BY <1>0, <2>5, <3>1
      <4> QED
        BY <1>2, <4>1 DEF Relaxing, Ordered
    <3>2. CASE j = Len(b.queue) + 1 /\ i \in 1..Len(b.queue)
      <4>1. i \in DOMAIN b.queue /\ v.queue[i] = b.queue[i] /\ v.queue[j] = t
        BY <1>0, <2>5, <3>2
      <4> QED
        BY <2>4, <2>8, <4>1
    <3>3. CASE i = Len(b.queue) + 1 /\ j = Len(b.queue) + 1
      BY <2>4, <2>5, <3>3
    <3> QED
      BY <1>0, <2>5, <3>1, <3>2, <3>3
  <2>10. \A i \in DOMAIN v.queue : /\ Dist(graph, from, u) <= Dist(graph, from, v.queue[i])
                                   /\ Dist(graph, from, v.queue[i]) <= Dist(graph, from, u) + 1
    <3> TAKE i \in DOMAIN v.queue
    <3>1. CASE i \in 1..Len(b.queue)
      <4>1. i \in DOMAIN b.queue /\ v.queue[i] = b.queue[i]
        BY <1>0, <2>5, <3>1
      <4> QED
        BY <2>8, <4>1
    <3>2. CASE i = Len(b.queue) + 1
      BY <2>4, <2>5, <3>2
    <3> QED
      BY <1>0, <2>5, <3>1, <3>2
  <2>11. /\ \A s \in Seen(v) \ (Waiting(v) \cup {u}) : Spread(v, RowsFrom(graph, s))
         /\ Spread(v, rows \cup {e}) /\ Far(graph, from, Dist(graph, from, u)) \subseteq Seen(v)
         /\ to \in Seen(v) => to \in Waiting(v)
    BY <1>2, <2>1, <2>6 DEF Relaxing, Spread
  <2>12. Relaxing(graph, from, to, u, rows \cup {e}, v)
    BY <2>1, <2>3, <2>7, <2>9, <2>10, <2>11 DEF Relaxing
  <2>13. Unread(v) = Unread(b)
    <3>1. IsFiniteSet(Seen(b))
      BY <1>0, FS_Subset DEF Traced, WellFormed
    <3>2. Cardinality(Seen(v)) = Cardinality(Seen(b)) + 1 /\ Cardinality(Seen(b)) \in Nat
      BY <1>2, <2>1, <3>1, FS_AddElement, FS_CardinalityType
    <3> QED
      BY <1>0, <2>5, <3>2 DEF Unread
  <2> QED
    BY <2>12, <2>13 DEF v
<1> QED
  BY <1>1, <1>2

RelaxOf(c, b, e) == Relax(c, b, e)
RelaxFold == INSTANCE FoldTheorems WITH Step <- RelaxOf, Greatest <- Max

RelaxedBy(to, b, rows) == FoldLeft(LAMBDA c, e : Relax(to, c, e), b, rows)

LEMMA RelaxRuns ==
  ASSUME NEW X, NEW rows \in Seq(X), NEW to, NEW b
  PROVE  \E f : /\ f[0] = b /\ \A i \in 1..Len(rows) : f[i] = Relax(to, f[i - 1], rows[i])
                /\ RelaxedBy(to, b, rows) = f[Len(rows)]
<1> DEFINE n == Len(rows)
           end == RelaxedBy(to, b, rows)
           iter == CHOOSE iter : RelaxFold!Iterates(iter, to, b, rows, DOMAIN rows)
<1>1. n \in Nat /\ DOMAIN rows = 1..n
  OBVIOUS
<1>2. RelaxFold!GreatestUpTo(n)
  BY <1>1, MaxIsGreatest DEF RelaxFold!GreatestUpTo
<1>3. RelaxFold!Iterates(iter, to, b, rows, DOMAIN rows)
  <2>1. \E it : RelaxFold!Iterates(it, to, b, rows, 1..n)
    <3> HIDE DEF n
    <3> QED
      BY <1>1, <1>2, RelaxFold!IterationExists
  <2> HIDE DEF n
  <2> QED
    BY <1>1, <2>1
<1>4. end = iter[DOMAIN rows]
  BY DEF RelaxedBy, FoldLeft, MapThenFoldSet, RelaxFold!Iterates, RelaxOf
<1> HIDE DEF iter, end
<1>5. PICK f : RelaxFold!IsRun(f, to, b, rows, n) /\ end = f[n]
  <2> HIDE DEF n
  <2> QED
    BY <1>1, <1>2, <1>3, <1>4, RelaxFold!FoldRuns
<1> QED
  BY <1>5 DEF end, RelaxFold!IsRun, RelaxOf

LEMMA RelaxesAll ==
  ASSUME NEW graph, WellFormed(graph), NEW from, NEW to, NEW u, NEW b,
         Relaxing(graph, from, to, u, {}, b), NEW rows \in Seq(RowsFrom(graph, u))
  PROVE  /\ Relaxing(graph, from, to, u, ToSet(rows), RelaxedBy(to, b, rows))
         /\ Unread(RelaxedBy(to, b, rows)) = Unread(b)
<1> DEFINE n == Len(rows)
           upto(i) == {rows[j] : j \in 1..i}
<1>1. n \in Nat /\ DOMAIN rows = 1..n /\ \A i \in 1..n : rows[i] \in Sourced(graph) /\ rows[i].src = u
  BY DEF RowsFrom
<1>2. PICK f : /\ f[0] = b /\ \A i \in 1..n : f[i] = Relax(to, f[i - 1], rows[i])
               /\ RelaxedBy(to, b, rows) = f[n]
  BY RelaxRuns
<1> DEFINE S == {i \in 0..n : Relaxing(graph, from, to, u, upto(i), f[i]) /\ Unread(f[i]) = Unread(b)}
<1>3. 0 \in S
  <2>1. upto(0) = {}
    OBVIOUS
  <2> HIDE DEF upto
  <2>2. Relaxing(graph, from, to, u, upto(0), f[0]) /\ Unread(f[0]) = Unread(b)
    BY <1>2, <2>1
  <2>3. 0 \in 0..n
    BY <1>1
  <2> QED
    BY <2>2, <2>3
<1>4. ASSUME NEW i \in 1..n, i - 1 \in S PROVE i \in S
  <2>1. upto(i) = upto(i - 1) \cup {rows[i]}
    BY <1>1
  <2>2. Relaxing(graph, from, to, u, upto(i - 1), f[i - 1]) /\ Unread(f[i - 1]) = Unread(b)
    BY <1>4
  <2> HIDE DEF upto
  <2>3. Relaxing(graph, from, to, u, upto(i - 1) \cup {rows[i]}, f[i]) /\ Unread(f[i]) = Unread(b)
    BY <1>1, <1>2, <2>2, RelaxTakes
  <2>4. Relaxing(graph, from, to, u, upto(i), f[i]) /\ i \in 0..n
    BY <1>1, <2>1, <2>3
  <2> QED
    BY <2>3, <2>4
<1>5. n \in S
  <2>1. n \in 0..n
    BY <1>1
  <2> HIDE DEF S, n
  <2> QED
    BY <1>1, <1>3, <1>4, <2>1, WithinFold!InductionUpTo
<1>6. upto(n) = ToSet(rows)
  BY <1>1 DEF ToSet
<1> QED
  BY <1>2, <1>5, <1>6

LEMMA TailOf ==
  ASSUME NEW X, NEW q \in Seq(X), q # <<>>
  PROVE  /\ Len(q) \in Nat \ {0} /\ DOMAIN q = 1..Len(q) /\ Head(q) = q[1] /\ Head(q) \in X
         /\ Tail(q) \in Seq(X) /\ Len(Tail(q)) = Len(q) - 1 /\ DOMAIN Tail(q) = 1..(Len(q) - 1)
         /\ \A i \in 1..(Len(q) - 1) : Tail(q)[i] = q[i + 1]
OBVIOUS

LEMMA PopSearches ==
  ASSUME NEW graph, WellFormed(graph), NEW from, NEW to, NEW b, Searching(graph, from, to, b),
         ~b.found, b.queue # <<>>, Head(b.queue) # to
  PROVE  /\ Relaxing(graph, from, to, Head(b.queue), {}, [b EXCEPT !.queue = Tail(@)])
         /\ Unread([b EXCEPT !.queue = Tail(@)]) = Unread(b) + 1
<1> DEFINE v == [b EXCEPT !.queue = Tail(@)]
           u == Head(b.queue)
           q == b.queue
<1>0. Traced(graph, from, b) /\ b.queue \in Seq(Seen(b))
  BY DEF Searching, Traced
<1>1. v = [queue |-> Tail(q), parent |-> b.parent, found |-> b.found] /\ b.found \in BOOLEAN
  BY <1>0 DEF Traced
<1> HIDE DEF v
<1>2. /\ v.queue = Tail(q) /\ v.parent = b.parent /\ ~v.found /\ Seen(v) = Seen(b)
      /\ v = [queue |-> v.queue, parent |-> v.parent, found |-> v.found] /\ v.found \in BOOLEAN
  BY <1>1 DEF Seen
<1>3. /\ Len(q) \in Nat \ {0} /\ DOMAIN q = 1..Len(q) /\ u = q[1] /\ u \in Seen(b)
      /\ Tail(q) \in Seq(Seen(b)) /\ Len(Tail(q)) = Len(q) - 1 /\ DOMAIN Tail(q) = 1..(Len(q) - 1)
      /\ \A i \in 1..(Len(q) - 1) : Tail(q)[i] = q[i + 1] /\ i + 1 \in 1..Len(q)
  BY <1>0, TailOf
<1> HIDE DEF q, u
<1>4. Traced(graph, from, v)
  BY <1>0, <1>2, <1>3 DEF Traced
<1>5. \A i \in 1..Len(q) : Dist(graph, from, q[i]) \in Nat
  BY <1>0, <1>3, DistIs DEF Traced, q
<1>6. Ordered(graph, from, q)
  BY DEF Searching, q
<1>7. Waiting(b) \subseteq Waiting(v) \cup {u}
  <2> SUFFICES ASSUME NEW i \in 1..Len(q), i # 1 PROVE q[i] \in Waiting(v)
    BY <1>3 DEF Waiting, q
  <2>1. i - 1 \in DOMAIN v.queue /\ v.queue[i - 1] = q[i]
    BY <1>2, <1>3
  <2> QED
    BY <2>1 DEF Waiting
<1>8. Ordered(graph, from, v.queue)
  <2> SUFFICES ASSUME NEW i \in DOMAIN v.queue, NEW j \in DOMAIN v.queue, i <= j
               PROVE  /\ Dist(graph, from, v.queue[i]) <= Dist(graph, from, v.queue[j])
                      /\ Dist(graph, from, v.queue[j]) <= Dist(graph, from, v.queue[i]) + 1
    BY DEF Ordered
  <2>1. /\ i + 1 \in DOMAIN q /\ j + 1 \in DOMAIN q /\ i + 1 <= j + 1
        /\ v.queue[i] = q[i + 1] /\ v.queue[j] = q[j + 1]
    BY <1>2, <1>3
  <2> QED
    BY <1>6, <2>1 DEF Ordered
<1>9. \A i \in DOMAIN v.queue : /\ Dist(graph, from, u) <= Dist(graph, from, v.queue[i])
                                /\ Dist(graph, from, v.queue[i]) <= Dist(graph, from, u) + 1
  <2> TAKE i \in DOMAIN v.queue
  <2>1. 1 \in DOMAIN q /\ i + 1 \in DOMAIN q /\ 1 <= i + 1 /\ v.queue[i] = q[i + 1]
    BY <1>2, <1>3
  <2> QED
    BY <1>3, <1>6, <2>1 DEF Ordered
<1>10. Far(graph, from, Dist(graph, from, u)) \subseteq Seen(v)
  <2>1. \A i \in 1..Len(q) : Dist(graph, from, u) <= Dist(graph, from, q[i])
    <3> TAKE i \in 1..Len(q)
    <3>1. 1 \in DOMAIN q /\ i \in DOMAIN q /\ 1 <= i
      BY <1>3
    <3> QED
      BY <1>3, <1>6, <3>1 DEF Ordered
  <2>2. Dist(graph, from, u) \in Nat
    BY <1>3, <1>5
  <2> QED
    BY <1>2, <1>3, <2>1, <2>2, SearchCovers DEF q
<1>11. to \in Seen(v) => to \in Waiting(v)
  BY <1>2, <1>7 DEF Searching, u
<1>12. \A s \in Seen(v) \ (Waiting(v) \cup {u}) : Spread(v, RowsFrom(graph, s))
  BY <1>2, <1>7 DEF Searching, Spread
<1>13. Relaxing(graph, from, to, u, {}, v)
  BY <1>2, <1>3, <1>4, <1>8, <1>9, <1>10, <1>11, <1>12 DEF Relaxing, Spread
<1>14. Unread(v) = Unread(b) + 1
  <2>1. IsFiniteSet(Seen(b))
    BY <1>0, FS_Subset DEF Traced, WellFormed
  <2>2. Cardinality(Seen(b)) \in Nat
    BY <2>1, FS_CardinalityType
  <2> QED
    BY <1>2, <1>3, <2>2 DEF Unread, q
<1> QED
  BY <1>13, <1>14 DEF v, u

LEMMA RoundIs ==
  ASSUME NEW graph, NEW to, NEW b
  PROVE  SearchRound(graph, to, b) =
            CASE b.found \/ b.queue = <<>> -> b
              [] ~b.found /\ b.queue # <<>> /\ Head(b.queue) = to -> [b EXCEPT !.found = TRUE]
              [] OTHER -> RelaxedBy(to, [b EXCEPT !.queue = Tail(@)], OutRows(graph, Head(b.queue)))
BY Zenon DEF SearchRound, RelaxedBy

LEMMA RoundSearches ==
  ASSUME NEW graph, WellFormed(graph), NEW from, NEW to, NEW b, Searching(graph, from, to, b)
  PROVE  /\ Searching(graph, from, to, SearchRound(graph, to, b))
         /\ \/ SearchRound(graph, to, b).found
            \/ SearchRound(graph, to, b).queue = <<>>
            \/ Unread(SearchRound(graph, to, b)) = Unread(b) + 1
<1> DEFINE v == SearchRound(graph, to, b)
           u == Head(b.queue)
<1>0. b.found \in BOOLEAN
  BY DEF Searching, Traced
<1>1. CASE b.found \/ b.queue = <<>>
  <2>1. v = b
    BY <1>0, <1>1, RoundIs
  <2> QED
    BY <1>1, <2>1
<1>2. CASE ~b.found /\ b.queue # <<>> /\ u = to
  <2>1. v = [b EXCEPT !.found = TRUE]
    BY <1>0, <1>2, RoundIs
  <2>2. v = [queue |-> b.queue, parent |-> b.parent, found |-> TRUE]
    BY <2>1 DEF Searching, Traced
  <2>3. to \in Seen(b) /\ b.queue \in Seq(Seen(b))
    BY <1>2, TailOf DEF Searching, Traced
  <2> HIDE DEF v
  <2>4. v.found /\ v.queue = b.queue /\ v.parent = b.parent /\ Seen(v) = Seen(b)
        /\ v = [queue |-> v.queue, parent |-> v.parent, found |-> v.found] /\ v.found \in BOOLEAN
    BY <2>2 DEF Seen
  <2>5. Traced(graph, from, v)
    BY <2>4 DEF Searching, Traced
  <2>6. Searching(graph, from, to, v)
    BY <2>3, <2>4, <2>5 DEF Searching
  <2> QED
    BY <2>4, <2>6 DEF v
<1>3. CASE ~b.found /\ b.queue # <<>> /\ u # to
  <2> DEFINE p == [b EXCEPT !.queue = Tail(@)]
             rows == OutRows(graph, u)
  <2>1. Relaxing(graph, from, to, u, {}, p) /\ Unread(p) = Unread(b) + 1
    BY <1>3, PopSearches
  <2>2. u \in Symbols(graph) /\ u # NoSource
    <3>1. u \in Seen(b)
      BY <1>3, TailOf DEF Searching, Traced
    <3> QED
      BY <3>1 DEF Searching, Traced, WellFormed, NoSource, NoSymbol
  <2>3. v = RelaxedBy(to, p, rows)
    BY <1>0, <1>3, RoundIs
  <2> HIDE DEF u, p, v
  <2>4. rows \in Seq(Rows(graph)) /\ ToSet(rows) = {e \in Rows(graph) : e.src = u}
    BY OutRowsAre DEF WellFormed
  <2>5. ToSet(rows) = RowsFrom(graph, u)
    BY <2>2, <2>4 DEF RowsFrom, Sourced
  <2> HIDE DEF rows
  <2>6. rows \in Seq(RowsFrom(graph, u))
    <3>1. /\ rows = [i \in 1..Len(rows) |-> rows[i]] /\ Len(rows) \in Nat
          /\ \A i \in 1..Len(rows) : rows[i] \in RowsFrom(graph, u)
      BY <2>4, <2>5 DEF ToSet
    <3> QED
      BY <3>1
  <2>7. Relaxing(graph, from, to, u, ToSet(rows), v) /\ Unread(v) = Unread(p)
    BY <2>1, <2>3, <2>6, RelaxesAll
  <2>8. \A s \in Seen(v) \ Waiting(v) : ~v.found => Spread(v, RowsFrom(graph, s))
    BY <2>5, <2>7 DEF Relaxing
  <2>9. Searching(graph, from, to, v)
    BY <2>7, <2>8 DEF Relaxing, Searching
  <2> QED
    BY <2>1, <2>7, <2>9 DEF v
<1> QED
  BY <1>1, <1>2, <1>3

RoundOf(c, b, i) == SearchRound(c[1], c[2], b)
BfsFold == INSTANCE FoldTheorems WITH Step <- RoundOf, Greatest <- Max

LEMMA BfsRuns ==
  ASSUME NEW graph, NEW to, NEW b, Cardinality(Symbols(graph)) \in Nat
  PROVE  \E f : /\ f[0] = b
                /\ \A i \in 1..Cardinality(Symbols(graph)) : f[i] = SearchRound(graph, to, f[i - 1])
                /\ Bfs(graph, to, b) = f[Cardinality(Symbols(graph))]
<1> DEFINE n == Cardinality(Symbols(graph))
           c == <<graph, to>>
           s == UpTo(n)
           end == Bfs(graph, to, b)
           iter == CHOOSE iter : BfsFold!Iterates(iter, c, b, s, DOMAIN s)
<1>1. n \in Nat /\ DOMAIN s = 1..n
  BY DEF UpTo
<1>2. BfsFold!GreatestUpTo(n)
  BY <1>1, MaxIsGreatest DEF BfsFold!GreatestUpTo
<1>3. BfsFold!Iterates(iter, c, b, s, DOMAIN s)
  <2>1. \E it : BfsFold!Iterates(it, c, b, s, 1..n)
    <3> HIDE DEF n, c
    <3> QED
      BY <1>1, <1>2, BfsFold!IterationExists
  <2> HIDE DEF n, c
  <2> QED
    BY <1>1, <2>1
<1>4. end = iter[DOMAIN s]
  BY DEF Bfs, FoldLeft, MapThenFoldSet, BfsFold!Iterates, RoundOf
<1> HIDE DEF iter, end
<1>5. PICK f : BfsFold!IsRun(f, c, b, s, n) /\ end = f[n]
  <2> HIDE DEF n, c, s
  <2> QED
    BY <1>1, <1>2, <1>3, <1>4, BfsFold!FoldRuns
<1>6. f[0] = b /\ \A i \in 1..n : f[i] = SearchRound(graph, to, f[i - 1])
  BY <1>5 DEF BfsFold!IsRun, RoundOf
<1> QED
  BY <1>5, <1>6 DEF end

PathStart(from) == [queue |-> <<from>>, parent |-> [s \in {from} |-> NoSource], found |-> FALSE]

LEMMA StartSearches ==
  ASSUME NEW graph, WellFormed(graph), NEW from \in Symbols(graph), NEW to
  PROVE  Searching(graph, from, to, PathStart(from)) /\ Unread(PathStart(from)) = 0
<1> DEFINE b == PathStart(from)
<1>1. /\ b.queue = <<from>> /\ Seen(b) = {from} /\ ~b.found /\ Len(b.queue) = 1
      /\ b = [queue |-> b.queue, parent |-> b.parent, found |-> b.found] /\ b.found \in BOOLEAN
  BY DEF PathStart, Seen
<1> HIDE DEF b
<1>2. b.queue \in Seq({from}) /\ DOMAIN b.queue = {1} /\ b.queue[1] = from
  BY <1>1
<1>3. Waiting(b) = {from}
  BY <1>2 DEF Waiting
<1>4. Traced(graph, from, b)
  BY <1>1, <1>2, DistStart DEF Traced
<1>5. Ordered(graph, from, b.queue)
  BY <1>2, DistStart DEF Ordered
<1>6. Searching(graph, from, to, b)
  BY <1>1, <1>3, <1>4, <1>5 DEF Searching
<1>7. Unread(b) = 0
  BY <1>1, FS_Singleton DEF Unread
<1> QED
  BY <1>6, <1>7 DEF b

LEMMA BfsEnds ==
  ASSUME NEW graph, WellFormed(graph), NEW from \in Symbols(graph), NEW to
  PROVE  /\ Searching(graph, from, to, Bfs(graph, to, PathStart(from)))
         /\ Bfs(graph, to, PathStart(from)).found \/ Bfs(graph, to, PathStart(from)).queue = <<>>
<1> DEFINE n == Cardinality(Symbols(graph))
           Ends(b) == b.found \/ b.queue = <<>>
<1>1. IsFiniteSet(Symbols(graph)) /\ n \in Nat
  BY FS_CardinalityType DEF WellFormed
<1>2. PICK f : /\ f[0] = PathStart(from) /\ \A i \in 1..n : f[i] = SearchRound(graph, to, f[i - 1])
               /\ Bfs(graph, to, PathStart(from)) = f[n]
  BY <1>1, BfsRuns
<1> DEFINE S == {i \in 0..n : Searching(graph, from, to, f[i]) /\ (Ends(f[i]) \/ Unread(f[i]) = i)}
<1>3. 0 \in S
  <2>1. 0 \in 0..n /\ Searching(graph, from, to, f[0]) /\ Unread(f[0]) = 0
    BY <1>1, <1>2, StartSearches
  <2> QED
    BY <2>1
<1>4. ASSUME NEW i \in 1..n, i - 1 \in S PROVE i \in S
  <2> DEFINE b == f[i - 1]
             v == f[i]
  <2>1. Searching(graph, from, to, b) /\ (Ends(b) \/ Unread(b) = i - 1) /\ v = SearchRound(graph, to, b)
    BY <1>2, <1>4
  <2> HIDE DEF b, v
  <2>2. Searching(graph, from, to, v) /\ (Ends(v) \/ Unread(v) = Unread(b) + 1)
    BY <2>1, RoundSearches
  <2>3. Ends(b) => v = b
    BY <2>1, RoundIs DEF Searching, Traced
  <2>4. Ends(v) \/ Unread(v) = i
    <3> HIDE DEF Ends
    <3> QED
      BY <2>1, <2>2, <2>3
  <2>5. i \in 0..n
    BY <1>1
  <2> QED
    BY <2>2, <2>4, <2>5 DEF v
<1>5. n \in S
  <2>1. n \in 0..n
    BY <1>1
  <2> HIDE DEF S, n
  <2> QED
    BY <1>1, <1>3, <1>4, <2>1, WithinFold!InductionUpTo
<1> DEFINE e == f[n]
<1>6. Searching(graph, from, to, e) /\ (Ends(e) \/ Unread(e) = n)
  BY <1>5
<1> HIDE DEF e
<1>7. Ends(e)
  <2>1. Seen(e) \subseteq Symbols(graph) /\ e.queue \in Seq(Seen(e))
    BY <1>6 DEF Searching, Traced
  <2>2. Cardinality(Seen(e)) \in Nat /\ Cardinality(Seen(e)) <= n
    BY <1>1, <2>1, FS_Subset, FS_CardinalityType
  <2>3. Unread(e) = n => Len(e.queue) = 0
    BY <1>1, <2>1, <2>2 DEF Unread
  <2> QED
    BY <1>6, <2>1, <2>3
<1> QED
  BY <1>2, <1>6, <1>7 DEF e

(* It finds the other end exactly when some number of edges leads there *)
LEMMA BfsFinds ==
  ASSUME NEW graph, WellFormed(graph), NEW from \in Symbols(graph), NEW to
  PROVE  Bfs(graph, to, PathStart(from)).found <=> to \in Far(graph, from, Cardinality(Symbols(graph)))
<1> DEFINE n == Cardinality(Symbols(graph))
           b == Bfs(graph, to, PathStart(from))
<1>1. IsFiniteSet(Symbols(graph)) /\ n \in Nat
  BY FS_CardinalityType DEF WellFormed
<1>2. Searching(graph, from, to, b) /\ (b.found \/ b.queue = <<>>)
  BY BfsEnds
<1> HIDE DEF b
<1>3. ASSUME b.found PROVE to \in Far(graph, from, n)
  <2>1. Reaches(graph, from, to)
    BY <1>2, <1>3 DEF Searching, Traced
  <2>2. PICK d \in Nat : to \in Far(graph, from, d)
    BY <2>1 DEF Reaches
  <2>3. Closed(Onward(graph), Symbols(graph))
    <3> SUFFICES ASSUME NEW p \in Onward(graph) PROVE p[2] \in Symbols(graph)
      BY DEF Closed
    <3>1. PICK e \in Sourced(graph) : p = <<e.src, e.tgt>>
      BY OnwardAre
    <3> QED
      BY <3>1 DEF WellFormed, Sourced
  <2>4. Closed(Onward(graph), Within(Onward(graph), {from}, n))
    BY <1>1, <2>3, WithinCloses
  <2>5. CASE d <= n
    BY <1>1, <2>2, <2>5, FarGrows
  <2>6. CASE n <= d
    BY <1>1, <2>2, <2>4, <2>6, WithinSettles DEF Far
  <2> QED
    BY <1>1, <2>5, <2>6
<1>4. ASSUME ~b.found PROVE to \notin Far(graph, from, n)
  <2>1. Waiting(b) = {}
    BY <1>2, <1>4 DEF Waiting
  <2>2. to \notin Seen(b) /\ \A s \in Seen(b) : Spread(b, RowsFrom(graph, s))
    BY <1>2, <1>4, <2>1 DEF Searching
  <2>3. Closed(Onward(graph), Seen(b))
    <3> SUFFICES ASSUME NEW p \in Onward(graph), p[1] \in Seen(b) PROVE p[2] \in Seen(b)
      BY DEF Closed
    <3>1. PICK e \in Sourced(graph) : p = <<e.src, e.tgt>>
      BY OnwardAre
    <3> QED
      BY <2>2, <3>1 DEF Spread, RowsFrom
  <2>4. {from} \subseteq Seen(b)
    BY <1>2 DEF Searching, Traced
  <2>5. Far(graph, from, n) \subseteq Seen(b)
    BY <1>1, <2>3, <2>4, WithinStays DEF Far
  <2> QED
    BY <2>2, <2>5
<1> QED
  BY <1>3, <1>4 DEF b

----------------------------------------------------------------------------
(* The way back *)

(* A symbol that is d edges away was reached by way of d others *)
LEMMA DistBelow ==
  ASSUME NEW graph, WellFormed(graph), NEW from, NEW b, Traced(graph, from, b), NEW to \in Seen(b)
  PROVE  Dist(graph, from, to) + 1 <= Cardinality(Seen(b))
<1> DEFINE far(s) == Dist(graph, from, s)
           Passed(s, V) == /\ V \subseteq Seen(b) /\ IsFiniteSet(V) /\ Cardinality(V) = far(s) + 1
                           /\ \A x \in V : far(x) <= far(s)
           S == {d \in Nat : \A s \in Seen(b) : far(s) = d => \E V : Passed(s, V)}
<1>1. IsFiniteSet(Seen(b)) /\ \A s \in Seen(b) : far(s) \in Nat
  BY FS_Subset, DistIs DEF Traced, WellFormed
<1>2. 0 \in S
  <2> SUFFICES ASSUME NEW s \in Seen(b), far(s) = 0 PROVE \E V : Passed(s, V)
    OBVIOUS
  <2>0. IsFiniteSet({s}) /\ Cardinality({s}) = 1 /\ \A x \in {s} : x = s
    BY FS_Singleton
  <2>1. Passed(s, {s})
    <3> HIDE DEF far
    <3> QED
      BY <2>0
  <2> QED
    BY <2>1
<1>3. ASSUME NEW d \in Nat, d \in S PROVE d + 1 \in S
  <2> SUFFICES ASSUME NEW s \in Seen(b), far(s) = d + 1 PROVE \E V : Passed(s, V)
    OBVIOUS
  <2> DEFINE r == b.parent[s].src
  <2>1. s # from
    BY <1>3, DistStart
  <2>2. r \in Seen(b) /\ far(s) = far(r) + 1
    BY <2>1 DEF Traced
  <2> HIDE DEF r
  <2>3. far(r) = d
    BY <1>1, <2>2
  <2>4. PICK V : Passed(r, V)
    BY <1>3, <2>2, <2>3
  <2>5. s \notin V
    BY <1>1, <2>2, <2>3, <2>4
  <2>6. IsFiniteSet(V \cup {s}) /\ Cardinality(V \cup {s}) = d + 2
    BY <2>3, <2>4, <2>5, FS_AddElement
  <2>7. \A x \in V \cup {s} : far(x) <= far(s)
    BY <1>1, <2>2, <2>3, <2>4
  <2>8. Passed(s, V \cup {s})
    BY <2>4, <2>6, <2>7
  <2> HIDE DEF Passed
  <2> QED
    BY <2>8
<1>4. Nat \subseteq S
  <2> HIDE DEF S
  <2> QED
    BY <1>2, <1>3, WithinFold!Induction
<1>5. PICK V : Passed(to, V)
  <2> HIDE DEF Passed
  <2> QED
    BY <1>1, <1>4
<1>6. Cardinality(V) <= Cardinality(Seen(b))
  BY <1>1, <1>5, FS_Subset
<1> QED
  BY <1>5, <1>6

(* Part of the way back to from has been walked *)
WalkedBack(graph, from, to, b, t) ==
    /\ t = [at |-> t.at, path |-> t.path] /\ t.at \in Seen(b)
    /\ t.path \in Seq(Triples(Sourced(graph)))
    /\ Dist(graph, from, t.at) + Len(t.path) = Dist(graph, from, to)
    /\ \A j \in 1..Len(t.path) : t.path[j][1] = IF j = 1 THEN t.at ELSE t.path[j - 1][2]
    /\ (IF t.path = <<>> THEN t.at ELSE t.path[Len(t.path)][2]) = to

LEMMA PrependedIs ==
  ASSUME NEW X, NEW q \in Seq(X), NEW x \in X
  PROVE  /\ <<x>> \o q \in Seq(X) /\ Len(<<x>> \o q) = Len(q) + 1 /\ Len(q) \in Nat
         /\ (<<x>> \o q)[1] = x
         /\ \A j \in 2..(Len(q) + 1) : (<<x>> \o q)[j] = q[j - 1]
OBVIOUS

LEMMA BackKeeps ==
  ASSUME NEW graph, NEW from, NEW to, NEW b, Traced(graph, from, b),
         NEW t, WalkedBack(graph, from, to, b, t)
  PROVE  /\ WalkedBack(graph, from, to, b, TraceBack(b.parent, from, t))
         /\ t.at = from => TraceBack(b.parent, from, t) = t
         /\ t.at # from => Len(TraceBack(b.parent, from, t).path) = Len(t.path) + 1
<1> DEFINE v == TraceBack(b.parent, from, t)
<1>1. CASE t.at = from
  <2>1. v = t
    BY <1>1 DEF TraceBack
  <2> QED
    BY <1>1, <2>1
<1>2. CASE t.at # from
  <2> DEFINE e == b.parent[t.at]
             hop == <<e.src, t.at, e.kind>>
  <2>1. /\ e \in Sourced(graph) /\ e.tgt = t.at /\ e.src \in Seen(b)
        /\ Dist(graph, from, t.at) = Dist(graph, from, e.src) + 1
    BY <1>2 DEF WalkedBack, Traced
  <2>2. v = [at |-> e.src, path |-> <<hop>> \o t.path]
    BY <1>2 DEF TraceBack
  <2>3. hop \in Triples(Sourced(graph)) /\ hop[1] = e.src /\ hop[2] = t.at
    BY <2>1 DEF Triples
  <2> HIDE DEF e, hop, v
  <2>4. v.at = e.src /\ v.path = <<hop>> \o t.path /\ v = [at |-> v.at, path |-> v.path]
    BY <2>2
  <2>5. /\ v.path \in Seq(Triples(Sourced(graph))) /\ Len(v.path) = Len(t.path) + 1 /\ Len(t.path) \in Nat
        /\ v.path[1] = hop /\ \A j \in 2..(Len(t.path) + 1) : v.path[j] = t.path[j - 1]
    BY <2>3, <2>4, PrependedIs DEF WalkedBack
  <2>6. Dist(graph, from, e.src) \in Nat
    BY <2>1, DistIs DEF Traced
  <2>7. Dist(graph, from, v.at) + Len(v.path) = Dist(graph, from, to)
    BY <2>1, <2>4, <2>5, <2>6 DEF WalkedBack
  <2>8. \A j \in 1..Len(v.path) : v.path[j][1] = IF j = 1 THEN v.at ELSE v.path[j - 1][2]
    <3> TAKE j \in 1..Len(v.path)
    <3>1. CASE j = 1
      BY <2>3, <2>4, <2>5, <3>1
    <3>2. CASE j = 2
      <4>1. /\ 1 \in 1..Len(t.path) /\ 2 \in 2..(Len(t.path) + 1) /\ 2 - 1 = 1
        BY <2>5, <3>2
      <4>2. v.path[2] = t.path[1] /\ t.path[1][1] = t.at
        BY <2>5, <4>1 DEF WalkedBack
      <4> QED
        BY <2>3, <2>5, <3>2, <4>2
    <3>3. CASE j > 2
      <4>1. j - 1 \in 1..Len(t.path) /\ j - 1 # 1 /\ j \in 2..(Len(t.path) + 1) /\ j - 1 \in 2..(Len(t.path) + 1)
        BY <2>5, <3>3
      <4>2. v.path[j] = t.path[j - 1] /\ v.path[j - 1] = t.path[j - 1 - 1]
            /\ t.path[j - 1][1] = t.path[j - 1 - 1][2]
        BY <2>5, <4>1 DEF WalkedBack
      <4> QED
        BY <3>3, <4>2
    <3> QED
      BY <2>5, <3>1, <3>2, <3>3
  <2>9. (IF v.path = <<>> THEN v.at ELSE v.path[Len(v.path)][2]) = to
    <3>1. v.path # <<>>
      BY <2>5
    <3>2. CASE t.path = <<>>
      <4>1. Len(v.path) = 1 /\ t.at = to
        BY <2>5, <3>2 DEF WalkedBack
      <4> QED
        BY <2>3, <2>5, <3>1, <4>1
    <3>3. CASE t.path # <<>>
      <4>1. Len(t.path) # 0
        BY <3>3 DEF WalkedBack
      <4>2. Len(v.path) \in 2..(Len(t.path) + 1) /\ Len(v.path) - 1 = Len(t.path)
        BY <2>5, <4>1
      <4>3. v.path[Len(v.path)] = t.path[Len(t.path)] /\ t.path[Len(t.path)][2] = to
        BY <2>5, <3>3, <4>2 DEF WalkedBack
      <4> QED
        BY <3>1, <4>3
    <3> QED
      BY <3>2, <3>3
  <2>10. WalkedBack(graph, from, to, b, v)
    BY <2>1, <2>4, <2>5, <2>7, <2>8, <2>9 DEF WalkedBack
  <2> QED
    BY <1>2, <2>5, <2>10 DEF v
<1> QED
  BY <1>1, <1>2

BackOf(c, t, i) == TraceBack(c[1], c[2], t)
BackFold == INSTANCE FoldTheorems WITH Step <- BackOf, Greatest <- Max

LEMMA TraceRuns ==
  ASSUME NEW parent, NEW from, NEW to, Cardinality(DOMAIN parent) \in Nat
  PROVE  \E f : /\ f[0] = [at |-> to, path |-> <<>>]
                /\ \A i \in 1..Cardinality(DOMAIN parent) : f[i] = TraceBack(parent, from, f[i - 1])
                /\ Trace(parent, from, to) = f[Cardinality(DOMAIN parent)].path
<1> DEFINE n == Cardinality(DOMAIN parent)
           c == <<parent, from>>
           s == UpTo(n)
           b == [at |-> to, path |-> <<>>]
           end == Trace(parent, from, to)
           iter == CHOOSE iter : BackFold!Iterates(iter, c, b, s, DOMAIN s)
<1>1. n \in Nat /\ DOMAIN s = 1..n
  BY DEF UpTo
<1>2. BackFold!GreatestUpTo(n)
  BY <1>1, MaxIsGreatest DEF BackFold!GreatestUpTo
<1>3. BackFold!Iterates(iter, c, b, s, DOMAIN s)
  <2>1. \E it : BackFold!Iterates(it, c, b, s, 1..n)
    <3> HIDE DEF n, c, b
    <3> QED
      BY <1>1, <1>2, BackFold!IterationExists
  <2> HIDE DEF n, c, b
  <2> QED
    BY <1>1, <2>1
<1>4. end = iter[DOMAIN s].path
  BY DEF Trace, FoldLeft, MapThenFoldSet, BackFold!Iterates, BackOf
<1> HIDE DEF iter, end
<1>5. PICK f : BackFold!IsRun(f, c, b, s, n) /\ iter[DOMAIN s] = f[n]
  <2> HIDE DEF n, c, s, b
  <2> QED
    BY <1>1, <1>2, <1>3, BackFold!FoldRuns
<1>6. f[0] = b /\ \A i \in 1..n : f[i] = TraceBack(parent, from, f[i - 1])
  BY <1>5 DEF BackFold!IsRun, BackOf
<1> QED
  BY <1>4, <1>5, <1>6 DEF end

LEMMA TraceIs ==
  ASSUME NEW graph, WellFormed(graph), NEW from, NEW b, Traced(graph, from, b), NEW to \in Seen(b), NEW path,
         path = Trace(b.parent, from, to)
  PROVE  /\ path \in Seq(Triples(Sourced(graph))) /\ Len(path) = Dist(graph, from, to)
         /\ \A j \in 1..Len(path) : path[j][1] = IF j = 1 THEN from ELSE path[j - 1][2]
         /\ (IF path = <<>> THEN from ELSE path[Len(path)][2]) = to
<1> DEFINE n == Cardinality(Seen(b))
<1>1. n \in Nat /\ DOMAIN b.parent = Seen(b)
  BY FS_Subset, FS_CardinalityType DEF Traced, WellFormed, Seen
<1>2. PICK f : /\ f[0] = [at |-> to, path |-> <<>>]
               /\ \A i \in 1..n : f[i] = TraceBack(b.parent, from, f[i - 1])
               /\ path = f[n].path
  BY <1>1, TraceRuns
<1> DEFINE S == {i \in 0..n : /\ WalkedBack(graph, from, to, b, f[i])
                              /\ f[i].at = from \/ Len(f[i].path) = i}
<1>3. 0 \in S
  <2>1. /\ f[0].at = to /\ f[0].path = <<>> /\ f[0] = [at |-> f[0].at, path |-> f[0].path]
        /\ Len(f[0].path) = 0 /\ f[0].path \in Seq(Triples(Sourced(graph))) /\ 0 \in 0..n
    BY <1>1, <1>2
  <2>2. Dist(graph, from, to) \in Nat
    BY DistIs DEF Traced
  <2>3. WalkedBack(graph, from, to, b, f[0])
    BY <2>1, <2>2 DEF WalkedBack
  <2> QED
    BY <2>1, <2>3
<1>4. ASSUME NEW i \in 1..n, i - 1 \in S PROVE i \in S
  <2> DEFINE t == f[i - 1]
             v == f[i]
  <2>1. WalkedBack(graph, from, to, b, t) /\ (t.at = from \/ Len(t.path) = i - 1)
        /\ v = TraceBack(b.parent, from, t)
    BY <1>2, <1>4
  <2> HIDE DEF t, v
  <2>2. WalkedBack(graph, from, to, b, v) /\ (v.at = from \/ Len(v.path) = i)
    BY <2>1, BackKeeps
  <2>3. i \in 0..n
    BY <1>1
  <2> QED
    BY <2>2, <2>3 DEF v
<1>5. n \in S
  <2>1. n \in 0..n
    BY <1>1
  <2> HIDE DEF S, n
  <2> QED
    BY <1>1, <1>3, <1>4, <2>1, WithinFold!InductionUpTo
<1> DEFINE t == f[n]
<1>6. WalkedBack(graph, from, to, b, t) /\ (t.at = from \/ Len(t.path) = n) /\ path = t.path
  BY <1>2, <1>5
<1> HIDE DEF t
<1>7. Dist(graph, from, to) \in Nat /\ Dist(graph, from, t.at) \in Nat /\ Dist(graph, from, to) + 1 <= n
  BY <1>6, DistIs, DistBelow DEF Traced, WalkedBack
<1>8. t.at = from
  BY <1>1, <1>6, <1>7 DEF WalkedBack
<1> QED
  BY <1>6, <1>8, DistStart DEF WalkedBack

(* What shortest_path answers about two symbols *)
Shortest(graph, from, to, r) ==
    /\ r.found <=> to \in Far(graph, from, Cardinality(Symbols(graph)))
    /\ r.found => /\ r.distance = Len(r.edges) /\ r.edges \in Seq(Triples(Sourced(graph)))
                  /\ to \in Far(graph, from, r.distance)
                  /\ r.distance > 0 => to \notin Far(graph, from, r.distance - 1)
                  /\ \A j \in 1..Len(r.edges) : r.edges[j][1] = IF j = 1 THEN from ELSE r.edges[j - 1][2]
                  /\ (IF r.edges = <<>> THEN from ELSE r.edges[Len(r.edges)][2]) = to

LEMMA PathIs ==
  ASSUME NEW graph, WellFormed(graph), NEW slices, NEW from, NEW to,
         {from, to} \subseteq Symbols(graph) \cup {NoSymbol}
  PROVE  LET r == ShortestPath(graph, slices, from, to)
         IN  /\ r.missing <=> NoSymbol \in {from, to}
             /\ ~r.missing => Shortest(graph, from, to, r)
<1> DEFINE r == ShortestPath(graph, slices, from, to)
           b == Bfs(graph, to, PathStart(from))
           path == Trace(b.parent, from, to)
           one == IF from = NoSymbol THEN NoSymbol ELSE SuggestedConnector(graph, slices, from)
           other == SuggestedConnector(graph, slices, from)
<1>1. r = CASE NoSymbol \in {from, to} -> [NoPath EXCEPT !.missing = TRUE, !.connector = one]
            [] NoSymbol \notin {from, to} /\ ~b.found -> [NoPath EXCEPT !.connector = other]
            [] OTHER -> [NoPath EXCEPT !.found = TRUE, !.distance = Len(path), !.edges = path]
  BY Zenon DEF ShortestPath, PathStart
<1> HIDE DEF r, b, path, one, other
<1>2. CASE NoSymbol \in {from, to}
  BY <1>1, <1>2 DEF r, NoPath
<1>3. CASE NoSymbol \notin {from, to}
  <2>1. from \in Symbols(graph) /\ to \in Symbols(graph)
    BY <1>3
  <2>2. Searching(graph, from, to, b) /\ b.found \in BOOLEAN
    BY <2>1, BfsEnds DEF b, Searching, Traced
  <2>3. b.found <=> to \in Far(graph, from, Cardinality(Symbols(graph)))
    BY <2>1, BfsFinds DEF b
  <2>4. CASE ~b.found
    BY <1>1, <1>3, <2>3, <2>4 DEF r, NoPath, Shortest
  <2>5. CASE b.found
    <3>1. r.found /\ ~r.missing /\ r.distance = Len(path) /\ r.edges = path
      BY <1>1, <1>3, <2>5 DEF NoPath
    <3>2. Traced(graph, from, b) /\ to \in Seen(b)
      BY <2>2, <2>5 DEF Searching
    <3>3. /\ path \in Seq(Triples(Sourced(graph))) /\ Len(path) = Dist(graph, from, to)
          /\ \A j \in 1..Len(path) : path[j][1] = IF j = 1 THEN from ELSE path[j - 1][2]
          /\ (IF path = <<>> THEN from ELSE path[Len(path)][2]) = to
      BY <3>2, TraceIs DEF path
    <3> DEFINE d == Dist(graph, from, to)
    <3>4. d \in Nat /\ \A n \in Nat : to \in Far(graph, from, n) <=> d <= n
      BY <3>2, DistIs DEF Traced
    <3> HIDE DEF d
    <3>5. to \in Far(graph, from, d) /\ (d > 0 => to \notin Far(graph, from, d - 1))
      BY <3>4
    <3>6. Shortest(graph, from, to, r)
      BY <2>3, <2>5, <3>1, <3>3, <3>5 DEF Shortest, d
    <3> QED
      BY <1>3, <3>1, <3>6 DEF r
  <2> QED
    BY <2>4, <2>5
<1> QED
  BY <1>2, <1>3

----------------------------------------------------------------------------
(* The lowest of a set of numbers *)

LEMMA GreatestExists ==
  ASSUME NEW T, T \subseteq Nat, IsFiniteSet(T), T # {}
  PROVE  \E m \in T : \A x \in T : x <= m
<1> DEFINE Tops(U) == \E m \in U : \A x \in U : x <= m
           S == {n \in Nat : \A U \in SUBSET Nat : IsFiniteSet(U) /\ Cardinality(U) = n + 1 => Tops(U)}
<1>1. ASSUME NEW U \in SUBSET Nat, NEW n \in Nat, IsFiniteSet(U), Cardinality(U) = n + 1,
             NEW u \in U, U = {u} \/ Tops(U \ {u})
      PROVE  Tops(U)
  <2>1. CASE U = {u}
    BY <2>1
  <2>2. CASE Tops(U \ {u})
    <3>1. PICK m \in U \ {u} : \A x \in U \ {u} : x <= m
      BY <2>2
    <3>2. CASE u <= m
      BY <3>1, <3>2
    <3>3. CASE m <= u
      BY <3>1, <3>3
    <3> QED
      BY <3>2, <3>3
  <2> QED
    BY <1>1, <2>1, <2>2
<1>2. 0 \in S
  <2> SUFFICES ASSUME NEW U \in SUBSET Nat, IsFiniteSet(U), Cardinality(U) = 1 PROVE Tops(U)
    OBVIOUS
  <2>1. PICK u : U = {u}
    BY FS_Singleton
  <2> QED
    BY <1>1, <2>1
<1>3. ASSUME NEW n \in Nat, n \in S PROVE n + 1 \in S
  <2> SUFFICES ASSUME NEW U \in SUBSET Nat, IsFiniteSet(U), Cardinality(U) = n + 2 PROVE Tops(U)
    OBVIOUS
  <2>1. PICK u : u \in U
    BY FS_EmptySet
  <2>2. IsFiniteSet(U \ {u}) /\ Cardinality(U \ {u}) = n + 1
    BY <2>1, FS_RemoveElement
  <2>3. Tops(U \ {u})
    <3> HIDE DEF Tops
    <3> QED
      BY <1>3, <2>2
  <2>4. n + 1 \in Nat /\ Cardinality(U) = (n + 1) + 1
    OBVIOUS
  <2> HIDE DEF Tops
  <2> QED
    BY <1>1, <2>1, <2>3, <2>4
<1>4. Nat \subseteq S
  <2> HIDE DEF S
  <2> QED
    BY <1>2, <1>3, WithinFold!Induction
<1>5. Cardinality(T) - 1 \in Nat /\ Cardinality(T) = (Cardinality(T) - 1) + 1
  BY FS_CardinalityType, FS_EmptySet
<1> QED
  BY <1>4, <1>5

LEMMA SmallestFew ==
  ASSUME NEW U, U \subseteq Nat, IsFiniteSet(U), NEW n \in Nat
  PROVE  Smallest(U, n) \subseteq U /\ IsFiniteSet(Smallest(U, n)) /\ Cardinality(Smallest(U, n)) <= n
<1> DEFINE T == Smallest(U, n)
<1>1. T \subseteq U /\ IsFiniteSet(T) /\ Cardinality(T) \in Nat
  BY FS_Subset, FS_CardinalityType DEF Smallest
<1>2. CASE T = {}
  BY <1>1, <1>2, FS_EmptySet
<1>3. CASE T # {}
  <2>1. T \subseteq Nat
    BY <1>1
  <2> HIDE DEF T
  <2>2. PICK m \in T : \A x \in T : x <= m
    BY <1>1, <1>3, <2>1, GreatestExists
  <2> DEFINE L == {y \in U : y < m}
  <2>3. IsFiniteSet(L) /\ Cardinality(L) \in Nat /\ Cardinality(L) < n
    <3>1. Cardinality(L) < n
      BY <2>2 DEF T, Smallest
    <3>2. IsFiniteSet(L)
      BY FS_Subset
    <3> QED
      BY <3>1, <3>2, FS_CardinalityType
  <2>4. T \ {m} \subseteq L
    BY <1>1, <2>1, <2>2
  <2> HIDE DEF L
  <2>5. Cardinality(T \ {m}) = Cardinality(T) - 1 /\ Cardinality(T \ {m}) <= Cardinality(L)
    BY <1>1, <2>2, <2>3, <2>4, FS_RemoveElement, FS_Subset
  <2> QED
    BY <1>1, <2>3, <2>5 DEF T
<1> QED
  BY <1>2, <1>3

----------------------------------------------------------------------------
(* discover_subsystem *)

LEMMA FilesOfFinite ==
  ASSUME NEW graph, WellFormed(graph), NEW symbols
  PROVE  IsFiniteSet(FilesOf(graph, symbols)) /\ FilesOf(graph, symbols) \subseteq Nat
<1> DEFINE X == symbols \cap Symbols(graph)
           f == [s \in X |-> FileAt(graph, s)]
<1>1. IsFiniteSet(X)
  BY FS_Subset DEF WellFormed
<1>2. f \in Surjection(X, FilesOf(graph, symbols))
  BY DEF Surjection, FilesOf
<1>3. FilesOf(graph, symbols) \subseteq Nat
  BY DEF FilesOf, WellFormed
<1> QED
  BY <1>1, <1>2, <1>3, FS_Surjection

Both(graph) == Steps(Sourced(graph), TRUE, TRUE)

(* What a match is after some hops *)
Matched(graph, seeds, n, m) ==
    /\ m = [symbols |-> m.symbols, files |-> m.files, frontier |-> m.frontier, truncated |-> m.truncated]
    /\ m.truncated \in BOOLEAN
    /\ m.symbols \subseteq Symbols(graph) /\ m.files = FilesOf(graph, m.symbols)
    /\ m.frontier \subseteq m.symbols /\ seeds \subseteq m.symbols
    /\ m.symbols \subseteq Within(Both(graph), seeds, n)

LEMMA CandidatesNear ==
  ASSUME NEW graph, WellFormed(graph), NEW seeds, NEW n \in Nat, NEW m, Matched(graph, seeds, n, m)
  PROVE  \A c \in Candidates(graph, m) : c \in Symbols(graph) /\ c \in Within(Both(graph), seeds, n + 1)
<1> SUFFICES ASSUME NEW c \in Candidates(graph, m)
             PROVE  c \in Symbols(graph) /\ c \in Within(Both(graph), seeds, n + 1)
  OBVIOUS
<1>0. /\ NoSource \notin Symbols(graph) /\ m.frontier \subseteq Symbols(graph)
      /\ m.frontier \subseteq Within(Both(graph), seeds, n)
  BY DEF WellFormed, Matched, NoSource, NoSymbol
<1>1. \/ \E e \in Rows(graph) : e.src \in m.frontier /\ c = e.tgt
      \/ \E e \in Rows(graph) : e.tgt \in m.frontier /\ c = e.src /\ c # NoSource
  BY DEF Candidates
<1>2. ASSUME NEW e \in Rows(graph), e.src \in m.frontier, c = e.tgt
      PROVE  c \in Symbols(graph) /\ c \in Within(Both(graph), seeds, n + 1)
  <2> DEFINE p == <<e.src, e.tgt>>
  <2>1. e \in Sourced(graph) /\ c \in Symbols(graph)
    BY <1>0, <1>2 DEF Sourced, WellFormed
  <2>2. p \in Both(graph) /\ p[1] = e.src /\ p[2] = e.tgt
    BY <2>1 DEF Both, Steps
  <2> HIDE DEF p
  <2> QED
    BY <1>0, <1>2, <2>1, <2>2, WithinNext
<1>3. ASSUME NEW e \in Rows(graph), e.tgt \in m.frontier, c = e.src, c # NoSource
      PROVE  c \in Symbols(graph) /\ c \in Within(Both(graph), seeds, n + 1)
  <2> DEFINE p == <<e.tgt, e.src>>
  <2>1. e \in Sourced(graph) /\ c \in Symbols(graph)
    BY <1>0, <1>3 DEF Sourced, WellFormed
  <2>2. p \in Both(graph) /\ p[1] = e.tgt /\ p[2] = e.src
    BY <2>1 DEF Both, Steps
  <2> HIDE DEF p
  <2> QED
    BY <1>0, <1>3, <2>1, <2>2, WithinNext
<1> QED
  BY <1>1, <1>2, <1>3

LEMMA HopMatches ==
  ASSUME NEW graph, WellFormed(graph), NEW seeds, NEW n \in Nat, NEW m, Matched(graph, seeds, n, m)
  PROVE  Matched(graph, seeds, n + 1, HopOn(graph, m))
<1> DEFINE v == HopOn(graph, m)
           joined == {c \in Candidates(graph, m) : Cohesive(graph, m, c)}
<1>1. Within(Both(graph), seeds, n) \subseteq Within(Both(graph), seeds, n + 1)
  BY WithinNext
<1>2. joined \subseteq Symbols(graph) /\ joined \subseteq Within(Both(graph), seeds, n + 1)
  BY CandidatesNear
<1>3. \/ v = [symbols |-> m.symbols, files |-> m.files, frontier |-> m.frontier, truncated |-> m.truncated]
      \/ v = [symbols |-> m.symbols, files |-> m.files, frontier |-> m.frontier, truncated |-> TRUE]
      \/ v = [symbols |-> m.symbols \cup joined, files |-> m.files \cup FilesOf(graph, joined),
              frontier |-> joined, truncated |-> m.truncated]
  <2>1. v = m \/ v = [m EXCEPT !.truncated = TRUE] \/ v = Hop(graph, m)
    BY DEF HopOn
  <2> HIDE DEF v
  <2> QED
    BY <2>1 DEF Matched, Hop
<1> HIDE DEF v, joined
<1>4. FilesOf(graph, m.symbols \cup joined) = FilesOf(graph, m.symbols) \cup FilesOf(graph, joined)
  BY DEF FilesOf
<1>5. ASSUME NEW cut \in BOOLEAN,
             v = [symbols |-> m.symbols, files |-> m.files, frontier |-> m.frontier, truncated |-> cut]
      PROVE  Matched(graph, seeds, n + 1, v)
  <2>1. /\ v.symbols = m.symbols /\ v.files = m.files /\ v.frontier = m.frontier /\ v.truncated = cut
        /\ v = [symbols |-> v.symbols, files |-> v.files, frontier |-> v.frontier, truncated |-> v.truncated]
    BY <1>5
  <2> QED
    BY <1>1, <2>1 DEF Matched
<1>6. ASSUME v = [symbols |-> m.symbols \cup joined, files |-> m.files \cup FilesOf(graph, joined),
              frontier |-> joined, truncated |-> m.truncated]
      PROVE  Matched(graph, seeds, n + 1, v)
  <2>1. /\ v.symbols = m.symbols \cup joined /\ v.files = m.files \cup FilesOf(graph, joined)
        /\ v.frontier = joined /\ v.truncated = m.truncated
        /\ v = [symbols |-> v.symbols, files |-> v.files, frontier |-> v.frontier, truncated |-> v.truncated]
    BY <1>6
  <2>2. Matched(graph, seeds, n + 1, v)
    BY <1>1, <1>2, <1>4, <2>1 DEF Matched
  <2> QED
    BY <2>2
<1>7. m.truncated \in BOOLEAN
  BY DEF Matched
<1>8. Matched(graph, seeds, n + 1, v)
  BY <1>3, <1>5, <1>6, <1>7
<1> QED
  BY <1>8 DEF v

HopOf(c, m, i) == HopOn(c, m)
HopFold == INSTANCE FoldTheorems WITH Step <- HopOf, Greatest <- Max

LEMMA ExpandRuns ==
  ASSUME NEW graph, NEW m, NEW n \in Nat
  PROVE  \E f : /\ f[0] = m /\ \A i \in 1..n : f[i] = HopOn(graph, f[i - 1])
                /\ Expand(graph, m, n) = f[n]
<1> DEFINE s == UpTo(n)
           end == Expand(graph, m, n)
           iter == CHOOSE iter : HopFold!Iterates(iter, graph, m, s, DOMAIN s)
<1>1. DOMAIN s = 1..n
  BY DEF UpTo
<1>2. HopFold!GreatestUpTo(n)
  BY <1>1, MaxIsGreatest DEF HopFold!GreatestUpTo
<1>3. HopFold!Iterates(iter, graph, m, s, DOMAIN s)
  <2>1. \E it : HopFold!Iterates(it, graph, m, s, 1..n)
    BY <1>1, <1>2, HopFold!IterationExists
  <2> QED
    BY <1>1, <2>1
<1>4. end = iter[DOMAIN s]
  BY DEF Expand, FoldLeft, MapThenFoldSet, HopFold!Iterates, HopOf
<1> HIDE DEF iter, end
<1>5. PICK f : HopFold!IsRun(f, graph, m, s, n) /\ end = f[n]
  <2> HIDE DEF s
  <2> QED
    BY <1>1, <1>2, <1>3, <1>4, HopFold!FoldRuns
<1>6. f[0] = m /\ \A i \in 1..n : f[i] = HopOn(graph, f[i - 1])
  BY <1>5 DEF HopFold!IsRun, HopOf
<1> QED
  BY <1>5, <1>6 DEF end

LEMMA ExpandMatches ==
  ASSUME NEW graph, WellFormed(graph), NEW seeds, NEW n \in Nat, NEW m, Matched(graph, seeds, 0, m)
  PROVE  Matched(graph, seeds, n, Expand(graph, m, n))
<1>1. PICK f : /\ f[0] = m /\ \A i \in 1..n : f[i] = HopOn(graph, f[i - 1])
               /\ Expand(graph, m, n) = f[n]
  BY ExpandRuns
<1> DEFINE S == {i \in 0..n : Matched(graph, seeds, i, f[i])}
<1>2. 0 \in S
  BY <1>1
<1>3. ASSUME NEW i \in 1..n, i - 1 \in S PROVE i \in S
  <2>1. i - 1 \in Nat /\ (i - 1) + 1 = i /\ i \in 0..n /\ Matched(graph, seeds, i - 1, f[i - 1])
    BY <1>3
  <2>2. Matched(graph, seeds, (i - 1) + 1, f[i])
    BY <1>1, <2>1, HopMatches
  <2> QED
    BY <2>1, <2>2
<1>4. n \in S
  <2>1. n \in 0..n
    OBVIOUS
  <2> HIDE DEF S
  <2> QED
    BY <1>2, <1>3, <2>1, WithinFold!InductionUpTo
<1> QED
  BY <1>1, <1>4

(* A group of linked files grows along the links, and stays among the files *)
LEMMA GroupsStay ==
  ASSUME NEW graph, NEW m, NEW f \in m.files, Cardinality(m.files) \in Nat
  PROVE  Grow(FileLinks(graph, m), {f}, m.files) \subseteq m.files
<1> DEFINE links == FileLinks(graph, m)
<1>1. Grow(links, {f}, m.files) = Within(links, {f}, Cardinality(m.files))
  BY Zenon DEF Grow, Joined, Within
<1>2. Closed(links, m.files)
  <2> SUFFICES ASSUME NEW p \in links PROVE p[2] \in m.files
    BY DEF Closed
  <2>1. PICK r \in Rows(graph) : /\ {r.file, FileAt(graph, r.tgt)} \subseteq m.files
                                 /\ p \in {<<r.file, FileAt(graph, r.tgt)>>, <<FileAt(graph, r.tgt), r.file>>}
    BY DEF FileLinks
  <2> QED
    BY <2>1
<1> HIDE DEF links
<1> QED
  BY <1>1, <1>2, WithinStays DEF links

LEMMA KeptMatches ==
  ASSUME NEW graph, WellFormed(graph), NEW seeds, NEW n, NEW m, Matched(graph, seeds, n, m)
  PROVE  LET k == KeepFiles(graph, m)
         IN  /\ k.symbols \subseteq m.symbols /\ k.files = FilesOf(graph, k.symbols)
             /\ IsFiniteSet(k.files) /\ Cardinality(k.files) <= MaxSubsystemFiles
             /\ ~k.truncated => k.symbols = m.symbols
<1> DEFINE k == KeepFiles(graph, m)
           kept == Smallest(m.files, MaxSubsystemFiles)
           symbols == {s \in m.symbols \cap Symbols(graph) : FileAt(graph, s) \in kept}
<1>1. IsFiniteSet(m.files) /\ m.files \subseteq Nat /\ m.files = FilesOf(graph, m.symbols)
      /\ Cardinality(m.files) \in Nat /\ MaxSubsystemFiles \in Nat
  BY FilesOfFinite, FS_CardinalityType, SubsystemAssumption DEF Matched
<1>2. CASE Cardinality(m.files) <= MaxSubsystemFiles
  <2>1. k = m
    BY <1>2 DEF KeepFiles
  <2> QED
    BY <1>1, <1>2, <2>1
<1>3. CASE ~(Cardinality(m.files) <= MaxSubsystemFiles)
  <2>1. k = [symbols |-> symbols, files |-> kept, frontier |-> m.frontier, truncated |-> TRUE]
    BY <1>3 DEF KeepFiles, Matched
  <2>2. kept \subseteq m.files /\ IsFiniteSet(kept) /\ Cardinality(kept) <= MaxSubsystemFiles
    BY <1>1, SmallestFew
  <2> HIDE DEF kept
  <2>3. kept = FilesOf(graph, symbols)
    BY <1>1, <2>2 DEF FilesOf
  <2>4. symbols \subseteq m.symbols
    OBVIOUS
  <2> HIDE DEF symbols
  <2> QED
    BY <2>1, <2>2, <2>3, <2>4
<1> QED
  BY <1>2, <1>3

(* What discover_subsystem answers *)
LEMMA SubsystemIs ==
  ASSUME NEW graph, WellFormed(graph), NEW hits, NEW scope \in DOMAIN MaxHops
  PROVE  LET d == DiscoverSubsystem(graph, hits, scope)
             seeds == Seeds(graph, hits)
         IN  /\ d.files = d.matched /\ Cardinality(d.files) <= MaxSubsystemFiles
             /\ d.consumers \cap d.files = {} /\ d.routes \subseteq d.entrypoints
             /\ \A c \in d.clusters : c \subseteq d.files
             /\ d.symbols \subseteq Within(Both(graph), seeds, MaxHops[scope])
             /\ ~d.truncated => seeds \subseteq d.symbols
<1> DEFINE d == DiscoverSubsystem(graph, hits, scope)
           seeds == Seeds(graph, hits)
           hops == MaxHops[scope]
           start == [symbols |-> seeds, files |-> FilesOf(graph, seeds), frontier |-> seeds, truncated |-> FALSE]
           grown == Expand(graph, start, hops)
           m == KeepFiles(graph, grown)
           routes == {NameAt(graph, s) : s \in Routes(graph, m.symbols)}
           entries == {NameAt(graph, s) : s \in Entrypoints(graph, m.symbols)}
           outside == Dependencies(graph, m)
           consumers == Consumers(graph, m)
           clusters == Clusters(graph, m)
           files == FilesOf(graph, m.symbols)
<1>1. d = [symbols |-> m.symbols, matched |-> m.files, files |-> files, dependencies |-> outside,
           consumers |-> consumers, routes |-> routes, entrypoints |-> entries, clusters |-> clusters,
           truncated |-> m.truncated]
  BY DEF DiscoverSubsystem
<1>2. hops \in Nat
  BY SubsystemAssumption
<1>3. Matched(graph, seeds, 0, start)
  <2>1. seeds \subseteq Symbols(graph) /\ Within(Both(graph), seeds, 0) = seeds
    BY WithinZero DEF Seeds
  <2> HIDE DEF seeds
  <2> QED
    BY <2>1 DEF Matched
<1> HIDE DEF d, seeds, hops, start
<1>4. Matched(graph, seeds, hops, grown)
  BY <1>2, <1>3, ExpandMatches
<1> HIDE DEF grown
<1>5. /\ m.symbols \subseteq grown.symbols /\ m.files = files
      /\ IsFiniteSet(m.files) /\ Cardinality(m.files) <= MaxSubsystemFiles
      /\ ~m.truncated => m.symbols = grown.symbols
  BY <1>4, KeptMatches
<1>6. routes \subseteq entries
  <2>1. Routes(graph, m.symbols) \subseteq Entrypoints(graph, m.symbols)
    BY DEF Routes
  <2> HIDE DEF m
  <2> QED
    BY <2>1
<1>7. consumers \cap m.files = {}
  BY DEF Consumers
<1>8. \A c \in clusters : c \subseteq m.files
  <2>1. Cardinality(m.files) \in Nat
    BY <1>5, FS_CardinalityType
  <2> HIDE DEF m
  <2> QED
    BY <2>1, GroupsStay DEF Clusters
<1> HIDE DEF m, routes, entries, outside, consumers, clusters, files
<1>9. /\ d.symbols = m.symbols /\ d.matched = m.files /\ d.files = files /\ d.consumers = consumers
      /\ d.routes = routes /\ d.entrypoints = entries /\ d.clusters = clusters /\ d.truncated = m.truncated
  BY <1>1
<1>10. m.symbols \subseteq Within(Both(graph), seeds, hops) /\ (~m.truncated => seeds \subseteq m.symbols)
  BY <1>4, <1>5 DEF Matched
<1> QED
  BY <1>5, <1>6, <1>7, <1>8, <1>9, <1>10 DEF d, seeds, hops

----------------------------------------------------------------------------
(* q lists S, each member once *)
ListsOnce(q, S) ==
    /\ q \in Seq(S) /\ Len(q) = Cardinality(S) /\ \A x \in S : \E i \in 1..Len(q) : q[i] = x
    /\ \A i, j \in 1..Len(q) : i < j => q[i] # q[j]

Ranked(q, S, R) == q = [i \in 1..Cardinality(S) |-> CHOOSE x \in S : Rank(S, R, x) = i - 1]

LEMMA RanksList ==
  ASSUME NEW S, IsFiniteSet(S), NEW R, Orders(R, S), NEW q, Ranked(q, S, R)
  PROVE  ListsOnce(q, S)
<1>1. \A i \in 1..Cardinality(S) : q[i] \in S /\ Rank(S, R, q[i]) = i - 1
  <2>1. \A i \in 1..Cardinality(S) : \E x \in S : Rank(S, R, x) = i - 1
    BY RanksExist
  <2> QED
    BY <2>1 DEF Ranked
<1>2. q \in [1..Cardinality(S) -> S]
  BY <1>1 DEF Ranked
<1>3. /\ q \in Seq(S) /\ Len(q) = Cardinality(S) /\ \A x \in S : \E i \in 1..Len(q) : q[i] = x
      /\ \A i, j \in 1..Len(q) : i < j => q[i] # q[j] /\ <<q[i], q[j]>> \in R
  BY <1>1, <1>2, RanksOrder
<1> QED
  BY <1>3 DEF ListsOnce

LEMMA NarrowSeq == ASSUME NEW X, NEW q \in Seq(X) PROVE q \in Seq(ToSet(q)) /\ ToSet(q) \subseteq X
<1>1. Len(q) \in Nat /\ DOMAIN q = 1..Len(q) /\ q = [i \in 1..Len(q) |-> q[i]] /\ \A i \in DOMAIN q : q[i] \in X
  OBVIOUS
<1>2. \A i \in 1..Len(q) : q[i] \in ToSet(q)
  BY <1>1 DEF ToSet
<1>3. ToSet(q) \subseteq X
  BY <1>1 DEF ToSet
<1> DEFINE S == ToSet(q)
<1>4. [i \in 1..Len(q) |-> q[i]] \in Seq(S)
  <2> HIDE DEF S
  <2>1. \A i \in 1..Len(q) : q[i] \in S
    BY <1>2 DEF S
  <2> QED
    BY <1>1, <2>1
<1> QED
  BY <1>1, <1>3, <1>4

LEMMA WidenSeq == ASSUME NEW X, NEW Y, X \subseteq Y, NEW q \in Seq(X) PROVE q \in Seq(Y)
  OBVIOUS

----------------------------------------------------------------------------
(* A search depth first over the neighbours adj of each node *)

Adjacency(adj) ==
    /\ IsFiniteSet(DOMAIN adj) /\ DOMAIN adj \subseteq Int
    /\ \A n \in DOMAIN adj : adj[n] \in Seq(DOMAIN adj)

Arc(adj, n, m) == \E i \in 1..Len(adj[n]) : adj[n][i] = m

(* The node of frame i and the neighbours of it that were followed *)
NodeOn(d, i) == d.frames[i][1]
DoneOn(d, i) == d.frames[i][2]
OnPath(d) == {NodeOn(d, i) : i \in 1..Len(d.frames)}
Left(d) == d.visited \ OnPath(d)
Top(d) == NodeOn(d, Len(d.frames))
Turn(d) == DoneOn(d, Len(d.frames)) + 1

(* The frames are a path of distinct nodes, all visited, along the arcs *)
Stacked(adj, d) ==
    /\ DOMAIN d = {"visited", "frames", "roots", "cycles", "truncated"}
    /\ d.frames \in Seq((DOMAIN adj) \X Nat) /\ d.roots \in Seq(DOMAIN adj) /\ d.visited \subseteq DOMAIN adj
    /\ \A i \in 1..Len(d.frames) : NodeOn(d, i) \in d.visited /\ DoneOn(d, i) <= Len(adj[NodeOn(d, i)])
    /\ \A i, j \in 1..Len(d.frames) : i < j => NodeOn(d, i) # NodeOn(d, j)
    /\ \A i \in 1..(Len(d.frames) - 1) : /\ DoneOn(d, i) >= 1
                                         /\ adj[NodeOn(d, i)][DoneOn(d, i)] = NodeOn(d, i + 1)

(* What a step does to the frames: the innermost is left, or its next      *)
(* neighbour is followed, or a frame for node m is added.                  *)
Leaves(d, r) ==
    /\ DOMAIN r = DOMAIN d /\ r.visited = d.visited /\ r.roots = d.roots
    /\ r.cycles = d.cycles /\ r.truncated = d.truncated
    /\ r.frames \in Seq(ToSet(d.frames)) /\ Len(r.frames) = Len(d.frames) - 1
    /\ \A i \in 1..Len(r.frames) : r.frames[i] = d.frames[i]

Advances(d, r) ==
    /\ DOMAIN r = DOMAIN d /\ r.visited = d.visited /\ r.roots = d.roots
    /\ Len(r.frames) = Len(d.frames) /\ r.frames \in Seq(ToSet(d.frames) \cup {<<Top(d), Turn(d)>>})
    /\ \A i \in 1..(Len(r.frames) - 1) : r.frames[i] = d.frames[i]
    /\ r.frames[Len(r.frames)] = <<Top(d), Turn(d)>>

Enters(d, r, m) ==
    /\ DOMAIN r = DOMAIN d /\ r.visited = d.visited \cup {m} /\ r.roots = d.roots
    /\ r.cycles = d.cycles /\ r.truncated = d.truncated
    /\ r.frames \in Seq(ToSet(d.frames) \cup {<<m, 0>>}) /\ Len(r.frames) = Len(d.frames) + 1
    /\ \A i \in 1..Len(d.frames) : r.frames[i] = d.frames[i]
    /\ r.frames[Len(r.frames)] = <<m, 0>>

Same(d, r) == r.cycles = d.cycles /\ r.truncated = d.truncated

(* The neighbours still to follow, of the nodes not visited or on the path *)
Todo(adj, d) ==
    {s \in Slots(adj) : \/ s[1] \notin d.visited
                        \/ \E i \in 1..Len(d.frames) : NodeOn(d, i) = s[1] /\ DoneOn(d, i) <= s[2]}

(* A set of nodes that no arc leaves and every arc leads down in *)
Graded(adj, S) ==
    \E B \in Nat : \E rank \in [S -> 0..B] :
        \A n \in S : \A i \in 1..Len(adj[n]) : adj[n][i] \in S /\ rank[adj[n][i]] < rank[n]

(* While no cycle was found, what was left is graded, and the neighbours   *)
(* followed were left, but for those that lead along the path.             *)
Clean(adj, d) ==
    d.cycles = {} =>
        /\ Graded(adj, Left(d))
        /\ \A i \in 1..Len(d.frames) : \A k \in 1..DoneOn(d, i) :
              \/ adj[NodeOn(d, i)][k] \in Left(d)
              \/ i < Len(d.frames) /\ k = DoneOn(d, i)

(* Node m is the neighbour that the path leads to, if there is a path *)
LeadsTo(adj, d, m) ==
    d.frames # <<>> =>
        DoneOn(d, Len(d.frames)) >= 1 /\ adj[Top(d)][DoneOn(d, Len(d.frames))] = m

(* A frame on top with nothing followed changes nothing below and leaves   *)
(* no more to do.                                                          *)
Entered(adj, d, r) ==
    /\ Stacked(adj, r) /\ Left(r) = Left(d) /\ Len(r.frames) = Len(d.frames) + 1
    /\ \A i \in 1..Len(d.frames) : NodeOn(r, i) = NodeOn(d, i) /\ DoneOn(r, i) = DoneOn(d, i)
    /\ DoneOn(r, Len(d.frames) + 1) = 0
    /\ Todo(adj, r) \subseteq Todo(adj, d)

(* A path along the arcs through distinct nodes, back to its first *)
Loop(adj, c) ==
    /\ c \in Seq(DOMAIN adj) /\ Len(c) >= 1
    /\ \A i, j \in 1..Len(c) : i < j => c[i] # c[j]
    /\ \A i \in 1..(Len(c) - 1) : Arc(adj, c[i], c[i + 1])
    /\ Arc(adj, c[Len(c)], c[1])

LeastFirst(c) == \A i \in 1..Len(c) : c[1] <= c[i]

(* Where the item at i of a sequence of n was before it was turned to l *)
Turned(n, l, i) == IF i <= n - l + 1 THEN l + i - 1 ELSE i - (n - l + 1)

(* The cycles kept are loops, each from its least node *)
Keeps(adj, d) ==
    /\ IsFiniteSet(d.cycles) /\ \A c \in d.cycles : Loop(adj, c) /\ LeastFirst(c)
    /\ d.truncated \in BOOLEAN /\ (d.truncated => d.cycles # {})

DepthFirst(adj, d) ==
    /\ Stacked(adj, d) /\ Keeps(adj, d) /\ Clean(adj, d)
    /\ DOMAIN adj \subseteq d.visited \cup ToSet(d.roots)

Ended(d) == d.truncated \/ (d.frames = <<>> /\ d.roots = <<>>)
Ahead(adj, d) == Cardinality(Todo(adj, d)) + Len(d.roots)

LEMMA FrontIs ==
  ASSUME NEW X, NEW q \in Seq(X), q # <<>>
  PROVE  /\ Front(q) \in Seq(ToSet(q)) /\ Len(q) \in Nat \ {0} /\ Len(Front(q)) = Len(q) - 1
         /\ \A i \in 1..(Len(q) - 1) : Front(q)[i] = q[i]
<1>1. Len(q) \in Nat \ {0} /\ DOMAIN q = 1..Len(q) /\ \A i \in 1..Len(q) : q[i] \in ToSet(q)
  <2>1. Len(q) # 0
    BY EmptySeq
  <2> QED
    BY <2>1 DEF ToSet
<1>2. \A i \in 1..(Len(q) - 1) : q[i] \in ToSet(q)
  BY <1>1
<1>3. /\ SubSeq(q, 1, Len(q) - 1) \in Seq(ToSet(q))
      /\ Len(SubSeq(q, 1, Len(q) - 1)) = IF 1 <= Len(q) - 1 THEN Len(q) - 1 - 1 + 1 ELSE 0
      /\ \A i \in 1..(Len(q) - 1 - 1 + 1) : SubSeq(q, 1, Len(q) - 1)[i] = q[1 + i - 1]
  <2> DEFINE l == Len(q) - 1
             T == ToSet(q)
  <2>1. l \in Int /\ 1 \in Int /\ \A i \in 1..l : q[i] \in T
    BY <1>1, <1>2
  <2> HIDE DEF l, T
  <2>2. /\ SubSeq(q, 1, l) \in Seq(T) /\ Len(SubSeq(q, 1, l)) = IF 1 <= l THEN l - 1 + 1 ELSE 0
        /\ \A i \in 1..(l - 1 + 1) : SubSeq(q, 1, l)[i] = q[1 + i - 1]
    BY <2>1, SubSeqProperties
  <2> QED
    BY <2>2 DEF l, T
<1> QED
  BY <1>1, <1>3 DEF Front

LEMMA FollowIs ==
  ASSUME NEW adj, Adjacency(adj), NEW d, Stacked(adj, d), d.frames # <<>>,
         NEW r, r = Follow(adj, d)
  PROVE  /\ Top(d) \in DOMAIN adj /\ Turn(d) \in Nat \ {0} /\ Len(d.frames) \in Nat \ {0}
         /\ Turn(d) > Len(adj[Top(d)]) => Leaves(d, r)
         /\ Turn(d) <= Len(adj[Top(d)]) =>
               LET m == adj[Top(d)][Turn(d)]
               IN  /\ m \in OnPath(d) =>
                         /\ Advances(d, r) /\ r.cycles = d.cycles \cup {Canonical(OnStack(d, m))}
                         /\ r.truncated = (Cardinality(r.cycles) >= MaxCycles)
                   /\ m \in Left(d) => Advances(d, r) /\ Same(d, r)
                   /\ m \notin d.visited => \E w : Advances(d, w) /\ Same(d, w) /\ Enters(w, r, m)
<1> DEFINE F == d.frames
           k == Len(F)
           n == Last(F)[1]
           i == Last(F)[2] + 1
           m == adj[n][i]
           next == [d EXCEPT !.frames = Append(Front(@), <<n, i>>)]
<1>1. F \in Seq((DOMAIN adj) \X Nat) /\ DOMAIN d = {"visited", "frames", "roots", "cycles", "truncated"}
  BY DEF Stacked
<1>2. /\ Front(F) \in Seq(ToSet(F)) /\ k \in Nat \ {0} /\ Len(Front(F)) = k - 1
      /\ \A j \in 1..(k - 1) : Front(F)[j] = F[j]
  <2> HIDE DEF F, k
  <2> QED
    BY <1>1, FrontIs DEF F, k
<1>3. F[k] \in (DOMAIN adj) \X Nat /\ n = Top(d) /\ i = Turn(d)
  BY <1>1, <1>2 DEF Top, Turn, NodeOn, DoneOn, Last
<1>4. n \in DOMAIN adj /\ i \in Nat \ {0}
  <2> HIDE DEF n, i
  <2>1. Top(d) \in DOMAIN adj /\ DoneOn(d, k) \in Nat /\ Turn(d) = DoneOn(d, k) + 1
    BY <1>3 DEF Top, Turn, NodeOn, DoneOn
  <2> QED
    BY <1>3, <2>1
<1>5. Range(PathOn(d)) = OnPath(d)
  <2>1. DOMAIN F = 1..k /\ DOMAIN PathOn(d) = DOMAIN F /\ \A j \in DOMAIN F : PathOn(d)[j] = NodeOn(d, j)
    BY <1>1 DEF PathOn, NodeOn
  <2> QED
    BY <2>1 DEF Range, OnPath
<1>6. Advances(d, next) /\ Same(d, next)
  <2> DEFINE G == Append(Front(F), <<n, i>>)
             X == ToSet(F) \cup {<<n, i>>}
  <2>1. Front(F) \in Seq(X)
    <3> HIDE DEF F, n, i
    <3> QED
      BY <1>2, WidenSeq
  <2>2. G \in Seq(X) /\ Len(G) = k /\ (\A j \in 1..(k - 1) : G[j] = F[j]) /\ G[k] = <<n, i>>
    <3>1. <<n, i>> \in X
      OBVIOUS
    <3> DEFINE x == <<n, i>>
               P == Front(F)
    <3>2. G = Append(P, x) /\ P \in Seq(X) /\ x \in X /\ Len(P) = k - 1 /\ \A j \in 1..(k - 1) : P[j] = F[j]
      BY <1>2, <2>1
    <3> HIDE DEF G, X, x, F, k, P
    <3>3. G \in Seq(X) /\ Len(G) = k /\ (\A j \in 1..(k - 1) : G[j] = F[j]) /\ G[k] = x
      BY <1>2, <3>2
    <3> QED
      BY <3>3 DEF x
  <2>3. /\ DOMAIN next = DOMAIN d /\ next.frames = G /\ next.visited = d.visited /\ next.roots = d.roots
        /\ next.cycles = d.cycles /\ next.truncated = d.truncated
    <3> HIDE DEF n, i
    <3> QED
      BY <1>1
  <2> HIDE DEF next, G, n, i
  <2> QED
    BY <1>3, <2>2, <2>3 DEF Advances, Same
<1>7. r = CASE i > Len(adj[n])                             -> [d EXCEPT !.frames = Front(@)]
            [] i <= Len(adj[n]) /\ m \in Range(PathOn(d))  -> KeepCycle(next, OnStack(d, m))
            [] i <= Len(adj[n]) /\ m \in d.visited \ Range(PathOn(d)) -> next
            [] OTHER                                       -> Enter(next, m)
  BY DEF Follow
<1>8. DOMAIN next = DOMAIN d /\ next.frames \in Seq(ToSet(next.frames))
  <2>1. next.frames \in Seq(ToSet(d.frames) \cup {<<Top(d), Turn(d)>>})
    BY <1>6 DEF Advances
  <2> HIDE DEF next
  <2> QED
    BY <1>6, <2>1, NarrowSeq DEF Advances
<1>9. Len(adj[n]) \in Nat
  BY <1>4 DEF Adjacency
<1>10. ASSUME i > Len(adj[n]) PROVE Leaves(d, r)
  <2>1. r = [d EXCEPT !.frames = Front(@)]
    <3>1. ~(i <= Len(adj[n]))
      BY <1>4, <1>9, <1>10
    <3> HIDE DEF next, n, i, m
    <3> QED
      BY <1>7, <1>10, <3>1
  <2> QED
    BY <1>1, <1>2, <2>1 DEF Leaves
<1>11. ASSUME i <= Len(adj[n]), m \in OnPath(d)
       PROVE  /\ Advances(d, r) /\ r.cycles = d.cycles \cup {Canonical(OnStack(d, m))}
              /\ r.truncated = (Cardinality(r.cycles) >= MaxCycles)
  <2>1. ~(i > Len(adj[n])) /\ r = KeepCycle(next, OnStack(d, m))
    <3>1. ~(i > Len(adj[n]))
      BY <1>4, <1>9, <1>11
    <3> HIDE DEF next, n, i, m
    <3> QED
      BY <1>5, <1>7, <1>11, <3>1
  <2> HIDE DEF next, m
  <2> DEFINE cycles == next.cycles \cup {Canonical(OnStack(d, m))}
  <2>2. r = [next EXCEPT !.cycles = cycles, !.truncated = Cardinality(cycles) >= MaxCycles]
    BY <2>1 DEF KeepCycle
  <2>3. DOMAIN next = {"visited", "frames", "roots", "cycles", "truncated"}
    BY <1>1, <1>8
  <2> HIDE DEF cycles
  <2>4. /\ DOMAIN r = DOMAIN next /\ r.visited = next.visited /\ r.roots = next.roots /\ r.frames = next.frames
        /\ r.cycles = cycles /\ r.truncated = (Cardinality(cycles) >= MaxCycles)
    BY <2>2, <2>3
  <2> QED
    BY <1>6, <2>4 DEF Advances, Same, cycles
<1>12. ASSUME i <= Len(adj[n]), m \in Left(d) PROVE Advances(d, r) /\ Same(d, r)
  <2>1. ~(i > Len(adj[n]))
    BY <1>4, <1>9, <1>12
  <2>2. r = next
    <3> HIDE DEF next, n, i, m
    <3> QED
      BY <1>5, <1>7, <1>12, <2>1 DEF Left
  <2> QED
    BY <1>6, <2>2
<1>13. ASSUME i <= Len(adj[n]), m \notin d.visited PROVE Advances(d, next) /\ Same(d, next) /\ Enters(next, r, m)
  <2>1. ~(i > Len(adj[n]))
    BY <1>4, <1>9, <1>13
  <2>2. m \notin OnPath(d)
    BY <1>13 DEF Stacked, OnPath
  <2>3. r = Enter(next, m)
    <3> HIDE DEF next, n, i, m
    <3> QED
      BY <1>5, <1>7, <1>13, <2>1, <2>2
  <2>4. DOMAIN next = {"visited", "frames", "roots", "cycles", "truncated"}
    BY <1>1, <1>8
  <2> HIDE DEF next, m
  <2> DEFINE G == next.frames
             X == ToSet(G) \cup {<<m, 0>>}
             x == <<m, 0>>
  <2>5. r = [next EXCEPT !.visited = @ \cup {m}, !.frames = Append(@, x)]
    BY <2>3 DEF Enter
  <2> HIDE DEF x
  <2>6. /\ DOMAIN r = DOMAIN next /\ r.visited = next.visited \cup {m} /\ r.roots = next.roots
        /\ r.cycles = next.cycles /\ r.truncated = next.truncated /\ r.frames = Append(G, x)
    BY <2>4, <2>5
  <2>7. G \in Seq(X) /\ x \in X
    <3>1. G \in Seq(ToSet(G)) /\ x \in X
      BY <1>8 DEF x
    <3> HIDE DEF G
    <3> QED
      BY <3>1, WidenSeq
  <2>8. /\ Append(G, x) \in Seq(X) /\ Len(Append(G, x)) = Len(G) + 1
        /\ (\A j \in 1..Len(G) : Append(G, x)[j] = G[j]) /\ Append(G, x)[Len(G) + 1] = x
    <3> HIDE DEF G, X
    <3> QED
      BY <2>7
  <2> QED
    BY <1>6, <2>6, <2>8 DEF Enters, x
<1> QED
  <2> HIDE DEF next
  <2> QED
    BY <1>2, <1>3, <1>4, <1>10, <1>11, <1>12, <1>13

LEMMA StackFields ==
  ASSUME NEW adj, Adjacency(adj), NEW d, Stacked(adj, d)
  PROVE  /\ Len(d.frames) \in Nat /\ DOMAIN d.frames = 1..Len(d.frames)
         /\ \A i \in 1..Len(d.frames) :
               /\ d.frames[i] \in (DOMAIN adj) \X Nat /\ d.frames[i] = <<NodeOn(d, i), DoneOn(d, i)>>
               /\ NodeOn(d, i) \in DOMAIN adj /\ DoneOn(d, i) \in Nat /\ Len(adj[NodeOn(d, i)]) \in Nat
               /\ DoneOn(d, i) <= Len(adj[NodeOn(d, i)])
         /\ d.frames # <<>> <=> Len(d.frames) > 0
<1>1. Len(d.frames) \in Nat /\ DOMAIN d.frames = 1..Len(d.frames) /\ d.frames \in Seq((DOMAIN adj) \X Nat)
  BY DEF Stacked
<1>2. ASSUME NEW i \in 1..Len(d.frames)
      PROVE  /\ d.frames[i] \in (DOMAIN adj) \X Nat /\ d.frames[i] = <<NodeOn(d, i), DoneOn(d, i)>>
             /\ NodeOn(d, i) \in DOMAIN adj /\ DoneOn(d, i) \in Nat /\ Len(adj[NodeOn(d, i)]) \in Nat
             /\ DoneOn(d, i) <= Len(adj[NodeOn(d, i)])
  <2>1. d.frames[i] \in (DOMAIN adj) \X Nat
    BY <1>1
  <2>2. d.frames[i] = <<NodeOn(d, i), DoneOn(d, i)>> /\ NodeOn(d, i) \in DOMAIN adj /\ DoneOn(d, i) \in Nat
    BY <2>1 DEF NodeOn, DoneOn
  <2>3. Len(adj[NodeOn(d, i)]) \in Nat
    BY <2>2 DEF Adjacency
  <2> QED
    BY <2>1, <2>2, <2>3 DEF Stacked
<1>3. d.frames # <<>> <=> Len(d.frames) > 0
  BY <1>1, EmptySeq
<1> QED
  BY <1>1, <1>2, <1>3

LEMMA SlotIs ==
  ASSUME NEW adj, NEW n \in DOMAIN adj, NEW k \in 0..Len(adj[n])
  PROVE  <<n, k>> \in Slots(adj)
BY DEF Slots

LEMMA LeavesKeeps ==
  ASSUME NEW adj, Adjacency(adj), NEW d, Stacked(adj, d), d.frames # <<>>, Clean(adj, d),
         NEW r, Leaves(d, r), Turn(d) > Len(adj[Top(d)])
  PROVE  /\ Stacked(adj, r) /\ Clean(adj, r)
         /\ \E s \in Todo(adj, d) : Todo(adj, r) \subseteq Todo(adj, d) \ {s}
<1> DEFINE k == Len(d.frames)
           n == Top(d)
           N == DOMAIN adj
<1>1. /\ k \in Nat \ {0} /\ DOMAIN d.frames = 1..k /\ n = NodeOn(d, k) /\ n \in N /\ DoneOn(d, k) = Len(adj[n])
      /\ Len(adj[n]) \in Nat
  <2>1. k \in Nat \ {0} /\ DOMAIN d.frames = 1..k /\ n = NodeOn(d, k) /\ n \in N /\ DoneOn(d, k) \in Nat
        /\ DoneOn(d, k) <= Len(adj[n]) /\ Len(adj[n]) \in Nat
    BY StackFields DEF Top
  <2>2. DoneOn(d, k) + 1 > Len(adj[n])
    BY DEF Turn
  <2> HIDE DEF k, n
  <2> QED
    BY <2>1, <2>2
<1>2. /\ Len(r.frames) = k - 1 /\ r.frames \in Seq(N \X Nat)
      /\ \A i \in 1..(k - 1) : NodeOn(r, i) = NodeOn(d, i) /\ DoneOn(r, i) = DoneOn(d, i)
  <2>1. ToSet(d.frames) \subseteq N \X Nat
    <3>1. d.frames \in Seq(N \X Nat)
      BY DEF Stacked
    <3> QED
      BY <3>1, NarrowSeq
  <2>2. r.frames \in Seq(ToSet(d.frames)) /\ Len(r.frames) = k - 1
    BY DEF Leaves
  <2>3. r.frames \in Seq(N \X Nat)
    BY <2>1, <2>2, WidenSeq
  <2> QED
    BY <1>1, <2>2, <2>3 DEF Leaves, NodeOn, DoneOn
<1>3. n \in d.visited /\ \A i \in 1..(k - 1) : NodeOn(d, i) # n
  <2>1. k \in 1..k /\ \A i \in 1..(k - 1) : i \in 1..k /\ i < k
    BY <1>1
  <2>2. \A i \in 1..k : NodeOn(d, i) \in d.visited /\ \A j \in 1..k : i < j => NodeOn(d, i) # NodeOn(d, j)
    BY DEF Stacked
  <2> HIDE DEF k, n
  <2> QED
    BY <1>1, <2>1, <2>2
<1>4. OnPath(r) = OnPath(d) \ {n} /\ Left(r) = Left(d) \cup {n}
  <2>1. OnPath(d) = {NodeOn(d, i) : i \in 1..(k - 1)} \cup {n}
    BY <1>1 DEF OnPath
  <2>2. OnPath(r) = {NodeOn(d, i) : i \in 1..(k - 1)}
    BY <1>2 DEF OnPath
  <2>3. OnPath(r) = OnPath(d) \ {n}
    BY <1>3, <2>1, <2>2
  <2> QED
    BY <1>3, <2>1, <2>3 DEF Left, Leaves
<1>5. Stacked(adj, r)
  <2>1. /\ DOMAIN r = {"visited", "frames", "roots", "cycles", "truncated"}
        /\ r.roots \in Seq(N) /\ r.visited = d.visited /\ r.visited \subseteq N
    BY DEF Leaves, Stacked
  <2>2. \A i \in 1..(k - 1) : i \in 1..k /\ (i < k - 1 => i + 1 \in 1..(k - 1) /\ i \in 1..(k - 1))
    BY <1>1
  <2>3. \A i \in 1..(k - 1) : NodeOn(r, i) \in r.visited /\ DoneOn(r, i) <= Len(adj[NodeOn(r, i)])
    BY <1>2, <2>1, <2>2 DEF Stacked
  <2>4. \A i, j \in 1..(k - 1) : i < j => NodeOn(r, i) # NodeOn(r, j)
    BY <1>2, <2>2 DEF Stacked
  <2>5. \A i \in 1..(k - 1 - 1) : /\ DoneOn(r, i) >= 1
                                  /\ adj[NodeOn(r, i)][DoneOn(r, i)] = NodeOn(r, i + 1)
    <3>1. \A i \in 1..(k - 1 - 1) : i \in 1..(k - 1) /\ i + 1 \in 1..(k - 1)
      BY <1>1
    <3> QED
      BY <1>2, <3>1 DEF Stacked
  <2> HIDE DEF k
  <2> QED
    BY <1>2, <2>1, <2>3, <2>4, <2>5 DEF Stacked
<1>6. Clean(adj, r)
  <2> SUFFICES ASSUME d.cycles = {}
               PROVE  /\ Graded(adj, Left(r))
                      /\ \A i \in 1..Len(r.frames) : \A l \in 1..DoneOn(r, i) :
                            \/ adj[NodeOn(r, i)][l] \in Left(r)
                            \/ i < Len(r.frames) /\ l = DoneOn(r, i)
    BY DEF Clean, Leaves
  <2>1. \A i \in 1..k : \A l \in 1..DoneOn(d, i) :
              adj[NodeOn(d, i)][l] \in Left(d) \/ (i < k /\ l = DoneOn(d, i))
    BY DEF Clean
  <2>2. \A l \in 1..Len(adj[n]) : adj[n][l] \in Left(d)
    <3>1. ~(k < k) /\ k \in 1..k
      BY <1>1
    <3> QED
      BY <1>1, <2>1, <3>1
  <2>3. Graded(adj, Left(r))
    <3>1. PICK B \in Nat : \E f \in [Left(d) -> 0..B] :
             \A x \in Left(d) : \A i \in 1..Len(adj[x]) : adj[x][i] \in Left(d) /\ f[adj[x][i]] < f[x]
      BY DEF Clean, Graded
    <3>2. PICK rank \in [Left(d) -> 0..B] :
             \A x \in Left(d) : \A i \in 1..Len(adj[x]) : adj[x][i] \in Left(d) /\ rank[adj[x][i]] < rank[x]
      BY <3>1
    <3> DEFINE D == Left(d)
               next == [x \in D \cup {n} |-> IF x = n THEN B + 1 ELSE rank[x]]
    <3>3. n \notin D
      BY <1>1 DEF Left, OnPath
    <3>4. \A x \in D : rank[x] \in 0..B /\ next[x] = rank[x] /\ next[n] = B + 1
      BY <3>3
    <3>5. next \in [D \cup {n} -> 0..(B + 1)]
      <4> HIDE DEF D
      <4> QED
        BY <3>2, <3>4
    <3>6. \A x \in D \cup {n} : \A i \in 1..Len(adj[x]) : adj[x][i] \in D \cup {n} /\ next[adj[x][i]] < next[x]
      <4>1. \A i \in 1..Len(adj[n]) : adj[n][i] \in D /\ next[adj[n][i]] < next[n]
        <5>1. \A y \in D : next[y] < next[n]
          BY <3>4
        <5> QED
          BY <2>2, <5>1
      <4>2. ASSUME NEW x \in D, NEW i \in 1..Len(adj[x]) PROVE adj[x][i] \in D /\ next[adj[x][i]] < next[x]
        <5>1. adj[x][i] \in D /\ rank[adj[x][i]] < rank[x]
          BY <3>2
        <5> QED
          BY <3>4, <5>1
      <4> HIDE DEF D, next, n
      <4> QED
        BY <4>1, <4>2
    <3>7. B + 1 \in Nat
      OBVIOUS
    <3> HIDE DEF D, next
    <3>8. Graded(adj, D \cup {n})
      BY <3>5, <3>6, <3>7 DEF Graded
    <3> QED
      BY <1>4, <3>8 DEF D
  <2>4. ASSUME NEW i \in 1..(k - 1), NEW l \in 1..DoneOn(d, i)
        PROVE  adj[NodeOn(d, i)][l] \in Left(r) \/ (i < k - 1 /\ l = DoneOn(d, i))
    <3>1. i \in 1..k
      BY <1>1
    <3>2. CASE adj[NodeOn(d, i)][l] \in Left(d)
      BY <1>4, <3>2
    <3>3. CASE l = DoneOn(d, i) /\ ~(i < k - 1)
      <4>1. i = k - 1 /\ i + 1 = k
        BY <1>1, <3>3
      <4>2. adj[NodeOn(d, i)][l] = n
        BY <1>1, <3>3, <4>1 DEF Stacked
      <4> QED
        BY <1>4, <4>2
    <3>4. CASE l = DoneOn(d, i) /\ i < k - 1
      BY <3>4
    <3> QED
      BY <2>1, <3>1, <3>2, <3>3, <3>4
  <2> QED
    BY <1>2, <2>3, <2>4
<1>7. PICK s \in Slots(adj) : s = <<n, Len(adj[n])>>
  <2>1. Len(adj[n]) \in 0..Len(adj[n])
    BY <1>1
  <2> HIDE DEF n
  <2> QED
    BY <1>1, <2>1, SlotIs
<1>8. s \in Todo(adj, d)
  <2>1. k \in 1..k /\ NodeOn(d, k) = s[1] /\ DoneOn(d, k) <= s[2]
    BY <1>1, <1>7
  <2> QED
    BY <2>1 DEF Todo
<1>9. ASSUME NEW t \in Todo(adj, r) PROVE t \in Todo(adj, d) \ {s}
  <2>1. t \in Slots(adj) /\ (t[1] \notin d.visited \/ \E i \in 1..(k - 1) : NodeOn(d, i) = t[1] /\ DoneOn(d, i) <= t[2])
    BY <1>2 DEF Todo, Leaves
  <2>2. \A i \in 1..(k - 1) : i \in 1..k
    BY <1>1
  <2>3. t[1] # n
    BY <1>3, <2>1
  <2>4. t # s
    BY <1>7, <2>3
  <2> QED
    BY <2>1, <2>2, <2>4 DEF Todo
<1> QED
  BY <1>5, <1>6, <1>8, <1>9

LEMMA AdvancesKeeps ==
  ASSUME NEW adj, Adjacency(adj), NEW d, Stacked(adj, d), d.frames # <<>>,
         NEW r, Advances(d, r), Turn(d) <= Len(adj[Top(d)])
  PROVE  /\ Stacked(adj, r) /\ OnPath(r) = OnPath(d) /\ Left(r) = Left(d) /\ Len(r.frames) \in Nat \ {0}
         /\ Len(r.frames) = Len(d.frames)
         /\ \A i \in 1..Len(r.frames) : NodeOn(r, i) = NodeOn(d, i)
         /\ \A i \in 1..(Len(r.frames) - 1) : DoneOn(r, i) = DoneOn(d, i)
         /\ DoneOn(r, Len(r.frames)) = Turn(d) /\ NodeOn(r, Len(r.frames)) = Top(d)
         /\ \E s \in Todo(adj, d) : Todo(adj, r) \subseteq Todo(adj, d) \ {s}
<1> DEFINE k == Len(d.frames)
           n == Top(d)
           N == DOMAIN adj
<1>1. /\ k \in Nat \ {0} /\ k \in 1..k /\ DOMAIN d.frames = 1..k /\ n = NodeOn(d, k) /\ n \in N /\ DoneOn(d, k) \in Nat
      /\ Turn(d) = DoneOn(d, k) + 1 /\ Len(adj[n]) \in Nat /\ Turn(d) <= Len(adj[n])
  <2>1. k \in Nat \ {0} /\ DOMAIN d.frames = 1..k /\ n = NodeOn(d, k) /\ Turn(d) = DoneOn(d, k) + 1
    BY StackFields DEF Top, Turn
  <2>2. k \in 1..k
    BY <2>1
  <2>3. n \in N /\ DoneOn(d, k) \in Nat /\ Len(adj[n]) \in Nat
    BY <2>1, <2>2, StackFields
  <2> QED
    BY <2>1, <2>2, <2>3
<1>2. /\ Len(r.frames) = k /\ r.frames \in Seq(N \X Nat)
      /\ \A i \in 1..(k - 1) : NodeOn(r, i) = NodeOn(d, i) /\ DoneOn(r, i) = DoneOn(d, i)
      /\ NodeOn(r, k) = n /\ DoneOn(r, k) = Turn(d)
  <2>1. ToSet(d.frames) \subseteq N \X Nat
    <3>1. d.frames \in Seq(N \X Nat)
      BY DEF Stacked
    <3> QED
      BY <3>1, NarrowSeq
  <2>2. <<n, Turn(d)>> \in N \X Nat
    BY <1>1
  <2>3. /\ r.frames \in Seq(ToSet(d.frames) \cup {<<n, Turn(d)>>}) /\ Len(r.frames) = k
        /\ \A i \in 1..(k - 1) : r.frames[i] = d.frames[i]
        /\ r.frames[k] = <<n, Turn(d)>>
    BY DEF Advances
  <2>4. r.frames \in Seq(N \X Nat)
    <3>1. ToSet(d.frames) \cup {<<n, Turn(d)>>} \subseteq N \X Nat
      BY <2>1, <2>2
    <3> HIDE DEF n
    <3> QED
      BY <2>3, <3>1, WidenSeq
  <2>5. r.frames[k] = <<n, Turn(d)>> /\ \A i \in 1..(k - 1) : r.frames[i] = d.frames[i]
    BY <2>3
  <2>6. NodeOn(r, k) = n /\ DoneOn(r, k) = Turn(d)
    <3> HIDE DEF k, n
    <3> QED
      BY <2>5 DEF NodeOn, DoneOn
  <2>7. \A i \in 1..(k - 1) : NodeOn(r, i) = NodeOn(d, i) /\ DoneOn(r, i) = DoneOn(d, i)
    <3> HIDE DEF k, n
    <3> QED
      BY <2>5 DEF NodeOn, DoneOn
  <2> QED
    BY <2>3, <2>4, <2>6, <2>7
<1>3. \A i \in 1..k : (i \in 1..(k - 1) /\ i # k) \/ i = k
  BY <1>1
<1>4. \A i \in 1..k : NodeOn(r, i) = NodeOn(d, i)
  BY <1>1, <1>2, <1>3
<1>5. OnPath(r) = OnPath(d) /\ Left(r) = Left(d)
  <2>1. OnPath(r) = OnPath(d)
    BY <1>2, <1>4 DEF OnPath
  <2> QED
    BY <2>1 DEF Left, Advances
<1>6. Stacked(adj, r)
  <2>1. /\ DOMAIN r = {"visited", "frames", "roots", "cycles", "truncated"}
        /\ r.roots \in Seq(N) /\ r.visited = d.visited /\ r.visited \subseteq N
    BY DEF Advances, Stacked
  <2>2. \A i \in 1..k : NodeOn(r, i) \in r.visited /\ DoneOn(r, i) <= Len(adj[NodeOn(r, i)])
    <3> TAKE i \in 1..k
    <3>1. NodeOn(r, i) \in r.visited
      BY <1>4, <2>1 DEF Stacked
    <3>2. CASE i \in 1..(k - 1)
      BY <1>2, <3>1, <3>2 DEF Stacked
    <3>3. CASE i = k
      BY <1>1, <1>2, <3>1, <3>3
    <3> QED
      BY <1>3, <3>2, <3>3
  <2>3. \A i, j \in 1..k : i < j => NodeOn(r, i) # NodeOn(r, j)
    BY <1>4 DEF Stacked
  <2>4. \A i \in 1..(k - 1) : DoneOn(r, i) >= 1 /\ adj[NodeOn(r, i)][DoneOn(r, i)] = NodeOn(r, i + 1)
    <3> TAKE i \in 1..(k - 1)
    <3>1. DoneOn(d, i) >= 1 /\ adj[NodeOn(d, i)][DoneOn(d, i)] = NodeOn(d, i + 1)
      BY DEF Stacked
    <3>2. i + 1 \in 1..k
      BY <1>1
    <3> QED
      BY <1>2, <1>4, <3>1, <3>2
  <2> HIDE DEF k
  <2> QED
    BY <1>2, <2>1, <2>2, <2>3, <2>4 DEF Stacked
<1>7. PICK s \in Slots(adj) : s = <<n, DoneOn(d, k)>>
  <2>1. DoneOn(d, k) \in 0..Len(adj[n])
    BY <1>1
  <2> HIDE DEF n
  <2> QED
    BY <1>1, <2>1, SlotIs
<1>8. s \in Todo(adj, d)
  <2>1. k \in 1..k /\ NodeOn(d, k) = s[1] /\ DoneOn(d, k) <= s[2]
    BY <1>1, <1>7
  <2> QED
    BY <2>1 DEF Todo
<1>9. ASSUME NEW t \in Todo(adj, r) PROVE t \in Todo(adj, d) \ {s}
  <2>1. t \in Slots(adj) /\ (t[1] \notin d.visited \/ \E i \in 1..k : NodeOn(r, i) = t[1] /\ DoneOn(r, i) <= t[2])
    BY <1>2 DEF Todo, Advances
  <2>2. n \in d.visited
    BY <1>1 DEF Stacked
  <2>3. CASE t[1] \notin d.visited
    BY <1>7, <2>1, <2>2, <2>3 DEF Todo
  <2>4. ASSUME NEW i \in 1..k, NodeOn(r, i) = t[1], DoneOn(r, i) <= t[2] PROVE t \in Todo(adj, d) \ {s}
    <3>1. NodeOn(d, i) = t[1]
      BY <1>4, <2>4
    <3>2. CASE i \in 1..(k - 1) /\ i # k
      <4>1. DoneOn(d, i) <= t[2]
        BY <1>2, <2>4, <3>2
      <4>2. t[1] # n
        <5>1. i < k
          BY <1>1, <3>2
        <5> QED
          BY <1>1, <3>1, <5>1 DEF Stacked
      <4> QED
        BY <1>7, <2>1, <3>1, <4>1, <4>2 DEF Todo
    <3>3. CASE i = k
      <4>1. \E x \in N : \E y \in 0..Len(adj[x]) : t = <<x, y>>
        BY <2>1 DEF Slots
      <4>2. PICK x \in N : \E y \in 0..Len(adj[x]) : t = <<x, y>>
        BY <4>1
      <4>3. t[2] \in Int
        BY <4>2
      <4>4. Turn(d) <= t[2]
        BY <1>2, <2>4, <3>3
      <4>5. DoneOn(d, k) <= t[2] /\ t[2] # DoneOn(d, k)
        <5> HIDE DEF k, n
        <5> QED
          BY <1>1, <4>3, <4>4
      <4> QED
        BY <1>1, <1>7, <2>1, <3>1, <3>3, <4>5 DEF Todo
    <3> QED
      BY <1>3, <3>2, <3>3
  <2> QED
    BY <2>1, <2>3, <2>4
<1> QED
  BY <1>1, <1>2, <1>4, <1>5, <1>6, <1>8, <1>9

LEMMA EntersKeeps ==
  ASSUME NEW adj, Adjacency(adj), NEW d, Stacked(adj, d), NEW m \in DOMAIN adj, m \notin d.visited,
         NEW r, Enters(d, r, m), LeadsTo(adj, d, m)
  PROVE  Entered(adj, d, r)
<1> DEFINE k == Len(d.frames)
           N == DOMAIN adj
<1>1. k \in Nat /\ (d.frames # <<>> <=> k > 0) /\ \A i \in 1..k : NodeOn(d, i) \in d.visited
  <2>1. k \in Nat /\ (d.frames # <<>> <=> k > 0)
    BY StackFields
  <2> QED
    BY <2>1 DEF Stacked
<1>2. /\ Len(r.frames) = k + 1 /\ r.frames \in Seq(N \X Nat)
      /\ \A i \in 1..k : NodeOn(r, i) = NodeOn(d, i) /\ DoneOn(r, i) = DoneOn(d, i)
      /\ NodeOn(r, k + 1) = m /\ DoneOn(r, k + 1) = 0
  <2>1. ToSet(d.frames) \subseteq N \X Nat
    <3>1. d.frames \in Seq(N \X Nat)
      BY DEF Stacked
    <3> QED
      BY <3>1, NarrowSeq
  <2>2. <<m, 0>> \in N \X Nat
    OBVIOUS
  <2>3. /\ r.frames \in Seq(ToSet(d.frames) \cup {<<m, 0>>}) /\ Len(r.frames) = k + 1
        /\ \A i \in 1..k : r.frames[i] = d.frames[i]
        /\ r.frames[k + 1] = <<m, 0>>
    BY DEF Enters
  <2>4. r.frames \in Seq(N \X Nat)
    <3>1. ToSet(d.frames) \cup {<<m, 0>>} \subseteq N \X Nat
      BY <2>1, <2>2
    <3> QED
      BY <2>3, <3>1, WidenSeq
  <2> QED
    BY <2>3, <2>4 DEF NodeOn, DoneOn
<1>3. \A i \in 1..(k + 1) : (i \in 1..k /\ i < k + 1) \/ i = k + 1
  BY <1>1
<1>4. Left(r) = Left(d)
  <2>1. OnPath(r) = OnPath(d) \cup {m}
    <3>1. \A i \in 1..k : i \in 1..(k + 1)
      BY <1>1
    <3>2. k + 1 \in 1..(k + 1)
      BY <1>1
    <3> QED
      BY <1>2, <1>3, <3>1, <3>2 DEF OnPath
  <2> QED
    BY <2>1 DEF Left, Enters
<1>5. Stacked(adj, r)
  <2>1. /\ DOMAIN r = {"visited", "frames", "roots", "cycles", "truncated"}
        /\ r.roots \in Seq(N) /\ r.visited = d.visited \cup {m} /\ r.visited \subseteq N
    BY DEF Enters, Stacked
  <2>2. \A i \in 1..(k + 1) : NodeOn(r, i) \in r.visited /\ DoneOn(r, i) <= Len(adj[NodeOn(r, i)])
    <3>1. Len(adj[m]) \in Nat
      BY DEF Adjacency
    <3>2. \A i \in 1..k : NodeOn(r, i) \in r.visited /\ DoneOn(r, i) <= Len(adj[NodeOn(r, i)])
      BY <1>2, <2>1 DEF Stacked
    <3>3. NodeOn(r, k + 1) \in r.visited /\ DoneOn(r, k + 1) <= Len(adj[NodeOn(r, k + 1)])
      BY <1>2, <2>1, <3>1
    <3> QED
      BY <1>3, <3>2, <3>3
  <2>3. ASSUME NEW i \in 1..(k + 1), NEW j \in 1..(k + 1), i < j PROVE NodeOn(r, i) # NodeOn(r, j)
    <3>1. i \in 1..k
      BY <1>1, <2>3
    <3>2. CASE j \in 1..k
      BY <1>2, <2>3, <3>1, <3>2 DEF Stacked
    <3>3. CASE j = k + 1
      BY <1>1, <1>2, <3>1, <3>3
    <3> QED
      BY <1>3, <3>2, <3>3
  <2>4. \A i \in 1..k : DoneOn(r, i) >= 1 /\ adj[NodeOn(r, i)][DoneOn(r, i)] = NodeOn(r, i + 1)
    <3> TAKE i \in 1..k
    <3>1. CASE i \in 1..(k - 1)
      <4>1. DoneOn(d, i) >= 1 /\ adj[NodeOn(d, i)][DoneOn(d, i)] = NodeOn(d, i + 1)
        BY <3>1 DEF Stacked
      <4>2. i + 1 \in 1..k
        BY <1>1, <3>1
      <4> QED
        BY <1>2, <4>1, <4>2
    <3>2. CASE i = k
      <4>1. DoneOn(d, k) >= 1 /\ adj[NodeOn(d, k)][DoneOn(d, k)] = m
        BY <1>1, <3>2 DEF Top, LeadsTo
      <4> QED
        BY <1>2, <3>2, <4>1
    <3>3. i \in 1..(k - 1) \/ i = k
      BY <1>1
    <3> QED
      BY <3>1, <3>2, <3>3
  <2> DEFINE l == k + 1
  <2>5. l - 1 = k /\ Len(r.frames) = l
    BY <1>1, <1>2
  <2>6. /\ \A i \in 1..l : NodeOn(r, i) \in r.visited /\ DoneOn(r, i) <= Len(adj[NodeOn(r, i)])
        /\ \A i, j \in 1..l : i < j => NodeOn(r, i) # NodeOn(r, j)
    BY <2>2, <2>3
  <2> HIDE DEF k, l
  <2>7. \A i \in 1..(l - 1) : DoneOn(r, i) >= 1 /\ adj[NodeOn(r, i)][DoneOn(r, i)] = NodeOn(r, i + 1)
    BY <2>4, <2>5
  <2> QED
    BY <1>2, <2>1, <2>5, <2>6, <2>7 DEF Stacked
<1>6. ASSUME NEW t \in Todo(adj, r) PROVE t \in Todo(adj, d)
  <2>1. t \in Slots(adj) /\ (t[1] \notin d.visited \cup {m}
                              \/ \E i \in 1..(k + 1) : NodeOn(r, i) = t[1] /\ DoneOn(r, i) <= t[2])
    BY <1>2 DEF Todo, Enters
  <2>2. CASE t[1] \notin d.visited
    BY <2>1, <2>2 DEF Todo
  <2>3. CASE t[1] \in d.visited
    <3>1. PICK i \in 1..(k + 1) : NodeOn(r, i) = t[1] /\ DoneOn(r, i) <= t[2]
      BY <2>1, <2>3
    <3>2. i \in 1..k
      BY <1>2, <1>3, <2>3, <3>1
    <3> QED
      BY <1>2, <2>1, <3>1, <3>2 DEF Todo
  <2> QED
    BY <2>2, <2>3
<1> QED
  BY <1>2, <1>4, <1>5, <1>6 DEF Entered

LEMMA RotationIs ==
  ASSUME NEW X, NEW c \in Seq(X), NEW l \in 1..Len(c),
         NEW r, r = SubSeq(c, l, Len(c)) \o SubSeq(c, 1, l - 1)
  PROVE  r \in Seq(X) /\ Len(r) = Len(c) /\ \A i \in 1..Len(c) : r[i] = c[Turned(Len(c), l, i)]
<1> DEFINE n == Len(c)
           P == SubSeq(c, l, n)
           Q == SubSeq(c, 1, l - 1)
<1>1. n \in Nat /\ l \in Nat \ {0} /\ l <= n /\ \A i \in 1..n : c[i] \in X
  OBVIOUS
<1>2. P \in Seq(X) /\ Len(P) = n - l + 1 /\ \A i \in 1..(n - l + 1) : P[i] = c[l + i - 1]
  <2>1. l \in Int /\ n \in Int /\ \A i \in l..n : c[i] \in X
    BY <1>1
  <2> HIDE DEF n
  <2>2. /\ P \in Seq(X) /\ Len(P) = IF l <= n THEN n - l + 1 ELSE 0
        /\ \A i \in 1..(n - l + 1) : P[i] = c[l + i - 1]
    BY <2>1, SubSeqProperties
  <2> QED
    BY <1>1, <2>2
<1>3. Q \in Seq(X) /\ Len(Q) = l - 1 /\ \A i \in 1..(l - 1) : Q[i] = c[i]
  <2> DEFINE m == l - 1
  <2>1. 1 \in Int /\ m \in Nat /\ \A i \in 1..m : c[i] \in X
    BY <1>1
  <2> HIDE DEF m
  <2>2. /\ SubSeq(c, 1, m) \in Seq(X) /\ Len(SubSeq(c, 1, m)) = IF 1 <= m THEN m - 1 + 1 ELSE 0
        /\ \A i \in 1..(m - 1 + 1) : SubSeq(c, 1, m)[i] = c[1 + i - 1]
    BY <2>1, SubSeqProperties
  <2>3. SubSeq(c, 1, m) \in Seq(X) /\ Len(SubSeq(c, 1, m)) = m /\ \A i \in 1..m : SubSeq(c, 1, m)[i] = c[i]
    BY <2>1, <2>2
  <2> QED
    BY <2>3 DEF m
<1> HIDE DEF P, Q, n
<1>4. /\ P \o Q \in Seq(X) /\ Len(P \o Q) = Len(P) + Len(Q)
      /\ \A i \in 1..(Len(P) + Len(Q)) : (P \o Q)[i] = IF i <= Len(P) THEN P[i] ELSE Q[i - Len(P)]
  BY <1>2, <1>3, ConcatProperties
<1>5. r = P \o Q
  BY DEF P, Q, n
<1>6. Len(r) = n /\ \A i \in 1..n : r[i] = IF i <= n - l + 1 THEN P[i] ELSE Q[i - (n - l + 1)]
  <2>1. Len(P) = n - l + 1 /\ Len(P) + Len(Q) = n
    BY <1>1, <1>2, <1>3
  <2>2. /\ Len(r) = n
        /\ \A i \in 1..n : r[i] = IF i <= Len(P) THEN P[i] ELSE Q[i - Len(P)]
    BY <1>4, <1>5, <2>1, Zenon
  <2> QED
    BY <2>1, <2>2
<1>7. ASSUME NEW i \in 1..n PROVE r[i] = c[Turned(n, l, i)]
  <2>1. CASE i <= n - l + 1
    <3>1. i \in 1..(n - l + 1)
      BY <1>1, <2>1
    <3> QED
      BY <1>2, <1>6, <2>1, <3>1 DEF Turned
  <2>2. CASE ~(i <= n - l + 1)
    <3>1. i - (n - l + 1) \in 1..(l - 1)
      BY <1>1, <2>2
    <3> QED
      BY <1>3, <1>6, <2>2, <3>1 DEF Turned
  <2> QED
    BY <2>1, <2>2
<1> QED
  BY <1>4, <1>5, <1>6, <1>7 DEF n

LEMMA LeastListed ==
  ASSUME NEW X, X \subseteq Int, NEW c \in Seq(X), Len(c) >= 1
  PROVE  \E i \in DOMAIN c : \A j \in DOMAIN c : c[i] <= c[j]
<1> DEFINE n == Len(c)
           S == {k \in 0..n : k >= 1 => \E i \in 1..k : \A j \in 1..k : c[i] <= c[j]}
<1>1. n \in Nat /\ DOMAIN c = 1..n /\ \A i \in 1..n : c[i] \in Int
  <2>1. n \in Nat /\ DOMAIN c = 1..n /\ \A i \in 1..n : c[i] \in X
    OBVIOUS
  <2> QED
    BY <2>1
<1> HIDE DEF n
<1>2. 0 \in S
  BY <1>1
<1>3. ASSUME NEW k \in 1..n, k - 1 \in S PROVE k \in S
  <2>1. k \in 1..k /\ (\A j \in 1..k : j \in 1..(k - 1) \/ j = k) /\ \A j \in 1..(k - 1) : j \in 1..k
    BY <1>1
  <2>2. CASE k = 1
    BY <1>1, <2>1, <2>2
  <2>3. CASE k # 1
    <3>1. PICK i \in 1..(k - 1) : \A j \in 1..(k - 1) : c[i] <= c[j]
      BY <1>1, <1>3, <2>3
    <3>2. \A j \in 1..k : c[j] \in Int
      BY <1>1
    <3>3. CASE c[i] <= c[k]
      <4>1. i \in 1..k /\ \A j \in 1..k : c[i] <= c[j]
        BY <2>1, <3>1, <3>3
      <4> QED
        BY <4>1
    <3>4. CASE ~(c[i] <= c[k])
      <4>1. k \in 1..k /\ \A j \in 1..k : c[k] <= c[j]
        BY <2>1, <3>1, <3>2, <3>4
      <4> QED
        BY <4>1
    <3> QED
      BY <3>3, <3>4
  <2> QED
    BY <2>2, <2>3
<1>4. 0..n \subseteq S
  <2> HIDE DEF S
  <2> QED
    BY <1>1, <1>2, <1>3, WithinFold!InductionUpTo
<1>5. n >= 1
  BY DEF n
<1>6. n \in S
  <2> HIDE DEF S
  <2> QED
    BY <1>1, <1>4
<1> QED
  BY <1>1, <1>5, <1>6

LEMMA CanonicalIs ==
  ASSUME NEW adj, Adjacency(adj), NEW c, Loop(adj, c)
  PROVE  Loop(adj, Canonical(c)) /\ LeastFirst(Canonical(c))
<1> DEFINE n == Len(c)
           l == CHOOSE i \in DOMAIN c : \A j \in DOMAIN c : c[i] <= c[j]
           r == Canonical(c)
           t(i) == Turned(n, l, i)
<1>1. n \in Nat \ {0} /\ c \in Seq(DOMAIN adj) /\ DOMAIN c = 1..n /\ \A i \in 1..n : c[i] \in Int
  BY DEF Loop, Adjacency
<1>2. l \in 1..n /\ \A j \in 1..n : c[l] <= c[j]
  <2>1. \E i \in DOMAIN c : \A j \in DOMAIN c : c[i] <= c[j]
    BY LeastListed DEF Loop, Adjacency
  <2> QED
    BY <1>1, <2>1
<1>3. r = SubSeq(c, l, Len(c)) \o SubSeq(c, 1, l - 1)
  BY DEF Canonical
<1> HIDE DEF l, r, n
<1>4. r \in Seq(DOMAIN adj) /\ Len(r) = n /\ \A i \in 1..n : r[i] = c[t(i)]
  <2>1. l \in 1..Len(c)
    BY <1>2 DEF n
  <2> DEFINE N == DOMAIN adj
  <2>2. c \in Seq(N)
    BY <1>1
  <2> HIDE DEF N
  <2>3. r \in Seq(N) /\ Len(r) = Len(c) /\ \A i \in 1..Len(c) : r[i] = c[Turned(Len(c), l, i)]
    BY <1>3, <2>1, <2>2, RotationIs
  <2> QED
    BY <2>3 DEF n, N
<1>5. \A i \in 1..n : t(i) \in 1..n
  BY <1>1, <1>2 DEF Turned
<1>6. \A i, j \in 1..n : i < j => t(i) # t(j)
  BY <1>1, <1>2 DEF Turned
<1>7. t(1) = l
  BY <1>1, <1>2 DEF Turned
<1>8. \A i, j \in 1..n : i # j => c[i] # c[j]
  BY <1>1 DEF Loop, n
<1>9. \A i \in 1..n : Arc(adj, c[i], c[IF i = n THEN 1 ELSE i + 1])
  <2> TAKE i \in 1..n
  <2>1. i = n \/ (i \in 1..(n - 1) /\ i # n)
    BY <1>1
  <2> QED
    BY <2>1 DEF Loop, n
<1>10. \A i \in 1..(n - 1) : i \in 1..n /\ i + 1 \in 1..n /\ t(i + 1) = IF t(i) = n THEN 1 ELSE t(i) + 1
  BY <1>1, <1>2 DEF Turned
<1>11. 1 = IF t(n) = n THEN l ELSE 1
  BY <1>1, <1>2 DEF Turned
<1>12. l = IF t(n) = n THEN 1 ELSE t(n) + 1
  BY <1>1, <1>2 DEF Turned
<1>13. \A i \in 1..(n - 1) : Arc(adj, r[i], r[i + 1])
  <2> HIDE DEF t
  <2> QED
    BY <1>4, <1>5, <1>9, <1>10
<1>14. Arc(adj, r[n], r[1])
  <2>1. n \in 1..n /\ 1 \in 1..n
    BY <1>1
  <2> HIDE DEF t
  <2> QED
    BY <1>4, <1>5, <1>7, <1>9, <1>12, <2>1
<1>15. \A i, j \in 1..n : i < j => r[i] # r[j]
  <2> HIDE DEF t
  <2> QED
    BY <1>4, <1>5, <1>6, <1>8
<1>16. \A i \in 1..n : r[1] <= r[i]
  <2>1. 1 \in 1..n
    BY <1>1
  <2> HIDE DEF t
  <2> QED
    BY <1>2, <1>4, <1>5, <1>7, <2>1
<1> QED
  BY <1>1, <1>4, <1>13, <1>14, <1>15, <1>16 DEF Loop, LeastFirst, r

LEMMA OnStackIs ==
  ASSUME NEW adj, Adjacency(adj), NEW d, Stacked(adj, d), NEW m \in OnPath(d), Arc(adj, Top(d), m)
  PROVE  Loop(adj, OnStack(d, m))
<1> DEFINE k == Len(d.frames)
           j == CHOOSE i \in DOMAIN d.frames : d.frames[i][1] = m
           c == OnStack(d, m)
           P == PathOn(d)
<1>1. k \in Nat /\ DOMAIN d.frames = 1..k /\ \A i \in 1..k : NodeOn(d, i) \in DOMAIN adj
  BY StackFields
<1>2. j \in 1..k /\ NodeOn(d, j) = m
  <2>1. \E i \in DOMAIN d.frames : d.frames[i][1] = m
    BY <1>1 DEF OnPath, NodeOn
  <2> QED
    BY <1>1, <2>1 DEF NodeOn
<1>3. \A i \in 1..k : P[i] = NodeOn(d, i)
  BY <1>1 DEF PathOn, NodeOn
<1>4. c = SubSeq(P, j, k)
  BY DEF OnStack
<1> HIDE DEF j, c, P, k
<1> DEFINE n == k - j + 1
<1>5. c \in Seq(DOMAIN adj) /\ Len(c) = n /\ \A i \in 1..n : c[i] = P[j + i - 1]
  <2>1. j \in Int /\ k \in Int /\ j <= k /\ \A i \in j..k : P[i] \in DOMAIN adj
    BY <1>1, <1>2, <1>3
  <2>2. /\ SubSeq(P, j, k) \in Seq(DOMAIN adj) /\ Len(SubSeq(P, j, k)) = IF j <= k THEN k - j + 1 ELSE 0
        /\ \A i \in 1..(k - j + 1) : SubSeq(P, j, k)[i] = P[j + i - 1]
    BY <2>1, SubSeqProperties
  <2> QED
    BY <1>4, <2>1, <2>2
<1>6. n \in Nat \ {0} /\ \A i \in 1..n : j + i - 1 \in 1..k
  BY <1>1, <1>2
<1>7. \A i \in 1..n : c[i] = NodeOn(d, j + i - 1)
  BY <1>3, <1>5, <1>6
<1>8. ASSUME NEW i \in 1..n, NEW i2 \in 1..n, i < i2 PROVE c[i] # c[i2]
  <2>1. j + i - 1 < j + i2 - 1
    BY <1>1, <1>2, <1>6, <1>8
  <2> QED
    BY <1>6, <1>7, <2>1 DEF Stacked, k
<1>9. ASSUME NEW i \in 1..(n - 1) PROVE Arc(adj, c[i], c[i + 1])
  <2> DEFINE x == j + i - 1
  <2>1. /\ i \in 1..n /\ i + 1 \in 1..n /\ x \in 1..(k - 1) /\ x \in 1..k
        /\ j + (i + 1) - 1 = x + 1
    BY <1>1, <1>2, <1>6
  <2>2. c[i] = NodeOn(d, x) /\ c[i + 1] = NodeOn(d, x + 1)
    BY <1>7, <2>1
  <2> HIDE DEF x
  <2>3. DoneOn(d, x) >= 1 /\ adj[NodeOn(d, x)][DoneOn(d, x)] = NodeOn(d, x + 1)
    BY <2>1 DEF Stacked, k
  <2>4. DoneOn(d, x) \in Nat /\ Len(adj[NodeOn(d, x)]) \in Nat /\ DoneOn(d, x) <= Len(adj[NodeOn(d, x)])
    BY <2>1, StackFields DEF k
  <2> QED
    BY <2>2, <2>3, <2>4 DEF Arc
<1>10. Arc(adj, c[n], c[1])
  <2>1. n \in 1..n /\ 1 \in 1..n /\ j + n - 1 = k /\ j + 1 - 1 = j
    BY <1>1, <1>2, <1>6
  <2>2. c[n] = Top(d) /\ c[1] = m
    BY <1>2, <1>7, <2>1 DEF Top, k
  <2> QED
    BY <2>2
<1> HIDE DEF n
<1> QED
  BY <1>5, <1>6, <1>8, <1>9, <1>10 DEF Loop, c

LEMMA TodoShrinks ==
  ASSUME NEW adj, IsFiniteSet(Slots(adj)), NEW d, NEW r, Todo(adj, r) \subseteq Todo(adj, d)
  PROVE  /\ Cardinality(Todo(adj, d)) \in Nat /\ Cardinality(Todo(adj, r)) \in Nat
         /\ Cardinality(Todo(adj, r)) <= Cardinality(Todo(adj, d))
         /\ Todo(adj, r) # Todo(adj, d) => Cardinality(Todo(adj, r)) < Cardinality(Todo(adj, d))
<1> DEFINE S == Todo(adj, d)
           T == Todo(adj, r)
<1>1. S \subseteq Slots(adj)
  BY DEF Todo
<1> HIDE DEF S, T
<1>2. IsFiniteSet(S)
  BY <1>1, FS_Subset
<1>3. T \in SUBSET S
  BY DEF S, T
<1>4. IsFiniteSet(T) /\ Cardinality(T) <= Cardinality(S) /\ (Cardinality(S) = Cardinality(T) => S = T)
  BY <1>2, <1>3, FS_Subset
<1>5. Cardinality(S) \in Nat /\ Cardinality(T) \in Nat
  BY <1>2, <1>4, FS_CardinalityType
<1>6. T # S => Cardinality(T) < Cardinality(S)
  BY <1>4, <1>5
<1> QED
  BY <1>4, <1>5, <1>6 DEF S, T

LEMMA EntersClean ==
  ASSUME NEW adj, Adjacency(adj), NEW d, Stacked(adj, d), NEW m \in DOMAIN adj, m \notin d.visited,
         NEW r, Enters(d, r, m), Entered(adj, d, r),
         d.cycles = {} => /\ Graded(adj, Left(d))
                          /\ \A i \in 1..Len(d.frames) : \A l \in 1..DoneOn(d, i) :
                                adj[NodeOn(d, i)][l] \in Left(d) \/ l = DoneOn(d, i)
  PROVE  Clean(adj, r)
<1> DEFINE k == Len(d.frames)
<1> SUFFICES ASSUME d.cycles = {}
             PROVE  /\ Graded(adj, Left(r))
                    /\ \A i \in 1..Len(r.frames) : \A l \in 1..DoneOn(r, i) :
                          \/ adj[NodeOn(r, i)][l] \in Left(r)
                          \/ i < Len(r.frames) /\ l = DoneOn(r, i)
  BY DEF Clean, Enters
<1>1. /\ Left(r) = Left(d) /\ Len(r.frames) = k + 1
      /\ \A i \in 1..k : NodeOn(r, i) = NodeOn(d, i) /\ DoneOn(r, i) = DoneOn(d, i)
      /\ DoneOn(r, k + 1) = 0
  BY DEF Entered
<1>2. k \in Nat
  BY StackFields
<1>3. ASSUME NEW i \in 1..(k + 1), NEW l \in 1..DoneOn(r, i)
      PROVE  adj[NodeOn(r, i)][l] \in Left(r) \/ (i < k + 1 /\ l = DoneOn(r, i))
  <2>1. CASE i \in 1..k
    <3>1. i < k + 1
      BY <1>2, <2>1
    <3> QED
      BY <1>1, <1>3, <2>1, <3>1
  <2>2. CASE i = k + 1
    <3>1. DoneOn(r, i) = 0
      BY <1>1, <2>2
    <3> QED
      BY <1>1, <1>3, <3>1
  <2> QED
    BY <1>2, <2>1, <2>2
<1>4. Graded(adj, Left(r))
  BY <1>1
<1> QED
  BY <1>1, <1>3, <1>4

LEMMA FollowSearches ==
  ASSUME NEW adj, Adjacency(adj), IsFiniteSet(Slots(adj)), NEW d, DepthFirst(adj, d), d.frames # <<>>,
         NEW r, r = Follow(adj, d)
  PROVE  DepthFirst(adj, r) /\ r.roots = d.roots /\ \E s \in Todo(adj, d) : Todo(adj, r) \subseteq Todo(adj, d) \ {s}
<1> DEFINE n == Top(d)
           k == Len(d.frames)
           m == adj[n][Turn(d)]
           less(w) == \E s \in Todo(adj, d) : Todo(adj, w) \subseteq Todo(adj, d) \ {s}
<1>1. Stacked(adj, d) /\ Keeps(adj, d) /\ Clean(adj, d) /\ DOMAIN adj \subseteq d.visited \cup ToSet(d.roots)
  BY DEF DepthFirst
<1>2. /\ n \in DOMAIN adj /\ Turn(d) \in Nat \ {0} /\ k \in Nat \ {0}
      /\ Turn(d) > Len(adj[n]) => Leaves(d, r)
      /\ Turn(d) <= Len(adj[n]) =>
            /\ m \in OnPath(d) =>
                  /\ Advances(d, r) /\ r.cycles = d.cycles \cup {Canonical(OnStack(d, m))}
                  /\ r.truncated = (Cardinality(r.cycles) >= MaxCycles)
            /\ m \in Left(d) => Advances(d, r) /\ Same(d, r)
            /\ m \notin d.visited => \E w : Advances(d, w) /\ Same(d, w) /\ Enters(w, r, m)
  BY <1>1, FollowIs
<1>3. Len(adj[n]) \in Nat /\ \A i \in 1..Len(adj[n]) : adj[n][i] \in DOMAIN adj
  BY <1>2 DEF Adjacency
<1>4. CASE Turn(d) > Len(adj[n])
  <2>1. Leaves(d, r)
    BY <1>2, <1>4
  <2>2. Stacked(adj, r) /\ Clean(adj, r) /\ less(r)
    BY <1>1, <1>4, <2>1, LeavesKeeps
  <2>3. Keeps(adj, r) /\ r.roots = d.roots /\ r.visited = d.visited
    BY <1>1, <2>1 DEF Keeps, Leaves
  <2> HIDE DEF less
  <2>4. DepthFirst(adj, r)
    BY <1>1, <2>2, <2>3 DEF DepthFirst
  <2> QED
    BY <2>2, <2>3, <2>4 DEF less
<1>5. CASE Turn(d) <= Len(adj[n])
  <2>1. Turn(d) \in 1..Len(adj[n]) /\ Arc(adj, n, m) /\ m \in DOMAIN adj
    <3>1. Turn(d) \in 1..Len(adj[n])
      BY <1>2, <1>3, <1>5
    <3> QED
      BY <1>3, <3>1 DEF Arc
  <2>2. ASSUME NEW w, Advances(d, w)
        PROVE  /\ Stacked(adj, w) /\ Left(w) = Left(d) /\ Len(w.frames) = k /\ less(w)
               /\ \A i \in 1..k : NodeOn(w, i) = NodeOn(d, i)
               /\ \A i \in 1..(k - 1) : DoneOn(w, i) = DoneOn(d, i)
               /\ DoneOn(w, k) = Turn(d) /\ Top(w) = n /\ w.frames # <<>>
               /\ w.roots = d.roots /\ w.visited = d.visited
    <3>1. /\ Stacked(adj, w) /\ Left(w) = Left(d) /\ Len(w.frames) = k /\ less(w)
          /\ \A i \in 1..k : NodeOn(w, i) = NodeOn(d, i)
          /\ \A i \in 1..(k - 1) : DoneOn(w, i) = DoneOn(d, i)
          /\ DoneOn(w, k) = Turn(d) /\ NodeOn(w, k) = n
      <4> HIDE DEF n
      <4>1. /\ Stacked(adj, w) /\ Left(w) = Left(d) /\ Len(w.frames) = Len(d.frames) /\ less(w)
            /\ \A i \in 1..Len(w.frames) : NodeOn(w, i) = NodeOn(d, i)
            /\ \A i \in 1..(Len(w.frames) - 1) : DoneOn(w, i) = DoneOn(d, i)
            /\ DoneOn(w, Len(w.frames)) = Turn(d) /\ NodeOn(w, Len(w.frames)) = n
        BY <1>1, <1>5, <2>2, AdvancesKeeps DEF n
      <4> HIDE DEF less
      <4> QED
        BY <4>1
    <3> HIDE DEF less, n
    <3>2. Top(w) = n /\ w.frames # <<>>
      <4>1. Len(w.frames) # 0
        BY <1>2, <3>1
      <4> QED
        BY <3>1, <4>1, StackFields DEF Top
    <3> QED
      BY <2>2, <3>1, <3>2 DEF Advances
  <2>3. ASSUME d.cycles = {}, NEW w, Advances(d, w), NEW i \in 1..k, NEW l \in 1..DoneOn(w, i)
        PROVE  /\ Graded(adj, Left(d))
               /\ \/ adj[NodeOn(w, i)][l] \in Left(d)
                  \/ i < k /\ l = DoneOn(w, i)
                  \/ i = k /\ l = Turn(d) /\ adj[NodeOn(w, i)][l] = m
    <3>1. /\ NodeOn(w, i) = NodeOn(d, i)
          /\ (i \in 1..(k - 1) => DoneOn(w, i) = DoneOn(d, i)) /\ (i = k => DoneOn(w, i) = Turn(d))
      BY <2>2, <2>3
    <3>2. Graded(adj, Left(d)) /\ \A j \in 1..DoneOn(d, i) : adj[NodeOn(d, i)][j] \in Left(d) \/ (i < k /\ j = DoneOn(d, i))
      BY <1>1, <2>3 DEF Clean
    <3>3. CASE i \in 1..(k - 1)
      BY <2>3, <3>1, <3>2, <3>3
    <3>4. CASE i = k
      <4>1. Turn(d) = DoneOn(d, k) + 1 /\ DoneOn(d, k) \in Nat /\ NodeOn(d, k) = n
        BY <1>1, <1>2, StackFields DEF Turn, Top
      <4>2. l \in 1..DoneOn(d, k) \/ l = Turn(d)
        BY <2>3, <3>1, <3>4, <4>1
      <4>3. ~(k < k)
        BY <1>2
      <4>4. CASE l \in 1..DoneOn(d, k)
        BY <3>1, <3>2, <3>4, <4>3, <4>4
      <4>5. CASE l = Turn(d)
        BY <3>1, <3>2, <3>4, <4>1, <4>5
      <4> QED
        BY <4>2, <4>4, <4>5
    <3>5. i \in 1..(k - 1) \/ i = k
      BY <1>2
    <3> QED
      BY <3>3, <3>4, <3>5
  <2> HIDE DEF less, n, m, k
  <2>4. CASE m \in OnPath(d)
    <3>1. /\ Advances(d, r) /\ r.cycles = d.cycles \cup {Canonical(OnStack(d, m))}
          /\ r.truncated = (Cardinality(r.cycles) >= MaxCycles)
      BY <1>2, <1>5, <2>4
    <3>2. Stacked(adj, r) /\ less(r) /\ r.roots = d.roots /\ r.visited = d.visited
      BY <2>2, <3>1
    <3>3. Loop(adj, Canonical(OnStack(d, m))) /\ LeastFirst(Canonical(OnStack(d, m)))
      <4>1. Loop(adj, OnStack(d, m))
        BY <1>1, <2>1, <2>4, OnStackIs DEF n
      <4> QED
        BY <4>1, CanonicalIs
    <3> DEFINE c == Canonical(OnStack(d, m))
    <3> HIDE DEF c
    <3>4. IsFiniteSet(d.cycles \cup {c})
      BY <1>1, FS_AddElement DEF Keeps
    <3>5. Keeps(adj, r) /\ Clean(adj, r)
      BY <1>1, <3>1, <3>3, <3>4 DEF Keeps, Clean, c
    <3> QED
      BY <1>1, <3>2, <3>5 DEF DepthFirst, less
  <2>5. CASE m \in Left(d)
    <3>1. Advances(d, r) /\ Same(d, r)
      BY <1>2, <1>5, <2>5
    <3>2. Stacked(adj, r) /\ less(r) /\ r.roots = d.roots /\ r.visited = d.visited /\ Left(r) = Left(d) /\ Len(r.frames) = k
      BY <2>2, <3>1
    <3>3. Keeps(adj, r)
      BY <1>1, <3>1 DEF Keeps, Same
    <3>4. ASSUME r.cycles = {}
          PROVE  /\ Graded(adj, Left(r))
                 /\ \A i \in 1..k : \A l \in 1..DoneOn(r, i) :
                       adj[NodeOn(r, i)][l] \in Left(r) \/ (i < k /\ l = DoneOn(r, i))
      <4>1. d.cycles = {}
        BY <3>1, <3>4 DEF Same
      <4>2. Graded(adj, Left(r))
        BY <1>1, <3>2, <4>1 DEF Clean
      <4>3. ASSUME NEW i \in 1..k, NEW l \in 1..DoneOn(r, i)
            PROVE  adj[NodeOn(r, i)][l] \in Left(r) \/ (i < k /\ l = DoneOn(r, i))
        BY <2>3, <2>5, <3>1, <3>2, <4>1
      <4> QED
        BY <4>2, <4>3
    <3>5. Clean(adj, r)
      BY <3>2, <3>4 DEF Clean
    <3> QED
      BY <1>1, <3>2, <3>3, <3>5 DEF DepthFirst, less
  <2>6. CASE m \notin d.visited
    <3>1. PICK w : Advances(d, w) /\ Same(d, w) /\ Enters(w, r, m)
      BY <1>2, <1>5, <2>6
    <3>2. /\ Stacked(adj, w) /\ less(w) /\ w.roots = d.roots /\ w.visited = d.visited /\ Left(w) = Left(d)
          /\ Len(w.frames) = k /\ DoneOn(w, k) = Turn(d) /\ Top(w) = n /\ w.frames # <<>>
      BY <2>2, <3>1
    <3>3. LeadsTo(adj, w, m)
      BY <1>2, <3>2 DEF LeadsTo, m
    <3>4. m \in DOMAIN adj /\ m \notin w.visited
      BY <2>1, <2>6, <3>2
    <3>5. Entered(adj, w, r)
      BY <3>1, <3>2, <3>3, <3>4, EntersKeeps
    <3>6. w.cycles = {} => /\ Graded(adj, Left(w))
                           /\ \A i \in 1..Len(w.frames) : \A l \in 1..DoneOn(w, i) :
                                 adj[NodeOn(w, i)][l] \in Left(w) \/ l = DoneOn(w, i)
      <4> SUFFICES ASSUME w.cycles = {}
                   PROVE  /\ Graded(adj, Left(d))
                          /\ \A i \in 1..k : \A l \in 1..DoneOn(w, i) :
                                 adj[NodeOn(w, i)][l] \in Left(d) \/ l = DoneOn(w, i)
        BY <3>2
      <4>1. d.cycles = {}
        BY <3>1 DEF Same
      <4>2. ASSUME NEW i \in 1..k, NEW l \in 1..DoneOn(w, i)
            PROVE  adj[NodeOn(w, i)][l] \in Left(d) \/ l = DoneOn(w, i)
        <5>1. \/ adj[NodeOn(w, i)][l] \in Left(d)
              \/ i < k /\ l = DoneOn(w, i)
              \/ i = k /\ l = Turn(d) /\ adj[NodeOn(w, i)][l] = m
          BY <2>3, <3>1, <4>1
        <5> QED
          BY <3>2, <5>1
      <4>3. Graded(adj, Left(d))
        BY <1>1, <4>1 DEF Clean
      <4> QED
        BY <4>2, <4>3
    <3>7. Clean(adj, r)
      BY <3>1, <3>2, <3>4, <3>5, <3>6, EntersClean
    <3>8. Keeps(adj, r) /\ r.roots = d.roots /\ r.visited = d.visited \cup {m}
      BY <1>1, <3>1, <3>2 DEF Keeps, Enters, Same
    <3>9. less(r) /\ Stacked(adj, r)
      BY <3>2, <3>5 DEF less, Entered
    <3>10. DepthFirst(adj, r)
      BY <1>1, <3>7, <3>8, <3>9 DEF DepthFirst
    <3> QED
      BY <3>8, <3>9, <3>10 DEF less
  <2>7. m \in OnPath(d) \/ m \in Left(d) \/ m \notin d.visited
    BY DEF Left
  <2> QED
    BY <2>4, <2>5, <2>6, <2>7
<1> QED
  BY <1>2, <1>3, <1>4, <1>5

DfsStep(adj, d, i) == Dfs(adj, d)
DfsFold == INSTANCE FoldTheorems WITH Step <- DfsStep, Greatest <- Max

LEMMA DepthFirstRuns ==
    ASSUME NEW graph, NEW scope, NEW X, NEW s \in Seq(X),
           s = UpTo(Len(Roots(graph, scope)) + Cardinality(Slots(Adjacent(graph, scope))))
    PROVE  \E f : /\ DfsFold!IsRun(f, Adjacent(graph, scope),
                      [visited |-> {}, frames |-> <<>>, roots |-> Roots(graph, scope), cycles |-> {}, truncated |-> FALSE],
                      s, Len(s))
                  /\ FindCycles(graph, scope) = f[Len(s)]
<1> DEFINE n == Len(s)
           c == Adjacent(graph, scope)
           b == [visited |-> {}, frames |-> <<>>, roots |-> Roots(graph, scope), cycles |-> {}, truncated |-> FALSE]
           end == FindCycles(graph, scope)
           iter == CHOOSE iter : DfsFold!Iterates(iter, c, b, s, DOMAIN s)
<1>1. n \in Nat /\ DOMAIN s = 1..n
  OBVIOUS
<1>2. DfsFold!GreatestUpTo(n)
  BY <1>1, MaxIsGreatest DEF DfsFold!GreatestUpTo
<1>3. DfsFold!Iterates(iter, c, b, s, DOMAIN s)
  <2>1. \E it : DfsFold!Iterates(it, c, b, s, 1..n)
    <3> HIDE DEF n, c, b
    <3> QED
      BY <1>1, <1>2, DfsFold!IterationExists
  <2> HIDE DEF n, c, b
  <2> QED
    BY <1>1, <2>1
<1>4. end = iter[DOMAIN s]
  BY DEF FindCycles, FoldLeft, MapThenFoldSet, DfsFold!Iterates, DfsStep
<1> HIDE DEF iter, end
<1>5. \E f : DfsFold!IsRun(f, c, b, s, n) /\ end = f[n]
  <2> HIDE DEF n, c, b
  <2> QED
    BY <1>1, <1>2, <1>3, <1>4, DfsFold!FoldRuns
<1> QED
  BY <1>5 DEF end

LEMMA DfsSearches ==
  ASSUME NEW adj, Adjacency(adj), IsFiniteSet(Slots(adj)), NEW d, DepthFirst(adj, d), NEW r, r = Dfs(adj, d)
  PROVE  /\ Ahead(adj, d) \in Nat /\ Ahead(adj, r) \in Nat
         /\ DepthFirst(adj, r)
         /\ Ended(d) => r = d
         /\ ~Ended(d) => Ahead(adj, r) < Ahead(adj, d)
<1>1. /\ Stacked(adj, d) /\ Keeps(adj, d) /\ Clean(adj, d) /\ DOMAIN adj \subseteq d.visited \cup ToSet(d.roots)
      /\ d.roots \in Seq(DOMAIN adj) /\ Len(d.roots) \in Nat
  BY DEF DepthFirst, Stacked
<1>2. r = CASE d.truncated \/ (d.frames = <<>> /\ d.roots = <<>>)  -> d
            [] ~d.truncated /\ d.frames # <<>>                     -> Follow(adj, d)
            [] OTHER -> LET next == [d EXCEPT !.roots = Tail(@)]
                        IN  IF Head(d.roots) \in d.visited THEN next ELSE Enter(next, Head(d.roots))
  BY DEF Dfs
<1>3. ASSUME Ended(d) PROVE r = d
  BY <1>2, <1>3 DEF Ended
<1>4. ASSUME ~Ended(d), d.frames # <<>>
      PROVE  DepthFirst(adj, r) /\ Len(r.roots) = Len(d.roots) /\ Cardinality(Todo(adj, r)) < Cardinality(Todo(adj, d))
  <2>1. r = Follow(adj, d)
    BY <1>2, <1>4 DEF Ended
  <2>2. DepthFirst(adj, r) /\ r.roots = d.roots /\ \E s \in Todo(adj, d) : Todo(adj, r) \subseteq Todo(adj, d) \ {s}
    BY <1>4, <2>1, FollowSearches
  <2>3. Todo(adj, r) \subseteq Todo(adj, d) /\ Todo(adj, r) # Todo(adj, d)
    BY <2>2
  <2> QED
    BY <2>2, <2>3, TodoShrinks
<1>5. ASSUME ~Ended(d), d.frames = <<>>
      PROVE  DepthFirst(adj, r) /\ Len(r.roots) = Len(d.roots) - 1 /\ Todo(adj, r) \subseteq Todo(adj, d)
  <2> DEFINE next == [d EXCEPT !.roots = Tail(@)]
             m == Head(d.roots)
  <2>1. d.roots # <<>> /\ r = IF m \in d.visited THEN next ELSE Enter(next, m)
    BY <1>2, <1>5 DEF Ended
  <2>2. /\ m \in DOMAIN adj /\ Tail(d.roots) \in Seq(DOMAIN adj) /\ Len(Tail(d.roots)) = Len(d.roots) - 1
        /\ ToSet(d.roots) \subseteq ToSet(Tail(d.roots)) \cup {m}
    <3> DEFINE q == d.roots
               N == DOMAIN adj
    <3>1. q \in Seq(N) /\ q # <<>>
      BY <1>1, <2>1
    <3> HIDE DEF q, N
    <3>2. /\ Len(q) \in Nat \ {0} /\ DOMAIN q = 1..Len(q) /\ Head(q) = q[1] /\ q[1] \in N
          /\ Tail(q) \in Seq(N) /\ Len(Tail(q)) = Len(q) - 1 /\ \A i \in 1..(Len(q) - 1) : Tail(q)[i] = q[i + 1]
      <4>1. Len(q) # 0
        BY <3>1, EmptySeq
      <4> QED
        BY <3>1, <4>1
    <3>3. ASSUME NEW i \in DOMAIN q PROVE q[i] = Head(q) \/ q[i] \in ToSet(Tail(q))
      <4>1. CASE i = 1
        BY <3>2, <4>1
      <4>2. CASE i # 1
        <5>1. i - 1 \in 1..(Len(q) - 1) /\ (i - 1) + 1 = i
          BY <3>2, <4>2
        <5>2. q[i] = Tail(q)[i - 1] /\ i - 1 \in DOMAIN Tail(q)
          BY <3>2, <5>1
        <5> QED
          BY <5>2 DEF ToSet
      <4> QED
        BY <4>1, <4>2
    <3>4. ToSet(q) \subseteq ToSet(Tail(q)) \cup {Head(q)}
      BY <3>3 DEF ToSet
    <3> QED
      BY <3>2, <3>4 DEF q, N
  <2>3. /\ DOMAIN next = {"visited", "frames", "roots", "cycles", "truncated"} /\ next.roots = Tail(d.roots)
        /\ next.visited = d.visited /\ next.frames = d.frames /\ next.cycles = d.cycles /\ next.truncated = d.truncated
    BY <1>1 DEF Stacked
  <2> HIDE DEF next, m
  <2>4. \A i : NodeOn(next, i) = NodeOn(d, i) /\ DoneOn(next, i) = DoneOn(d, i)
    BY <2>3 DEF NodeOn, DoneOn
  <2>5. Stacked(adj, next)
    BY <1>1, <2>2, <2>3, <2>4 DEF Stacked
  <2>6. Left(next) = Left(d) /\ Todo(adj, next) = Todo(adj, d)
    BY <2>3, <2>4 DEF Left, OnPath, Todo
  <2>7. Keeps(adj, next) /\ Clean(adj, next)
    <3>1. Keeps(adj, next)
      BY <1>1, <2>3 DEF Keeps
    <3>2. Clean(adj, next)
      BY <1>1, <2>3, <2>4, <2>6 DEF Clean
    <3> QED
      BY <3>1, <3>2
  <2>8. CASE m \in d.visited
    BY <1>1, <2>1, <2>2, <2>3, <2>5, <2>6, <2>7, <2>8 DEF DepthFirst
  <2>9. CASE m \notin d.visited
    <3>1. r = Enter(next, m)
      BY <2>1, <2>9
    <3> DEFINE x == <<m, 0>>
    <3>2. r = [next EXCEPT !.visited = @ \cup {m}, !.frames = Append(@, x)]
      BY <3>1 DEF Enter
    <3> HIDE DEF x
    <3>3. /\ DOMAIN r = DOMAIN next /\ r.visited = next.visited \cup {m} /\ r.roots = next.roots
          /\ r.cycles = next.cycles /\ r.truncated = next.truncated /\ r.frames = Append(next.frames, x)
      BY <2>3, <3>2
    <3>4. next.frames = <<>> /\ Append(next.frames, x) = <<x>>
      BY <1>5, <2>3
    <3>5. Enters(next, r, m) /\ Len(next.frames) = 0
      BY <3>3, <3>4 DEF Enters, x, ToSet
    <3>6. m \in DOMAIN adj /\ m \notin next.visited
      BY <2>2, <2>3, <2>9
    <3>7. Entered(adj, next, r)
      <4>1. LeadsTo(adj, next, m)
        BY <3>4 DEF LeadsTo
      <4> QED
        BY <2>5, <3>5, <3>6, <4>1, EntersKeeps
    <3>8. next.cycles = {} => /\ Graded(adj, Left(next))
                              /\ \A i \in 1..Len(next.frames) : \A l \in 1..DoneOn(next, i) :
                                    adj[NodeOn(next, i)][l] \in Left(next) \/ l = DoneOn(next, i)
      <4>1. 1..Len(next.frames) = {}
        BY <3>5
      <4> QED
        BY <2>7, <4>1 DEF Clean
    <3>9. Clean(adj, r)
      BY <2>5, <3>5, <3>6, <3>7, <3>8, EntersClean
    <3>10. Keeps(adj, r) /\ r.roots = Tail(d.roots) /\ r.visited = d.visited \cup {m}
      BY <2>3, <2>7, <3>3 DEF Keeps
    <3>11. DOMAIN adj \subseteq r.visited \cup ToSet(r.roots)
      BY <1>1, <2>2, <3>10
    <3> QED
      BY <2>2, <2>6, <3>7, <3>9, <3>10, <3>11 DEF DepthFirst, Entered
  <2> QED
    BY <2>8, <2>9
<1>6. Cardinality(Todo(adj, d)) \in Nat
  BY TodoShrinks
<1>7. ASSUME ~Ended(d) PROVE DepthFirst(adj, r) /\ Ahead(adj, r) \in Nat /\ Ahead(adj, r) < Ahead(adj, d)
  <2>1. CASE d.frames # <<>>
    <3>1. Cardinality(Todo(adj, r)) \in Nat
      <4>1. Todo(adj, r) \subseteq Todo(adj, r)
        OBVIOUS
      <4> QED
        BY <4>1, TodoShrinks
    <3> QED
      BY <1>1, <1>4, <1>6, <1>7, <2>1, <3>1 DEF Ahead
  <2>2. CASE d.frames = <<>>
    <3>1. DepthFirst(adj, r) /\ Len(r.roots) = Len(d.roots) - 1 /\ Todo(adj, r) \subseteq Todo(adj, d)
      BY <1>5, <1>7, <2>2
    <3>2. /\ Cardinality(Todo(adj, r)) \in Nat /\ Cardinality(Todo(adj, r)) <= Cardinality(Todo(adj, d))
      BY <3>1, TodoShrinks
    <3>3. Len(r.roots) \in Nat
      BY <3>1 DEF DepthFirst, Stacked
    <3> QED
      BY <1>1, <1>6, <3>1, <3>2, <3>3 DEF Ahead
  <2> QED
    BY <2>1, <2>2
<1>8. Ahead(adj, d) \in Nat
  BY <1>1, <1>6 DEF Ahead
<1> QED
  BY <1>3, <1>7, <1>8

LEMMA EndReached ==
  ASSUME NEW adj, Adjacency(adj), IsFiniteSet(Slots(adj)), NEW d, DepthFirst(adj, d), Ahead(adj, d) <= 0
  PROVE  Ended(d)
<1>1. /\ Stacked(adj, d) /\ Len(d.roots) \in Nat
  BY DEF DepthFirst, Stacked
<1>2. Cardinality(Todo(adj, d)) \in Nat /\ IsFiniteSet(Todo(adj, d))
  <2>1. Todo(adj, d) \subseteq Slots(adj)
    BY DEF Todo
  <2> QED
    BY <2>1, FS_Subset, FS_CardinalityType
<1>3. Cardinality(Todo(adj, d)) = 0 /\ Len(d.roots) = 0
  BY <1>1, <1>2 DEF Ahead
<1>4. Todo(adj, d) = {} /\ d.roots = <<>>
  <2>1. Todo(adj, d) = {}
    BY <1>2, <1>3, FS_EmptySet
  <2>2. d.roots \in Seq(DOMAIN adj)
    BY <1>1 DEF Stacked
  <2> QED
    BY <1>3, <2>1, <2>2, EmptySeq
<1>5. d.frames = <<>>
  <2> SUFFICES ASSUME d.frames # <<>> PROVE FALSE
    OBVIOUS
  <2> DEFINE n == NodeOn(d, 1)
             j == DoneOn(d, 1)
  <2>1. 1 \in 1..Len(d.frames)
    BY <1>1, StackFields
  <2>2. n \in DOMAIN adj /\ j \in 0..Len(adj[n])
    BY <1>1, <2>1, StackFields
  <2> HIDE DEF n, j
  <2>3. <<n, j>> \in Slots(adj)
    BY <2>2, SlotIs
  <2> DEFINE s == <<n, j>>
  <2>4. s[1] = n /\ s[2] = j /\ j <= j
    BY <2>2
  <2>5. s \in Todo(adj, d)
    BY <2>1, <2>3, <2>4 DEF Todo, n, j
  <2> QED
    BY <1>4, <2>5
<1> QED
  BY <1>4, <1>5 DEF Ended

LEMMA DepthFirstEnds ==
  ASSUME NEW adj, Adjacency(adj), IsFiniteSet(Slots(adj)), NEW start, DepthFirst(adj, start),
         NEW n \in Nat, n = Ahead(adj, start), NEW f, DfsFold!IsRun(f, adj, start, UpTo(n), n)
  PROVE  DepthFirst(adj, f[n]) /\ Ended(f[n])
<1> DEFINE S == {i \in 0..n : DepthFirst(adj, f[i]) /\ (Ended(f[i]) \/ Ahead(adj, f[i]) <= n - i)}
<1>1. f[0] = start /\ \A i \in 1..n : f[i] = Dfs(adj, f[i - 1])
  BY DEF DfsFold!IsRun, DfsStep
<1>2. 0 \in S
  BY <1>1
<1>3. ASSUME NEW i \in 1..n, i - 1 \in S PROVE i \in S
  <2>1. DepthFirst(adj, f[i - 1]) /\ (Ended(f[i - 1]) \/ Ahead(adj, f[i - 1]) <= n - (i - 1))
    BY <1>3
  <2>2. /\ Ahead(adj, f[i - 1]) \in Nat /\ Ahead(adj, f[i]) \in Nat
        /\ DepthFirst(adj, f[i])
        /\ Ended(f[i - 1]) => f[i] = f[i - 1]
        /\ ~Ended(f[i - 1]) => Ahead(adj, f[i]) < Ahead(adj, f[i - 1])
    BY <1>1, <2>1, DfsSearches
  <2>3. Ended(f[i]) \/ Ahead(adj, f[i]) <= n - i
    <3>1. CASE Ended(f[i - 1])
      BY <2>2, <3>1
    <3>2. CASE ~Ended(f[i - 1])
      <4>1. Ahead(adj, f[i]) < Ahead(adj, f[i - 1]) /\ Ahead(adj, f[i - 1]) <= n - (i - 1)
        BY <2>1, <2>2, <3>2
      <4> QED
        BY <2>2, <4>1
    <3> QED
      BY <3>1, <3>2
  <2>4. i \in 0..n
    OBVIOUS
  <2> QED
    BY <2>2, <2>3, <2>4
<1>4. 0..n \subseteq S
  <2> HIDE DEF S
  <2> QED
    BY <1>2, <1>3, DfsFold!InductionUpTo
<1>5. DepthFirst(adj, f[n]) /\ (Ended(f[n]) \/ Ahead(adj, f[n]) <= n - n)
  <2>1. n \in S
    <3> HIDE DEF S
    <3> QED
      BY <1>4
  <2> QED
    BY <2>1
<1> QED
  BY <1>5, EndReached

----------------------------------------------------------------------------
(* The neighbours of dependency_cycles are what a node depends on *)

Lists(q, x) == \E i \in 1..Len(q) : q[i] = x

LEMMA ConcatMembers ==
  ASSUME NEW X, NEW p \in Seq(X), NEW q \in Seq(X)
  PROVE  p \o q \in Seq(X) /\ \A x : Lists(p \o q, x) <=> Lists(p, x) \/ Lists(q, x)
<1>1. /\ p \o q \in Seq(X) /\ Len(p \o q) = Len(p) + Len(q) /\ Len(p) \in Nat /\ Len(q) \in Nat
      /\ \A i \in 1..(Len(p) + Len(q)) : (p \o q)[i] = IF i <= Len(p) THEN p[i] ELSE q[i - Len(p)]
  BY ConcatProperties
<1> DEFINE r == p \o q
           m == Len(p)
           n == Len(q)
<1>2. r \in Seq(X) /\ Len(r) = m + n /\ m \in Nat /\ n \in Nat
      /\ \A i \in 1..(m + n) : r[i] = IF i <= m THEN p[i] ELSE q[i - m]
  BY <1>1
<1> HIDE DEF r, m, n
<1>3. \A i \in 1..m : i \in 1..(m + n) /\ r[i] = p[i]
  BY <1>2
<1>4. \A i \in 1..n : m + i \in 1..(m + n) /\ r[m + i] = q[i]
  <2> TAKE i \in 1..n
  <2>1. m + i \in 1..(m + n) /\ ~(m + i <= m) /\ (m + i) - m = i
    BY <1>2
  <2> QED
    BY <1>2, <2>1
<1>5. \A i \in 1..(m + n) : i \in 1..m \/ \E j \in 1..n : i = m + j
  <2> TAKE i \in 1..(m + n)
  <2>1. i \in 1..m \/ (i - m \in 1..n /\ i = m + (i - m))
    BY <1>2
  <2> QED
    BY <2>1
<1>6. ASSUME NEW x
      PROVE  (\E i \in 1..(m + n) : r[i] = x) <=> (\E i \in 1..m : p[i] = x) \/ (\E i \in 1..n : q[i] = x)
  BY <1>3, <1>4, <1>5
<1> QED
  BY <1>2, <1>6 DEF Lists, r, m, n

CyclePick(c, found, e) == IF CycleEdge(c[1], c[2], e) /\ SourceNode(e) = c[3] THEN Append(found, e) ELSE found
CycleFold == INSTANCE FoldTheorems WITH Step <- CyclePick, Greatest <- Max

CycleRows(graph, scope, m) == Which(LAMBDA e : CycleEdge(graph, scope, e) /\ SourceNode(e) = m, graph.edges)

LEMMA CycleRowsAre ==
  ASSUME NEW graph, graph.edges \in Seq(Rows(graph)), NEW scope, NEW m
  PROVE  /\ CycleRows(graph, scope, m) \in Seq(Rows(graph))
         /\ ToSet(CycleRows(graph, scope, m)) = {e \in Rows(graph) : CycleEdge(graph, scope, e) /\ SourceNode(e) = m}
<1> DEFINE n == Len(graph.edges)
           c == <<graph, scope, m>>
           T == {e \in Rows(graph) : CycleEdge(graph, scope, e) /\ SourceNode(e) = m}
           rows == CycleRows(graph, scope, m)
           iter == CHOOSE iter : CycleFold!Iterates(iter, c, <<>>, graph.edges, DOMAIN graph.edges)
<1>1. n \in Nat /\ DOMAIN graph.edges = 1..n /\ Rows(graph) = {graph.edges[i] : i \in DOMAIN graph.edges}
  BY DEF Rows, ToSet
<1>2. CycleFold!GreatestUpTo(n)
  BY <1>1, MaxIsGreatest DEF CycleFold!GreatestUpTo
<1>3. CycleFold!Iterates(iter, c, <<>>, graph.edges, DOMAIN graph.edges)
  <2>1. \E it : CycleFold!Iterates(it, c, <<>>, graph.edges, 1..n)
    <3> HIDE DEF n, c
    <3> QED
      BY <1>1, <1>2, CycleFold!IterationExists
  <2> HIDE DEF n, c
  <2> QED
    BY <1>1, <2>1
<1>4. rows = iter[DOMAIN graph.edges]
  BY DEF CycleRows, Which, FoldLeft, MapThenFoldSet, CycleFold!Iterates, CyclePick
<1> HIDE DEF iter, rows
<1>5. PICK h : CycleFold!IsRun(h, c, <<>>, graph.edges, n) /\ rows = h[n]
  <2> HIDE DEF n, c
  <2> QED
    BY <1>1, <1>2, <1>3, <1>4, CycleFold!FoldRuns
<1>6. CycleFold!Selects(h, graph.edges, T)
  BY <1>1, <1>5 DEF CycleFold!IsRun, CycleFold!Selects, CyclePick
<1> HIDE DEF T
<1>7. /\ h[Len(graph.edges)] \in Seq(Rows(graph))
      /\ \A x : (\E i \in DOMAIN h[Len(graph.edges)] : h[Len(graph.edges)][i] = x)
                   <=> x \in T /\ \E i \in DOMAIN graph.edges : graph.edges[i] = x
  BY <1>6, CycleFold!RunSelects
<1>8. \A x \in T : \E i \in DOMAIN graph.edges : graph.edges[i] = x
  BY <1>1 DEF T
<1>9. \A x : x \in ToSet(rows) <=> x \in T
  BY <1>5, <1>7, <1>8 DEF ToSet
<1> QED
  BY <1>5, <1>7, <1>9 DEF T, rows

LEMMA NodesAre ==
  ASSUME NEW graph, WellFormed(graph), NEW scope
  PROVE  /\ CycleNodes(graph, scope) \subseteq Int /\ IsFiniteSet(CycleNodes(graph, scope))
         /\ IsFiniteSet(SymbolNodes(graph, scope)) /\ SymbolNodes(graph, scope) \subseteq Nat \ {0}
         /\ IsFiniteSet(graph.files \cap scope) /\ graph.files \cap scope \subseteq Nat \ {0}
         /\ \A n \in CycleNodes(graph, scope) : n > 0 <=> n \in SymbolNodes(graph, scope)
         /\ \A s \in SymbolNodes(graph, scope) : FileNode(FileAt(graph, s)) \in CycleNodes(graph, scope)
<1> DEFINE S == SymbolNodes(graph, scope)
           F == graph.files \cap scope
           X == {FileNode(f) : f \in F}
<1>1. /\ IsFiniteSet(Symbols(graph)) /\ Symbols(graph) \subseteq Nat \ {0}
      /\ IsFiniteSet(graph.files) /\ graph.files \subseteq Nat \ {0}
      /\ \A s \in Symbols(graph) : FileAt(graph, s) \in graph.files
  BY DEF WellFormed, NoSymbol
<1>2. IsFiniteSet(S) /\ S \subseteq Nat \ {0} /\ S \subseteq Symbols(graph)
  <2>1. S \subseteq Symbols(graph)
    BY DEF SymbolNodes
  <2> QED
    BY <1>1, <2>1, FS_Subset
<1>3. IsFiniteSet(F) /\ F \subseteq Nat \ {0}
  <2>1. F \subseteq graph.files
    OBVIOUS
  <2> HIDE DEF F
  <2> QED
    BY <1>1, <2>1, FS_Subset
<1>4. IsFiniteSet(X) /\ \A x \in X : x \in Int /\ x < 0
  <2> DEFINE negate == [f \in F |-> FileNode(f)]
  <2>1. negate \in Surjection(F, X)
    BY DEF Surjection
  <2>2. \A f \in F : FileNode(f) \in Int /\ FileNode(f) < 0
    BY <1>3 DEF FileNode
  <2> HIDE DEF negate, F
  <2>3. \A x \in X : x \in Int /\ x < 0
    BY <2>2
  <2> HIDE DEF X
  <2> QED
    BY <1>3, <2>1, <2>3, FS_Surjection
<1>5. CycleNodes(graph, scope) = X \cup S
  BY DEF CycleNodes
<1>6. \A s \in S : FileNode(FileAt(graph, s)) \in X
  BY <1>1, <1>2 DEF SymbolNodes
<1> HIDE DEF S, F, X
<1>7. IsFiniteSet(X \cup S)
  BY <1>2, <1>4, FS_Union
<1> QED
  BY <1>2, <1>3, <1>4, <1>5, <1>6, <1>7 DEF S, F

LEMMA AdjacentIs ==
  ASSUME NEW graph, WellFormed(graph), NEW scope, NEW n \in CycleNodes(graph, scope), NEW q, q = Adjacent(graph, scope)[n]
  PROVE  /\ q \in Seq(CycleNodes(graph, scope))
         /\ \A m : (\E i \in 1..Len(q) : q[i] = m) <=> <<n, m>> \in DependsOn(graph, scope)
<1> DEFINE N == CycleNodes(graph, scope)
           out == CycleRows(graph, scope, n)
           own == IF n > 0 THEN <<FileNode(FileAt(graph, n))>> ELSE <<>>
           far == [i \in 1..Len(out) |-> out[i].tgt]
           T == {e \in Rows(graph) : CycleEdge(graph, scope, e) /\ SourceNode(e) = n}
<1>1. /\ N \subseteq Int /\ \A x \in N : x > 0 <=> x \in SymbolNodes(graph, scope)
      /\ \A s \in SymbolNodes(graph, scope) : FileNode(FileAt(graph, s)) \in N
      /\ SymbolNodes(graph, scope) \subseteq N /\ n \in N
  BY NodesAre DEF CycleNodes
<1>2. q = own \o far
  BY DEF Adjacent, CycleRows
<1>3. out \in Seq(Rows(graph)) /\ ToSet(out) = T /\ Len(out) \in Nat /\ ToSet(out) = {out[i] : i \in 1..Len(out)}
  <2>1. out \in Seq(Rows(graph)) /\ ToSet(out) = T
    <3>1. graph.edges \in Seq(Rows(graph))
      BY DEF WellFormed
    <3> QED
      BY <3>1, CycleRowsAre
  <2> HIDE DEF out, T
  <2> QED
    BY <2>1 DEF ToSet
<1>4. far \in Seq(N) /\ \A m : (\E i \in 1..Len(far) : far[i] = m) <=> \E e \in T : m = e.tgt
  <2>1. \A e \in T : e.tgt \in N
    BY <1>1 DEF CycleEdge
  <2> HIDE DEF out, T, N
  <2>2. \A i \in 1..Len(out) : out[i] \in T /\ far[i] = out[i].tgt
    BY <1>3
  <2>3. far \in Seq(N) /\ Len(far) = Len(out)
    <3>1. far \in [1..Len(out) -> N]
      BY <2>1, <2>2
    <3> HIDE DEF far
    <3> QED
      BY <1>3, <3>1
  <2> HIDE DEF far
  <2>4. \A e \in T : \E i \in 1..Len(out) : out[i] = e
    BY <1>3
  <2> QED
    BY <2>2, <2>3, <2>4
<1>5. own \in Seq(N) /\ \A m : (\E i \in 1..Len(own) : own[i] = m)
                                 <=> n \in SymbolNodes(graph, scope) /\ m = FileNode(FileAt(graph, n))
  <2> HIDE DEF N
  <2>1. CASE n > 0
    <3>1. n \in SymbolNodes(graph, scope)
      BY <1>1, <2>1
    <3>2. own = <<FileNode(FileAt(graph, n))>>
      BY <2>1
    <3> HIDE DEF own
    <3> QED
      BY <1>1, <3>1, <3>2
  <2>2. CASE ~(n > 0)
    <3>1. n \notin SymbolNodes(graph, scope) /\ own = <<>>
      BY <1>1, <2>2
    <3> HIDE DEF own
    <3> QED
      BY <3>1
  <2> QED
    BY <2>1, <2>2
<1> HIDE DEF own, far, N, out
<1>6. /\ q \in Seq(N)
      /\ \A m : (\E i \in 1..Len(q) : q[i] = m)
                  <=> (\E i \in 1..Len(own) : own[i] = m) \/ (\E i \in 1..Len(far) : far[i] = m)
  <2>1. own \in Seq(N) /\ far \in Seq(N)
    BY <1>4, <1>5
  <2>2. q \in Seq(N) /\ \A m : Lists(q, m) <=> Lists(own, m) \/ Lists(far, m)
    BY <1>2, <2>1, ConcatMembers
  <2> QED
    BY <2>2 DEF Lists
<1>7. ASSUME NEW e \in Rows(graph)
      PROVE  /\ e.tgt \in Symbols(graph) /\ e.tgt \in Nat \ {0} /\ e.file \in Nat \ {0}
             /\ FileAt(graph, e.tgt) \in Nat \ {0} /\ FileAt(graph, e.tgt) \in graph.files
             /\ (e.src # NoSource => e.src \in Symbols(graph) /\ e.src \in Nat \ {0} /\ FileAt(graph, e.src) = e.file)
  BY DEF WellFormed, NoSymbol
<1>8. ASSUME NEW e \in Rows(graph), NEW m
      PROVE  (CycleEdge(graph, scope, e) /\ SourceNode(e) = n /\ m = e.tgt)
               <=> /\ e.file \in scope /\ FileAt(graph, e.tgt) \in scope
                   /\ \/ e.src \notin {NoSource, e.tgt} /\ <<n, m>> = <<e.src, e.tgt>>
                      \/ e.src = NoSource /\ e.file # FileAt(graph, e.tgt) /\ <<n, m>> = <<FileNode(e.file), e.tgt>>
  <2> DEFINE f == FileAt(graph, e.tgt)
  <2>1. e.tgt \in SymbolNodes(graph, scope) <=> f \in scope
    BY <1>7 DEF SymbolNodes
  <2>2. CASE e.src = NoSource
    <3>1. SourceNode(e) = FileNode(e.file) /\ FileNode(e.file) # e.tgt /\ (FileNode(e.file) # FileNode(f) <=> e.file # f)
      BY <1>7, <2>2 DEF SourceNode, FileNode
    <3> HIDE DEF f
    <3> QED
      BY <2>1, <2>2, <3>1 DEF CycleEdge, f
  <2>3. CASE e.src # NoSource
    <3>1. SourceNode(e) = e.src /\ e.src # FileNode(f)
      BY <1>7, <2>3 DEF SourceNode, FileNode
    <3> HIDE DEF f
    <3> QED
      BY <2>1, <2>3, <3>1 DEF CycleEdge, f
  <2> QED
    BY <2>2, <2>3
<1>9. ASSUME NEW m
      PROVE  <<n, m>> \in DependsOn(graph, scope)
                <=> \/ n \in SymbolNodes(graph, scope) /\ m = FileNode(FileAt(graph, n))
                    \/ \E e \in Rows(graph) :
                          /\ e.file \in scope /\ FileAt(graph, e.tgt) \in scope
                          /\ \/ e.src \notin {NoSource, e.tgt} /\ <<n, m>> = <<e.src, e.tgt>>
                             \/ e.src = NoSource /\ e.file # FileAt(graph, e.tgt) /\ <<n, m>> = <<FileNode(e.file), e.tgt>>
  <2> DEFINE rows == {e \in Rows(graph) : e.file \in scope /\ FileAt(graph, e.tgt) \in scope}
             A == {<<s, FileNode(FileAt(graph, s))>> : s \in {t \in Symbols(graph) : FileAt(graph, t) \in scope}}
             B == {<<e.src, e.tgt>> : e \in {r \in rows : r.src \notin {NoSource, r.tgt}}}
             C == {<<FileNode(e.file), e.tgt>> :
                     e \in {r \in rows : r.src = NoSource /\ r.file # FileAt(graph, r.tgt)}}
  <2>1. DependsOn(graph, scope) = A \cup B \cup C
    BY DEF DependsOn, Attributed
  <2>2. <<n, m>> \in A <=> n \in SymbolNodes(graph, scope) /\ m = FileNode(FileAt(graph, n))
    BY DEF SymbolNodes
  <2>3. <<n, m>> \in B <=> \E e \in Rows(graph) :
           /\ e.file \in scope /\ FileAt(graph, e.tgt) \in scope
           /\ e.src \notin {NoSource, e.tgt} /\ <<n, m>> = <<e.src, e.tgt>>
    OBVIOUS
  <2>4. <<n, m>> \in C <=> \E e \in Rows(graph) :
           /\ e.file \in scope /\ FileAt(graph, e.tgt) \in scope
           /\ e.src = NoSource /\ e.file # FileAt(graph, e.tgt) /\ <<n, m>> = <<FileNode(e.file), e.tgt>>
    OBVIOUS
  <2> HIDE DEF A, B, C
  <2> QED
    BY <2>1, <2>2, <2>3, <2>4
<1>10. ASSUME NEW m
       PROVE  (\E i \in 1..Len(q) : q[i] = m) <=> <<n, m>> \in DependsOn(graph, scope)
  <2>1. (\E i \in 1..Len(q) : q[i] = m)
           <=> \/ n \in SymbolNodes(graph, scope) /\ m = FileNode(FileAt(graph, n))
               \/ \E e \in Rows(graph) : CycleEdge(graph, scope, e) /\ SourceNode(e) = n /\ m = e.tgt
    BY <1>4, <1>5, <1>6
  <2> QED
    BY <1>8, <1>9, <2>1
<1> QED
  BY <1>6, <1>10 DEF N

Ascending(S) == InOrder(S, <)

(* Integers listed in their order are listed once *)
LEMMA InOrderOnce ==
  ASSUME NEW S, S \subseteq Int, IsFiniteSet(S)
  PROVE  ListsOnce(Ascending(S), S)
<1> DEFINE R == {p \in S \X S : p[1] < p[2]}
           q == Ascending(S)
           below(x) == {y \in S : y < x}
           ranked(i) == CHOOSE x \in S : Rank(S, R, x) = i - 1
           placed(i) == CHOOSE x \in S : Cardinality(below(x)) = i - 1
<1>1. \A x, y \in S : <<x, y>> \in R <=> x < y
  OBVIOUS
<1>2. Orders(R, S)
  <2> HIDE DEF R
  <2>1. \A x \in S : <<x, x>> \notin R
    BY <1>1
  <2>2. \A x, y \in S : x # y => <<x, y>> \in R \/ <<y, x>> \in R
    BY <1>1
  <2>3. \A x, y, z \in S : <<x, y>> \in R /\ <<y, z>> \in R => <<x, z>> \in R
    <3> SUFFICES ASSUME NEW x \in S, NEW y \in S, NEW z \in S, <<x, y>> \in R, <<y, z>> \in R PROVE <<x, z>> \in R
      OBVIOUS
    <3>1. x < y /\ y < z /\ x \in Int /\ y \in Int /\ z \in Int
      BY <1>1
    <3> QED
      BY <1>1, <3>1
  <2> QED
    BY <2>1, <2>2, <2>3 DEF Orders
<1>3. \A x \in S : Rank(S, R, x) = Cardinality(below(x))
  <2> TAKE x \in S
  <2>1. {y \in S : <<y, x>> \in R} = below(x)
    <3> HIDE DEF R
    <3> QED
      BY <1>1
  <2> QED
    BY <2>1 DEF Rank
<1>4. q = [i \in 1..Cardinality(S) |-> placed(i)]
  BY DEF Ascending, InOrder
<1>5. \A i : ranked(i) = placed(i)
  <2> HIDE DEF R, below
  <2>1. \A i : \A x : (x \in S /\ Rank(S, R, x) = i - 1) <=> (x \in S /\ Cardinality(below(x)) = i - 1)
    BY <1>3
  <2> QED
    BY <2>1
<1>6. q = [i \in 1..Cardinality(S) |-> ranked(i)]
  <2> HIDE DEF q, ranked, placed
  <2> QED
    BY <1>4, <1>5
<1> HIDE DEF q, R
<1> QED
  BY <1>2, <1>6, RanksList DEF Ranked, q

LEMMA RootsCover ==
  ASSUME NEW graph, WellFormed(graph), NEW scope
  PROVE  Roots(graph, scope) \in Seq(CycleNodes(graph, scope)) /\ CycleNodes(graph, scope) \subseteq ToSet(Roots(graph, scope))
<1> DEFINE N == CycleNodes(graph, scope)
           S == SymbolNodes(graph, scope)
           F == graph.files \cap scope
           files == Ascending(F)
           symbols == Ascending(S)
           first == [i \in DOMAIN files |-> FileNode(files[i])]
           roots == Roots(graph, scope)
<1>1. /\ IsFiniteSet(S) /\ S \subseteq Int /\ IsFiniteSet(F) /\ F \subseteq Int
      /\ N = {FileNode(f) : f \in F} \cup S
  <2>1. /\ IsFiniteSet(S) /\ S \subseteq Nat \ {0} /\ IsFiniteSet(F) /\ F \subseteq Nat \ {0}
    BY NodesAre
  <2> QED
    BY <2>1 DEF CycleNodes
<1>2. roots = first \o symbols
  BY DEF Roots, Ascending
<1> HIDE DEF S, F, N, roots, first
<1>3. ListsOnce(files, F) /\ ListsOnce(symbols, S)
  BY <1>1, InOrderOnce
<1> HIDE DEF files, symbols
<1>4. symbols \in Seq(N) /\ \A x \in S : \E i \in 1..Len(symbols) : symbols[i] = x
  BY <1>1, <1>3, WidenSeq DEF ListsOnce
<1>5. first \in Seq(N) /\ \A f \in F : \E i \in 1..Len(first) : first[i] = FileNode(f)
  <2>1. /\ files \in Seq(F) /\ Len(files) \in Nat /\ DOMAIN files = 1..Len(files)
        /\ \A i \in 1..Len(files) : files[i] \in F
        /\ \A f \in F : \E i \in 1..Len(files) : files[i] = f
    BY <1>3 DEF ListsOnce
  <2>2. first = [i \in 1..Len(files) |-> FileNode(files[i])]
    BY <2>1 DEF first
  <2>3. first \in [1..Len(files) -> N]
    BY <1>1, <2>1, <2>2
  <2>4. first \in Seq(N) /\ Len(first) = Len(files)
    BY <2>1, <2>3
  <2> QED
    BY <2>1, <2>2, <2>4
<1>6. /\ roots \in Seq(N)
      /\ \A x : (\E i \in 1..Len(roots) : roots[i] = x)
                  <=> (\E i \in 1..Len(first) : first[i] = x) \/ (\E i \in 1..Len(symbols) : symbols[i] = x)
  <2>1. first \in Seq(N) /\ symbols \in Seq(N)
    BY <1>4, <1>5
  <2>2. roots \in Seq(N) /\ \A x : Lists(roots, x) <=> Lists(first, x) \/ Lists(symbols, x)
    BY <1>2, <2>1, ConcatMembers
  <2> QED
    BY <2>2 DEF Lists
<1>7. \A x \in N : \E i \in 1..Len(roots) : roots[i] = x
  BY <1>1, <1>4, <1>5, <1>6
<1>8. N \subseteq ToSet(roots)
  <2>1. DOMAIN roots = 1..Len(roots)
    BY <1>6
  <2> QED
    BY <1>7, <2>1 DEF ToSet
<1> QED
  BY <1>6, <1>8 DEF N, roots

LEMMA AdjacencyOf ==
  ASSUME NEW graph, WellFormed(graph), NEW scope
  PROVE  Adjacency(Adjacent(graph, scope)) /\ DOMAIN Adjacent(graph, scope) = CycleNodes(graph, scope)
<1>1. DOMAIN Adjacent(graph, scope) = CycleNodes(graph, scope)
  BY DEF Adjacent
<1>2. \A n \in CycleNodes(graph, scope) : Adjacent(graph, scope)[n] \in Seq(CycleNodes(graph, scope))
  BY AdjacentIs
<1>3. IsFiniteSet(CycleNodes(graph, scope)) /\ CycleNodes(graph, scope) \subseteq Int
  BY NodesAre
<1> QED
  BY <1>1, <1>2, <1>3 DEF Adjacency

LEMMA SlotsFinite ==
  ASSUME NEW adj, Adjacency(adj)
  PROVE  IsFiniteSet(Slots(adj))
<1> DEFINE of(n) == {n} \X (0..Len(adj[n]))
           all == {of(n) : n \in DOMAIN adj}
           f == [n \in DOMAIN adj |-> of(n)]
<1>1. \A n \in DOMAIN adj : IsFiniteSet(of(n))
  <2> TAKE n \in DOMAIN adj
  <2>1. IsFiniteSet({n}) /\ IsFiniteSet(0..Len(adj[n]))
    <3>1. Len(adj[n]) \in Int
      BY DEF Adjacency
    <3>2. IsFiniteSet(0..Len(adj[n]))
      BY <3>1, FS_Interval
    <3> QED
      BY <3>2, FS_Singleton
  <2> QED
    BY <2>1, FS_Product
<1>2. f \in Surjection(DOMAIN adj, all)
  BY DEF Surjection
<1>3. \A x \in all : IsFiniteSet(x)
  BY <1>1
<1>4. Slots(adj) = UNION all
  BY DEF Slots
<1> HIDE DEF all, f
<1>5. IsFiniteSet(all)
  BY <1>2, FS_Surjection DEF Adjacency
<1> QED
  BY <1>3, <1>4, <1>5, FS_UNION

LEMMA CyclesSearched ==
  ASSUME NEW graph, WellFormed(graph), NEW scope
  PROVE  DepthFirst(Adjacent(graph, scope), FindCycles(graph, scope)) /\ Ended(FindCycles(graph, scope))
<1> DEFINE adj == Adjacent(graph, scope)
           roots == Roots(graph, scope)
           start == [visited |-> {}, frames |-> <<>>, roots |-> roots, cycles |-> {}, truncated |-> FALSE]
           n == Len(roots) + Cardinality(Slots(adj))
<1>1. Adjacency(adj) /\ roots \in Seq(DOMAIN adj) /\ DOMAIN adj \subseteq ToSet(roots) /\ IsFiniteSet(Slots(adj))
  BY AdjacencyOf, RootsCover, SlotsFinite
<1>2. /\ DOMAIN start = {"visited", "frames", "roots", "cycles", "truncated"}
      /\ start.visited = {} /\ start.frames = <<>> /\ start.roots = roots /\ start.cycles = {} /\ start.truncated = FALSE
  OBVIOUS
<1>3. \E f : /\ DfsFold!IsRun(f, adj, start, UpTo(n), n) /\ FindCycles(graph, scope) = f[n]
  <2>1. Len(roots) \in Nat /\ Cardinality(Slots(adj)) \in Nat
    BY <1>1, FS_CardinalityType
  <2>2. UpTo(n) \in Seq(Nat) /\ Len(UpTo(n)) = n
    BY <2>1 DEF UpTo
  <2> QED
    BY <2>2, DepthFirstRuns
<1> HIDE DEF start, adj, roots
<1>4. Len(start.frames) = 0 /\ 1..Len(start.frames) = {} /\ OnPath(start) = {} /\ Left(start) = {}
  <2>1. Len(start.frames) = 0 /\ 1..0 = {}
    BY <1>2
  <2> QED
    BY <1>2, <2>1 DEF OnPath, Left
<1>5. Stacked(adj, start)
  <2>1. start.frames \in Seq((DOMAIN adj) \X Nat) /\ start.roots \in Seq(DOMAIN adj) /\ start.visited \subseteq DOMAIN adj
    BY <1>1, <1>2
  <2>2. 1..(Len(start.frames) - 1) = {}
    BY <1>4
  <2> QED
    BY <1>2, <1>4, <2>1, <2>2 DEF Stacked
<1>6. Keeps(adj, start)
  BY <1>2, FS_EmptySet DEF Keeps
<1>7. Clean(adj, start)
  <2>1. Graded(adj, {})
    <3>1. [x \in {} |-> 0] \in [{} -> 0..0]
      OBVIOUS
    <3> QED
      BY <3>1 DEF Graded
  <2> QED
    BY <1>4, <2>1 DEF Clean
<1>8. DepthFirst(adj, start)
  BY <1>1, <1>2, <1>5, <1>6, <1>7 DEF DepthFirst
<1>9. Ahead(adj, start) = n /\ n \in Nat
  <2>1. \A s \in Slots(adj) : s[1] \notin start.visited
    BY <1>2
  <2>2. Todo(adj, start) = Slots(adj)
    BY <2>1 DEF Todo
  <2>3. Len(roots) \in Nat /\ Cardinality(Slots(adj)) \in Nat
    BY <1>1, FS_CardinalityType
  <2> QED
    BY <1>2, <2>2, <2>3 DEF Ahead
<1> HIDE DEF n
<1>10. PICK f : DfsFold!IsRun(f, adj, start, UpTo(n), n) /\ FindCycles(graph, scope) = f[n]
  BY <1>3
<1>11. DepthFirst(adj, f[n]) /\ Ended(f[n])
  BY <1>1, <1>8, <1>9, <1>10, DepthFirstEnds
<1> QED
  BY <1>10, <1>11 DEF adj

----------------------------------------------------------------------------
(* Cycles and what depends on what *)

After(pairs, n) == {p[2] : p \in {q \in pairs : q[1] = n}}
(* The arcs are pairs, each an arc *)
Draws(pairs, adj) ==
    /\ pairs \subseteq (DOMAIN adj) \X (DOMAIN adj)
    /\ \A n \in DOMAIN adj : \A m : Arc(adj, n, m) <=> <<n, m>> \in pairs

(* Some of the arcs, as pairs *)
Along(pairs, adj) ==
    \A p \in pairs : p \in (DOMAIN adj) \X (DOMAIN adj) /\ Arc(adj, p[1], p[2])

LEMMA DependsDrawn ==
  ASSUME NEW graph, WellFormed(graph), NEW scope
  PROVE  Draws(DependsOn(graph, scope), Adjacent(graph, scope))
<1> DEFINE N == CycleNodes(graph, scope)
           D == DependsOn(graph, scope)
           adj == Adjacent(graph, scope)
<1>1. DOMAIN adj = N
  BY AdjacencyOf
<1>2. ASSUME NEW n \in N
      PROVE  /\ \A m : Arc(adj, n, m) <=> <<n, m>> \in D
             /\ \A m : <<n, m>> \in D => m \in N
  <2> DEFINE q == adj[n]
  <2>1. q \in Seq(N) /\ \A m : (\E i \in 1..Len(q) : q[i] = m) <=> <<n, m>> \in D
    BY AdjacentIs
  <2>2. \A m : Arc(adj, n, m) <=> \E i \in 1..Len(q) : q[i] = m
    BY DEF Arc
  <2> HIDE DEF q, D, N, adj
  <2> QED
    BY <2>1, <2>2
<1>3. ASSUME NEW p \in D PROVE p[1] \in N /\ p = <<p[1], p[2]>>
  <2>1. /\ \A e \in Rows(graph) : e.src # NoSource => e.src \in Symbols(graph) /\ FileAt(graph, e.src) = e.file
        /\ \A e \in Rows(graph) : e.file \in graph.files
    BY DEF WellFormed
  <2>2. SymbolNodes(graph, scope) \subseteq N /\ \A f \in graph.files \cap scope : FileNode(f) \in N
    BY DEF CycleNodes
  <2>3. CASE \E s \in Symbols(graph) : FileAt(graph, s) \in scope /\ p = <<s, FileNode(FileAt(graph, s))>>
    BY <2>2, <2>3 DEF SymbolNodes
  <2>4. CASE \E e \in Rows(graph) : e.file \in scope /\ e.src # NoSource /\ p = <<e.src, e.tgt>>
    <3>1. PICK e \in Rows(graph) : e.file \in scope /\ e.src # NoSource /\ p = <<e.src, e.tgt>>
      BY <2>4
    <3>2. e.src \in SymbolNodes(graph, scope)
      BY <2>1, <3>1 DEF SymbolNodes
    <3> QED
      BY <2>2, <3>1, <3>2
  <2>5. CASE \E e \in Rows(graph) : e.file \in scope /\ p = <<FileNode(e.file), e.tgt>>
    BY <2>1, <2>2, <2>5
  <2>6. \/ \E s \in Symbols(graph) : FileAt(graph, s) \in scope /\ p = <<s, FileNode(FileAt(graph, s))>>
        \/ \E e \in Rows(graph) : e.file \in scope /\ e.src # NoSource /\ p = <<e.src, e.tgt>>
        \/ \E e \in Rows(graph) : e.file \in scope /\ p = <<FileNode(e.file), e.tgt>>
    BY DEF DependsOn, Attributed
  <2> QED
    BY <2>3, <2>4, <2>5, <2>6
<1> HIDE DEF D, N, adj
<1>4. D \subseteq N \X N
  <2> SUFFICES ASSUME NEW p \in D PROVE p \in N \X N
    OBVIOUS
  <2>1. p[1] \in N /\ p = <<p[1], p[2]>>
    BY <1>3
  <2>2. p[2] \in N
    BY <1>2, <2>1
  <2> QED
    BY <2>1, <2>2
<1> QED
  BY <1>1, <1>2, <1>4 DEF Draws, D, adj

(* In a graded set no node comes back to itself *)
LEMMA NoReturn ==
  ASSUME NEW adj, Graded(adj, DOMAIN adj), NEW pairs, Along(pairs, adj), NEW n \in DOMAIN adj, NEW k \in Nat
  PROVE  n \notin Within(pairs, After(pairs, n), k)
<1>1. PICK B \in Nat : \E rank \in [DOMAIN adj -> 0..B] :
         \A m \in DOMAIN adj : \A i \in 1..Len(adj[m]) : adj[m][i] \in DOMAIN adj /\ rank[adj[m][i]] < rank[m]
  BY DEF Graded
<1>2. PICK rank \in [DOMAIN adj -> 0..B] :
         \A m \in DOMAIN adj : \A i \in 1..Len(adj[m]) : adj[m][i] \in DOMAIN adj /\ rank[adj[m][i]] < rank[m]
  BY <1>1
<1>3. ASSUME NEW p \in pairs PROVE p[1] \in DOMAIN adj /\ p[2] \in DOMAIN adj /\ rank[p[2]] < rank[p[1]]
  <2>1. p[1] \in DOMAIN adj /\ p[2] \in DOMAIN adj
    BY DEF Along
  <2>2. Arc(adj, p[1], p[2])
    BY DEF Along
  <2> QED
    BY <1>2, <2>1, <2>2 DEF Arc
<1> DEFINE S == {m \in DOMAIN adj : rank[m] < rank[n]}
<1>4. After(pairs, n) \subseteq S
  BY <1>3 DEF After
<1>5. Closed(pairs, S)
  <2> SUFFICES ASSUME NEW p \in pairs, p[1] \in S PROVE p[2] \in S
    BY DEF Closed
  <2>1. rank[p[2]] \in Int /\ rank[p[1]] \in Int /\ rank[n] \in Int
    BY <1>3
  <2> QED
    BY <1>3, <2>1
<1>6. n \notin S
  <2>1. rank[n] \in Int
    OBVIOUS
  <2> QED
    BY <2>1
<1> HIDE DEF S
<1>7. Within(pairs, After(pairs, n), k) \subseteq S
  BY <1>4, <1>5, WithinStays
<1> QED
  BY <1>6, <1>7

(* A loop through distinct nodes, each with the next *)
LEMMA LoopSteps ==
  ASSUME NEW adj, NEW pairs, Draws(pairs, adj), NEW c, Loop(adj, c)
  PROVE  IsInjective(c) /\ \A i \in DOMAIN c : <<c[i], c[(i % Len(c)) + 1]>> \in pairs
<1> DEFINE n == Len(c)
<1>1. n \in Nat \ {0} /\ DOMAIN c = 1..n /\ \A i \in 1..n : c[i] \in DOMAIN adj
  BY DEF Loop
<1>2. \A i, j \in 1..n : c[i] = c[j] => i = j
  <2> SUFFICES ASSUME NEW i \in 1..n, NEW j \in 1..n, i # j PROVE c[i] # c[j]
    OBVIOUS
  <2>1. i < j \/ j < i
    OBVIOUS
  <2> QED
    BY <2>1 DEF Loop
<1>3. ASSUME NEW i \in 1..n PROVE <<c[i], c[(i % n) + 1]>> \in pairs
  <2>1. CASE i = n
    <3>1. i % n = 0
      BY <1>1, <2>1
    <3>2. Arc(adj, c[n], c[1]) /\ (i % n) + 1 = 1
      BY <3>1 DEF Loop
    <3> QED
      BY <1>1, <2>1, <3>2 DEF Draws
  <2>2. CASE i # n
    <3>1. i % n = i /\ i \in 1..(n - 1)
      <4> HIDE DEF n
      <4>1. n \in Nat /\ i \in Nat /\ i < n /\ i \in 1..(n - 1)
        BY <1>1, <2>2
      <4> QED
        BY <4>1
    <3>2. Arc(adj, c[i], c[i + 1])
      BY <3>1 DEF Loop
    <3> QED
      BY <1>1, <3>1, <3>2 DEF Draws
  <2> QED
    BY <2>1, <2>2
<1> QED
  BY <1>1, <1>2, <1>3 DEF IsInjective

IsTurn(c, k, e) == e = SubSeq(c, k, Len(c)) \o SubSeq(c, 1, k - 1)

LEMMA TurnIs ==
  ASSUME NEW X, NEW c \in Seq(X), NEW k \in 1..Len(c), NEW e, IsTurn(c, k, e)
  PROVE  e \in Seq(X) /\ Len(e) = Len(c) /\ \A i \in 1..Len(c) : e[i] = c[Turned(Len(c), k, i)]
<1>1. e = SubSeq(c, k, Len(c)) \o SubSeq(c, 1, k - 1)
  BY DEF IsTurn
<1> QED
  BY <1>1, RotationIs

(* Turned to its least node a loop is turned back to itself *)
LEMMA TurnedOnce ==
  ASSUME NEW adj, Adjacency(adj), NEW c, NEW e, Loop(adj, c), LeastFirst(c), Loop(adj, e), LeastFirst(e),
         ToSet(c) = ToSet(e), NEW k \in DOMAIN c, IsTurn(c, k, e)
  PROVE  c = e
<1> DEFINE n == Len(c)
<1>1. /\ n \in Nat \ {0} /\ DOMAIN c = 1..n /\ c \in Seq(DOMAIN adj) /\ k \in 1..n /\ 1 \in 1..n
      /\ \A i \in 1..n : c[i] \in Int
  <2>1. c \in Seq(DOMAIN adj) /\ Len(c) >= 1 /\ DOMAIN adj \subseteq Int
    BY DEF Loop, Adjacency
  <2>2. \A i \in 1..n : c[i] \in DOMAIN adj
    BY <2>1
  <2> QED
    BY <2>1, <2>2
<1>2. e \in Seq(DOMAIN adj) /\ Len(e) = n /\ \A i \in 1..n : e[i] = c[Turned(n, k, i)]
  <2>1. c \in Seq(DOMAIN adj) /\ k \in 1..Len(c)
    BY <1>1
  <2>2. e \in Seq(DOMAIN adj) /\ Len(e) = Len(c) /\ \A i \in 1..Len(c) : e[i] = c[Turned(Len(c), k, i)]
    BY <2>1, TurnIs
  <2> QED
    BY <2>2
<1>3. e[1] = c[k]
  <2>1. Turned(n, k, 1) = k
    BY <1>1 DEF Turned
  <2> QED
    BY <1>1, <1>2, <2>1
<1>4. c[k] <= c[1]
  <2>1. c[1] \in ToSet(c)
    BY <1>1 DEF ToSet
  <2>2. DOMAIN e = 1..n /\ c[1] \in ToSet(e)
    BY <1>2, <2>1
  <2>3. PICK j \in 1..n : e[j] = c[1]
    BY <2>2 DEF ToSet
  <2> QED
    BY <1>2, <1>3, <2>3 DEF LeastFirst
<1>5. c[1] <= c[k]
  BY <1>1 DEF LeastFirst
<1>6. c[k] = c[1]
  BY <1>1, <1>4, <1>5
<1>7. k = 1
  BY <1>1, <1>6 DEF Loop
<1>8. \A i \in 1..n : e[i] = c[i]
  <2> TAKE i \in 1..n
  <2>1. Turned(n, 1, i) = i
    BY <1>1 DEF Turned
  <2> QED
    BY <1>2, <1>7, <2>1
<1>9. c = [i \in 1..n |-> c[i]] /\ e = [i \in 1..n |-> e[i]]
  BY <1>1, <1>2
<1> HIDE DEF n
<1> QED
  BY <1>8, <1>9

(* What an answer r of dependency_cycles says of the edges with a source, *)
(* and of the pairs it searched along                                     *)
CyclesMean(edges, pairs, same, r) ==
    LET ends   == {p[1] : p \in edges}
        listed == IF same THEN r.cycles ELSE r.cross
    IN  /\ (\E n \in ends : n \in Within(edges, After(edges, n), Cardinality(ends))) => r.cycles # {}
        /\ \A c \in r.cycles : /\ IsInjective(c)
                               /\ \A i \in DOMAIN c : <<c[i], c[(i % Len(c)) + 1]>> \in pairs
        /\ \A c, e \in r.cycles : c # e /\ ToSet(c) = ToSet(e) => \A k \in DOMAIN c : ~IsTurn(c, k, e)
        /\ ~r.truncated => r.returned = Cardinality(listed)

LEMMA SearchedAll ==
  ASSUME NEW adj, NEW d, DepthFirst(adj, d), Ended(d), d.cycles = {}
  PROVE  Graded(adj, DOMAIN adj)
<1>1. d.frames = <<>> /\ d.roots = <<>>
  BY DEF DepthFirst, Keeps, Ended
<1>2. d.visited = DOMAIN adj
  <2>1. ToSet(<<>>) = {}
    BY DEF ToSet
  <2> QED
    BY <1>1, <2>1 DEF DepthFirst, Stacked
<1>3. Left(d) = DOMAIN adj
  <2>1. Len(d.frames) = 0 /\ 1..0 = {}
    BY <1>1
  <2>2. OnPath(d) = {}
    BY <2>1 DEF OnPath
  <2> QED
    BY <1>2, <2>2 DEF Left
<1> QED
  BY <1>3 DEF DepthFirst, Clean

LEMMA CyclesAnswer ==
  ASSUME NEW graph, WellFormed(graph), NEW limit \in Nat, NEW scope, NEW same \in BOOLEAN,
         NEW r, r = DependencyCycles(graph, limit, scope, same)
  PROVE  CyclesMean(Attributed(graph, scope), DependsOn(graph, scope), same, r)
<1> DEFINE edges == Attributed(graph, scope)
           pairs == DependsOn(graph, scope)
           adj == Adjacent(graph, scope)
           d == FindCycles(graph, scope)
           ends == {p[1] : p \in edges}
           cross == {c \in d.cycles : CrossFile(graph, c)}
           listed == IF same THEN d.cycles ELSE cross
           returned == AtMost(Clamp(limit, 1, MaxCycles), Cardinality(listed))
<1>1. /\ Adjacency(adj) /\ Draws(pairs, adj) /\ DepthFirst(adj, d) /\ Ended(d)
  BY AdjacencyOf, DependsDrawn, CyclesSearched
<1>2. /\ r.cycles = d.cycles /\ r.cross = cross /\ r.returned = returned
      /\ r.truncated = (d.truncated \/ Cardinality(listed) > returned)
  BY DEF DependencyCycles
<1>3. Along(edges, adj)
  <2>1. edges \subseteq pairs
    BY DEF DependsOn
  <2> HIDE DEF edges, pairs, adj
  <2>2. \A p \in pairs : p \in (DOMAIN adj) \X (DOMAIN adj) /\ p = <<p[1], p[2]>>
    BY <1>1 DEF Draws
  <2> QED
    BY <1>1, <2>1, <2>2 DEF Draws, Along
<1> HIDE DEF edges, pairs, adj, d
<1>4. ASSUME NEW c \in d.cycles PROVE Loop(adj, c) /\ LeastFirst(c)
  BY <1>1 DEF DepthFirst, Keeps
<1>5. IsFiniteSet(ends) /\ Cardinality(ends) \in Nat /\ ends \subseteq DOMAIN adj
  <2>1. ends \subseteq DOMAIN adj
    BY <1>3 DEF Along
  <2>2. IsFiniteSet(DOMAIN adj)
    BY <1>1 DEF Adjacency
  <2> HIDE DEF ends
  <2> QED
    BY <2>1, <2>2, FS_Subset, FS_CardinalityType
<1>6. (\E n \in ends : n \in Within(edges, After(edges, n), Cardinality(ends))) => d.cycles # {}
  <2> SUFFICES ASSUME d.cycles = {}, NEW n \in ends PROVE n \notin Within(edges, After(edges, n), Cardinality(ends))
    OBVIOUS
  <2>1. Graded(adj, DOMAIN adj)
    BY <1>1, SearchedAll
  <2>2. n \in DOMAIN adj
    BY <1>5
  <2> HIDE DEF ends
  <2> QED
    BY <1>5, <1>3, <2>1, <2>2, NoReturn
<1>7. \A c \in d.cycles : /\ IsInjective(c)
                          /\ \A i \in DOMAIN c : <<c[i], c[(i % Len(c)) + 1]>> \in pairs
  BY <1>1, <1>4, LoopSteps
<1>8. \A c, e \in d.cycles : c # e /\ ToSet(c) = ToSet(e) => \A k \in DOMAIN c : ~IsTurn(c, k, e)
  BY <1>1, <1>4, TurnedOnce
<1>9. ~r.truncated => returned = Cardinality(listed)
  <2>1. IsFiniteSet(d.cycles)
    BY <1>1 DEF DepthFirst, Keeps
  <2>2. IsFiniteSet(listed) /\ Cardinality(listed) \in Nat
    BY <2>1, FS_Subset, FS_CardinalityType
  <2>3. Clamp(limit, 1, MaxCycles) \in Nat
    BY CapAssumption DEF Clamp
  <2>4. returned \in Nat /\ (Cardinality(listed) > returned \/ returned = Cardinality(listed))
    <3> HIDE DEF listed
    <3> QED
      BY <2>2, <2>3 DEF AtMost
  <2> HIDE DEF listed, returned
  <2> QED
    BY <1>2, <2>4
<1> HIDE DEF ends, listed, returned, cross
<1>10. /\ (\E n \in ends : n \in Within(edges, After(edges, n), Cardinality(ends))) => r.cycles # {}
       /\ \A c \in r.cycles : /\ IsInjective(c)
                              /\ \A i \in DOMAIN c : <<c[i], c[(i % Len(c)) + 1]>> \in pairs
       /\ \A c, e \in r.cycles : c # e /\ ToSet(c) = ToSet(e) => \A k \in DOMAIN c : ~IsTurn(c, k, e)
       /\ ~r.truncated => r.returned = Cardinality(listed)
  BY <1>2, <1>6, <1>7, <1>8, <1>9
<1>11. listed = IF same THEN r.cycles ELSE r.cross
  BY <1>2 DEF listed
<1> QED
  BY <1>10, <1>11 DEF CyclesMean, edges, pairs, ends
============================================================================
