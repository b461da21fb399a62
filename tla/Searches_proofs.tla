-------------------------- MODULE Searches_proofs --------------------------
(***************************************************************************)
(* What search_codebase returns and the order in which two lists of        *)
(* results are fused, in every session, whatever the index and the files.  *)
(***************************************************************************)
EXTENDS Queries_proofs

----------------------------------------------------------------------------
(* Sets of results                                                         *)

LEMMA ImageFinite ==
  ASSUME NEW S, IsFiniteSet(S), NEW f, DOMAIN f = S
  PROVE  IsFiniteSet({f[x] : x \in S}) /\ Cardinality({f[x] : x \in S}) <= Cardinality(S)
<1> DEFINE T == {f[x] : x \in S}
           h == [x \in S |-> f[x]]
<1>1. h \in [S -> T] /\ \A y \in T : \E x \in S : h[x] = y
  OBVIOUS
<1> HIDE DEF T, h
<1>2. h \in Surjection(S, T)
  BY <1>1 DEF Surjection
<1> QED
  BY <1>2, FS_Surjection DEF T

(* The first of a finite set in an order *)
LEMMA FirstExists ==
  ASSUME NEW S, IsFiniteSet(S), S # {}, NEW R, Orders(R, S)
  PROVE  \E x \in S : \A y \in S : y # x => <<x, y>> \in R
<1>1. Cardinality(S) \in Nat /\ Cardinality(S) # 0
  BY FS_CardinalityType, FS_EmptySet
<1>2. PICK x \in S : Rank(S, R, x) = 1 - 1
  <2>1. 1 \in 1..Cardinality(S)
    BY <1>1
  <2> QED
    BY <2>1, RanksExist
<1>3. {y \in S : <<y, x>> \in R} = {}
  <2> DEFINE B == {y \in S : <<y, x>> \in R}
  <2>1. IsFiniteSet(B)
    BY FS_Subset
  <2>2. Cardinality(B) = 0
    BY <1>2 DEF Rank
  <2> HIDE DEF B
  <2>3. B = {}
    BY <2>1, <2>2, FS_EmptySet
  <2> QED
    BY <2>3 DEF B
<1> QED
  BY <1>3 DEF Orders

LEMMA MaxIsMember ==
  ASSUME NEW S, IsFiniteSet(S), S # {}, S \subseteq Int
  PROVE  Max(S) \in S /\ \A y \in S : y <= Max(S)
<1> DEFINE R == {p \in S \X S : p[1] > p[2]}
<1>1. \A x, y \in S : <<x, y>> \in R <=> x > y
  OBVIOUS
<1> HIDE DEF R
<1>2. Orders(R, S)
  BY <1>1 DEF Orders
<1>3. PICK x \in S : \A y \in S : y # x => <<x, y>> \in R
  BY <1>2, FirstExists
<1>4. \A y \in S : x >= y
  <2> TAKE y \in S
  <2>1. x \in Int /\ y \in Int /\ (y = x \/ x > y)
    BY <1>1, <1>3
  <2> QED
    BY <2>1
<1>5. \E z \in S : \A y \in S : z >= y
  BY <1>4
<1>6. Max(S) \in S /\ \A y \in S : Max(S) >= y
  BY <1>5 DEF Max
<1> QED
  BY <1>6

----------------------------------------------------------------------------
(* What the search by name finds                                           *)

(* Likeness and degrees are numbers *)
Scored(graph, t) ==
    /\ \A s \in Symbols(graph) :
          /\ NameAt(graph, s) \in Nat /\ NameLikeness[t][NameAt(graph, s)] \in Int
          /\ FeaturesOf(graph, s).in \in Nat /\ FeaturesOf(graph, s).out \in Nat
          /\ FeaturesOf(graph, s).pagerank \in Nat
    /\ \A f \in graph.files :
          /\ graph.path[f] \in Nat /\ FileName[graph.path[f]] \in Nat /\ PathBoost[graph.path[f]] \in Int
          /\ PathLikeness[t][graph.path[f]] \in Int /\ FileLikeness[t][graph.path[f]] \in Int
          /\ Live[f].text \in Seq(Nat) /\ Live[f].hits \subseteq DOMAIN Live[f].text

LEMMA LookupsScored == ASSUME NEW graph \in Lookups, NEW t \in Texts PROVE Scored(graph, t)
BY LikenessAssumption DEF Scored

LEMMA ScoresAreNumbers ==
  ASSUME NEW base \in Int, NEW f, f.in \in Nat, f.out \in Nat, f.pagerank \in Nat
  PROVE  RetrievalScore(base, f) \in Int
<1> DEFINE kind  == CASE f.entry -> 15 [] ~f.entry /\ f.callable -> 11 [] OTHER -> 10
           local == IF f.local THEN 3 ELSE 10
           rank  == 100 + AtMost(f.pagerank, 150)
           n == base * kind * local * rank
<1>1. kind \in Int /\ local \in Int /\ rank \in Int
  BY DEF AtMost
<1> HIDE DEF kind, local, rank
<1>2. n \in Int
  <2>1. base * kind \in Int
    BY <1>1
  <2> DEFINE a == base * kind
  <2> HIDE DEF a
  <2>2. a * local \in Int
    BY <1>1, <2>1 DEF a
  <2> DEFINE b == a * local
  <2> HIDE DEF b
  <2>3. b * rank \in Int
    BY <1>1, <2>2 DEF b
  <2> QED
    BY <2>3 DEF a, b
<1>3. RetrievalScore(base, f) = ToInteger(n, 10000) + 2 * f.in + f.out
  BY DEF RetrievalScore, kind, local, rank
<1> HIDE DEF n
<1>4. ToInteger(n, 10000) \in Int
  BY <1>2 DEF ToInteger
<1> QED
  BY <1>3, <1>4

Fields == {"path", "name", "kind", "sym", "score", "level", "exact", "line", "leg"}
Result(r) ==
    DOMAIN r = Fields /\ r.name \in Nat /\ r.path \in Nat /\ r.score \in Int /\ r.exact \in BOOLEAN

LEMMA SymbolHitIs ==
  ASSUME NEW graph, NEW t, WellFormed(graph), Scored(graph, t), NEW s \in Symbols(graph)
  PROVE  LET h == SymbolHit(graph, t, s)
         IN  /\ Result(h) /\ h.sym = s /\ s \in Nat /\ h.name = NameAt(graph, s) /\ h.leg = 1
             /\ h.path = graph.path[FileAt(graph, s)]
             /\ h.exact <=> NameLikeness[t][h.name] >= 1000
<1> DEFINE path == graph.path[FileAt(graph, s)]
           likeness == NameLikeness[t][NameAt(graph, s)]
           base == likeness + PathLikeness[t][path] + PathBoost[path]
<1>1. s \in Nat /\ FileAt(graph, s) \in graph.files
  BY DEF WellFormed
<1>2. /\ NameAt(graph, s) \in Nat /\ path \in Nat /\ likeness \in Int /\ base \in Int
      /\ FeaturesOf(graph, s).in \in Nat /\ FeaturesOf(graph, s).out \in Nat
      /\ FeaturesOf(graph, s).pagerank \in Nat
  BY <1>1 DEF Scored
<1>3. SymbolHit(graph, t, s) =
         [path |-> path, name |-> NameAt(graph, s), kind |-> graph.sym[s].kind, sym |-> s,
          score |-> RetrievalScore(base, FeaturesOf(graph, s)),
          level |-> Level(likeness), exact |-> likeness >= 1000, line |-> NoLine, leg |-> 1]
  BY DEF SymbolHit
<1>4. RetrievalScore(base, FeaturesOf(graph, s)) \in Int
  <2> HIDE DEF base
  <2> QED
    BY <1>2, ScoresAreNumbers
<1> DEFINE h == SymbolHit(graph, t, s)
           score == RetrievalScore(base, FeaturesOf(graph, s))
<1> HIDE DEF base
<1>5. /\ h.sym = s /\ h.name = NameAt(graph, s) /\ h.path = path /\ h.score = score /\ h.leg = 1
      /\ h.exact = (likeness >= 1000) /\ DOMAIN h = Fields
  <2> HIDE DEF path, likeness, score
  <2> QED
    BY <1>3 DEF score, Fields
<1> HIDE DEF h
<1>6. h.exact <=> NameLikeness[t][h.name] >= 1000
  BY DEF h, SymbolHit
<1> QED
  BY <1>1, <1>2, <1>4, <1>5, <1>6 DEF path, h, Result

LEMMA SymbolHitsAre ==
  ASSUME NEW graph, NEW t, WellFormed(graph), Scored(graph, t), NEW scope
  PROVE  /\ IsFiniteSet(SymbolHits(graph, t, scope))
         /\ \A h \in SymbolHits(graph, t, scope) :
               \E s \in Symbols(graph) : h = SymbolHit(graph, t, s) /\ h.score > 0
<1> DEFINE S == Symbols(graph)
           f == [s \in S |-> SymbolHit(graph, t, s)]
           T == {f[s] : s \in S}
<1>1. IsFiniteSet(S)
  BY DEF WellFormed
<1>2. IsFiniteSet(T)
  <2>1. DOMAIN f = S
    OBVIOUS
  <2> HIDE DEF f, S
  <2> QED
    BY <1>1, <2>1, ImageFinite
<1>3. \A h \in SymbolHits(graph, t, scope) :
         \E s \in Symbols(graph) : h = SymbolHit(graph, t, s) /\ h.score > 0
  BY DEF SymbolHits
<1>4. SymbolHits(graph, t, scope) \subseteq T
  BY <1>3
<1> HIDE DEF T
<1> QED
  BY <1>2, <1>3, <1>4, FS_Subset

(* Results of symbols, one of each, that score *)
Scoring(H) ==
    /\ IsFiniteSet(H)
    /\ \A h \in H : Result(h) /\ h.score > 0 /\ h.sym \in Nat /\ h.leg = 1
    /\ \A h, k \in H : h.sym = k.sym => h = k

LEMMA BestIs ==
  ASSUME NEW K, Scoring(K), K # {}
  PROVE  Best(K) \in K /\ \A k \in K : k.score <= Best(K).score
<1> DEFINE over(x, y) == x.score > y.score \/ (x.score = y.score /\ x.sym < y.sym)
           R == {p \in K \X K : over(p[1], p[2])}
           top == {h \in K : \A k \in K : k.score <= h.score}
<1>1. \A x, y \in K : <<x, y>> \in R <=> x.score > y.score \/ (x.score = y.score /\ x.sym < y.sym)
  <2>1. \A x, y \in K : <<x, y>> \in R <=> over(x, y)
    <3> HIDE DEF over
    <3> QED
      OBVIOUS
  <2> QED
    BY <2>1
<1>2. \A x \in K : x.score \in Int /\ x.sym \in Nat
  BY DEF Scoring, Result
<1>3. \A x, y \in K : x.sym = y.sym => x = y
  BY DEF Scoring
<1> HIDE DEF R
<1>4. Orders(R, K)
  <2>1. \A x \in K : <<x, x>> \notin R
    BY <1>1, <1>2
  <2>2. \A x, y \in K : x # y => <<x, y>> \in R \/ <<y, x>> \in R
    BY <1>1, <1>2, <1>3
  <2>3. \A x, y, z \in K : <<x, y>> \in R /\ <<y, z>> \in R => <<x, z>> \in R
    BY <1>1, <1>2
  <2> QED
    BY <2>1, <2>2, <2>3 DEF Orders
<1>5. PICK h \in K : \A k \in K : k # h => <<h, k>> \in R
  BY <1>4, FirstExists DEF Scoring
<1>6. h \in top /\ \A k \in top : h.sym <= k.sym
  <2>1. \A k \in K : k = h \/ h.score > k.score \/ (h.score = k.score /\ h.sym < k.sym)
    BY <1>1, <1>5
  <2>2. \A k \in K : k.score <= h.score /\ (h.score <= k.score => h.sym <= k.sym)
    BY <1>2, <2>1
  <2> QED
    BY <2>2
<1>7. Best(K) \in top
  <2> HIDE DEF top
  <2>1. Best(K) = CHOOSE x \in top : \A k \in top : x.sym <= k.sym
    BY DEF Best, top
  <2> QED
    BY <1>6, <2>1
<1> QED
  BY <1>7

Namesake(H, n) == {k \in H : k.name = n}
Demoted(H, h) ==
    IF h = Best({k \in H : k.name = h.name}) THEN h
    ELSE [h EXCEPT !.score = ToInteger(7 * h.score, 10),
                   !.level = IF h.level = 3 THEN 2 ELSE h.level, !.exact = FALSE]

LEMMA DemotedIs ==
  ASSUME NEW H, Scoring(H), NEW h \in H
  PROVE  LET best == Best(Namesake(H, h.name))
             x == Demoted(H, h)
         IN  /\ Result(x) /\ x.name = h.name /\ x.leg = 1
             /\ (x = h /\ h = best) \/ (~x.exact /\ x.score < best.score)
<1> DEFINE N == Namesake(H, h.name)
           best == Best(N)
           x == Demoted(H, h)
<1>1. Result(h) /\ h.score > 0 /\ h.score \in Int /\ h.leg = 1 /\ DOMAIN h = Fields
  BY DEF Scoring, Result
<1>2. h \in N /\ Scoring(N)
  <2>1. IsFiniteSet(N)
    BY FS_Subset DEF Scoring, Namesake
  <2> QED
    BY <2>1 DEF Scoring, Namesake
<1>3. h.score <= best.score /\ best \in N
  <2> HIDE DEF N
  <2> QED
    BY <1>2, BestIs
<1>4. best.score \in Int
  BY <1>2, <1>3 DEF Scoring, Result
<1>5. CASE h = best
  <2>1. x = h
    BY <1>5 DEF Demoted, Namesake
  <2> HIDE DEF x, best
  <2>2. Result(x) /\ x.name = h.name /\ x.leg = 1 /\ x = h /\ h = best
    BY <1>1, <1>5, <2>1
  <2> QED
    BY <2>2 DEF x, best
<1>6. CASE h # best
  <2>1. x = [h EXCEPT !.score = ToInteger(7 * h.score, 10),
                      !.level = IF h.level = 3 THEN 2 ELSE h.level, !.exact = FALSE]
    BY <1>6 DEF Demoted, Namesake
  <2>2. ToInteger(7 * h.score, 10) \in Int /\ ToInteger(7 * h.score, 10) < h.score
    BY <1>1 DEF ToInteger
  <2> HIDE DEF x, best
  <2>3. /\ DOMAIN x = Fields /\ x.name = h.name /\ x.leg = h.leg /\ x.path = h.path
        /\ x.exact = FALSE /\ x.score = ToInteger(7 * h.score, 10)
    BY <1>1, <2>1 DEF Fields
  <2>4. Result(x) /\ x.name = h.name /\ x.leg = 1 /\ ~x.exact
    BY <1>1, <2>2, <2>3 DEF Result
  <2>5. x.score < best.score
    BY <1>1, <1>3, <1>4, <2>2, <2>3
  <2> QED
    BY <2>4, <2>5 DEF x, best
<1> QED
  BY <1>5, <1>6

LEMMA DemoteIs ==
  ASSUME NEW H, Scoring(H)
  PROVE  IsFiniteSet(Demote(H)) /\ \A x \in Demote(H) : \E h \in H : x = Demoted(H, h)
<1> DEFINE f == [h \in H |-> Demoted(H, h)]
<1>1. Demote(H) = {Demoted(H, h) : h \in H}
  BY DEF Demote, Demoted
<1>2. Demote(H) = {f[h] : h \in H}
  BY <1>1
<1>3. IsFiniteSet({f[h] : h \in H})
  <2>1. DOMAIN f = H /\ IsFiniteSet(H)
    BY DEF Scoring
  <2> HIDE DEF f
  <2> QED
    BY <2>1, ImageFinite
<1> QED
  BY <1>1, <1>2, <1>3

Rolled(H, p) ==
    [path |-> p, name |-> FileName[p], kind |-> "file_rollup", sym |-> NoSymbol,
     score |-> Max({h.score : h \in {k \in H : k.path = p}}), level |-> 1, exact |-> FALSE,
     line |-> NoLine, leg |-> 1]

LEMMA RollUpIs ==
  ASSUME NEW H, Scoring(H), \A h \in H : FileName[h.path] \in Nat
  PROVE  /\ IsFiniteSet(RollUp(H))
         /\ \A x \in RollUp(H) : Result(x) /\ x.leg = 1 /\ (x \in H \/ x.kind = "file_rollup")
<1> DEFINE P == {h.path : h \in H}
           f == [p \in P |-> Rolled(H, p)]
           path == [h \in H |-> h.path]
           Mine(p) == {h \in H : h.path = p}
           Of(p) == IF Cardinality(Mine(p)) = 1 THEN Mine(p) ELSE {Rolled(H, p)}
<1>1. RollUp(H) = UNION {Of(p) : p \in P}
  BY DEF RollUp, Rolled
<1>2. \A x \in RollUp(H) : x \in H \/ \E p \in P : x = Rolled(H, p)
  BY <1>1
<1>3. IsFiniteSet(H) /\ IsFiniteSet({f[p] : p \in P})
  <2>1. IsFiniteSet(H)
    BY DEF Scoring
  <2>2. IsFiniteSet({path[h] : h \in H})
    <3>1. DOMAIN path = H
      OBVIOUS
    <3> HIDE DEF path
    <3> QED
      BY <2>1, <3>1, ImageFinite
  <2>3. P = {path[h] : h \in H} /\ DOMAIN f = P
    OBVIOUS
  <2> HIDE DEF P, f, path
  <2> QED
    BY <2>1, <2>2, <2>3, ImageFinite
<1>4. IsFiniteSet(RollUp(H))
  <2>1. RollUp(H) \subseteq H \cup {f[p] : p \in P}
    BY <1>2
  <2> HIDE DEF f, P
  <2>2. IsFiniteSet(H \cup {f[p] : p \in P})
    BY <1>3, FS_Union
  <2> QED
    BY <2>1, <2>2, FS_Subset
<1>5. ASSUME NEW p \in P PROVE Result(Rolled(H, p)) /\ Rolled(H, p).leg = 1 /\ Rolled(H, p).kind = "file_rollup"
  <2> DEFINE K == {h \in H : h.path = p}
             scores == {h.score : h \in K}
  <2>1. PICK h \in H : h.path = p
    OBVIOUS
  <2>2. p \in Nat /\ FileName[p] \in Nat
    BY <2>1 DEF Scoring, Result
  <2>3. IsFiniteSet(scores) /\ scores # {} /\ scores \subseteq Int
    <3> DEFINE score == [k \in K |-> k.score]
    <3>1. IsFiniteSet(K)
      BY FS_Subset DEF Scoring
    <3>2. IsFiniteSet({score[k] : k \in K})
      <4>1. DOMAIN score = K
        OBVIOUS
      <4> HIDE DEF score, K
      <4> QED
        BY <3>1, <4>1, ImageFinite
    <3>3. scores = {score[k] : k \in K}
      OBVIOUS
    <3>4. scores \subseteq Int
      BY DEF Scoring, Result
    <3>5. h.score \in scores
      BY <2>1
    <3> QED
      BY <3>2, <3>3, <3>4, <3>5
  <2>4. Max(scores) \in Int
    <3> HIDE DEF scores
    <3> QED
      BY <2>3, MaxIsMember
  <2>5. Rolled(H, p) = [path |-> p, name |-> FileName[p], kind |-> "file_rollup", sym |-> NoSymbol,
                        score |-> Max(scores), level |-> 1, exact |-> FALSE, line |-> NoLine, leg |-> 1]
    BY DEF Rolled
  <2> HIDE DEF scores
  <2> QED
    BY <2>2, <2>4, <2>5 DEF Result, Fields
<1>6. \A h \in H : Result(h) /\ h.leg = 1
  BY DEF Scoring
<1> HIDE DEF P
<1> QED
  BY <1>2, <1>4, <1>5, <1>6

LEMMA FileHitsAre ==
  ASSUME NEW graph, NEW t, WellFormed(graph), Scored(graph, t), NEW scope
  PROVE  /\ IsFiniteSet(FileHits(graph, t, scope))
         /\ \A h \in FileHits(graph, t, scope) : Result(h) /\ h.leg = 2
<1> DEFINE F == graph.files \cap scope
           f == [x \in F |-> FileHit(graph, t, x)]
<1>1. FileHits(graph, t, scope) \subseteq {f[x] : x \in F}
  BY DEF FileHits
<1>2. IsFiniteSet({f[x] : x \in F})
  <2>1. IsFiniteSet(F) /\ DOMAIN f = F
    BY FS_Subset DEF WellFormed
  <2> HIDE DEF f, F
  <2> QED
    BY <2>1, ImageFinite
<1>3. ASSUME NEW x \in F PROVE Result(f[x]) /\ f[x].leg = 2
  <2> DEFINE p == graph.path[x]
             score == FileLikeness[t][p] + PathBoost[p]
  <2>1. p \in Nat /\ FileName[p] \in Nat /\ score \in Int
    BY DEF Scored
  <2>2. f[x] = [path |-> p, name |-> FileName[p], kind |-> "file", sym |-> NoSymbol,
                score |-> score, exact |-> score >= 800, line |-> NoLine, leg |-> 2,
                level |-> CASE score >= 800 -> 3 [] score \in 250..799 -> 2 [] OTHER -> 1]
    BY DEF FileHit
  <2> HIDE DEF f, p, score
  <2> QED
    BY <2>1, <2>2 DEF Result, Fields
<1> HIDE DEF f
<1> QED
  BY <1>1, <1>2, <1>3, FS_Subset

(* No two results of symbols tell the same of one name *)
OneExact(N) ==
    \A x, y \in N : /\ x.leg = 1 /\ y.leg = 1 /\ x.kind # "file_rollup" /\ y.kind # "file_rollup"
                    /\ x.name = y.name /\ x # y /\ x.score >= y.score
                    => ~y.exact

LEMMA NamesTell ==
  ASSUME NEW graph, NEW t, WellFormed(graph), Scored(graph, t), NEW scope
  PROVE  LET N == SearchSymbolNames(graph, t, scope)
         IN  IsFiniteSet(N) /\ OneExact(N) /\ \A x \in N : Result(x) /\ x.leg \in {1, 2}
<1> DEFINE N == SearchSymbolNames(graph, t, scope)
           hits == SymbolHits(graph, t, scope)
           named == {h \in hits : NameLikeness[t][h.name] > 0}
           rest == hits \ named
           files == FileHits(graph, t, scope)
<1>1. N = Demote(named) \cup RollUp(rest) \cup files
  BY DEF SearchSymbolNames
<1>2. /\ IsFiniteSet(hits)
      /\ \A h \in hits : /\ Result(h) /\ h.score > 0 /\ h.sym \in Nat /\ h.leg = 1 /\ FileName[h.path] \in Nat
                          /\ NameLikeness[t][h.name] \in Int /\ (h.exact <=> NameLikeness[t][h.name] >= 1000)
      /\ \A h, k \in hits : h.sym = k.sym => h = k
  <2>1. IsFiniteSet(hits)
    BY SymbolHitsAre
  <2>2. \A h \in hits : \E s \in Symbols(graph) : h = SymbolHit(graph, t, s) /\ h.score > 0
    BY SymbolHitsAre
  <2> HIDE DEF hits
  <2>3. ASSUME NEW h \in hits
        PROVE  /\ Result(h) /\ h.score > 0 /\ h.sym \in Nat /\ h.leg = 1 /\ FileName[h.path] \in Nat
               /\ NameLikeness[t][h.name] \in Int /\ (h.exact <=> NameLikeness[t][h.name] >= 1000)
               /\ h = SymbolHit(graph, t, h.sym)
    <3>1. PICK s \in Symbols(graph) : h = SymbolHit(graph, t, s) /\ h.score > 0
      BY <2>2
    <3>2. /\ Result(h) /\ h.sym = s /\ s \in Nat /\ h.name = NameAt(graph, s) /\ h.leg = 1
          /\ h.path = graph.path[FileAt(graph, s)]
          /\ h.exact <=> NameLikeness[t][h.name] >= 1000
      BY <3>1, SymbolHitIs
    <3>3. FileName[graph.path[FileAt(graph, s)]] \in Nat /\ NameLikeness[t][NameAt(graph, s)] \in Int
      BY DEF WellFormed, Scored
    <3> QED
      BY <3>1, <3>2, <3>3
  <2>4. \A h, k \in hits : h.sym = k.sym => h = k
    BY <2>3
  <2> QED
    BY <2>1, <2>3, <2>4
<1> HIDE DEF hits
<1>3. Scoring(named) /\ Scoring(rest)
  <2>1. IsFiniteSet(named) /\ IsFiniteSet(rest)
    BY <1>2, FS_Subset
  <2> QED
    BY <1>2, <2>1 DEF Scoring
<1>4. \A h \in rest : ~h.exact /\ FileName[h.path] \in Nat /\ ~(NameLikeness[t][h.name] > 0)
  BY <1>2
<1>5. \A h \in named : NameLikeness[t][h.name] > 0
  OBVIOUS
<1> HIDE DEF named, rest
<1>6. IsFiniteSet(Demote(named)) /\ \A x \in Demote(named) : \E h \in named : x = Demoted(named, h)
  BY <1>3, DemoteIs
<1>7. /\ IsFiniteSet(RollUp(rest))
      /\ \A x \in RollUp(rest) : Result(x) /\ x.leg = 1 /\ (x \in rest \/ x.kind = "file_rollup")
  BY <1>3, <1>4, RollUpIs
<1>8. IsFiniteSet(files) /\ \A x \in files : Result(x) /\ x.leg = 2
  BY FileHitsAre
<1>9. ASSUME NEW h \in named
      PROVE  LET best == Best(Namesake(named, h.name))
                 x == Demoted(named, h)
             IN  /\ Result(x) /\ x.name = h.name /\ x.leg = 1
                 /\ (x = h /\ h = best) \/ (~x.exact /\ x.score < best.score)
  BY <1>3, DemotedIs
<1>10. IsFiniteSet(N)
  BY <1>1, <1>6, <1>7, <1>8, FS_Union
<1>11. \A x \in N : Result(x) /\ x.leg \in {1, 2}
  BY <1>1, <1>6, <1>7, <1>8, <1>9
<1>12. ASSUME NEW x \in N, NEW y \in N, x.leg = 1, y.leg = 1, x.kind # "file_rollup", y.kind # "file_rollup",
              x.name = y.name, x # y, x.score >= y.score, y.exact
       PROVE  FALSE
  <2>1. x \notin files /\ y \notin files
    BY <1>8, <1>12
  <2>2. y \in Demote(named)
    BY <1>1, <1>4, <1>7, <1>12, <2>1
  <2>3. PICK k \in named : y = Demoted(named, k)
    BY <1>6, <2>2
  <2>4. y = k /\ k = Best(Namesake(named, k.name)) /\ y.name = k.name
    BY <1>9, <1>12, <2>3
  <2>5. x \in Demote(named)
    <3>1. NameLikeness[t][x.name] > 0
      BY <1>5, <1>12, <2>4
    <3> QED
      BY <1>1, <1>4, <1>7, <1>12, <2>1, <3>1
  <2>6. PICK h \in named : x = Demoted(named, h)
    BY <1>6, <2>5
  <2>7. x.name = h.name /\ h.name = k.name
    BY <1>9, <1>12, <2>4, <2>6
  <2>8. x.score < y.score
    <3>1. ~(x = h /\ h = Best(Namesake(named, h.name)))
      BY <1>12, <2>4, <2>7
    <3> QED
      BY <1>9, <2>4, <2>6, <2>7, <3>1
  <2>9. x.score \in Int /\ y.score \in Int
    BY <1>11 DEF Result
  <2> QED
    BY <1>12, <2>8, <2>9
<1>13. OneExact(N)
  BY <1>12 DEF OneExact
<1> QED
  BY <1>10, <1>11, <1>13

----------------------------------------------------------------------------
(* What the search of the files finds                                      *)

NothingScanned == [hits |-> {}, scanned |-> 0, truncated |-> FALSE]
ScanOf(graph, scope, limit, s) ==
    FoldLeft(LAMBDA acc, f : ScanFile(graph, Live, scope, limit, acc, f),
             [hits |-> {}, scanned |-> 0, truncated |-> FALSE], s)
ScanStep(c, acc, f) == ScanFile(c[1], Live, c[2], c[3], acc, f)
ScanFold == INSTANCE FoldTheorems WITH Step <- ScanStep, Greatest <- Max

LEMMA ScanRuns ==
  ASSUME NEW graph, NEW scope, NEW limit, NEW X, NEW s \in Seq(X)
  PROVE  \E f : /\ ScanFold!IsRun(f, <<graph, scope, limit>>, NothingScanned, s, Len(s))
                /\ ScanOf(graph, scope, limit, s) = f[Len(s)]
<1> DEFINE n == Len(s)
           c == <<graph, scope, limit>>
           b == NothingScanned
           end == ScanOf(graph, scope, limit, s)
           iter == CHOOSE iter : ScanFold!Iterates(iter, c, b, s, DOMAIN s)
<1>1. n \in Nat /\ DOMAIN s = 1..n
  OBVIOUS
<1>2. ScanFold!GreatestUpTo(n)
  BY <1>1, MaxIsGreatest DEF ScanFold!GreatestUpTo
<1>3. ScanFold!Iterates(iter, c, b, s, DOMAIN s)
  <2>1. \E it : ScanFold!Iterates(it, c, b, s, 1..n)
    <3> HIDE DEF n, c, b
    <3> QED
      BY <1>1, <1>2, ScanFold!IterationExists
  <2> HIDE DEF n, c, b
  <2> QED
    BY <1>1, <2>1
<1>4. end = iter[DOMAIN s]
  BY DEF ScanOf, NothingScanned, FoldLeft, MapThenFoldSet, ScanFold!Iterates, ScanStep
<1> HIDE DEF iter, end
<1>5. \E f : ScanFold!IsRun(f, c, b, s, n) /\ end = f[n]
  <2> HIDE DEF n, c, b
  <2> QED
    BY <1>1, <1>2, <1>3, <1>4, ScanFold!FoldRuns
<1> QED
  BY <1>5 DEF end

OfText(H) == IsFiniteSet(H) /\ \A h \in H : Result(h) /\ h.leg = 3

LEMMA ScanKeeps ==
  ASSUME NEW graph, NEW t, WellFormed(graph), Scored(graph, t), NEW scope, NEW limit,
         NEW acc, OfText(acc.hits), "hits" \in DOMAIN acc, NEW f \in graph.files
  PROVE  LET new == ScanFile(graph, Live, scope, limit, acc, f)
         IN  OfText(new.hits) /\ "hits" \in DOMAIN new
<1> DEFINE new == ScanFile(graph, Live, scope, limit, acc, f)
           room == limit - Cardinality(acc.hits)
           taken == Smallest(Live[f].hits, room)
           h == [l \in taken |-> TextHit(graph, Live, f, l)]
           cut == Cardinality(taken) = room /\ taken # {} /\ Max(taken) < Len(Live[f].text)
           grown == [hits |-> acc.hits \cup {TextHit(graph, Live, f, l) : l \in taken},
                     scanned |-> acc.scanned + IF Live[f] = Unreadable THEN 0 ELSE 1,
                     truncated |-> cut]
<1>1. new = acc \/ new = [acc EXCEPT !.truncated = TRUE] \/ new = grown
  BY DEF ScanFile
<1>2. Live[f].text \in Seq(Nat) /\ Live[f].hits \subseteq 1..Len(Live[f].text) /\ graph.path[f] \in Nat
  BY DEF Scored
<1>3. taken \subseteq Live[f].hits /\ IsFiniteSet(taken)
  <2>1. taken \subseteq Live[f].hits
    BY DEF Smallest
  <2> HIDE DEF taken
  <2>2. taken \subseteq 1..Len(Live[f].text) /\ Len(Live[f].text) \in Nat
    BY <1>2, <2>1
  <2>3. IsFiniteSet(1..Len(Live[f].text))
    BY <2>2, FS_Interval
  <2> QED
    BY <2>1, <2>2, <2>3, FS_Subset
<1>4. OfText({h[l] : l \in taken})
  <2>1. IsFiniteSet({h[l] : l \in taken})
    <3>1. DOMAIN h = taken
      OBVIOUS
    <3> HIDE DEF h, taken
    <3> QED
      BY <1>3, <3>1, ImageFinite
  <2>2. ASSUME NEW l \in taken PROVE Result(h[l]) /\ h[l].leg = 3
    <3>1. Live[f].text[l] \in Nat
      BY <1>2, <1>3
    <3>2. h[l] = [path |-> graph.path[f], name |-> Live[f].text[l], kind |-> "text_match", sym |-> NoSymbol,
                  score |-> 200, level |-> 2, exact |-> FALSE, line |-> l, leg |-> 3]
      BY DEF TextHit
    <3> HIDE DEF h, taken
    <3> QED
      BY <1>2, <3>1, <3>2 DEF Result, Fields
  <2> HIDE DEF h, taken
  <2> QED
    BY <2>1, <2>2 DEF OfText
<1>5. CASE new = grown
  <2>1. new.hits = acc.hits \cup {h[l] : l \in taken} /\ "hits" \in DOMAIN new
    <3>1. grown.hits = acc.hits \cup {h[l] : l \in taken} /\ "hits" \in DOMAIN grown
      <4> HIDE DEF taken, cut
      <4> QED
        OBVIOUS
    <3> HIDE DEF grown, new, h, taken
    <3> QED
      BY <1>5, <3>1
  <2> DEFINE more == {h[l] : l \in taken}
  <2>2. OfText(more)
    BY <1>4
  <2> HIDE DEF new, more
  <2>3. new.hits = acc.hits \cup more /\ "hits" \in DOMAIN new
    BY <2>1 DEF more
  <2>4. OfText(new.hits)
    BY <2>2, <2>3, FS_Union DEF OfText
  <2> QED
    BY <2>3, <2>4 DEF new
<1> HIDE DEF new, grown
<1>6. CASE new = acc \/ new = [acc EXCEPT !.truncated = TRUE]
  <2>1. new.hits = acc.hits /\ "hits" \in DOMAIN new
    BY <1>6
  <2>2. OfText(new.hits)
    BY <2>1
  <2> QED
    BY <2>1, <2>2 DEF new
<1> QED
  BY <1>1, <1>5, <1>6 DEF new

LEMMA TextTells ==
  ASSUME NEW graph, NEW t, WellFormed(graph), Scored(graph, t), NEW scope, NEW limit
  PROVE  OfText(SearchFileContents(graph, Live, scope, limit).hits)
<1> DEFINE q == Ascending(graph.files)
           end == ScanOf(graph, scope, limit, q)
           n == Len(q)
<1>1. q \in Seq(graph.files)
  <2>1. graph.files \subseteq Int /\ IsFiniteSet(graph.files)
    BY DEF WellFormed
  <2> QED
    BY <2>1, InOrderOnce DEF ListsOnce
<1>2. SearchFileContents(graph, Live, scope, limit) = end
  BY DEF SearchFileContents, ScanOf, Ascending
<1> HIDE DEF q
<1>3. PICK f : ScanFold!IsRun(f, <<graph, scope, limit>>, NothingScanned, q, n) /\ end = f[n]
  BY <1>1, ScanRuns
<1>4. f[0] = NothingScanned /\ \A i \in 1..n : f[i] = ScanFile(graph, Live, scope, limit, f[i - 1], q[i])
  BY <1>3 DEF ScanFold!IsRun, ScanStep
<1>5. n \in Nat /\ \A i \in 1..n : q[i] \in graph.files
  BY <1>1
<1> HIDE DEF n, end
<1> DEFINE Kept(acc) == OfText(acc.hits) /\ "hits" \in DOMAIN acc
           S == {i \in 0..n : Kept(f[i])}
<1>6. 0 \in S
  <2>1. Kept(NothingScanned)
    BY FS_EmptySet DEF NothingScanned, OfText
  <2> HIDE DEF Kept
  <2> QED
    BY <1>4, <1>5, <2>1
<1>7. ASSUME NEW i \in 1..n, i - 1 \in S PROVE i \in S
  <2>1. Kept(f[i - 1]) /\ q[i] \in graph.files /\ i \in 0..n
    <3> HIDE DEF Kept
    <3> QED
      BY <1>5, <1>7
  <2>2. Kept(f[i])
    BY <1>4, <2>1, ScanKeeps
  <2> HIDE DEF Kept
  <2> QED
    BY <2>1, <2>2
<1>8. 0..n \subseteq S
  <2> HIDE DEF S
  <2> QED
    BY <1>5, <1>6, <1>7, ScanFold!InductionUpTo
<1>9. Kept(f[n])
  <2>1. n \in 0..n
    BY <1>5
  <2> HIDE DEF Kept
  <2> QED
    BY <1>8, <2>1
<1> QED
  BY <1>2, <1>3, <1>9

----------------------------------------------------------------------------
(* The list made of what was found                                         *)

LEMMA FoundTells ==
  ASSUME NEW graph, NEW t, WellFormed(graph), Scored(graph, t), NEW scope, NEW mode, NEW limit \in Nat
  PROVE  LET found == SearchSymbols(graph, Live, t, scope, mode, limit)
         IN  /\ IsFiniteSet(found.hits) /\ OneExact(found.hits)
             /\ \A h \in found.hits : Result(h) /\ h.leg \in {1, 2, 3}
             /\ ~found.truncated => Cardinality(found.hits) <= limit
<1> DEFINE found == SearchSymbols(graph, Live, t, scope, mode, limit)
           names == IF mode \in {"symbol", "both"} THEN SearchSymbolNames(graph, t, scope) ELSE {}
           text  == IF mode \in {"text", "both"} THEN SearchFileContents(graph, Live, scope, limit)
                    ELSE [hits |-> {}, scanned |-> 0, truncated |-> FALSE]
           hits  == names \cup text.hits
<1>1. found.hits = hits /\ (found.truncated <=> text.truncated \/ Cardinality(hits) > limit)
  BY DEF SearchSymbols
<1>2. IsFiniteSet(names) /\ OneExact(names) /\ \A x \in names : Result(x) /\ x.leg \in {1, 2}
  <2>1. CASE mode \in {"symbol", "both"}
    BY <2>1, NamesTell
  <2>2. CASE mode \notin {"symbol", "both"}
    BY <2>2, FS_EmptySet DEF OneExact
  <2> QED
    BY <2>1, <2>2
<1>3. OfText(text.hits)
  <2>1. CASE mode \in {"text", "both"}
    <3>1. text = SearchFileContents(graph, Live, scope, limit)
      BY <2>1
    <3> HIDE DEF text
    <3> QED
      BY <3>1, TextTells
  <2>2. CASE mode \notin {"text", "both"}
    BY <2>2, FS_EmptySet DEF OfText
  <2> QED
    BY <2>1, <2>2
<1> HIDE DEF names, text
<1>4. IsFiniteSet(hits) /\ \A h \in hits : Result(h) /\ h.leg \in {1, 2, 3}
  BY <1>2, <1>3, FS_Union DEF OfText
<1>5. OneExact(hits)
  <2>1. \A h \in hits : h.leg = 1 => h \in names
    BY <1>3 DEF OfText
  <2> HIDE DEF hits
  <2> QED
    BY <1>2, <2>1 DEF OneExact
<1>6. Cardinality(hits) \in Nat
  BY <1>4, FS_CardinalityType
<1> HIDE DEF hits
<1> HIDE DEF found
<1>7. ~found.truncated => Cardinality(found.hits) <= limit
  BY <1>1, <1>6
<1> QED
  BY <1>1, <1>4, <1>5, <1>7 DEF found

(* A ranking of H *)
Ranks(r, H, limit) ==
    /\ r \in Seq(H) /\ Len(r) <= limit
    /\ \A i, j \in 1..Len(r) : i < j => r[i] # r[j] /\ r[i].score >= r[j].score
    /\ Cardinality(H) <= limit => \A h \in H : Lists(r, h)

LEMMA RankingIs ==
  ASSUME NEW H, IsFiniteSet(H), \A h \in H : Result(h), NEW limit \in Nat, NEW r \in Rankings(H, limit)
  PROVE  Ranks(r, H, limit)
<1> DEFINE n == AtMost(limit, Cardinality(H))
<1>1. Cardinality(H) \in Nat
  BY FS_CardinalityType
<1>2. n \in Nat /\ n <= limit /\ (Cardinality(H) <= limit => n = Cardinality(H))
  BY <1>1 DEF AtMost
<1>3. r \in [1..n -> H] /\ \A i, j \in DOMAIN r : i < j => r[i] # r[j] /\ NotBelow(r[i], r[j])
  BY DEF Rankings
<1> HIDE DEF n
<1>4. r \in Seq(H) /\ Len(r) = n /\ DOMAIN r = 1..n
  BY <1>2, <1>3
<1>5. ASSUME NEW i \in 1..n, NEW j \in 1..n, i < j PROVE r[i] # r[j] /\ r[i].score >= r[j].score
  <2>1. r[i].score \in Int /\ r[j].score \in Int
    BY <1>3 DEF Result
  <2>2. r[i] # r[j] /\ NotBelow(r[i], r[j])
    BY <1>3, <1>4, <1>5
  <2> QED
    BY <2>1, <2>2 DEF NotBelow
<1>6. ASSUME Cardinality(H) <= limit, NEW h \in H PROVE Lists(r, h)
  <2>1. \A i, j \in 1..n : r[i] = r[j] => i = j
    <3> TAKE i, j \in 1..n
    <3>1. i < j \/ j < i \/ i = j
      BY <1>2
    <3> QED
      BY <1>5, <3>1
  <2>2. r \in Injection(1..n, H)
    BY <1>3, <2>1 DEF Injection, IsInjective
  <2>3. IsFiniteSet(1..n) /\ Cardinality(1..n) = n
    <3>1. IsFiniteSet(1..n) /\ Cardinality(1..n) = IF 1 > n THEN 0 ELSE n - 1 + 1
      BY <1>2, FS_Interval
    <3> QED
      BY <1>2, <3>1
  <2>4. Cardinality(1..n) = Cardinality(H)
    BY <1>2, <1>6, <2>3
  <2>5. r \in Surjection(1..n, H)
    BY <2>2, <2>4, FS_Injection
  <2> QED
    BY <1>4, <2>5 DEF Surjection, Lists
<1> QED
  BY <1>2, <1>4, <1>5, <1>6 DEF Ranks

High(s) == Which(LAMBDA r : r.score >= 150, s)
Low(s) == Which(LAMBDA r : r.score < 150, s)
HighPick(c, found, r) == IF r.score >= 150 THEN Append(found, r) ELSE found
LowPick(c, found, r) == IF r.score < 150 THEN Append(found, r) ELSE found
HighFold == INSTANCE FoldTheorems WITH Step <- HighPick, Greatest <- Max
LowFold == INSTANCE FoldTheorems WITH Step <- LowPick, Greatest <- Max

LEMMA HighRuns ==
  ASSUME NEW X, NEW s \in Seq(X)
  PROVE  \E f : HighFold!Selects(f, s, {x \in X : x.score >= 150}) /\ High(s) = f[Len(s)]
<1> DEFINE n == Len(s)
           end == High(s)
           iter == CHOOSE iter : HighFold!Iterates(iter, {}, <<>>, s, DOMAIN s)
<1>1. n \in Nat /\ DOMAIN s = 1..n /\ \A i \in 1..n : s[i] \in X
  OBVIOUS
<1>2. HighFold!GreatestUpTo(n)
  BY <1>1, MaxIsGreatest DEF HighFold!GreatestUpTo
<1>3. HighFold!Iterates(iter, {}, <<>>, s, DOMAIN s)
  <2>1. \E it : HighFold!Iterates(it, {}, <<>>, s, 1..n)
    <3> HIDE DEF n
    <3> QED
      BY <1>1, <1>2, HighFold!IterationExists
  <2> HIDE DEF n
  <2> QED
    BY <1>1, <2>1
<1>4. end = iter[DOMAIN s]
  BY DEF High, Which, FoldLeft, MapThenFoldSet, HighFold!Iterates, HighPick
<1> HIDE DEF iter, end
<1>5. PICK f : HighFold!IsRun(f, {}, <<>>, s, n) /\ end = f[n]
  <2> HIDE DEF n
  <2> QED
    BY <1>1, <1>2, <1>3, <1>4, HighFold!FoldRuns
<1>6. HighFold!Selects(f, s, {x \in X : x.score >= 150})
  BY <1>1, <1>5 DEF HighFold!IsRun, HighFold!Selects, HighPick
<1> QED
  BY <1>5, <1>6 DEF end

LEMMA LowRuns ==
  ASSUME NEW X, NEW s \in Seq(X)
  PROVE  \E f : LowFold!Selects(f, s, {x \in X : x.score < 150}) /\ Low(s) = f[Len(s)]
<1> DEFINE n == Len(s)
           end == Low(s)
           iter == CHOOSE iter : LowFold!Iterates(iter, {}, <<>>, s, DOMAIN s)
<1>1. n \in Nat /\ DOMAIN s = 1..n /\ \A i \in 1..n : s[i] \in X
  OBVIOUS
<1>2. LowFold!GreatestUpTo(n)
  BY <1>1, MaxIsGreatest DEF LowFold!GreatestUpTo
<1>3. LowFold!Iterates(iter, {}, <<>>, s, DOMAIN s)
  <2>1. \E it : LowFold!Iterates(it, {}, <<>>, s, 1..n)
    <3> HIDE DEF n
    <3> QED
      BY <1>1, <1>2, LowFold!IterationExists
  <2> HIDE DEF n
  <2> QED
    BY <1>1, <2>1
<1>4. end = iter[DOMAIN s]
  BY DEF Low, Which, FoldLeft, MapThenFoldSet, LowFold!Iterates, LowPick
<1> HIDE DEF iter, end
<1>5. PICK f : LowFold!IsRun(f, {}, <<>>, s, n) /\ end = f[n]
  <2> HIDE DEF n
  <2> QED
    BY <1>1, <1>2, <1>3, <1>4, LowFold!FoldRuns
<1>6. LowFold!Selects(f, s, {x \in X : x.score < 150})
  BY <1>1, <1>5 DEF LowFold!IsRun, LowFold!Selects, LowPick
<1> QED
  BY <1>5, <1>6 DEF end

Precedes(s, x, y) == \E i, j \in 1..Len(s) : i < j /\ s[i] = x /\ s[j] = y

(* The two parts of a list together *)
LEMMA RankingDivides ==
  ASSUME NEW X, \A x \in X : Result(x), NEW s \in Seq(X)
  PROVE  /\ High(s) \in Seq(X) /\ Low(s) \in Seq(X) /\ Len(High(s)) + Len(Low(s)) = Len(s)
         /\ \A x : Lists(s, x) => Lists(High(s), x) \/ Lists(Low(s), x)
         /\ \A i \in 1..Len(High(s)) : High(s)[i].score >= 150
         /\ \A i \in 1..Len(Low(s)) : Low(s)[i].score < 150
         /\ \A x, y : Precedes(High(s), x, y) \/ Precedes(Low(s), x, y) => Precedes(s, x, y)
<1> DEFINE T == {x \in X : x.score >= 150}
           U == {x \in X : x.score < 150}
           n == Len(s)
<1>1. PICK f : HighFold!Selects(f, s, T) /\ High(s) = f[n]
  BY HighRuns
<1>2. PICK h : LowFold!Selects(h, s, U) /\ Low(s) = h[n]
  BY LowRuns
<1>3. X \subseteq T \cup U /\ T \cap U = {}
  BY DEF Result
<1>4. (\A x \in T : x.score >= 150) /\ (\A x \in U : x.score < 150)
  OBVIOUS
<1>5. DOMAIN s = 1..n /\ \A i \in 1..n : s[i] \in X
  OBVIOUS
<1> HIDE DEF T, U
<1>6. /\ f[n] \in Seq(X)
      /\ \A x : (\E i \in DOMAIN f[n] : f[n][i] = x) <=> x \in T /\ \E i \in DOMAIN s : s[i] = x
  <2>1. HighFold!Selects(f, s, T)
    BY <1>1
  <2> QED
    BY <2>1, HighFold!RunSelects
<1>7. /\ h[n] \in Seq(X)
      /\ \A x : (\E i \in DOMAIN h[n] : h[n][i] = x) <=> x \in U /\ \E i \in DOMAIN s : s[i] = x
  <2>1. LowFold!Selects(h, s, U)
    BY <1>2
  <2> QED
    BY <2>1, LowFold!RunSelects
<1>8. \A p, q \in 1..Len(f[n]) : p < q => \E i, j \in 1..n : i < j /\ f[n][p] = s[i] /\ f[n][q] = s[j]
  BY <1>1, HighFold!RunSelectsInOrder
<1>9. \A p, q \in 1..Len(h[n]) : p < q => \E i, j \in 1..n : i < j /\ h[n][p] = s[i] /\ h[n][q] = s[j]
  BY <1>2, LowFold!RunSelectsInOrder
<1>10. Len(f[n]) + Len(h[n]) = n
  <2>1. HighFold!Selects(h, s, U)
    BY <1>2 DEF HighFold!Selects, LowFold!Selects
  <2>2. HighFold!Halves(s, T, U)
    BY <1>3, <1>5 DEF HighFold!Halves
  <2>3. HighFold!Shared(f, h, s)
    BY <1>1, <2>1, <2>2, HighFold!RunsDivide
  <2> QED
    BY <2>3 DEF HighFold!Shared
<1> HIDE DEF n
<1>11. DOMAIN f[n] = 1..Len(f[n]) /\ DOMAIN h[n] = 1..Len(h[n])
  BY <1>6, <1>7
<1>12. \A x : Lists(s, x) => Lists(High(s), x) \/ Lists(Low(s), x)
  BY <1>1, <1>2, <1>3, <1>5, <1>6, <1>7, <1>11 DEF Lists, n
<1>13. High(s) \in Seq(X) /\ Low(s) \in Seq(X) /\ Len(High(s)) + Len(Low(s)) = n
  BY <1>1, <1>2, <1>6, <1>7, <1>10
<1>14. \A i \in 1..Len(High(s)) : High(s)[i].score >= 150
  BY <1>1, <1>4, <1>6, <1>11
<1>15. \A i \in 1..Len(Low(s)) : Low(s)[i].score < 150
  BY <1>2, <1>4, <1>7, <1>11
<1>16. \A x, y : Precedes(High(s), x, y) => Precedes(s, x, y)
  <2> TAKE x, y
  <2> HAVE Precedes(High(s), x, y)
  <2>1. PICK p \in 1..Len(f[n]), q \in 1..Len(f[n]) : p < q /\ f[n][p] = x /\ f[n][q] = y
    BY <1>1 DEF Precedes
  <2>2. PICK i \in 1..n, j \in 1..n : i < j /\ f[n][p] = s[i] /\ f[n][q] = s[j]
    BY <1>8, <2>1
  <2> QED
    BY <2>1, <2>2 DEF Precedes, n
<1>17. \A x, y : Precedes(Low(s), x, y) => Precedes(s, x, y)
  <2> TAKE x, y
  <2> HAVE Precedes(Low(s), x, y)
  <2>1. PICK p \in 1..Len(h[n]), q \in 1..Len(h[n]) : p < q /\ h[n][p] = x /\ h[n][q] = y
    BY <1>2 DEF Precedes
  <2>2. PICK i \in 1..n, j \in 1..n : i < j /\ h[n][p] = s[i] /\ h[n][q] = s[j]
    BY <1>9, <2>1
  <2> QED
    BY <2>1, <2>2 DEF Precedes, n
<1> QED
  BY <1>12, <1>13, <1>14, <1>15, <1>16, <1>17 DEF n

LEMMA ConcatOrder ==
  ASSUME NEW X, NEW p \in Seq(X), NEW q \in Seq(X), NEW x, NEW y, Precedes(p \o q, x, y)
  PROVE  Precedes(p, x, y) \/ Precedes(q, x, y) \/ (Lists(p, x) /\ Lists(q, y))
<1> DEFINE r == p \o q
           m == Len(p)
           n == Len(q)
<1>1. /\ Len(r) = m + n /\ m \in Nat /\ n \in Nat
      /\ \A i \in 1..(m + n) : r[i] = IF i <= m THEN p[i] ELSE q[i - m]
  BY ConcatProperties
<1>2. PICK i \in 1..Len(r), j \in 1..Len(r) : i < j /\ r[i] = x /\ r[j] = y
  BY DEF Precedes
<1> HIDE DEF r, m, n
<1>3. CASE j <= m
  <2>1. i \in 1..m /\ j \in 1..m /\ p[i] = x /\ p[j] = y
    BY <1>1, <1>2, <1>3
  <2> QED
    BY <1>2, <2>1 DEF Precedes, m
<1>4. CASE i <= m /\ ~(j <= m)
  <2>1. i \in 1..m /\ j - m \in 1..n /\ p[i] = x /\ q[j - m] = y
    BY <1>1, <1>2, <1>4
  <2> QED
    BY <2>1 DEF Lists, m, n
<1>5. CASE ~(i <= m)
  <2>1. i - m \in 1..n /\ j - m \in 1..n /\ i - m < j - m /\ q[i - m] = x /\ q[j - m] = y
    BY <1>1, <1>2, <1>5
  <2> QED
    BY <2>1 DEF Precedes, n
<1>6. i \in Int /\ j \in Int /\ m \in Int
  BY <1>1, <1>2
<1> QED
  BY <1>3, <1>4, <1>5, <1>6

BySymbol(S) == InOrder(S, LAMBDA a, b : a.sym < b.sym)

LEMMA BySymbolOnce ==
  ASSUME NEW S, IsFiniteSet(S), \A x \in S : x.sym \in Nat, \A x, y \in S : x.sym = y.sym => x = y
  PROVE  ListsOnce(BySymbol(S), S)
<1> DEFINE below(y, x) == y.sym < x.sym
           R == {p \in S \X S : below(p[1], p[2])}
           q == BySymbol(S)
           rows(x) == {y \in S : y.sym < x.sym}
           ranked(i) == CHOOSE x \in S : Rank(S, R, x) = i - 1
           placed(i) == CHOOSE x \in S : Cardinality(rows(x)) = i - 1
<1>1. \A x, y \in S : <<x, y>> \in R <=> x.sym < y.sym
  <2>1. \A x, y \in S : <<x, y>> \in R <=> below(x, y)
    <3> HIDE DEF below
    <3> QED
      OBVIOUS
  <2> QED
    BY <2>1
<1> HIDE DEF R
<1>2. Orders(R, S)
  <2>1. \A x \in S : <<x, x>> \notin R
    BY <1>1
  <2>2. \A x, y \in S : x # y => <<x, y>> \in R \/ <<y, x>> \in R
    BY <1>1
  <2>3. \A x, y, z \in S : <<x, y>> \in R /\ <<y, z>> \in R => <<x, z>> \in R
    BY <1>1
  <2> QED
    BY <2>1, <2>2, <2>3 DEF Orders
<1>3. \A x \in S : Rank(S, R, x) = Cardinality(rows(x))
  <2> TAKE x \in S
  <2>1. {y \in S : <<y, x>> \in R} = rows(x)
    BY <1>1
  <2> QED
    BY <2>1 DEF Rank
<1>4. q = [i \in 1..Cardinality(S) |-> placed(i)]
  BY DEF BySymbol, InOrder
<1>5. \A i : ranked(i) = placed(i)
  <2> HIDE DEF rows
  <2>1. \A i : \A x : (x \in S /\ Rank(S, R, x) = i - 1) <=> (x \in S /\ Cardinality(rows(x)) = i - 1)
    BY <1>3
  <2> QED
    BY <2>1
<1>6. q = [i \in 1..Cardinality(S) |-> ranked(i)]
  <2> HIDE DEF q, ranked, placed
  <2> QED
    BY <1>4, <1>5
<1> HIDE DEF q
<1> QED
  BY <1>2, <1>6, RanksList DEF Ranked, q

LEMMA ConceptHitsAre ==
  ASSUME NEW graph, NEW t, WellFormed(graph), Scored(graph, t), NEW scope, NEW listed
  PROVE  LET C == ConceptHits(graph, t, scope, listed)
         IN  /\ IsFiniteSet(C) /\ Cardinality(C) <= ConceptCap
             /\ \A x \in C : Result(x) /\ x.leg = 4 /\ x.sym \in Nat
             /\ \A x, y \in C : x.sym = y.sym => x = y
<1> DEFINE C == ConceptHits(graph, t, scope, listed)
           tagged == {s \in Symbols(graph) : FileAt(graph, s) \in scope /\
                        \E c \in ConceptsMatchingTerm(t) : <<s, c>> \in graph.concepts}
           fresh == {s \in tagged : <<NameAt(graph, s), graph.path[FileAt(graph, s)]>> \notin {Key(r) : r \in listed}}
           first == {s \in fresh : \A o \in fresh :
                        Key(SymbolHit(graph, t, o)) = Key(SymbolHit(graph, t, s)) => s <= o}
           few == Smallest(first, ConceptCap)
           hit(s) == [SymbolHit(graph, t, s) EXCEPT !.score = 150, !.level = 1, !.exact = FALSE, !.leg = 4]
           f == [s \in few |-> hit(s)]
<1>1. C = {hit(s) : s \in few}
  BY DEF ConceptHits
<1>2. ConceptCap \in Nat /\ IsFiniteSet(Symbols(graph)) /\ Symbols(graph) \subseteq Nat
  BY LookupAssumption DEF WellFormed
<1>3. first \subseteq Symbols(graph)
  OBVIOUS
<1> HIDE DEF first
<1>4. few \subseteq Symbols(graph) /\ IsFiniteSet(few) /\ Cardinality(few) <= ConceptCap
  <2>1. first \subseteq Nat /\ IsFiniteSet(first)
    BY <1>2, <1>3, FS_Subset
  <2> QED
    BY <1>2, <1>3, <2>1, SmallestFew
<1> HIDE DEF few
<1>5. IsFiniteSet(C) /\ Cardinality(C) <= ConceptCap
  <2>1. C = {f[s] : s \in few} /\ DOMAIN f = few
    BY <1>1
  <2> HIDE DEF f, C
  <2>2. IsFiniteSet(C) /\ Cardinality(C) <= Cardinality(few)
    BY <1>4, <2>1, ImageFinite
  <2>3. Cardinality(C) \in Nat /\ Cardinality(few) \in Nat
    BY <1>4, <2>2, FS_CardinalityType
  <2> QED
    BY <1>2, <1>4, <2>2, <2>3
<1>6. ASSUME NEW s \in few PROVE Result(hit(s)) /\ hit(s).leg = 4 /\ hit(s).sym = s /\ s \in Nat
  <2> DEFINE h == SymbolHit(graph, t, s)
  <2>1. Result(h) /\ h.sym = s /\ s \in Nat
    BY <1>4, SymbolHitIs
  <2>2. hit(s) = [h EXCEPT !.score = 150, !.level = 1, !.exact = FALSE, !.leg = 4]
    OBVIOUS
  <2> HIDE DEF h, hit
  <2> QED
    BY <2>1, <2>2 DEF Result, Fields
<1> HIDE DEF hit, C
<1>7. \A x \in C : \E s \in few : x = hit(s)
  BY <1>1
<1> QED
  BY <1>5, <1>6, <1>7 DEF C

(* A list of results that tells each name's exact one first *)
BestFirst(r) ==
    \A x, y : /\ Precedes(r, x, y) /\ x.leg = 1 /\ y.leg = 1 /\ x.kind # "file_rollup" /\ y.kind # "file_rollup"
              /\ x.name = y.name
              => ~y.exact

LEMMA ResolveTells ==
  ASSUME NEW graph, NEW t, WellFormed(graph), Scored(graph, t), NEW scope, NEW mode, NEW limit \in Nat,
         NEW concepts, NEW ranking \in Rankings(SearchSymbols(graph, Live, t, scope, mode, limit).hits, limit)
  PROVE  LET found   == SearchSymbols(graph, Live, t, scope, mode, limit)
             lexical == ResolveSearch(graph, t, scope, mode, concepts, found, ranking)
         IN  /\ lexical.truncated = found.truncated
             /\ \E X : lexical.results \in Seq(X) /\ \A x \in X : Result(x)
             /\ Len(lexical.results) <= limit + ConceptCap
             /\ ~found.truncated => \A h \in found.hits : Lists(lexical.results, h)
             /\ BestFirst(lexical.results)
<1> DEFINE found == SearchSymbols(graph, Live, t, scope, mode, limit)
           H == found.hits
           extra == IF concepts /\ mode # "text" THEN ConceptHits(graph, t, scope, ToSet(ranking)) ELSE {}
           lexical == ResolveSearch(graph, t, scope, mode, concepts, found, ranking)
           A == High(ranking)
           B == BySymbol(extra)
           C == Low(ranking)
           r == (A \o B) \o C
           X == H \cup extra
<1>1. /\ IsFiniteSet(H) /\ OneExact(H) /\ \A h \in H : Result(h) /\ h.leg \in {1, 2, 3}
      /\ ~found.truncated => Cardinality(H) <= limit
  BY FoundTells
<1>2. lexical = [results |-> r, truncated |-> found.truncated]
  BY DEF ResolveSearch, High, Low, BySymbol
<1>3. /\ IsFiniteSet(extra) /\ Cardinality(extra) <= ConceptCap
      /\ \A x \in extra : Result(x) /\ x.leg = 4 /\ x.sym \in Nat
      /\ \A x, y \in extra : x.sym = y.sym => x = y
  <2>1. CASE concepts /\ mode # "text"
    BY <2>1, ConceptHitsAre
  <2>2. CASE ~(concepts /\ mode # "text")
    <3>1. extra = {} /\ ConceptCap \in Nat
      BY <2>2, LookupAssumption
    <3> HIDE DEF extra
    <3> QED
      BY <3>1, FS_EmptySet
  <2> QED
    BY <2>1, <2>2
<1> HIDE DEF extra, found
<1>4. Ranks(ranking, H, limit)
  <2>1. ranking \in Rankings(H, limit)
    BY DEF found
  <2> HIDE DEF H
  <2> QED
    BY <1>1, <2>1, RankingIs
<1>5. ListsOnce(B, extra)
  BY <1>3, BySymbolOnce
<1> HIDE DEF H
<1>6. ranking \in Seq(H)
  BY <1>4 DEF Ranks
<1>7. /\ A \in Seq(H) /\ C \in Seq(H) /\ Len(A) + Len(C) = Len(ranking)
      /\ \A x : Lists(ranking, x) => Lists(A, x) \/ Lists(C, x)
      /\ \A i \in 1..Len(A) : A[i].score >= 150
      /\ \A i \in 1..Len(C) : C[i].score < 150
      /\ \A x, y : Precedes(A, x, y) \/ Precedes(C, x, y) => Precedes(ranking, x, y)
  BY <1>1, <1>6, RankingDivides
<1> HIDE DEF A, B, C
<1>8. A \in Seq(X) /\ B \in Seq(X) /\ C \in Seq(X)
  <2>1. B \in Seq(extra)
    BY <1>5 DEF ListsOnce
  <2>2. H \subseteq X /\ extra \subseteq X
    OBVIOUS
  <2> HIDE DEF X
  <2>3. \A s : s \in Seq(H) \/ s \in Seq(extra) => s \in Seq(X)
    BY <2>2
  <2> QED
    BY <1>7, <2>1, <2>3
<1>9. \A x \in X : Result(x)
  BY <1>1, <1>3
<1> HIDE DEF X
<1>10. A \o B \in Seq(X) /\ \A x : Lists(A \o B, x) <=> Lists(A, x) \/ Lists(B, x)
  BY <1>8, ConcatMembers
<1>11. r \in Seq(X) /\ \A x : Lists(r, x) <=> Lists(A \o B, x) \/ Lists(C, x)
  BY <1>8, <1>10, ConcatMembers
<1>12. Len(r) <= limit + ConceptCap
  <2>1. Len(A \o B) = Len(A) + Len(B) /\ Len(r) = Len(A \o B) + Len(C)
    BY <1>8, <1>10, ConcatProperties
  <2>2. Len(A) \in Nat /\ Len(B) \in Nat /\ Len(C) \in Nat /\ Len(ranking) \in Nat /\ ConceptCap \in Nat
    BY <1>6, <1>8, LookupAssumption
  <2>3. Len(B) <= ConceptCap /\ Len(ranking) <= limit
    BY <1>3, <1>4, <1>5 DEF ListsOnce, Ranks
  <2> HIDE DEF r
  <2> QED
    BY <1>7, <2>1, <2>2, <2>3
<1>13. ~found.truncated => \A h \in H : Lists(r, h)
  <2> HIDE DEF r
  <2> QED
    BY <1>1, <1>4, <1>7, <1>10, <1>11 DEF Ranks
<1>14. ASSUME NEW x, NEW y, Precedes(r, x, y), x.leg = 1, y.leg = 1, x.kind # "file_rollup", y.kind # "file_rollup",
              x.name = y.name
       PROVE  ~y.exact
  <2>1. \A z : Lists(B, z) => z.leg = 4
    BY <1>3, <1>5 DEF ListsOnce, Lists
  <2>2. \A z, w : Precedes(B, z, w) => Lists(B, z)
    BY DEF Precedes, Lists
  <2>3. Precedes(ranking, x, y) \/ (Lists(A, x) /\ Lists(C, y))
    <3>1. Precedes(A \o B, x, y) \/ Precedes(C, x, y) \/ (Lists(A \o B, x) /\ Lists(C, y))
      BY <1>8, <1>10, <1>14, ConcatOrder
    <3>2. Precedes(A \o B, x, y) => Precedes(A, x, y) \/ Precedes(B, x, y) \/ (Lists(A, x) /\ Lists(B, y))
      BY <1>8, ConcatOrder
    <3> HIDE DEF r
    <3> QED
      BY <1>7, <1>10, <1>14, <2>1, <2>2, <3>1, <3>2
  <2>4. x \in H /\ y \in H /\ x # y /\ x.score >= y.score
    <3>1. CASE Precedes(ranking, x, y)
      <4>1. PICK i \in 1..Len(ranking), j \in 1..Len(ranking) : i < j /\ ranking[i] = x /\ ranking[j] = y
        BY <3>1 DEF Precedes
      <4>2. ranking[i] # ranking[j] /\ ranking[i].score >= ranking[j].score
        BY <1>4, <4>1 DEF Ranks
      <4>3. ranking[i] \in H /\ ranking[j] \in H
        BY <1>6, <4>1
      <4> QED
        BY <4>1, <4>2, <4>3
    <3>2. CASE Lists(A, x) /\ Lists(C, y)
      <4>1. x \in H /\ y \in H /\ x.score >= 150 /\ y.score < 150
        BY <1>7, <3>2 DEF Lists
      <4>2. x.score \in Int /\ y.score \in Int
        BY <1>1, <4>1 DEF Result
      <4> QED
        BY <4>1, <4>2
    <3> QED
      BY <2>3, <3>1, <3>2
  <2> QED
    BY <1>1, <1>14, <2>4 DEF OneExact
<1>15. BestFirst(r)
  BY <1>14 DEF BestFirst
<1> HIDE DEF r
<1> QED
  BY <1>2, <1>9, <1>11, <1>12, <1>13, <1>15 DEF H, found

----------------------------------------------------------------------------
(* search_codebase in a session                                            *)

VectorLists(graph, limit) ==
    {[i \in 1..Len(q) |-> [SymbolHit(graph, 1, q[i]) EXCEPT !.level = 1, !.exact = FALSE, !.line = graph.sym[q[i]].line]]
        : q \in {p \in BoundedSeq(Symbols(graph), limit) : IsInjective(p) /\ Len(p) = limit}}

(* What a request found and how it was ranked, added to and fused *)
Searched(graph, request, response, t, l, scope, mode, concepts, semantic, ranking, late) ==
    LET lexicalMode == IF mode = "semantic" THEN "both" ELSE mode
        found == SearchSymbols(graph, Live, t, scope, lexicalMode, l)
        lexical == ResolveSearch(graph, t, scope, lexicalMode, concepts, found, ranking)
    IN  /\ ranking \in Rankings(found.hits, l)
        /\ request = [text |-> t, scope |-> scope, mode |-> mode, limit |-> l,
                      found |-> found.hits, legs |-> <<lexical.results, semantic>>]
        /\ response = ResolveSearchSemantic(mode, l, lexical, semantic, late)

SearchInv ==
    answer.tool = "search_codebase" =>
        /\ g \in Lookups
        /\ \E t \in Texts, l \in Limits, mode \in {"symbol", "text", "both", "semantic"} :
              \E semantic \in VectorLists(g, l) \cup {Degraded} : \E scope, concepts, ranking, late :
                  Searched(g, answer.request, answer.response, t, l, scope, mode, concepts, semantic, ranking, late)

LEMMA SearchStep == SessionInv /\ SearchInv /\ [Next]_vars => SearchInv'
<1> SUFFICES ASSUME SessionInv, SearchInv, [Next]_vars, answer'.tool = "search_codebase" PROVE SearchInv'
  BY DEF SearchInv
<1>1. ASSUME g \in Lookups, NEW t \in Texts, NEW l \in Limits, NEW mode \in {"symbol", "text", "both", "semantic"},
             NEW semantic \in VectorLists(g, l) \cup {Degraded}, NEW scope, NEW concepts,
             Search(t, scope, mode, l, concepts, semantic)
      PROVE  SearchInv'
  <2> DEFINE lexicalMode == IF mode = "semantic" THEN "both" ELSE mode
             found == SearchSymbols(g, Live, t, scope, lexicalMode, l)
             lexical(ranking) == ResolveSearch(g, t, scope, lexicalMode, concepts, found, ranking)
             request(ranking) == [text |-> t, scope |-> scope, mode |-> mode, limit |-> l,
                                  found |-> found.hits, legs |-> <<lexical(ranking).results, semantic>>]
             response(ranking, late) == ResolveSearchSemantic(mode, l, lexical(ranking), semantic, late)
  <2>1. PICK ranking \in Rankings(found.hits, l) :
           \E late : Respond("search_codebase", request(ranking), response(ranking, late))
    BY <1>1 DEF Search
  <2>2. PICK late : Respond("search_codebase", request(ranking), response(ranking, late))
    BY <2>1
  <2>3. g' = g /\ answer'.request = request(ranking) /\ answer'.response = response(ranking, late)
    <3> HIDE DEF request, response
    <3> QED
      BY <2>2, RespondAnswers DEF Answers
  <2>4. Searched(g', answer'.request, answer'.response, t, l, scope, mode, concepts, semantic, ranking, late)
    BY <2>1, <2>3 DEF Searched
  <2> QED
    BY <1>1, <2>3, <2>4 DEF SearchInv
<1>2. CASE AskLookup
  <2>1. g \in Lookups
    BY <1>2 DEF AskLookup
  <2>2. \E t \in Texts, h \in Hints, mode \in {"symbol", "text", "both", "semantic"}, l \in Limits, concepts \in BOOLEAN :
           \E list \in (IF mode \in {"symbol", "text"} THEN {} ELSE SemanticLists(l)) \cup {Degraded} :
               Search(t, h, mode, l, concepts, list)
    BY <1>2, LookupAsks
  <2>3. \A l : SemanticLists(l) = VectorLists(g, l)
    BY DEF SemanticLists, VectorLists
  <2> QED
    BY <1>1, <2>1, <2>2, <2>3
<1>3. CASE AskGraph
  BY <1>3, GraphAsks
<1>4. CASE ~AskGraph /\ ~AskLookup
  <2>1. UNCHANGED <<g, answer>>
    BY <1>4, OtherSteps
  <2> QED
    BY <2>1 DEF SearchInv
<1> QED
  BY <1>2, <1>3, <1>4

(* search_codebase tells what it leaves out: without the vectors it        *)
(* returns no more than the limit and the cap on concepts and, unless it   *)
(* says it is truncated, all it found; of the results for one name one at  *)
(* most claims to be the exact match, and none of the others precedes it.  *)
THEOREM SearchesTell == Spec => []SearchTells
<1>1. Init => SearchInv
  BY DEF Init, NoAnswer, SearchInv
<1>2. SessionInv /\ SearchInv => SearchTells
  <2> SUFFICES ASSUME SessionInv, SearchInv, Answered("search_codebase"),
                      answer.response.results = answer.request.legs[1]
               PROVE  SearchTells
    BY DEF SearchTells
  <2> DEFINE q == answer.request
             r == answer.response.results
  <2>1. g \in Lookups /\ WellFormed(g) /\ \A t \in Texts : Scored(g, t)
    BY LookupsScored DEF SessionInv, IndexInv, SearchInv, Answered
  <2>2. PICK t \in Texts, l \in Limits, mode \in {"symbol", "text", "both", "semantic"} :
           \E semantic \in VectorLists(g, l) \cup {Degraded} : \E scope, concepts, ranking, late :
                Searched(g, q, answer.response, t, l, scope, mode, concepts, semantic, ranking, late)
    BY DEF SearchInv, Answered
  <2>3. PICK semantic, scope, concepts, ranking, late :
                Searched(g, q, answer.response, t, l, scope, mode, concepts, semantic, ranking, late)
    BY <2>2
  <2> DEFINE lexicalMode == IF mode = "semantic" THEN "both" ELSE mode
             found == SearchSymbols(g, Live, t, scope, lexicalMode, l)
             lexical == ResolveSearch(g, t, scope, lexicalMode, concepts, found, ranking)
  <2>4. /\ ranking \in Rankings(found.hits, l) /\ q.mode = mode /\ q.limit = l /\ q.found = found.hits
        /\ q.legs = <<lexical.results, semantic>>
        /\ answer.response = ResolveSearchSemantic(mode, l, lexical, semantic, late)
    BY <2>3 DEF Searched
  <2>5. l \in Nat
    BY QueriesAssumption
  <2>6. /\ lexical.truncated = found.truncated
        /\ \E X : lexical.results \in Seq(X) /\ \A x \in X : Result(x)
        /\ Len(lexical.results) <= l + ConceptCap
        /\ ~found.truncated => \A h \in found.hits : Lists(lexical.results, h)
        /\ BestFirst(lexical.results)
    <3> HIDE DEF lexicalMode
    <3> QED
      BY <2>1, <2>4, <2>5, ResolveTells
  <2>7. mode \in {"symbol", "text"} => answer.response = lexical
    <3> HIDE DEF lexical
    <3> QED
      BY <2>4 DEF ResolveSearchSemantic
  <2> HIDE DEF lexical, found
  <2>8. r = lexical.results /\ DOMAIN r = 1..Len(r)
    BY <2>4, <2>6
  <2> HIDE DEF q, r
  <2>9. q.mode \in {"symbol", "text"} /\ ~answer.response.truncated => q.found \subseteq ToSet(r)
    BY <2>4, <2>6, <2>7, <2>8 DEF Lists, ToSet
  <2>10. Len(r) <= q.limit + ConceptCap
    BY <2>4, <2>6, <2>8
  <2>11. ASSUME NEW i \in DOMAIN r, NEW j \in DOMAIN r, i < j, r[i].leg = 1, r[i].kind # "file_rollup",
                r[j].leg = 1, r[j].kind # "file_rollup", r[i].name = r[j].name
         PROVE  ~r[j].exact
    <3>1. Precedes(r, r[i], r[j])
      BY <2>8, <2>11 DEF Precedes
    <3> QED
      BY <2>6, <2>8, <2>11, <3>1 DEF BestFirst
  <2> QED
    BY <2>9, <2>10, <2>11 DEF SearchTells, q, r
<1> QED
  BY <1>1, <1>2, SearchStep, SessionHolds, PTL DEF Spec


----------------------------------------------------------------------------
(* The list fused of two                                                   *)

(* The parts of a list that contribute differently *)
Apart(n) == Precision \in Nat /\ n \in Nat /\ Precision >= (60 + n) * (61 + n)

LEMMA ContributionsFall ==
  ASSUME NEW n, Apart(n), NEW i \in 1..n
  PROVE  /\ Contribution(i) \in Nat /\ Contribution(i) > 0
         /\ \A j \in 1..n : i < j => Contribution(i) > Contribution(j)
<1> DEFINE P == Precision
           Q(a) == P \div a
<1>1. ASSUME NEW a \in 60..(60 + n)
      PROVE  Q(a) \in Nat /\ Q(a) >= 61 + n /\ Q(a) * a <= P /\ \A u \in Nat : u * a <= P => u <= Q(a)
  <2>1. a \in Nat /\ a > 0 /\ P \in Nat /\ n \in Nat
    BY DEF Apart
  <2>2. Q(a) \in Nat /\ Q(a) * a <= P
    BY <2>1
  <2>3. \A u \in Nat : u * a <= P => u <= Q(a)
    BY <2>1
  <2>4. (61 + n) * a <= P
    <3>1. (61 + n) * a <= (61 + n) * (60 + n)
      BY <2>1
    <3> QED
      BY <2>1, <3>1 DEF Apart
  <2> HIDE DEF Q, P
  <2>5. 61 + n \in Nat
    BY <2>1
  <2> QED
    BY <2>1, <2>2, <2>3, <2>4, <2>5
<1>2. n \in Nat
  BY DEF Apart
<1>3. \A k \in 1..n : Contribution(k) = Q(60 + k) /\ 60 + k \in 60..(60 + n)
  BY <1>2 DEF Contribution
<1> HIDE DEF Q, P
<1>4. Contribution(i) \in Nat /\ Contribution(i) > 0
  <2>1. Q(60 + i) \in Nat /\ Q(60 + i) >= 61 + n
    BY <1>1, <1>3
  <2> QED
    BY <1>2, <1>3, <2>1
<1>5. ASSUME NEW j \in 1..n, i < j PROVE Contribution(i) > Contribution(j)
  <2> DEFINE a == 60 + i
             b == 60 + j
             u == Q(b)
  <2>1. a \in 60..(60 + n) /\ b \in 60..(60 + n) /\ a \in Nat /\ b \in Nat /\ a + 1 <= b /\ a <= 61 + n
    BY <1>2, <1>5
  <2> HIDE DEF a, b
  <2>2. u \in Nat /\ u >= 61 + n /\ u * b <= P
    BY <1>1, <2>1
  <2>3. Q(a) \in Nat /\ \A v \in Nat : v * a <= P => v <= Q(a)
    BY <1>1, <2>1
  <2> HIDE DEF u
  <2>4. u * (a + 1) <= u * b
    BY <2>1, <2>2
  <2>5. (u + 1) * a <= u * (a + 1)
    <3>1. (u + 1) * a = u * a + a /\ u * (a + 1) = u * a + u
      BY <2>1, <2>2
    <3>2. a <= u
      BY <1>2, <2>1, <2>2
    <3>3. u * a \in Nat
      BY <2>1, <2>2
    <3> QED
      BY <2>1, <2>2, <3>1, <3>2, <3>3
  <2>6. (u + 1) * a <= P
    <3>1. (u + 1) * a \in Nat /\ u * (a + 1) \in Nat /\ u * b \in Nat /\ P \in Nat
      BY <2>1, <2>2 DEF Apart, P
    <3> QED
      BY <2>2, <2>4, <2>5, <3>1
  <2>7. u + 1 <= Q(a)
    BY <2>2, <2>3, <2>6
  <2> QED
    BY <1>3, <2>2, <2>3, <2>7 DEF u, a, b
<1> QED
  BY <1>4, <1>5

FuseStep(c, acc, i) == FuseOne(acc, c[i], i)
FuseFold == INSTANCE FoldTheorems WITH Step <- FuseStep, Greatest <- Max

LEMMA FuseRuns ==
  ASSUME NEW fused, NEW X, NEW list \in Seq(X)
  PROVE  \E f : /\ f[0] = fused /\ FuseList(fused, list) = f[Len(list)]
                /\ \A i \in 1..Len(list) : f[i] = FuseOne(f[i - 1], list[i], i)
<1> DEFINE n == Len(list)
           s == [i \in DOMAIN list |-> i]
           end == FuseList(fused, list)
           iter == CHOOSE iter : FuseFold!Iterates(iter, list, fused, s, DOMAIN s)
<1>1. n \in Nat /\ DOMAIN s = 1..n /\ \A i \in 1..n : s[i] = i
  OBVIOUS
<1>2. FuseFold!GreatestUpTo(n)
  BY <1>1, MaxIsGreatest DEF FuseFold!GreatestUpTo
<1>3. FuseFold!Iterates(iter, list, fused, s, DOMAIN s)
  <2>1. \E it : FuseFold!Iterates(it, list, fused, s, 1..n)
    <3> HIDE DEF n, s
    <3> QED
      BY <1>1, <1>2, FuseFold!IterationExists
  <2> HIDE DEF n, s
  <2> QED
    BY <1>1, <2>1
<1>4. end = iter[DOMAIN s]
  BY DEF FuseList, FoldLeft, MapThenFoldSet, FuseFold!Iterates, FuseStep
<1> HIDE DEF iter, end
<1>5. PICK f : FuseFold!IsRun(f, list, fused, s, n) /\ end = f[n]
  <2> HIDE DEF n, s
  <2> QED
    BY <1>1, <1>2, <1>3, <1>4, FuseFold!FoldRuns
<1> HIDE DEF s
<1>6. \A i \in 1..n : f[i] = FuseOne(f[i - 1], list[i], i)
  BY <1>1, <1>5 DEF FuseFold!IsRun, FuseStep
<1>7. f[0] = fused
  BY <1>5 DEF FuseFold!IsRun
<1> QED
  BY <1>5, <1>6, <1>7 DEF end

PairStep(c, acc, list) == FuseList(acc, list)
PairFold == INSTANCE FoldTheorems WITH Step <- PairStep, Greatest <- Max
FusedOf(lists) == FoldLeft(FuseList, <<>>, lists)

LEMMA PairFused ==
  ASSUME NEW p, NEW q
  PROVE  FusedOf(<<p, q>>) = FuseList(FuseList(<<>>, p), q)
<1> DEFINE s == <<p, q>>
           end == FusedOf(s)
           iter == CHOOSE iter : PairFold!Iterates(iter, {}, <<>>, s, DOMAIN s)
<1>1. DOMAIN s = 1..2 /\ s[1] = p /\ s[2] = q
  OBVIOUS
<1>2. PairFold!GreatestUpTo(2)
  BY MaxIsGreatest DEF PairFold!GreatestUpTo
<1>3. PairFold!Iterates(iter, {}, <<>>, s, DOMAIN s)
  <2>1. \E it : PairFold!Iterates(it, {}, <<>>, s, 1..2)
    <3> HIDE DEF s
    <3> QED
      BY <1>1, <1>2, PairFold!IterationExists
  <2> HIDE DEF s
  <2> QED
    BY <1>1, <2>1
<1>4. end = iter[DOMAIN s]
  BY DEF FusedOf, FoldLeft, MapThenFoldSet, PairFold!Iterates, PairStep
<1> HIDE DEF iter, end, s
<1>5. PICK f : PairFold!IsRun(f, {}, <<>>, s, 2) /\ end = f[2]
  <2> DEFINE w == <<>>
             n == 2
  <2>1. n \in Nat /\ DOMAIN s = 1..n /\ PairFold!GreatestUpTo(n)
    BY <1>1, <1>2
  <2>2. PairFold!Iterates(iter, {}, w, s, DOMAIN s)
    BY <1>3
  <2> HIDE DEF w, n
  <2>3. \E f : PairFold!IsRun(f, {}, w, s, n) /\ end = f[n]
    BY <1>4, <2>1, <2>2, PairFold!FoldRuns
  <2> QED
    BY <2>3 DEF w, n
<1>6. f[1] = FuseList(f[0], p) /\ f[2] = FuseList(f[1], q) /\ f[0] = <<>>
  <2>1. 1 \in 1..2 /\ 2 \in 1..2 /\ 1 - 1 = 0 /\ 2 - 1 = 1
    OBVIOUS
  <2>2. f[0] = <<>> /\ \A i \in 1..2 : f[i] = FuseList(f[i - 1], s[i])
    BY <1>5 DEF PairFold!IsRun, PairStep
  <2> QED
    BY <1>1, <2>1, <2>2
<1> QED
  BY <1>5, <1>6 DEF end, s

(* Results one can fuse, each with a key of its own *)
Item(x) == DOMAIN x = Fields /\ x.name \in Nat /\ x.path \in Nat /\ x.exact \in BOOLEAN
Keyed(list, n) ==
    /\ n \in Nat /\ n = Len(list) /\ \A i \in 1..n : Item(list[i])
    /\ \A i, j \in 1..n : Key(list[i]) = Key(list[j]) => i = j

Points(fused, k) == IF k \in DOMAIN fused THEN fused[k].score ELSE 0
Entries(fused) ==
    \A k \in DOMAIN fused : Item(fused[k].hit) /\ Key(fused[k].hit) = k /\ fused[k].score \in Nat

OneAdded(new, old, r, i) ==
    /\ Entries(new) /\ DOMAIN new = DOMAIN old \cup {Key(r)}
    /\ Points(new, Key(r)) = Points(old, Key(r)) + Contribution(i)
    /\ \A k : k # Key(r) => Points(new, k) = Points(old, k)

LEMMA FuseOneAdds ==
  ASSUME NEW fused, Entries(fused), NEW r, Item(r), NEW i, Contribution(i) \in Nat
  PROVE  OneAdded(FuseOne(fused, r, i), fused, r, i)
<1> DEFINE new == FuseOne(fused, r, i)
           key == Key(r)
           c == Contribution(i)
           entry == IF key \in DOMAIN fused THEN Merged(fused[key], r, i) ELSE [hit |-> r, score |-> c]
<1>1. /\ DOMAIN new = DOMAIN fused \cup {key} /\ new[key] = entry
      /\ \A k \in DOMAIN fused : k # key => new[k] = fused[k]
  <2> DEFINE D == DOMAIN fused \cup {key}
             at(k) == CASE k # key                       -> fused[k]
                        [] k = key /\ k \in DOMAIN fused -> Merged(fused[k], r, i)
                        [] OTHER                         -> [hit |-> r, score |-> c]
  <2>1. new = [k \in D |-> at(k)]
    BY DEF FuseOne
  <2>2. at(key) = entry /\ \A k : k # key => at(k) = fused[k]
    <3> HIDE DEF key, c
    <3> QED
      OBVIOUS
  <2>3. key \in D /\ \A k \in DOMAIN fused : k \in D
    OBVIOUS
  <2> HIDE DEF new, at, key, entry
  <2> QED
    BY <2>1, <2>2, <2>3
<1>2. /\ Item(entry.hit) /\ Key(entry.hit) = key
      /\ entry.score \in Nat /\ entry.score = Points(fused, key) + c
  <2>1. CASE key \in DOMAIN fused
    <3> DEFINE old == fused[key]
               h == old.hit
               line == IF h.line = NoLine THEN r.line ELSE h.line
               level == IF r.exact /\ ~h.exact THEN r.level ELSE h.level
               exact == h.exact \/ r.exact
               hit == [h EXCEPT !.exact = exact, !.level = level, !.line = line]
    <3>1. Item(h) /\ Key(h) = key /\ old.score \in Nat
      BY <2>1 DEF Entries
    <3>2. entry = [hit |-> hit, score |-> old.score + c]
      BY <2>1 DEF Merged
    <3>3. exact \in BOOLEAN
      OBVIOUS
    <3> HIDE DEF old, h, line, level, exact, key
    <3>4. DOMAIN hit = Fields /\ hit.name = h.name /\ hit.path = h.path /\ hit.exact = exact
      BY <3>1 DEF Item, Fields
    <3> HIDE DEF hit, entry
    <3>5. Item(hit) /\ Key(hit) = key
      BY <3>1, <3>3, <3>4 DEF Item, Key
    <3>6. Points(fused, key) = old.score
      BY <2>1 DEF Points, old
    <3> QED
      BY <3>1, <3>2, <3>5, <3>6
  <2>2. CASE key \notin DOMAIN fused
    <3>1. entry = [hit |-> r, score |-> c] /\ Points(fused, key) = 0
      BY <2>2 DEF Points
    <3> HIDE DEF entry
    <3> QED
      BY <3>1
  <2> QED
    BY <2>1, <2>2
<1> HIDE DEF new, key, entry
<1>3. ASSUME NEW k \in DOMAIN new PROVE Item(new[k].hit) /\ Key(new[k].hit) = k /\ new[k].score \in Nat
  BY <1>1, <1>2, <1>3 DEF Entries
<1>4. Points(new, key) = Points(fused, key) + c /\ \A k : k # key => Points(new, k) = Points(fused, k)
  BY <1>1, <1>2 DEF Points
<1> QED
  BY <1>1, <1>3, <1>4 DEF OneAdded, Entries, new, key

(* What the first i results of list add to base *)
Added(acc, base, list, i) ==
    /\ Entries(acc)
    /\ \A k : k \in DOMAIN acc <=> k \in DOMAIN base \/ \E j \in 1..i : Key(list[j]) = k
    /\ \A j \in 1..i : Points(acc, Key(list[j])) = Points(base, Key(list[j])) + Contribution(j)
    /\ \A k : (\A j \in 1..i : Key(list[j]) # k) => Points(acc, k) = Points(base, k)

LEMMA FuseListAdds ==
  ASSUME NEW base, Entries(base), NEW X, NEW list \in Seq(X), NEW n, Apart(n), NEW m \in 0..n, Keyed(list, m)
  PROVE  Added(FuseList(base, list), base, list, m)
<1>1. /\ m \in Nat /\ m = Len(list) /\ \A i \in 1..m : Item(list[i]) /\ Contribution(i) \in Nat
      /\ \A i, j \in 1..m : Key(list[i]) = Key(list[j]) => i = j
  <2>1. n \in Nat
    BY DEF Apart
  <2>2. \A i \in 1..m : i \in 1..n
    BY <2>1
  <2> QED
    BY <2>2, ContributionsFall DEF Keyed
<1>2. PICK f : /\ f[0] = base /\ FuseList(base, list) = f[m]
               /\ \A i \in 1..m : f[i] = FuseOne(f[i - 1], list[i], i)
  BY <1>1, FuseRuns
<1> DEFINE S == {i \in 0..m : Added(f[i], base, list, i)}
<1>3. 0 \in S
  <2>1. 0 \in 0..m /\ 1..0 = {}
    BY <1>1
  <2>2. Added(base, base, list, 0)
    BY <2>1 DEF Added
  <2> QED
    BY <1>2, <2>1, <2>2
<1>4. ASSUME NEW i \in 1..m, i - 1 \in S PROVE i \in S
  <2> DEFINE old == f[i - 1]
             new == f[i]
             r == list[i]
             key(j) == Key(list[j])
  <2>1. Added(old, base, list, i - 1) /\ i \in 0..m /\ i - 1 \in Nat /\ i \in Nat
    BY <1>1, <1>4
  <2>2. new = FuseOne(old, r, i) /\ Item(r) /\ Contribution(i) \in Nat /\ Entries(old)
    BY <1>1, <1>2, <2>1 DEF Added
  <2> HIDE DEF old, new, r
  <2>3. /\ Entries(new) /\ DOMAIN new = DOMAIN old \cup {Key(r)}
        /\ Points(new, Key(r)) = Points(old, Key(r)) + Contribution(i)
        /\ \A k : k # Key(r) => Points(new, k) = Points(old, k)
    <3>1. OneAdded(FuseOne(old, r, i), old, r, i)
      BY <2>2, FuseOneAdds
    <3> QED
      BY <2>2, <3>1 DEF OneAdded
  <2>4. Key(r) = key(i)
    BY DEF r
  <2>5. \A j \in 1..(i - 1) : key(j) # key(i) /\ j \in 1..m
    BY <1>1, <2>1
  <2>6. \A j : j \in 1..i <=> j \in 1..(i - 1) \/ j = i
    BY <2>1
  <2>7. /\ \A k : k \in DOMAIN old <=> k \in DOMAIN base \/ \E j \in 1..(i - 1) : key(j) = k
        /\ \A j \in 1..(i - 1) : Points(old, key(j)) = Points(base, key(j)) + Contribution(j)
        /\ \A k : (\A j \in 1..(i - 1) : key(j) # k) => Points(old, k) = Points(base, k)
    BY <2>1 DEF Added
  <2> HIDE DEF key
  <2>8. \A k : k \in DOMAIN new <=> k \in DOMAIN base \/ \E j \in 1..i : key(j) = k
    BY <2>3, <2>4, <2>6, <2>7
  <2>9. \A j \in 1..i : Points(new, key(j)) = Points(base, key(j)) + Contribution(j)
    <3>1. Points(old, key(i)) = Points(base, key(i))
      BY <2>5, <2>7
    <3> QED
      BY <2>3, <2>4, <2>5, <2>6, <2>7, <3>1
  <2>10. \A k : (\A j \in 1..i : key(j) # k) => Points(new, k) = Points(base, k)
    BY <2>3, <2>4, <2>6, <2>7
  <2>11. Added(new, base, list, i)
    BY <2>3, <2>8, <2>9, <2>10 DEF Added, key
  <2> QED
    BY <2>1, <2>11 DEF new
<1>5. 0..m \subseteq S
  <2> HIDE DEF S
  <2> QED
    BY <1>1, <1>3, <1>4, FuseFold!InductionUpTo
<1>6. m \in S
  <2> HIDE DEF S
  <2> QED
    BY <1>1, <1>5
<1> QED
  BY <1>2, <1>6

(* Ranked members stand as they are ordered *)
Placed(q, S, R) ==
    /\ q \in Seq(S) /\ Len(q) = Cardinality(S) /\ \A x \in S : \E i \in 1..Len(q) : q[i] = x
    /\ \A i, j \in 1..Len(q) : i < j => q[i] # q[j] /\ <<q[i], q[j]>> \in R

LEMMA RanksPlace ==
  ASSUME NEW S, IsFiniteSet(S), NEW R, Orders(R, S), NEW q, Ranked(q, S, R)
  PROVE  Placed(q, S, R)
<1>1. \A i \in 1..Cardinality(S) : q[i] \in S /\ Rank(S, R, q[i]) = i - 1
  <2>1. \A i \in 1..Cardinality(S) : \E x \in S : Rank(S, R, x) = i - 1
    BY RanksExist
  <2> QED
    BY <2>1 DEF Ranked
<1>2. q \in [1..Cardinality(S) -> S]
  BY <1>1 DEF Ranked
<1>3. /\ q \in Seq(S) /\ Len(q) = Cardinality(S) /\ \A x \in S : \E i \in 1..Len(q) : q[i] = x
      /\ \A i, j \in 1..Len(q) : i < j => q[i] # q[j] /\ <<q[i], q[j]>> \in R
  BY <1>1, <1>2, RanksOrder
<1> QED
  BY <1>3 DEF Placed

SortedOf(late, S) == InOrder(S, LAMBDA x, y : FusedBefore(late, x, y))

(* In order, the entries with more points come first *)
MostFirst(q, S) ==
    /\ q \in Seq(S) /\ \A x \in S : Lists(q, x)
    /\ \A i, j \in 1..Len(q) : i < j => q[i] # q[j] /\ q[i].score >= q[j].score

LEMMA SortedIs ==
  ASSUME NEW S, IsFiniteSet(S), NEW late, \A x \in S : Item(x.hit) /\ x.score \in Nat,
         \A x, y \in S : Key(x.hit) = Key(y.hit) => x = y
  PROVE  MostFirst(SortedOf(late, S), S)
<1> DEFINE before(x, y) == FusedBefore(late, x, y)
           R == {p \in S \X S : before(p[1], p[2])}
           q == SortedOf(late, S)
           rows(x) == {y \in S : FusedBefore(late, y, x)}
           ranked(i) == CHOOSE x \in S : Rank(S, R, x) = i - 1
           placed(i) == CHOOSE x \in S : Cardinality(rows(x)) = i - 1
           plain(x) == IF x.hit.exact THEN 0 ELSE 1
           last(x) == IF Key(x.hit) \in late THEN 1 ELSE 0
           name(x) == x.hit.name
           path(x) == x.hit.path
           over(x, y) == \/ x.score > y.score
                         \/ x.score = y.score /\ plain(x) < plain(y)
                         \/ x.score = y.score /\ plain(x) = plain(y)
                            /\ \/ name(x) < name(y)
                               \/ name(x) = name(y) /\ last(x) < last(y)
                               \/ name(x) = name(y) /\ last(x) = last(y) /\ path(x) < path(y)
<1>1. \A x, y \in S : <<x, y>> \in R <=> FusedBefore(late, x, y)
  <2>1. \A x, y \in S : <<x, y>> \in R <=> before(x, y)
    <3> HIDE DEF before
    <3> QED
      OBVIOUS
  <2> QED
    BY <2>1
<1>2. \A x \in S : /\ x.score \in Nat /\ plain(x) \in {0, 1} /\ last(x) \in {0, 1}
                    /\ name(x) \in Nat /\ path(x) \in Nat
  BY DEF Item
<1>3. \A x, y \in S : FusedBefore(late, x, y) <=> over(x, y)
  <2> TAKE x, y \in S
  <2> DEFINE a == x.hit
             b == y.hit
  <2>1. a.exact \in BOOLEAN /\ b.exact \in BOOLEAN
    BY DEF Item
  <2>2. /\ (a.exact /\ ~b.exact <=> plain(x) < plain(y)) /\ (a.exact = b.exact <=> plain(x) = plain(y))
        /\ (Key(a) \notin late /\ Key(b) \in late <=> last(x) < last(y))
        /\ ((Key(a) \in late <=> Key(b) \in late) <=> last(x) = last(y))
    <3>1. /\ (Key(a) \notin late /\ Key(b) \in late <=> last(x) < last(y))
          /\ ((Key(a) \in late <=> Key(b) \in late) <=> last(x) = last(y))
      OBVIOUS
    <3>2. CASE a.exact /\ b.exact
      <4>1. plain(x) = 0 /\ plain(y) = 0 /\ a.exact = b.exact
        BY <2>1, <3>2
      <4> QED
        BY <3>1, <3>2, <4>1
    <3>3. CASE a.exact /\ ~b.exact
      <4>1. plain(x) < plain(y) /\ plain(x) # plain(y)
        BY <3>3
      <4>2. a.exact # b.exact
        BY <3>3
      <4> HIDE DEF plain, last, a, b
      <4> QED
        BY <3>1, <3>3, <4>1, <4>2
    <3>4. CASE ~a.exact /\ b.exact
      <4>1. ~(plain(x) < plain(y)) /\ plain(x) # plain(y)
        BY <3>4
      <4>2. a.exact # b.exact
        BY <3>4
      <4> HIDE DEF plain, last, a, b
      <4> QED
        BY <3>1, <3>4, <4>1, <4>2
    <3>5. CASE ~a.exact /\ ~b.exact
      <4>1. plain(x) = 1 /\ plain(y) = 1 /\ a.exact = b.exact
        BY <2>1, <3>5
      <4> QED
        BY <3>1, <3>5, <4>1
    <3> QED
      BY <3>2, <3>3, <3>4, <3>5
  <2> HIDE DEF plain, last
  <2> QED
    BY <2>2 DEF FusedBefore
<1>4. \A x, y \in S : name(x) = name(y) /\ path(x) = path(y) => x = y
  BY DEF Key
<1> HIDE DEF R, plain, last, name, path
<1>5. \A x, y \in S : <<x, y>> \in R <=> over(x, y)
  <2> HIDE DEF over
  <2> QED
    BY <1>1, <1>3
<1>6. Orders(R, S)
  <2>1. \A x \in S : <<x, x>> \notin R
    BY <1>2, <1>5
  <2>2. \A x, y \in S : x # y => <<x, y>> \in R \/ <<y, x>> \in R
    <3> TAKE x, y \in S
    <3> HAVE x # y
    <3>1. name(x) # name(y) \/ path(x) # path(y)
      BY <1>4
    <3>2. over(x, y) \/ over(y, x)
      BY <1>2, <3>1
    <3> QED
      BY <1>5, <3>2
  <2>3. \A x, y, z \in S : <<x, y>> \in R /\ <<y, z>> \in R => <<x, z>> \in R
    <3> TAKE x, y, z \in S
    <3>1. over(x, y) /\ over(y, z) => over(x, z)
      BY <1>2
    <3> HIDE DEF over
    <3> QED
      BY <1>5, <3>1
  <2> QED
    BY <2>1, <2>2, <2>3 DEF Orders
<1>7. \A x \in S : Rank(S, R, x) = Cardinality(rows(x))
  <2> TAKE x \in S
  <2>1. {y \in S : <<y, x>> \in R} = rows(x)
    BY <1>1
  <2> QED
    BY <2>1 DEF Rank
<1>8. q = [i \in 1..Cardinality(S) |-> ranked(i)]
  <2>1. q = [i \in 1..Cardinality(S) |-> placed(i)]
    BY DEF SortedOf, InOrder
  <2>2. \A i : ranked(i) = placed(i)
    <3> HIDE DEF rows
    <3>1. \A i : \A x : (x \in S /\ Rank(S, R, x) = i - 1) <=> (x \in S /\ Cardinality(rows(x)) = i - 1)
      BY <1>7
    <3> QED
      BY <3>1
  <2> HIDE DEF q, ranked, placed
  <2> QED
    BY <2>1, <2>2
<1> HIDE DEF q
<1>9. Ranked(q, S, R)
  BY <1>8 DEF Ranked
<1>10. /\ q \in Seq(S) /\ \A x \in S : \E i \in 1..Len(q) : q[i] = x
       /\ \A i, j \in 1..Len(q) : i < j => q[i] # q[j] /\ <<q[i], q[j]>> \in R
  <2>1. Placed(q, S, R)
    BY <1>6, <1>9, RanksPlace
  <2> QED
    BY <2>1 DEF Placed
<1>11. \A x, y \in S : <<x, y>> \in R => x.score >= y.score
  BY <1>2, <1>5
<1>12. \A i \in 1..Len(q) : q[i] \in S
  BY <1>10
<1> QED
  BY <1>10, <1>11, <1>12 DEF MostFirst, Lists, q

(* What a list adds to the points of a key *)
Holds(list, k) == \E i \in 1..Len(list) : Key(list[i]) = k
Leads(list, a, b) == \E i, j \in 1..Len(list) : i < j /\ Key(list[i]) = a /\ Key(list[j]) = b
Share(list, k) == IF Holds(list, k) THEN Contribution(CHOOSE i \in 1..Len(list) : Key(list[i]) = k) ELSE 0

LEMMA SharesAre ==
  ASSUME NEW n, Apart(n), NEW list, NEW m \in 0..n, Keyed(list, m)
  PROVE  /\ \A i \in 1..m : Share(list, Key(list[i])) = Contribution(i)
         /\ \A k : Share(list, k) \in Nat /\ (~Holds(list, k) => Share(list, k) = 0)
         /\ \A a, b : Leads(list, a, b) => Share(list, a) > Share(list, b)
<1>1. /\ m \in Nat /\ m = Len(list) /\ n \in Nat
      /\ \A i, j \in 1..m : Key(list[i]) = Key(list[j]) => i = j
  BY DEF Keyed, Apart
<1>2. \A i \in 1..m : /\ Contribution(i) \in Nat
                       /\ \A j \in 1..m : i < j => Contribution(i) > Contribution(j)
  <2>1. \A i \in 1..m : i \in 1..n
    BY <1>1
  <2> QED
    BY <2>1, ContributionsFall
<1>3. ASSUME NEW i \in 1..m PROVE Holds(list, Key(list[i])) /\ Share(list, Key(list[i])) = Contribution(i)
  <2>1. Holds(list, Key(list[i]))
    BY <1>1 DEF Holds
  <2> DEFINE c == CHOOSE j \in 1..Len(list) : Key(list[j]) = Key(list[i])
  <2>2. c \in 1..m /\ Key(list[c]) = Key(list[i])
    BY <1>1
  <2>3. c = i
    <3> HIDE DEF c
    <3> QED
      BY <1>1, <2>2
  <2>4. Share(list, Key(list[i])) = Contribution(c)
    BY <2>1 DEF Share
  <2> HIDE DEF c
  <2> QED
    BY <2>1, <2>3, <2>4
<1>4. ASSUME NEW k PROVE Share(list, k) \in Nat /\ (~Holds(list, k) => Share(list, k) = 0)
  <2>1. CASE Holds(list, k)
    <3>1. PICK i \in 1..m : Key(list[i]) = k
      BY <1>1, <2>1 DEF Holds
    <3> QED
      BY <1>2, <1>3, <2>1, <3>1
  <2>2. CASE ~Holds(list, k)
    BY <2>2 DEF Share
  <2> QED
    BY <2>1, <2>2
<1>5. ASSUME NEW a, NEW b, Leads(list, a, b) PROVE Share(list, a) > Share(list, b)
  <2>1. PICK i \in 1..m, j \in 1..m : i < j /\ Key(list[i]) = a /\ Key(list[j]) = b
    BY <1>1, <1>5 DEF Leads
  <2>2. Share(list, a) = Contribution(i) /\ Share(list, b) = Contribution(j)
    BY <1>3, <2>1
  <2> QED
    BY <1>2, <2>1, <2>2
<1> QED
  BY <1>3, <1>4, <1>5

LEMMA SharesAdd ==
  ASSUME NEW n, Apart(n), NEW list, NEW m \in 0..n, Keyed(list, m),
         NEW base, Entries(base), NEW acc, Added(acc, base, list, m), NEW k
  PROVE  Points(acc, k) = Points(base, k) + Share(list, k) /\ Points(base, k) \in Nat
<1>1. Points(base, k) \in Nat
  BY DEF Entries, Points
<1>2. m = Len(list)
  BY DEF Keyed
<1>3. CASE Holds(list, k)
  <2>1. PICK i \in 1..m : Key(list[i]) = k
    BY <1>2, <1>3 DEF Holds
  <2>2. Points(acc, Key(list[i])) = Points(base, Key(list[i])) + Contribution(i)
    BY DEF Added
  <2>3. Share(list, Key(list[i])) = Contribution(i)
    BY SharesAre
  <2> QED
    BY <1>1, <2>1, <2>2, <2>3
<1>4. CASE ~Holds(list, k)
  <2>1. Points(acc, k) = Points(base, k)
    BY <1>2, <1>4 DEF Added, Holds
  <2>2. Share(list, k) = 0
    BY <1>4 DEF Share
  <2> QED
    BY <1>1, <2>1, <2>2
<1> QED
  BY <1>1, <1>3, <1>4

(* Two lists fused: what each holds, and with how many points *)
Totals(fused, p, q) ==
    /\ Entries(fused) /\ IsFiniteSet(DOMAIN fused)
    /\ \A k : k \in DOMAIN fused <=> Holds(p, k) \/ Holds(q, k)
    /\ \A k : Points(fused, k) = Share(p, k) + Share(q, k)

LEMMA KeysFinite == ASSUME NEW list, NEW m, Keyed(list, m) PROVE IsFiniteSet({Key(list[i]) : i \in 1..m})
<1> DEFINE f == [i \in 1..m |-> Key(list[i])]
           T == {f[i] : i \in 1..m}
<1>1. IsFiniteSet(1..m) /\ DOMAIN f = 1..m
  <2>1. m \in Nat
    BY DEF Keyed
  <2> QED
    BY <2>1, FS_Interval
<1>2. {Key(list[i]) : i \in 1..m} = T
  OBVIOUS
<1>3. IsFiniteSet(T)
  <2> HIDE DEF f
  <2> QED
    BY <1>1, ImageFinite
<1> HIDE DEF T
<1> QED
  BY <1>2, <1>3

LEMMA PairTotals ==
  ASSUME NEW n, Apart(n), NEW X, NEW p \in Seq(X), NEW m \in 0..n, Keyed(p, m),
         NEW Y, NEW q \in Seq(Y), NEW l \in 0..n, Keyed(q, l)
  PROVE  Totals(FusedOf(<<p, q>>), p, q)
<1> DEFINE none == <<>>
           base == FuseList(none, p)
           fused == FuseList(base, q)
<1>1. FusedOf(<<p, q>>) = fused
  BY PairFused
<1>2. Entries(none) /\ DOMAIN none = {}
  BY DEF Entries
<1>3. \A k : Points(none, k) = 0
  BY <1>2 DEF Points
<1> HIDE DEF none
<1>4. Added(base, none, p, m)
  BY <1>2, FuseListAdds
<1> HIDE DEF base
<1>5. Entries(base)
  BY <1>4 DEF Added
<1>6. Added(fused, base, q, l)
  BY <1>5, FuseListAdds
<1> HIDE DEF fused
<1>7. m = Len(p) /\ l = Len(q)
  BY DEF Keyed
<1>8. Entries(fused) /\ \A k : k \in DOMAIN fused <=> Holds(p, k) \/ Holds(q, k)
  <2>1. \A k : k \in DOMAIN base <=> Holds(p, k)
    BY <1>2, <1>4, <1>7 DEF Added, Holds
  <2> QED
    BY <1>6, <1>7, <2>1 DEF Added, Holds
<1>9. ASSUME NEW k PROVE Points(fused, k) = Share(p, k) + Share(q, k)
  <2>1. Points(base, k) = Points(none, k) + Share(p, k)
    BY <1>2, <1>4, SharesAdd
  <2>2. Points(fused, k) = Points(base, k) + Share(q, k)
    BY <1>5, <1>6, SharesAdd
  <2>3. Share(p, k) \in Nat
    BY SharesAre
  <2> QED
    BY <1>3, <2>1, <2>2, <2>3
<1>10. IsFiniteSet(DOMAIN fused)
  <2> DEFINE A == {Key(p[i]) : i \in 1..m}
             B == {Key(q[i]) : i \in 1..l}
  <2>1. IsFiniteSet(A \cup B)
    BY KeysFinite, FS_Union
  <2>2. DOMAIN fused \subseteq A \cup B
    BY <1>7, <1>8 DEF Holds
  <2> HIDE DEF A, B
  <2> QED
    BY <2>1, <2>2, FS_Subset
<1> QED
  BY <1>1, <1>8, <1>9, <1>10 DEF Totals

(* A fused list keeps the order its lists agree on *)
Fair(r, p, q) ==
    /\ Len(r) \in Nat /\ DOMAIN r = 1..Len(r)
    /\ \A i, j \in 1..Len(r) : Key(r[i]) = Key(r[j]) => i = j
    /\ \A a, b : /\ Holds(p, a) \/ Holds(q, a)
                 /\ Holds(p, b) => Leads(p, a, b)
                 /\ Holds(q, b) => Leads(q, a, b)
                 /\ a # b /\ Holds(r, b)
                 => Leads(r, a, b)

LEMMA CutOff ==
  ASSUME NEW X, NEW s \in Seq(X), NEW limit \in Nat
  PROVE  /\ Truncate(s, limit) \in Seq(X) /\ Len(Truncate(s, limit)) <= Len(s)
         /\ \A i \in 1..Len(Truncate(s, limit)) : Truncate(s, limit)[i] = s[i]
<1> DEFINE m == AtMost(limit, Len(s))
<1>1. m \in 0..Len(s) /\ Len(s) \in Nat
  BY DEF AtMost
<1>2. Truncate(s, limit) = SubSeq(s, 1, m)
  BY DEF Truncate
<1> HIDE DEF m
<1>3. SubSeq(s, 1, m) \in Seq(X) /\ Len(SubSeq(s, 1, m)) = m /\ \A i \in 1..m : SubSeq(s, 1, m)[i] = s[i]
  BY <1>1
<1> QED
  BY <1>1, <1>2, <1>3

LEMMA FusionFairly ==
  ASSUME NEW n, Apart(n), NEW X, NEW p \in Seq(X), NEW m \in 0..n, Keyed(p, m),
         NEW Y, NEW q \in Seq(Y), NEW l \in 0..n, Keyed(q, l), NEW late, NEW room \in Nat, NEW limit \in Nat
  PROVE  Fair(Truncate(RrfFuse(<<p, q>>, late, room), limit), p, q)
<1> DEFINE fused == FusedOf(<<p, q>>)
           S == {fused[k] : k \in DOMAIN fused}
           sorted == SortedOf(late, S)
           ranked == Truncate(sorted, room)
           told(x) == [x.hit EXCEPT !.score = Scaled(x.score)]
           all == [i \in DOMAIN ranked |-> told(ranked[i])]
           r == Truncate(all, limit)
<1>1. Totals(fused, p, q)
  BY PairTotals
<1>2. RrfFuse(<<p, q>>, late, room) = all
  BY DEF RrfFuse, FusedOf, SortedOf
<1> HIDE DEF fused
<1>3. Entries(fused) /\ IsFiniteSet(DOMAIN fused)
  BY <1>1 DEF Totals
<1>4. /\ IsFiniteSet(S) /\ \A x \in S : Item(x.hit) /\ x.score \in Nat
      /\ \A x, y \in S : Key(x.hit) = Key(y.hit) => x = y
      /\ \A x \in S : Key(x.hit) \in DOMAIN fused /\ x = fused[Key(x.hit)]
  <2>1. IsFiniteSet(S)
    BY <1>3, ImageFinite
  <2>2. \A x \in S : /\ Item(x.hit) /\ x.score \in Nat
                      /\ Key(x.hit) \in DOMAIN fused /\ x = fused[Key(x.hit)]
    BY <1>3 DEF Entries
  <2>3. \A x, y \in S : Key(x.hit) = Key(y.hit) => x = y
    <3> HIDE DEF S
    <3> QED
      BY <2>2
  <2> QED
    BY <2>1, <2>2, <2>3
<1>5. \A k \in DOMAIN fused : fused[k] \in S /\ Key(fused[k].hit) = k
  BY <1>3 DEF Entries
<1> HIDE DEF S
<1>6. MostFirst(sorted, S)
  BY <1>4, SortedIs
<1> HIDE DEF sorted
<1>7. /\ sorted \in Seq(S) /\ \A x \in S : Lists(sorted, x)
      /\ \A i, j \in 1..Len(sorted) : i < j => sorted[i] # sorted[j] /\ sorted[i].score >= sorted[j].score
  BY <1>6 DEF MostFirst
<1>8. /\ ranked \in Seq(S) /\ Len(ranked) <= Len(sorted)
      /\ \A i \in 1..Len(ranked) : ranked[i] = sorted[i]
  BY <1>7, CutOff
<1> HIDE DEF ranked
<1>9. \A x \in S : Key(told(x)) = Key(x.hit)
  <2> TAKE x \in S
  <2> DEFINE h == x.hit
             c == Scaled(x.score)
  <2>1. DOMAIN h = Fields
    BY <1>4 DEF Item
  <2>2. told(x) = [h EXCEPT !.score = c]
    OBVIOUS
  <2> HIDE DEF h, c, told
  <2>3. told(x).name = h.name /\ told(x).path = h.path
    BY <2>1, <2>2 DEF Fields
  <2> QED
    BY <2>3 DEF Key, h
<1> HIDE DEF told
<1> DEFINE T == {told(x) : x \in S}
<1>10. /\ all \in Seq(T) /\ Len(all) = Len(ranked)
       /\ \A i \in 1..Len(ranked) : all[i] = told(ranked[i])
  <2>1. Len(ranked) \in Nat /\ DOMAIN ranked = 1..Len(ranked) /\ \A i \in 1..Len(ranked) : ranked[i] \in S
    BY <1>8
  <2>2. \A i \in 1..Len(ranked) : told(ranked[i]) \in T
    BY <2>1
  <2> HIDE DEF T
  <2> QED
    BY <2>1, <2>2
<1> HIDE DEF all, T
<1>11. r \in Seq(T) /\ Len(r) <= Len(all) /\ \A i \in 1..Len(r) : r[i] = all[i]
  BY <1>10, CutOff
<1> HIDE DEF r
<1> DEFINE key(i) == Key(sorted[i].hit)
<1>12. /\ Len(r) \in Nat /\ DOMAIN r = 1..Len(r) /\ Len(sorted) \in Nat
       /\ \A i \in 1..Len(r) : i \in 1..Len(sorted) /\ Key(r[i]) = key(i)
  <2>1. Len(r) \in Nat /\ DOMAIN r = 1..Len(r) /\ Len(sorted) \in Nat /\ Len(ranked) \in Nat
    BY <1>7, <1>8, <1>11
  <2>2. \A i \in 1..Len(r) : i \in 1..Len(ranked) /\ i \in 1..Len(sorted)
    BY <1>8, <1>10, <1>11, <2>1
  <2>3. \A i \in 1..Len(r) : ranked[i] \in S /\ ranked[i] = sorted[i] /\ r[i] = told(ranked[i])
    BY <1>8, <1>10, <1>11, <2>2
  <2> QED
    BY <1>9, <2>1, <2>2, <2>3
<1>13. \A i, j \in 1..Len(sorted) : key(i) = key(j) => i = j
  <2> TAKE i, j \in 1..Len(sorted)
  <2> HAVE key(i) = key(j)
  <2>1. sorted[i] \in S /\ sorted[j] \in S
    BY <1>7
  <2>2. sorted[i] = sorted[j]
    BY <1>4, <2>1
  <2>3. ~(i < j) /\ ~(j < i)
    BY <1>7, <2>2
  <2> QED
    BY <1>12, <2>3
<1>14. ASSUME NEW a, NEW b, Holds(p, a) \/ Holds(q, a), Holds(p, b) => Leads(p, a, b), Holds(q, b) => Leads(q, a, b),
              a # b, Holds(r, b)
       PROVE  Leads(r, a, b)
  <2>1. PICK j \in 1..Len(r) : Key(r[j]) = b
    BY <1>14 DEF Holds
  <2>2. j \in 1..Len(sorted) /\ sorted[j] \in S /\ key(j) = b
    BY <1>7, <1>12, <2>1
  <2>3. b \in DOMAIN fused /\ sorted[j] = fused[b]
    BY <1>4, <2>2
  <2>4. a \in DOMAIN fused /\ (Holds(p, b) \/ Holds(q, b))
    BY <1>1, <1>14, <2>3 DEF Totals
  <2>5. PICK i \in 1..Len(sorted) : sorted[i] = fused[a]
    BY <1>5, <1>7, <2>4 DEF Lists
  <2>6. Points(fused, a) > Points(fused, b)
    <3>1. /\ Share(p, a) \in Nat /\ Share(p, b) \in Nat /\ (~Holds(p, b) => Share(p, b) = 0)
          /\ (Holds(p, b) => Share(p, a) > Share(p, b))
      BY <1>14, SharesAre
    <3>2. /\ Share(q, a) \in Nat /\ Share(q, b) \in Nat /\ (~Holds(q, b) => Share(q, b) = 0)
          /\ (Holds(q, b) => Share(q, a) > Share(q, b))
      BY <1>14, SharesAre
    <3>3. Points(fused, a) = Share(p, a) + Share(q, a) /\ Points(fused, b) = Share(p, b) + Share(q, b)
      BY <1>1 DEF Totals
    <3> QED
      BY <2>4, <3>1, <3>2, <3>3
  <2>7. fused[a].score > fused[b].score /\ fused[a].score \in Nat /\ fused[b].score \in Nat
    BY <1>3, <2>3, <2>4, <2>6 DEF Points, Entries
  <2>8. i < j
    <3>1. i # j
      BY <2>3, <2>5, <2>7
    <3>2. j < i => fused[b].score >= fused[a].score
      BY <1>7, <2>2, <2>3, <2>5
    <3> QED
      BY <1>12, <2>2, <2>7, <3>1, <3>2
  <2>9. i \in 1..Len(r) /\ Key(r[i]) = a
    <3>1. i \in 1..Len(r)
      BY <1>12, <2>1, <2>8
    <3> QED
      BY <1>5, <1>12, <2>4, <2>5, <3>1
  <2> QED
    BY <2>1, <2>8, <2>9 DEF Leads
<1>15. \A i, j \in 1..Len(r) : Key(r[i]) = Key(r[j]) => i = j
  BY <1>12, <1>13
<1>16. Fair(r, p, q)
  BY <1>12, <1>14, <1>15 DEF Fair
<1> QED
  BY <1>2, <1>16 DEF r

(* The list of the vectors, as long as the request asks *)
LEMMA VectorsAre ==
  ASSUME NEW graph, NEW t, WellFormed(graph), Scored(graph, t), NEW l \in Nat, NEW list \in VectorLists(graph, l)
  PROVE  (\E Y : list \in Seq(Y)) /\ Len(list) = l /\ \A i \in 1..l : Item(list[i])
<1> DEFINE hit(s) == [SymbolHit(graph, 1, s) EXCEPT !.level = 1, !.exact = FALSE, !.line = graph.sym[s].line]
<1>1. PICK q \in BoundedSeq(Symbols(graph), l) : Len(q) = l /\ list = [i \in 1..Len(q) |-> hit(q[i])]
  BY DEF VectorLists
<1>2. q \in Seq(Symbols(graph))
  BY DEF BoundedSeq, SeqOf
<1>3. ASSUME NEW s \in Symbols(graph) PROVE Item(hit(s))
  <2> DEFINE h == SymbolHit(graph, 1, s)
             line == graph.sym[s].line
  <2>1. NameAt(graph, s) \in Nat /\ graph.path[FileAt(graph, s)] \in Nat
    BY DEF Scored, WellFormed
  <2>2. DOMAIN h = Fields /\ h.name = NameAt(graph, s) /\ h.path = graph.path[FileAt(graph, s)]
    BY DEF SymbolHit, Fields
  <2>3. hit(s) = [h EXCEPT !.level = 1, !.exact = FALSE, !.line = line]
    OBVIOUS
  <2> HIDE DEF h, line, hit
  <2>4. DOMAIN hit(s) = Fields /\ hit(s).name = h.name /\ hit(s).path = h.path /\ hit(s).exact = FALSE
    BY <2>2, <2>3 DEF Fields
  <2> QED
    BY <2>1, <2>2, <2>4 DEF Item
<1> HIDE DEF hit
<1> DEFINE Y == {hit(s) : s \in Symbols(graph)}
<1>4. list \in Seq(Y) /\ Len(list) = l /\ \A i \in 1..l : q[i] \in Symbols(graph) /\ list[i] = hit(q[i])
  <2>1. \A i \in 1..l : q[i] \in Symbols(graph) /\ hit(q[i]) \in Y
    BY <1>1, <1>2
  <2>2. list = [i \in 1..l |-> hit(q[i])]
    BY <1>1
  <2> HIDE DEF Y
  <2> QED
    BY <2>1, <2>2
<1> HIDE DEF Y
<1> QED
  BY <1>3, <1>4

LEMMA LimitsApart == ASSUME NEW l \in Limits PROVE Apart(l + ConceptCap) /\ l \in Nat /\ ConceptCap \in Nat
<1>1. l \in Nat /\ ConceptCap \in Nat
  BY QueriesAssumption, LookupAssumption
<1>2. Precision \in Nat /\ Precision >= (60 + l + ConceptCap) * (61 + l + ConceptCap)
  BY PrecisionAssumption
<1>3. 60 + (l + ConceptCap) = 60 + l + ConceptCap /\ 61 + (l + ConceptCap) = 61 + l + ConceptCap
  BY <1>1
<1> QED
  BY <1>1, <1>2, <1>3 DEF Apart

KeysOf(list) == [i \in DOMAIN list |-> Key(list[i])]

(* The same of lists of keys *)
KeyFair(r, legs) ==
    (\A k \in 1..2 : IsInjective(legs[k])) =>
        /\ IsInjective(r)
        /\ \A a \in UNION {ToSet(legs[k]) : k \in 1..2}, b \in ToSet(r) :
              /\ a # b
              /\ \A k \in 1..2 : b \in ToSet(legs[k]) =>
                    \E i, j \in DOMAIN legs[k] : i < j /\ legs[k][i] = a /\ legs[k][j] = b
              => \E i, j \in DOMAIN r : i < j /\ r[i] = a /\ r[j] = b

LEMMA KeysAre ==
  ASSUME NEW list, DOMAIN list = 1..Len(list)
  PROVE  /\ \A k : k \in ToSet(KeysOf(list)) <=> Holds(list, k)
         /\ \A a, b : (\E i, j \in DOMAIN KeysOf(list) : i < j /\ KeysOf(list)[i] = a /\ KeysOf(list)[j] = b)
                      <=> Leads(list, a, b)
         /\ IsInjective(KeysOf(list)) <=> \A i, j \in 1..Len(list) : Key(list[i]) = Key(list[j]) => i = j
<1> DEFINE keys == KeysOf(list)
<1>1. DOMAIN keys = 1..Len(list) /\ \A i \in 1..Len(list) : keys[i] = Key(list[i])
  BY DEF KeysOf
<1> HIDE DEF keys
<1>2. \A k : k \in ToSet(keys) <=> Holds(list, k)
  BY <1>1 DEF ToSet, Holds
<1>3. \A a, b : (\E i, j \in DOMAIN keys : i < j /\ keys[i] = a /\ keys[j] = b) <=> Leads(list, a, b)
  BY <1>1 DEF Leads
<1>4. IsInjective(keys) <=> \A i, j \in 1..Len(list) : Key(list[i]) = Key(list[j]) => i = j
  BY <1>1 DEF IsInjective
<1> QED
  BY <1>2, <1>3, <1>4 DEF keys

LEMMA FairKeys ==
  ASSUME NEW p, NEW q, DOMAIN p = 1..Len(p), DOMAIN q = 1..Len(q), NEW r,
         IsInjective(KeysOf(p)) /\ IsInjective(KeysOf(q)) => Fair(r, p, q),
         NEW legs, legs[1] = KeysOf(p), legs[2] = KeysOf(q)
  PROVE  KeyFair(KeysOf(r), legs)
<1> SUFFICES ASSUME \A k \in 1..2 : IsInjective(legs[k])
             PROVE  /\ IsInjective(KeysOf(r))
                    /\ \A a \in UNION {ToSet(legs[k]) : k \in 1..2}, b \in ToSet(KeysOf(r)) :
                          /\ a # b
                          /\ \A k \in 1..2 : b \in ToSet(legs[k]) =>
                                \E i, j \in DOMAIN legs[k] : i < j /\ legs[k][i] = a /\ legs[k][j] = b
                          => \E i, j \in DOMAIN KeysOf(r) : i < j /\ KeysOf(r)[i] = a /\ KeysOf(r)[j] = b
  BY DEF KeyFair
<1>1. 1 \in 1..2 /\ 2 \in 1..2 /\ \A k \in 1..2 : k = 1 \/ k = 2
  OBVIOUS
<1>2. Fair(r, p, q)
  BY <1>1
<1>3. DOMAIN r = 1..Len(r)
  BY <1>2 DEF Fair
<1>4. IsInjective(KeysOf(r))
  BY <1>2, <1>3, KeysAre DEF Fair
<1>5. ASSUME NEW a \in UNION {ToSet(legs[k]) : k \in 1..2}, NEW b \in ToSet(KeysOf(r)), a # b,
             \A k \in 1..2 : b \in ToSet(legs[k]) =>
                 \E i, j \in DOMAIN legs[k] : i < j /\ legs[k][i] = a /\ legs[k][j] = b
      PROVE  \E i, j \in DOMAIN KeysOf(r) : i < j /\ KeysOf(r)[i] = a /\ KeysOf(r)[j] = b
  <2>1. a \in ToSet(KeysOf(p)) \/ a \in ToSet(KeysOf(q))
    BY <1>1
  <2>2. Holds(p, a) \/ Holds(q, a)
    BY <2>1, KeysAre
  <2>3. Holds(p, b) => Leads(p, a, b)
    <3>1. b \in ToSet(KeysOf(p)) =>
             \E i, j \in DOMAIN KeysOf(p) : i < j /\ KeysOf(p)[i] = a /\ KeysOf(p)[j] = b
      BY <1>1, <1>5
    <3> QED
      BY <3>1, KeysAre
  <2>4. Holds(q, b) => Leads(q, a, b)
    <3>1. b \in ToSet(KeysOf(q)) =>
             \E i, j \in DOMAIN KeysOf(q) : i < j /\ KeysOf(q)[i] = a /\ KeysOf(q)[j] = b
      BY <1>1, <1>5
    <3> QED
      BY <3>1, KeysAre
  <2>5. Holds(r, b)
    BY <1>3, KeysAre
  <2>6. Leads(r, a, b)
    BY <1>2, <1>5, <2>2, <2>3, <2>4, <2>5 DEF Fair
  <2> QED
    BY <1>3, <2>6, KeysAre
<1> QED
  BY <1>4, <1>5

(* rrf_fuse: a result that precedes another in every list that has the     *)
(* other precedes it in the fused list too and is not the one cut off;     *)
(* none is there twice.                                                    *)
THEOREM FusionIsFair == Spec => []FusionFair
<1>1. Init => SearchInv
  BY DEF Init, NoAnswer, SearchInv
<1>2. SessionInv /\ SearchInv => FusionFair
  <2> DEFINE p == answer.request.legs[1]
             q == answer.request.legs[2]
             r == answer.response.results
             legs == [k \in 1..2 |-> KeysOf(answer.request.legs[k])]
  <2> SUFFICES ASSUME SessionInv, SearchInv, Answered("search_codebase"), answer.request.mode = "both", q # Degraded
               PROVE  KeyFair(KeysOf(r), legs)
    BY DEF FusionFair, KeyFair, KeysOf
  <2>1. g \in Lookups /\ WellFormed(g) /\ \A t \in Texts : Scored(g, t)
    BY LookupsScored DEF SessionInv, IndexInv, SearchInv, Answered
  <2>2. PICK t \in Texts, l \in Limits, mode \in {"symbol", "text", "both", "semantic"} :
           \E semantic \in VectorLists(g, l) \cup {Degraded} : \E scope, concepts, ranking, late :
              Searched(g, answer.request, answer.response, t, l, scope, mode, concepts, semantic, ranking, late)
    BY DEF SearchInv, Answered
  <2>3. PICK semantic \in VectorLists(g, l) \cup {Degraded} : \E scope, concepts, ranking, late :
              Searched(g, answer.request, answer.response, t, l, scope, mode, concepts, semantic, ranking, late)
    BY <2>2
  <2>4. PICK scope, concepts, ranking, late :
              Searched(g, answer.request, answer.response, t, l, scope, mode, concepts, semantic, ranking, late)
    BY <2>3
  <2> DEFINE lexicalMode == IF mode = "semantic" THEN "both" ELSE mode
             found == SearchSymbols(g, Live, t, scope, lexicalMode, l)
             lexical == ResolveSearch(g, t, scope, lexicalMode, concepts, found, ranking)
             room == Len(lexical.results) + Len(semantic)
  <2>5. /\ ranking \in Rankings(found.hits, l) /\ answer.request.mode = mode
        /\ answer.request.legs = <<lexical.results, semantic>>
        /\ answer.response = ResolveSearchSemantic(mode, l, lexical, semantic, late)
    BY <2>4 DEF Searched
  <2>6. Apart(l + ConceptCap) /\ l \in Nat /\ ConceptCap \in Nat
    BY LimitsApart
  <2>7. /\ \E X : lexical.results \in Seq(X) /\ \A x \in X : Result(x)
        /\ Len(lexical.results) <= l + ConceptCap
    <3> HIDE DEF lexicalMode
    <3> QED
      BY <2>1, <2>5, <2>6, ResolveTells
  <2> HIDE DEF lexical, found
  <2>8. p = lexical.results /\ q = semantic /\ mode = "both" /\ semantic # Degraded
    BY <2>5
  <2>9. (\E Y : q \in Seq(Y)) /\ Len(q) = l /\ \A i \in 1..l : Item(q[i])
    BY <2>1, <2>3, <2>6, <2>8, VectorsAre
  <2>10. r = Truncate(RrfFuse(<<lexical.results, semantic>>, late, room), l)
    BY <2>5, <2>8 DEF ResolveSearchSemantic
  <2> HIDE DEF p, q, r
  <2>11. PICK X : p \in Seq(X) /\ \A x \in X : Result(x)
    BY <2>7, <2>8
  <2>12. PICK Y : q \in Seq(Y)
    BY <2>9
  <2>13. /\ DOMAIN p = 1..Len(p) /\ DOMAIN q = 1..Len(q) /\ Len(p) \in 0..(l + ConceptCap)
         /\ Len(q) \in 0..(l + ConceptCap) /\ room \in Nat
         /\ \A i \in 1..Len(p) : Item(p[i])
    <3>1. Len(p) \in Nat /\ DOMAIN p = 1..Len(p) /\ Len(q) \in Nat /\ DOMAIN q = 1..Len(q)
      BY <2>11, <2>12
    <3>2. \A i \in 1..Len(p) : Result(p[i])
      BY <2>11
    <3> QED
      BY <2>6, <2>7, <2>8, <2>9, <3>1, <3>2 DEF Item, Result
  <2>14. ASSUME IsInjective(KeysOf(p)), IsInjective(KeysOf(q)) PROVE Fair(r, p, q)
    <3>1. Keyed(p, Len(p))
      BY <2>13, <2>14, KeysAre DEF Keyed
    <3>2. Keyed(q, Len(q))
      BY <2>9, <2>13, <2>14, KeysAre DEF Keyed
    <3>3. r = Truncate(RrfFuse(<<p, q>>, late, room), l)
      BY <2>8, <2>10
    <3> HIDE DEF room
    <3>4. Fair(Truncate(RrfFuse(<<p, q>>, late, room), l), p, q)
      BY <2>6, <2>11, <2>12, <2>13, <3>1, <3>2, FusionFairly
    <3> QED
      BY <3>3, <3>4
  <2>15. legs[1] = KeysOf(p) /\ legs[2] = KeysOf(q)
    BY DEF p, q
  <2> HIDE DEF legs
  <2> QED
    BY <2>13, <2>14, <2>15, FairKeys
<1> QED
  BY <1>1, <1>2, SearchStep, SessionHolds, PTL DEF Spec
=============================================================================
