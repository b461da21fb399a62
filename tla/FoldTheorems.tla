---------------------------- MODULE FoldTheorems ----------------------------
(***************************************************************************)
(* What a fold over a sequence computes, for every sequence. The other     *)
(* modules fold with FoldLeft of SequencesExt, which picks the last index  *)
(* first and recurs on the set of the others; here it is shown to be the   *)
(* last value of a run: a function that starts from the base and goes from *)
(* each index to the next by one step. Step is the operator folded, with a *)
(* context c that does not change along the sequence, and Greatest is Max  *)
(* of FiniteSetsExt.                                                       *)
(***************************************************************************)
EXTENDS Integers, Sequences, WellFoundedInduction

CONSTANTS Step(_, _, _), Greatest(_)

(* Induction over the naturals, for a set instead of a predicate *)
THEOREM Induction ==
    ASSUME NEW S, 0 \in S, \A n \in Nat : n \in S => n + 1 \in S
    PROVE  Nat \subseteq S
<1> SUFFICES ASSUME ~(Nat \subseteq S) PROVE FALSE
  OBVIOUS
<1> DEFINE T == {n \in Nat : n \notin S}
<1>1. PICK m \in T : \A k \in T : ~(<<k, m>> \in OpToRel(<, Nat))
  BY NatLessThanWellFounded, WFMin
<1>2. m \in Nat \ {0} /\ m - 1 \in Nat
  OBVIOUS
<1>3. m - 1 \notin T
  <2>1. <<m - 1, m>> \in OpToRel(<, Nat)
    BY <1>2 DEF OpToRel
  <2> QED
    BY <1>1, <2>1
<1>4. m - 1 + 1 \in S
  BY <1>2, <1>3
<1> QED
  BY <1>2, <1>4

(* The same up to a bound *)
THEOREM InductionUpTo ==
    ASSUME NEW n \in Nat, NEW S, 0 \in S, \A i \in 1..n : i - 1 \in S => i \in S
    PROVE  0..n \subseteq S
<1> DEFINE T == {k \in Nat : k <= n => k \in S}
<1>1. \A k \in Nat : k \in T => k + 1 \in T
  <2> SUFFICES ASSUME NEW k \in Nat, k \in T, k + 1 <= n PROVE k + 1 \in S
    OBVIOUS
  <2>1. k + 1 \in 1..n /\ (k + 1) - 1 = k /\ k \in S
    OBVIOUS
  <2> QED
    BY <2>1
<1>2. Nat \subseteq T
  <2>1. 0 \in T
    OBVIOUS
  <2> HIDE DEF T
  <2> QED
    BY <1>1, <2>1, Induction
<1> QED
  BY <1>2

(* A set of naturals has a least member *)
THEOREM LeastExists ==
    ASSUME NEW S, S \subseteq Nat, S # {}
    PROVE  \E m \in S : \A k \in S : m <= k
<1>1. PICK m \in S : \A k \in S : ~(<<k, m>> \in OpToRel(<, Nat))
  <2>1. IsWellFoundedOn(OpToRel(<, Nat), Nat)
    BY NatLessThanWellFounded
  <2> QED
    BY <2>1, WFMin
<1>2. ASSUME NEW k \in S PROVE m <= k
  <2>1. k \in Nat /\ m \in Nat
    OBVIOUS
  <2>2. k < m => <<k, m>> \in OpToRel(<, Nat)
    BY <2>1 DEF OpToRel
  <2>3. ~(k < m)
    BY <1>1, <2>2
  <2> QED
    BY <2>1, <2>3
<1> QED
  BY <1>2

----------------------------------------------------------------------------
(* The function a fold evaluates: its value on the indexes still to fold *)
Iterates(iter, c, w, s, S) ==
    iter = [T \in SUBSET S |->
               IF T = {} THEN w ELSE Step(c, iter[T \ {Greatest(T)}], s[Greatest(T)])]

GreatestUpTo(n) == \A k \in 1..n : \A T \in SUBSET (1..k) : k \in T => Greatest(T) = k

IsRun(f, c, w, s, n) == f[0] = w /\ \A i \in 1..n : f[i] = Step(c, f[i - 1], s[i])

(* The function exists: the recursion is well founded *)
THEOREM IterationExists ==
    ASSUME NEW c, NEW w, NEW s, NEW n \in Nat, GreatestUpTo(n)
    PROVE  \E iter : Iterates(iter, c, w, s, 1..n)
<1> DEFINE S == {k \in 0..n : \E iter : Iterates(iter, c, w, s, 1..k)}
<1>1. 0 \in S
  <2>1. 1..0 = {}
    OBVIOUS
  <2>2. Iterates([T \in SUBSET (1..0) |-> w], c, w, s, 1..0)
    BY <2>1 DEF Iterates
  <2> QED
    BY <2>2
<1>2. ASSUME NEW k \in 1..n, k - 1 \in S PROVE k \in S
  <2>1. PICK f : Iterates(f, c, w, s, 1..(k - 1))
    BY <1>2
  <2>2. \A T \in SUBSET (1..k) : k \in T => Greatest(T) = k
    BY DEF GreatestUpTo
  <2>3. \A T \in SUBSET (1..k) : k \notin T => T \in SUBSET (1..(k - 1))
    OBVIOUS
  <2> DEFINE h == [T \in SUBSET (1..k) |-> IF k \in T THEN Step(c, f[T \ {k}], s[k]) ELSE f[T]]
  <2>4. \A T \in SUBSET (1..(k - 1)) :
           f[T] = IF T = {} THEN w ELSE Step(c, f[T \ {Greatest(T)}], s[Greatest(T)])
    BY <2>1 DEF Iterates
  <2>5. \A T \in SUBSET (1..k) :
           h[T] = IF T = {} THEN w ELSE Step(c, h[T \ {Greatest(T)}], s[Greatest(T)])
    <3> TAKE T \in SUBSET (1..k)
    <3>1. CASE k \in T
      <4>1. /\ Greatest(T) = k /\ T # {}
            /\ T \ {k} \in SUBSET (1..(k - 1)) /\ T \ {k} \in SUBSET (1..k)
        BY <2>2, <3>1
      <4>2. h[T \ {k}] = f[T \ {k}]
        BY <4>1
      <4> QED
        BY <3>1, <4>1, <4>2
    <3>2. CASE k \notin T
      <4>1. T \in SUBSET (1..(k - 1)) /\ h[T] = f[T]
        BY <2>3, <3>2
      <4>2. /\ T \ {Greatest(T)} \in SUBSET (1..(k - 1)) /\ T \ {Greatest(T)} \in SUBSET (1..k)
            /\ k \notin T \ {Greatest(T)}
        BY <3>2, <4>1
      <4>3. h[T \ {Greatest(T)}] = f[T \ {Greatest(T)}]
        BY <4>2
      <4> HIDE DEF h
      <4> QED
        BY <2>4, <4>1, <4>3
    <3> QED
      BY <3>1, <3>2
  <2> HIDE DEF h
  <2>6. h = [T \in SUBSET (1..k) |-> h[T]]
    BY DEF h
  <2>7. Iterates(h, c, w, s, 1..k)
    BY <2>5, <2>6 DEF Iterates
  <2> QED
    BY <2>7
<1>3. 0..n \subseteq S
  <2> HIDE DEF S
  <2> QED
    BY <1>1, <1>2, InductionUpTo
<1> QED
  BY <1>3

(* Its value on all indexes is where the run ends *)
THEOREM FoldRuns ==
    ASSUME NEW c, NEW w, NEW s, NEW n \in Nat, DOMAIN s = 1..n, GreatestUpTo(n),
           NEW iter, Iterates(iter, c, w, s, DOMAIN s)
    PROVE  \E f : IsRun(f, c, w, s, n) /\ iter[DOMAIN s] = f[n]
<1> DEFINE f == [i \in 0..n |-> iter[1..i]]
<1>1. \A T \in SUBSET (1..n) :
         iter[T] = IF T = {} THEN w ELSE Step(c, iter[T \ {Greatest(T)}], s[Greatest(T)])
  BY DEF Iterates
<1>2. f[0] = w
  <2>1. 1..0 = {} /\ {} \in SUBSET (1..n)
    OBVIOUS
  <2>2. iter[{}] = w
    BY <1>1, <2>1
  <2> QED
    BY <2>1, <2>2
<1>3. ASSUME NEW i \in 1..n PROVE f[i] = Step(c, f[i - 1], s[i])
  <2>0. i \in 1..i
    OBVIOUS
  <2>1. (1..i) \ {i} = 1..(i - 1) /\ 1..i # {} /\ 1..i \in SUBSET (1..n)
    <3>1. \A j : j \in (1..i) \ {i} <=> j \in 1..(i - 1)
      OBVIOUS
    <3>2. \A j \in 1..i : j \in 1..n
      OBVIOUS
    <3> QED
      BY <2>0, <3>1, <3>2
  <2>2. Greatest(1..i) = i
    <3>1. 1..i \in SUBSET (1..i)
      OBVIOUS
    <3> QED
      BY <2>0, <3>1 DEF GreatestUpTo
  <2>3. iter[1..i] = Step(c, iter[1..(i - 1)], s[i])
    BY <1>1, <2>1, <2>2
  <2> QED
    BY <2>3
<1>4. iter[DOMAIN s] = f[n]
  OBVIOUS
<1> HIDE DEF f
<1> QED
  BY <1>2, <1>3, <1>4 DEF IsRun

(* Two runs over sequences that agree go through the same values *)
THEOREM RunsAgree ==
    ASSUME NEW c, NEW w, NEW s, NEW t, NEW f, NEW h, NEW n \in Nat,
           IsRun(f, c, w, s, n), IsRun(h, c, w, t, n), \A i \in 1..n : s[i] = t[i]
    PROVE  f[n] = h[n]
<1> DEFINE S == {i \in 0..n : f[i] = h[i]}
<1>1. 0 \in S
  BY DEF IsRun
<1>2. \A i \in 1..n : i - 1 \in S => i \in S
  BY DEF IsRun
<1>3. 0..n \subseteq S
  <2> HIDE DEF S
  <2> QED
    BY <1>1, <1>2, InductionUpTo
<1> QED
  BY <1>3

(* The members of a sequence that gets longer by one *)
THEOREM AppendedMembers ==
    ASSUME NEW X, NEW q \in Seq(X), NEW x \in X
    PROVE  /\ Append(q, x) \in Seq(X) /\ Len(Append(q, x)) = Len(q) + 1
           /\ {Append(q, x)[i] : i \in 1..Len(Append(q, x))} = {q[i] : i \in 1..Len(q)} \cup {x}
<1>1. /\ Append(q, x) \in Seq(X) /\ Len(Append(q, x)) = Len(q) + 1 /\ Len(q) \in Nat
      /\ \A i \in 1..Len(q) : Append(q, x)[i] = q[i]
      /\ Append(q, x)[Len(q) + 1] = x
  OBVIOUS
<1>2. ASSUME NEW y \in {Append(q, x)[i] : i \in 1..Len(Append(q, x))}
      PROVE  y \in {q[i] : i \in 1..Len(q)} \cup {x}
  BY <1>1
<1>3. ASSUME NEW y \in {q[i] : i \in 1..Len(q)} \cup {x}
      PROVE  y \in {Append(q, x)[i] : i \in 1..Len(Append(q, x))}
  <2>1. CASE y = x
    <3>1. Len(q) + 1 \in 1..Len(Append(q, x))
      BY <1>1
    <3> QED
      BY <1>1, <2>1, <3>1
  <2>2. CASE y # x
    <3>1. PICK i \in 1..Len(q) : y = q[i]
      BY <1>3, <2>2
    <3>2. i \in 1..Len(Append(q, x)) /\ y = Append(q, x)[i]
      BY <1>1, <3>1
    <3> QED
      BY <3>2
  <2> QED
    BY <2>1, <2>2
<1> QED
  BY <1>1, <1>2, <1>3

(* A run that appends the members of T ends with exactly those, in a sequence *)
Selects(f, s, T) ==
    /\ f[0] = <<>>
    /\ \A i \in 1..Len(s) : f[i] = IF s[i] \in T THEN Append(f[i - 1], s[i]) ELSE f[i - 1]

THEOREM RunSelects ==
    ASSUME NEW X, NEW s \in Seq(X), NEW T, NEW f, Selects(f, s, T)
    PROVE  LET r == f[Len(s)]
           IN  /\ r \in Seq(X)
               /\ \A x : (\E i \in DOMAIN r : r[i] = x) <=> x \in T /\ \E i \in DOMAIN s : s[i] = x
<1> DEFINE n == Len(s)
           Members(q) == {q[i] : i \in 1..Len(q)}
           Upto(k) == {s[i] : i \in 1..k}
           S == {k \in 0..n : f[k] \in Seq(X) /\ Members(f[k]) = Upto(k) \cap T}
<1>0. /\ n \in Nat /\ DOMAIN s = 1..n /\ f[0] = <<>>
      /\ \A i \in 1..n : f[i] = IF s[i] \in T THEN Append(f[i - 1], s[i]) ELSE f[i - 1]
      /\ \A i \in 1..n : s[i] \in X
  BY DEF Selects
<1> HIDE DEF n
<1>1. 0 \in S
  <2>1. <<>> \in Seq(X) /\ Members(<<>>) = {} /\ Upto(0) = {}
    OBVIOUS
  <2>2. f[0] \in Seq(X) /\ Members(f[0]) = Upto(0) \cap T /\ 0 \in 0..n
    <3> HIDE DEF Members, Upto
    <3> QED
      BY <1>0, <2>1
  <2> HIDE DEF Members, Upto
  <2> QED
    BY <2>2
<1>2. ASSUME NEW k \in 1..n, k - 1 \in S PROVE k \in S
  <2>1. f[k - 1] \in Seq(X) /\ Members(f[k - 1]) = Upto(k - 1) \cap T
    BY <1>2
  <2>2. s[k] \in X /\ k \in 0..n
    BY <1>0
  <2>3. Upto(k) = Upto(k - 1) \cup {s[k]}
    BY <1>0
  <2>4. CASE s[k] \in T
    <3>1. f[k] = Append(f[k - 1], s[k])
      BY <1>0, <2>4
    <3>2. f[k] \in Seq(X) /\ Members(f[k]) = Members(f[k - 1]) \cup {s[k]}
      BY <2>1, <2>2, <3>1, AppendedMembers
    <3> HIDE DEF Members, Upto
    <3> QED
      BY <2>1, <2>2, <2>3, <2>4, <3>2
  <2>5. CASE s[k] \notin T
    <3>1. f[k] = f[k - 1]
      BY <1>0, <2>5
    <3> HIDE DEF Members, Upto
    <3> QED
      BY <2>1, <2>2, <2>3, <2>5, <3>1
  <2> QED
    BY <2>4, <2>5
<1>3. 0..n \subseteq S
  <2> HIDE DEF S
  <2> QED
    BY <1>0, <1>1, <1>2, InductionUpTo
<1>4. n \in S
  <2>1. n \in 0..n
    BY <1>0
  <2> HIDE DEF S
  <2> QED
    BY <1>3, <2>1
<1>5. f[n] \in Seq(X) /\ Members(f[n]) = Upto(n) \cap T
  <2> HIDE DEF Members, Upto
  <2> QED
    BY <1>4
<1>6. \A x : x \in Members(f[n]) <=> \E i \in DOMAIN f[n] : f[n][i] = x
  <2>1. DOMAIN f[n] = 1..Len(f[n])
    BY <1>5
  <2> QED
    BY <2>1
<1>7. \A x : x \in Upto(n) <=> \E i \in DOMAIN s : s[i] = x
  BY <1>0
<1> HIDE DEF Members, Upto
<1> QED
  BY <1>5, <1>6, <1>7 DEF n


(* A run that appends some members of a sequence without repetitions has none *)
THEOREM RunSelectsOnce ==
    ASSUME NEW X, NEW s \in Seq(X), NEW T, NEW f, Selects(f, s, T),
           \A i, j \in 1..Len(s) : s[i] = s[j] => i = j
    PROVE  \A i, j \in 1..Len(f[Len(s)]) : f[Len(s)][i] = f[Len(s)][j] => i = j
<1> DEFINE n == Len(s)
           Once(q) == \A i, j \in 1..Len(q) : q[i] = q[j] => i = j
           Known(k) == \A i \in 1..Len(f[k]) : \E j \in 1..k : f[k][i] = s[j]
           S == {k \in 0..n : f[k] \in Seq(X) /\ Once(f[k]) /\ Known(k)}
<1>0. /\ n \in Nat /\ f[0] = <<>>
      /\ \A i \in 1..n : f[i] = IF s[i] \in T THEN Append(f[i - 1], s[i]) ELSE f[i - 1]
      /\ \A i \in 1..n : s[i] \in X
  BY DEF Selects
<1>1. \A i, j \in 1..n : s[i] = s[j] => i = j
  OBVIOUS
<1> HIDE DEF n
<1>2. 0 \in S
  <2>1. f[0] \in Seq(X) /\ 1..Len(f[0]) = {} /\ 0 \in 0..n
    BY <1>0
  <2>2. Once(f[0]) /\ Known(0)
    BY <2>1
  <2> HIDE DEF Once, Known
  <2> QED
    BY <2>1, <2>2
<1>3. ASSUME NEW k \in 1..n, k - 1 \in S PROVE k \in S
  <2>1. f[k - 1] \in Seq(X) /\ Once(f[k - 1]) /\ Known(k - 1) /\ s[k] \in X /\ k \in 0..n
    BY <1>0, <1>3
  <2>2. CASE s[k] \notin T
    <3>1. f[k] = f[k - 1]
      BY <1>0, <2>2
    <3>2. Known(k)
      BY <2>1, <3>1
    <3> QED
      BY <2>1, <3>1, <3>2
  <2>3. CASE s[k] \in T
    <3> DEFINE q == f[k - 1]
    <3>1. f[k] = Append(q, s[k])
      BY <1>0, <2>3
    <3>2. /\ f[k] \in Seq(X) /\ Len(f[k]) = Len(q) + 1 /\ Len(q) \in Nat
          /\ (\A i \in 1..Len(q) : f[k][i] = q[i]) /\ f[k][Len(q) + 1] = s[k]
      BY <2>1, <3>1
    <3>3. \A i \in 1..Len(q) : \E j \in 1..(k - 1) : q[i] = s[j]
      BY <2>1
    <3>4. \A i \in 1..Len(q) : q[i] # s[k]
      <4> SUFFICES ASSUME NEW i \in 1..Len(q), q[i] = s[k] PROVE FALSE
        OBVIOUS
      <4>1. PICK j \in 1..(k - 1) : q[i] = s[j]
        BY <3>3
      <4>2. j \in 1..n /\ k \in 1..n /\ j # k
        BY <1>0
      <4> QED
        BY <1>1, <4>1, <4>2
    <3> HIDE DEF q
    <3>5. \A i \in 1..Len(f[k]) : i \in 1..Len(q) \/ i = Len(q) + 1
      BY <3>2
    <3>6. Once(f[k])
      BY <2>1, <3>2, <3>4, <3>5 DEF q
    <3>7. Known(k)
      BY <1>0, <3>2, <3>3, <3>5
    <3> QED
      BY <2>1, <3>2, <3>6, <3>7
  <2> QED
    BY <2>2, <2>3
<1>4. 0..n \subseteq S
  <2> HIDE DEF S
  <2> QED
    BY <1>0, <1>2, <1>3, InductionUpTo
<1>5. n \in S
  <2>1. n \in 0..n
    BY <1>0
  <2> HIDE DEF S
  <2> QED
    BY <1>4, <2>1
<1> QED
  BY <1>5 DEF n

(* A run that appends some members keeps them in their order *)
THEOREM RunSelectsInOrder ==
    ASSUME NEW X, NEW s \in Seq(X), NEW T, NEW f, Selects(f, s, T)
    PROVE  \A p, q \in 1..Len(f[Len(s)]) :
              p < q => \E i, j \in 1..Len(s) : i < j /\ f[Len(s)][p] = s[i] /\ f[Len(s)][q] = s[j]
<1> DEFINE n == Len(s)
           Known(k) == \A p \in 1..Len(f[k]) : \E i \in 1..k : f[k][p] = s[i]
           Kept(k) == \A p, q \in 1..Len(f[k]) :
                         p < q => \E i, j \in 1..k : i < j /\ f[k][p] = s[i] /\ f[k][q] = s[j]
           S == {k \in 0..n : f[k] \in Seq(X) /\ Known(k) /\ Kept(k)}
<1>1. /\ n \in Nat /\ f[0] = <<>>
      /\ \A i \in 1..n : f[i] = IF s[i] \in T THEN Append(f[i - 1], s[i]) ELSE f[i - 1]
      /\ \A i \in 1..n : s[i] \in X
  BY DEF Selects
<1> HIDE DEF n
<1>2. 0 \in S
  <2>1. f[0] \in Seq(X) /\ Len(f[0]) = 0 /\ 0 \in 0..n
    BY <1>1
  <2>2. Known(0) /\ Kept(0)
    BY <2>1
  <2> QED
    BY <2>1, <2>2
<1>3. ASSUME NEW k \in 1..n, k - 1 \in S PROVE k \in S
  <2> DEFINE old == f[k - 1]
  <2>1. /\ old \in Seq(X) /\ Len(old) \in Nat
        /\ \A p \in 1..Len(old) : \E i \in 1..(k - 1) : old[p] = s[i]
        /\ \A p, q \in 1..Len(old) :
              p < q => \E i, j \in 1..(k - 1) : i < j /\ old[p] = s[i] /\ old[q] = s[j]
    <3>1. old \in Seq(X) /\ Known(k - 1) /\ Kept(k - 1)
      <4> HIDE DEF Known, Kept
      <4> QED
        BY <1>3
    <3>2. old \in Seq(X) /\ Len(old) \in Nat
      <4> HIDE DEF Known, Kept, old
      <4> QED
        BY <3>1 DEF old
    <3> QED
      BY <3>1, <3>2
  <2>2. k \in 0..n /\ s[k] \in X /\ 1..(k - 1) \subseteq 1..k /\ \A i \in 1..(k - 1) : i < k
    BY <1>1
  <2>3. CASE f[k] = old
    <3> HIDE DEF old
    <3>1. Known(k) /\ Kept(k)
      BY <2>1, <2>2, <2>3
    <3> QED
      BY <2>1, <2>2, <2>3, <3>1
  <2>4. CASE f[k] = Append(old, s[k])
    <3> HIDE DEF old
    <3>1. /\ f[k] \in Seq(X) /\ Len(f[k]) = Len(old) + 1 /\ f[k][Len(old) + 1] = s[k]
          /\ \A p \in 1..Len(old) : f[k][p] = old[p]
      BY <2>1, <2>2, <2>4
    <3>2. \A p \in 1..Len(f[k]) : p \in 1..Len(old) \/ p = Len(old) + 1
      BY <2>1, <3>1
    <3>3. Known(k)
      BY <2>1, <2>2, <3>1, <3>2
    <3>4. ASSUME NEW p \in 1..Len(f[k]), NEW q \in 1..Len(f[k]), p < q
          PROVE  \E i, j \in 1..k : i < j /\ f[k][p] = s[i] /\ f[k][q] = s[j]
      <4>1. p \in 1..Len(old)
        BY <2>1, <3>1, <3>4
      <4>2. CASE q \in 1..Len(old)
        BY <2>1, <2>2, <3>1, <3>4, <4>1, <4>2
      <4>3. CASE q = Len(old) + 1
        <5>1. PICK i \in 1..(k - 1) : old[p] = s[i]
          BY <2>1, <4>1
        <5>2. i \in 1..k /\ k \in 1..k /\ i < k /\ f[k][p] = s[i] /\ f[k][q] = s[k]
          BY <2>2, <3>1, <4>1, <4>3, <5>1
        <5> QED
          BY <5>2
      <4> QED
        BY <3>2, <4>2, <4>3
    <3> QED
      BY <2>2, <3>1, <3>3, <3>4
  <2> QED
    BY <1>1, <2>3, <2>4
<1>4. 0..n \subseteq S
  <2> HIDE DEF S
  <2> QED
    BY <1>1, <1>2, <1>3, InductionUpTo
<1>5. n \in S
  <2>1. n \in 0..n
    BY <1>1
  <2> HIDE DEF S
  <2> QED
    BY <1>4, <2>1
<1> QED
  BY <1>5 DEF n

(* Two runs that divide the members of a sequence between them *)
Shared(f, h, s) == Len(f[Len(s)]) + Len(h[Len(s)]) = Len(s)
Halves(s, T, U) == {s[i] : i \in 1..Len(s)} \subseteq T \cup U /\ T \cap U = {}
THEOREM RunsDivide ==
    ASSUME NEW X, NEW s \in Seq(X), NEW T, NEW U, NEW f, NEW h, Selects(f, s, T), Selects(h, s, U),
           Halves(s, T, U)
    PROVE  Shared(f, h, s)
<1> DEFINE n == Len(s)
           Divided(k) == f[k] \in Seq(X) /\ h[k] \in Seq(X) /\ Len(f[k]) + Len(h[k]) = k
           S == {k \in 0..n : Divided(k)}
<1>1. /\ n \in Nat /\ f[0] = <<>> /\ h[0] = <<>>
      /\ \A i \in 1..n : f[i] = IF s[i] \in T THEN Append(f[i - 1], s[i]) ELSE f[i - 1]
      /\ \A i \in 1..n : h[i] = IF s[i] \in U THEN Append(h[i - 1], s[i]) ELSE h[i - 1]
      /\ \A i \in 1..n : s[i] \in X /\ (s[i] \in T <=> s[i] \notin U)
  BY DEF Selects, Halves
<1> HIDE DEF n
<1>2. 0 \in S
  <2>1. f[0] \in Seq(X) /\ h[0] \in Seq(X) /\ Len(f[0]) = 0 /\ Len(h[0]) = 0 /\ 0 \in 0..n
    BY <1>1
  <2>2. Divided(0)
    BY <2>1
  <2> HIDE DEF Divided
  <2> QED
    BY <2>1, <2>2
<1>3. ASSUME NEW k \in 1..n, k - 1 \in S PROVE k \in S
  <2> DEFINE a == f[k - 1]
             b == h[k - 1]
  <2>1. a \in Seq(X) /\ b \in Seq(X) /\ Len(a) + Len(b) = k - 1 /\ k \in 0..n /\ s[k] \in X
    <3>1. Divided(k - 1) /\ k \in 0..n /\ s[k] \in X
      <4> HIDE DEF Divided
      <4> QED
        BY <1>1, <1>3
    <3> QED
      BY <3>1
  <2>2. CASE s[k] \in T
    <3>1. f[k] = Append(a, s[k]) /\ h[k] = b
      BY <1>1, <2>2
    <3> HIDE DEF a, b
    <3>2. f[k] \in Seq(X) /\ h[k] \in Seq(X) /\ Len(f[k]) = Len(a) + 1 /\ Len(h[k]) = Len(b)
      BY <2>1, <3>1
    <3>3. Divided(k)
      BY <2>1, <3>2
    <3> HIDE DEF Divided
    <3> QED
      BY <2>1, <3>3
  <2>3. CASE s[k] \in U
    <3>1. f[k] = a /\ h[k] = Append(b, s[k])
      BY <1>1, <2>3
    <3> HIDE DEF a, b
    <3>2. f[k] \in Seq(X) /\ h[k] \in Seq(X) /\ Len(f[k]) = Len(a) /\ Len(h[k]) = Len(b) + 1
      BY <2>1, <3>1
    <3>3. Divided(k)
      BY <2>1, <3>2
    <3> HIDE DEF Divided
    <3> QED
      BY <2>1, <3>3
  <2> QED
    BY <1>1, <2>2, <2>3
<1>4. 0..n \subseteq S
  <2> HIDE DEF S
  <2> QED
    BY <1>1, <1>2, <1>3, InductionUpTo
<1>5. n \in S
  <2>1. n \in 0..n
    BY <1>1
  <2> HIDE DEF S
  <2> QED
    BY <1>4, <2>1
<1>6. Divided(n)
  <2> HIDE DEF Divided
  <2> QED
    BY <1>5
<1> QED
  BY <1>6 DEF n, Shared
=============================================================================
