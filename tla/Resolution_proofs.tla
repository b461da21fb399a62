------------------------- MODULE Resolution_proofs --------------------------
(***************************************************************************)
(* What the resolver promises the graph builder and the queries, for any   *)
(* repository and any order of its rows: the states of relationships, the  *)
(* types of variables as the folds of the engine compute them, the symbols *)
(* that receivers resolve against, and the edges that come of it.          *)
(***************************************************************************)
EXTENDS Resolution, FiniteSetTheorems, TLAPS

(* The state an outcome has and the candidates that go with it; around is    *)
(* the symbol around the relationship, if any.                               *)
Contract(o, around) ==
    CASE o.state = "ambiguous" -> Cardinality(o.targets) > 1
      [] o.state = "repository_symbol" -> o.targets # {}
      [] o.state = "recursive" -> o.targets = around
      [] OTHER -> o.targets = {}

LEMMA ClassifyRange ==
    ASSUME NEW source, NEW lang
    PROVE  Classify(source, lang) \in Outside \union {"repository_symbol"}
BY DEF Classify, Outside

(* A stage that settles a relationship outside or nowhere gives no candidate *)
LEMMA ClassificationContract ==
    ASSUME NEW r, ClassificationStage(r) # Open
    PROVE  Contract(ClassificationStage(r), EnclosingSymbol(d, r))
<1> DEFINE class == Classify(Relationship(d, r).source, d.file[r[1]].lang)
<1>1. class \in Outside \union {"repository_symbol"}
  BY ClassifyRange
<1> HIDE DEF class
<1>2. ClassificationStage(r) \in {Outcome("builtin", {}, 1), Open}
        \union {Outcome(c, {}, 1) : c \in Outside}
  BY <1>1 DEF ClassificationStage, class
<1>3. PICK c \in Outside : ClassificationStage(r) = Outcome(c, {}, 1)
  BY <1>2 DEF Outside
<1> QED
  BY <1>3 DEF Outcome, Outside, Contract

(* A receiver's method is missing without candidates, or found with some     *)
LEMMA MethodContract ==
    ASSUME NEW method, NEW type, NEW around
    PROVE  Contract(MethodOutcome(method, type), around)
BY DEF MethodOutcome, Outcome, Contract

LEMMA MemberContract ==
    ASSUME NEW r, MemberResolverStage(r) # Open
    PROVE  Contract(MemberResolverStage(r), EnclosingSymbol(d, r))
<1> DEFINE rel == Relationship(d, r)
           type == TypeOf(flow, r[1], Variable(rel.receiver))
<1>1. \/ MemberResolverStage(r) = MethodOutcome(rel.name, EnclosingClass(r))
      \/ MemberResolverStage(r) = MethodOutcome(rel.name, type)
      \/ /\ Origin(r, type) \in Outside
         /\ MemberResolverStage(r) = Outcome(Origin(r, type), {}, 1)
  BY DEF MemberResolverStage
<1>2. CASE /\ Origin(r, type) \in Outside
           /\ MemberResolverStage(r) = Outcome(Origin(r, type), {}, 1)
  BY <1>2 DEF Outcome, Outside, Contract
<1> QED
  BY <1>1, <1>2, MethodContract

(* The symbol around a relationship is one or none: a name that several      *)
(* symbols bear is never taken for it.                                       *)
LEMMA EnclosedOnce ==
    ASSUME NEW r
    PROVE  \/ EnclosingSymbol(d, r) = {}
           \/ Cardinality(EnclosingSymbol(d, r)) = 1
BY FS_Singleton DEF EnclosingSymbol

LEMMA LexicalContract ==
    ASSUME NEW r
    PROVE  Contract(LexicalStages(r), EnclosingSymbol(d, r))
<1> DEFINE rel == Relationship(d, r)
           named == FindByName(d, rel.name)
           around == EnclosingSymbol(d, r)
           state == CASE named = {} /\ rel.kind \in DynamicKinds -> "dynamic"
                      [] named = {} /\ rel.kind \notin DynamicKinds -> "missing"
                      [] Cardinality(named) > 1 -> "ambiguous"
                      [] named # {} /\ named = around -> "recursive"
                      [] OTHER -> "repository_symbol"
<1>1. LexicalStages(r).state = state /\ LexicalStages(r).targets = named
  BY DEF LexicalStages, Outcome
<1>2. Cardinality({}) = 0
  BY FS_EmptySet
<1>3. around = {} \/ Cardinality(around) = 1
  BY EnclosedOnce
<1> HIDE DEF named, around
<1>4. CASE named = {}
  <2>1. state \in {"dynamic", "missing"}
    BY <1>2, <1>4
  <2> QED
    BY <1>1, <1>4, <2>1 DEF Contract
<1>5. CASE named # {} /\ Cardinality(named) > 1
  <2>1. state = "ambiguous"
    BY <1>3, <1>5
  <2> QED
    BY <1>1, <1>5, <2>1 DEF Contract
<1>6. CASE named # {} /\ ~(Cardinality(named) > 1) /\ named = around
  <2>1. state = "recursive"
    BY <1>6
  <2> QED
    BY <1>1, <1>6, <2>1 DEF Contract, around
<1>7. CASE named # {} /\ ~(Cardinality(named) > 1) /\ named # around
  <2>1. state = "repository_symbol"
    BY <1>7
  <2> QED
    BY <1>1, <1>7, <2>1 DEF Contract
<1> QED
  BY <1>4, <1>5, <1>6, <1>7

LEMMA ResolveContract ==
    ASSUME NEW r
    PROVE  Contract(Resolve(r), EnclosingSymbol(d, r))
BY ClassificationContract, MemberContract, LexicalContract DEF Resolve, Settled

(* From its execution to the next reindexing the resolver's outcomes are     *)
(* those of the rows as they stand.                                          *)
OutcomesCurrent ==
    IsResolved => resolved = [r \in RelationshipIds |-> Resolve(r)]

LEMMA OutcomesKept == OutcomesCurrent /\ [Next]_vars => OutcomesCurrent'
<1> SUFFICES ASSUME OutcomesCurrent, [Next]_vars
             PROVE  OutcomesCurrent'
  OBVIOUS
<1>1. CASE Prepare
  BY <1>1 DEF Prepare, OutcomesCurrent, IsResolved
<1>2. CASE Execute
  <2>1. RelationshipIds' = RelationshipIds /\ \A r : Resolve(r)' = Resolve(r)
    BY <1>2 DEF Execute, RelationshipIds, Resolve, Settled, ClassificationStage,
                MemberResolverStage, LexicalStages, EnclosingClass, MethodOutcome, Origin
  <2> QED
    BY <1>2, <2>1 DEF Execute, OutcomesCurrent
<1>3. CASE Build \/ UNCHANGED vars
  <2>1. UNCHANGED <<d, flow, resolved>> /\ (IsResolved' => IsResolved)
    BY <1>3 DEF Build, vars, IsResolved
  <2>2. RelationshipIds' = RelationshipIds /\ \A r : Resolve(r)' = Resolve(r)
    BY <2>1 DEF RelationshipIds, Resolve, Settled, ClassificationStage,
                MemberResolverStage, LexicalStages, EnclosingClass, MethodOutcome, Origin
  <2> QED
    BY <2>1, <2>2 DEF OutcomesCurrent
<1>4. ASSUME NEW f \in File, Reindex(f) PROVE OutcomesCurrent'
  BY <1>4 DEF Reindex, OutcomesCurrent, IsResolved
<1> QED
  BY <1>1, <1>2, <1>3, <1>4 DEF Next

(* Whatever the repository: a resolved relationship has a candidate for the   *)
(* builder to link, an ambiguous one several, a recursive one the symbol      *)
(* around it, and one that leads out of the repository or nowhere has none.   *)
THEOREM ContractsCorrect == Spec => []TerminalContracts
<1>1. Init => OutcomesCurrent
  BY DEF Init, OutcomesCurrent, IsResolved
<1>2. OutcomesCurrent => TerminalContracts
  <2> SUFFICES ASSUME OutcomesCurrent, IsResolved, NEW r \in DOMAIN resolved
               PROVE  Contract(resolved[r], EnclosingSymbol(d, r))
    BY DEF TerminalContracts, Contract
  <2>1. resolved[r] = Resolve(r)
    BY DEF OutcomesCurrent
  <2> QED
    BY <2>1, ResolveContract
<1> QED
  BY <1>1, <1>2, OutcomesKept, PTL DEF Spec

LEMMA MaxIsGreatest == ASSUME NEW n \in Nat PROVE \A k \in 1..n : \A T \in SUBSET (1..k) : k \in T => Max(T) = k
<1> SUFFICES ASSUME NEW k \in 1..n, NEW T \in SUBSET (1..k), k \in T PROVE Max(T) = k
  OBVIOUS
<1>1. \A x \in T : (\A y \in T : x >= y) <=> x = k
  OBVIOUS
<1> QED
  BY <1>1 DEF Max

----------------------------------------------------------------------------
(* The folds of the model as runs *)

RowsOf(c, ids, f) == ids \o [k \in DOMAIN c[1].file[f][c[2]] |-> <<f, k>>]
RowFold == INSTANCE FoldTheorems WITH Step <- RowsOf, Greatest <- Max

LEMMA RowOrderRuns ==
    ASSUME NEW rows, NEW table, NEW X, NEW s \in Seq(X), s = rows.order
    PROVE  \E f : /\ RowFold!IsRun(f, <<rows, table>>, <<>>, s, Len(s))
                  /\ RowOrder(rows, table) = f[Len(s)]
<1> DEFINE n == Len(s)
           c == <<rows, table>>
           b == <<>>
           end == RowOrder(rows, table)
           iter == CHOOSE iter : RowFold!Iterates(iter, c, b, s, DOMAIN s)
<1>1. n \in Nat /\ DOMAIN s = 1..n
  OBVIOUS
<1>2. RowFold!GreatestUpTo(n)
  BY <1>1, MaxIsGreatest DEF RowFold!GreatestUpTo
<1>3. RowFold!Iterates(iter, c, b, s, DOMAIN s)
  <2>1. \E it : RowFold!Iterates(it, c, b, s, 1..n)
    <3> HIDE DEF n, c, b
    <3> QED
      BY <1>1, <1>2, RowFold!IterationExists
  <2> HIDE DEF n, c, b
  <2> QED
    BY <1>1, <2>1
<1>4. end = iter[DOMAIN s]
  BY DEF RowOrder, FoldLeft, MapThenFoldSet, RowFold!Iterates, RowsOf
<1> HIDE DEF iter, end
<1>5. \E f : RowFold!IsRun(f, c, b, s, n) /\ end = f[n]
  <2> HIDE DEF n, c, b
  <2> QED
    BY <1>1, <1>2, <1>3, <1>4, RowFold!FoldRuns
<1> QED
  BY <1>5 DEF end

BindingStep(rows, v, b) ==
    CASE b.kind \in {"var_type", "field_type"} ->
                        ApplyType(v, b.file, <<b.name>>, b.type, Certain)
                  [] b.kind = "assignment" /\ Returned(rows, b.type) # NoName ->
                        ApplyType(v, b.file, <<b.name>>, Returned(rows, b.type), Medium)
                  [] b.kind = "import_alias" /\ IsImported(rows, b.file, b.type) ->
                        ApplyType(v, b.file, <<b.name>>, b.type, Certain)
                  [] OTHER -> v

ConstructorStep(rows, v, r) ==
    LET rel == Relationship(rows, r) IN
    IF rel.receiver = <<>> THEN v
    ELSE CASE rel.kind \in {"new_call", "instantiates"} ->
                 ApplyType(v, r[1], rel.receiver, rel.name, High)
           [] rel.kind \in {"calls", "method_call"} ->
                 ApplyType(v, r[1], rel.receiver,
                           IF Returned(rows, rel.name) # NoName
                               THEN Returned(rows, rel.name) ELSE rel.name, Medium)
           [] OTHER -> v

ImportStep(rows, v, r) ==
    LET n == Relationship(rows, r).name IN
    IF Relationship(rows, r).kind = "imports"
    THEN ApplyType(v, r[1], <<n>>, ImportedType(rows, v, r[1], n), Certain)
    ELSE v

AliasStep(c, v, b) ==
    IF Applies(c[1], c[2], b)
    THEN ApplyType(v, b.file, AliasTarget(b), AliasType(c[1], c[2], b), Medium)
    ELSE v

PassStep(c, v, b) == AliasPass(c[1], v, c[2])

FileStep(rows, v, f) ==
    LET bs == AliasBindings(rows, f) IN
    FoldLeft(LAMBDA w, b : AliasPass(rows, w, bs), AliasPass(rows, v, bs), bs)

BindingFold == INSTANCE FoldTheorems WITH Step <- BindingStep, Greatest <- Max

LEMMA BindingRuns ==
    ASSUME NEW rows, NEW X, NEW s \in Seq(X), s = Bindings(rows)
    PROVE  \E f : /\ BindingFold!IsRun(f, rows, <<>>, s, Len(s))
                  /\ LoadBindings(rows) = f[Len(s)]
<1> DEFINE n == Len(s)
           c == rows
           b == <<>>
           end == LoadBindings(rows)
           iter == CHOOSE iter : BindingFold!Iterates(iter, c, b, s, DOMAIN s)
<1>1. n \in Nat /\ DOMAIN s = 1..n
  OBVIOUS
<1>2. BindingFold!GreatestUpTo(n)
  BY <1>1, MaxIsGreatest DEF BindingFold!GreatestUpTo
<1>3. BindingFold!Iterates(iter, c, b, s, DOMAIN s)
  <2>1. \E it : BindingFold!Iterates(it, c, b, s, 1..n)
    <3> HIDE DEF n, c, b
    <3> QED
      BY <1>1, <1>2, BindingFold!IterationExists
  <2> HIDE DEF n, c, b
  <2> QED
    BY <1>1, <2>1
<1>4. end = iter[DOMAIN s]
  BY DEF LoadBindings, FoldLeft, MapThenFoldSet, BindingFold!Iterates, BindingStep
<1> HIDE DEF iter, end
<1>5. \E f : BindingFold!IsRun(f, c, b, s, n) /\ end = f[n]
  <2> HIDE DEF n, c, b
  <2> QED
    BY <1>1, <1>2, <1>3, <1>4, BindingFold!FoldRuns
<1> QED
  BY <1>5 DEF end

ConstructorFold == INSTANCE FoldTheorems WITH Step <- ConstructorStep, Greatest <- Max

LEMMA ConstructorRuns ==
    ASSUME NEW rows, NEW v, NEW X, NEW s \in Seq(X), s = Relationships(rows)
    PROVE  \E f : /\ ConstructorFold!IsRun(f, rows, v, s, Len(s))
                  /\ LoadConstructors(rows, v) = f[Len(s)]
<1> DEFINE n == Len(s)
           c == rows
           b == v
           end == LoadConstructors(rows, v)
           iter == CHOOSE iter : ConstructorFold!Iterates(iter, c, b, s, DOMAIN s)
<1>1. n \in Nat /\ DOMAIN s = 1..n
  OBVIOUS
<1>2. ConstructorFold!GreatestUpTo(n)
  BY <1>1, MaxIsGreatest DEF ConstructorFold!GreatestUpTo
<1>3. ConstructorFold!Iterates(iter, c, b, s, DOMAIN s)
  <2>1. \E it : ConstructorFold!Iterates(it, c, b, s, 1..n)
    <3> HIDE DEF n, c, b
    <3> QED
      BY <1>1, <1>2, ConstructorFold!IterationExists
  <2> HIDE DEF n, c, b
  <2> QED
    BY <1>1, <2>1
<1>4. end = iter[DOMAIN s]
  BY DEF LoadConstructors, FoldLeft, MapThenFoldSet, ConstructorFold!Iterates, ConstructorStep
<1> HIDE DEF iter, end
<1>5. \E f : ConstructorFold!IsRun(f, c, b, s, n) /\ end = f[n]
  <2> HIDE DEF n, c, b
  <2> QED
    BY <1>1, <1>2, <1>3, <1>4, ConstructorFold!FoldRuns
<1> QED
  BY <1>5 DEF end

ImportFold == INSTANCE FoldTheorems WITH Step <- ImportStep, Greatest <- Max

LEMMA ImportRuns ==
    ASSUME NEW rows, NEW v, NEW X, NEW s \in Seq(X), s = Relationships(rows)
    PROVE  \E f : /\ ImportFold!IsRun(f, rows, v, s, Len(s))
                  /\ LoadImports(rows, v) = f[Len(s)]
<1> DEFINE n == Len(s)
           c == rows
           b == v
           end == LoadImports(rows, v)
           iter == CHOOSE iter : ImportFold!Iterates(iter, c, b, s, DOMAIN s)
<1>1. n \in Nat /\ DOMAIN s = 1..n
  OBVIOUS
<1>2. ImportFold!GreatestUpTo(n)
  BY <1>1, MaxIsGreatest DEF ImportFold!GreatestUpTo
<1>3. ImportFold!Iterates(iter, c, b, s, DOMAIN s)
  <2>1. \E it : ImportFold!Iterates(it, c, b, s, 1..n)
    <3> HIDE DEF n, c, b
    <3> QED
      BY <1>1, <1>2, ImportFold!IterationExists
  <2> HIDE DEF n, c, b
  <2> QED
    BY <1>1, <2>1
<1>4. end = iter[DOMAIN s]
  BY DEF LoadImports, FoldLeft, MapThenFoldSet, ImportFold!Iterates, ImportStep
<1> HIDE DEF iter, end
<1>5. \E f : ImportFold!IsRun(f, c, b, s, n) /\ end = f[n]
  <2> HIDE DEF n, c, b
  <2> QED
    BY <1>1, <1>2, <1>3, <1>4, ImportFold!FoldRuns
<1> QED
  BY <1>5 DEF end

AliasFold == INSTANCE FoldTheorems WITH Step <- AliasStep, Greatest <- Max

LEMMA AliasRuns ==
    ASSUME NEW rows, NEW v, NEW bs, NEW X, NEW s \in Seq(X), s = bs
    PROVE  \E f : /\ AliasFold!IsRun(f, <<rows, v>>, v, s, Len(s))
                  /\ AliasPass(rows, v, bs) = f[Len(s)]
<1> DEFINE n == Len(s)
           c == <<rows, v>>
           b == v
           end == AliasPass(rows, v, bs)
           iter == CHOOSE iter : AliasFold!Iterates(iter, c, b, s, DOMAIN s)
<1>1. n \in Nat /\ DOMAIN s = 1..n
  OBVIOUS
<1>2. AliasFold!GreatestUpTo(n)
  BY <1>1, MaxIsGreatest DEF AliasFold!GreatestUpTo
<1>3. AliasFold!Iterates(iter, c, b, s, DOMAIN s)
  <2>1. \E it : AliasFold!Iterates(it, c, b, s, 1..n)
    <3> HIDE DEF n, c, b
    <3> QED
      BY <1>1, <1>2, AliasFold!IterationExists
  <2> HIDE DEF n, c, b
  <2> QED
    BY <1>1, <2>1
<1>4. end = iter[DOMAIN s]
  BY DEF AliasPass, FoldLeft, MapThenFoldSet, AliasFold!Iterates, AliasStep
<1> HIDE DEF iter, end
<1>5. \E f : AliasFold!IsRun(f, c, b, s, n) /\ end = f[n]
  <2> HIDE DEF n, c, b
  <2> QED
    BY <1>1, <1>2, <1>3, <1>4, AliasFold!FoldRuns
<1> QED
  BY <1>5 DEF end

PassesOf(rows, v, bs) == FoldLeft(LAMBDA w, b : AliasPass(rows, w, bs), AliasPass(rows, v, bs), bs)

PassFold == INSTANCE FoldTheorems WITH Step <- PassStep, Greatest <- Max

LEMMA PassRuns ==
    ASSUME NEW rows, NEW v, NEW bs, NEW X, NEW s \in Seq(X), s = bs
    PROVE  \E f : /\ PassFold!IsRun(f, <<rows, bs>>, AliasPass(rows, v, bs), s, Len(s))
                  /\ PassesOf(rows, v, bs) = f[Len(s)]
<1> DEFINE n == Len(s)
           c == <<rows, bs>>
           b == AliasPass(rows, v, bs)
           end == PassesOf(rows, v, bs)
           iter == CHOOSE iter : PassFold!Iterates(iter, c, b, s, DOMAIN s)
<1>1. n \in Nat /\ DOMAIN s = 1..n
  OBVIOUS
<1>2. PassFold!GreatestUpTo(n)
  BY <1>1, MaxIsGreatest DEF PassFold!GreatestUpTo
<1>3. PassFold!Iterates(iter, c, b, s, DOMAIN s)
  <2>1. \E it : PassFold!Iterates(it, c, b, s, 1..n)
    <3> HIDE DEF n, c, b
    <3> QED
      BY <1>1, <1>2, PassFold!IterationExists
  <2> HIDE DEF n, c, b
  <2> QED
    BY <1>1, <2>1
<1>4. end = iter[DOMAIN s]
  BY DEF PassesOf, FoldLeft, MapThenFoldSet, PassFold!Iterates, PassStep
<1> HIDE DEF iter, end
<1>5. \E f : PassFold!IsRun(f, c, b, s, n) /\ end = f[n]
  <2> HIDE DEF n, c, b
  <2> QED
    BY <1>1, <1>2, <1>3, <1>4, PassFold!FoldRuns
<1> QED
  BY <1>5 DEF end

FileFold == INSTANCE FoldTheorems WITH Step <- FileStep, Greatest <- Max

LEMMA FileRuns ==
    ASSUME NEW rows, NEW v, NEW X, NEW s \in Seq(X), s = rows.order
    PROVE  \E f : /\ FileFold!IsRun(f, rows, v, s, Len(s))
                  /\ ResolveAliases(rows, v) = f[Len(s)]
<1> DEFINE n == Len(s)
           c == rows
           b == v
           end == ResolveAliases(rows, v)
           iter == CHOOSE iter : FileFold!Iterates(iter, c, b, s, DOMAIN s)
<1>1. n \in Nat /\ DOMAIN s = 1..n
  OBVIOUS
<1>2. FileFold!GreatestUpTo(n)
  BY <1>1, MaxIsGreatest DEF FileFold!GreatestUpTo
<1>3. FileFold!Iterates(iter, c, b, s, DOMAIN s)
  <2>1. \E it : FileFold!Iterates(it, c, b, s, 1..n)
    <3> HIDE DEF n, c, b
    <3> QED
      BY <1>1, <1>2, FileFold!IterationExists
  <2> HIDE DEF n, c, b
  <2> QED
    BY <1>1, <2>1
<1>4. end = iter[DOMAIN s]
  BY DEF ResolveAliases, FoldLeft, MapThenFoldSet, FileFold!Iterates, FileStep
<1> HIDE DEF iter, end
<1>5. \E f : FileFold!IsRun(f, c, b, s, n) /\ end = f[n]
  <2> HIDE DEF n, c, b
  <2> QED
    BY <1>1, <1>2, <1>3, <1>4, FileFold!FoldRuns
<1> QED
  BY <1>5 DEF end

ChosenStep(f, bs, b) == IF b.file = f /\ b.kind \in AliasKinds THEN Append(bs, b) ELSE bs

BehindStep(f, q, g) == IF g = f THEN q ELSE Append(q, g)
Others(order, f) == FoldLeft(LAMBDA q, g : IF g = f THEN q ELSE Append(q, g), <<>>, order)

LinkStep(c, es, r) == IF Linked(r) THEN Insert(es, EdgeOf(r)) ELSE es

ChosenFold == INSTANCE FoldTheorems WITH Step <- ChosenStep, Greatest <- Max

LEMMA ChosenRuns ==
    ASSUME NEW rows, NEW f0, NEW X, NEW s \in Seq(X), s = Bindings(rows)
    PROVE  \E f : /\ ChosenFold!IsRun(f, f0, <<>>, s, Len(s))
                  /\ AliasBindings(rows, f0) = f[Len(s)]
<1> DEFINE n == Len(s)
           c == f0
           b == <<>>
           end == AliasBindings(rows, f0)
           iter == CHOOSE iter : ChosenFold!Iterates(iter, c, b, s, DOMAIN s)
<1>1. n \in Nat /\ DOMAIN s = 1..n
  OBVIOUS
<1>2. ChosenFold!GreatestUpTo(n)
  BY <1>1, MaxIsGreatest DEF ChosenFold!GreatestUpTo
<1>3. ChosenFold!Iterates(iter, c, b, s, DOMAIN s)
  <2>1. \E it : ChosenFold!Iterates(it, c, b, s, 1..n)
    <3> HIDE DEF n, c, b
    <3> QED
      BY <1>1, <1>2, ChosenFold!IterationExists
  <2> HIDE DEF n, c, b
  <2> QED
    BY <1>1, <2>1
<1>4. end = iter[DOMAIN s]
  BY DEF AliasBindings, FoldLeft, MapThenFoldSet, ChosenFold!Iterates, ChosenStep
<1> HIDE DEF iter, end
<1>5. \E f : ChosenFold!IsRun(f, c, b, s, n) /\ end = f[n]
  <2> HIDE DEF n, c, b
  <2> QED
    BY <1>1, <1>2, <1>3, <1>4, ChosenFold!FoldRuns
<1> QED
  BY <1>5 DEF end

BehindFold == INSTANCE FoldTheorems WITH Step <- BehindStep, Greatest <- Max

LEMMA BehindRuns ==
    ASSUME NEW order, NEW f0, NEW X, NEW s \in Seq(X), s = order
    PROVE  \E f : /\ BehindFold!IsRun(f, f0, <<>>, s, Len(s))
                  /\ Others(order, f0) = f[Len(s)]
<1> DEFINE n == Len(s)
           c == f0
           b == <<>>
           end == Others(order, f0)
           iter == CHOOSE iter : BehindFold!Iterates(iter, c, b, s, DOMAIN s)
<1>1. n \in Nat /\ DOMAIN s = 1..n
  OBVIOUS
<1>2. BehindFold!GreatestUpTo(n)
  BY <1>1, MaxIsGreatest DEF BehindFold!GreatestUpTo
<1>3. BehindFold!Iterates(iter, c, b, s, DOMAIN s)
  <2>1. \E it : BehindFold!Iterates(it, c, b, s, 1..n)
    <3> HIDE DEF n, c, b
    <3> QED
      BY <1>1, <1>2, BehindFold!IterationExists
  <2> HIDE DEF n, c, b
  <2> QED
    BY <1>1, <2>1
<1>4. end = iter[DOMAIN s]
  BY DEF Others, FoldLeft, MapThenFoldSet, BehindFold!Iterates, BehindStep
<1> HIDE DEF iter, end
<1>5. \E f : BehindFold!IsRun(f, c, b, s, n) /\ end = f[n]
  <2> HIDE DEF n, c, b
  <2> QED
    BY <1>1, <1>2, <1>3, <1>4, BehindFold!FoldRuns
<1> QED
  BY <1>5 DEF end

BuiltFold == INSTANCE FoldTheorems WITH Step <- LinkStep, Greatest <- Max

LEMMA BuiltRuns ==
    ASSUME NEW X, NEW s \in Seq(X), s = Relationships(d)
    PROVE  \E f : /\ BuiltFold!IsRun(f, 0, {}, s, Len(s))
                  /\ BuiltEdges = f[Len(s)]
<1> DEFINE n == Len(s)
           c == 0
           b == {}
           end == BuiltEdges
           iter == CHOOSE iter : BuiltFold!Iterates(iter, c, b, s, DOMAIN s)
<1>1. n \in Nat /\ DOMAIN s = 1..n
  OBVIOUS
<1>2. BuiltFold!GreatestUpTo(n)
  BY <1>1, MaxIsGreatest DEF BuiltFold!GreatestUpTo
<1>3. BuiltFold!Iterates(iter, c, b, s, DOMAIN s)
  <2>1. \E it : BuiltFold!Iterates(it, c, b, s, 1..n)
    <3> HIDE DEF n, c, b
    <3> QED
      BY <1>1, <1>2, BuiltFold!IterationExists
  <2> HIDE DEF n, c, b
  <2> QED
    BY <1>1, <2>1
<1>4. end = iter[DOMAIN s]
  BY DEF BuiltEdges, FoldLeft, MapThenFoldSet, BuiltFold!Iterates, LinkStep
<1> HIDE DEF iter, end
<1>5. \E f : BuiltFold!IsRun(f, c, b, s, n) /\ end = f[n]
  <2> HIDE DEF n, c, b
  <2> QED
    BY <1>1, <1>2, <1>3, <1>4, BuiltFold!FoldRuns
<1> QED
  BY <1>5 DEF end

----------------------------------------------------------------------------
Listed(q, x) == \E k \in 1..Len(q) : q[k] = x

(* The rows of a snapshot: every file is listed, with content the parser can *)
(* have written.                                                             *)
AreRows(rows) ==
    /\ rows.file \in Repositories
    /\ rows.order \in Seq(File)
    /\ \A f \in File : Listed(rows.order, f)

Ids(rows, table) == UNION {{f} \X DOMAIN rows.file[f][table] : f \in File}

LEMMA ContentOf ==
    ASSUME NEW rows, AreRows(rows)
    PROVE  DOMAIN rows.file = File /\ \A f \in File : IsContent(rows.file[f])
<1>1. rows.file \in Repositories
  BY DEF AreRows
<1>2. \A repository \in Repositories :
          repository = [f \in File |-> repository[f]] /\ \A f \in File : IsContent(repository[f])
  BY RepositoryAssumption
<1> QED
  BY <1>1, <1>2

LEMMA JoinedMembers ==
    ASSUME NEW X, NEW q \in Seq(X), NEW t \in Seq(X)
    PROVE  /\ q \o t \in Seq(X)
           /\ \A x : Listed(q \o t, x) <=> Listed(q, x) \/ Listed(t, x)
<1>1. /\ q \o t \in Seq(X) /\ Len(q \o t) = Len(q) + Len(t) /\ Len(q) \in Nat /\ Len(t) \in Nat
      /\ \A k \in 1..Len(q) : (q \o t)[k] = q[k]
      /\ \A k \in Len(q) + 1..Len(q) + Len(t) : (q \o t)[k] = t[k - Len(q)]
  OBVIOUS
<1>2. ASSUME NEW x, NEW k \in 1..Len(q \o t), (q \o t)[k] = x
      PROVE  Listed(q, x) \/ Listed(t, x)
  <2>1. CASE k \in 1..Len(q)
    BY <1>1, <1>2, <2>1 DEF Listed
  <2>2. CASE k \notin 1..Len(q)
    <3>1. k \in Len(q) + 1..Len(q) + Len(t) /\ k - Len(q) \in 1..Len(t)
      BY <1>1, <2>2
    <3> QED
      BY <1>1, <1>2, <3>1 DEF Listed
  <2> QED
    BY <2>1, <2>2
<1>3. ASSUME NEW k \in 1..Len(q) PROVE Listed(q \o t, q[k])
  <2>1. k \in 1..Len(q \o t)
    BY <1>1
  <2> QED
    BY <1>1, <2>1 DEF Listed
<1>4. ASSUME NEW k \in 1..Len(t) PROVE Listed(q \o t, t[k])
  <2>1. /\ k + Len(q) \in 1..Len(q \o t) /\ k + Len(q) \in Len(q) + 1..Len(q) + Len(t)
        /\ (k + Len(q)) - Len(q) = k
    BY <1>1
  <2> QED
    BY <1>1, <2>1 DEF Listed
<1> QED
  BY <1>1, <1>2, <1>3, <1>4 DEF Listed

(* All ids of a table, each of them somewhere *)
LEMMA RowOrderLists ==
    ASSUME NEW rows, AreRows(rows), NEW table,
           \A f \in File : rows.file[f][table] \in Seq(Range(rows.file[f][table]))
    PROVE  /\ RowOrder(rows, table) \in Seq(Ids(rows, table))
           /\ \A x \in Ids(rows, table) : Listed(RowOrder(rows, table), x)
<1> DEFINE s == rows.order
           n == Len(s)
           X == Ids(rows, table)
           Of(f) == [k \in DOMAIN rows.file[f][table] |-> <<f, k>>]
<1>0. /\ s \in Seq(File) /\ n \in Nat /\ (\A f \in File : \E k \in 1..n : s[k] = f)
      /\ \A i \in 1..n : s[i] \in File
  BY DEF AreRows, Listed
<1>1. PICK h : RowFold!IsRun(h, <<rows, table>>, <<>>, s, n) /\ RowOrder(rows, table) = h[n]
  <2>1. s \in Seq(File)
    BY <1>0
  <2> QED
    BY <2>1, RowOrderRuns
<1>2. h[0] = <<>> /\ \A i \in 1..n : h[i] = h[i - 1] \o Of(s[i])
  BY <1>1 DEF RowFold!IsRun, RowsOf
<1>3. ASSUME NEW f \in File
      PROVE  Of(f) \in Seq(X) /\ \A k \in DOMAIN rows.file[f][table] : Listed(Of(f), <<f, k>>)
  <2>1. PICK m \in Nat : DOMAIN rows.file[f][table] = 1..m
    <3>1. rows.file[f][table] \in Seq(Range(rows.file[f][table]))
      OBVIOUS
    <3> QED
      BY <3>1
  <2>2. \A k \in 1..m : <<f, k>> \in X
    BY <2>1 DEF Ids
  <2>3. Of(f) \in [1..m -> X]
    BY <2>1, <2>2
  <2>4. Of(f) \in Seq(X) /\ Len(Of(f)) = m
    <3> HIDE DEF Of, X
    <3> QED
      BY <2>3
  <2> QED
    BY <2>1, <2>4 DEF Listed
<1> DEFINE Reached(i) == \A j \in 1..i : \A k \in DOMAIN rows.file[s[j]][table] : Listed(h[i], <<s[j], k>>)
           S == {i \in 0..n : h[i] \in Seq(X) /\ Reached(i)}
<1>4. 0 \in S
  <2>1. h[0] \in Seq(X) /\ 0 \in 0..n /\ 1..0 = {}
    BY <1>0, <1>2
  <2> HIDE DEF X
  <2> QED
    BY <2>1
<1>5. ASSUME NEW i \in 1..n, i - 1 \in S PROVE i \in S
  <2>1. h[i - 1] \in Seq(X) /\ Of(s[i]) \in Seq(X) /\ s[i] \in File
    BY <1>0, <1>3, <1>5
  <2>2. h[i] = h[i - 1] \o Of(s[i])
    BY <1>2
  <2>3. h[i] \in Seq(X) /\ \A x : Listed(h[i], x) <=> Listed(h[i - 1], x) \/ Listed(Of(s[i]), x)
    <3> HIDE DEF X, Of
    <3> QED
      BY <2>1, <2>2, JoinedMembers
  <2>4. ASSUME NEW j \in 1..i, NEW k \in DOMAIN rows.file[s[j]][table]
        PROVE  Listed(h[i], <<s[j], k>>)
    <3>1. CASE j = i
      BY <1>3, <2>1, <2>3, <3>1
    <3>2. CASE j # i
      <4>1. j \in 1..(i - 1)
        BY <1>0, <3>2
      <4>2. Listed(h[i - 1], <<s[j], k>>)
        BY <1>5, <4>1
      <4> QED
        BY <2>3, <4>2
    <3> QED
      BY <3>1, <3>2
  <2>5. i \in 0..n
    BY <1>0
  <2> HIDE DEF X
  <2> QED
    BY <2>3, <2>4, <2>5
<1>6. n \in S
  <2>1. 0..n \subseteq S
    <3> HIDE DEF S, n
    <3> QED
      BY <1>0, <1>4, <1>5, RowFold!InductionUpTo
  <2>2. n \in 0..n
    BY <1>0
  <2> HIDE DEF S, n
  <2> QED
    BY <2>1, <2>2
<1>7. ASSUME NEW x \in X PROVE Listed(h[n], x)
  <2>1. PICK f \in File : x \in {f} \X DOMAIN rows.file[f][table]
    BY DEF Ids
  <2>2. PICK k \in DOMAIN rows.file[f][table] : x = <<f, k>>
    BY <2>1
  <2>3. PICK j \in 1..n : s[j] = f
    BY <1>0
  <2> QED
    BY <1>6, <2>2, <2>3
<1> HIDE DEF X
<1> QED
  BY <1>1, <1>6, <1>7 DEF X

LEMMA RelationshipsListed ==
    ASSUME NEW rows, AreRows(rows)
    PROVE  /\ Relationships(rows) \in Seq(Ids(rows, "relationships"))
           /\ \A x \in Ids(rows, "relationships") : Listed(Relationships(rows), x)
<1>1. \A f \in File : rows.file[f]["relationships"] \in Seq(Range(rows.file[f]["relationships"]))
  BY ContentOf DEF IsContent
<1> QED
  BY <1>1, RowOrderLists DEF Relationships

BindingOf(rows, b) ==
    [file |-> b[1], kind |-> rows.file[b[1]].bindings[b[2]].kind,
     name |-> rows.file[b[1]].bindings[b[2]].name, type |-> rows.file[b[1]].bindings[b[2]].type]
BindingRows(rows) == {BindingOf(rows, b) : b \in Ids(rows, "bindings")}

LEMMA BindingsListed ==
    ASSUME NEW rows, AreRows(rows)
    PROVE  /\ Bindings(rows) \in Seq(BindingRows(rows))
           /\ \A b \in BindingRows(rows) : Listed(Bindings(rows), b)
<1> DEFINE ids == RowOrder(rows, "bindings")
<1>1. \A f \in File : rows.file[f]["bindings"] \in Seq(Range(rows.file[f]["bindings"]))
  BY ContentOf DEF IsContent
<1>2. /\ ids \in Seq(Ids(rows, "bindings"))
      /\ \A x \in Ids(rows, "bindings") : Listed(ids, x)
  BY <1>1, RowOrderLists
<1>3. Bindings(rows) = [k \in DOMAIN ids |-> BindingOf(rows, ids[k])]
  BY DEF Bindings, BindingOf
<1> HIDE DEF ids
<1>4. DOMAIN ids = 1..Len(ids) /\ Len(ids) \in Nat /\ \A k \in 1..Len(ids) : ids[k] \in Ids(rows, "bindings")
  BY <1>2
<1>5. Bindings(rows) \in [1..Len(ids) -> BindingRows(rows)]
  BY <1>3, <1>4 DEF BindingRows
<1>6. Bindings(rows) \in Seq(BindingRows(rows)) /\ Len(Bindings(rows)) = Len(ids)
  BY <1>4, <1>5
<1>7. ASSUME NEW b \in BindingRows(rows) PROVE Listed(Bindings(rows), b)
  <2>1. PICK x \in Ids(rows, "bindings") : b = BindingOf(rows, x)
    BY DEF BindingRows
  <2>2. PICK k \in 1..Len(ids) : ids[k] = x
    BY <1>2, <2>1 DEF Listed
  <2>3. Bindings(rows)[k] = b /\ k \in 1..Len(Bindings(rows))
    BY <1>3, <1>4, <1>6, <2>1, <2>2
  <2> QED
    BY <2>3 DEF Listed
<1> QED
  BY <1>6, <1>7

----------------------------------------------------------------------------
(* Types are known with a confidence, and those of K are certain *)
Typed(v) == \A x \in DOMAIN v : v[x].confidence \in Medium .. Certain /\ v[x].type # NoName
Fixed(v, K, t) == \A x \in K : x \in DOMAIN v /\ v[x] = [type |-> t, confidence |-> Certain]
Holding(v, K, t) == Typed(v) /\ Fixed(v, K, t)

LEMMA ApplyHolds ==
    ASSUME NEW v, NEW f, NEW path, NEW type, type # NoName,
           NEW confidence \in Medium .. Certain, NEW K, NEW t, Holding(v, K, t)
    PROVE  Holding(ApplyType(v, f, path, type, confidence), K, t)
<1> DEFINE x == <<f, path>>
           w == ApplyType(v, f, path, type, confidence)
<1>1. CASE x \in DOMAIN v /\ v[x].confidence >= confidence
  <2>1. w = v
    BY <1>1 DEF ApplyType
  <2> QED
    BY <2>1
<1>2. CASE ~(x \in DOMAIN v /\ v[x].confidence >= confidence)
  <2>1. w = [y \in DOMAIN v \union {x} |->
                IF y = x THEN [type |-> type, confidence |-> confidence] ELSE v[y]]
    BY <1>2 DEF ApplyType
  <2>2. Typed(w)
    BY <2>1 DEF Typed, Holding, Medium, Certain
  <2>3. x \notin K
    BY <1>2 DEF Holding, Fixed, Medium, Certain
  <2>4. Fixed(w, K, t)
    BY <2>1, <2>3 DEF Holding, Fixed
  <2> QED
    BY <2>2, <2>4 DEF Holding
<1> QED
  BY <1>1, <1>2

LEMMA NamesTyped ==
    ASSUME NEW rows, AreRows(rows)
    PROVE  /\ \A r \in Ids(rows, "relationships") : Relationship(rows, r).name # NoName
           /\ \A b \in BindingRows(rows) : b.type # NoName
<1>1. ASSUME NEW r \in Ids(rows, "relationships") PROVE Relationship(rows, r).name # NoName
  <2>1. PICK f \in File : r \in {f} \X DOMAIN rows.file[f].relationships
    BY DEF Ids
  <2>2. /\ r[1] = f /\ r[2] \in DOMAIN rows.file[f].relationships /\ IsContent(rows.file[f])
    BY <2>1, ContentOf
  <2> QED
    BY <2>2 DEF Relationship, IsContent, Range
<1>2. ASSUME NEW b \in BindingRows(rows) PROVE b.type # NoName
  <2>1. PICK x \in Ids(rows, "bindings") : b = BindingOf(rows, x)
    BY DEF BindingRows
  <2>2. PICK f \in File : x \in {f} \X DOMAIN rows.file[f].bindings
    BY DEF Ids
  <2>3. /\ x[1] = f /\ x[2] \in DOMAIN rows.file[f].bindings /\ IsContent(rows.file[f])
    BY <2>2, ContentOf
  <2>4. rows.file[f].bindings[x[2]].type # NoName
    BY <2>3 DEF IsContent, Range
  <2> QED
    BY <2>1, <2>3, <2>4 DEF BindingOf
<1> QED
  BY <1>1, <1>2

LEMMA ConfidencesAre == Medium \in Medium .. Certain /\ High \in Medium .. Certain /\ Certain \in Medium .. Certain
BY DEF Medium, High, Certain

LEMMA BindingStepHolds ==
    ASSUME NEW rows, AreRows(rows), NEW v, NEW b \in BindingRows(rows), NEW K, NEW t, Holding(v, K, t)
    PROVE  Holding(BindingStep(rows, v, b), K, t)
<1>1. \/ BindingStep(rows, v, b) = ApplyType(v, b.file, <<b.name>>, b.type, Certain)
      \/ /\ Returned(rows, b.type) # NoName
         /\ BindingStep(rows, v, b) = ApplyType(v, b.file, <<b.name>>, Returned(rows, b.type), Medium)
      \/ BindingStep(rows, v, b) = v
  BY DEF BindingStep
<1> QED
  BY <1>1, ApplyHolds, NamesTyped, ConfidencesAre

LEMMA ConstructorStepHolds ==
    ASSUME NEW rows, AreRows(rows), NEW v, NEW r \in Ids(rows, "relationships"), NEW K, NEW t, Holding(v, K, t)
    PROVE  Holding(ConstructorStep(rows, v, r), K, t)
<1> DEFINE rel == Relationship(rows, r)
<1>1. \/ ConstructorStep(rows, v, r) = ApplyType(v, r[1], rel.receiver, rel.name, High)
      \/ ConstructorStep(rows, v, r) = ApplyType(v, r[1], rel.receiver, rel.name, Medium)
      \/ /\ Returned(rows, rel.name) # NoName
         /\ ConstructorStep(rows, v, r) = ApplyType(v, r[1], rel.receiver, Returned(rows, rel.name), Medium)
      \/ ConstructorStep(rows, v, r) = v
  BY DEF ConstructorStep
<1>2. rel.name # NoName
  BY NamesTyped
<1> HIDE DEF rel
<1> QED
  BY <1>1, <1>2, ApplyHolds, ConfidencesAre

LEMMA ImportStepHolds ==
    ASSUME NEW rows, AreRows(rows), NEW v, NEW r \in Ids(rows, "relationships"), NEW K, NEW t, Holding(v, K, t)
    PROVE  Holding(ImportStep(rows, v, r), K, t)
<1> DEFINE n == Relationship(rows, r).name
<1>1. \/ ImportStep(rows, v, r) = ApplyType(v, r[1], <<n>>, ImportedType(rows, v, r[1], n), Certain)
      \/ ImportStep(rows, v, r) = v
  BY DEF ImportStep
<1>2. n # NoName
  BY NamesTyped
<1>3. ImportedType(rows, v, r[1], n) # NoName
  BY <1>2 DEF ImportedType
<1> HIDE DEF n
<1> QED
  BY <1>1, <1>3, ApplyHolds, ConfidencesAre

LEMMA AliasStepHolds ==
    ASSUME NEW rows, NEW w, NEW v, NEW b, NEW K, NEW t, Holding(v, K, t)
    PROVE  Holding(AliasStep(<<rows, w>>, v, b), K, t)
<1>1. \/ /\ AliasType(rows, w, b) # NoName
         /\ AliasStep(<<rows, w>>, v, b) = ApplyType(v, b.file, AliasTarget(b), AliasType(rows, w, b), Medium)
      \/ AliasStep(<<rows, w>>, v, b) = v
  BY DEF AliasStep, Applies
<1> QED
  BY <1>1, ApplyHolds, ConfidencesAre

LEMMA NothingHolds == Holding(<<>>, {}, NoName)
BY DEF Holding, Typed, Fixed

(* A stage of the engine keeps what holds *)
LEMMA ConstructorsHold ==
    ASSUME NEW rows, AreRows(rows), NEW v, NEW K, NEW t, Holding(v, K, t)
    PROVE  Holding(LoadConstructors(rows, v), K, t)
<1> DEFINE s == Relationships(rows)
           n == Len(s)
           c == rows
<1>1. s \in Seq(Ids(rows, "relationships")) /\ n \in Nat /\ \A i \in 1..n : s[i] \in Ids(rows, "relationships")
  BY RelationshipsListed
<1>2. PICK h : ConstructorFold!IsRun(h, c, v, s, n) /\ LoadConstructors(rows, v) = h[n]
  BY <1>1, ConstructorRuns
<1>3. h[0] = v /\ \A i \in 1..n : h[i] = ConstructorStep(c, h[i - 1], s[i])
  BY <1>2 DEF ConstructorFold!IsRun
<1> HIDE DEF s, n, c
<1> DEFINE S == {i \in 0..n : Holding(h[i], K, t)}
<1>4. 0 \in S
  BY <1>1, <1>3
<1>5. ASSUME NEW i \in 1..n, i - 1 \in S PROVE i \in S
  <2>1. Holding(h[i - 1], K, t) /\ s[i] \in Ids(rows, "relationships") /\ h[i] = ConstructorStep(c, h[i - 1], s[i]) /\ i \in 0..n
    BY <1>1, <1>3, <1>5
  <2>2. Holding(h[i], K, t)
    BY <2>1, ConstructorStepHolds DEF c
  <2> QED
    BY <2>1, <2>2
<1>6. 0..n \subseteq S
  <2> HIDE DEF S
  <2> QED
    BY <1>1, <1>4, <1>5, RowFold!InductionUpTo
<1>7. n \in S
  <2>1. n \in 0..n
    BY <1>1
  <2> HIDE DEF S
  <2> QED
    BY <1>6, <2>1
<1> QED
  BY <1>2, <1>7

LEMMA ImportsHold ==
    ASSUME NEW rows, AreRows(rows), NEW v, NEW K, NEW t, Holding(v, K, t)
    PROVE  Holding(LoadImports(rows, v), K, t)
<1> DEFINE s == Relationships(rows)
           n == Len(s)
           c == rows
<1>1. s \in Seq(Ids(rows, "relationships")) /\ n \in Nat /\ \A i \in 1..n : s[i] \in Ids(rows, "relationships")
  BY RelationshipsListed
<1>2. PICK h : ImportFold!IsRun(h, c, v, s, n) /\ LoadImports(rows, v) = h[n]
  BY <1>1, ImportRuns
<1>3. h[0] = v /\ \A i \in 1..n : h[i] = ImportStep(c, h[i - 1], s[i])
  BY <1>2 DEF ImportFold!IsRun
<1> HIDE DEF s, n, c
<1> DEFINE S == {i \in 0..n : Holding(h[i], K, t)}
<1>4. 0 \in S
  BY <1>1, <1>3
<1>5. ASSUME NEW i \in 1..n, i - 1 \in S PROVE i \in S
  <2>1. Holding(h[i - 1], K, t) /\ s[i] \in Ids(rows, "relationships") /\ h[i] = ImportStep(c, h[i - 1], s[i]) /\ i \in 0..n
    BY <1>1, <1>3, <1>5
  <2>2. Holding(h[i], K, t)
    BY <2>1, ImportStepHolds DEF c
  <2> QED
    BY <2>1, <2>2
<1>6. 0..n \subseteq S
  <2> HIDE DEF S
  <2> QED
    BY <1>1, <1>4, <1>5, RowFold!InductionUpTo
<1>7. n \in S
  <2>1. n \in 0..n
    BY <1>1
  <2> HIDE DEF S
  <2> QED
    BY <1>6, <2>1
<1> QED
  BY <1>2, <1>7

LEMMA BindingsHold ==
    ASSUME NEW rows, AreRows(rows), NEW K, NEW t, Holding(<<>>, K, t)
    PROVE  Holding(LoadBindings(rows), K, t)
<1> DEFINE s == Bindings(rows)
           n == Len(s)
           c == rows
<1>1. s \in Seq(BindingRows(rows)) /\ n \in Nat /\ \A i \in 1..n : s[i] \in BindingRows(rows)
  BY BindingsListed
<1>2. PICK h : BindingFold!IsRun(h, c, <<>>, s, n) /\ LoadBindings(rows) = h[n]
  BY <1>1, BindingRuns
<1>3. h[0] = <<>> /\ \A i \in 1..n : h[i] = BindingStep(c, h[i - 1], s[i])
  BY <1>2 DEF BindingFold!IsRun
<1> HIDE DEF s, n, c
<1> DEFINE S == {i \in 0..n : Holding(h[i], K, t)}
<1>4. 0 \in S
  BY <1>1, <1>3
<1>5. ASSUME NEW i \in 1..n, i - 1 \in S PROVE i \in S
  <2>1. Holding(h[i - 1], K, t) /\ s[i] \in BindingRows(rows) /\ h[i] = BindingStep(c, h[i - 1], s[i]) /\ i \in 0..n
    BY <1>1, <1>3, <1>5
  <2>2. Holding(h[i], K, t)
    BY <2>1, BindingStepHolds DEF c
  <2> QED
    BY <2>1, <2>2
<1>6. 0..n \subseteq S
  <2> HIDE DEF S
  <2> QED
    BY <1>1, <1>4, <1>5, RowFold!InductionUpTo
<1>7. n \in S
  <2>1. n \in 0..n
    BY <1>1
  <2> HIDE DEF S
  <2> QED
    BY <1>6, <2>1
<1> QED
  BY <1>2, <1>7

LEMMA AliasPassHolds ==
    ASSUME NEW rows, NEW v, NEW X, NEW bs \in Seq(X), NEW K, NEW t, Holding(v, K, t)
    PROVE  Holding(AliasPass(rows, v, bs), K, t)
<1> DEFINE s == bs
           n == Len(s)
           c == <<rows, v>>
<1>1. s \in Seq(X) /\ n \in Nat /\ \A i \in 1..n : s[i] \in X
  OBVIOUS
<1>2. PICK h : AliasFold!IsRun(h, c, v, s, n) /\ AliasPass(rows, v, bs) = h[n]
  BY <1>1, AliasRuns
<1>3. h[0] = v /\ \A i \in 1..n : h[i] = AliasStep(c, h[i - 1], s[i])
  BY <1>2 DEF AliasFold!IsRun
<1> HIDE DEF s, n, c
<1> DEFINE S == {i \in 0..n : Holding(h[i], K, t)}
<1>4. 0 \in S
  BY <1>1, <1>3
<1>5. ASSUME NEW i \in 1..n, i - 1 \in S PROVE i \in S
  <2>1. Holding(h[i - 1], K, t) /\ s[i] \in X /\ h[i] = AliasStep(c, h[i - 1], s[i]) /\ i \in 0..n
    BY <1>1, <1>3, <1>5
  <2>2. Holding(h[i], K, t)
    BY <2>1, AliasStepHolds DEF c
  <2> QED
    BY <2>1, <2>2
<1>6. 0..n \subseteq S
  <2> HIDE DEF S
  <2> QED
    BY <1>1, <1>4, <1>5, RowFold!InductionUpTo
<1>7. n \in S
  <2>1. n \in 0..n
    BY <1>1
  <2> HIDE DEF S
  <2> QED
    BY <1>6, <2>1
<1> QED
  BY <1>2, <1>7

LEMMA PassesHold ==
    ASSUME NEW rows, NEW v, NEW X, NEW bs \in Seq(X), NEW K, NEW t, Holding(v, K, t)
    PROVE  Holding(PassesOf(rows, v, bs), K, t)
<1> DEFINE s == bs
           n == Len(s)
           c == <<rows, bs>>
<1>1. s \in Seq(X) /\ n \in Nat /\ \A i \in 1..n : s[i] \in X
  OBVIOUS
<1>2. PICK h : PassFold!IsRun(h, c, AliasPass(rows, v, bs), s, n) /\ PassesOf(rows, v, bs) = h[n]
  BY <1>1, PassRuns
<1>3. h[0] = AliasPass(rows, v, bs) /\ \A i \in 1..n : h[i] = PassStep(c, h[i - 1], s[i])
  BY <1>2 DEF PassFold!IsRun
<1> HIDE DEF s, n, c
<1> DEFINE S == {i \in 0..n : Holding(h[i], K, t)}
<1>4. 0 \in S
  BY <1>1, <1>3, AliasPassHolds
<1>5. ASSUME NEW i \in 1..n, i - 1 \in S PROVE i \in S
  <2>1. Holding(h[i - 1], K, t) /\ s[i] \in X /\ h[i] = PassStep(c, h[i - 1], s[i]) /\ i \in 0..n
    BY <1>1, <1>3, <1>5
  <2>2. Holding(h[i], K, t)
    BY <2>1, AliasPassHolds DEF c, PassStep
  <2> QED
    BY <2>1, <2>2
<1>6. 0..n \subseteq S
  <2> HIDE DEF S
  <2> QED
    BY <1>1, <1>4, <1>5, RowFold!InductionUpTo
<1>7. n \in S
  <2>1. n \in 0..n
    BY <1>1
  <2> HIDE DEF S
  <2> QED
    BY <1>6, <2>1
<1> QED
  BY <1>2, <1>7

LEMMA Selected ==
    ASSUME NEW X, NEW q \in Seq(X), NEW T, NEW h, RowFold!Selects(h, q, T)
    PROVE  h[Len(q)] \in Seq(X) /\ \A x : Listed(h[Len(q)], x) <=> x \in T /\ Listed(q, x)
<1>1. /\ h[Len(q)] \in Seq(X)
      /\ \A x : (\E i \in DOMAIN h[Len(q)] : h[Len(q)][i] = x) <=> x \in T /\ \E i \in DOMAIN q : q[i] = x
  BY RowFold!RunSelects
<1>2. DOMAIN q = 1..Len(q) /\ DOMAIN h[Len(q)] = 1..Len(h[Len(q)])
  BY <1>1
<1> QED
  BY <1>1, <1>2 DEF Listed

(* The bindings of a file that may stand for others, in their order *)
LEMMA AliasBindingsAre ==
    ASSUME NEW rows, AreRows(rows), NEW f0
    PROVE  /\ AliasBindings(rows, f0) \in Seq(BindingRows(rows))
           /\ \A b : Listed(AliasBindings(rows, f0), b) <=>
                     b \in BindingRows(rows) /\ b.file = f0 /\ b.kind \in AliasKinds
<1> DEFINE s == Bindings(rows)
           T == {b \in BindingRows(rows) : b.file = f0 /\ b.kind \in AliasKinds}
<1>1. s \in Seq(BindingRows(rows)) /\ \A b \in BindingRows(rows) : Listed(s, b)
  BY BindingsListed
<1>2. PICK h : ChosenFold!IsRun(h, f0, <<>>, s, Len(s)) /\ AliasBindings(rows, f0) = h[Len(s)]
  BY <1>1, ChosenRuns
<1>3. h[0] = <<>> /\ \A i \in 1..Len(s) : h[i] = ChosenStep(f0, h[i - 1], s[i])
  BY <1>2 DEF ChosenFold!IsRun
<1> HIDE DEF s
<1>4. \A i \in 1..Len(s) : s[i] \in BindingRows(rows)
  BY <1>1
<1>5. RowFold!Selects(h, s, T)
  <2>1. ASSUME NEW i \in 1..Len(s)
        PROVE  h[i] = IF s[i] \in T THEN Append(h[i - 1], s[i]) ELSE h[i - 1]
    BY <1>3, <1>4 DEF ChosenStep
  <2> HIDE DEF T
  <2> QED
    BY <1>3, <2>1 DEF RowFold!Selects
<1>6. h[Len(s)] \in Seq(BindingRows(rows)) /\ \A x : Listed(h[Len(s)], x) <=> x \in T /\ Listed(s, x)
  <2> HIDE DEF T
  <2> QED
    BY <1>1, <1>5, Selected
<1> QED
  BY <1>1, <1>2, <1>6

LEMMA FileStepIs == ASSUME NEW rows, NEW v, NEW f PROVE FileStep(rows, v, f) = PassesOf(rows, v, AliasBindings(rows, f))
BY Zenon DEF FileStep, PassesOf

LEMMA FileStepHolds ==
    ASSUME NEW rows, AreRows(rows), NEW v, NEW f, NEW K, NEW t, Holding(v, K, t)
    PROVE  Holding(FileStep(rows, v, f), K, t)
BY FileStepIs, AliasBindingsAre, PassesHold

LEMMA AliasesHold ==
    ASSUME NEW rows, AreRows(rows), NEW v, NEW K, NEW t, Holding(v, K, t)
    PROVE  Holding(ResolveAliases(rows, v), K, t)
<1> DEFINE s == rows.order
           n == Len(s)
           c == rows
<1>1. s \in Seq(File) /\ n \in Nat /\ \A i \in 1..n : s[i] \in File
  BY DEF AreRows
<1>2. PICK h : FileFold!IsRun(h, c, v, s, n) /\ ResolveAliases(rows, v) = h[n]
  BY <1>1, FileRuns
<1>3. h[0] = v /\ \A i \in 1..n : h[i] = FileStep(c, h[i - 1], s[i])
  BY <1>2 DEF FileFold!IsRun
<1> HIDE DEF s, n, c
<1> DEFINE S == {i \in 0..n : Holding(h[i], K, t)}
<1>4. 0 \in S
  BY <1>1, <1>3
<1>5. ASSUME NEW i \in 1..n, i - 1 \in S PROVE i \in S
  <2>1. Holding(h[i - 1], K, t) /\ s[i] \in File /\ h[i] = FileStep(c, h[i - 1], s[i]) /\ i \in 0..n
    BY <1>1, <1>3, <1>5
  <2>2. Holding(h[i], K, t)
    BY <2>1, FileStepHolds DEF c
  <2> QED
    BY <2>1, <2>2
<1>6. 0..n \subseteq S
  <2> HIDE DEF S
  <2> QED
    BY <1>1, <1>4, <1>5, RowFold!InductionUpTo
<1>7. n \in S
  <2>1. n \in 0..n
    BY <1>1
  <2> HIDE DEF S
  <2> QED
    BY <1>6, <2>1
<1> QED
  BY <1>2, <1>7

----------------------------------------------------------------------------
(* Of several symbols the first one is taken, or the tightest *)

LEMMA PlaceIs ==
    ASSUME NEW rows, AreRows(rows), NEW f \in File
    PROVE  Place(rows, f) \in Nat /\ rows.order[Place(rows, f)] = f
<1>1. Listed(rows.order, f) /\ rows.order \in Seq(File)
  BY DEF AreRows
<1>2. DOMAIN rows.order = 1..Len(rows.order) /\ Len(rows.order) \in Nat
  BY <1>1
<1>3. Place(rows, f) \in DOMAIN rows.order /\ rows.order[Place(rows, f)] = f
  BY <1>1, <1>2 DEF Listed, Place
<1> QED
  BY <1>2, <1>3

LEMMA SymbolIs ==
    ASSUME NEW rows, AreRows(rows), NEW s \in SymbolIds(rows)
    PROVE  /\ s = <<s[1], s[2]>> /\ s[1] \in File /\ s[2] \in Nat
           /\ Symbol(rows, s).name # NoName
           /\ Symbol(rows, s).lo \in Nat /\ Symbol(rows, s).hi \in Nat /\ Symbol(rows, s).lo <= Symbol(rows, s).hi
<1>1. PICK f \in File : s \in {f} \X DOMAIN rows.file[f].symbols
  BY ContentOf DEF SymbolIds
<1>2. s = <<s[1], s[2]>> /\ s[1] = f /\ s[2] \in DOMAIN rows.file[f].symbols
  BY <1>1
<1>3. IsContent(rows.file[f])
  BY ContentOf
<1>4. rows.file[f].symbols \in Seq(Range(rows.file[f].symbols))
  BY <1>3 DEF IsContent
<1>5. s[2] \in Nat
  BY <1>2, <1>4
<1>6. Symbol(rows, s) \in Range(rows.file[f].symbols)
  BY <1>2 DEF Symbol, Range
<1> QED
  BY <1>2, <1>3, <1>5, <1>6 DEF IsContent

LEMMA FirstIsMember ==
    ASSUME NEW rows, AreRows(rows), NEW ids, ids \subseteq SymbolIds(rows), ids # {}
    PROVE  First(rows, ids) \in ids
<1> DEFINE P == {Place(rows, s[1]) : s \in ids}
<1>1. \A s \in ids : /\ s = <<s[1], s[2]>> /\ s[1] \in File /\ s[2] \in Nat
                     /\ Place(rows, s[1]) \in Nat /\ rows.order[Place(rows, s[1])] = s[1]
  BY SymbolIs, PlaceIs
<1>2. P \subseteq Nat /\ P # {}
  BY <1>1
<1>3. PICK p \in P : \A k \in P : p <= k
  <2> HIDE DEF P
  <2> QED
    BY <1>2, RowFold!LeastExists
<1> DEFINE Q == {s[2] : s \in {t \in ids : Place(rows, t[1]) = p}}
<1>4. Q \subseteq Nat /\ Q # {}
  BY <1>1
<1>5. PICK q \in Q : \A k \in Q : q <= k
  <2> HIDE DEF Q
  <2> QED
    BY <1>4, RowFold!LeastExists
<1>6. PICK s \in ids : Place(rows, s[1]) = p /\ s[2] = q
  OBVIOUS
<1>7. ASSUME NEW t \in ids
      PROVE  \/ Place(rows, s[1]) < Place(rows, t[1])
             \/ s[1] = t[1] /\ s[2] <= t[2]
  <2>1. p <= Place(rows, t[1]) /\ Place(rows, t[1]) \in Nat /\ p \in Nat
    BY <1>1, <1>2, <1>3
  <2>2. CASE Place(rows, t[1]) = p
    <3>1. s[1] = t[1]
      BY <1>1, <1>6, <2>2
    <3>2. t[2] \in Q
      BY <2>2
    <3>3. q <= t[2]
      BY <1>5, <3>2
    <3> QED
      BY <1>6, <3>1, <3>3
  <2>3. CASE Place(rows, t[1]) # p
    BY <1>6, <2>1, <2>3
  <2> QED
    BY <2>2, <2>3
<1>8. \E x \in ids : \A t \in ids : \/ Place(rows, x[1]) < Place(rows, t[1])
                                    \/ x[1] = t[1] /\ x[2] <= t[2]
  BY <1>7
<1> QED
  BY <1>8 DEF First

LEMMA TightestIsMember ==
    ASSUME NEW rows, AreRows(rows), NEW ids, ids \subseteq SymbolIds(rows), ids # {}
    PROVE  Tightest(rows, ids) \in ids
<1> DEFINE P == {Size(rows, s) : s \in ids}
           best == {s \in ids : \A t \in ids : Size(rows, s) <= Size(rows, t)}
<1>1. \A s \in ids : Size(rows, s) \in Nat
  BY SymbolIs DEF Size
<1>2. P \subseteq Nat /\ P # {}
  BY <1>1
<1>3. PICK p \in P : \A k \in P : p <= k
  <2> HIDE DEF P
  <2> QED
    BY <1>2, RowFold!LeastExists
<1>4. PICK s \in ids : Size(rows, s) = p
  OBVIOUS
<1>5. s \in best
  BY <1>3, <1>4
<1>6. First(rows, best) \in best
  <2>1. best \subseteq SymbolIds(rows) /\ best # {}
    BY <1>5
  <2> HIDE DEF best
  <2> QED
    BY <2>1, FirstIsMember
<1> QED
  BY <1>6 DEF Tightest

LEMMA EnclosedBySymbols ==
    ASSUME AreRows(d), NEW r
    PROVE  EnclosingSymbol(d, r) \subseteq SymbolIds(d)
<1> DEFINE around == {s \in SymbolIds(d) : /\ s[1] = r[1]
                                           /\ Symbol(d, s).kind # "variable"
                                           /\ Symbol(d, s).lo <= Relationship(d, r).at
                                           /\ Relationship(d, r).at <= Symbol(d, s).hi}
<1>1. EnclosingSymbol(d, r) = IF around = {} THEN {} ELSE {Tightest(d, around)}
  BY DEF EnclosingSymbol
<1>2. around \subseteq SymbolIds(d)
  OBVIOUS
<1> HIDE DEF around
<1> QED
  BY <1>1, <1>2, TightestIsMember

(* A symbol has a parent when another one encloses it *)
LEMMA ParentIs ==
    ASSUME NEW rows, AreRows(rows), NEW s
    PROVE  ParentName(rows, s) # NoName <=> Enclosing(rows, s) # {}
<1>1. Enclosing(rows, s) \subseteq SymbolIds(rows)
  BY DEF Enclosing
<1>2. ASSUME Enclosing(rows, s) # {} PROVE Symbol(rows, Tightest(rows, Enclosing(rows, s))).name # NoName
  BY <1>1, <1>2, TightestIsMember, SymbolIs
<1> QED
  BY <1>2 DEF ParentName

----------------------------------------------------------------------------
(* Reindexing a file moves it behind the others *)

Once(q) == \A i, j \in 1..Len(q) : q[i] = q[j] => i = j

LEMMA OrdersAre ==
    ASSUME NEW order
    PROVE  order \in SetToSeqs(File) <=> /\ order \in Seq(File) /\ Once(order)
                                         /\ \A f \in File : Listed(order, f)
<1>1. Cardinality(File) \in Nat /\ IsFiniteSet(File)
  BY RepositoryAssumption, FS_CardinalityType
<1> DEFINE c == Cardinality(File)
<1>2. ASSUME order \in SetToSeqs(File)
      PROVE  order \in Seq(File) /\ Once(order) /\ \A f \in File : Listed(order, f)
  <2>1. order \in [1..c -> File] /\ \A i, j \in 1..c : i # j => order[i] # order[j]
    BY <1>2 DEF SetToSeqs
  <2>2. order \in Seq(File) /\ Len(order) = c
    BY <1>1, <2>1
  <2>3. order \in Injection(1..c, File)
    BY <2>1 DEF Injection, IsInjective
  <2>4. IsFiniteSet(1..c) /\ Cardinality(1..c) = c
    BY <1>1, FS_Interval
  <2>5. order \in Surjection(1..c, File)
    <3> HIDE DEF c
    <3> QED
      BY <1>1, <2>3, <2>4, FS_Injection DEF c
  <2> QED
    BY <2>1, <2>2, <2>5 DEF Once, Listed, Surjection
<1>3. ASSUME order \in Seq(File), Once(order), \A f \in File : Listed(order, f)
      PROVE  order \in SetToSeqs(File)
  <2> DEFINE n == Len(order)
  <2>1. n \in Nat /\ order \in [1..n -> File]
    BY <1>3
  <2>2. order \in Bijection(1..n, File)
    BY <1>3, <2>1 DEF Once, Listed, Bijection, Injection, Surjection, IsInjective
  <2>3. c = n
    <3> HIDE DEF n
    <3> QED
      BY <2>1, <2>2, FS_CountingElements DEF ExistsBijection
  <2> QED
    BY <1>3, <2>1, <2>3 DEF SetToSeqs, Once
<1> QED
  BY <1>2, <1>3

LEMMA BehindIs ==
    ASSUME NEW order \in SetToSeqs(File), NEW f0 \in File
    PROVE  Behind(order, f0) \in SetToSeqs(File)
<1> DEFINE T == File \ {f0}
           n == Len(order)
           others == Others(order, f0)
<1>1. /\ order \in Seq(File) /\ Once(order) /\ (\A f \in File : Listed(order, f)) /\ n \in Nat
      /\ \A i \in 1..n : order[i] \in File
  BY OrdersAre
<1>2. PICK h : BehindFold!IsRun(h, f0, <<>>, order, n) /\ others = h[n]
  BY <1>1, BehindRuns
<1>3. RowFold!Selects(h, order, T)
  <2>1. ASSUME NEW i \in 1..n PROVE h[i] = IF order[i] \in T THEN Append(h[i - 1], order[i]) ELSE h[i - 1]
    BY <1>1, <1>2 DEF BehindFold!IsRun, BehindStep
  <2> HIDE DEF T
  <2> QED
    BY <1>2, <2>1 DEF RowFold!Selects, BehindFold!IsRun
<1>4. /\ others \in Seq(File) /\ \A x : Listed(others, x) <=> x \in T /\ Listed(order, x)
  <2> HIDE DEF T
  <2> QED
    BY <1>1, <1>2, <1>3, Selected
<1>5. Once(others)
  <2> HIDE DEF T
  <2> QED
    BY <1>1, <1>2, <1>3, RowFold!RunSelectsOnce DEF Once
<1>6. Behind(order, f0) = Append(others, f0)
  BY DEF Behind, Others
<1> HIDE DEF others
<1>7. /\ Append(others, f0) \in Seq(File) /\ Len(Append(others, f0)) = Len(others) + 1 /\ Len(others) \in Nat
      /\ \A i \in 1..Len(others) : Append(others, f0)[i] = others[i]
      /\ Append(others, f0)[Len(others) + 1] = f0
      /\ \A i \in 1..(Len(others) + 1) : i \in 1..Len(others) \/ i = Len(others) + 1
  BY <1>4
<1>8. \A i \in 1..Len(others) : others[i] # f0
  BY <1>4 DEF Listed
<1>9. Once(Append(others, f0))
  BY <1>5, <1>7, <1>8 DEF Once
<1>10. ASSUME NEW f \in File PROVE Listed(Append(others, f0), f)
  <2>1. CASE f = f0
    <3>1. Len(others) + 1 \in 1..Len(Append(others, f0))
      BY <1>7
    <3> QED
      BY <1>7, <2>1, <3>1 DEF Listed
  <2>2. CASE f # f0
    <3>1. Listed(others, f)
      BY <1>1, <1>4, <2>2
    <3>2. PICK i \in 1..Len(others) : others[i] = f
      BY <3>1 DEF Listed
    <3>3. i \in 1..Len(Append(others, f0))
      BY <1>7
    <3> QED
      BY <1>7, <3>2, <3>3 DEF Listed
  <2> QED
    BY <2>1, <2>2
<1> QED
  BY <1>6, <1>7, <1>9, <1>10, OrdersAre

----------------------------------------------------------------------------
(* The invariant *)

RowsInv == d.file \in Repositories /\ d.order \in SetToSeqs(File) /\ d = [file |-> d.file, order |-> d.order]
PhaseInv == phase \in {"indexed", "prepared", "resolved", "built"}
FlowCurrent == flow = IF phase = "indexed" THEN <<>> ELSE Flow(d)
NothingOpen == ~IsResolved => resolved = <<>>

(* An edge leads from around a relationship to a symbol, of full confidence  *)
(* only by a receiver.                                                       *)
EdgeSound(e) ==
    /\ e.file \in File
    /\ e.tgt \in SymbolIds(d)
    /\ e.src \subseteq SymbolIds(d)
    /\ e.confidence \in {0, 1}
    /\ e.confidence = 1 => /\ e.kind \in MemberKinds \union {"instantiates"}
                           /\ Enclosing(d, e.tgt) # {}
EdgesSound == \A e \in edges : EdgeSound(e)

Inv == RowsInv /\ PhaseInv /\ FlowCurrent /\ NothingOpen /\ OutcomesCurrent /\ EdgesSound

LEMMA RowsAre == RowsInv => AreRows(d)
BY OrdersAre DEF RowsInv, AreRows

LEMMA FlowTyped == ASSUME NEW rows, AreRows(rows) PROVE Typed(Flow(rows))
BY NothingHolds, BindingsHold, ConstructorsHold, ImportsHold, AliasesHold DEF Flow, Holding

----------------------------------------------------------------------------
(* Candidates are symbols, and the score of one that is resolved tells       *)
(* whether a receiver led to it.                                             *)
OutcomeSound(o, kind) ==
    /\ o.state \in State
    /\ o.targets \subseteq SymbolIds(d)
    /\ o.score \in {0, 1}
    /\ o.state = "repository_symbol" /\ o.score = 1 =>
          /\ kind \in MemberKinds \union {"instantiates"}
          /\ \A s \in o.targets : Enclosing(d, s) # {}

LEMMA OutcomeIs ==
    ASSUME NEW state, NEW targets, NEW score
    PROVE  /\ Outcome(state, targets, score).state = state
           /\ Outcome(state, targets, score).targets = targets
           /\ Outcome(state, targets, score).score = score
BY DEF Outcome

LEMMA ClassificationSound ==
    ASSUME NEW r, NEW kind, ClassificationStage(r) # Open
    PROVE  OutcomeSound(ClassificationStage(r), kind)
<1> DEFINE class == Classify(Relationship(d, r).source, d.file[r[1]].lang)
<1>1. class \in Outside \union {"repository_symbol"}
  BY ClassifyRange
<1> HIDE DEF class
<1>2. ClassificationStage(r) \in {Outcome("builtin", {}, 1), Open}
        \union {Outcome(c, {}, 1) : c \in Outside}
  BY <1>1 DEF ClassificationStage, class
<1>3. PICK c \in Outside : ClassificationStage(r) = Outcome(c, {}, 1)
  BY <1>2 DEF Outside
<1> QED
  BY <1>3, OutcomeIs DEF Outside, State, OutcomeSound

LEMMA FoundAre ==
    ASSUME NEW n
    PROVE  FindByName(d, n) \subseteq SymbolIds(d)
BY DEF FindByName

LEMMA MethodSound ==
    ASSUME AreRows(d), NEW method, NEW type, type # NoName,
           NEW kind \in MemberKinds \union {"instantiates"}
    PROVE  OutcomeSound(MethodOutcome(method, type), kind)
<1> DEFINE found == FindMethodInType(d, method, type)
<1>1. found \subseteq SymbolIds(d) /\ \A s \in found : ParentName(d, s) # NoName
  BY FoundAre DEF FindMethodInType
<1>2. \A s \in found : Enclosing(d, s) # {}
  BY <1>1, ParentIs
<1>3. MethodOutcome(method, type) =
        Outcome(IF found = {} THEN "missing" ELSE "repository_symbol", found, 1)
  BY DEF MethodOutcome
<1> HIDE DEF found
<1> QED
  BY <1>1, <1>2, <1>3, OutcomeIs DEF State, OutcomeSound

LEMMA MemberSound ==
    ASSUME AreRows(d), NEW r, MemberResolverStage(r) # Open
    PROVE  OutcomeSound(MemberResolverStage(r), Relationship(d, r).kind)
<1> DEFINE rel == Relationship(d, r)
           type == TypeOf(flow, r[1], Variable(rel.receiver))
<1>1. /\ rel.kind \in MemberKinds \union {"instantiates"}
      /\ \/ EnclosingClass(r) # NoName /\ MemberResolverStage(r) = MethodOutcome(rel.name, EnclosingClass(r))
         \/ type # NoName /\ MemberResolverStage(r) = MethodOutcome(rel.name, type)
         \/ /\ Origin(r, type) \in Outside
            /\ MemberResolverStage(r) = Outcome(Origin(r, type), {}, 1)
  BY DEF MemberResolverStage
<1> HIDE DEF rel, type
<1>2. CASE /\ Origin(r, type) \in Outside
           /\ MemberResolverStage(r) = Outcome(Origin(r, type), {}, 1)
  BY <1>2, OutcomeIs DEF Outside, State, OutcomeSound
<1> QED
  BY <1>1, <1>2, MethodSound DEF rel

LEMMA LexicalSound ==
    ASSUME NEW r, NEW kind
    PROVE  OutcomeSound(LexicalStages(r), kind)
<1> DEFINE rel == Relationship(d, r)
           named == FindByName(d, rel.name)
           around == EnclosingSymbol(d, r)
           state == CASE named = {} /\ rel.kind \in DynamicKinds -> "dynamic"
                      [] named = {} /\ rel.kind \notin DynamicKinds -> "missing"
                      [] Cardinality(named) > 1 -> "ambiguous"
                      [] named # {} /\ named = around -> "recursive"
                      [] OTHER -> "repository_symbol"
           score == IF named = {} THEN 1 ELSE LexicalScore
<1>1. /\ LexicalStages(r).state = state /\ LexicalStages(r).targets = named
      /\ LexicalStages(r).score = score
  BY DEF LexicalStages, Outcome
<1>2. named \subseteq SymbolIds(d)
  BY FoundAre
<1>3. Cardinality({}) = 0
  BY FS_EmptySet
<1> HIDE DEF named, around
<1>4. CASE named = {}
  <2>1. state \in {"dynamic", "missing"} /\ score = 1
    BY <1>3, <1>4
  <2> QED
    BY <1>1, <1>2, <2>1 DEF State, OutcomeSound
<1>5. CASE named # {}
  <2>1. score = 0 /\ state \in {"ambiguous", "recursive", "repository_symbol"}
    BY <1>5 DEF LexicalScore
  <2> QED
    BY <1>1, <1>2, <2>1 DEF State, OutcomeSound
<1> QED
  BY <1>4, <1>5

LEMMA ResolveSound ==
    ASSUME AreRows(d), NEW r
    PROVE  OutcomeSound(Resolve(r), Relationship(d, r).kind)
BY ClassificationSound, MemberSound, LexicalSound DEF Resolve, Settled

(* What is linked is an edge *)
LEMMA BuiltSound ==
    ASSUME RowsInv, IsResolved, OutcomesCurrent
    PROVE  \A e \in BuiltEdges : EdgeSound(e)
<1> DEFINE s == Relationships(d)
           X == Ids(d, "relationships")
<1>0. AreRows(d)
  BY RowsAre
<1>1. s \in Seq(X) /\ Len(s) \in Nat /\ DOMAIN s = 1..Len(s) /\ \A i \in 1..Len(s) : s[i] \in X
  BY <1>0, RelationshipsListed
<1>2. PICK h : BuiltFold!IsRun(h, 0, {}, s, Len(s)) /\ BuiltEdges = h[Len(s)]
  BY <1>1, BuiltRuns
<1>3. h[0] = {} /\ \A i \in 1..Len(s) : h[i] = LinkStep(0, h[i - 1], s[i])
  BY <1>2 DEF BuiltFold!IsRun
<1>4. ASSUME NEW i \in 1..Len(s), Linked(s[i]) PROVE EdgeSound(EdgeOf(s[i]))
  <2> DEFINE r == s[i]
             o == resolved[r]
  <2>1. r \in RelationshipIds
    BY <1>1 DEF RelationshipIds
  <2>2. o = Resolve(r)
    BY <2>1 DEF OutcomesCurrent
  <2>3. OutcomeSound(o, Relationship(d, r).kind) /\ Contract(o, EnclosingSymbol(d, r))
    BY <1>0, <2>2, ResolveSound, ResolveContract
  <2>4. o.state = "repository_symbol"
    BY <1>4 DEF Linked
  <2> HIDE DEF o
  <2>5. o.targets # {} /\ o.targets \subseteq SymbolIds(d)
    BY <2>3, <2>4 DEF Contract, OutcomeSound
  <2>6. First(d, o.targets) \in o.targets
    BY <1>0, <2>5, FirstIsMember
  <2>7. r[1] \in File
    BY <1>1 DEF Ids
  <2>8. EnclosingSymbol(d, r) \subseteq SymbolIds(d)
    BY <1>0, EnclosedBySymbols
  <2>9. EdgeOf(r) = [file |-> r[1], src |-> EnclosingSymbol(d, r), tgt |-> First(d, o.targets),
                     kind |-> Relationship(d, r).kind, confidence |-> o.score]
    BY DEF EdgeOf, o
  <2> HIDE DEF r
  <2> DEFINE e == EdgeOf(r)
  <2>10. /\ e.file = r[1] /\ e.src = EnclosingSymbol(d, r) /\ e.tgt = First(d, o.targets)
         /\ e.kind = Relationship(d, r).kind /\ e.confidence = o.score
    BY <2>9
  <2> HIDE DEF e
  <2>11. EdgeSound(e)
    BY <2>3, <2>4, <2>5, <2>6, <2>7, <2>8, <2>10 DEF EdgeSound, OutcomeSound
  <2> QED
    BY <2>11 DEF e, r
<1> HIDE DEF s, X
<1> DEFINE S == {i \in 0..Len(s) : \A e \in h[i] : EdgeSound(e)}
<1>5. 0 \in S
  BY <1>1, <1>3
<1>6. ASSUME NEW i \in 1..Len(s), i - 1 \in S PROVE i \in S
  <2>1. (\A e \in h[i - 1] : EdgeSound(e)) /\ i \in 0..Len(s)
    BY <1>1, <1>6
  <2>2. h[i] = h[i - 1] \/ (Linked(s[i]) /\ h[i] = h[i - 1] \union {EdgeOf(s[i])})
    BY <1>3 DEF LinkStep, Insert
  <2> QED
    BY <1>4, <2>1, <2>2
<1>7. 0..Len(s) \subseteq S
  <2> HIDE DEF S
  <2> QED
    BY <1>1, <1>5, <1>6, RowFold!InductionUpTo
<1>8. Len(s) \in S
  <2>1. Len(s) \in 0..Len(s)
    BY <1>1
  <2> HIDE DEF S
  <2> QED
    BY <1>7, <2>1
<1> QED
  BY <1>2, <1>8

LEMMA InitSound == Init => Inv
<1> SUFFICES ASSUME Init PROVE Inv
  OBVIOUS
<1>1. PICK repository \in Repositories, order \in SetToSeqs(File) :
         d = [file |-> repository, order |-> order]
  BY DEF Init
<1>2. RowsInv
  BY <1>1 DEF RowsInv
<1> QED
  BY <1>2 DEF Init, Inv, PhaseInv, FlowCurrent, NothingOpen, OutcomesCurrent, IsResolved, EdgesSound

(* The files of the rows do not change, and what an edge is depends on no more *)
LEMMA EdgesKept ==
    ASSUME d'.file = d.file, EdgesSound, edges' \subseteq edges
    PROVE  EdgesSound'
<1>1. SymbolIds(d)' = SymbolIds(d)
  BY DEF SymbolIds
<1>2. \A s : Enclosing(d, s)' = Enclosing(d, s)
  BY <1>1 DEF Enclosing, Symbol
<1>3. \A e \in edges' : EdgeSound(e)
  BY DEF EdgesSound
<1>4. ASSUME NEW e, EdgeSound(e) PROVE EdgeSound(e)'
  BY <1>1, <1>2, <1>4 DEF EdgeSound
<1> QED
  BY <1>3, <1>4 DEF EdgesSound

LEMMA InvKept == Inv /\ [Next]_vars => Inv'
<1> SUFFICES ASSUME Inv, [Next]_vars PROVE Inv'
  OBVIOUS
<1>0. OutcomesCurrent'
  BY OutcomesKept DEF Inv
<1>1. CASE Prepare
  <2>1. UNCHANGED <<d, edges>> /\ RowsInv' /\ PhaseInv' /\ FlowCurrent' /\ NothingOpen'
    BY <1>1 DEF Prepare, Inv, RowsInv, PhaseInv, FlowCurrent, NothingOpen, IsResolved
  <2>2. EdgesSound'
    BY <2>1, EdgesKept DEF Inv
  <2> QED
    BY <1>0, <2>1, <2>2 DEF Inv
<1>2. CASE Execute
  <2>1. UNCHANGED <<d, edges>> /\ RowsInv' /\ PhaseInv' /\ FlowCurrent' /\ NothingOpen'
    BY <1>2 DEF Execute, Inv, RowsInv, PhaseInv, FlowCurrent, NothingOpen, IsResolved
  <2>2. EdgesSound'
    BY <2>1, EdgesKept DEF Inv
  <2> QED
    BY <1>0, <2>1, <2>2 DEF Inv
<1>3. CASE Build
  <2>1. UNCHANGED d /\ RowsInv' /\ PhaseInv' /\ FlowCurrent' /\ NothingOpen'
    BY <1>3 DEF Build, Inv, RowsInv, PhaseInv, FlowCurrent, NothingOpen, IsResolved
  <2>2. \A e \in BuiltEdges : EdgeSound(e)
    BY <1>3, BuiltSound DEF Build, Inv, IsResolved
  <2>3. \A e \in edges' : EdgeSound(e)
    BY <1>3, <2>2 DEF Build, FlushEdges, Inv, EdgesSound
  <2>4. ASSUME NEW e, EdgeSound(e) PROVE EdgeSound(e)'
    BY <2>1, <2>4 DEF EdgeSound
  <2>5. EdgesSound'
    BY <2>3, <2>4 DEF EdgesSound
  <2> QED
    BY <1>0, <2>1, <2>5 DEF Inv
<1>4. ASSUME NEW f \in File, Reindex(f) PROVE Inv'
  <2>1. d' = [file |-> d.file, order |-> Behind(d.order, f)] /\ edges' \subseteq edges
    BY <1>4 DEF Reindex, DeleteFileData, Inv, RowsInv
  <2>2. Behind(d.order, f) \in SetToSeqs(File)
    BY BehindIs DEF Inv, RowsInv
  <2>3. RowsInv'
    BY <2>1, <2>2 DEF RowsInv, Inv
  <2>4. PhaseInv' /\ FlowCurrent' /\ NothingOpen'
    BY <1>4 DEF Reindex, PhaseInv, FlowCurrent, NothingOpen
  <2>5. EdgesSound'
    BY <2>1, EdgesKept DEF Inv
  <2> QED
    BY <1>0, <2>3, <2>4, <2>5 DEF Inv
<1>5. CASE UNCHANGED vars
  <2>1. UNCHANGED <<d, edges>> /\ RowsInv' /\ PhaseInv' /\ FlowCurrent' /\ NothingOpen'
    BY <1>5 DEF vars, Inv, RowsInv, PhaseInv, FlowCurrent, NothingOpen, IsResolved
  <2>2. EdgesSound'
    BY <2>1, EdgesKept DEF Inv
  <2> QED
    BY <1>0, <2>1, <2>2 DEF Inv
<1> QED
  BY <1>1, <1>2, <1>3, <1>4, <1>5 DEF Next

(* The invariant holds of every behaviour: what follows for single properties *)
(* is read off it.                                                            *)
THEOREM InvHolds == Spec => []Inv
BY InitSound, InvKept, PTL DEF Spec

(* The resolver's state is as it is declared: confidences between Medium and  *)
(* Certain, every relationship in a final state with candidates that exist,   *)
(* edges between symbols of the database.                                     *)
THEOREM ResolutionTyped == Spec => []TypeOK
<1>1. Inv => TypeOK
  <2> SUFFICES ASSUME Inv PROVE TypeOK
    OBVIOUS
  <2>1. AreRows(d)
    BY RowsAre DEF Inv
  <2>2. \A x \in DOMAIN flow : flow[x].confidence \in Medium .. Certain
    BY <2>1, FlowTyped DEF Inv, FlowCurrent, Typed
  <2>3. ASSUME NEW r \in DOMAIN resolved
        PROVE  /\ resolved[r].state \in State
               /\ resolved[r].targets \subseteq SymbolIds(d)
               /\ resolved[r].score \in {0, 1}
    <3>1. resolved[r] = Resolve(r)
      BY DEF Inv, NothingOpen, OutcomesCurrent
    <3> QED
      BY <2>1, <3>1, ResolveSound DEF OutcomeSound
  <2>4. \A e \in edges : /\ e.file \in File
                         /\ e.tgt \in SymbolIds(d)
                         /\ e.src \subseteq SymbolIds(d)
                         /\ e.confidence \in {0, 1}
    BY DEF Inv, EdgesSound, EdgeSound
  <2> QED
    BY <2>2, <2>3, <2>4 DEF TypeOK, Inv, RowsInv, PhaseInv
<1> QED
  BY <1>1, InvHolds, PTL

(* However often files are reindexed and in whatever order: an edge of full   *)
(* confidence, which the queries admit without looking further, comes from a  *)
(* member access and ends at a symbol that another one encloses, never at a   *)
(* top-level symbol that merely bears the name.                               *)
THEOREM EdgesTyped == Spec => []ConfidentEdgesTyped
<1>1. Inv => ConfidentEdgesTyped
  <2> SUFFICES ASSUME Inv, NEW e \in edges, e.confidence = 1
               PROVE  /\ e.kind \in MemberKinds \union {"instantiates"}
                      /\ ParentName(d, e.tgt) # NoName
    BY DEF ConfidentEdgesTyped
  <2>1. AreRows(d) /\ EdgeSound(e)
    BY RowsAre DEF Inv, EdgesSound
  <2> QED
    BY <2>1, ParentIs DEF EdgeSound
<1> QED
  BY <1>1, InvHolds, PTL

----------------------------------------------------------------------------
(* An annotated variable has the type it is annotated with, whatever else is *)
(* said of a variable of its name.                                           *)

LEMMA ApplyElsewhere ==
    ASSUME NEW v, NEW f, NEW path, NEW type, NEW confidence, NEW key, key # <<f, path>>
    PROVE  /\ key \in DOMAIN ApplyType(v, f, path, type, confidence) <=> key \in DOMAIN v
           /\ key \in DOMAIN v => ApplyType(v, f, path, type, confidence)[key] = v[key]
BY DEF ApplyType

LEMMA ApplyThere ==
    ASSUME NEW v, NEW f, NEW path, NEW type, NEW confidence,
           ~(<<f, path>> \in DOMAIN v /\ v[<<f, path>>].confidence >= confidence)
    PROVE  /\ <<f, path>> \in DOMAIN ApplyType(v, f, path, type, confidence)
           /\ ApplyType(v, f, path, type, confidence)[<<f, path>>] = [type |-> type, confidence |-> confidence]
<1> DEFINE x == <<f, path>>
<1>1. ApplyType(v, f, path, type, confidence) =
        [y \in DOMAIN v \union {x} |->
            IF y = x THEN [type |-> type, confidence |-> confidence] ELSE v[y]]
  BY DEF ApplyType
<1> HIDE DEF x
<1>2. /\ x \in DOMAIN ApplyType(v, f, path, type, confidence)
      /\ ApplyType(v, f, path, type, confidence)[x] = [type |-> type, confidence |-> confidence]
  BY <1>1
<1> QED
  BY <1>2 DEF x

(* The only binding of a name in a file *)
Binds(rows, f, x, kind, t) ==
    \E i \in DOMAIN rows.file[f].bindings :
        /\ rows.file[f].bindings[i] = [kind |-> kind, name |-> x, type |-> t]
        /\ \A j \in DOMAIN rows.file[f].bindings \ {i} : rows.file[f].bindings[j].name # x

LEMMA BoundOnce ==
    ASSUME NEW rows, AreRows(rows), NEW f \in File, NEW x, NEW kind, NEW t, Binds(rows, f, x, kind, t)
    PROVE  /\ [file |-> f, kind |-> kind, name |-> x, type |-> t] \in BindingRows(rows)
           /\ \A b \in BindingRows(rows) :
                 b.file = f /\ b.name = x => b = [file |-> f, kind |-> kind, name |-> x, type |-> t]
<1>1. PICK i \in DOMAIN rows.file[f].bindings :
        /\ rows.file[f].bindings[i] = [kind |-> kind, name |-> x, type |-> t]
        /\ \A j \in DOMAIN rows.file[f].bindings \ {i} : rows.file[f].bindings[j].name # x
  BY DEF Binds
<1>2. <<f, i>> \in Ids(rows, "bindings")
  BY DEF Ids
<1>3. BindingOf(rows, <<f, i>>) = [file |-> f, kind |-> kind, name |-> x, type |-> t]
  BY <1>1 DEF BindingOf
<1>4. ASSUME NEW b \in BindingRows(rows), b.file = f, b.name = x
      PROVE  b = [file |-> f, kind |-> kind, name |-> x, type |-> t]
  <2>1. PICK y \in Ids(rows, "bindings") : b = BindingOf(rows, y)
    BY DEF BindingRows
  <2>2. PICK g \in File : y \in {g} \X DOMAIN rows.file[g].bindings
    BY DEF Ids
  <2>3. y = <<g, y[2]>> /\ y[2] \in DOMAIN rows.file[g].bindings
    BY <2>2
  <2>4. g = f
    BY <1>4, <2>1, <2>3 DEF BindingOf
  <2>5. rows.file[f].bindings[y[2]].name = x
    BY <1>4, <2>1, <2>3, <2>4 DEF BindingOf
  <2>6. y[2] = i
    BY <1>1, <2>3, <2>4, <2>5
  <2> QED
    BY <1>3, <2>1, <2>3, <2>4, <2>6
<1> QED
  BY <1>2, <1>3, <1>4 DEF BindingRows

(* What is known of an annotated variable is its annotation *)
Undisturbed(v, key, t) == key \in DOMAIN v => Fixed(v, {key}, t)

LEMMA AnnotatedStep ==
    ASSUME NEW rows, AreRows(rows), NEW f \in File, NEW x, NEW t, Binds(rows, f, x, "var_type", t),
           NEW v, NEW b \in BindingRows(rows), Undisturbed(v, <<f, <<x>>>>, t)
    PROVE  /\ Undisturbed(BindingStep(rows, v, b), <<f, <<x>>>>, t)
           /\ Fixed(v, {<<f, <<x>>>>}, t) => Fixed(BindingStep(rows, v, b), {<<f, <<x>>>>}, t)
           /\ b = [file |-> f, kind |-> "var_type", name |-> x, type |-> t] =>
                 Fixed(BindingStep(rows, v, b), {<<f, <<x>>>>}, t)
<1> DEFINE key == <<f, <<x>>>>
           w == BindingStep(rows, v, b)
           B == [file |-> f, kind |-> "var_type", name |-> x, type |-> t]
<1>1. b.file = f /\ b.name = x => b = B
  BY BoundOnce
<1>2. CASE b = B
  <2>1. b.kind = "var_type" /\ b.file = f /\ b.name = x /\ b.type = t
    BY <1>2
  <2>2. w = ApplyType(v, f, <<x>>, t, Certain)
    BY <2>1 DEF BindingStep
  <2>3. Fixed(w, {key}, t)
    <3>1. CASE key \in DOMAIN v
      <4>1. v[key].confidence = Certain
        BY <3>1 DEF Undisturbed, Fixed
      <4>2. w = v
        BY <2>2, <3>1, <4>1 DEF ApplyType, Certain
      <4> QED
        BY <3>1, <4>2 DEF Undisturbed
    <3>2. CASE key \notin DOMAIN v
      BY <2>2, <3>2, ApplyThere DEF Fixed
    <3> QED
      BY <3>1, <3>2
  <2> QED
    BY <2>3 DEF Undisturbed
<1>3. CASE b # B
  <2>1. key # <<b.file, <<b.name>>>>
    BY <1>1, <1>3
  <2>2. \/ \E type, confidence : w = ApplyType(v, b.file, <<b.name>>, type, confidence)
        \/ w = v
    BY DEF BindingStep
  <2> HIDE DEF key, w
  <2>3. (key \in DOMAIN w <=> key \in DOMAIN v) /\ (key \in DOMAIN v => w[key] = v[key])
    BY <2>1, <2>2, ApplyElsewhere
  <2> QED
    BY <1>3, <2>3 DEF Undisturbed, Fixed, key, w
<1> QED
  BY <1>2, <1>3

LEMMA AnnotationLoaded ==
    ASSUME NEW rows, AreRows(rows), NEW f \in File, NEW x, NEW t, Binds(rows, f, x, "var_type", t)
    PROVE  Holding(LoadBindings(rows), {<<f, <<x>>>>}, t)
<1> DEFINE s == Bindings(rows)
           n == Len(s)
           key == <<f, <<x>>>>
           B == [file |-> f, kind |-> "var_type", name |-> x, type |-> t]
<1>1. s \in Seq(BindingRows(rows)) /\ n \in Nat /\ (\A i \in 1..n : s[i] \in BindingRows(rows)) /\ Listed(s, B)
  BY BindingsListed, BoundOnce
<1>2. PICK h : BindingFold!IsRun(h, rows, <<>>, s, n) /\ LoadBindings(rows) = h[n]
  BY <1>1, BindingRuns
<1>3. h[0] = <<>> /\ \A i \in 1..n : h[i] = BindingStep(rows, h[i - 1], s[i])
  BY <1>2 DEF BindingFold!IsRun
<1>4. PICK k \in 1..n : s[k] = B
  BY <1>1 DEF Listed
<1> HIDE DEF s, n
<1> DEFINE S == {i \in 0..n : Undisturbed(h[i], key, t) /\ (k <= i => Fixed(h[i], {key}, t))}
<1>5. 0 \in S
  BY <1>1, <1>3, <1>4 DEF Undisturbed
<1>6. ASSUME NEW i \in 1..n, i - 1 \in S PROVE i \in S
  <2>1. /\ Undisturbed(h[i - 1], key, t) /\ (k <= i - 1 => Fixed(h[i - 1], {key}, t))
        /\ s[i] \in BindingRows(rows) /\ h[i] = BindingStep(rows, h[i - 1], s[i]) /\ i \in 0..n
    BY <1>1, <1>3, <1>6
  <2>2. /\ Undisturbed(h[i], key, t)
        /\ Fixed(h[i - 1], {key}, t) => Fixed(h[i], {key}, t)
        /\ s[i] = B => Fixed(h[i], {key}, t)
    BY <2>1, AnnotatedStep
  <2>3. k <= i => k <= i - 1 \/ k = i
    BY <1>1
  <2> HIDE DEF key, B
  <2> QED
    BY <1>4, <2>1, <2>2, <2>3
<1>7. 0..n \subseteq S
  <2> HIDE DEF S
  <2> QED
    BY <1>1, <1>5, <1>6, RowFold!InductionUpTo
<1>8. n \in S /\ k <= n
  <2>1. n \in 0..n /\ k <= n
    BY <1>1
  <2> HIDE DEF S
  <2> QED
    BY <1>7, <2>1
<1>9. Typed(LoadBindings(rows))
  BY NothingHolds, BindingsHold DEF Holding
<1> QED
  BY <1>2, <1>8, <1>9 DEF Holding

LEMMA HeldToTheEnd ==
    ASSUME NEW rows, AreRows(rows), NEW K, NEW t, Holding(LoadBindings(rows), K, t)
    PROVE  Holding(Flow(rows), K, t)
BY ConstructorsHold, ImportsHold, AliasesHold DEF Flow

(* A method call on a variable of known type is decided by that type *)
LEMMA ReceiverDecides ==
    ASSUME AreRows(d), NEW x, NEW r, Relationship(d, r).kind = "method_call",
           Relationship(d, r).receiver = <<x>>, x \notin Builtins, ~IsSelf(x),
           NEW type, type # NoName, TypeOf(flow, r[1], <<x>>) = type
    PROVE  /\ Origin(r, type) \in Outside => Resolve(r).state \in Outside
           /\ Origin(r, type) \notin Outside =>
                 Resolve(r).targets = FindMethodInType(d, Relationship(d, r).name, type)
<1> DEFINE rel == Relationship(d, r)
<1>1. /\ rel.kind = "method_call" /\ rel.receiver = <<x>> /\ rel.receiver # <<>>
      /\ Variable(rel.receiver) = <<x>> /\ Head(rel.receiver) = x
  BY DEF Variable
<1> HIDE DEF rel
<1>2. ClassificationStage(r) = Open
  <2>1. ~(\E b \in Builtins : rel.receiver = <<b>>)
    BY <1>1
  <2>2. rel.kind \notin {"imports", "re_export"}
    BY <1>1
  <2> QED
    BY <2>1, <2>2 DEF ClassificationStage, rel
<1>3. rel.kind \in MemberKinds \union {"instantiates"}
  BY <1>1 DEF MemberKinds
<1>4. MemberResolverStage(r) =
        IF Origin(r, type) \in Outside THEN Outcome(Origin(r, type), {}, 1) ELSE MethodOutcome(rel.name, type)
  BY <1>1, <1>3 DEF MemberResolverStage, rel
<1>5. CASE Origin(r, type) \in Outside
  <2>1. MemberResolverStage(r).state = Origin(r, type)
    BY <1>4, <1>5, OutcomeIs
  <2>2. MemberResolverStage(r) # Open
    BY <1>5, <2>1, OutcomeIs DEF Open, Outside
  <2> QED
    BY <1>2, <1>5, <2>1, <2>2 DEF Resolve, Settled
<1>6. CASE Origin(r, type) \notin Outside
  <2>1. MemberResolverStage(r).targets = FindMethodInType(d, rel.name, type)
        /\ MemberResolverStage(r).state \in {"missing", "repository_symbol"}
    BY <1>4, <1>6, OutcomeIs DEF MethodOutcome
  <2>2. MemberResolverStage(r) # Open
    BY <2>1, OutcomeIs DEF Open
  <2> QED
    BY <1>2, <1>6, <2>1, <2>2 DEF Resolve, Settled, rel
<1> QED
  BY <1>5, <1>6

LEMMA AnnotationDecides ==
    ASSUME Inv, IsResolved, NEW x, NEW type \in Names, NEW r \in MethodCalls(x),
           OnlyBound(r[1], x, "var_type", type)
    PROVE  /\ Origin(r, type) \in Outside => resolved[r].state \in Outside
           /\ Origin(r, type) \notin Outside =>
                 resolved[r].targets = FindMethodInType(d, Relationship(d, r).name, type)
<1>1. AreRows(d)
  BY RowsAre DEF Inv
<1>2. r \in RelationshipIds /\ resolved[r] = Resolve(r)
  BY DEF Inv, OutcomesCurrent, MethodCalls
<1>3. r \in Ids(d, "relationships")
  BY <1>1, <1>2, RelationshipsListed DEF RelationshipIds
<1>4. r[1] \in File
  BY <1>3 DEF Ids
<1>5. Binds(d, r[1], x, "var_type", type)
  BY DEF OnlyBound, Binds
<1>6. Holding(Flow(d), {<<r[1], <<x>>>>}, type)
  BY <1>1, <1>4, <1>5, AnnotationLoaded, HeldToTheEnd
<1>7. TypeOf(flow, r[1], <<x>>) = type
  BY <1>6 DEF Inv, FlowCurrent, IsResolved, Holding, Fixed, TypeOf
<1>8. type # NoName
  BY <1>1, SymbolIs DEF Names
<1> QED
  BY <1>1, <1>2, <1>7, <1>8, ReceiverDecides DEF MethodCalls

(* A method called on an annotated variable resolves against its annotation,  *)
(* whatever constructors, calls, imports, aliases or other files say of a     *)
(* variable of that name, in any order of the rows.                           *)
THEOREM AnnotationsWin == Spec => []AnnotationWins
<1>1. Inv => AnnotationWins
  <2> SUFFICES ASSUME Inv, IsResolved, NEW x \in Variables, NEW type \in Names, NEW r \in MethodCalls(x),
                      OnlyBound(r[1], x, "var_type", type), ~IsImported(d, r[1], type)
               PROVE  resolved[r].targets = FindMethodInType(d, Relationship(d, r).name, type)
    BY DEF AnnotationWins
  <2>1. Origin(r, type) \notin Outside
    BY DEF Origin, Outside
  <2> QED
    BY <2>1, AnnotationDecides
<1> QED
  BY <1>1, InvHolds, PTL

(* A method called on a variable annotated with a type that its file imports  *)
(* from outside is never linked, even to a type of that name inside.          *)
THEOREM OutsideStaysOutside == Spec => []OutsideReceiversUnlinked
<1>1. Inv => OutsideReceiversUnlinked
  <2> SUFFICES ASSUME Inv, IsResolved, NEW x \in Variables, NEW type \in Names, NEW r \in MethodCalls(x),
                      OnlyBound(r[1], x, "var_type", type), IsImported(d, r[1], type),
                      Classify(ImportSource(d, r[1], type), d.file[r[1]].lang) \in Outside
               PROVE  resolved[r].state \in Outside
    BY DEF OutsideReceiversUnlinked
  <2>1. Origin(r, type) \in Outside
    BY DEF Origin
  <2> QED
    BY <2>1, AnnotationDecides
<1> QED
  BY <1>1, InvHolds, PTL

----------------------------------------------------------------------------
(* The passes over the aliases of a file: each but the last types one more   *)

Target(b) == <<b.file, AliasTarget(b)>>
Quiet(rows, v, bs) == \A k \in 1..Len(bs) : ~Applies(rows, v, bs[k])
SameOutside(v, w, f) == \A g, path : g # f => /\ <<g, path>> \in DOMAIN w <=> <<g, path>> \in DOMAIN v
                                              /\ <<g, path>> \in DOMAIN v => w[<<g, path>>] = v[<<g, path>>]

LEMMA AppliesUntyped ==
    ASSUME NEW rows, NEW v, Typed(v), NEW b, Applies(rows, v, b)
    PROVE  Target(b) \notin DOMAIN v
BY DEF Applies, TypeOf, Target, Typed

LEMMA ApplyWidens ==
    ASSUME NEW v, NEW f, NEW path, NEW type, NEW confidence
    PROVE  /\ DOMAIN v \subseteq DOMAIN ApplyType(v, f, path, type, confidence)
           /\ <<f, path>> \in DOMAIN ApplyType(v, f, path, type, confidence)
BY DEF ApplyType

(* What one pass does *)
PassDoes(rows, v, w, bs, f) ==
    /\ DOMAIN v \subseteq DOMAIN w
    /\ \A k \in 1..Len(bs) : Applies(rows, v, bs[k]) => Target(bs[k]) \in DOMAIN w
    /\ Quiet(rows, v, bs) => w = v
    /\ SameOutside(v, w, f)

LEMMA PassIs ==
    ASSUME NEW rows, NEW v, NEW f, NEW X, NEW bs \in Seq(X), \A k \in 1..Len(bs) : bs[k].file = f
    PROVE  PassDoes(rows, v, AliasPass(rows, v, bs), bs, f)
<1> DEFINE n == Len(bs)
           c == <<rows, v>>
<1>1. n \in Nat /\ bs \in Seq(X)
  OBVIOUS
<1>2. PICK h : AliasFold!IsRun(h, c, v, bs, n) /\ AliasPass(rows, v, bs) = h[n]
  BY <1>1, AliasRuns
<1>3. h[0] = v /\ \A i \in 1..n : h[i] = AliasStep(c, h[i - 1], bs[i])
  BY <1>2 DEF AliasFold!IsRun
<1>4. \A i \in 1..n : h[i] = IF Applies(rows, v, bs[i])
                             THEN ApplyType(h[i - 1], f, AliasTarget(bs[i]), AliasType(rows, v, bs[i]), Medium)
                             ELSE h[i - 1]
  BY <1>3 DEF AliasStep
<1> DEFINE Typing(i) == \A k \in 1..i : Applies(rows, v, bs[k]) => Target(bs[k]) \in DOMAIN h[i]
           S == {i \in 0..n : /\ DOMAIN v \subseteq DOMAIN h[i] /\ Typing(i)
                              /\ Quiet(rows, v, bs) => h[i] = v
                              /\ SameOutside(v, h[i], f)}
<1>5. 0 \in S
  BY <1>1, <1>3 DEF SameOutside
<1>6. ASSUME NEW i \in 1..n, i - 1 \in S PROVE i \in S
  <2> DEFINE u == h[i - 1]
  <2>1. /\ DOMAIN v \subseteq DOMAIN u /\ Typing(i - 1)
        /\ Quiet(rows, v, bs) => u = v
        /\ SameOutside(v, u, f)
        /\ i \in 0..n
    BY <1>1, <1>6
  <2>2. CASE ~Applies(rows, v, bs[i])
    <3>1. h[i] = u
      BY <1>4, <2>2
    <3>2. Typing(i)
      <4> SUFFICES ASSUME NEW k \in 1..i, Applies(rows, v, bs[k]) PROVE Target(bs[k]) \in DOMAIN h[i]
        OBVIOUS
      <4>1. k \in 1..(i - 1)
        BY <1>1, <2>2
      <4> QED
        BY <2>1, <3>1, <4>1
    <3> QED
      BY <2>1, <3>1, <3>2
  <2>3. CASE Applies(rows, v, bs[i])
    <3>1. h[i] = ApplyType(u, f, AliasTarget(bs[i]), AliasType(rows, v, bs[i]), Medium)
      BY <1>4, <2>3
    <3> HIDE DEF u
    <3>2. DOMAIN u \subseteq DOMAIN h[i] /\ Target(bs[i]) \in DOMAIN h[i]
      BY <3>1, ApplyWidens DEF Target
    <3>3. Typing(i)
      <4> SUFFICES ASSUME NEW k \in 1..i, Applies(rows, v, bs[k]) PROVE Target(bs[k]) \in DOMAIN h[i]
        OBVIOUS
      <4>1. CASE k \in 1..(i - 1)
        BY <2>1, <3>2, <4>1 DEF u
      <4>2. CASE k \notin 1..(i - 1)
        <5>1. k = i
          BY <1>1, <4>2
        <5> QED
          BY <3>2, <5>1
      <4> QED
        BY <4>1, <4>2
    <3>4. ~Quiet(rows, v, bs)
      BY <2>3 DEF Quiet
    <3>5. \A g, path : g # f => /\ <<g, path>> \in DOMAIN h[i] <=> <<g, path>> \in DOMAIN u
                                /\ <<g, path>> \in DOMAIN u => h[i][<<g, path>>] = u[<<g, path>>]
      <4> TAKE g, path
      <4> HAVE g # f
      <4>1. <<g, path>> # <<f, AliasTarget(bs[i])>>
        OBVIOUS
      <4> QED
        BY <3>1, <4>1, ApplyElsewhere
    <3>6. SameOutside(v, h[i], f)
      BY <2>1, <3>5 DEF SameOutside
    <3> QED
      BY <2>1, <3>2, <3>3, <3>4, <3>6
  <2> QED
    BY <2>2, <2>3
<1>7. 0..n \subseteq S
  <2> HIDE DEF S, n
  <2> QED
    BY <1>1, <1>5, <1>6, RowFold!InductionUpTo
<1>8. n \in S
  <2>1. n \in 0..n
    BY <1>1
  <2> HIDE DEF S
  <2> QED
    BY <1>7, <2>1
<1> QED
  BY <1>2, <1>8 DEF PassDoes

LEMMA PassesSettle ==
    ASSUME NEW rows, NEW v, Typed(v), NEW f, NEW X, NEW bs \in Seq(X), \A k \in 1..Len(bs) : bs[k].file = f
    PROVE  Quiet(rows, PassesOf(rows, v, bs), bs) /\ SameOutside(v, PassesOf(rows, v, bs), f)
<1> DEFINE n == Len(bs)
           c == <<rows, bs>>
           first == AliasPass(rows, v, bs)
<1>1. n \in Nat /\ bs \in Seq(X)
  OBVIOUS
<1>2. PICK h : PassFold!IsRun(h, c, first, bs, n) /\ PassesOf(rows, v, bs) = h[n]
  BY <1>1, PassRuns
<1>3. h[0] = first /\ \A i \in 1..n : h[i] = AliasPass(rows, h[i - 1], bs)
  BY <1>2 DEF PassFold!IsRun, PassStep
<1>4. ASSUME NEW u PROVE PassDoes(rows, u, AliasPass(rows, u, bs), bs, f) /\ (Typed(u) => Typed(AliasPass(rows, u, bs)))
  <2>1. PassDoes(rows, u, AliasPass(rows, u, bs), bs, f)
    BY PassIs
  <2>2. ASSUME Typed(u) PROVE Typed(AliasPass(rows, u, bs))
    <3>1. Holding(u, {}, NoName)
      BY <2>2 DEF Holding, Fixed
    <3> QED
      BY <3>1, AliasPassHolds DEF Holding
  <2> QED
    BY <2>1, <2>2
<1> DEFINE Untyped(u) == {k \in 1..n : Target(bs[k]) \notin DOMAIN u}
<1>5. ASSUME NEW u PROVE IsFiniteSet(Untyped(u)) /\ Cardinality(Untyped(u)) \in Nat /\ Cardinality(Untyped(u)) <= n
  <2>1. IsFiniteSet(1..n) /\ Cardinality(1..n) = n
    <3> HIDE DEF n
    <3> QED
      BY <1>1, FS_Interval
  <2>2. Untyped(u) \in SUBSET (1..n)
    OBVIOUS
  <2> HIDE DEF Untyped, n
  <2> QED
    BY <2>1, <2>2, FS_Subset, FS_CardinalityType
<1>6. ASSUME NEW u, Typed(u), Untyped(u) = {} PROVE Quiet(rows, u, bs)
  BY <1>6, AppliesUntyped DEF Quiet
<1>7. ASSUME NEW u, NEW w, Typed(u), PassDoes(rows, u, w, bs, f), ~Quiet(rows, u, bs)
      PROVE  Cardinality(Untyped(w)) < Cardinality(Untyped(u))
  <2>1. PICK k \in 1..n : Applies(rows, u, bs[k])
    BY <1>7 DEF Quiet
  <2>2. k \in Untyped(u) /\ k \notin Untyped(w)
    BY <1>7, <2>1, AppliesUntyped DEF PassDoes
  <2>3. Untyped(w) \in SUBSET Untyped(u)
    BY <1>7 DEF PassDoes
  <2> HIDE DEF Untyped
  <2>4. Untyped(w) # Untyped(u)
    BY <2>2
  <2>5. /\ IsFiniteSet(Untyped(u)) /\ Cardinality(Untyped(u)) \in Nat /\ Cardinality(Untyped(w)) \in Nat
    BY <1>5
  <2> QED
    BY <2>3, <2>4, <2>5, FS_Subset
<1> HIDE DEF n, first, Untyped
<1> DEFINE S == {i \in 0..n : /\ Typed(h[i]) /\ SameOutside(v, h[i], f)
                              /\ Quiet(rows, h[i], bs) \/ Cardinality(Untyped(h[i])) <= n - i}
<1>8. 0 \in S
  <2>1. Typed(h[0]) /\ SameOutside(v, h[0], f)
    BY <1>3, <1>4 DEF first, PassDoes
  <2>2. Cardinality(Untyped(h[0])) <= n - 0 /\ 0 \in 0..n
    BY <1>1, <1>5
  <2> QED
    BY <2>1, <2>2
<1>9. ASSUME NEW i \in 1..n, i - 1 \in S PROVE i \in S
  <2> DEFINE u == h[i - 1]
             w == h[i]
  <2>1. /\ Typed(u) /\ SameOutside(v, u, f) /\ i \in 0..n
        /\ Quiet(rows, u, bs) \/ Cardinality(Untyped(u)) <= n - (i - 1)
    BY <1>1, <1>9
  <2>2. PassDoes(rows, u, w, bs, f) /\ Typed(w)
    BY <1>3, <1>4, <2>1
  <2> HIDE DEF u, w
  <2>3. SameOutside(v, w, f)
    BY <2>1, <2>2 DEF SameOutside, PassDoes
  <2>4. CASE Quiet(rows, u, bs)
    <3>1. w = u
      BY <2>2, <2>4 DEF PassDoes
    <3> QED
      BY <2>1, <2>2, <2>3, <2>4, <3>1 DEF w
  <2>5. CASE ~Quiet(rows, u, bs)
    <3>1. Cardinality(Untyped(w)) < Cardinality(Untyped(u))
      BY <1>7, <2>1, <2>2, <2>5
    <3>2. Cardinality(Untyped(w)) \in Nat /\ Cardinality(Untyped(u)) \in Nat
      BY <1>5
    <3>3. Cardinality(Untyped(w)) <= n - i
      BY <1>1, <2>1, <2>5, <3>1, <3>2
    <3> QED
      BY <2>1, <2>2, <2>3, <3>3 DEF w
  <2> QED
    BY <2>4, <2>5
<1>10. 0..n \subseteq S
  <2> HIDE DEF S
  <2> QED
    BY <1>1, <1>8, <1>9, RowFold!InductionUpTo
<1>11. n \in S
  <2>1. n \in 0..n
    BY <1>1
  <2> HIDE DEF S
  <2> QED
    BY <1>10, <2>1
<1>12. Quiet(rows, h[n], bs)
  <2>1. CASE ~Quiet(rows, h[n], bs)
    <3>1. Typed(h[n]) /\ Cardinality(Untyped(h[n])) <= n - n
      BY <1>11, <2>1
    <3>2. IsFiniteSet(Untyped(h[n])) /\ Cardinality(Untyped(h[n])) = 0
      BY <1>1, <1>5, <3>1
    <3>3. Untyped(h[n]) = {}
      BY <3>2, FS_EmptySet
    <3> QED
      BY <1>6, <3>1, <3>3
  <2> QED
    BY <2>1
<1> QED
  BY <1>2, <1>11, <1>12

LEMMA AppliesLocally ==
    ASSUME NEW rows, NEW v, NEW w, NEW f, SameOutside(v, w, f), NEW b, b.file # f, b.kind \in AliasKinds,
           ~Applies(rows, v, b)
    PROVE  ~Applies(rows, w, b)
<1>1. \A path : TypeOf(w, b.file, path) = TypeOf(v, b.file, path)
  BY DEF SameOutside, TypeOf
<1> HIDE DEF SameOutside
<1>2. AliasType(rows, w, b) = AliasType(rows, v, b)
  BY <1>1 DEF AliasType, AliasKinds
<1> QED
  BY <1>1, <1>2 DEF Applies

LEMMA AliasesSettled ==
    ASSUME NEW rows, AreRows(rows), NEW v, Typed(v)
    PROVE  \A b \in BindingRows(rows) : b.file \in File /\ b.kind \in AliasKinds
              => ~Applies(rows, ResolveAliases(rows, v), b)
<1> DEFINE s == rows.order
           n == Len(s)
<1>1. s \in Seq(File) /\ n \in Nat /\ (\A i \in 1..n : s[i] \in File) /\ \A f \in File : Listed(s, f)
  BY DEF AreRows
<1>2. PICK h : FileFold!IsRun(h, rows, v, s, n) /\ ResolveAliases(rows, v) = h[n]
  BY <1>1, FileRuns
<1>3. h[0] = v /\ \A i \in 1..n : h[i] = PassesOf(rows, h[i - 1], AliasBindings(rows, s[i]))
  BY <1>2, FileStepIs DEF FileFold!IsRun
<1> HIDE DEF s, n
<1> DEFINE ClosedFor(i, f) == \A b \in BindingRows(rows) :
                                b.file = f /\ b.kind \in AliasKinds => ~Applies(rows, h[i], b)
           S == {i \in 0..n : Typed(h[i]) /\ \A j \in 1..i : ClosedFor(i, s[j])}
<1>4. 0 \in S
  <2>1. Typed(h[0]) /\ 0 \in 0..n /\ 1..0 = {}
    BY <1>1, <1>3
  <2> HIDE DEF ClosedFor
  <2> QED
    BY <2>1
<1>5. ASSUME NEW i \in 1..n, i - 1 \in S PROVE i \in S
  <2> DEFINE bs == AliasBindings(rows, s[i])
             u == h[i - 1]
             w == h[i]
  <2>1. Typed(u) /\ (\A j \in 1..(i - 1) : ClosedFor(i - 1, s[j])) /\ i \in 0..n
    BY <1>1, <1>5
  <2>2. /\ bs \in Seq(BindingRows(rows))
        /\ \A b : Listed(bs, b) <=> b \in BindingRows(rows) /\ b.file = s[i] /\ b.kind \in AliasKinds
    BY AliasBindingsAre
  <2>3. \A k \in 1..Len(bs) : bs[k].file = s[i]
    <3> TAKE k \in 1..Len(bs)
    <3>1. Listed(bs, bs[k])
      BY DEF Listed
    <3> QED
      BY <2>2, <3>1
  <2>4. w = PassesOf(rows, u, bs)
    BY <1>3
  <2> HIDE DEF bs
  <2>5. Quiet(rows, w, bs) /\ SameOutside(u, w, s[i])
    BY <2>1, <2>2, <2>3, <2>4, PassesSettle
  <2>6. Typed(w)
    <3>1. Holding(u, {}, NoName)
      BY <2>1 DEF Holding, Fixed
    <3> QED
      BY <2>2, <2>4, <3>1, PassesHold DEF Holding
  <2>7. ASSUME NEW j \in 1..i, NEW b \in BindingRows(rows), b.file = s[j], b.kind \in AliasKinds
        PROVE  ~Applies(rows, w, b)
    <3>1. CASE s[j] = s[i]
      <4>1. Listed(bs, b)
        BY <2>2, <2>7, <3>1
      <4> QED
        BY <2>5, <4>1 DEF Listed, Quiet
    <3>2. CASE s[j] # s[i]
      <4>1. j \in 1..(i - 1)
        BY <1>1, <3>2
      <4>2. ~Applies(rows, u, b)
        BY <2>1, <2>7, <4>1
      <4> HIDE DEF u, w
      <4> QED
        BY <2>5, <2>7, <3>2, <4>2, AppliesLocally
    <3> QED
      BY <3>1, <3>2
  <2> QED
    BY <2>1, <2>6, <2>7
<1>6. 0..n \subseteq S
  <2> HIDE DEF S
  <2> QED
    BY <1>1, <1>4, <1>5, RowFold!InductionUpTo
<1>7. n \in S
  <2>1. n \in 0..n
    BY <1>1
  <2> HIDE DEF S
  <2> QED
    BY <1>6, <2>1
<1>8. ASSUME NEW b \in BindingRows(rows), b.file \in File, b.kind \in AliasKinds
      PROVE  ~Applies(rows, h[n], b)
  <2>1. PICK j \in 1..n : s[j] = b.file
    BY <1>1, <1>8 DEF Listed, n
  <2> QED
    BY <1>7, <1>8, <2>1
<1> QED
  BY <1>2, <1>8

(* However many bindings stand for one another and in whatever order, the     *)
(* passes that resolve_aliases allows a file are enough: once the engine is   *)
(* built no alias, destructured name or literal's field is left without the   *)
(* type that what it stands for has.                                          *)
THEOREM AliasesClose == Spec => []AliasesClosed
<1>1. Inv => AliasesClosed
  <2> SUFFICES ASSUME Inv, phase # "indexed", NEW k \in DOMAIN Bindings(d),
                      Bindings(d)[k].kind \in AliasKinds
               PROVE  ~Applies(d, flow, Bindings(d)[k])
    BY DEF AliasesClosed
  <2> DEFINE b == Bindings(d)[k]
             v == LoadImports(d, LoadConstructors(d, LoadBindings(d)))
  <2>1. AreRows(d)
    BY RowsAre DEF Inv
  <2>2. Typed(v)
    BY <2>1, NothingHolds, BindingsHold, ConstructorsHold, ImportsHold DEF Holding
  <2>3. b \in BindingRows(d)
    BY <2>1, BindingsListed
  <2>4. b.file \in File
    BY <2>3 DEF BindingRows, BindingOf, Ids
  <2>5. flow = ResolveAliases(d, v)
    BY DEF Inv, FlowCurrent, Flow
  <2> HIDE DEF b, v
  <2>6. b.kind \in AliasKinds
    BY DEF b
  <2>7. ~Applies(d, flow, b)
    BY <2>1, <2>2, <2>3, <2>4, <2>5, <2>6, AliasesSettled
  <2> QED
    BY <2>7 DEF b
<1> QED
  BY <1>1, InvHolds, PTL

----------------------------------------------------------------------------
(* An imported instance has the type its defining file constructs it from    *)

(* The type of a variable is t with confidence c, or known with less *)
Settles(v, key, t, c) == key \in DOMAIN v /\ v[key] = [type |-> t, confidence |-> c]
AtMost(v, key, t, c) == key \in DOMAIN v => v[key].confidence < c \/ Settles(v, key, t, c)

LEMMA ApplyAtMost ==
    ASSUME NEW v, Typed(v), NEW f, NEW path, NEW type, NEW confidence \in Medium .. Certain,
           NEW key, NEW t, NEW c \in Medium .. Certain, AtMost(v, key, t, c),
           key = <<f, path>> => confidence < c \/ (confidence = c /\ type = t)
    PROVE  LET w == ApplyType(v, f, path, type, confidence)
           IN  /\ AtMost(w, key, t, c)
               /\ Settles(v, key, t, c) => Settles(w, key, t, c)
               /\ key = <<f, path>> /\ confidence = c => Settles(w, key, t, c)
<1> DEFINE w == ApplyType(v, f, path, type, confidence)
<1>1. key \in DOMAIN v => v[key].confidence \in Medium .. Certain
  BY DEF Typed
<1>2. CASE key # <<f, path>>
  <2>1. (key \in DOMAIN w <=> key \in DOMAIN v) /\ (key \in DOMAIN v => w[key] = v[key])
    BY <1>2, ApplyElsewhere
  <2> HIDE DEF w
  <2>2. AtMost(w, key, t, c) /\ (Settles(v, key, t, c) => Settles(w, key, t, c))
    BY <2>1 DEF AtMost, Settles
  <2> QED
    BY <1>2, <2>2 DEF w
<1>3. CASE key = <<f, path>> /\ key \in DOMAIN v /\ v[key].confidence >= confidence
  <2>1. w = v
    BY <1>3 DEF ApplyType
  <2>2. confidence = c => Settles(v, key, t, c)
    BY <1>1, <1>3 DEF AtMost, Medium, Certain
  <2> QED
    BY <2>1, <2>2
<1>4. CASE key = <<f, path>> /\ ~(key \in DOMAIN v /\ v[key].confidence >= confidence)
  <2>1. key \in DOMAIN w /\ w[key] = [type |-> type, confidence |-> confidence]
    BY <1>4, ApplyThere
  <2> HIDE DEF w
  <2>2. confidence < c \/ (confidence = c /\ type = t)
    BY <1>4
  <2>3. AtMost(w, key, t, c) /\ (confidence = c => Settles(w, key, t, c))
    BY <2>1, <2>2 DEF AtMost, Settles, Medium, Certain
  <2>4. Settles(v, key, t, c) => confidence = c
    <3>1. ASSUME Settles(v, key, t, c) PROVE v[key].confidence = c /\ key \in DOMAIN v
      BY <3>1 DEF Settles
    <3> QED
      BY <1>4, <2>2, <3>1 DEF Medium, Certain
  <2> QED
    BY <2>3, <2>4 DEF w
<1> QED
  BY <1>2, <1>3, <1>4

(* A variable no binding of its file names has no type by the bindings *)
Unnamed(rows, f, x) == \A i \in DOMAIN rows.file[f].bindings : rows.file[f].bindings[i].name # x

LEMMA UnnamedUntyped ==
    ASSUME NEW rows, AreRows(rows), NEW f \in File, NEW x, Unnamed(rows, f, x)
    PROVE  <<f, <<x>>>> \notin DOMAIN LoadBindings(rows)
<1> DEFINE s == Bindings(rows)
           n == Len(s)
           key == <<f, <<x>>>>
<1>1. s \in Seq(BindingRows(rows)) /\ n \in Nat /\ \A i \in 1..n : s[i] \in BindingRows(rows)
  BY BindingsListed
<1>2. PICK h : BindingFold!IsRun(h, rows, <<>>, s, n) /\ LoadBindings(rows) = h[n]
  BY <1>1, BindingRuns
<1>3. h[0] = <<>> /\ \A i \in 1..n : h[i] = BindingStep(rows, h[i - 1], s[i])
  BY <1>2 DEF BindingFold!IsRun
<1>4. ASSUME NEW b \in BindingRows(rows) PROVE key # <<b.file, <<b.name>>>>
  <2>1. PICK y \in Ids(rows, "bindings") : b = BindingOf(rows, y)
    BY DEF BindingRows
  <2>2. PICK g \in File : y \in {g} \X DOMAIN rows.file[g].bindings
    BY DEF Ids
  <2>3. y[1] = g /\ y[2] \in DOMAIN rows.file[g].bindings
    BY <2>2
  <2>4. b.file = g /\ b.name = rows.file[g].bindings[y[2]].name
    BY <2>1, <2>3 DEF BindingOf
  <2> QED
    BY <2>3, <2>4 DEF Unnamed
<1> HIDE DEF s, n, key
<1> DEFINE S == {i \in 0..n : key \notin DOMAIN h[i]}
<1>5. 0 \in S
  BY <1>1, <1>3
<1>6. ASSUME NEW i \in 1..n, i - 1 \in S PROVE i \in S
  <2> DEFINE b == s[i]
             u == h[i - 1]
             w == h[i]
  <2>1. key \notin DOMAIN u /\ b \in BindingRows(rows) /\ i \in 0..n /\ w = BindingStep(rows, u, b)
    BY <1>1, <1>3, <1>6
  <2>2. key # <<b.file, <<b.name>>>>
    BY <1>4, <2>1
  <2> HIDE DEF b, u, w
  <2>3. \/ \E type, confidence : w = ApplyType(u, b.file, <<b.name>>, type, confidence)
        \/ w = u
    BY <2>1 DEF BindingStep
  <2>4. key \notin DOMAIN w
    BY <2>1, <2>2, <2>3, ApplyElsewhere
  <2> QED
    BY <2>1, <2>4 DEF w
<1>7. 0..n \subseteq S
  <2> HIDE DEF S
  <2> QED
    BY <1>1, <1>5, <1>6, RowFold!InductionUpTo
<1>8. n \in S
  <2>1. n \in 0..n
    BY <1>1
  <2> HIDE DEF S
  <2> QED
    BY <1>7, <2>1
<1> QED
  BY <1>2, <1>8 DEF key

(* Whether row r constructs variable key, and all that do construct a t *)
ConstructsAt(rows, r, key) ==
    /\ Relationship(rows, r).kind \in {"new_call", "instantiates"}
    /\ Relationship(rows, r).receiver # <<>>
    /\ key = <<r[1], Relationship(rows, r).receiver>>
OnlyConstructs(rows, key, t) ==
    \A r \in Ids(rows, "relationships") : ConstructsAt(rows, r, key) => Relationship(rows, r).name = t

LEMMA ConstructorStepAtMost ==
    ASSUME NEW rows, AreRows(rows), NEW v, Typed(v), NEW r \in Ids(rows, "relationships"),
           NEW key, NEW t, NEW c \in {High, Certain}, c = High => OnlyConstructs(rows, key, t),
           AtMost(v, key, t, c)
    PROVE  LET w == ConstructorStep(rows, v, r)
           IN  /\ AtMost(w, key, t, c)
               /\ Settles(v, key, t, c) => Settles(w, key, t, c)
               /\ c = High /\ ConstructsAt(rows, r, key) => Settles(w, key, t, c)
<1> DEFINE rel == Relationship(rows, r)
           w == ConstructorStep(rows, v, r)
<1>0. Medium < c /\ High <= c /\ (High = c \/ High < c) /\ c \in Medium .. Certain /\ Medium # High /\ High # Certain
  BY DEF Medium, High, Certain
<1>1. CASE rel.receiver = <<>>
  <2>1. w = v /\ ~ConstructsAt(rows, r, key)
    BY <1>1 DEF ConstructorStep, ConstructsAt
  <2> HIDE DEF w
  <2> QED
    BY <2>1 DEF w
<1>2. CASE rel.receiver # <<>> /\ rel.kind \in {"new_call", "instantiates"}
  <2>1. w = ApplyType(v, r[1], rel.receiver, rel.name, High)
    BY <1>2 DEF ConstructorStep
  <2>2. key = <<r[1], rel.receiver>> <=> ConstructsAt(rows, r, key)
    BY <1>2 DEF ConstructsAt
  <2>3. key = <<r[1], rel.receiver>> => High < c \/ (High = c /\ rel.name = t)
    BY <1>0, <2>2 DEF OnlyConstructs
  <2> HIDE DEF w, rel
  <2> QED
    BY <1>0, <2>1, <2>2, <2>3, ApplyAtMost, ConfidencesAre DEF w
<1>3. CASE rel.receiver # <<>> /\ rel.kind \notin {"new_call", "instantiates"}
  <2>1. (\E type : w = ApplyType(v, r[1], rel.receiver, type, Medium)) \/ w = v
    BY <1>3 DEF ConstructorStep
  <2>2. ~ConstructsAt(rows, r, key)
    BY <1>3 DEF ConstructsAt
  <2> HIDE DEF w, rel
  <2>3. CASE w = v
    BY <2>2, <2>3 DEF w
  <2>4. CASE \E type : w = ApplyType(v, r[1], rel.receiver, type, Medium)
    <3>1. PICK type : w = ApplyType(v, r[1], rel.receiver, type, Medium)
      BY <2>4
    <3>2. AtMost(w, key, t, c) /\ (Settles(v, key, t, c) => Settles(w, key, t, c))
      BY <1>0, <3>1, ApplyAtMost, ConfidencesAre
    <3> QED
      BY <2>2, <3>2 DEF w
  <2> QED
    BY <2>1, <2>3, <2>4
<1> QED
  BY <1>1, <1>2, <1>3

LEMMA ConstructorsAtMost ==
    ASSUME NEW rows, AreRows(rows), NEW v, Typed(v),
           NEW key, NEW t, NEW c \in {High, Certain}, c = High => OnlyConstructs(rows, key, t),
           AtMost(v, key, t, c)
    PROVE  LET w == LoadConstructors(rows, v)
           IN  /\ AtMost(w, key, t, c)
               /\ c = High /\ (\E r \in Ids(rows, "relationships") : ConstructsAt(rows, r, key))
                     => Settles(w, key, t, c)
<1> DEFINE s == Relationships(rows)
           n == Len(s)
           Row == Ids(rows, "relationships")
<1>1. s \in Seq(Row) /\ n \in Nat /\ (\A i \in 1..n : s[i] \in Row) /\ \A r \in Row : Listed(s, r)
  BY RelationshipsListed
<1>2. PICK h : ConstructorFold!IsRun(h, rows, v, s, n) /\ LoadConstructors(rows, v) = h[n]
  BY <1>1, ConstructorRuns
<1>3. h[0] = v /\ \A i \in 1..n : h[i] = ConstructorStep(rows, h[i - 1], s[i])
  BY <1>2 DEF ConstructorFold!IsRun
<1> DEFINE Seen(i) == c = High /\ \E j \in 1..i : ConstructsAt(rows, s[j], key)
<1> HIDE DEF s
<1> DEFINE S == {i \in 0..n : Typed(h[i]) /\ AtMost(h[i], key, t, c) /\ (Seen(i) => Settles(h[i], key, t, c))}
<1>4. 0 \in S
  BY <1>1, <1>3
<1>5. ASSUME NEW i \in 1..n, i - 1 \in S PROVE i \in S
  <2> DEFINE u == h[i - 1]
             w == h[i]
  <2>1. /\ Typed(u) /\ AtMost(u, key, t, c) /\ (Seen(i - 1) => Settles(u, key, t, c))
        /\ i \in 0..n /\ s[i] \in Row /\ w = ConstructorStep(rows, u, s[i])
    BY <1>1, <1>3, <1>5
  <2> HIDE DEF u, w, Row
  <2>2. Typed(w)
    <3>1. Holding(u, {}, NoName)
      BY <2>1 DEF Holding, Fixed
    <3> QED
      BY <2>1, <3>1, ConstructorStepHolds DEF Holding, Row
  <2>3. /\ AtMost(w, key, t, c)
        /\ Settles(u, key, t, c) => Settles(w, key, t, c)
        /\ c = High /\ ConstructsAt(rows, s[i], key) => Settles(w, key, t, c)
    BY <2>1, ConstructorStepAtMost DEF Row
  <2>4. Seen(i) => Seen(i - 1) \/ (c = High /\ ConstructsAt(rows, s[i], key))
    <3>1. \A j \in 1..i : j \in 1..(i - 1) \/ j = i
      BY <1>1
    <3> QED
      BY <3>1
  <2> HIDE DEF Seen
  <2> QED
    BY <2>1, <2>2, <2>3, <2>4 DEF w
<1>6. 0..n \subseteq S
  <2> HIDE DEF S, n
  <2> QED
    BY <1>1, <1>4, <1>5, RowFold!InductionUpTo
<1>7. n \in S
  <2>1. n \in 0..n
    BY <1>1
  <2> HIDE DEF S
  <2> QED
    BY <1>6, <2>1
<1>8. ASSUME c = High, NEW r \in Row, ConstructsAt(rows, r, key) PROVE Seen(n)
  <2>1. PICK j \in 1..n : s[j] = r
    BY <1>1 DEF Listed
  <2> QED
    BY <1>8, <2>1
<1> HIDE DEF Seen
<1> QED
  BY <1>2, <1>7, <1>8

(* Imports leave alone what its file does not import *)
LEMMA ImportStepElsewhere ==
    ASSUME NEW rows, AreRows(rows), NEW v, NEW r \in Ids(rows, "relationships"), NEW f, NEW x,
           ~IsImported(rows, f, x)
    PROVE  /\ <<f, <<x>>>> \in DOMAIN ImportStep(rows, v, r) <=> <<f, <<x>>>> \in DOMAIN v
           /\ <<f, <<x>>>> \in DOMAIN v => ImportStep(rows, v, r)[<<f, <<x>>>>] = v[<<f, <<x>>>>]
<1> DEFINE rel == Relationship(rows, r)
           key == <<f, <<x>>>>
           w == ImportStep(rows, v, r)
<1>1. CASE rel.kind = "imports"
  <2>1. w = ApplyType(v, r[1], <<rel.name>>, ImportedType(rows, v, r[1], rel.name), Certain)
    BY <1>1 DEF ImportStep
  <2>2. PICK g \in File : r \in {g} \X DOMAIN rows.file[g].relationships
    BY DEF Ids
  <2>3. r[1] = g /\ r[2] \in DOMAIN rows.file[g].relationships
    BY <2>2
  <2>4. ~(r[1] = f /\ rel.name = x)
    BY <1>1, <2>3 DEF IsImported, ImportRows, Relationship
  <2>5. key # <<r[1], <<rel.name>>>>
    BY <2>4
  <2> HIDE DEF key, w, rel
  <2>6. (key \in DOMAIN w <=> key \in DOMAIN v) /\ (key \in DOMAIN v => w[key] = v[key])
    BY <2>1, <2>5, ApplyElsewhere
  <2> QED
    BY <2>6 DEF key, w
<1>2. CASE rel.kind # "imports"
  <2>1. w = v
    BY <1>2 DEF ImportStep
  <2> QED
    BY <2>1
<1> QED
  BY <1>1, <1>2

(* Row r imports x into f *)
ImportsAt(rows, r, f, x) ==
    r[1] = f /\ Relationship(rows, r).kind = "imports" /\ Relationship(rows, r).name = x

LEMMA ImportsFollow ==
    ASSUME NEW rows, AreRows(rows), NEW s \in SymbolIds(rows), NEW x, Symbol(rows, s).kind # "type",
           NEW f, ~IsImported(rows, s[1], x), IsImported(rows, f, x), f \in File,
           ImportedSymbols(rows, f, x) = {s},
           NEW t, t # NoName, NEW v, Typed(v), TypeOf(v, s[1], <<x>>) = t,
           AtMost(v, <<f, <<x>>>>, t, Certain)
    PROVE  Holding(LoadImports(rows, v), {<<f, <<x>>>>}, t)
<1> DEFINE q == Relationships(rows)
           n == Len(q)
           Row == Ids(rows, "relationships")
           key == <<f, <<x>>>>
           home == <<s[1], <<x>>>>
<1>1. q \in Seq(Row) /\ n \in Nat /\ (\A i \in 1..n : q[i] \in Row) /\ \A r \in Row : Listed(q, r)
  BY RelationshipsListed
<1>2. PICK h : ImportFold!IsRun(h, rows, v, q, n) /\ LoadImports(rows, v) = h[n]
  BY <1>1, ImportRuns
<1>3. h[0] = v /\ \A i \in 1..n : h[i] = ImportStep(rows, h[i - 1], q[i])
  BY <1>2 DEF ImportFold!IsRun
<1>4. PICK row \in Row : ImportsAt(rows, row, f, x)
  <2>1. PICK i \in DOMAIN rows.file[f].relationships :
          rows.file[f].relationships[i].kind = "imports" /\ rows.file[f].relationships[i].name = x
    BY DEF IsImported, ImportRows
  <2>2. <<f, i>> \in Row /\ ImportsAt(rows, <<f, i>>, f, x)
    BY <2>1 DEF Ids, ImportsAt, Relationship
  <2> QED
    BY <2>2
<1>5. PICK k \in 1..n : q[k] = row
  BY <1>1 DEF Listed
<1>6. First(rows, {s}) = s
  BY FirstIsMember
<1> HIDE DEF q, n, Row, key, home
<1> DEFINE S == {i \in 0..n : /\ Typed(h[i]) /\ home \in DOMAIN h[i] /\ h[i][home].type = t
                              /\ AtMost(h[i], key, t, Certain)
                              /\ k <= i => Settles(h[i], key, t, Certain)}
<1>7. 0 \in S
  <2>1. home \in DOMAIN v /\ v[home].type = t
    BY DEF TypeOf, home
  <2> QED
    BY <1>1, <1>3, <2>1 DEF key
<1>8. ASSUME NEW i \in 1..n, i - 1 \in S PROVE i \in S
  <2> DEFINE u == h[i - 1]
             w == h[i]
             r == q[i]
             rel == Relationship(rows, r)
  <2>1. /\ Typed(u) /\ home \in DOMAIN u /\ u[home].type = t /\ AtMost(u, key, t, Certain)
        /\ k <= i - 1 => Settles(u, key, t, Certain)
        /\ i \in 0..n /\ r \in Row /\ w = ImportStep(rows, u, r)
    BY <1>1, <1>3, <1>8
  <2> HIDE DEF u, w, r
  <2>2. Typed(w)
    <3>1. Holding(u, {}, NoName)
      BY <2>1 DEF Holding, Fixed
    <3> QED
      BY <2>1, <3>1, ImportStepHolds DEF Holding, Row
  <2>3. home \in DOMAIN w /\ w[home].type = t
    BY <2>1, ImportStepElsewhere DEF home, Row
  <2>4. ImportedType(rows, u, f, x) = t
    <3>1. TypeOf(u, s[1], <<x>>) = t
      BY <2>1 DEF TypeOf, home
    <3> QED
      BY <1>6, <3>1 DEF ImportedType
  <2>5. /\ AtMost(w, key, t, Certain)
        /\ Settles(u, key, t, Certain) => Settles(w, key, t, Certain)
        /\ ImportsAt(rows, r, f, x) => Settles(w, key, t, Certain)
    <3>1. CASE rel.kind = "imports"
      <4>1. w = ApplyType(u, r[1], <<rel.name>>, ImportedType(rows, u, r[1], rel.name), Certain)
        BY <2>1, <3>1 DEF ImportStep
      <4>2. ImportedType(rows, u, r[1], rel.name) # NoName
        BY <2>1, NamesTyped DEF ImportedType, Row
      <4>3. key = <<r[1], <<rel.name>>>> <=> ImportsAt(rows, r, f, x)
        BY <3>1 DEF ImportsAt, key
      <4>4. key = <<r[1], <<rel.name>>>> => ImportedType(rows, u, r[1], rel.name) = t
        BY <2>4 DEF key
      <4> HIDE DEF rel
      <4> QED
        BY <2>1, <4>1, <4>3, <4>4, ApplyAtMost, ConfidencesAre
    <3>2. CASE rel.kind # "imports"
      <4>1. w = u /\ ~ImportsAt(rows, r, f, x)
        BY <2>1, <3>2 DEF ImportStep, ImportsAt
      <4> QED
        BY <2>1, <4>1
    <3> QED
      BY <3>1, <3>2
  <2>6. k <= i => k <= i - 1 \/ ImportsAt(rows, r, f, x)
    <3>1. k <= i => k <= i - 1 \/ k = i
      BY <1>1
    <3> QED
      BY <1>4, <1>5, <3>1 DEF r
  <2> QED
    BY <2>1, <2>2, <2>3, <2>5, <2>6 DEF w
<1>9. 0..n \subseteq S
  <2> HIDE DEF S
  <2> QED
    BY <1>1, <1>7, <1>8, RowFold!InductionUpTo
<1>10. n \in S /\ k <= n
  <2>1. n \in 0..n /\ k <= n
    BY <1>1
  <2> HIDE DEF S
  <2> QED
    BY <1>9, <2>1
<1> QED
  BY <1>2, <1>10 DEF Holding, Fixed, Settles, key

LEMMA InstanceTyped ==
    ASSUME NEW rows, AreRows(rows), NEW s \in SymbolIds(rows), NEW x, Symbol(rows, s).kind # "type",
           NEW f \in File, ~IsImported(rows, s[1], x), IsImported(rows, f, x),
           ImportedSymbols(rows, f, x) = {s},
           Unnamed(rows, s[1], x), Unnamed(rows, f, x),
           NEW t, t # NoName, OnlyConstructs(rows, <<s[1], <<x>>>>, t),
           \E r \in Ids(rows, "relationships") : ConstructsAt(rows, r, <<s[1], <<x>>>>)
    PROVE  Holding(Flow(rows), {<<f, <<x>>>>}, t)
<1> DEFINE v == LoadBindings(rows)
           w == LoadConstructors(rows, v)
           key == <<f, <<x>>>>
           home == <<s[1], <<x>>>>
<1>1. s[1] \in File
  BY SymbolIs
<1>2. Typed(v) /\ Typed(w)
  BY NothingHolds, BindingsHold, ConstructorsHold DEF Holding
<1>3. home \notin DOMAIN v /\ key \notin DOMAIN v
  BY <1>1, UnnamedUntyped
<1>4. AtMost(v, home, t, High) /\ AtMost(v, key, t, Certain)
  BY <1>3 DEF AtMost
<1> HIDE DEF v
<1>5. Settles(w, home, t, High)
  BY <1>2, <1>4, ConstructorsAtMost
<1>6. AtMost(w, key, t, Certain)
  <2>1. Certain # High
    BY DEF Certain, High
  <2> HIDE DEF key
  <2> QED
    BY <1>2, <1>4, <2>1, ConstructorsAtMost
<1> HIDE DEF w
<1>7. TypeOf(w, s[1], <<x>>) = t
  BY <1>5 DEF TypeOf, Settles
<1>8. Holding(LoadImports(rows, w), {key}, t)
  BY <1>2, <1>6, <1>7, ImportsFollow
<1> QED
  BY <1>8, AliasesHold DEF Flow, v, w

(* A method called on an instance imported from inside the repository resolves *)
(* against the class its defining file constructs it from, in whatever order   *)
(* the rows of the two files come.                                             *)
THEOREM SingletonsFollowed == Spec => []SingletonFollowed
<1>1. Inv => SingletonFollowed
  <2> SUFFICES ASSUME Inv, IsResolved, NEW s \in SymbolIds(d), NEW type \in Names, NEW x, x = Symbol(d, s).name,
                      Constructs(s[1], x, type), Symbol(d, s).kind # "type",
                      Unbound(s[1], x), ~IsImported(d, s[1], x), NEW r \in MethodCalls(x),
                      IsImported(d, r[1], x), ImportedSymbols(d, r[1], x) = {s},
                      Unbound(r[1], x), ~IsImported(d, r[1], type)
               PROVE  resolved[r].targets = FindMethodInType(d, Relationship(d, r).name, type)
    BY DEF SingletonFollowed
  <2>1. AreRows(d)
    BY RowsAre DEF Inv
  <2>2. r \in RelationshipIds /\ resolved[r] = Resolve(r)
    BY DEF Inv, OutcomesCurrent, MethodCalls
  <2>3. r \in Ids(d, "relationships")
    BY <2>1, <2>2, RelationshipsListed DEF RelationshipIds
  <2>4. r[1] \in File /\ s[1] \in File
    BY <2>1, <2>3, SymbolIs DEF Ids
  <2>5. type # NoName
    BY <2>1, SymbolIs DEF Names
  <2>6. Unnamed(d, s[1], x) /\ Unnamed(d, r[1], x)
    BY DEF Unbound, Unnamed
  <2> DEFINE home == <<s[1], <<x>>>>
  <2>7. ASSUME NEW q \in Ids(d, "relationships"), ConstructsAt(d, q, home)
        PROVE  Relationship(d, q).name = type
    <3>1. PICK g \in File : q \in {g} \X DOMAIN d.file[g].relationships
      BY DEF Ids
    <3>2. q[1] = g /\ q[2] \in DOMAIN d.file[g].relationships
      BY <3>1
    <3>3. g = s[1] /\ q[2] \in Constructions(s[1], x)
      BY <2>7, <3>2 DEF ConstructsAt, Constructions, Relationship
    <3> QED
      BY <3>2, <3>3 DEF Constructs, Relationship
  <2>8. \E q \in Ids(d, "relationships") : ConstructsAt(d, q, home)
    <3>1. PICK i \in DOMAIN d.file[s[1]].relationships :
            /\ d.file[s[1]].relationships[i].kind \in {"new_call", "instantiates"}
            /\ d.file[s[1]].relationships[i].receiver = <<x>>
      BY DEF Constructs, Constructions
    <3>2. <<s[1], i>> \in Ids(d, "relationships")
      BY <2>4, <3>1 DEF Ids
    <3>3. Relationship(d, <<s[1], i>>) = d.file[s[1]].relationships[i] /\ <<x>> # <<>>
      BY DEF Relationship
    <3>4. ConstructsAt(d, <<s[1], i>>, home)
      BY <3>1, <3>3 DEF ConstructsAt
    <3> QED
      BY <3>2, <3>4
  <2>9. Holding(Flow(d), {<<r[1], <<x>>>>}, type)
    <3>1. OnlyConstructs(d, home, type)
      BY <2>7 DEF OnlyConstructs
    <3> QED
      BY <2>1, <2>4, <2>5, <2>6, <2>8, <3>1, InstanceTyped
  <2>10. TypeOf(flow, r[1], <<x>>) = type
    BY <2>9 DEF Inv, FlowCurrent, IsResolved, Holding, Fixed, TypeOf
  <2>11. Origin(r, type) \notin Outside
    BY DEF Origin, Outside
  <2> QED
    BY <2>1, <2>2, <2>5, <2>10, <2>11, ReceiverDecides DEF MethodCalls
<1> QED
  BY <1>1, InvHolds, PTL

=============================================================================
