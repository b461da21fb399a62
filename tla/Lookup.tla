------------------------------- MODULE Lookup ------------------------------
(***************************************************************************)
(* How a tool turns a text into an entity or a ranked list: the resolution *)
(* pipeline (symbol, path, concept, subsystem; each stage answers, reports *)
(* an ambiguity or passes on), the lexical search, and the reciprocal rank *)
(* fusion of its list with that of an embedding search.                    *)
(*                                                                         *)
(* A text is a number: the name it spells. How alike a text is to a name   *)
(* or a path is data, given by the constants below; what the code does     *)
(* with the likeness is modelled.                                          *)
(***************************************************************************)
EXTENDS Subsystems

CONSTANTS
    Lower,              \* Lower[n]: name n in lower case
    Parts,              \* Parts[t]: text t as the parts of a path
    Keywords,           \* Keywords[c]: the terms, names and paths akin to
                        \* a keyword of concept c
    AliasOf,            \* AliasOf[t]: the subsystem name text t stands for
    NameLikeness,       \* NameLikeness[t][n]: lexical score of name n
    PathLikeness,       \* PathLikeness[t][p]: score of path p for a symbol in it
    FileLikeness,       \* FileLikeness[t][p]: score of path p as a result
    PathBoost,          \* PathBoost[p]: production bonus and test penalty
    FileName,           \* FileName[p]: the last part of path p, as a name
    ScanCap,            \* MAX_TEXT_SCAN_FILES
    SeedLimit,          \* results discover_subsystem asks the search for
    ConceptCap,         \* results a concept may add
    Precision           \* how finely contributions to a fused score are told apart

ASSUME LookupAssumption == {ScanCap, SeedLimit, ConceptCap} \subseteq Nat

NoLine == 0

---------------------------------------------------------------------------
(* The symbol stages. hint is the set of files whose path holds the hint.  *)

SymbolEntity(s) == [kind |-> "symbol", candidates |-> {s}]
Ambiguous(rows) == [kind |-> "ambiguous", candidates |-> rows]
NotFound == [kind |-> "not_found", candidates |-> {}]

(* Mutant: the same lines in two files count as one symbol.                *)
SameRange_AnyFile(g, rows) ==
    \A r, s \in rows : g.sym[r].line = g.sym[s].line /\ g.sym[r].end = g.sym[s].end

SameRange(g, rows) ==
    \A r, s \in rows : /\ FileAt(g, r) = FileAt(g, s)
                       /\ g.sym[r].line = g.sym[s].line /\ g.sym[r].end = g.sym[s].end

(* Among the rows at or before the line, the last to start.                *)
Preceding(g, rows, line) ==
    LET before == {r \in rows : g.sym[r].line <= line}
        last   == {r \in before : \A s \in before : g.sym[s].line <= g.sym[r].line}
    IN  IF before = {} THEN Ambiguous({}) ELSE SymbolEntity(Min(last))

RowsToEntity(g, rows, line) ==
    CASE SameRange(g, rows)                     -> SymbolEntity(Min(rows))
      [] ~SameRange(g, rows) /\ line # NoLine   -> Preceding(g, rows, line)
      [] OTHER                                  -> Ambiguous(rows)

StageSymbol(g, rows, hint, line) ==
    LET hinted == {r \in rows : FileAt(g, r) \in hint}
    IN  CASE rows = {}                  -> NotFound
          [] rows # {} /\ hinted = {}   -> Ambiguous(rows)
          [] OTHER                      -> RowsToEntity(g, hinted, line)

ExactRows(g, t) == {s \in Symbols(g) : NameAt(g, s) = t}
CanonicalRows(g, t) == {s \in Symbols(g) : Lower[NameAt(g, s)] = Lower[t]}

ResolveSymbol(g, t, hint, line) ==
    LET exact == StageSymbol(g, ExactRows(g, t), hint, line)
    IN  IF exact # NotFound THEN exact ELSE StageSymbol(g, CanonicalRows(g, t), hint, line)

---------------------------------------------------------------------------
(* The path stages.                                                        *)

FileEntity(files) ==
    CASE files = {}             -> NotFound
      [] Cardinality(files) = 1 -> [kind |-> "file", candidates |-> files]
      [] OTHER                  -> Ambiguous(files)

StageFullPath(g, t) == FileEntity({f \in g.files : PathOf(g, f) = Parts[t]})

StageFilename(g, t) ==
    IF Parts[t] = <<>> THEN NotFound
    ELSE FileEntity({f \in g.files : IsSuffix(Parts[t], PathOf(g, f))})

StageDirectory(g, t) ==
    LET children == {f \in g.files : IsSuffix(Parts[t], Front(PathOf(g, f)))}
    IN  IF Parts[t] = <<>> \/ children = {} THEN NotFound
        ELSE [kind |-> "directory", candidates |-> children]

FirstAnswer(stages) ==
    LET answers == {i \in DOMAIN stages : stages[i].kind # "not_found"}
    IN  IF answers = {} THEN NotFound ELSE stages[Min(answers)]

ResolvePath(g, t) == FirstAnswer(<<StageFullPath(g, t), StageFilename(g, t), StageDirectory(g, t)>>)

---------------------------------------------------------------------------
(* The lexical search. A result r has path, name, kind, the symbol it      *)
(* comes from (NoSymbol for a file or a line), score, level (3 High ...    *)
(* 1 Low), exact, line, and leg, the order in which ties were collected.   *)

ToInteger(n, d) == IF n < 0 THEN 0 - ((0 - n) \div d) ELSE n \div d   \* a cast to i32

(* Tenths: an entrypoint 1.5, a callable 1.1, a local 0.3; pagerank is in  *)
(* hundredths of the factor it adds, 1.5 at most.                          *)
RetrievalScore(base, f) ==
    LET kind   == CASE f.entry -> 15 [] ~f.entry /\ f.callable -> 11 [] OTHER -> 10
        local  == IF f.local THEN 3 ELSE 10
        rank   == 100 + AtMost(f.pagerank, 150)
    IN  ToInteger(base * kind * local * rank, 10000) + 2 * f.in + f.out

NoFeatures == [in |-> 0, out |-> 0, local |-> FALSE, entry |-> FALSE, callable |-> FALSE, pagerank |-> 0]
FeaturesOf(g, s) == IF s \in DOMAIN g.features THEN g.features[s] ELSE NoFeatures

Level(likeness) == CASE likeness >= 500 -> 3 [] likeness \in 100..499 -> 2 [] OTHER -> 1

SymbolHit(g, t, s) ==
    LET path == g.path[FileAt(g, s)]
        likeness == NameLikeness[t][NameAt(g, s)]
    IN  [path |-> path, name |-> NameAt(g, s), kind |-> g.sym[s].kind, sym |-> s,
         score |-> RetrievalScore(likeness + PathLikeness[t][path] + PathBoost[path], FeaturesOf(g, s)),
         level |-> Level(likeness), exact |-> likeness >= 1000, line |-> NoLine, leg |-> 1]

(* Neither name nor path alike, or a score the penalty eats: no result.    *)
SymbolHits(g, t, scope) ==
    {h \in {SymbolHit(g, t, s) : s \in {r \in Symbols(g) : FileAt(g, r) \in scope}} :
        NameLikeness[t][h.name] + PathLikeness[t][h.path] > 0 /\ h.score > 0}

(* Of the results with one name the best keeps its score.                  *)
Best(hits) ==
    LET top == {h \in hits : \A k \in hits : k.score <= h.score}
    IN  CHOOSE h \in top : \A k \in top : h.sym <= k.sym

Demote(hits) ==
    {IF h = Best({k \in hits : k.name = h.name}) THEN h
     ELSE [h EXCEPT !.score = ToInteger(7 * h.score, 10),
                    !.level = IF h.level = 3 THEN 2 ELSE h.level, !.exact = FALSE] : h \in hits}

(* Several results of one file by its path alone become one.               *)
RollUp(hits) ==
    UNION {LET mine == {h \in hits : h.path = p}
           IN  IF Cardinality(mine) = 1 THEN mine
               ELSE {[path |-> p, name |-> FileName[p], kind |-> "file_rollup", sym |-> NoSymbol,
                      score |-> Max({h.score : h \in mine}), level |-> 1, exact |-> FALSE,
                      line |-> NoLine, leg |-> 1]} : p \in {h.path : h \in hits}}

FileHit(g, t, f) ==
    LET score == FileLikeness[t][g.path[f]] + PathBoost[g.path[f]]
    IN  [path |-> g.path[f], name |-> FileName[g.path[f]], kind |-> "file", sym |-> NoSymbol,
         score |-> score, exact |-> score >= 800, line |-> NoLine, leg |-> 2,
         level |-> CASE score >= 800 -> 3 [] score \in 250..799 -> 2 [] OTHER -> 1]

FileHits(g, t, scope) ==
    {h \in {FileHit(g, t, f) : f \in g.files \cap scope} : FileLikeness[t][h.path] > 0 /\ h.score > 0}

SearchSymbolNames(g, t, scope) ==
    LET hits  == SymbolHits(g, t, scope)
        named == {h \in hits : NameLikeness[t][h.name] > 0}
    IN  Demote(named) \cup RollUp(hits \ named) \cup FileHits(g, t, scope)

---------------------------------------------------------------------------
(* The text search. live[f] is the file as it is on disk now: its text, a  *)
(* sequence of lines, and those of them that match, or Unreadable.         *)

Unreadable == [text |-> <<>>, hits |-> {}]

TextHit(g, live, f, line) ==
    [path |-> g.path[f], name |-> live[f].text[line], kind |-> "text_match", sym |-> NoSymbol, score |-> 200,
     level |-> 2, exact |-> FALSE, line |-> line, leg |-> 3]

(* The first lines that fit; a file with lines after the last that fitted  *)
(* counts as cut short, whether or not they match, and so does a scan that *)
(* was full before a file, in scope or not.                                *)
ScanFile(g, live, scope, limit, acc, f) ==
    LET room  == limit - Cardinality(acc.hits)
        taken == Smallest(live[f].hits, room)
        cut   == Cardinality(taken) = room /\ taken # {} /\ Max(taken) < Len(live[f].text)
    IN  CASE acc.truncated -> acc
          [] ~acc.truncated /\ (acc.scanned >= ScanCap \/ room <= 0) -> [acc EXCEPT !.truncated = TRUE]
          [] ~acc.truncated /\ acc.scanned < ScanCap /\ room > 0 /\ f \notin scope -> acc
          [] OTHER -> [hits |-> acc.hits \cup {TextHit(g, live, f, l) : l \in taken},
                       scanned |-> acc.scanned + IF live[f] = Unreadable THEN 0 ELSE 1,
                       truncated |-> cut]

SearchFileContents(g, live, scope, limit) ==
    FoldLeft(LAMBDA acc, f : ScanFile(g, live, scope, limit, acc, f),
             [hits |-> {}, scanned |-> 0, truncated |-> FALSE], InOrder(g.files, <))

---------------------------------------------------------------------------
(* Ranking: by score, then in the order collected; the results of symbols  *)
(* come out of a hash table, so that any order of equals may be seen.      *)

NotBelow(a, b) ==
    \/ a.score > b.score
    \/ a.score = b.score /\ a.leg < b.leg
    \/ a.score = b.score /\ a.leg = b.leg /\ (a.leg = 1 \/ <<a.path, a.line>> = <<b.path, b.line>>
                                              \/ a.path < b.path \/ (a.path = b.path /\ a.line < b.line))

Rankings(hits, limit) ==
    {r \in [1..AtMost(limit, Cardinality(hits)) -> hits] :
        /\ \A i, j \in DOMAIN r : i < j => r[i] # r[j] /\ NotBelow(r[i], r[j])
        /\ \A h \in hits \ ToSet(r) : \A i \in DOMAIN r : NotBelow(r[i], h)}

(* Mutant: only the text scan says that something was left out.            *)
SearchSymbols_Untold(g, live, t, scope, mode, limit) ==
    LET names == IF mode \in {"symbol", "both"} THEN SearchSymbolNames(g, t, scope) ELSE {}
        text  == IF mode \in {"text", "both"} THEN SearchFileContents(g, live, scope, limit)
                 ELSE [hits |-> {}, scanned |-> 0, truncated |-> FALSE]
        hits  == names \cup text.hits
    IN  [hits |-> hits, truncated |-> text.truncated, files |-> Cardinality({h.path : h \in hits})]

SearchSymbols(g, live, t, scope, mode, limit) ==
    LET names == IF mode \in {"symbol", "both"} THEN SearchSymbolNames(g, t, scope) ELSE {}
        text  == IF mode \in {"text", "both"} THEN SearchFileContents(g, live, scope, limit)
                 ELSE [hits |-> {}, scanned |-> 0, truncated |-> FALSE]
        hits  == names \cup text.hits
    IN  [hits |-> hits, truncated |-> text.truncated \/ Cardinality(hits) > limit,
         files |-> Cardinality({h.path : h \in hits})]

(* tag_concepts: every symbol by its name, else by its path.               *)
TagConcepts(g) ==
    {t \in Symbols(g) \X DOMAIN Keywords :
        NameAt(g, t[1]) \in Keywords[t[2]].names \/ g.path[FileAt(g, t[1])] \in Keywords[t[2]].paths}

ConceptsMatchingTerm(t) == {c \in DOMAIN Keywords : c = t \/ t \in Keywords[c].terms}

(* Concepts of the text add the symbols tagged with them, not yet listed   *)
(* under the same name and path, whatever the limit.                       *)
Key(r) == <<r.name, r.path>>

ConceptHits(g, t, scope, listed) ==
    LET tagged == {s \in Symbols(g) : FileAt(g, s) \in scope /\
                      \E c \in ConceptsMatchingTerm(t) : <<s, c>> \in g.concepts}
        fresh  == {s \in tagged : <<NameAt(g, s), g.path[FileAt(g, s)]>> \notin {Key(r) : r \in listed}}
        first  == {s \in fresh : \A o \in fresh : Key(SymbolHit(g, t, o)) = Key(SymbolHit(g, t, s)) => s <= o}
    IN  {[SymbolHit(g, t, s) EXCEPT !.score = 150, !.level = 1, !.exact = FALSE, !.leg = 4]
            : s \in Smallest(first, ConceptCap)}

(* One outcome of resolve_search, for one ranking of what was found: the   *)
(* added results sort after their equals.                                  *)
ResolveSearch(g, t, scope, mode, concepts, found, ranking) ==
    LET extra == IF concepts /\ mode # "text" THEN ConceptHits(g, t, scope, ToSet(ranking)) ELSE {}
    IN  [results   |-> Which(LAMBDA r : r.score >= 150, ranking)
                           \o InOrder(extra, LAMBDA a, b : a.sym < b.sym)
                           \o Which(LAMBDA r : r.score < 150, ranking),
         truncated |-> found.truncated]

---------------------------------------------------------------------------
(* rrf_fuse. Contributions 1 / (60 + rank), floating point in the code,    *)
(* are whole numbers of a unit of which Precision make one.                *)

Contribution(rank) == Precision \div (60 + rank)

(* Ten thousand times the score, rounded.                                  *)
Scaled(score) == (20000 * score + Precision) \div (2 * Precision)

(* Mutant: a result of both lists counts for the last of them.             *)
FuseOne_Last(fused, r, rank) == (Key(r) :> [hit |-> r, score |-> Contribution(rank)]) @@ fused

Merged(entry, r, rank) ==
    [hit   |-> [entry.hit EXCEPT !.exact = @ \/ r.exact,
                                 !.level = IF r.exact /\ ~entry.hit.exact THEN r.level ELSE @,
                                 !.line  = IF @ = NoLine THEN r.line ELSE @],
     score |-> entry.score + Contribution(rank)]

FuseOne(fused, r, rank) ==
    [k \in DOMAIN fused \cup {Key(r)} |->
        CASE k # Key(r)                       -> fused[k]
          [] k = Key(r) /\ k \in DOMAIN fused -> Merged(fused[k], r, rank)
          [] OTHER                            -> [hit |-> r, score |-> Contribution(rank)]]

FuseList(fused, list) ==
    FoldLeft(LAMBDA acc, i : FuseOne(acc, list[i], i), fused, [i \in DOMAIN list |-> i])

(* Equals of one name come out of a hash table: those in late come last.   *)
FusedBefore(late, x, y) ==
    LET a == x.hit
        b == y.hit
    IN  \/ x.score > y.score
        \/ x.score = y.score /\ a.exact /\ ~b.exact
        \/ x.score = y.score /\ a.exact = b.exact
           /\ \/ a.name < b.name
              \/ a.name = b.name /\ Key(a) \notin late /\ Key(b) \in late
              \/ a.name = b.name /\ (Key(a) \in late <=> Key(b) \in late) /\ a.path < b.path

RrfFuse(lists, late, limit) ==
    LET fused  == FoldLeft(FuseList, <<>>, lists)
        ranked == Truncate(InOrder({fused[k] : k \in DOMAIN fused}, LAMBDA x, y : FusedBefore(late, x, y)), limit)
    IN  [i \in DOMAIN ranked |-> [ranked[i].hit EXCEPT !.score = Scaled(ranked[i].score)]]

(* The results whose name another one has.                                 *)
Namesakes(lists) ==
    LET keys == UNION {{Key(r) : r \in ToSet(list)} : list \in ToSet(lists)}
    IN  {k \in keys : \E o \in keys : o # k /\ o[1] = k[1]}

(* resolve_search_semantic. semantic is the list the vectors gave, or      *)
(* Degraded when there is no model, no vector, or no answer.               *)
Degraded == <<[leg |-> 0]>>

ResolveSearchSemantic(mode, limit, lexical, semantic, late) ==
    LET fused == RrfFuse(<<lexical.results, semantic>>, late, Len(lexical.results) + Len(semantic))
    IN  CASE mode \in {"symbol", "text"} \/ semantic = Degraded -> lexical
          [] mode = "semantic" /\ semantic # Degraded -> [results |-> semantic, truncated |-> FALSE]
          [] mode = "both" /\ semantic # Degraded ->
                [results |-> Truncate(fused, limit),
                 truncated |-> lexical.truncated \/ Len(fused) > limit]

---------------------------------------------------------------------------
(* The stages that need the search: a concept by its name, a subsystem.    *)

StageFeature(g, t) ==
    LET tagged == {s \in Symbols(g) : <<s, t>> \in g.concepts}
    IN  IF t \in ConceptsMatchingTerm(t) /\ tagged # {} THEN [kind |-> "feature", candidates |-> tagged]
        ELSE NotFound

(* The results that seed a subsystem (a rolled-up file is no symbol's kind) *)
(* and how sure the first of them is, which no later one outscores.        *)
SeedResults(ranking) ==
    SelectSeq(ranking, LAMBDA r : r.kind \notin {"file", "text_match", "file_rollup"}
                                  /\ (r.score >= 100 \/ r.level >= 2))

SeedSymbols(ranking) == {r.sym : r \in ToSet(SeedResults(ranking))}
SeedLevel(ranking) == IF SeedResults(ranking) = <<>> THEN 1 ELSE Head(SeedResults(ranking)).level

TryDiscover(g, ranking) ==
    LET found == DiscoverSubsystem(g, SeedSymbols(ranking), "expanded")
    IN  IF found.files = {} \/ SeedLevel(ranking) < 2 THEN NotFound
        ELSE [kind |-> "subsystem", candidates |-> found.symbols]

(* rank[t] is the ranking the search gives for text t.                     *)
ResolveSubsystem(g, t, rank) ==
    FirstAnswer(IF AliasOf[t] # t THEN <<TryDiscover(g, rank[AliasOf[t]]), TryDiscover(g, rank[t])>>
                ELSE <<TryDiscover(g, rank[t])>>)

ResolveAny(g, t, hint, rank) ==
    FirstAnswer(<<ResolveSymbol(g, t, hint, NoLine), StageFullPath(g, t), StageFilename(g, t),
                  StageDirectory(g, t), StageFeature(g, t), TryDiscover(g, rank[t])>>)

---------------------------------------------------------------------------
(* find_symbol_exact and find_symbol: five rows, or the ten best.          *)

FindSymbolExact(g, t) == Smallest(ExactRows(g, t), 5)

FindSymbolScore(t, n) == NameLikeness[t][n]

FindSymbol(g, t, scope, cap) ==
    LET hits == {s \in Symbols(g) : FileAt(g, s) \in scope /\ FindSymbolScore(t, NameAt(g, s)) > 0}
        above(a, b) == LET x == FindSymbolScore(t, NameAt(g, a))
                           y == FindSymbolScore(t, NameAt(g, b))
                       IN  x > y \/ (x = y /\ a < b)
    IN  Truncate(InOrder(hits, above), cap)

(* build_project_overview: what a scope holds, by directory; of the         *)
(* directories the DirectoryCap largest are shown.                         *)
DirectoryCap == 20

ProjectOverview(g, scope) ==
    LET files == g.files \cap scope
        mine(d) == {f \in files : Front(PathOf(g, f)) = d}
        dirs  == {Front(PathOf(g, f)) : f \in files}
    IN  [shown |-> AtMost(DirectoryCap, Cardinality(dirs)),
         files |-> Cardinality(files),
         symbols |-> Cardinality({s \in Symbols(g) : FileAt(g, s) \in scope}),
         edges |-> Cardinality({e \in Rows(g) : e.file \in scope}),
         dirs |-> {[dir |-> d, files |-> Cardinality(mine(d)),
                    symbols |-> Cardinality({s \in Symbols(g) : FileAt(g, s) \in mine(d)})]
                      : d \in dirs}]
============================================================================
