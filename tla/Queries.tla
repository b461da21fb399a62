------------------------------ MODULE Queries ------------------------------
(***************************************************************************)
(* The tools/call loop of the MCP server over one index: the query tools,  *)
(* one action each, and operations of the library that no tool calls so    *)
(* far (graph_subtree, find_symbol, discover_subsystem, resolve_subsystem, *)
(* resolve_any, read_symbol_source_by_id with dependencies). A query runs  *)
(* in the server's process without a transaction around it, so that its    *)
(* statements are separate snapshots: explore_graph is modelled statement  *)
(* by statement, and another process may replace the rows of a file        *)
(* (reindex_paths) and link them again between two of them. The other      *)
(* tools are taken in one snapshot (Semantic takes get_edit_context and    *)
(* read_symbol_source apart).                                              *)
(***************************************************************************)
EXTENDS Traversals, Sources

CONSTANTS
    Graphs,        \* the indexes a session starts from
    Lookups,       \* bound: those of them on which searches are asked
    Contended,     \* bound: those a second process reindexes during a call
    Texts,         \* texts a caller asks about
    Depths, NodeLimits, Limits,   \* numbers a caller asks for
    Hints,         \* sets of files a path, a scope or a file hint matches
    Lines,         \* line hints, NoLine for none
    Live,          \* Live[f]: file f on disk, as the tools that read it find it
    Slices(_),     \* Slices(g)[s]: the routes named in the bytes of symbol s
    NewId(_)       \* the id a symbol gets when its file is replaced

ASSUME QueriesAssumption ==
    /\ Lookups \subseteq Graphs /\ Contended \subseteq Graphs
    /\ Depths \cup NodeLimits \cup Limits \subseteq Nat

ASSUME GraphAssumption == \A graph \in Graphs : WellFormed(graph)

(* symbols.id is AUTOINCREMENT: the id of a row is never given again.      *)
ASSUME NewIdAssumption ==
    \A graph \in Contended : \A s, t \in Symbols(graph) :
        /\ NewId(s) \in Nat \ (Symbols(graph) \cup {NoSymbol})
        /\ NewId(s) = NewId(t) => s = t

(* What a search reads of an index and of the disk: names, paths, lines of  *)
(* text and degrees are numbers, and so is what a text has in common with   *)
(* each. A file has finitely many lines.                                   *)
ASSUME LikenessAssumption ==
    \A graph \in Lookups :
        /\ \A s \in Symbols(graph) :
              /\ NameAt(graph, s) \in Nat /\ \A t \in Texts : NameLikeness[t][NameAt(graph, s)] \in Int
              /\ LET f == FeaturesOf(graph, s) IN {f.in, f.out, f.pagerank} \subseteq Nat
        /\ \A f \in graph.files :
              LET p == graph.path[f]
              IN  /\ {p, FileName[p]} \subseteq Nat /\ PathBoost[p] \in Int
                  /\ \A t \in Texts : {PathLikeness[t][p], FileLikeness[t][p]} \subseteq Int
                  /\ Live[f].text \in Seq(Nat) /\ Live[f].hits \subseteq DOMAIN Live[f].text

(* Neighbours in a list a caller may ask for contribute differently to a   *)
(* fused score, as the floating point numbers of the code do in a list of  *)
(* fewer than ten million.                                                 *)
ASSUME PrecisionAssumption ==
    Precision \in Nat /\ \A l \in Limits : Precision >= (60 + l + ConceptCap) * (61 + l + ConceptCap)

VARIABLES
    g,          \* the index
    pending,    \* rows the last replacement dropped and its linking restores
    answer,     \* the last answer: tool, request and response
    walk,       \* the walk of the explore_graph call in progress
    pc,         \* "idle", "root", "out" or "in" (explore's next statement), "done"
    versions    \* history: the indexes the call in progress has seen

vars == <<g, pending, answer, walk, pc, versions>>

NoAnswer == [tool |-> "none"]
NoPending == <<>>

Init ==
    /\ g \in Graphs
    /\ pending = NoPending
    /\ answer = NoAnswer
    /\ walk = NoWalk
    /\ pc = "idle"
    /\ versions = {}

Respond(tool, request, response) ==
    /\ pc = "idle"
    /\ answer' = [tool |-> tool, request |-> request, response |-> response]
    /\ pc' = "done"
    /\ versions' = {g}
    /\ UNCHANGED <<g, pending, walk>>

---------------------------------------------------------------------------
(* resolve_symbol_for_tool: a tool keyed by a symbol works on the one the  *)
(* resolver settles on, else the resolver's own answer is the response.    *)

ResolveForTool(t, hint, line) ==
    LET r == ResolveSymbol(g, t, hint, line)
    IN  Respond("resolve_symbol", [text |-> t, hint |-> hint, line |-> line], r)

Targets ==
    {s \in Symbols(g) : \E t \in Texts, hint \in Hints : ResolveSymbol(g, t, hint, NoLine) = SymbolEntity(s)}

---------------------------------------------------------------------------
(* The tools that answer from one snapshot.                                *)

GetContext(s, profile, markdown) ==
    LET c == ContextById(g, s)
    IN  Respond("get_context", c,
                IF markdown THEN BuildMarkdown(g, c, profile) ELSE BuildJson(g, c, profile))

(* With include_source the symbols of its name and file are read, too.     *)
GetContextWithSource(s, profile) ==
    LET c      == ContextById(g, s)
        packed == BuildJson(g, c, profile)
    IN  Respond("get_context", c,
                [source |-> ReadSymbolSourceScoped(g, Live, c.name, {c.file}),
                 used   |-> packed.used, lists |-> packed.lists])

GetContextByName(t, scope) ==
    LET c == ContextByName(g, t, scope, {f \in g.files : FileName[g.path[f]] = t})
    IN  Respond("get_context", c, IF c = NoContext THEN EmptyResponse ELSE BuildJson(g, c, "verbose"))

Subtree(root, depth, max) ==
    Respond("graph_subtree", [root |-> root, depth |-> depth, max |-> max], GraphSubtree(g, root, depth, max))

FindPath(from, to) ==
    Respond("shortest_path", [from |-> from, to |-> to],
            ShortestPath(g, Slices(g), RootById(g, from), RootById(g, to)))

Cycles(limit, scope, sameFile) ==
    Respond("dependency_cycles", [scope |-> scope, same |-> sameFile], DependencyCycles(g, limit, scope, sameFile))

Hotspots(limit, scope) ==
    Respond("architectural_hotspots", [limit |-> limit, scope |-> scope], ArchitecturalHotspots(g, limit, scope))

Subsystem(t, scope) ==
    LET found == SearchSymbols(g, Live, t, g.files, "symbol", SeedLimit)
    IN  \E ranking \in Rankings(found.hits, SeedLimit) :
            LET hits == SeedSymbols(ranking)
            IN  Respond("subsystem_stats", [hits |-> hits, scope |-> scope], DiscoverSubsystem(g, hits, scope))

Communication(a, b) ==
    Respond("subsystem_communication", [a |-> a, b |-> b], SubsystemCommunication(g, Parts[a], Parts[b]))

RepositoryStats(scope) ==
    Respond("repository_stats", scope,
            [overview |-> ProjectOverview(g, scope), entrypoints |-> ListEntrypoints(g, scope)])

(* Whatever is not one file is an error that names what it is.             *)
ReadFileSkeleton(t, target) ==
    LET r == ResolvePath(g, t)
    IN  IF r.kind = "file"
        THEN Respond("read_file_skeleton", [file |-> Min(r.candidates), target |-> target],
                     SkeletonizeFile(g, Live, Min(r.candidates), target))
        ELSE Respond("read_file_skeleton", [text |-> t], [ok |-> FALSE, error |-> r])

(* The same, but a path the index does not know is read as it stands.      *)
ReadFileSnippet(t, first, last) ==
    LET r == ResolvePath(g, t)
    IN  CASE r.kind = "file" ->
                Respond("read_file_snippet", [file |-> Min(r.candidates), first |-> first, last |-> last],
                        ReadSnippet(Live[Min(r.candidates)].text, first, last))
          [] r = NotFound -> Respond("read_file_snippet", [text |-> t], [ok |-> FALSE, error |-> "direct"])
          [] OTHER -> Respond("read_file_snippet", [text |-> t], [ok |-> FALSE, error |-> r])

(* The symbol the resolver settles on, or the resolver's own answer, which *)
(* ResolveForTool shows.                                                   *)
ReadSymbolSource(s, dependencies) ==
    \/ Respond("read_symbol_source", [sym |-> s, dependencies |-> dependencies],
               ReadSymbolSourceTool(g, Live, s, dependencies))
    \/ Respond("read_symbol_source_by_id", [sym |-> s], ReadSymbolSourceById(g, Live, s, dependencies))

DuplicateLogic(min, scope, limit) ==
    \E report \in FindDuplicateLogic(g, Live, min, scope, limit) :
        Respond("find_duplicate_logic", [min |-> min, scope |-> scope, limit |-> limit], report)

(* The ranking each text gives; the one that is not asked about is unused. *)
Open(t, hint) ==
    \E rank \in [{t, AliasOf[t]} -> UNION {Rankings(SearchSymbols(g, Live, x, g.files, "symbol", SeedLimit).hits, SeedLimit)
                                           : x \in {t, AliasOf[t]}}] :
        /\ \A x \in DOMAIN rank :
              rank[x] \in Rankings(SearchSymbols(g, Live, x, g.files, "symbol", SeedLimit).hits, SeedLimit)
        /\ \/ Respond("resolve_any", [text |-> t, hint |-> hint], ResolveAny(g, t, hint, rank))
           \/ Respond("resolve_subsystem", [text |-> t], ResolveSubsystem(g, t, rank))

FindSymbolTool(t, scope) ==
    Respond("find_symbol", [text |-> t, scope |-> scope],
            [exact |-> FindSymbolExact(g, t), ranked |-> FindSymbol(g, t, scope, 10)])

(* search_codebase: the list of the vectors is any order of some symbols.  *)
SemanticLists(limit) ==
    {[i \in 1..Len(q) |-> [SymbolHit(g, 1, q[i]) EXCEPT !.level = 1, !.exact = FALSE, !.line = g.sym[q[i]].line]]
        : q \in {p \in BoundedSeq(Symbols(g), limit) : IsInjective(p) /\ Len(p) = limit}}

Search(t, scope, mode, limit, concepts, semantic) ==
    LET lexicalMode == IF mode = "semantic" THEN "both" ELSE mode
        found == SearchSymbols(g, Live, t, scope, lexicalMode, limit)
    IN  \E ranking \in Rankings(found.hits, limit) :
            LET lexical == ResolveSearch(g, t, scope, lexicalMode, concepts, found, ranking)
            IN  \E late \in SUBSET (IF mode = "both" /\ semantic # Degraded
                                     THEN Namesakes(<<lexical.results, semantic>>) ELSE {}) :
                Respond("search_codebase",
                        [text |-> t, scope |-> scope, mode |-> mode, limit |-> limit,
                         found |-> found.hits, legs |-> <<lexical.results, semantic>>],
                        ResolveSearchSemantic(mode, limit, lexical, semantic, late))

---------------------------------------------------------------------------
(* explore_graph, one statement at a time.                                 *)

BeginExplore(s, depth, max, direction) ==
    /\ pc = "idle"
    /\ walk' = StartWalk(g, s, depth, max, direction, FALSE)
    /\ pc' = "root"
    /\ versions' = {g}
    /\ UNCHANGED <<g, pending, answer>>

Answer(w) ==
    [tool |-> "explore_graph", request |-> w.root, response |-> w,
     dominant |-> DominantFiles([n \in w.nodes |-> FileAt(CHOOSE v \in versions : n \in Symbols(v), n)])]

(* The symbol resolved may be gone by the time its row is read.            *)
FindRoot ==
    /\ pc = "root"
    /\ IF RootById(g, walk.root) # NoSymbol
       THEN pc' = "out" /\ UNCHANGED <<answer, walk>>
       ELSE /\ answer' = Answer([walk EXCEPT !.nodes = {}, !.queue = <<>>])
            /\ walk' = NoWalk
            /\ pc' = "done"
    /\ UNCHANGED <<g, pending, versions>>

ExpandOut ==
    /\ pc = "out" /\ ~Done(walk)
    /\ LET popped == Pop(walk)
       IN  /\ walk' = IF Expanded(popped) THEN OutStep(g, popped) ELSE popped
           /\ pc' = IF Expanded(popped) /\ ~walk'.truncated THEN "in" ELSE "out"
    /\ UNCHANGED <<g, pending, answer, versions>>

ExpandIn ==
    /\ pc = "in"
    /\ walk' = InStep(g, walk)
    /\ pc' = "out"
    /\ UNCHANGED <<g, pending, answer, versions>>

EndExplore ==
    /\ pc = "out" /\ Done(walk)
    /\ answer' = Answer(walk)
    /\ walk' = NoWalk
    /\ pc' = "done"
    /\ UNCHANGED <<g, pending, versions>>

---------------------------------------------------------------------------
(* Another process. Replacing a file gives its symbols new ids and drops   *)
(* the edges at them; linking adds the edges again. Once in a call.        *)

Renamed(f, s) == IF s \in Symbols(g) /\ FileAt(g, s) = f THEN NewId(s) ELSE s

(* Mutant: the rows come back with the ids the replaced symbols had.       *)
Relinked_OldIds(f, e) == e

Relinked(f, e) == [e EXCEPT !.src = Renamed(f, @), !.tgt = Renamed(f, @)]

Touches(f, e) == e.file = f \/ FileAt(g, e.tgt) = f

ReplaceFile(f) ==
    /\ pc \in {"root", "out", "in"} /\ versions = {g} /\ g \in Contended
    /\ LET kept == Which(LAMBDA e : ~Touches(f, e), g.edges)
           lost == Which(LAMBDA e : Touches(f, e), g.edges)
           ids  == {Renamed(f, s) : s \in Symbols(g)}
           old(n) == CHOOSE s \in Symbols(g) : Renamed(f, s) = n
       IN  /\ g' = [g EXCEPT !.sym = [n \in ids |-> g.sym[old(n)]],
                             !.edges = kept,
                             !.features = [s \in {x \in DOMAIN @ : FileAt(g, x) # f} |-> @[s]],
                             !.concepts = {c \in @ : FileAt(g, c[1]) # f}]
           /\ pending' = [i \in DOMAIN lost |-> Relinked(f, lost[i])]
           /\ versions' = versions \cup {g'}
    /\ UNCHANGED <<answer, walk, pc>>

LinkAgain ==
    /\ pc \in {"root", "out", "in"} /\ pending # NoPending
    /\ g' = [g EXCEPT !.edges = @ \o pending]
    /\ pending' = NoPending
    /\ versions' = versions \cup {g'}
    /\ UNCHANGED <<answer, walk, pc>>

(* The next request finds the server as it was.                            *)
NextRequest ==
    /\ pc = "done"
    /\ answer' = NoAnswer
    /\ pc' = "idle"
    /\ versions' = {}
    /\ UNCHANGED <<g, pending, walk>>

---------------------------------------------------------------------------
AskGraph ==
  /\ pc = "idle"
  /\ \/ \E s \in Targets, p \in DOMAIN MaxItems, markdown \in BOOLEAN : GetContext(s, p, markdown)
     \/ \E s \in Symbols(g) \cup {NoSymbol}, d \in Depths, m \in NodeLimits : Subtree(RootById(g, s), d, m)
     \/ \E s \in Targets, t \in Targets \cup {NoSymbol} : FindPath(s, t)
     \/ \E l \in Limits, h \in Hints, same \in BOOLEAN : Cycles(l, h, same)
     \/ \E l \in Limits, h \in Hints : Hotspots(l, h)
     \/ \E t \in Texts, scope \in DOMAIN MaxHops : Subsystem(t, scope)
     \/ \E a, b \in Texts : Communication(a, b)

AskLookup ==
    /\ pc = "idle" /\ g \in Lookups
    /\ \/ \E t \in Texts, h \in Hints : GetContextByName(t, h)
       \/ \E h \in Hints : RepositoryStats(h)
       \/ \E t \in Texts, h \in Hints, l \in Lines : ResolveForTool(t, h, l)
       \/ \E t \in Texts, h \in Hints, d \in Depths, m \in NodeLimits : Subtree(RootByName(g, t, h), d, m)
       \/ \E s \in Targets, p \in DOMAIN MaxItems : GetContextWithSource(s, p)
       \/ \E t, n \in Texts \cup {NoTarget} : t # NoTarget /\ ReadFileSkeleton(t, n)
       \/ \E t \in Texts, first, last \in Lines : ReadFileSnippet(t, first, last)
       \/ \E s \in Targets, deps \in BOOLEAN : ReadSymbolSource(s, deps)
       \/ \E min \in Limits, h \in Hints, l \in Limits : DuplicateLogic(min, h, l)
       \/ \E t \in Texts, h \in Hints : Open(t, h) \/ FindSymbolTool(t, h)
       \/ \E t \in Texts, h \in Hints, mode \in {"symbol", "text", "both", "semantic"}, l \in Limits,
             concepts \in BOOLEAN :
               \E list \in (IF mode \in {"symbol", "text"} THEN {} ELSE SemanticLists(l)) \cup {Degraded} :
                   Search(t, h, mode, l, concepts, list)

Explore ==
    \/ \E s \in Targets, d \in Depths, m \in NodeLimits, way \in Directions : BeginExplore(s, d, m, way)
    \/ FindRoot \/ ExpandOut \/ ExpandIn \/ EndExplore

Reindexing == LinkAgain \/ \E f \in g.files : ReplaceFile(f)

Next == AskGraph \/ AskLookup \/ Explore \/ Reindexing \/ NextRequest

Spec == Init /\ [][Next]_vars
============================================================================
