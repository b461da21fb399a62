----------------------------- MODULE QueryRules -----------------------------
(***************************************************************************)
(* What the answers of the query tools promise, each stated against a      *)
(* definition that does not walk, rank or pack the way the code does.      *)
(***************************************************************************)
EXTENDS Queries

Answered(tool) == pc = "done" /\ answer.tool = tool

(* Every query leaves the index consistent: each end of an edge is a       *)
(* symbol, and an answer is there exactly when a request is done.          *)
TypeOK ==
    /\ WellFormed(g)
    /\ pc \in {"idle", "root", "out", "in", "done"}
    /\ (answer.tool # "none") <=> (pc = "done")
    /\ (walk # NoWalk) <=> (pc \in {"root", "out", "in"})

---------------------------------------------------------------------------
(* The reference: who is within n steps of a symbol over a set of pairs.   *)

Steps(rows, out, in) ==
    (IF out THEN {<<e.src, e.tgt>> : e \in rows} ELSE {})
        \cup (IF in THEN {<<e.tgt, e.src>> : e \in rows} ELSE {})

Within(pairs, start, n) ==
    FoldLeft(LAMBDA S, i : S \cup {p[2] : p \in {q \in pairs : q[1] \in S}}, start, UpTo(n))

Sourced(graph) == {e \in Rows(graph) : e.src # NoSource}
Triples(rows) == {<<e.src, e.tgt, e.kind>> : e \in rows}
WalkSteps(graph, w) == Steps(Sourced(graph), w.out, w.in)

(* explore_graph over an index nobody replaced meanwhile: what it returns  *)
(* lies within the depth asked for, and an answer that does not say it is  *)
(* truncated holds all of it, each edge of a symbol it expanded and no     *)
(* self-loop.                                                              *)
ExploreComplete ==
    Answered("explore_graph") /\ Cardinality(versions) = 1 =>
        LET w     == answer.response
            near  == Within(WalkSteps(g, w), {w.root}, w.depth)
            inner == UNION {Within(WalkSteps(g, w), {w.root}, n) : n \in 0..(w.depth - 1)}
            real  == Triples({e \in Sourced(g) : /\ e.src # e.tgt
                                                 /\ (w.out /\ e.src \in inner) \/ (w.in /\ e.tgt \in inner)})
        IN  /\ w.nodes \subseteq near /\ w.edges \subseteq real
            /\ ~w.truncated => w.nodes = near /\ w.edges = real

(* explore_graph while a file is replaced between its statements: it may   *)
(* mix two states of the index, yet every edge and node was in one of      *)
(* them, no edge dangles, every node hangs on the root by the edges        *)
(* returned, and the caps hold.                                            *)
ExploreOfCall ==
    Answered("explore_graph") =>
        LET w    == answer.response
            ties == UNION {{<<e[1], e[2]>>, <<e[2], e[1]>>} : e \in w.edges}
        IN  /\ w.edges \subseteq UNION {Triples(Sourced(v)) : v \in versions}
            /\ w.nodes \subseteq UNION {Symbols(v) : v \in versions}
            /\ {t[1] : t \in ties} \subseteq w.nodes
            /\ w.nodes \subseteq Within(ties, {w.root}, Cardinality(w.nodes))
            /\ Cardinality(w.nodes) <= w.max /\ Cardinality(w.edges) <= MaxEdges(w)

(* graph_subtree, which explore_graph supersedes: unless one of the two is *)
(* truncated they give the same nodes, and the same edges but for the      *)
(* self-loops, which only the older tool returns.                          *)
ExploreReplacesSubtree ==
    Answered("graph_subtree") =>
        LET r == answer.request
            w == ExploreGraph(g, r.root, r.depth, r.max, "both")
        IN  ~w.truncated /\ ~answer.response.truncated =>
                /\ w.nodes = answer.response.nodes
                /\ w.edges = {e \in answer.response.edges : e[1] # e[2]}

(* shortest_path: it finds a path exactly when there is one, none is       *)
(* shorter, and its edges are rows that lead from one end to the other.    *)
PathShortest ==
    Answered("shortest_path") /\ ~answer.response.missing =>
        LET r     == answer.response
            from  == answer.request.from
            to    == answer.request.to
            far(n) == Within(Steps(Sourced(g), TRUE, FALSE), {from}, n)
            tail(i) == IF i = 0 THEN from ELSE r.edges[i][2]
        IN  /\ r.found <=> to \in far(Cardinality(Symbols(g)))
            /\ r.found => /\ r.distance = Len(r.edges)
                          /\ to \in far(r.distance)
                          /\ r.distance > 0 => to \notin far(r.distance - 1)
                          /\ ToSet(r.edges) \subseteq Triples(Sourced(g))
                          /\ \A i \in 1..Len(r.edges) : r.edges[i][1] = tail(i - 1)
                          /\ tail(Len(r.edges)) = to

(* What depends on what, edge by edge: an edge without a source is nobody's. *)
Attributed(graph, scope) ==
    {<<e.src, e.tgt>> : e \in {r \in Rows(graph) : /\ r.file \in scope /\ FileAt(graph, r.tgt) \in scope
                                                   /\ r.src \notin {NoSource, r.tgt}}}

(* What dependency_cycles searches along: besides, a symbol leads to its    *)
(* file, and an edge without a source from its file to another file's       *)
(* symbol.                                                                  *)
DependsOn(graph, scope) ==
    LET rows == {e \in Rows(graph) : e.file \in scope /\ FileAt(graph, e.tgt) \in scope}
    IN  Attributed(graph, scope)
            \cup {<<s, FileNode(FileAt(graph, s))>> : s \in {t \in Symbols(graph) : FileAt(graph, t) \in scope}}
            \cup {<<FileNode(e.file), e.tgt>> :
                     e \in {r \in rows : r.src = NoSource /\ r.file # FileAt(graph, r.tgt)}}

(* dependency_cycles: when a symbol comes back to itself along edges with a *)
(* source, some cycle is found, wherever the search entered and whatever it *)
(* had visited; each is real, through distinct nodes, and listed once; an   *)
(* answer not truncated returns all. No cycle along edges without a source  *)
(* is asked for; that there are any is what UnattributedIgnored denies.     *)
CyclesFaithful ==
    Answered("dependency_cycles") =>
        LET r     == answer.response
            edges == Attributed(g, answer.request.scope)
            pairs == DependsOn(g, answer.request.scope)
            ends  == {p[1] : p \in edges}
            next(n) == {p[2] : p \in {q \in edges : q[1] = n}}
            listed == IF answer.request.same THEN r.cycles ELSE r.cross
        IN  /\ (\E n \in ends : n \in Within(edges, next(n), Cardinality(ends))) => r.cycles # {}
            /\ \A c \in r.cycles : /\ IsInjective(c)
                                   /\ \A i \in DOMAIN c : <<c[i], c[(i % Len(c)) + 1]>> \in pairs
            /\ \A c, d \in r.cycles : c # d /\ ToSet(c) = ToSet(d) =>
                   \A k \in DOMAIN c : SubSeq(c, k, Len(c)) \o SubSeq(c, 1, k - 1) # d
            /\ ~r.truncated => r.returned = Cardinality(listed)

(* The test of dependency_cycles says that edges without a source must not  *)
(* form cycles, and graph_subtree and hotspots that it excludes them: each  *)
(* cycle runs along edges that a symbol is the source of.                   *)
UnattributedIgnored ==
    Answered("dependency_cycles") =>
        \A c \in answer.response.cycles : \A i \in DOMAIN c :
            <<c[i], c[(i % Len(c)) + 1]>> \in Attributed(g, answer.request.scope)

(* get_context: who calls whom reads the same from both ends, whatever the *)
(* confidence of the rows, and a name it lists as a neighbour is one step  *)
(* away in the graph explore_graph walks.                                  *)
NeighboursAgree ==
    Answered("get_context") /\ answer.request.sym # NoSymbol =>
        LET c == answer.request
            named(n) == {ContextById(g, s) : s \in {t \in Symbols(g) : NameAt(g, t) = n}}
            near == {NameAt(g, s) : s \in Within(Steps(Sourced(g), TRUE, TRUE), {c.sym}, 1) \ {c.sym}}
            lists == {l \in ToSet(answer.response.lists) : l.key \in
                         {"callers", "callees", "reverse_dependencies", "forward_dependencies"}}
        IN  /\ \A n \in Callers(g, c) : \E d \in named(n) : c.name \in Callees(g, d)
            /\ \A n \in Callees(g, c) : \E d \in named(n) : c.name \in Callers(g, d)
            /\ \A n \in ReverseDependencies(g, c) : \E d \in named(n) : c.name \in ForwardDependencies(g, d)
            /\ \A n \in ForwardDependencies(g, c) : \E d \in named(n) : c.name \in ReverseDependencies(g, d)
            /\ \A l \in lists : l.kept \subseteq near

(* discover_subsystem: the symbols, the files and the two lists of files   *)
(* agree, also when the cap on files cut them; no file both belongs and    *)
(* consumes; a symbol is there for a chain of edges from a seed, no longer *)
(* than the hops of the scope; uncut, no seed is lost.                     *)
SubsystemConsistent ==
    Answered("subsystem_stats") =>
        LET d     == answer.response
            hops  == MaxHops[answer.request.scope]
            seeds == Seeds(g, answer.request.hits)
        IN  /\ d.files = d.matched /\ Cardinality(d.files) <= MaxSubsystemFiles
            /\ d.consumers \cap d.files = {} /\ d.routes \subseteq d.entrypoints
            /\ \A c \in d.clusters : c \subseteq d.files
            /\ d.symbols \subseteq Within(Steps(Sourced(g), TRUE, TRUE), seeds, hops)
            /\ ~d.truncated => seeds \subseteq d.symbols

(* resolve_symbol never guesses: the symbol it settles on is in the hinted *)
(* files, has the name asked for, in other capitals only if no symbol has  *)
(* it as it stands, and without a line no other candidate there differs in *)
(* range. When it finds nothing there is nothing.                          *)
ResolveNeverGuesses ==
    Answered("resolve_symbol") =>
        LET q     == answer.request
            r     == answer.response
            exact == {s \in Symbols(g) : NameAt(g, s) = q.text}
            rows  == IF exact # {} THEN exact ELSE {s \in Symbols(g) : Lower[NameAt(g, s)] = Lower[q.text]}
            range(s) == <<FileAt(g, s), g.sym[s].line, g.sym[s].end>>
        IN  /\ r.candidates \subseteq rows
            /\ r = NotFound <=> rows = {}
            /\ r.kind = "symbol" =>
                  \A s \in r.candidates :
                      /\ FileAt(g, s) \in q.hint
                      /\ q.line = NoLine => \A t \in rows : FileAt(g, t) \in q.hint => range(t) = range(s)

(* search_codebase tells what it leaves out: without the vectors and the   *)
(* concepts it returns no more than the limit and, unless it says it is    *)
(* truncated, all it found; of the results for one name one at most claims *)
(* to be the exact match, and none of the others stands before it.         *)
SearchTells ==
    Answered("search_codebase") /\ answer.response.results = answer.request.legs[1] =>
        LET q == answer.request
            r == answer.response.results
            symbol(i) == r[i].leg = 1 /\ r[i].kind # "file_rollup"
        IN  /\ q.mode \in {"symbol", "text"} /\ ~answer.response.truncated => q.found \subseteq ToSet(r)
            /\ Len(r) <= q.limit + ConceptCap
            /\ \A i, j \in DOMAIN r :
                  i < j /\ symbol(i) /\ symbol(j) /\ r[i].name = r[j].name => ~r[j].exact

(* rrf_fuse: a result that precedes another in every list that has the     *)
(* other precedes it in the fused list too, and is not the one cut off;    *)
(* none is there twice. (A list that holds a name and path twice adds up   *)
(* both ranks and is left out.)                                            *)
FusionFair ==
    LET fused == Answered("search_codebase") /\ answer.request.mode = "both"
                     /\ answer.request.legs[2] # Degraded
        keys(list) == [i \in DOMAIN list |-> Key(list[i])]
    IN  fused =>
        LET legs == [k \in 1..2 |-> keys(answer.request.legs[k])]
            r    == keys(answer.response.results)
            before(list, a, b) == \E i, j \in DOMAIN list : i < j /\ list[i] = a /\ list[j] = b
            beats(a, b) == \A k \in 1..2 : b \in ToSet(legs[k]) => before(legs[k], a, b)
        IN  (\A k \in 1..2 : IsInjective(legs[k])) =>
                /\ IsInjective(r)
                /\ \A a \in UNION {ToSet(legs[k]) : k \in 1..2}, b \in ToSet(r) :
                      a # b /\ beats(a, b) => before(r, a, b)

(* read_file_skeleton: each line of the file is shown once and in order,   *)
(* or goes with exactly one collapsed symbol, and no collapsed symbol has  *)
(* the whole target in it.                                                 *)
SkeletonShows ==
    Answered("read_file_skeleton") /\ answer.response.ok =>
        LET f     == answer.request.file
            out   == answer.response.out
            lines == {i \in ToSet(out) : i > 0}
            gone  == {s \in Symbols(g) : 0 - s \in ToSet(out)}
            span(s) == g.sym[s].line..g.sym[s].end
            target == {s \in Symbols(g) : FileAt(g, s) = f /\ NameAt(g, s) = answer.request.target}
            asked  == answer.request.target # NoTarget /\ target # {} /\ span(Min(target)) # {}
        IN  /\ IsInjective(out)
            /\ \A i, j \in DOMAIN out : i < j /\ {out[i], out[j]} \subseteq lines => out[i] < out[j]
            /\ \A i \in DOMAIN Live[f].text : (i \in lines) <=> i \notin UNION {span(s) : s \in gone}
            /\ \A s, t \in gone : s # t => span(s) \cap span(t) = {}
            /\ asked => \A s \in gone : ~(span(Min(target)) \subseteq span(s))

(* read_symbol_source with dependencies: whatever the symbol has an edge   *)
(* to is returned, stubbed or named as omitted, for no other reason than   *)
(* its kind or the cap; a source comes from a symbol at the other end of   *)
(* an edge, although it is looked up again by name alone.                  *)
DependenciesTold ==
    Answered("read_symbol_source") /\ answer.request.dependencies =>
        LET r       == answer.response
            targets == {e.tgt : e \in {x \in Rows(g) : x.src = answer.request.sym}}
            valued  == {t \in targets : g.sym[t].kind \notin {"type", "interface"}}
            range(s) == <<FileAt(g, s), g.sym[s].line, g.sym[s].end>>
        IN  /\ {d.name : d \in ToSet(r.taken)} \cup ToSet(r.omitted) = {NameAt(g, t) : t \in targets}
            /\ Len(r.taken) + Len(r.omitted) = Cardinality(targets)
            /\ Len(r.taken) = AtMost(MaxDeps, Cardinality(valued))
            /\ \A d \in ToSet(r.taken) : d.sym # NoSymbol => \E t \in valued : range(t) = range(d.sym)

(* The two tools that leave source out account for all of it.              *)
SourcesTold == SkeletonShows /\ DependenciesTold
============================================================================
