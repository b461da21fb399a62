---------------------------- MODULE Traversals -----------------------------
(***************************************************************************)
(* The tools that walk the graph: explore_graph and graph_subtree          *)
(* (breadth first from a root, capped in depth, nodes and edges),          *)
(* shortest_path, and dependency_cycles (depth first, each cycle kept once *)
(* in a canonical rotation).                                               *)
(***************************************************************************)
EXTENDS CodeGraph

CONSTANTS
    DepthCap,        \* deepest walk a caller may ask for
    NodeCap,         \* most nodes a walk may return
    DominantCount,   \* nodes of one file that call for a warning
    MaxCycles,       \* cycles after which the search for them stops
    MaxNodesPerCycle \* nodes of a cycle that are looked up

ASSUME CapAssumption ==
    DepthCap \in Nat /\ {NodeCap, DominantCount, MaxCycles} \subseteq Nat \ {0}

Clamp(n, low, high) == CASE n < low -> low [] n > high -> high [] OTHER -> n

---------------------------------------------------------------------------
(* The walk of explore_graph and graph_subtree. A queue entry is a symbol  *)
(* and its distance from the root; at and level are those of the entry     *)
(* being expanded.                                                         *)

Directions == {"outgoing", "incoming", "both"}

StartWalk(g, root, depth, max, direction, loops) ==
    [root |-> root, depth |-> AtMost(depth, DepthCap), max |-> Clamp(max, 1, NodeCap),
     out |-> direction # "incoming", in |-> direction # "outgoing", loops |-> loops,
     queue |-> <<<<root, 0>>>>, at |-> root, level |-> 0, reached |-> 0,
     nodes |-> {root}, seen |-> {root}, edges |-> {}, truncated |-> FALSE]

MaxEdges(w) == 3 * w.max
Full(w) == Cardinality(w.nodes) >= w.max \/ Cardinality(w.edges) >= MaxEdges(w)
Done(w) == w.truncated \/ w.queue = <<>>

(* An edge is kept once per kind; its far end joins the queue once, and    *)
(* the nodes if its row is still there.                                    *)
Visit(g, w, far, edge) ==
    LET new == far \notin w.seen
    IN  [w EXCEPT !.edges = @ \cup {edge},
                  !.seen  = @ \cup {far},
                  !.queue = IF new THEN Append(@, <<far, w.level + 1>>) ELSE @,
                  !.nodes = IF new /\ far \in Symbols(g) THEN @ \cup {far} ELSE @]

(* Mutant: the caps are only looked at after a statement.                  *)
Row_Uncapped(g, w, far, edge, loops) ==
    IF far = w.at /\ ~loops THEN w ELSE Visit(g, w, far, edge)

Row(g, w, far, edge, loops) ==
    CASE Full(w)                          -> [w EXCEPT !.truncated = TRUE]
      [] ~Full(w) /\ far = w.at /\ ~loops -> w
      [] OTHER                            -> Visit(g, w, far, edge)

Pop(w) ==
    LET entry == Head(w.queue)
    IN  [w EXCEPT !.queue = Tail(@), !.at = entry[1], !.level = entry[2],
                  !.reached = IF entry[2] > @ THEN entry[2] ELSE @]

(* The rows of one statement, in rowid order.                              *)
OutRows(g, s) == Which(LAMBDA e : e.src = s, g.edges)
InRows(g, s) == Which(LAMBDA e : e.tgt = s /\ e.src # NoSource, g.edges)

(* The check after the outgoing rows truncates a walk that is exactly full.*)
OutStep(g, w) ==
    LET rows == IF w.out THEN OutRows(g, w.at) ELSE <<>>
        next == FoldLeft(LAMBDA v, e : Row(g, v, e.tgt, <<w.at, e.tgt, e.kind>>, w.loops), w, rows)
    IN  IF Full(next) THEN [next EXCEPT !.truncated = TRUE] ELSE next

InStep(g, w) ==
    LET rows == IF w.in THEN InRows(g, w.at) ELSE <<>>
    IN  FoldLeft(LAMBDA v, e : Row(g, v, e.src, <<e.src, w.at, e.kind>>, FALSE), w, rows)

(* Mutant: expands the symbols at the depth asked for, too.                *)
Expanded_TooFar(w) == w.level <= w.depth

Expanded(w) == w.level < w.depth

(* The expansion of one entry of the queue, in one snapshot.               *)
Round(g, w) ==
    LET popped == Pop(w)
        out    == OutStep(g, popped)
    IN  CASE Done(w)                                              -> w
          [] ~Done(w) /\ ~Expanded(popped)                        -> popped
          [] ~Done(w) /\ Expanded(popped) /\ out.truncated        -> out
          [] OTHER                                                -> InStep(g, out)

(* A walk in one snapshot from start to end. A symbol joins the queue only *)
(* once, so that as many rounds as there are symbols empty it.             *)
Finish(g, w) == FoldLeft(LAMBDA v, i : Round(g, v), w, UpTo(Cardinality(Symbols(g))))

(* The file a warning names, if one: of two equally large ones, either.    *)
(* file maps the nodes to their files.                                     *)
DominantFiles(file) ==
    LET count(f) == Cardinality({n \in DOMAIN file : file[n] = f})
        large    == {f \in Range(file) :
                        count(f) >= DominantCount /\ 5 * count(f) > 2 * Cardinality(DOMAIN file)}
    IN  {f \in large : \A h \in large : count(h) <= count(f)}

(* The root by id, or the first symbol of that name in the hinted files.   *)
RootById(g, s) == IF s \in Symbols(g) THEN s ELSE NoSymbol
RootByName(g, n, hinted) ==
    LET rows == {s \in Symbols(g) : NameAt(g, s) = n /\ FileAt(g, s) \in hinted}
    IN  IF rows = {} THEN NoSymbol ELSE Min(rows)

NoWalk == [nodes |-> {}, edges |-> {}, truncated |-> FALSE, depth |-> 0, isolated |-> FALSE, dominant |-> {}]

(* Mutant: the subtree follows outgoing edges only.                        *)
GraphSubtree_Outgoing(g, root, depth, max) ==
    LET w == Finish(g, StartWalk(g, root, depth, max, "outgoing", TRUE))
    IN  IF root = NoSymbol THEN NoWalk
        ELSE [nodes |-> w.nodes, edges |-> w.edges, truncated |-> w.truncated,
              depth |-> w.reached, isolated |-> w.edges = {} /\ w.depth > 0,
              dominant |-> DominantFiles([n \in w.nodes |-> FileAt(g, n)])]

GraphSubtree(g, root, depth, max) ==
    LET w == Finish(g, StartWalk(g, root, depth, max, "both", TRUE))
    IN  IF root = NoSymbol THEN NoWalk
        ELSE [nodes |-> w.nodes, edges |-> w.edges, truncated |-> w.truncated,
              depth |-> w.reached, isolated |-> w.edges = {} /\ w.depth > 0,
              dominant |-> DominantFiles([n \in w.nodes |-> FileAt(g, n)])]

ExploreGraph(g, root, depth, max, direction) ==
    LET w == Finish(g, StartWalk(g, root, depth, max, direction, FALSE))
    IN  IF root = NoSymbol THEN NoWalk
        ELSE [nodes |-> w.nodes, edges |-> w.edges, truncated |-> w.truncated,
              depth |-> w.depth, isolated |-> FALSE, dominant |-> DominantFiles([n \in w.nodes |-> FileAt(g, n)])]

---------------------------------------------------------------------------
(* shortest_path: parent maps every symbol reached to the edge by which it *)
(* was reached first.                                                      *)

(* Mutant: a symbol reached again takes its parent from the last edge.     *)
Relax_LastParent(to, b, e) ==
    IF b.found \/ e.tgt \in DOMAIN b.parent \ ToSet(b.queue) THEN b
    ELSE [queue  |-> IF e.tgt \in ToSet(b.queue) THEN b.queue ELSE Append(b.queue, e.tgt),
          parent |-> (e.tgt :> e) @@ b.parent, found |-> e.tgt = to]

Relax(to, b, e) ==
    IF b.found \/ e.tgt \in DOMAIN b.parent THEN b
    ELSE [queue  |-> Append(b.queue, e.tgt),
          parent |-> [s \in DOMAIN b.parent \cup {e.tgt} |-> IF s = e.tgt THEN e ELSE b.parent[s]],
          found  |-> e.tgt = to]

SearchRound(g, to, b) ==
    CASE b.found \/ b.queue = <<>> -> b
      [] ~b.found /\ b.queue # <<>> /\ Head(b.queue) = to -> [b EXCEPT !.found = TRUE]
      [] OTHER -> FoldLeft(LAMBDA c, e : Relax(to, c, e), [b EXCEPT !.queue = Tail(@)],
                           OutRows(g, Head(b.queue)))

(* A symbol joins the queue only once here, too.                           *)
Bfs(g, to, b) == FoldLeft(LAMBDA c, i : SearchRound(g, to, c), b, UpTo(Cardinality(Symbols(g))))

(* From the far end back along the parents.                                *)
TraceBack(parent, from, t) ==
    LET e == parent[t.at]
    IN  IF t.at = from THEN t
        ELSE [at |-> e.src, path |-> <<<<e.src, t.at, e.kind>>>> \o t.path]

Trace(parent, from, to) ==
    LET start == [at |-> to, path |-> <<>>]
    IN  FoldLeft(LAMBDA t, i : TraceBack(parent, from, t), start, UpTo(Cardinality(DOMAIN parent))).path

(* The route a fetch literal in the source of s names. slices[s] lists,    *)
(* for each literal in the bytes the index remembers for s, read from the  *)
(* live file, the files whose path holds it ({} for one that names none).  *)
SuggestedConnector(g, slices, s) ==
    LET routes(files) == {r \in Symbols(g) : g.sym[r].kind = "route" /\ FileAt(g, r) \in files}
        hits          == SelectSeq(slices[s], LAMBDA files : routes(files) # {})
    IN  IF hits = <<>> THEN NoSymbol ELSE Min(routes(Head(hits)))

NoPath == [found |-> FALSE, distance |-> 0, edges |-> <<>>, missing |-> FALSE, connector |-> NoSymbol]

(* from and to are resolved already; NoSymbol is an endpoint not in g.     *)
ShortestPath(g, slices, from, to) ==
    LET b    == Bfs(g, to, [queue |-> <<from>>, parent |-> [s \in {from} |-> NoSource], found |-> FALSE])
        path == Trace(b.parent, from, to)
    IN  CASE NoSymbol \in {from, to} ->
                [NoPath EXCEPT !.missing = TRUE,
                     !.connector = IF from = NoSymbol THEN NoSymbol ELSE SuggestedConnector(g, slices, from)]
          [] NoSymbol \notin {from, to} /\ ~b.found ->
                [NoPath EXCEPT !.connector = SuggestedConnector(g, slices, from)]
          [] OTHER -> [NoPath EXCEPT !.found = TRUE, !.distance = Len(path), !.edges = path]

---------------------------------------------------------------------------
(* dependency_cycles: the nodes are the symbols and, negated, the files.   *)

FileNode(f) == 0 - f
SymbolNodes(g, scope) == {s \in Symbols(g) : FileAt(g, s) \in scope}
CycleNodes(g, scope) == {FileNode(f) : f \in g.files \cap scope} \cup SymbolNodes(g, scope)

(* A symbol depends on its file; an edge that no symbol encloses comes     *)
(* from the file, unless it only says that the file contains its target.   *)
SourceNode(e) == IF e.src = NoSource THEN FileNode(e.file) ELSE e.src

(* Mutant: the edge from a file to what it contains counts as one.         *)
CycleEdge_Containment(g, scope, e) ==
    e.file \in scope /\ e.tgt \in SymbolNodes(g, scope) /\ SourceNode(e) # e.tgt

CycleEdge(g, scope, e) ==
    /\ e.file \in scope
    /\ e.tgt \in SymbolNodes(g, scope)
    /\ SourceNode(e) # e.tgt
    /\ SourceNode(e) # FileNode(FileAt(g, e.tgt))

Adjacent(g, scope) ==
    [n \in CycleNodes(g, scope) |->
        LET out == Which(LAMBDA e : CycleEdge(g, scope, e) /\ SourceNode(e) = n, g.edges)
        IN  (IF n > 0 THEN <<FileNode(FileAt(g, n))>> ELSE <<>>)
                \o [i \in 1..Len(out) |-> out[i].tgt]]

(* A cycle found on the stack, turned so that its least node comes first.  *)
Canonical(cycle) ==
    LET least == CHOOSE i \in DOMAIN cycle : \A j \in DOMAIN cycle : cycle[i] <= cycle[j]
    IN  SubSeq(cycle, least, Len(cycle)) \o SubSeq(cycle, 1, least - 1)

(* The frames of the recursion: a node, and how many of its neighbours     *)
(* were followed.                                                          *)
PathOn(d) == [i \in DOMAIN d.frames |-> d.frames[i][1]]
OnStack(d, n) == SubSeq(PathOn(d), CHOOSE i \in DOMAIN d.frames : d.frames[i][1] = n, Len(d.frames))

KeepCycle(d, cycle) ==
    LET cycles == d.cycles \cup {Canonical(cycle)}
    IN  [d EXCEPT !.cycles = cycles, !.truncated = Cardinality(cycles) >= MaxCycles]

Enter(d, n) == [d EXCEPT !.visited = @ \cup {n}, !.frames = Append(@, <<n, 0>>)]

Follow(adj, d) ==
    LET n    == Last(d.frames)[1]
        i    == Last(d.frames)[2] + 1
        m    == adj[n][i]
        next == [d EXCEPT !.frames = Append(Front(@), <<n, i>>)]
    IN  CASE i > Len(adj[n])                                       -> [d EXCEPT !.frames = Front(@)]
          [] i <= Len(adj[n]) /\ m \in Range(PathOn(d))            -> KeepCycle(next, OnStack(d, m))
          [] i <= Len(adj[n]) /\ m \in d.visited \ Range(PathOn(d)) -> next
          [] OTHER                                                 -> Enter(next, m)

(* One step: the next neighbour of the innermost node, or the next root.   *)
Dfs(adj, d) ==
    CASE d.truncated \/ (d.frames = <<>> /\ d.roots = <<>>)  -> d
      [] ~d.truncated /\ d.frames # <<>>                     -> Follow(adj, d)
      [] OTHER -> LET next == [d EXCEPT !.roots = Tail(@)]
                  IN  IF Head(d.roots) \in d.visited THEN next ELSE Enter(next, Head(d.roots))

(* What there is to do at a node: follow each of its neighbours, leave it. *)
Slots(adj) == UNION {{n} \X (0..Len(adj[n])) : n \in DOMAIN adj}

(* Files are tried first. A root costs one step, and so does each slot.    *)
Roots(g, scope) ==
    LET files == InOrder(g.files \cap scope, <)
    IN  [i \in DOMAIN files |-> FileNode(files[i])] \o InOrder(SymbolNodes(g, scope), <)

FindCycles(g, scope) ==
    LET adj   == Adjacent(g, scope)
        roots == Roots(g, scope)
    IN  FoldLeft(LAMBDA d, i : Dfs(adj, d),
                 [visited |-> {}, frames |-> <<>>, roots |-> roots, cycles |-> {}, truncated |-> FALSE],
                 UpTo(Len(roots) + Cardinality(Slots(adj))))

NodeFile(g, n) == IF n < 0 THEN -n ELSE FileAt(g, n)
(* Only the nodes looked up count.                                         *)
CrossFile(g, cycle) ==
    Cardinality({NodeFile(g, cycle[i]) : i \in 1..AtMost(Len(cycle), MaxNodesPerCycle)}) > 1

(* Which cycles fill the limit is the order of a hash table's: only their  *)
(* number is fixed, cross-file ones first.                                 *)
DependencyCycles(g, limit, scope, sameFile) ==
    LET d        == FindCycles(g, scope)
        cross    == {c \in d.cycles : CrossFile(g, c)}
        eligible == IF sameFile THEN d.cycles ELSE cross
        returned == AtMost(Clamp(limit, 1, MaxCycles), Cardinality(eligible))
    IN  [cycles |-> d.cycles, cross |-> cross, returned |-> returned,
         truncated |-> d.truncated \/ Cardinality(eligible) > returned,
         examples |-> AtMost(3, Cardinality(d.cycles \ cross)),
         excluded |-> Cardinality(CycleNodes(g, scope)) - Cardinality(d.visited)]
============================================================================
