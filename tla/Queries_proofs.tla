--------------------------- MODULE Queries_proofs ---------------------------
(***************************************************************************)
(* Theorems about the query tools, for any index the schema allows and any *)
(* requests.                                                               *)
(***************************************************************************)
EXTENDS Traversals_proofs

----------------------------------------------------------------------------
(* explore_graph while the index changes *)

Ties(w) == UNION {{<<e[1], e[2]>>, <<e[2], e[1]>>} : e \in w.edges}

(* Any set with the root that the edges do not leave has all the nodes *)
Hangs(w) == \A S : w.root \in S /\ Closed(Ties(w), S) => w.seen \subseteq S

(* The walk of a call that has seen the indexes vs *)
Tidy(w, vs) ==
    /\ IsWalk(w) /\ Capped(w)
    /\ w.root \in w.seen /\ w.at \in w.seen
    /\ \A i \in DOMAIN w.queue : w.queue[i][1] \in w.seen
    /\ \A e \in w.edges : e[1] \in w.seen /\ e[2] \in w.seen
    /\ w.edges \subseteq UNION {Triples(Sourced(v)) : v \in vs}
    /\ w.seen \subseteq UNION {Symbols(v) : v \in vs}
    /\ Hangs(w)

(* The offers made at a symbol are rows of the index *)
Genuine(graph, at, offers) ==
    \A o \in offers : /\ o[1] \in Symbols(graph) /\ o[2] \in Triples(Sourced(graph))
                      /\ \/ o[2][1] = at /\ o[2][2] = o[1]
                         \/ o[2][2] = at /\ o[2][1] = o[1]

LEMMA OffersGenuine ==
  ASSUME NEW graph, WellFormed(graph), NEW at \in Nat \ {NoSymbol}, NEW loops
  PROVE  Genuine(graph, at, OutOffers(graph, at, loops)) /\ Genuine(graph, at, InOffers(graph, at))
<1>1. \A e \in Rows(graph) : e.tgt \in Symbols(graph) /\ (e.src # NoSource => e.src \in Symbols(graph))
  BY DEF WellFormed
<1>2. ASSUME NEW o \in OutOffers(graph, at, loops)
      PROVE  o[1] \in Symbols(graph) /\ o[2] \in Triples(Sourced(graph)) /\ o[2][1] = at /\ o[2][2] = o[1]
  <2>1. PICK e \in Rows(graph) : e.src = at /\ o = <<e.tgt, <<at, e.tgt, e.kind>>>>
    BY DEF OutOffers
  <2>2. e \in Sourced(graph)
    BY <2>1 DEF Sourced, NoSymbol, NoSource
  <2> QED
    BY <1>1, <2>1, <2>2 DEF Triples
<1>3. ASSUME NEW o \in InOffers(graph, at)
      PROVE  o[1] \in Symbols(graph) /\ o[2] \in Triples(Sourced(graph)) /\ o[2][2] = at /\ o[2][1] = o[1]
  <2>1. PICK e \in Rows(graph) : e.tgt = at /\ e.src # NoSource /\ o = <<e.src, <<e.src, at, e.kind>>>>
    BY DEF InOffers
  <2>2. e \in Sourced(graph)
    BY <2>1 DEF Sourced
  <2> QED
    BY <1>1, <2>1, <2>2 DEF Triples
<1> QED
  BY <1>2, <1>3 DEF Genuine

LEMMA TidyTakes ==
  ASSUME NEW w, NEW v, NEW vs, NEW graph \in vs, NEW offers,
         Tidy(w, vs), Progress(w, v, offers), Genuine(graph, w.at, offers)
  PROVE  Tidy(v, vs)
<1>1. IsWalk(v) /\ SameEntry(w, v) /\ Capped(v) /\ Takes(w, v, offers) /\ Queues(w, v) /\ IsWalk(w)
  BY DEF Tidy, Progress
<1>2. v.root \in v.seen /\ v.at \in v.seen
  BY <1>1 DEF Tidy, SameEntry, Takes
<1>3. \A i \in DOMAIN v.queue : v.queue[i][1] \in v.seen
  <2>1. /\ DOMAIN w.queue = 1..Len(w.queue) /\ DOMAIN v.queue = 1..Len(v.queue)
        /\ Len(w.queue) \in Nat /\ Len(v.queue) \in Nat
    BY <1>1 DEF IsWalk
  <2> TAKE i \in DOMAIN v.queue
  <2>2. CASE i <= Len(w.queue)
    BY <1>1, <2>1, <2>2 DEF Queues, Takes, Tidy
  <2>3. CASE ~(i <= Len(w.queue))
    BY <1>1, <2>1, <2>3 DEF Queues
  <2> QED
    BY <2>2, <2>3
<1>4. ASSUME NEW e \in v.edges
      PROVE  /\ e[1] \in v.seen /\ e[2] \in v.seen
             /\ e \in UNION {Triples(Sourced(u)) : u \in vs}
  <2>1. CASE e \in w.edges
    BY <1>1, <2>1 DEF Tidy, Takes
  <2>2. CASE e \notin w.edges
    <3>1. PICK x \in v.seen : <<x, e>> \in offers
      BY <1>1, <2>2 DEF Takes
    <3>2. e \in Triples(Sourced(graph)) /\ ((e[1] = w.at /\ e[2] = x) \/ (e[2] = w.at /\ e[1] = x))
      BY <3>1 DEF Genuine
    <3> QED
      BY <1>1, <1>2, <3>1, <3>2 DEF SameEntry
  <2> QED
    BY <2>1, <2>2
<1>5. v.seen \subseteq UNION {Symbols(u) : u \in vs}
  <2> SUFFICES ASSUME NEW x \in v.seen PROVE x \in UNION {Symbols(u) : u \in vs}
    OBVIOUS
  <2>1. CASE x \in w.seen
    BY <2>1 DEF Tidy
  <2>2. CASE x \notin w.seen
    <3>1. PICK e \in v.edges : <<x, e>> \in offers
      BY <1>1, <2>2 DEF Takes
    <3>2. x \in Symbols(graph)
      BY <3>1 DEF Genuine
    <3> QED
      BY <3>2
  <2> QED
    BY <2>1, <2>2
<1>6. Hangs(v)
  <2> SUFFICES ASSUME NEW S, v.root \in S, Closed(Ties(v), S) PROVE v.seen \subseteq S
    BY DEF Hangs
  <2>1. \A e \in v.edges : (e[1] \in S => e[2] \in S) /\ (e[2] \in S => e[1] \in S)
    <3> TAKE e \in v.edges
    <3>1. <<e[1], e[2]>> \in Ties(v) /\ <<e[2], e[1]>> \in Ties(v)
      BY DEF Ties
    <3> QED
      BY <3>1 DEF Closed
  <2>2. Closed(Ties(w), S)
    <3> SUFFICES ASSUME NEW p \in Ties(w), p[1] \in S PROVE p[2] \in S
      BY DEF Closed
    <3>1. PICK e \in w.edges : p = <<e[1], e[2]>> \/ p = <<e[2], e[1]>>
      BY DEF Ties
    <3> QED
      BY <1>1, <2>1, <3>1 DEF Takes
  <2>3. w.seen \subseteq S
    BY <1>1, <2>2 DEF Tidy, Hangs, SameEntry
  <2> SUFFICES ASSUME NEW x \in v.seen, x \notin w.seen PROVE x \in S
    BY <2>3
  <2>4. PICK e \in v.edges : <<x, e>> \in offers
    BY <1>1 DEF Takes
  <2>5. w.at \in S /\ ((e[1] = w.at /\ e[2] = x) \/ (e[2] = w.at /\ e[1] = x))
    BY <2>3, <2>4 DEF Tidy, Genuine
  <2> QED
    BY <2>1, <2>5
<1> QED
  BY <1>1, <1>2, <1>3, <1>4, <1>5, <1>6 DEF Tidy

LEMMA TidyLonger ==
  ASSUME NEW w, NEW vs, NEW us, vs \subseteq us, Tidy(w, vs)
  PROVE  Tidy(w, us)
<1>1. /\ w.edges \subseteq UNION {Triples(Sourced(v)) : v \in us}
      /\ w.seen \subseteq UNION {Symbols(v) : v \in us}
  BY DEF Tidy
<1> QED
  BY <1>1 DEF Tidy

LEMMA PopFields ==
  ASSUME NEW w, IsWalk(w), w.queue # <<>>
  PROVE  LET p == Pop(w)
         IN  /\ IsWalk(p)
             /\ p.root = w.root /\ p.depth = w.depth /\ p.max = w.max /\ p.out = w.out /\ p.in = w.in
             /\ p.loops = w.loops /\ p.seen = w.seen /\ p.nodes = w.nodes /\ p.edges = w.edges
             /\ p.truncated = w.truncated
             /\ p.queue = Tail(w.queue) /\ p.at = w.queue[1][1] /\ p.level = w.queue[1][2]
             /\ 1 \in DOMAIN w.queue /\ Len(p.queue) = Len(w.queue) - 1
             /\ \A i \in DOMAIN p.queue : i + 1 \in DOMAIN w.queue /\ p.queue[i] = w.queue[i + 1]
<1> DEFINE p == Pop(w)
           entry == w.queue[1]
<1>1. /\ w.queue \in Seq(Nat \X Nat) /\ entry = Head(w.queue) /\ entry \in Nat \X Nat
      /\ 1 \in DOMAIN w.queue /\ Tail(w.queue) \in Seq(Nat \X Nat)
      /\ \A i \in DOMAIN Tail(w.queue) : i + 1 \in DOMAIN w.queue /\ Tail(w.queue)[i] = w.queue[i + 1]
      /\ Len(Tail(w.queue)) = Len(w.queue) - 1
  <2> DEFINE q == w.queue
             X == Nat \X Nat
  <2>1. q \in Seq(X) /\ q # <<>>
    BY DEF IsWalk
  <2> HIDE DEF q, X
  <2>2. Len(q) \in Nat /\ DOMAIN q = 1..Len(q) /\ 1 \in DOMAIN q
    BY <2>1
  <2>3. Head(q) = q[1] /\ q[1] \in X /\ Tail(q) \in Seq(X) /\ Len(Tail(q)) = Len(q) - 1
    BY <2>1, <2>2
  <2>4. \A i \in DOMAIN Tail(q) : i + 1 \in DOMAIN q /\ Tail(q)[i] = q[i + 1]
    <3>1. DOMAIN Tail(q) = 1..(Len(q) - 1)
      BY <2>1, <2>2, <2>3
    <3> QED
      BY <2>1, <2>2, <3>1
  <2> QED
    BY <2>1, <2>2, <2>3, <2>4 DEF q, X
<1>2. entry[2] \in Nat /\ w.reached \in Nat
  BY <1>1 DEF IsWalk
<1>3. p = [root |-> w.root, depth |-> w.depth, max |-> w.max, out |-> w.out, in |-> w.in,
            loops |-> w.loops, queue |-> Tail(w.queue), at |-> entry[1], level |-> entry[2],
            reached |-> IF entry[2] > w.reached THEN entry[2] ELSE w.reached, nodes |-> w.nodes,
            seen |-> w.seen, edges |-> w.edges, truncated |-> w.truncated]
  <2>1. Head(w.queue) = entry
    BY <1>1
  <2> DEFINE deep == IF entry[2] > w.reached THEN entry[2] ELSE w.reached
  <2> HIDE DEF entry
  <2>2. p = [w EXCEPT !.queue = Tail(w.queue), !.at = entry[1], !.level = entry[2], !.reached = deep]
    <3>1. p = [w EXCEPT !.queue = Tail(@), !.at = entry[1], !.level = entry[2],
                        !.reached = IF entry[2] > @ THEN entry[2] ELSE @]
      BY <2>1 DEF Pop
    <3> QED
      BY <3>1
  <2> HIDE DEF p, deep
  <2>3. p = [root |-> w.root, depth |-> w.depth, max |-> w.max, out |-> w.out, in |-> w.in,
            loops |-> w.loops, queue |-> Tail(w.queue), at |-> entry[1], level |-> entry[2],
            reached |-> deep, nodes |-> w.nodes,
            seen |-> w.seen, edges |-> w.edges, truncated |-> w.truncated]
    BY <2>2 DEF IsWalk
  <2> QED
    BY <2>3 DEF deep
<1> HIDE DEF p, entry
<1>4. IsWalk(p)
  BY <1>1, <1>2, <1>3 DEF IsWalk
<1> QED
  BY <1>1, <1>3, <1>4 DEF p, entry

LEMMA TidyPops == ASSUME NEW w, NEW vs, Tidy(w, vs), w.queue # <<>> PROVE Tidy(Pop(w), vs)
<1> DEFINE p == Pop(w)
<1>1. /\ IsWalk(p) /\ p.root = w.root /\ p.max = w.max /\ p.seen = w.seen /\ p.nodes = w.nodes
      /\ p.edges = w.edges /\ p.at = w.queue[1][1] /\ 1 \in DOMAIN w.queue
      /\ \A i \in DOMAIN p.queue : i + 1 \in DOMAIN w.queue /\ p.queue[i] = w.queue[i + 1]
  BY PopFields DEF Tidy
<1> HIDE DEF p
<1>2. Capped(p) /\ Hangs(p)
  BY <1>1 DEF Tidy, Capped, MaxEdges, Hangs, Ties
<1>3. Tidy(p, vs)
  BY <1>1, <1>2 DEF Tidy
<1> QED
  BY <1>3 DEF p

Started(w, root, depth, max, direction, loops) ==
    /\ IsWalk(w) /\ Capped(w) /\ w.root = root /\ w.at = root /\ w.level = 0
    /\ w.seen = {root} /\ w.edges = {} /\ ~w.truncated /\ w.loops = loops
    /\ w.queue = <<<<root, 0>>>> /\ w.depth = AtMost(depth, DepthCap) /\ w.max = Clamp(max, 1, NodeCap)
    /\ w.out = (direction # "incoming") /\ w.in = (direction # "outgoing")

LEMMA StartFields ==
  ASSUME NEW graph, NEW root \in Nat \ {NoSymbol}, NEW depth \in Nat, NEW max \in Nat,
         NEW direction, NEW loops \in BOOLEAN
  PROVE  Started(StartWalk(graph, root, depth, max, direction, loops), root, depth, max, direction, loops)
<1> DEFINE w == StartWalk(graph, root, depth, max, direction, loops)
<1>1. AtMost(depth, DepthCap) \in Nat /\ Clamp(max, 1, NodeCap) \in Nat \ {0}
  BY CapAssumption DEF AtMost, Clamp
<1>2. /\ IsFiniteSet({root}) /\ Cardinality({root}) = 1 /\ IsFiniteSet({}) /\ Cardinality({}) = 0
      /\ <<<<root, 0>>>> \in Seq(Nat \X Nat)
  <2>1. <<root, 0>> \in Nat \X Nat
    OBVIOUS
  <2>2. <<<<root, 0>>>> \in Seq(Nat \X Nat)
    BY <2>1
  <2>3. IsFiniteSet({root}) /\ Cardinality({root}) = 1 
    BY FS_Singleton
  <2>4. IsFiniteSet({}) /\ Cardinality({}) = 0
    BY FS_EmptySet
  <2> QED
    BY <2>2, <2>3, <2>4
<1>3. w = [root |-> root, depth |-> AtMost(depth, DepthCap), max |-> Clamp(max, 1, NodeCap),
           out |-> direction # "incoming", in |-> direction # "outgoing", loops |-> loops,
           queue |-> <<<<root, 0>>>>, at |-> root, level |-> 0, reached |-> 0,
           nodes |-> {root}, seen |-> {root}, edges |-> {}, truncated |-> FALSE]
  BY DEF StartWalk
<1> HIDE DEF w
<1>4. IsWalk(w)
  BY <1>1, <1>2, <1>3 DEF IsWalk
<1>5. Capped(w)
  BY <1>1, <1>2, <1>3 DEF Capped, MaxEdges
<1> QED
  BY <1>3, <1>4, <1>5 DEF w, Started

LEMMA TidyStarts ==
  ASSUME NEW graph, NEW root \in Symbols(graph), root \in Nat \ {NoSymbol}, NEW depth \in Nat, NEW max \in Nat,
         NEW direction, NEW loops \in BOOLEAN
  PROVE  Tidy(StartWalk(graph, root, depth, max, direction, loops), {graph})
<1> DEFINE w == StartWalk(graph, root, depth, max, direction, loops)
<1>1. /\ IsWalk(w) /\ Capped(w) /\ w.root = root /\ w.at = root /\ w.seen = {root} /\ w.edges = {}
      /\ w.queue = <<<<root, 0>>>>
  <2>1. Started(w, root, depth, max, direction, loops)
    BY StartFields
  <2> QED
    BY <2>1 DEF Started
<1> HIDE DEF w
<1>2. \A i \in DOMAIN w.queue : w.queue[i][1] = root
  BY <1>1
<1>3. Hangs(w)
  BY <1>1 DEF Hangs
<1>4. Tidy(w, {graph})
  BY <1>1, <1>2, <1>3 DEF Tidy
<1> QED
  BY <1>4 DEF w

(* What the answer says then *)
OfCall(w, vs) ==
    LET ties == Ties(w)
    IN  /\ w.edges \subseteq UNION {Triples(Sourced(v)) : v \in vs}
        /\ w.nodes \subseteq UNION {Symbols(v) : v \in vs}
        /\ {t[1] : t \in ties} \subseteq w.nodes
        /\ w.nodes \subseteq Within(ties, {w.root}, Cardinality(w.nodes))
        /\ Cardinality(w.nodes) <= w.max /\ Cardinality(w.edges) <= MaxEdges(w)

LEMMA TidyAnswers == ASSUME NEW w, NEW vs, Tidy(w, vs) PROVE OfCall(w, vs)
<1>1. w.nodes = w.seen /\ IsFiniteSet(w.nodes)
  BY DEF Tidy, IsWalk
<1>2. \A t \in Ties(w) : t[1] \in w.nodes /\ t[2] \in w.nodes
  <2> TAKE t \in Ties(w)
  <2>1. PICK e \in w.edges : t = <<e[1], e[2]>> \/ t = <<e[2], e[1]>>
    BY DEF Ties
  <2> QED
    BY <1>1, <2>1 DEF Tidy
<1> DEFINE near == Within(Ties(w), {w.root}, Cardinality(w.nodes))
<1>3. w.root \in near
  <2>1. Cardinality(w.nodes) \in Nat
    BY <1>1, FS_CardinalityType
  <2>2. Within(Ties(w), {w.root}, 0) \subseteq near
    BY <2>1, WithinMonotone
  <2> QED
    BY <2>2, WithinZero
<1>4. Closed(Ties(w), near)
  <2>1. Closed(Ties(w), w.nodes) /\ {w.root} \subseteq w.nodes
    BY <1>1, <1>2 DEF Closed, Tidy
  <2> QED
    BY <1>1, <2>1, WithinCloses
<1> HIDE DEF near
<1>5. w.nodes \subseteq near
  BY <1>1, <1>3, <1>4 DEF Tidy, Hangs
<1> QED
  BY <1>1, <1>2, <1>5 DEF OfCall, Tidy, Capped, near

----------------------------------------------------------------------------
(* The tools that answer in one step *)

Answers(tool) ==
    /\ pc = "idle" /\ pc' = "done" /\ versions' = {g} /\ UNCHANGED <<g, pending, walk>>
    /\ answer'.tool = tool

LEMMA RespondAnswers ==
  ASSUME NEW tool, NEW request, NEW response, Respond(tool, request, response)
  PROVE  Answers(tool) /\ answer'.request = request /\ answer'.response = response
BY DEF Respond, Answers

GraphTools ==
    {"get_context", "graph_subtree", "shortest_path", "dependency_cycles", "architectural_hotspots",
     "subsystem_stats", "subsystem_communication"}
LookupTools ==
    {"get_context", "repository_stats", "resolve_symbol", "graph_subtree", "read_file_skeleton",
     "read_file_snippet", "read_symbol_source", "read_symbol_source_by_id", "find_duplicate_logic",
     "resolve_any", "resolve_subsystem", "find_symbol", "search_codebase"}

LEMMA GraphAnswers == ASSUME AskGraph PROVE \E tool \in GraphTools : Answers(tool)
<1>1. ASSUME NEW s, NEW p, NEW markdown, GetContext(s, p, markdown) PROVE Answers("get_context")
  BY <1>1, RespondAnswers DEF GetContext
<1>2. ASSUME NEW s, NEW d, NEW m, Subtree(s, d, m) PROVE Answers("graph_subtree")
  BY <1>2, RespondAnswers DEF Subtree
<1>3. ASSUME NEW s, NEW t, FindPath(s, t) PROVE Answers("shortest_path")
  BY <1>3, RespondAnswers DEF FindPath
<1>4. ASSUME NEW l, NEW h, NEW same, Cycles(l, h, same) PROVE Answers("dependency_cycles")
  BY <1>4, RespondAnswers DEF Cycles
<1>5. ASSUME NEW l, NEW h, Hotspots(l, h) PROVE Answers("architectural_hotspots")
  BY <1>5, RespondAnswers DEF Hotspots
<1>6. ASSUME NEW t, NEW scope, Subsystem(t, scope) PROVE Answers("subsystem_stats")
  BY <1>6, RespondAnswers DEF Subsystem
<1>7. ASSUME NEW a, NEW b, Communication(a, b) PROVE Answers("subsystem_communication")
  BY <1>7, RespondAnswers DEF Communication
<1> QED
  BY <1>1, <1>2, <1>3, <1>4, <1>5, <1>6, <1>7 DEF AskGraph, GraphTools

LEMMA LookupAnswers == ASSUME AskLookup PROVE \E tool \in LookupTools : Answers(tool)
<1>1. ASSUME NEW t, NEW h, GetContextByName(t, h) PROVE Answers("get_context")
  BY <1>1, RespondAnswers DEF GetContextByName
<1>2. ASSUME NEW h, RepositoryStats(h) PROVE Answers("repository_stats")
  BY <1>2, RespondAnswers DEF RepositoryStats
<1>3. ASSUME NEW t, NEW h, NEW l, ResolveForTool(t, h, l) PROVE Answers("resolve_symbol")
  BY <1>3, RespondAnswers DEF ResolveForTool
<1>4. ASSUME NEW s, NEW d, NEW m, Subtree(s, d, m) PROVE Answers("graph_subtree")
  BY <1>4, RespondAnswers DEF Subtree
<1>5. ASSUME NEW s, NEW p, GetContextWithSource(s, p) PROVE Answers("get_context")
  BY <1>5, RespondAnswers DEF GetContextWithSource
<1>6. ASSUME NEW t, NEW n, ReadFileSkeleton(t, n) PROVE Answers("read_file_skeleton")
  BY <1>6, RespondAnswers DEF ReadFileSkeleton
<1>7. ASSUME NEW t, NEW first, NEW last, ReadFileSnippet(t, first, last) PROVE Answers("read_file_snippet")
  BY <1>7, RespondAnswers DEF ReadFileSnippet
<1>8. ASSUME NEW s, NEW deps, ReadSymbolSource(s, deps)
      PROVE  Answers("read_symbol_source") \/ Answers("read_symbol_source_by_id")
  BY <1>8, RespondAnswers DEF ReadSymbolSource
<1>9. ASSUME NEW min, NEW h, NEW l, DuplicateLogic(min, h, l) PROVE Answers("find_duplicate_logic")
  BY <1>9, RespondAnswers DEF DuplicateLogic
<1>10. ASSUME NEW t, NEW h, Open(t, h) PROVE Answers("resolve_any") \/ Answers("resolve_subsystem")
  BY <1>10, RespondAnswers DEF Open
<1>11. ASSUME NEW t, NEW h, FindSymbolTool(t, h) PROVE Answers("find_symbol")
  BY <1>11, RespondAnswers DEF FindSymbolTool
<1>12. ASSUME NEW t, NEW h, NEW mode, NEW l, NEW concepts, NEW list, Search(t, h, mode, l, concepts, list)
       PROVE  Answers("search_codebase")
  BY <1>12, RespondAnswers DEF Search
<1> QED
  BY <1>1, <1>2, <1>3, <1>4, <1>5, <1>6, <1>7, <1>8, <1>9, <1>10, <1>11, <1>12 DEF AskLookup, LookupTools

----------------------------------------------------------------------------
(* The other process *)

(* A row of edges as the schema keeps it *)
RowFits(graph, e) ==
    /\ DOMAIN e = {"file", "src", "tgt", "kind", "sure"}
    /\ e.file \in graph.files /\ e.tgt \in Symbols(graph)
    /\ e.src = NoSource \/ (e.src \in Symbols(graph) /\ FileAt(graph, e.src) = e.file)

RowsFit(graph, rows) == rows \in Seq(ToSet(rows)) /\ \A e \in ToSet(rows) : RowFits(graph, e)

IsLined(row) == row.line \in Nat \ {0} /\ row.end \in Nat /\ row.line <= row.end + 1
Textual(graph) == \A f \in graph.files : graph.text[f] \in Seq(ToSet(graph.text[f]))

LEMMA FormOf ==
  ASSUME NEW graph
  PROVE  WellFormed(graph) <=>
            /\ DOMAIN graph = {"files", "path", "sym", "edges", "text", "rels", "features", "concepts"}
            /\ IsFiniteSet(Symbols(graph)) /\ Symbols(graph) \subseteq Nat \ {NoSymbol}
            /\ IsFiniteSet(graph.files) /\ graph.files \subseteq Nat \ {0}
            /\ \A s \in Symbols(graph) : FileAt(graph, s) \in graph.files /\ IsLined(graph.sym[s])
            /\ Textual(graph)
            /\ RowsFit(graph, graph.edges)
BY DEF WellFormed, RowsFit, RowFits, Rows, IsLined, Textual

Hits(graph, f, e) == e.file = f \/ FileAt(graph, e.tgt) = f
KeepPick(c, found, e) == IF ~Hits(c[1], c[2], e) THEN Append(found, e) ELSE found
LosePick(c, found, e) == IF Hits(c[1], c[2], e) THEN Append(found, e) ELSE found

KeepFold == INSTANCE FoldTheorems WITH Step <- KeepPick, Greatest <- Max
LoseFold == INSTANCE FoldTheorems WITH Step <- LosePick, Greatest <- Max

KeptOf(graph, f) == Which(LAMBDA e : ~Hits(graph, f, e), graph.edges)
LostOf(graph, f) == Which(LAMBDA e : Hits(graph, f, e), graph.edges)

LEMMA KeptRows ==
  ASSUME NEW graph, graph.edges \in Seq(Rows(graph)), NEW f
  PROVE  /\ KeptOf(graph, f) \in Seq(Rows(graph))
         /\ \A e \in ToSet(KeptOf(graph, f)) : ~Hits(graph, f, e) /\ e \in Rows(graph)
<1> DEFINE n == Len(graph.edges)
           c == <<graph, f>>
           T == {e \in Rows(graph) : ~Hits(graph, f, e)}
           kept == KeptOf(graph, f)
           iter == CHOOSE iter : KeepFold!Iterates(iter, c, <<>>, graph.edges, DOMAIN graph.edges)
<1>1. n \in Nat /\ DOMAIN graph.edges = 1..n /\ Rows(graph) = {graph.edges[i] : i \in DOMAIN graph.edges}
  BY DEF Rows, ToSet
<1>2. KeepFold!GreatestUpTo(n)
  BY <1>1, MaxIsGreatest DEF KeepFold!GreatestUpTo
<1>3. KeepFold!Iterates(iter, c, <<>>, graph.edges, DOMAIN graph.edges)
  <2>1. \E it : KeepFold!Iterates(it, c, <<>>, graph.edges, 1..n)
    <3> HIDE DEF n, c
    <3> QED
      BY <1>1, <1>2, KeepFold!IterationExists
  <2> HIDE DEF n, c
  <2> QED
    BY <1>1, <2>1
<1>4. kept = iter[DOMAIN graph.edges]
  BY DEF KeptOf, Which, FoldLeft, MapThenFoldSet, KeepFold!Iterates, KeepPick
<1> HIDE DEF iter, kept
<1>5. PICK h : KeepFold!IsRun(h, c, <<>>, graph.edges, n) /\ kept = h[n]
  <2> HIDE DEF n, c
  <2> QED
    BY <1>1, <1>2, <1>3, <1>4, KeepFold!FoldRuns
<1>6. KeepFold!Selects(h, graph.edges, T)
  BY <1>1, <1>5 DEF KeepFold!IsRun, KeepFold!Selects, KeepPick
<1> HIDE DEF T
<1>7. /\ h[Len(graph.edges)] \in Seq(Rows(graph))
      /\ \A x : (\E i \in DOMAIN h[Len(graph.edges)] : h[Len(graph.edges)][i] = x)
                   <=> x \in T /\ \E i \in DOMAIN graph.edges : graph.edges[i] = x
  BY <1>6, KeepFold!RunSelects
<1>8. \A x : x \in ToSet(kept) => x \in T
  BY <1>5, <1>7 DEF ToSet
<1>9. kept \in Seq(Rows(graph))
  BY <1>5, <1>7
<1> QED
  BY <1>8, <1>9 DEF T, kept

LEMMA LostRows ==
  ASSUME NEW graph, graph.edges \in Seq(Rows(graph)), NEW f
  PROVE  LostOf(graph, f) \in Seq(Rows(graph))
<1> DEFINE n == Len(graph.edges)
           c == <<graph, f>>
           T == {e \in Rows(graph) : Hits(graph, f, e)}
           lost == LostOf(graph, f)
           iter == CHOOSE iter : LoseFold!Iterates(iter, c, <<>>, graph.edges, DOMAIN graph.edges)
<1>1. n \in Nat /\ DOMAIN graph.edges = 1..n /\ Rows(graph) = {graph.edges[i] : i \in DOMAIN graph.edges}
  BY DEF Rows, ToSet
<1>2. LoseFold!GreatestUpTo(n)
  BY <1>1, MaxIsGreatest DEF LoseFold!GreatestUpTo
<1>3. LoseFold!Iterates(iter, c, <<>>, graph.edges, DOMAIN graph.edges)
  <2>1. \E it : LoseFold!Iterates(it, c, <<>>, graph.edges, 1..n)
    <3> HIDE DEF n, c
    <3> QED
      BY <1>1, <1>2, LoseFold!IterationExists
  <2> HIDE DEF n, c
  <2> QED
    BY <1>1, <2>1
<1>4. lost = iter[DOMAIN graph.edges]
  BY DEF LostOf, Which, FoldLeft, MapThenFoldSet, LoseFold!Iterates, LosePick
<1> HIDE DEF iter, lost
<1>5. PICK h : LoseFold!IsRun(h, c, <<>>, graph.edges, n) /\ lost = h[n]
  <2> HIDE DEF n, c
  <2> QED
    BY <1>1, <1>2, <1>3, <1>4, LoseFold!FoldRuns
<1>6. LoseFold!Selects(h, graph.edges, T)
  BY <1>1, <1>5 DEF LoseFold!IsRun, LoseFold!Selects, LosePick
<1> HIDE DEF T
<1>7. h[Len(graph.edges)] \in Seq(Rows(graph))
  BY <1>6, LoseFold!RunSelects
<1> QED
  BY <1>5, <1>7 DEF lost

LEMMA RenamedApart ==
  ASSUME WellFormed(g), g \in Contended, NEW f
  PROVE  /\ \A s \in Symbols(g) : Renamed(f, s) \in Nat \ {NoSymbol}
         /\ \A s, t \in Symbols(g) : Renamed(f, s) = Renamed(f, t) => s = t
<1>1. Symbols(g) \subseteq Nat \ {NoSymbol}
  BY DEF WellFormed
<1>2. \A s, t \in Symbols(g) :
         /\ NewId(s) \in Nat \ (Symbols(g) \cup {NoSymbol})
         /\ NewId(s) = NewId(t) => s = t
  BY NewIdAssumption
<1> QED
  BY <1>1, <1>2 DEF Renamed

(* The index after a replacement, and the rows its linking adds *)
LEMMA ReplacedForm ==
  ASSUME NEW f, ReplaceFile(f), WellFormed(g)
  PROVE  /\ pc \in {"root", "out", "in"} /\ versions = {g} /\ versions' = {g, g'} /\ g \in Contended
         /\ UNCHANGED <<answer, walk, pc>>
         /\ DOMAIN g' = DOMAIN g /\ g'.files = g.files /\ g'.text = g.text
         /\ g'.sym = [n \in {Renamed(f, s) : s \in Symbols(g)} |->
                        g.sym[CHOOSE s \in Symbols(g) : Renamed(f, s) = n]]
         /\ g'.edges = KeptOf(g, f)
         /\ pending' = [i \in DOMAIN LostOf(g, f) |-> Relinked(f, LostOf(g, f)[i])]
<1>1. {"sym", "edges", "features", "concepts", "files", "text"} \subseteq DOMAIN g
  BY DEF WellFormed
<1> DEFINE kept == Which(LAMBDA e : ~Touches(f, e), g.edges)
           lost == Which(LAMBDA e : Touches(f, e), g.edges)
           ids  == {Renamed(f, s) : s \in Symbols(g)}
           sym  == [n \in ids |-> g.sym[CHOOSE s \in Symbols(g) : Renamed(f, s) = n]]
<1>2. kept = KeptOf(g, f)
  BY DEF KeptOf, Touches, Hits
<1>3. lost = LostOf(g, f)
  BY DEF LostOf, Touches, Hits
<1>4. g' = [g EXCEPT !.sym = sym, !.edges = kept,
                     !.features = [s \in {x \in DOMAIN @ : FileAt(g, x) # f} |-> @[s]],
                     !.concepts = {c \in @ : FileAt(g, c[1]) # f}]
  BY DEF ReplaceFile
<1>5. pending' = [i \in DOMAIN lost |-> Relinked(f, lost[i])]
  BY DEF ReplaceFile
<1> HIDE DEF kept, lost, sym
<1>6. DOMAIN g' = DOMAIN g /\ g'.files = g.files /\ g'.text = g.text /\ g'.sym = sym /\ g'.edges = kept
  BY <1>1, <1>4
<1> QED
  BY <1>2, <1>3, <1>5, <1>6 DEF ReplaceFile, sym

LEMMA ReplacedFits ==
  ASSUME NEW f, ReplaceFile(f), WellFormed(g)
  PROVE  WellFormed(g') /\ RowsFit(g', pending')
<1> DEFINE ids == {Renamed(f, s) : s \in Symbols(g)}
           kept == KeptOf(g, f)
           lost == LostOf(g, f)
<1>1. /\ DOMAIN g' = DOMAIN g /\ g'.files = g.files /\ g'.text = g.text /\ g \in Contended
      /\ g'.sym = [n \in ids |-> g.sym[CHOOSE s \in Symbols(g) : Renamed(f, s) = n]]
      /\ g'.edges = kept
      /\ pending' = [i \in DOMAIN lost |-> Relinked(f, lost[i])]
  BY ReplacedForm
<1>2. /\ IsFiniteSet(Symbols(g)) /\ g.edges \in Seq(Rows(g))
      /\ \A s \in Symbols(g) : FileAt(g, s) \in g.files /\ IsLined(g.sym[s])
      /\ Textual(g)
      /\ \A e \in Rows(g) : RowFits(g, e)
  BY DEF WellFormed, RowFits, IsLined, Textual
<1>3. /\ \A s \in Symbols(g) : Renamed(f, s) \in Nat \ {NoSymbol}
      /\ \A s, t \in Symbols(g) : Renamed(f, s) = Renamed(f, t) => s = t
  BY <1>1, RenamedApart
<1>4. Symbols(g') = ids
  BY <1>1 DEF Symbols
<1>5. \A s \in Symbols(g) : FileAt(g', Renamed(f, s)) = FileAt(g, s) /\ g'.sym[Renamed(f, s)] = g.sym[s]
  <2> TAKE s \in Symbols(g)
  <2>1. (CHOOSE t \in Symbols(g) : Renamed(f, t) = Renamed(f, s)) = s
    BY <1>3
  <2>2. g'.sym[Renamed(f, s)] = g.sym[s]
    BY <1>1, <2>1
  <2> QED
    BY <2>2 DEF FileAt
<1>6. IsFiniteSet(ids) /\ ids \subseteq Nat \ {NoSymbol}
  <2> DEFINE rename == [s \in Symbols(g) |-> Renamed(f, s)]
  <2>1. rename \in Surjection(Symbols(g), ids)
    BY DEF Surjection
  <2>2. IsFiniteSet(ids)
    <3> HIDE DEF rename, ids
    <3> QED
      BY <1>2, <2>1, FS_Surjection
  <2> QED
    BY <1>3, <2>2
<1>7. (\A n \in ids : FileAt(g', n) \in g'.files /\ IsLined(g'.sym[n])) /\ Textual(g')
  <2>1. ASSUME NEW n \in ids PROVE FileAt(g', n) \in g'.files /\ IsLined(g'.sym[n])
    <3>1. PICK s \in Symbols(g) : n = Renamed(f, s)
      OBVIOUS
    <3> QED
      BY <1>1, <1>2, <1>5, <3>1
  <2>2. Textual(g')
    BY <1>1, <1>2 DEF Textual
  <2> QED
    BY <2>1, <2>2
<1>8. kept \in Seq(Rows(g)) /\ \A e \in ToSet(kept) : ~Hits(g, f, e) /\ e \in Rows(g)
  BY <1>2, KeptRows
<1>9. lost \in Seq(Rows(g))
  BY <1>2, LostRows
<1> HIDE DEF kept, lost
<1>10. RowsFit(g', kept)
  <2>1. kept \in Seq(ToSet(kept))
    BY <1>8, NarrowSeq
  <2>2. ASSUME NEW e \in ToSet(kept) PROVE RowFits(g', e)
    <3>1. RowFits(g, e) /\ e.file # f /\ FileAt(g, e.tgt) # f
      BY <1>2, <1>8 DEF Hits
    <3>2. Renamed(f, e.tgt) = e.tgt
      BY <3>1 DEF Renamed
    <3>3. CASE e.src = NoSource
      BY <1>1, <1>4, <3>1, <3>2, <3>3 DEF RowFits
    <3>4. CASE e.src # NoSource
      <4>1. e.src \in Symbols(g) /\ FileAt(g, e.src) = e.file
        BY <3>1, <3>4 DEF RowFits
      <4>2. Renamed(f, e.src) = e.src
        BY <3>1, <4>1 DEF Renamed
      <4>3. e.src \in ids /\ FileAt(g', e.src) = e.file
        BY <1>5, <4>1, <4>2
      <4> QED
        BY <1>1, <1>4, <3>1, <3>2, <4>3 DEF RowFits
    <3> QED
      BY <3>3, <3>4
  <2> QED
    BY <2>1, <2>2 DEF RowsFit
<1>11. RowsFit(g', pending')
  <2>1. /\ Len(lost) \in Nat /\ DOMAIN lost = 1..Len(lost) /\ \A i \in DOMAIN lost : lost[i] \in Rows(g)
    BY <1>9
  <2> DEFINE X == {Relinked(f, e) : e \in Rows(g)}
  <2>2. pending' \in Seq(X)
    <3>1. \A i \in 1..Len(lost) : Relinked(f, lost[i]) \in X
      BY <2>1
    <3> HIDE DEF X
    <3> QED
      BY <1>1, <2>1, <3>1
  <2>3. pending' \in Seq(ToSet(pending')) /\ ToSet(pending') \subseteq X
    BY <2>2, NarrowSeq
  <2>4. ASSUME NEW e \in Rows(g) PROVE RowFits(g', Relinked(f, e))
    <3> DEFINE r == Relinked(f, e)
    <3>1. RowFits(g, e)
      BY <1>2
    <3>2. /\ DOMAIN r = {"file", "src", "tgt", "kind", "sure"}
          /\ r.file = e.file /\ r.file \in g'.files
          /\ r.src = Renamed(f, e.src) /\ r.tgt = Renamed(f, e.tgt)
      BY <1>1, <3>1 DEF Relinked, RowFits
    <3> HIDE DEF r
    <3>3. r.tgt \in Symbols(g')
      BY <1>4, <3>1, <3>2 DEF RowFits
    <3>4. CASE e.src = NoSource
      <4>1. e.src \notin Symbols(g)
        BY <3>4 DEF WellFormed, NoSource, NoSymbol
      <4>2. r.src = NoSource
        BY <3>2, <3>4, <4>1 DEF Renamed
      <4> QED
        BY <3>2, <3>3, <4>2 DEF RowFits, r
    <3>5. CASE e.src # NoSource
      <4>1. e.src \in Symbols(g) /\ FileAt(g, e.src) = e.file
        BY <3>1, <3>5 DEF RowFits
      <4>2. r.src \in Symbols(g') /\ FileAt(g', r.src) = r.file
        BY <1>4, <1>5, <3>2, <4>1
      <4> QED
        BY <3>2, <3>3, <4>2 DEF RowFits, r
    <3> QED
      BY <3>4, <3>5
  <2> QED
    BY <2>3, <2>4 DEF RowsFit
<1>12. WellFormed(g')
  <2>1. DOMAIN g' = {"files", "path", "sym", "edges", "text", "rels", "features", "concepts"}
    BY <1>1 DEF WellFormed
  <2> QED
    BY <1>1, <1>4, <1>6, <1>7, <1>10, <2>1, FormOf
<1> QED
  BY <1>11, <1>12

LEMMA LinkedFits ==
  ASSUME LinkAgain, WellFormed(g), RowsFit(g, pending)
  PROVE  WellFormed(g') /\ RowsFit(g', pending')
<1>1. g' = [g EXCEPT !.edges = g.edges \o pending] /\ pending' = <<>>
  BY DEF LinkAgain, NoPending
<1>2. /\ DOMAIN g' = DOMAIN g /\ g'.files = g.files /\ g'.text = g.text
      /\ g'.sym = g.sym /\ g'.edges = g.edges \o pending
  BY <1>1 DEF WellFormed
<1>3. Symbols(g') = Symbols(g) /\ \A s \in Symbols(g) : FileAt(g', s) = FileAt(g, s)
  BY <1>2 DEF Symbols, FileAt
<1>4. \A e : RowFits(g, e) => RowFits(g', e)
  BY <1>2, <1>3 DEF RowFits
<1>5. RowsFit(g', g.edges \o pending)
  <2> DEFINE X == Rows(g) \cup ToSet(pending)
  <2>1. g.edges \in Seq(X) /\ pending \in Seq(X)
    <3>1. g.edges \in Seq(Rows(g)) /\ pending \in Seq(ToSet(pending))
      BY DEF WellFormed, RowsFit
    <3> QED
      BY <3>1
  <2>2. g.edges \o pending \in Seq(X)
    <3> HIDE DEF X
    <3> QED
      BY <2>1
  <2>3. g.edges \o pending \in Seq(ToSet(g.edges \o pending)) /\ ToSet(g.edges \o pending) \subseteq X
    <3> HIDE DEF X
    <3> QED
      BY <2>2, NarrowSeq
  <2>4. \A e \in X : RowFits(g', e)
    BY <1>4 DEF WellFormed, RowsFit, RowFits
  <2> QED
    BY <2>3, <2>4 DEF RowsFit
<1>6. WellFormed(g')
  BY <1>2, <1>3, <1>5, FormOf DEF Textual
<1>7. RowsFit(g', pending')
  BY <1>1 DEF RowsFit, ToSet
<1> QED
  BY <1>6, <1>7

----------------------------------------------------------------------------
(* The invariant of a session: the index and the rows that linking will    *)
(* add are in order, and the walk of a call in progress is tidy.           *)

Walking == pc \in {"root", "out", "in"}

IndexInv == WellFormed(g) /\ RowsFit(g, pending)

CallInv ==
    /\ pc \in {"idle", "root", "out", "in", "done"}
    /\ (answer.tool # "none") <=> (pc = "done")
    /\ IsFiniteSet(versions)
    /\ pc # "idle" => g \in versions
    /\ Walking => Tidy(walk, versions)
    /\ ~Walking => walk = NoWalk
    /\ pc = "root" => walk.edges = {}
    /\ answer.tool = "explore_graph" => OfCall(answer.response, versions)

SessionInv == IndexInv /\ CallInv

LEMMA SessionInit == Init => SessionInv
<1> SUFFICES ASSUME Init PROVE SessionInv
  OBVIOUS
<1>1. IndexInv
  BY GraphAssumption DEF Init, IndexInv, RowsFit, ToSet, NoPending
<1>2. CallInv
  BY FS_EmptySet DEF Init, CallInv, Walking, NoAnswer
<1> QED
  BY <1>1, <1>2 DEF SessionInv

LEMMA IndexStep == SessionInv /\ [Next]_vars => IndexInv'
<1> SUFFICES ASSUME SessionInv, [Next]_vars PROVE IndexInv'
  OBVIOUS
<1>1. CASE UNCHANGED <<g, pending>>
  BY <1>1 DEF SessionInv, IndexInv
<1>2. ASSUME NEW f, ReplaceFile(f) PROVE IndexInv'
  BY <1>2, ReplacedFits DEF SessionInv, IndexInv
<1>3. CASE LinkAgain
  BY <1>3, LinkedFits DEF SessionInv, IndexInv
<1>4. CASE AskGraph
  BY <1>1, <1>4, GraphAnswers DEF Answers
<1>5. CASE AskLookup
  BY <1>1, <1>5, LookupAnswers DEF Answers
<1>6. CASE Explore
  BY <1>1, <1>6 DEF Explore, BeginExplore, FindRoot, ExpandOut, ExpandIn, EndExplore
<1>7. CASE NextRequest
  BY <1>1, <1>7 DEF NextRequest
<1>8. CASE UNCHANGED vars
  BY <1>1, <1>8 DEF vars
<1> QED
  BY <1>2, <1>3, <1>4, <1>5, <1>6, <1>7, <1>8 DEF Next, Reindexing

LEMMA AnswersKeep ==
  ASSUME SessionInv, NEW tool \in GraphTools \cup LookupTools, Answers(tool)
  PROVE  CallInv'
<1>1. /\ pc = "idle" /\ pc' = "done" /\ versions' = {g} /\ g' = g /\ walk' = walk
      /\ answer'.tool \notin {"none", "explore_graph"}
  BY DEF Answers, GraphTools, LookupTools
<1> QED
  BY <1>1, FS_Singleton DEF SessionInv, CallInv, Walking

LEMMA CallStep == SessionInv /\ [Next]_vars => CallInv'
<1> SUFFICES ASSUME SessionInv, [Next]_vars PROVE CallInv'
  OBVIOUS
<1>0. CallInv /\ WellFormed(g) /\ Symbols(g) \subseteq Nat \ {NoSymbol}
  BY DEF SessionInv, IndexInv, WellFormed
<1>1. CASE AskGraph
  BY <1>1, GraphAnswers, AnswersKeep
<1>2. CASE AskLookup
  BY <1>2, LookupAnswers, AnswersKeep
<1>3. ASSUME NEW s \in Targets, NEW d \in Depths, NEW m \in NodeLimits, NEW way \in Directions,
             BeginExplore(s, d, m, way)
      PROVE  CallInv'
  <2>1. s \in Symbols(g) /\ s \in Nat \ {NoSymbol} /\ d \in Nat /\ m \in Nat
    BY <1>0, QueriesAssumption DEF Targets
  <2>2. /\ pc = "idle" /\ pc' = "root" /\ versions' = {g} /\ UNCHANGED <<g, answer>>
        /\ walk' = StartWalk(g, s, d, m, way, FALSE)
    BY <1>3 DEF BeginExplore
  <2>3. Tidy(walk', {g})
    BY <2>1, <2>2, TidyStarts
  <2>4. walk'.edges = {}
    BY <2>1, <2>2, StartFields DEF Started
  <2> QED
    BY <1>0, <2>2, <2>3, <2>4, FS_Singleton DEF CallInv, Walking
<1>4. CASE FindRoot
  <2>1. pc = "root" /\ Tidy(walk, versions) /\ walk.edges = {} /\ UNCHANGED <<g, versions>>
    BY <1>0, <1>4 DEF FindRoot, CallInv, Walking
  <2>2. CASE RootById(g, walk.root) # NoSymbol
    BY <1>0, <1>4, <2>1, <2>2 DEF FindRoot, CallInv, Walking
  <2>3. CASE RootById(g, walk.root) = NoSymbol
    <3> DEFINE w == [walk EXCEPT !.nodes = {}, !.queue = <<>>]
    <3>1. answer' = Answer(w) /\ walk' = NoWalk /\ pc' = "done"
      BY <1>4, <2>3 DEF FindRoot
    <3>2. w.nodes = {} /\ w.edges = {} /\ w.max \in Nat
      BY <2>1 DEF Tidy, IsWalk
    <3> HIDE DEF w
    <3>3. OfCall(w, versions)
      <4>1. Ties(w) = {}
        BY <3>2 DEF Ties
      <4> QED
        BY <3>2, <4>1, FS_EmptySet DEF OfCall, MaxEdges
    <3>4. answer'.tool = "explore_graph" /\ answer'.response = w
      BY <3>1 DEF Answer
    <3> QED
      BY <1>0, <2>1, <3>1, <3>3, <3>4 DEF CallInv, Walking
  <2> QED
    BY <2>2, <2>3
<1>5. CASE ExpandOut
  <2>1. /\ pc = "out" /\ ~Done(walk) /\ Tidy(walk, versions) /\ g \in versions
        /\ UNCHANGED <<g, answer, versions>>
    BY <1>0, <1>5 DEF ExpandOut, CallInv, Walking
  <2> DEFINE popped == Pop(walk)
  <2>2. Tidy(popped, versions)
    BY <2>1, TidyPops DEF Done
  <2>3. pc' \in {"out", "in"} /\ walk' \in {popped, OutStep(g, popped)}
    BY <1>5 DEF ExpandOut
  <2> HIDE DEF popped
  <2>4. Tidy(OutStep(g, popped), versions)
    <3>1. IsWalk(popped) /\ popped.at \in Nat \ {NoSymbol}
      BY <2>2 DEF Tidy, IsWalk
    <3> DEFINE offers == IF popped.out THEN OutOffers(g, popped.at, popped.loops) ELSE {}
    <3>2. Progress(popped, OutStep(g, popped), offers)
      BY <1>0, <3>1, OutStepProgress
    <3>3. Genuine(g, popped.at, offers)
      <4>1. Genuine(g, popped.at, OutOffers(g, popped.at, popped.loops))
        BY <1>0, <3>1, OffersGenuine
      <4> QED
        BY <4>1 DEF Genuine
    <3> HIDE DEF offers
    <3> QED
      BY <2>1, <2>2, <3>2, <3>3, TidyTakes
  <2>5. Tidy(walk', versions)
    BY <2>2, <2>3, <2>4
  <2> QED
    BY <1>0, <2>1, <2>3, <2>5 DEF CallInv, Walking
<1>6. CASE ExpandIn
  <2>1. /\ pc = "in" /\ Tidy(walk, versions) /\ g \in versions /\ UNCHANGED <<g, answer, versions>>
        /\ walk' = InStep(g, walk) /\ pc' = "out"
    BY <1>0, <1>6 DEF ExpandIn, CallInv, Walking
  <2>2. IsWalk(walk) /\ walk.at \in Nat \ {NoSymbol}
    BY <2>1 DEF Tidy, IsWalk
  <2> DEFINE offers == IF walk.in THEN InOffers(g, walk.at) ELSE {}
  <2>3. Progress(walk, InStep(g, walk), offers)
    BY <1>0, <2>2, InStepProgress
  <2>4. Genuine(g, walk.at, offers)
    <3>1. Genuine(g, walk.at, InOffers(g, walk.at))
      BY <1>0, <2>2, OffersGenuine
    <3> QED
      BY <3>1 DEF Genuine
  <2> HIDE DEF offers
  <2>5. Tidy(walk', versions)
    BY <2>1, <2>3, <2>4, TidyTakes
  <2> QED
    BY <1>0, <2>1, <2>5 DEF CallInv, Walking
<1>7. CASE EndExplore
  <2>1. /\ pc = "out" /\ Tidy(walk, versions) /\ UNCHANGED <<g, versions>>
        /\ answer' = Answer(walk) /\ walk' = NoWalk /\ pc' = "done"
    BY <1>0, <1>7 DEF EndExplore, CallInv, Walking
  <2>2. OfCall(walk, versions)
    BY <2>1, TidyAnswers
  <2>3. answer'.tool = "explore_graph" /\ answer'.response = walk
    BY <2>1 DEF Answer
  <2> QED
    BY <1>0, <2>1, <2>2, <2>3 DEF CallInv, Walking
<1>8. ASSUME NEW f, ReplaceFile(f) \/ LinkAgain PROVE CallInv'
  <2>1. /\ Walking /\ versions' = versions \cup {g'} /\ UNCHANGED <<answer, walk, pc>>
    BY <1>8 DEF ReplaceFile, LinkAgain, Walking
  <2>2. Tidy(walk, versions')
    BY <1>0, <2>1, TidyLonger DEF CallInv
  <2>3. IsFiniteSet(versions')
    BY <1>0, <2>1, FS_AddElement DEF CallInv
  <2> QED
    BY <1>0, <2>1, <2>2, <2>3 DEF CallInv, Walking
<1>9. CASE NextRequest
  BY <1>0, <1>9, FS_EmptySet DEF NextRequest, CallInv, Walking, NoAnswer
<1>10. CASE UNCHANGED vars
  BY <1>0, <1>10 DEF vars, CallInv, Walking
<1> QED
  BY <1>1, <1>2, <1>3, <1>4, <1>5, <1>6, <1>7, <1>8, <1>9, <1>10 DEF Next, Explore, Reindexing

(* In every state of a session. *)
THEOREM SessionHolds == Spec => []SessionInv
<1>1. SessionInv /\ [Next]_vars => SessionInv'
  BY IndexStep, CallStep DEF SessionInv
<1> QED
  BY SessionInit, <1>1, PTL DEF Spec

LEMMA WalkFields == ASSUME NEW w, IsWalk(w) PROVE w # NoWalk
<1>1. "root" \in DOMAIN w
  <2> DEFINE u == [root |-> w.root, depth |-> w.depth, max |-> w.max, out |-> w.out, in |-> w.in,
            loops |-> w.loops, queue |-> w.queue, at |-> w.at, level |-> w.level,
            reached |-> w.reached, nodes |-> w.nodes, seen |-> w.seen, edges |-> w.edges,
            truncated |-> w.truncated]
  <2>1. "root" \in DOMAIN u
    OBVIOUS
  <2>2. w = u
    BY DEF IsWalk
  <2> HIDE DEF u
  <2> QED
    BY <2>1, <2>2
<1>2. "root" \notin DOMAIN NoWalk
  BY DEF NoWalk
<1> QED
  BY <1>1, <1>2

(* The type invariant of the query tools: whatever is asked, and whatever  *)
(* another process replaces and links meanwhile, both ends of each edge    *)
(* stay symbols.                                                           *)
THEOREM QueriesTyped == Spec => []TypeOK
<1>1. SessionInv => TypeOK
  <2> SUFFICES ASSUME SessionInv PROVE TypeOK
    OBVIOUS
  <2>1. Walking => walk # NoWalk
    BY WalkFields DEF SessionInv, CallInv, Tidy
  <2> QED
    BY <2>1 DEF SessionInv, IndexInv, CallInv, TypeOK, Walking
<1> QED
  BY <1>1, SessionHolds, PTL

(* explore_graph over an index that changes between its statements: each   *)
(* edge and node was in some state of the index, no edge dangles, every    *)
(* node hangs on the root, and the caps hold.                              *)
THEOREM ExploreStaysOfCall == Spec => []ExploreOfCall
<1>1. SessionInv => ExploreOfCall
  BY DEF SessionInv, CallInv, ExploreOfCall, OfCall, Answered, Ties
<1> QED
  BY <1>1, SessionHolds, PTL

----------------------------------------------------------------------------
(* explore_graph over an index that stays: what is near, and what the rows *)
(* at a symbol offer, which is what a walk that is not truncated takes.    *)

Near(graph, w, n) == Within(WalkSteps(graph, w), {w.root}, n)
Inner(graph, w) == UNION {Near(graph, w, n) : n \in 0..(w.depth - 1)}
AllOffers(graph, w, s) ==
    (IF w.out THEN OutOffers(graph, s, w.loops) ELSE {}) \cup (IF w.in THEN InOffers(graph, s) ELSE {})
Real(graph, w) ==
    Triples({e \in Sourced(graph) :
                \/ w.out /\ e.src \in Inner(graph, w) /\ (e.src # e.tgt \/ w.loops)
                \/ w.in /\ e.tgt \in Inner(graph, w) /\ e.src # e.tgt})

(* The settled symbols have had all their offers taken *)
Accepts(w, offers) == \A o \in offers : o[1] \in w.seen /\ o[2] \in w.edges
Queued(w, s) == \E i \in DOMAIN w.queue : w.queue[i][1] = s

SameQuery(w, v) ==
    v.root = w.root /\ v.depth = w.depth /\ v.out = w.out /\ v.in = w.in /\ v.loops = w.loops

LEMMA SameReach ==
  ASSUME NEW graph, NEW w, NEW v, SameQuery(w, v)
  PROVE  /\ \A n : Near(graph, v, n) = Near(graph, w, n)
         /\ Inner(graph, v) = Inner(graph, w)
         /\ \A s : AllOffers(graph, v, s) = AllOffers(graph, w, s)
         /\ Real(graph, v) = Real(graph, w)
<1>1. \A n : Near(graph, v, n) = Near(graph, w, n)
  BY DEF SameQuery, Near, WalkSteps
<1>2. Inner(graph, v) = Inner(graph, w)
  BY <1>1 DEF SameQuery, Inner
<1>3. \A s : AllOffers(graph, v, s) = AllOffers(graph, w, s)
  BY DEF SameQuery, AllOffers
<1>4. Real(graph, v) = Real(graph, w)
  BY <1>2 DEF SameQuery, Real
<1> QED
  BY <1>1, <1>2, <1>3, <1>4

LEMMA NearNext ==
  ASSUME NEW graph, NEW w, NEW n \in Nat, NEW y \in Near(graph, w, n + 1), y \notin Near(graph, w, n)
  PROVE  \E x \in Near(graph, w, n) : \E e : <<y, e>> \in AllOffers(graph, w, x)
<1>1. PICK p \in WalkSteps(graph, w) : p[1] \in Near(graph, w, n) /\ p[2] = y
  BY WithinNext DEF Near
<1>2. PICK e \in Sourced(graph) : \/ w.out /\ p = <<e.src, e.tgt>>
                                  \/ w.in /\ p = <<e.tgt, e.src>>
  BY <1>1 DEF WalkSteps, Steps
<1>3. e \in Rows(graph) /\ e.src # NoSource
  BY DEF Sourced
<1>4. CASE w.out /\ p = <<e.src, e.tgt>>
  <2>1. <<y, <<e.src, y, e.kind>>>> \in OutOffers(graph, e.src, w.loops)
    BY <1>1, <1>3, <1>4 DEF OutOffers
  <2> QED
    BY <1>1, <1>4, <2>1 DEF AllOffers
<1>5. CASE w.in /\ p = <<e.tgt, e.src>>
  <2>1. <<y, <<y, e.tgt, e.kind>>>> \in InOffers(graph, e.tgt)
    BY <1>1, <1>3, <1>5 DEF InOffers
  <2> QED
    BY <1>1, <1>5, <2>1 DEF AllOffers
<1> QED
  BY <1>2, <1>4, <1>5

LEMMA OffersNear ==
  ASSUME NEW graph, NEW w, NEW n \in Nat, NEW x \in Near(graph, w, n), x # NoSource,
         NEW o \in AllOffers(graph, w, x)
  PROVE  /\ o[1] \in Near(graph, w, n + 1)
         /\ x \in Inner(graph, w) => o[2] \in Real(graph, w)
<1>1. CASE w.out /\ o \in OutOffers(graph, x, w.loops)
  <2>1. PICK e \in Rows(graph) : e.src = x /\ (e.tgt # x \/ w.loops) /\ o = <<e.tgt, <<x, e.tgt, e.kind>>>>
    BY <1>1 DEF OutOffers
  <2>2. e \in Sourced(graph) /\ <<x, e.tgt>> \in WalkSteps(graph, w)
    BY <1>1, <2>1 DEF Sourced, WalkSteps, Steps
  <2>3. o[1] \in Near(graph, w, n + 1)
    BY <2>1, <2>2, WithinNext DEF Near
  <2>4. x \in Inner(graph, w) => o[2] \in Real(graph, w)
    BY <1>1, <2>1, <2>2 DEF Real, Triples
  <2> QED
    BY <2>3, <2>4
<1>2. CASE w.in /\ o \in InOffers(graph, x)
  <2>1. PICK e \in Rows(graph) : e.tgt = x /\ e.src \notin {x, NoSource} /\ o = <<e.src, <<e.src, x, e.kind>>>>
    BY <1>2 DEF InOffers
  <2>2. e \in Sourced(graph) /\ <<x, e.src>> \in WalkSteps(graph, w)
    BY <1>2, <2>1 DEF Sourced, WalkSteps, Steps
  <2>3. o[1] \in Near(graph, w, n + 1)
    BY <2>1, <2>2, WithinNext DEF Near
  <2>4. x \in Inner(graph, w) => o[2] \in Real(graph, w)
    BY <1>2, <2>1, <2>2 DEF Real, Triples
  <2> QED
    BY <2>3, <2>4
<1> QED
  BY <1>1, <1>2 DEF AllOffers

LEMMA RealOffered ==
  ASSUME NEW graph, NEW w, NEW t \in Real(graph, w)
  PROVE  \E x \in Inner(graph, w) : \E y : <<y, t>> \in AllOffers(graph, w, x)
<1>1. PICK e \in Sourced(graph) :
         /\ t = <<e.src, e.tgt, e.kind>>
         /\ \/ w.out /\ e.src \in Inner(graph, w) /\ (e.src # e.tgt \/ w.loops)
            \/ w.in /\ e.tgt \in Inner(graph, w) /\ e.src # e.tgt
  BY DEF Real, Triples
<1>2. e \in Rows(graph) /\ e.src # NoSource
  BY DEF Sourced
<1>3. CASE w.out /\ e.src \in Inner(graph, w) /\ (e.src # e.tgt \/ w.loops)
  <2>1. <<e.tgt, t>> \in OutOffers(graph, e.src, w.loops)
    BY <1>1, <1>2, <1>3 DEF OutOffers
  <2> QED
    BY <1>3, <2>1 DEF AllOffers
<1>4. CASE w.in /\ e.tgt \in Inner(graph, w) /\ e.src # e.tgt
  <2>1. <<e.src, t>> \in InOffers(graph, e.tgt)
    BY <1>1, <1>2, <1>4 DEF InOffers
  <2> QED
    BY <1>4, <2>1 DEF AllOffers
<1> QED
  BY <1>1, <1>3, <1>4

(* The invariant of a walk: entries stand in the queue in the order of     *)
(* their distance, which their level is, and every symbol seen that is     *)
(* neither queued nor open is settled. The open one is being expanded.     *)
Walked(graph, w, open) ==
    /\ IsWalk(w) /\ w.root \in w.seen /\ w.seen \subseteq Symbols(graph)
    /\ w.seen \subseteq Near(graph, w, w.depth)
    /\ w.edges \subseteq Real(graph, w)
    /\ \A i \in DOMAIN w.queue :
          /\ w.queue[i][1] \in Near(graph, w, w.queue[i][2]) /\ w.queue[i][1] \in w.seen
          /\ w.queue[i][2] <= w.depth
          /\ w.queue[i][2] > 0 => w.queue[i][1] \notin Near(graph, w, w.queue[i][2] - 1)
    /\ \A i, j \in DOMAIN w.queue :
          i <= j => /\ w.level <= w.queue[i][2] /\ w.queue[i][2] <= w.queue[j][2]
                    /\ w.queue[j][2] <= w.level + 1
    /\ ~w.truncated => \A s \in w.seen \ open :
                          Queued(w, s) \/ (s \in Inner(graph, w) => Accepts(w, AllOffers(graph, w, s)))

LEMMA LevelsNat ==
  ASSUME NEW w, IsWalk(w), NEW i \in DOMAIN w.queue
  PROVE  w.queue[i] \in Nat \X Nat /\ w.queue[i][1] \in Nat /\ w.queue[i][2] \in Nat
<1>1. w.queue \in Seq(Nat \X Nat)
  BY DEF IsWalk
<1>2. w.queue[i] \in Nat \X Nat
  BY <1>1
<1> QED
  BY <1>2

LEMMA NearGrows ==
  ASSUME NEW graph, NEW w, NEW n \in Nat, NEW m \in Nat, m <= n
  PROVE  Near(graph, w, m) \subseteq Near(graph, w, n)
BY WithinMonotone DEF Near

(* When no entry is nearer than k, all that is within k has been seen *)
LEMMA SeenCovers ==
  ASSUME NEW graph, NEW w, Walked(graph, w, {}), ~w.truncated, NEW k \in Nat, k <= w.depth,
         \A i \in DOMAIN w.queue : k <= w.queue[i][2]
  PROVE  Near(graph, w, k) \subseteq w.seen
<1> DEFINE S == {n \in 0..k : Near(graph, w, n) \subseteq w.seen}
<1>0. w.depth \in Nat /\ IsWalk(w)
  BY DEF Walked, IsWalk
<1>1. 0 \in S
  BY WithinZero DEF Near, Walked
<1>2. ASSUME NEW n \in 1..k, n - 1 \in S PROVE n \in S
  <2> DEFINE m == n - 1
  <2>1. m \in Nat /\ m + 1 = n /\ m \in 0..(w.depth - 1) /\ Near(graph, w, m) \subseteq w.seen
    BY <1>0, <1>2
  <2> HIDE DEF m
  <2> SUFFICES ASSUME NEW y \in Near(graph, w, m + 1), y \notin w.seen PROVE FALSE
    BY <2>1
  <2>2. PICK x \in Near(graph, w, m) : \E e : <<y, e>> \in AllOffers(graph, w, x)
    BY <2>1, NearNext
  <2>3. ~Queued(w, x)
    <3> SUFFICES ASSUME NEW i \in DOMAIN w.queue, w.queue[i][1] = x PROVE FALSE
      BY DEF Queued
    <3>1. w.queue[i][2] \in Nat /\ k <= w.queue[i][2] /\ n <= k
      BY <1>0, LevelsNat
    <3>2. w.queue[i][2] - 1 \in Nat /\ m <= w.queue[i][2] - 1 /\ w.queue[i][2] > 0
      BY <2>1, <3>1
    <3>3. x \notin Near(graph, w, w.queue[i][2] - 1)
      BY <3>2 DEF Walked
    <3> QED
      BY <2>1, <2>2, <3>2, <3>3, NearGrows
  <2>4. x \in Inner(graph, w) /\ x \in w.seen
    BY <2>1, <2>2 DEF Inner
  <2>5. Accepts(w, AllOffers(graph, w, x))
    BY <2>3, <2>4 DEF Walked
  <2> QED
    BY <2>2, <2>5 DEF Accepts
<1>3. 0..k \subseteq S
  <2> HIDE DEF S
  <2> QED
    BY <1>1, <1>2, WithinFold!InductionUpTo
<1> QED
  BY <1>3

LEMMA WalkedStarts ==
  ASSUME NEW graph, NEW root \in Symbols(graph), root \in Nat \ {NoSymbol}, NEW depth \in Nat, NEW max \in Nat,
         NEW direction, NEW loops \in BOOLEAN
  PROVE  Walked(graph, StartWalk(graph, root, depth, max, direction, loops), {})
<1> DEFINE w == StartWalk(graph, root, depth, max, direction, loops)
<1>1. /\ IsWalk(w) /\ w.root = root /\ w.level = 0 /\ w.seen = {root} /\ w.edges = {}
      /\ w.queue = <<<<root, 0>>>> /\ w.depth \in Nat
  <2>1. Started(w, root, depth, max, direction, loops)
    BY StartFields
  <2> QED
    BY <2>1 DEF Started, IsWalk
<1> HIDE DEF w
<1>2. Near(graph, w, 0) = {root}
  BY <1>1, WithinZero DEF Near
<1>3. w.seen \subseteq Near(graph, w, w.depth)
  BY <1>1, <1>2, NearGrows
<1>4. \A i \in DOMAIN w.queue : w.queue[i] = <<root, 0>>
  BY <1>1
<1>5. Queued(w, root)
  <2>1. 1 \in DOMAIN w.queue
    BY <1>1
  <2> QED
    BY <1>4, <2>1 DEF Queued
<1>6. /\ \A i \in DOMAIN w.queue :
           /\ w.queue[i][1] \in Near(graph, w, w.queue[i][2]) /\ w.queue[i][1] \in w.seen
           /\ w.queue[i][2] <= w.depth
           /\ w.queue[i][2] > 0 => w.queue[i][1] \notin Near(graph, w, w.queue[i][2] - 1)
      /\ \A i, j \in DOMAIN w.queue :
           i <= j => /\ w.level <= w.queue[i][2] /\ w.queue[i][2] <= w.queue[j][2]
                     /\ w.queue[j][2] <= w.level + 1
  BY <1>1, <1>2, <1>4
<1>7. Walked(graph, w, {})
  BY <1>1, <1>3, <1>5, <1>6 DEF Walked
<1> QED
  BY <1>7 DEF w

(* What is known of the entry being expanded *)
Opened(graph, w) ==
    /\ Walked(graph, w, {w.at})
    /\ w.at \in w.seen /\ w.at \in Near(graph, w, w.level) /\ w.level <= w.depth
    /\ w.level > 0 => w.at \notin Near(graph, w, w.level - 1)
    /\ Near(graph, w, w.level) \subseteq w.seen

LEMMA WalkedPops ==
  ASSUME NEW graph, NEW w, Walked(graph, w, {}), ~Done(w)
  PROVE  Opened(graph, Pop(w)) /\ ~Pop(w).truncated
<1> DEFINE p == Pop(w)
           q == w.queue
<1>1. IsWalk(w) /\ q # <<>> /\ ~w.truncated
  BY DEF Walked, Done, IsWalk
<1>2. /\ IsWalk(p) /\ SameQuery(w, p) /\ p.seen = w.seen /\ p.edges = w.edges /\ ~p.truncated
      /\ p.at = q[1][1] /\ p.level = q[1][2] /\ 1 \in DOMAIN q
      /\ \A i \in DOMAIN p.queue : i + 1 \in DOMAIN q /\ p.queue[i] = q[i + 1]
      /\ Len(p.queue) = Len(q) - 1 /\ p.depth = w.depth
  BY <1>1, PopFields DEF SameQuery
<1>3. DOMAIN q = 1..Len(q) /\ Len(q) \in Nat /\ DOMAIN p.queue = 1..(Len(q) - 1)
  BY <1>1, <1>2 DEF IsWalk
<1>4. /\ \A n : Near(graph, p, n) = Near(graph, w, n)
      /\ Inner(graph, p) = Inner(graph, w)
      /\ \A s : AllOffers(graph, p, s) = AllOffers(graph, w, s)
      /\ Real(graph, p) = Real(graph, w)
  BY <1>2, SameReach
<1> HIDE DEF p
<1>5. \A i \in DOMAIN q : q[i][2] \in Nat /\ q[1][2] <= q[i][2] /\ q[i][2] <= q[1][2] + 1
  <2> TAKE i \in DOMAIN q
  <2>1. q[i][2] \in Nat /\ q[1][2] \in Nat /\ w.level \in Nat /\ 1 <= i
    <3>1. q[i][2] \in Nat /\ q[1][2] \in Nat
      BY <1>1, <1>2, LevelsNat
    <3> QED
      BY <1>1, <1>3, <3>1 DEF IsWalk
  <2>2. q[1][2] <= q[i][2] /\ w.level <= q[1][2] /\ q[i][2] <= w.level + 1
    BY <1>2, <2>1 DEF Walked
  <2> QED
    BY <2>1, <2>2
<1>6. Near(graph, w, q[1][2]) \subseteq w.seen
  <2>1. q[1][2] \in Nat /\ q[1][2] <= w.depth
    BY <1>2, <1>5 DEF Walked
  <2> QED
    BY <1>1, <1>5, <2>1, SeenCovers
<1>7. Walked(graph, p, {p.at})
  <2>1. /\ p.root \in p.seen /\ p.seen \subseteq Symbols(graph)
        /\ p.seen \subseteq Near(graph, p, p.depth) /\ p.edges \subseteq Real(graph, p)
    BY <1>2, <1>4 DEF Walked, SameQuery
  <2>2. \A i \in DOMAIN p.queue :
          /\ p.queue[i][1] \in Near(graph, p, p.queue[i][2]) /\ p.queue[i][1] \in p.seen
          /\ p.queue[i][2] <= p.depth
          /\ p.queue[i][2] > 0 => p.queue[i][1] \notin Near(graph, p, p.queue[i][2] - 1)
    BY <1>2, <1>4 DEF Walked
  <2>3. ASSUME NEW i \in DOMAIN p.queue, NEW j \in DOMAIN p.queue, i <= j
        PROVE  /\ p.level <= p.queue[i][2] /\ p.queue[i][2] <= p.queue[j][2]
               /\ p.queue[j][2] <= p.level + 1
    <3>1. i + 1 \in DOMAIN q /\ j + 1 \in DOMAIN q /\ i + 1 <= j + 1
      BY <1>2, <1>3, <2>3
    <3>2. q[i + 1][2] <= q[j + 1][2]
      BY <3>1 DEF Walked
    <3> QED
      BY <1>2, <1>5, <3>1, <3>2
  <2>4. ASSUME NEW s \in p.seen \ {p.at}
        PROVE  Queued(p, s) \/ (s \in Inner(graph, p) => Accepts(p, AllOffers(graph, p, s)))
    <3>1. Queued(w, s) \/ (s \in Inner(graph, w) => Accepts(w, AllOffers(graph, w, s)))
      BY <1>1, <1>2, <2>4 DEF Walked
    <3>2. CASE Queued(w, s)
      <4>1. PICK i \in DOMAIN q : q[i][1] = s
        BY <3>2 DEF Queued
      <4>2. i # 1 /\ i - 1 \in DOMAIN p.queue
        BY <1>2, <1>3, <2>4, <4>1
      <4>3. p.queue[i - 1] = q[(i - 1) + 1] /\ (i - 1) + 1 = i
        BY <1>2, <1>3, <4>2
      <4> QED
        BY <4>1, <4>2, <4>3 DEF Queued
    <3>3. CASE s \in Inner(graph, w) => Accepts(w, AllOffers(graph, w, s))
      BY <1>2, <1>4, <3>3 DEF Accepts
    <3> QED
      BY <3>1, <3>2, <3>3
  <2> QED
    BY <1>2, <2>1, <2>2, <2>3, <2>4 DEF Walked
<1>8. /\ p.at \in p.seen /\ p.at \in Near(graph, p, p.level) /\ p.level <= p.depth
      /\ p.level > 0 => p.at \notin Near(graph, p, p.level - 1)
  BY <1>2, <1>4 DEF Walked
<1>9. Opened(graph, p)
  BY <1>2, <1>4, <1>6, <1>7, <1>8 DEF Opened
<1> QED
  BY <1>2, <1>9 DEF p

LEMMA WalkedTakes ==
  ASSUME NEW graph, NEW w, NEW v, Opened(graph, w), w.level < w.depth,
         NEW offers, offers \subseteq AllOffers(graph, w, w.at), Genuine(graph, w.at, offers),
         Progress(w, v, offers)
  PROVE  Opened(graph, v) /\ v.level < v.depth /\ v.at = w.at
<1>1. /\ IsWalk(w) /\ IsWalk(v) /\ SameEntry(w, v) /\ SameQuery(w, v) /\ Takes(w, v, offers) /\ Queues(w, v)
      /\ w.level \in Nat /\ w.depth \in Nat /\ w.at # NoSource
  BY DEF Opened, Walked, Progress, SameEntry, SameQuery, IsWalk, NoSource, NoSymbol
<1>2. /\ \A n : Near(graph, v, n) = Near(graph, w, n)
      /\ Inner(graph, v) = Inner(graph, w)
      /\ \A s : AllOffers(graph, v, s) = AllOffers(graph, w, s)
      /\ Real(graph, v) = Real(graph, w)
  BY <1>1, SameReach
<1>3. /\ w.at \in Inner(graph, w) /\ w.at \in Near(graph, w, w.level)
      /\ w.level + 1 <= w.depth /\ w.level + 1 \in Nat
  BY <1>1 DEF Inner, Opened
<1>4. \A o \in offers : o[1] \in Near(graph, w, w.level + 1) /\ o[2] \in Real(graph, w) /\ o[1] \in Symbols(graph)
  BY <1>1, <1>3, OffersNear DEF Genuine
<1>5. \A x \in v.seen \ w.seen :
         /\ x \in Near(graph, w, w.level + 1) /\ x \notin Near(graph, w, w.level) /\ x \in Symbols(graph)
  <2> TAKE x \in v.seen \ w.seen
  <2>1. PICK e \in v.edges : <<x, e>> \in offers
    BY <1>1 DEF Takes
  <2> QED
    BY <1>4, <2>1 DEF Opened
<1>6. /\ v.root \in v.seen /\ v.seen \subseteq Symbols(graph)
      /\ v.seen \subseteq Near(graph, v, v.depth) /\ v.edges \subseteq Real(graph, v)
  <2>1. v.root \in v.seen
    BY <1>1 DEF Takes, SameEntry, Opened, Walked
  <2>2. v.seen \subseteq Symbols(graph)
    BY <1>5 DEF Opened, Walked
  <2>3. v.seen \subseteq Near(graph, v, v.depth)
    <3>1. Near(graph, w, w.level + 1) \subseteq Near(graph, w, w.depth)
      BY <1>1, <1>3, NearGrows
    <3> QED
      BY <1>1, <1>2, <1>5, <3>1 DEF Opened, Walked, SameEntry
  <2>4. v.edges \subseteq Real(graph, v)
    <3> SUFFICES ASSUME NEW e \in v.edges PROVE e \in Real(graph, w)
      BY <1>2
    <3>1. CASE e \in w.edges
      BY <3>1 DEF Opened, Walked
    <3>2. CASE e \notin w.edges
      <4>1. PICK x \in v.seen : <<x, e>> \in offers
        BY <1>1, <3>2 DEF Takes
      <4> QED
        BY <1>4, <4>1
    <3> QED
      BY <3>1, <3>2
  <2> QED
    BY <2>1, <2>2, <2>3, <2>4
<1>7. /\ DOMAIN w.queue = 1..Len(w.queue) /\ DOMAIN v.queue = 1..Len(v.queue)
      /\ Len(w.queue) \in Nat /\ Len(v.queue) \in Nat /\ Len(w.queue) <= Len(v.queue)
  BY <1>1 DEF IsWalk, Queues
<1>8. \A i \in DOMAIN v.queue :
         \/ i \in DOMAIN w.queue /\ v.queue[i] = w.queue[i]
         \/ i \notin DOMAIN w.queue /\ \E x \in v.seen \ w.seen : v.queue[i] = <<x, w.level + 1>>
  <2> TAKE i \in DOMAIN v.queue
  <2>1. CASE i \in DOMAIN w.queue
    BY <1>1, <1>7, <2>1 DEF Queues
  <2>2. CASE i \notin DOMAIN w.queue
    <3>1. i \in (Len(w.queue) + 1)..Len(v.queue)
      BY <1>7, <2>2
    <3> QED
      BY <1>1, <2>2, <3>1 DEF Queues
  <2> QED
    BY <2>1, <2>2
<1>9. ASSUME NEW i \in DOMAIN v.queue
      PROVE  /\ v.queue[i][1] \in Near(graph, v, v.queue[i][2]) /\ v.queue[i][1] \in v.seen
             /\ v.queue[i][2] <= v.depth
             /\ v.queue[i][2] > 0 => v.queue[i][1] \notin Near(graph, v, v.queue[i][2] - 1)
  <2>1. CASE i \in DOMAIN w.queue /\ v.queue[i] = w.queue[i]
    <3>1. /\ w.queue[i][1] \in Near(graph, w, w.queue[i][2]) /\ w.queue[i][1] \in w.seen
          /\ w.queue[i][2] <= w.depth
          /\ w.queue[i][2] > 0 => w.queue[i][1] \notin Near(graph, w, w.queue[i][2] - 1)
      BY <2>1 DEF Opened, Walked
    <3> QED
      BY <1>1, <1>2, <2>1, <3>1 DEF Takes, SameEntry
  <2>2. CASE \E x \in v.seen \ w.seen : v.queue[i] = <<x, w.level + 1>>
    <3>1. PICK x \in v.seen \ w.seen : v.queue[i] = <<x, w.level + 1>>
      BY <2>2
    <3>2. v.queue[i][1] = x /\ v.queue[i][2] = w.level + 1 /\ (w.level + 1) - 1 = w.level
      BY <1>1, <3>1
    <3> QED
      BY <1>1, <1>2, <1>3, <1>5, <3>2 DEF SameEntry
  <2> QED
    BY <1>8, <2>1, <2>2
<1>10. ASSUME NEW i \in DOMAIN v.queue, NEW j \in DOMAIN v.queue, i <= j
       PROVE  /\ v.level <= v.queue[i][2] /\ v.queue[i][2] <= v.queue[j][2]
              /\ v.queue[j][2] <= v.level + 1
  <2>1. v.level = w.level /\ w.level \in Nat
    BY <1>1 DEF SameEntry
  <2>2. CASE j \in DOMAIN w.queue
    <3>1. i \in DOMAIN w.queue
      BY <1>7, <1>10, <2>2
    <3>2. v.queue[i] = w.queue[i] /\ v.queue[j] = w.queue[j]
      BY <1>8, <2>2, <3>1
    <3>3. /\ w.level <= w.queue[i][2] /\ w.queue[i][2] <= w.queue[j][2]
          /\ w.queue[j][2] <= w.level + 1
      BY <1>10, <2>2, <3>1 DEF Opened, Walked
    <3> QED
      BY <2>1, <3>2, <3>3
  <2>3. CASE j \notin DOMAIN w.queue
    <3>1. v.queue[j][2] = w.level + 1
      BY <1>8, <2>3
    <3>2. CASE i \in DOMAIN w.queue
      <4>1. v.queue[i] = w.queue[i] /\ w.queue[i][2] \in Nat
        BY <1>1, <1>8, <3>2, LevelsNat
      <4>2. w.level <= w.queue[i][2] /\ w.queue[i][2] <= w.level + 1
        BY <1>7, <3>2 DEF Opened, Walked
      <4> QED
        BY <2>1, <3>1, <4>1, <4>2
    <3>3. CASE i \notin DOMAIN w.queue
      <4>1. v.queue[i][2] = w.level + 1
        BY <1>8, <3>3
      <4> QED
        BY <2>1, <3>1, <4>1
    <3> QED
      BY <3>2, <3>3
  <2> QED
    BY <2>2, <2>3
<1>11. ASSUME ~v.truncated, NEW s \in v.seen \ {v.at}
       PROVE  Queued(v, s) \/ (s \in Inner(graph, v) => Accepts(v, AllOffers(graph, v, s)))
  <2>1. CASE s \notin w.seen
    <3>1. PICK i \in (Len(w.queue) + 1)..Len(v.queue) : v.queue[i] = <<s, w.level + 1>>
      BY <1>1, <2>1 DEF Queues
    <3>2. i \in DOMAIN v.queue /\ v.queue[i][1] = s
      BY <1>7, <3>1
    <3> QED
      BY <3>2 DEF Queued
  <2>2. CASE s \in w.seen
    <3>1. ~w.truncated /\ s \in w.seen \ {w.at}
      BY <1>1, <1>11, <2>2 DEF Takes, SameEntry
    <3>2. Queued(w, s) \/ (s \in Inner(graph, w) => Accepts(w, AllOffers(graph, w, s)))
      BY <3>1 DEF Opened, Walked
    <3>3. CASE Queued(w, s)
      <4>1. PICK i \in DOMAIN w.queue : w.queue[i][1] = s
        BY <3>3 DEF Queued
      <4>2. i \in DOMAIN v.queue /\ v.queue[i] = w.queue[i]
        BY <1>7, <1>8
      <4> QED
        BY <4>1, <4>2 DEF Queued
    <3>4. CASE s \in Inner(graph, w) => Accepts(w, AllOffers(graph, w, s))
      BY <1>1, <1>2, <3>4 DEF Accepts, Takes
    <3> QED
      BY <3>2, <3>3, <3>4
  <2> QED
    BY <2>1, <2>2
<1>12. Walked(graph, v, {v.at})
  BY <1>1, <1>6, <1>9, <1>10, <1>11 DEF Walked
<1>13. /\ v.at \in v.seen /\ v.at \in Near(graph, v, v.level) /\ v.level <= v.depth
       /\ v.level > 0 => v.at \notin Near(graph, v, v.level - 1)
       /\ Near(graph, v, v.level) \subseteq v.seen
  BY <1>1, <1>2 DEF Opened, SameEntry, Takes
<1> QED
  BY <1>1, <1>12, <1>13 DEF Opened, SameEntry

(* An entry is closed when its offers were all taken, or it lies too far *)
LEMMA WalkedCloses ==
  ASSUME NEW graph, NEW w, Opened(graph, w),
         w.truncated \/ w.level >= w.depth \/ Accepts(w, AllOffers(graph, w, w.at))
  PROVE  Walked(graph, w, {})
<1>1. IsWalk(w) /\ w.level \in Nat /\ w.depth \in Nat
  BY DEF Opened, Walked, IsWalk
<1>2. CASE w.truncated
  BY <1>2 DEF Opened, Walked
<1>3. CASE Accepts(w, AllOffers(graph, w, w.at))
  BY <1>3 DEF Opened, Walked
<1>4. CASE w.level >= w.depth
  <2>1. w.at \notin Inner(graph, w)
    <3> SUFFICES ASSUME NEW n \in 0..(w.depth - 1), w.at \in Near(graph, w, n) PROVE FALSE
      BY DEF Inner
    <3>1. w.level > 0 /\ w.level - 1 \in Nat /\ n \in Nat /\ n <= w.level - 1
      BY <1>1, <1>4 DEF Opened
    <3>2. Near(graph, w, n) \subseteq Near(graph, w, w.level - 1)
      BY <3>1, NearGrows
    <3> QED
      BY <3>1, <3>2 DEF Opened
  <2> QED
    BY <2>1 DEF Opened, Walked
<1> QED
  BY <1>2, <1>3, <1>4

(* What a walk that is done has found *)
Complete(graph, w) ==
    /\ w.nodes \subseteq Near(graph, w, w.depth) /\ w.edges \subseteq Real(graph, w)
    /\ ~w.truncated => w.nodes = Near(graph, w, w.depth) /\ w.edges = Real(graph, w)

LEMMA WalkedEnds ==
  ASSUME NEW graph, NEW w, Walked(graph, w, {}), Done(w)
  PROVE  Complete(graph, w)
<1>1. w.nodes = w.seen /\ w.seen \subseteq Near(graph, w, w.depth) /\ w.edges \subseteq Real(graph, w) /\ w.depth \in Nat
  BY DEF Walked, IsWalk
<1>2. ASSUME ~w.truncated
      PROVE  Near(graph, w, w.depth) \subseteq w.seen /\ Real(graph, w) \subseteq w.edges
  <2>1. DOMAIN w.queue = {}
    BY <1>2 DEF Done
  <2>2. Near(graph, w, w.depth) \subseteq w.seen
    BY <1>1, <1>2, <2>1, SeenCovers
  <2>3. ASSUME NEW t \in Real(graph, w) PROVE t \in w.edges
    <3>1. PICK x \in Inner(graph, w) : \E y : <<y, t>> \in AllOffers(graph, w, x)
      BY RealOffered
    <3>2. PICK n \in 0..(w.depth - 1) : x \in Near(graph, w, n)
      BY DEF Inner
    <3>3. n \in Nat /\ n <= w.depth
      BY <1>1
    <3>4. x \in w.seen
      BY <1>1, <2>2, <3>2, <3>3, NearGrows
    <3>5. Accepts(w, AllOffers(graph, w, x))
      BY <1>2, <2>1, <3>1, <3>4 DEF Walked, Queued
    <3> QED
      BY <3>1, <3>5 DEF Accepts
  <2> QED
    BY <2>2, <2>3
<1> QED
  BY <1>1, <1>2 DEF Complete

(* The two statements of an expansion over one index *)
OffersOut(graph, w) == IF w.out THEN OutOffers(graph, w.at, w.loops) ELSE {}
OffersIn(graph, w) == IF w.in THEN InOffers(graph, w.at) ELSE {}
Unqueued(w) == Cardinality(w.seen) - Len(w.queue)

LEMMA OffersOfBoth ==
  ASSUME NEW graph, WellFormed(graph), NEW w, w.at \in Nat \ {NoSymbol}
  PROVE  /\ AllOffers(graph, w, w.at) = OffersOut(graph, w) \cup OffersIn(graph, w)
         /\ Genuine(graph, w.at, OffersOut(graph, w)) /\ Genuine(graph, w.at, OffersIn(graph, w))
<1>1. Genuine(graph, w.at, OutOffers(graph, w.at, w.loops)) /\ Genuine(graph, w.at, InOffers(graph, w.at))
  BY OffersGenuine
<1>2. Genuine(graph, w.at, {})
  BY DEF Genuine
<1> QED
  BY <1>1, <1>2 DEF AllOffers, OffersOut, OffersIn

LEMMA ExpandsOut ==
  ASSUME NEW graph, WellFormed(graph), NEW w, Opened(graph, w), w.level < w.depth
  PROVE  LET v == OutStep(graph, w)
         IN  /\ Opened(graph, v) /\ v.level < v.depth /\ SameQuery(w, v)
             /\ ~v.truncated => Accepts(v, OffersOut(graph, v))
             /\ Unqueued(v) = Unqueued(w)
<1> DEFINE v == OutStep(graph, w)
<1>1. IsWalk(w) /\ w.at \in Nat \ {NoSymbol}
  BY DEF Opened, Walked, IsWalk
<1>2. Progress(w, v, OffersOut(graph, w))
  BY <1>1, OutStepProgress DEF OffersOut
<1>3. /\ OffersOut(graph, w) \subseteq AllOffers(graph, w, w.at)
      /\ Genuine(graph, w.at, OffersOut(graph, w))
  BY <1>1, OffersOfBoth
<1> HIDE DEF v
<1>4. Opened(graph, v) /\ v.level < v.depth /\ v.at = w.at
  BY <1>2, <1>3, WalkedTakes
<1>5. OffersOut(graph, v) = OffersOut(graph, w) /\ SameQuery(w, v)
  BY <1>2 DEF Progress, SameEntry, OffersOut, SameQuery
<1>6. ~v.truncated => Accepts(v, OffersOut(graph, v))
  BY <1>2, <1>5 DEF Progress, Takes, Accepts
<1>7. Unqueued(v) = Unqueued(w)
  BY <1>2 DEF Progress, Queues, Unqueued
<1> QED
  BY <1>4, <1>5, <1>6, <1>7 DEF v

LEMMA ExpandsIn ==
  ASSUME NEW graph, WellFormed(graph), NEW w, Opened(graph, w), w.level < w.depth,
         Accepts(w, OffersOut(graph, w))
  PROVE  LET v == InStep(graph, w)
         IN  Walked(graph, v, {}) /\ SameQuery(w, v) /\ Unqueued(v) = Unqueued(w)
<1> DEFINE v == InStep(graph, w)
<1>1. IsWalk(w) /\ w.at \in Nat \ {NoSymbol}
  BY DEF Opened, Walked, IsWalk
<1>2. Progress(w, v, OffersIn(graph, w))
  BY <1>1, InStepProgress DEF OffersIn
<1>3. /\ OffersIn(graph, w) \subseteq AllOffers(graph, w, w.at)
      /\ Genuine(graph, w.at, OffersIn(graph, w))
  BY <1>1, OffersOfBoth
<1> HIDE DEF v
<1>4. Opened(graph, v) /\ v.level < v.depth /\ v.at = w.at
  BY <1>2, <1>3, WalkedTakes
<1>5. /\ OffersOut(graph, v) = OffersOut(graph, w) /\ OffersIn(graph, v) = OffersIn(graph, w)
      /\ SameQuery(w, v) /\ w.seen \subseteq v.seen /\ w.edges \subseteq v.edges
  BY <1>2 DEF Progress, SameEntry, SameQuery, Takes, OffersOut, OffersIn
<1>6. AllOffers(graph, v, v.at) = OffersOut(graph, v) \cup OffersIn(graph, v)
  BY <1>1, <1>4, OffersOfBoth
<1>7. ~v.truncated => Accepts(v, AllOffers(graph, v, v.at))
  BY <1>2, <1>5, <1>6 DEF Progress, Takes, Accepts
<1>8. Walked(graph, v, {})
  BY <1>4, <1>7, WalkedCloses
<1>9. Unqueued(v) = Unqueued(w)
  BY <1>2 DEF Progress, Queues, Unqueued
<1> QED
  BY <1>5, <1>8, <1>9 DEF v

----------------------------------------------------------------------------
(* A call that sees one index only *)
OneIndexInv ==
    /\ Walking => ~walk.loops
    /\ answer.tool = "explore_graph" => ~answer.response.loops
    /\ versions = {g} =>
          /\ pc \in {"root", "out"} => Walked(g, walk, {})
          /\ pc = "in" => /\ Opened(g, walk) /\ walk.level < walk.depth
                          /\ Accepts(walk, OffersOut(g, walk))
          /\ answer.tool = "explore_graph" => Complete(g, answer.response)

LEMMA OneIndexStep == SessionInv /\ OneIndexInv /\ [Next]_vars => OneIndexInv'
<1> SUFFICES ASSUME SessionInv, OneIndexInv, [Next]_vars PROVE OneIndexInv'
  OBVIOUS
<1>0. CallInv /\ WellFormed(g) /\ Symbols(g) \subseteq Nat \ {NoSymbol}
  BY DEF SessionInv, IndexInv, WellFormed
<1>1. ASSUME NEW tool \in GraphTools \cup LookupTools, Answers(tool) PROVE OneIndexInv'
  BY <1>1 DEF Answers, GraphTools, LookupTools, OneIndexInv, Walking
<1>2. CASE AskGraph \/ AskLookup
  BY <1>1, <1>2, GraphAnswers, LookupAnswers
<1>3. ASSUME NEW s \in Targets, NEW d \in Depths, NEW m \in NodeLimits, NEW way \in Directions,
             BeginExplore(s, d, m, way)
      PROVE  OneIndexInv'
  <2>1. s \in Symbols(g) /\ s \in Nat \ {NoSymbol} /\ d \in Nat /\ m \in Nat
    BY <1>0, QueriesAssumption DEF Targets
  <2>2. /\ pc = "idle" /\ pc' = "root" /\ UNCHANGED <<g, answer>>
        /\ walk' = StartWalk(g, s, d, m, way, FALSE)
    BY <1>3 DEF BeginExplore
  <2>3. Walked(g, walk', {})
    BY <2>1, <2>2, WalkedStarts
  <2>4. ~walk'.loops
    BY <2>1, <2>2, StartFields DEF Started
  <2>5. answer'.tool = "none"
    BY <1>0, <2>2 DEF CallInv
  <2> QED
    BY <2>2, <2>3, <2>4, <2>5 DEF OneIndexInv, Walking
<1>4. CASE FindRoot
  <2>1. pc = "root" /\ UNCHANGED <<g, versions>> /\ answer.tool = "none" /\ Tidy(walk, versions) /\ ~walk.loops
    BY <1>0, <1>4 DEF FindRoot, CallInv, Walking, OneIndexInv
  <2>2. CASE RootById(g, walk.root) # NoSymbol
    BY <1>4, <2>1, <2>2 DEF FindRoot, OneIndexInv, Walking
  <2>3. CASE RootById(g, walk.root) = NoSymbol
    <3>1. versions # {g}
      <4> SUFFICES ASSUME versions = {g} PROVE FALSE
        OBVIOUS
      <4>1. walk.root \in Symbols(g)
        BY <2>1 DEF OneIndexInv, Walked
      <4> QED
        BY <1>0, <2>3, <4>1 DEF RootById
    <3>2. answer' = Answer([walk EXCEPT !.nodes = {}, !.queue = <<>>]) /\ pc' = "done"
      BY <1>4, <2>3 DEF FindRoot
    <3>3. ~answer'.response.loops
      BY <2>1, <3>2 DEF Answer, Tidy, IsWalk
    <3> QED
      BY <2>1, <3>1, <3>2, <3>3 DEF OneIndexInv, Walking
  <2> QED
    BY <2>2, <2>3
<1>5. CASE ExpandOut
  <2> DEFINE popped == Pop(walk)
  <2>1. /\ pc = "out" /\ ~Done(walk) /\ UNCHANGED <<g, answer, versions>> /\ answer.tool = "none"
        /\ IsWalk(walk) /\ walk.queue # <<>> /\ ~walk.loops
    BY <1>0, <1>5 DEF ExpandOut, CallInv, Walking, OneIndexInv, Done, Tidy
  <2>2. IsWalk(popped) /\ ~popped.loops
    BY <2>1, PopFields
  <2>3. /\ walk' = IF Expanded(popped) THEN OutStep(g, popped) ELSE popped
        /\ pc' = IF Expanded(popped) /\ ~walk'.truncated THEN "in" ELSE "out"
    BY <1>5 DEF ExpandOut
  <2> HIDE DEF popped
  <2>4. ~walk'.loops
    <3>1. ~OutStep(g, popped).loops
      BY <1>0, <2>2, OutStepProgress DEF Progress, SameEntry
    <3> QED
      BY <2>2, <2>3, <3>1
  <2>5. ASSUME versions = {g}
        PROVE  /\ pc' = "out" => Walked(g, walk', {})
               /\ pc' = "in" => /\ Opened(g, walk') /\ walk'.level < walk'.depth
                                /\ Accepts(walk', OffersOut(g, walk'))
    <3>1. Opened(g, popped) /\ ~popped.truncated
      BY <2>1, <2>5, WalkedPops DEF OneIndexInv, popped
    <3>2. CASE Expanded(popped)
      <4>1. /\ Opened(g, walk') /\ walk'.level < walk'.depth
            /\ ~walk'.truncated => Accepts(walk', OffersOut(g, walk'))
        BY <1>0, <2>3, <3>1, <3>2, ExpandsOut DEF Expanded
      <4>2. pc' = "in" <=> ~walk'.truncated
        BY <2>3, <3>2
      <4>3. walk'.truncated => Walked(g, walk', {})
        BY <4>1, WalkedCloses
      <4> QED
        BY <2>3, <4>1, <4>2, <4>3
    <3>3. CASE ~Expanded(popped)
      <4>1. popped.level >= popped.depth
        BY <2>2, <3>3 DEF Expanded, IsWalk
      <4>2. Walked(g, popped, {})
        BY <3>1, <4>1, WalkedCloses
      <4> QED
        BY <2>3, <3>3, <4>2
    <3> QED
      BY <3>2, <3>3
  <2>6. pc' \in {"out", "in"}
    BY <2>3
  <2> QED
    BY <2>1, <2>4, <2>5, <2>6 DEF OneIndexInv, Walking
<1>6. CASE ExpandIn
  <2>1. /\ pc = "in" /\ pc' = "out" /\ walk' = InStep(g, walk) /\ UNCHANGED <<g, answer, versions>>
        /\ answer.tool = "none" /\ IsWalk(walk) /\ ~walk.loops
    BY <1>0, <1>6 DEF ExpandIn, CallInv, Walking, OneIndexInv, Tidy
  <2>2. ~walk'.loops
    BY <1>0, <2>1, InStepProgress DEF Progress, SameEntry
  <2>3. versions = {g} => Walked(g, walk', {})
    BY <1>0, <2>1, ExpandsIn DEF OneIndexInv
  <2> QED
    BY <2>1, <2>2, <2>3 DEF OneIndexInv, Walking
<1>7. CASE EndExplore
  <2>1. /\ pc = "out" /\ Done(walk) /\ pc' = "done" /\ answer' = Answer(walk) /\ UNCHANGED <<g, versions>>
        /\ ~walk.loops
    BY <1>7 DEF EndExplore, Walking, OneIndexInv
  <2>2. answer'.tool = "explore_graph" /\ answer'.response = walk
    BY <2>1 DEF Answer
  <2>3. versions = {g} => Complete(g, walk)
    BY <2>1, WalkedEnds DEF OneIndexInv
  <2> QED
    BY <2>1, <2>2, <2>3 DEF OneIndexInv, Walking
<1>8. ASSUME NEW f, ReplaceFile(f) \/ LinkAgain PROVE OneIndexInv'
  <2>1. /\ Walking /\ versions' = versions \cup {g'} /\ UNCHANGED <<answer, walk, pc>> /\ g \in versions
    BY <1>0, <1>8 DEF ReplaceFile, LinkAgain, Walking, CallInv
  <2>2. versions' = {g'} => g' = g /\ versions = {g}
    BY <2>1
  <2> QED
    BY <2>1, <2>2 DEF OneIndexInv, Walking
<1>9. CASE NextRequest
  BY <1>9 DEF NextRequest, OneIndexInv, Walking, NoAnswer
<1>10. CASE UNCHANGED vars
  BY <1>10 DEF vars, OneIndexInv, Walking
<1> QED
  BY <1>2, <1>3, <1>4, <1>5, <1>6, <1>7, <1>8, <1>9, <1>10 DEF Next, Explore, Reindexing

LEMMA OneIndexHolds == Spec => [](SessionInv /\ OneIndexInv)
<1>1. Init => SessionInv /\ OneIndexInv
  BY SessionInit DEF Init, OneIndexInv, Walking, NoAnswer
<1>2. SessionInv /\ OneIndexInv /\ [Next]_vars => (SessionInv /\ OneIndexInv)'
  BY IndexStep, CallStep, OneIndexStep DEF SessionInv
<1> QED
  BY <1>1, <1>2, PTL DEF Spec

(* explore_graph over an index nobody replaced meanwhile: what it returns  *)
(* lies within the depth asked for, and an answer that does not say it is  *)
(* truncated holds all of it, each edge at a symbol it expanded.           *)
THEOREM ExploreIsComplete == Spec => []ExploreComplete
<1>1. SessionInv /\ OneIndexInv => ExploreComplete
  <2> SUFFICES ASSUME SessionInv, OneIndexInv, Answered("explore_graph"), Cardinality(versions) = 1
               PROVE  ExploreComplete
    BY DEF ExploreComplete
  <2> DEFINE w == answer.response
  <2>1. versions = {g}
    <3>1. IsFiniteSet(versions) /\ g \in versions
      BY DEF SessionInv, CallInv, Answered
    <3> QED
      BY <3>1, FS_Singleton
  <2>2. Complete(g, w) /\ ~w.loops
    BY <2>1 DEF OneIndexInv, Answered
  <2> HIDE DEF w
  <2>3. Real(g, w) = Triples({e \in Sourced(g) : /\ e.src # e.tgt
                                                 /\ (w.out /\ e.src \in Inner(g, w)) \/ (w.in /\ e.tgt \in Inner(g, w))})
    BY <2>2 DEF Real
  <2> QED
    BY <2>2, <2>3 DEF ExploreComplete, Complete, Near, Inner, w
<1> QED
  BY <1>1, OneIndexHolds, PTL

----------------------------------------------------------------------------
(* A walk from start to end over one index *)

LEMMA RoundWalks ==
  ASSUME NEW graph, WellFormed(graph), NEW w, Walked(graph, w, {})
  PROVE  LET v == Round(graph, w)
         IN  /\ Walked(graph, v, {}) /\ SameQuery(w, v)
             /\ Done(w) => v = w
             /\ ~Done(w) => Unqueued(v) = Unqueued(w) + 1
<1>1. IsWalk(w)
  BY DEF Walked
<1>2. CASE Done(w)
  BY <1>2 DEF Round, SameQuery
<1>3. CASE ~Done(w)
  <2> DEFINE popped == Pop(w)
             out == OutStep(graph, popped)
  <2>1. w.queue # <<>> /\ Len(w.queue) \in Nat /\ Cardinality(w.seen) \in Nat
    BY <1>1, <1>3, WalkSizes DEF Done
  <2>2. /\ Opened(graph, popped) /\ ~popped.truncated /\ SameQuery(w, popped)
        /\ Unqueued(popped) = Unqueued(w) + 1 /\ IsWalk(popped)
    <3>1. /\ SameQuery(w, popped) /\ popped.seen = w.seen /\ Len(popped.queue) = Len(w.queue) - 1
          /\ IsWalk(popped)
      BY <1>1, <2>1, PopFields DEF SameQuery
    <3>2. Opened(graph, popped) /\ ~popped.truncated
      BY <1>3, WalkedPops
    <3> HIDE DEF popped
    <3> QED
      BY <2>1, <3>1, <3>2 DEF Unqueued
  <2>3. Round(graph, w) = IF ~Expanded(popped) THEN popped
                          ELSE IF out.truncated THEN out ELSE InStep(graph, out)
    BY <1>3 DEF Round
  <2> HIDE DEF popped
  <2>4. CASE ~Expanded(popped)
    <3>1. popped.level >= popped.depth
      BY <2>2, <2>4 DEF Expanded, IsWalk
    <3>2. Walked(graph, popped, {})
      BY <2>2, <3>1, WalkedCloses
    <3> QED
      BY <1>3, <2>2, <2>3, <2>4, <3>2
  <2>5. CASE Expanded(popped)
    <3>1. /\ Opened(graph, out) /\ out.level < out.depth /\ SameQuery(popped, out)
          /\ ~out.truncated => Accepts(out, OffersOut(graph, out))
          /\ Unqueued(out) = Unqueued(popped)
      BY <2>2, <2>5, ExpandsOut DEF Expanded
    <3> HIDE DEF out
    <3>2. SameQuery(w, out)
      BY <2>2, <3>1 DEF SameQuery
    <3>3. CASE out.truncated
      <4>1. Walked(graph, out, {})
        BY <3>1, <3>3, WalkedCloses
      <4> QED
        BY <1>3, <2>2, <2>3, <2>5, <3>1, <3>2, <3>3, <4>1
    <3>4. CASE ~out.truncated
      <4> DEFINE v == InStep(graph, out)
      <4>1. Walked(graph, v, {}) /\ SameQuery(out, v) /\ Unqueued(v) = Unqueued(out)
        BY <3>1, <3>4, ExpandsIn
      <4> HIDE DEF v
      <4>2. SameQuery(w, v)
        BY <3>2, <4>1 DEF SameQuery
      <4>3. Round(graph, w) = v
        BY <2>3, <2>5, <3>4 DEF v
      <4> QED
        BY <1>3, <2>2, <3>1, <4>1, <4>2, <4>3
    <3> QED
      BY <3>3, <3>4
  <2> QED
    BY <2>4, <2>5
<1> QED
  BY <1>2, <1>3

RoundTake(c, v, i) == Round(c, v)
RoundFold == INSTANCE FoldTheorems WITH Step <- RoundTake, Greatest <- Max

LEMMA FinishRuns ==
  ASSUME NEW graph, WellFormed(graph), NEW w
  PROVE  \E f : /\ f[0] = w
                /\ \A i \in 1..Cardinality(Symbols(graph)) : f[i] = Round(graph, f[i - 1])
                /\ Finish(graph, w) = f[Cardinality(Symbols(graph))]
<1> DEFINE n == Cardinality(Symbols(graph))
           iter == CHOOSE iter : RoundFold!Iterates(iter, graph, w, UpTo(n), DOMAIN UpTo(n))
<1>1. n \in Nat
  BY FS_CardinalityType DEF WellFormed
<1>2. RoundFold!GreatestUpTo(n)
  BY <1>1, MaxIsGreatest DEF RoundFold!GreatestUpTo
<1>3. DOMAIN UpTo(n) = 1..n
  BY DEF UpTo
<1>4. RoundFold!Iterates(iter, graph, w, UpTo(n), DOMAIN UpTo(n))
  <2>1. \E it : RoundFold!Iterates(it, graph, w, UpTo(n), 1..n)
    <3> HIDE DEF n
    <3> QED
      BY <1>1, <1>2, RoundFold!IterationExists
  <2> HIDE DEF n
  <2> QED
    BY <1>3, <2>1
<1>5. Finish(graph, w) = iter[DOMAIN UpTo(n)]
  BY DEF Finish, FoldLeft, MapThenFoldSet, RoundFold!Iterates, RoundTake
<1> HIDE DEF iter
<1>6. PICK f : RoundFold!IsRun(f, graph, w, UpTo(n), n) /\ Finish(graph, w) = f[n]
  <2> HIDE DEF n
  <2> QED
    BY <1>1, <1>2, <1>3, <1>4, <1>5, RoundFold!FoldRuns
<1> QED
  BY <1>6 DEF RoundFold!IsRun, RoundTake

LEMMA FinishCompletes ==
  ASSUME NEW graph, WellFormed(graph), NEW w, Walked(graph, w, {}), Unqueued(w) = 0
  PROVE  Complete(graph, Finish(graph, w)) /\ SameQuery(w, Finish(graph, w))
<1> DEFINE n == Cardinality(Symbols(graph))
<1>1. n \in Nat /\ IsFiniteSet(Symbols(graph))
  BY FS_CardinalityType DEF WellFormed
<1>2. PICK f : f[0] = w /\ (\A i \in 1..n : f[i] = Round(graph, f[i - 1])) /\ Finish(graph, w) = f[n]
  BY FinishRuns
<1> DEFINE S == {i \in 0..n : /\ Walked(graph, f[i], {}) /\ SameQuery(w, f[i])
                              /\ Done(f[i]) \/ Unqueued(f[i]) = i}
<1>3. 0 \in S
  BY <1>1, <1>2 DEF SameQuery
<1>4. ASSUME NEW i \in 1..n, i - 1 \in S PROVE i \in S
  <2> DEFINE v == f[i - 1]
  <2>1. Walked(graph, v, {}) /\ SameQuery(w, v) /\ (Done(v) \/ Unqueued(v) = i - 1) /\ f[i] = Round(graph, v)
    BY <1>2, <1>4
  <2> HIDE DEF v
  <2>2. /\ Walked(graph, f[i], {}) /\ SameQuery(v, f[i])
        /\ Done(v) => f[i] = v
        /\ ~Done(v) => Unqueued(f[i]) = Unqueued(v) + 1
    BY <2>1, RoundWalks
  <2>3. SameQuery(w, f[i])
    BY <2>1, <2>2 DEF SameQuery
  <2>4. Done(f[i]) \/ Unqueued(f[i]) = i
    BY <2>1, <2>2
  <2> QED
    BY <1>1, <2>2, <2>3, <2>4
<1>5. n \in S
  <2>1. n \in 0..n
    BY <1>1
  <2> HIDE DEF S, n
  <2> QED
    BY <1>1, <1>3, <1>4, <2>1, WithinFold!InductionUpTo
<1> DEFINE v == f[n]
<1>6. Walked(graph, v, {}) /\ SameQuery(w, v) /\ (Done(v) \/ Unqueued(v) = n)
  BY <1>5
<1> HIDE DEF v, S
<1>7. Done(v)
  <2> SUFFICES ASSUME Unqueued(v) = n PROVE v.queue = <<>>
    BY <1>6 DEF Done
  <2>1. IsWalk(v) /\ v.seen \subseteq Symbols(graph)
    BY <1>6 DEF Walked
  <2>2. Cardinality(v.seen) <= n /\ Cardinality(v.seen) \in Nat /\ Len(v.queue) \in Nat
    <3>1. Cardinality(v.seen) <= Cardinality(Symbols(graph))
      BY <1>1, <2>1, FS_Subset
    <3> QED
      BY <2>1, <3>1, WalkSizes
  <2>3. Len(v.queue) = 0
    BY <1>1, <2>2 DEF Unqueued
  <2> QED
    BY <2>1, <2>3 DEF IsWalk
<1>8. Complete(graph, v)
  BY <1>6, <1>7, WalkedEnds
<1> QED
  BY <1>2, <1>6, <1>8 DEF v

LEMMA StartUnqueued ==
  ASSUME NEW graph, NEW root \in Nat \ {NoSymbol}, NEW depth \in Nat, NEW max \in Nat,
         NEW direction, NEW loops \in BOOLEAN
  PROVE  Unqueued(StartWalk(graph, root, depth, max, direction, loops)) = 0
<1> DEFINE w == StartWalk(graph, root, depth, max, direction, loops)
<1>1. w.seen = {root} /\ w.queue = <<<<root, 0>>>>
  <2>1. Started(w, root, depth, max, direction, loops)
    BY StartFields
  <2> QED
    BY <2>1 DEF Started
<1> HIDE DEF w
<1>2. Cardinality({root}) = 1 /\ Len(<<<<root, 0>>>>) = 1
  BY FS_Singleton
<1>3. Unqueued(w) = 0
  BY <1>1, <1>2 DEF Unqueued
<1> QED
  BY <1>3 DEF w

(* The two tools find the same but for the self-loops *)
LEMMA ToolsAgree ==
  ASSUME NEW graph, WellFormed(graph), NEW root \in Symbols(graph), NEW depth \in Nat, NEW max \in Nat
  PROVE  LET a == ExploreGraph(graph, root, depth, max, "both")
             b == GraphSubtree(graph, root, depth, max)
         IN  ~a.truncated /\ ~b.truncated =>
                a.nodes = b.nodes /\ a.edges = {e \in b.edges : e[1] # e[2]}
<1> DEFINE s == StartWalk(graph, root, depth, max, "both", FALSE)
           t == StartWalk(graph, root, depth, max, "both", TRUE)
           u == Finish(graph, s)
           v == Finish(graph, t)
<1>1. root \in Nat \ {NoSymbol} /\ root # NoSymbol
  BY DEF WellFormed
<1>2. Started(s, root, depth, max, "both", FALSE) /\ Started(t, root, depth, max, "both", TRUE)
  BY <1>1, StartFields
<1>3. Walked(graph, s, {}) /\ Walked(graph, t, {}) /\ Unqueued(s) = 0 /\ Unqueued(t) = 0
  BY <1>1, WalkedStarts, StartUnqueued
<1> HIDE DEF s, t
<1>4. Complete(graph, u) /\ SameQuery(s, u) /\ Complete(graph, v) /\ SameQuery(t, v)
  BY <1>3, FinishCompletes
<1> HIDE DEF u, v
<1>5. /\ u.root = v.root /\ u.depth = v.depth /\ u.out = v.out /\ u.in = v.in
      /\ u.out /\ u.in /\ ~u.loops /\ v.loops
  BY <1>2, <1>4 DEF Started, SameQuery
<1>6. /\ \A n : Near(graph, u, n) = Near(graph, v, n)
      /\ Inner(graph, u) = Inner(graph, v)
  <2>1. \A n : Near(graph, u, n) = Near(graph, v, n)
    BY <1>5 DEF Near, WalkSteps
  <2> QED
    BY <1>5, <2>1 DEF Inner
<1>7. Real(graph, u) = {e \in Real(graph, v) : e[1] # e[2]}
  <2>1. ASSUME NEW e \in Real(graph, u) PROVE e \in Real(graph, v) /\ e[1] # e[2]
    <3>1. PICK r \in Sourced(graph) : /\ e = <<r.src, r.tgt, r.kind>> /\ r.src # r.tgt
                                      /\ r.src \in Inner(graph, u) \/ r.tgt \in Inner(graph, u)
      BY <1>5 DEF Real, Triples
    <3> QED
      BY <1>5, <1>6, <3>1 DEF Real, Triples
  <2>2. ASSUME NEW e \in Real(graph, v), e[1] # e[2] PROVE e \in Real(graph, u)
    <3>1. PICK r \in Sourced(graph) : /\ e = <<r.src, r.tgt, r.kind>>
                                      /\ r.src \in Inner(graph, v) \/ r.tgt \in Inner(graph, v)
      BY <1>5 DEF Real, Triples
    <3>2. r.src # r.tgt
      BY <2>2, <3>1
    <3> QED
      BY <1>5, <1>6, <3>1, <3>2 DEF Real, Triples
  <2> QED
    BY <2>1, <2>2
<1>8. ASSUME ~u.truncated, ~v.truncated
      PROVE  u.nodes = v.nodes /\ u.edges = {e \in v.edges : e[1] # e[2]}
  BY <1>4, <1>5, <1>6, <1>7, <1>8 DEF Complete
<1>9. LET a == ExploreGraph(graph, root, depth, max, "both")
          b == GraphSubtree(graph, root, depth, max)
      IN  /\ a.truncated = u.truncated /\ a.nodes = u.nodes /\ a.edges = u.edges
          /\ b.truncated = v.truncated /\ b.nodes = v.nodes /\ b.edges = v.edges
  BY <1>1 DEF ExploreGraph, GraphSubtree, s, t, u, v
<1> QED
  BY <1>8, <1>9

----------------------------------------------------------------------------
(* Which action an answer comes from *)

LEMMA GraphAsks ==
  ASSUME AskGraph
  PROVE  \/ /\ answer'.tool = "get_context"
            /\ \E s \in Targets, p \in DOMAIN MaxItems, markdown \in BOOLEAN : GetContext(s, p, markdown)
         \/ /\ answer'.tool = "graph_subtree"
            /\ \E s \in Symbols(g) \cup {NoSymbol}, d \in Depths, m \in NodeLimits : Subtree(RootById(g, s), d, m)
         \/ /\ answer'.tool = "shortest_path"
            /\ \E s \in Targets, t \in Targets \cup {NoSymbol} : FindPath(s, t)
         \/ /\ answer'.tool = "dependency_cycles"
            /\ \E l \in Limits, h \in Hints, same \in BOOLEAN : Cycles(l, h, same)
         \/ answer'.tool \in {"architectural_hotspots", "subsystem_communication"}
         \/ /\ answer'.tool = "subsystem_stats"
            /\ \E t \in Texts, scope \in DOMAIN MaxHops : Subsystem(t, scope)
<1>1. ASSUME NEW s, NEW p, NEW markdown, GetContext(s, p, markdown) PROVE answer'.tool = "get_context"
  BY <1>1, RespondAnswers DEF GetContext, Answers
<1>2. ASSUME NEW s, NEW d, NEW m, Subtree(s, d, m) PROVE answer'.tool = "graph_subtree"
  BY <1>2, RespondAnswers DEF Subtree, Answers
<1>3. ASSUME NEW s, NEW t, FindPath(s, t) PROVE answer'.tool = "shortest_path"
  BY <1>3, RespondAnswers DEF FindPath, Answers
<1>4. ASSUME NEW l, NEW h, NEW same, Cycles(l, h, same) PROVE answer'.tool = "dependency_cycles"
  BY <1>4, RespondAnswers DEF Cycles, Answers
<1>5. ASSUME NEW l, NEW h, Hotspots(l, h) PROVE answer'.tool = "architectural_hotspots"
  BY <1>5, RespondAnswers DEF Hotspots, Answers
<1>6. ASSUME NEW t, NEW scope, Subsystem(t, scope) PROVE answer'.tool = "subsystem_stats"
  BY <1>6, RespondAnswers DEF Subsystem, Answers
<1>7. ASSUME NEW a, NEW b, Communication(a, b) PROVE answer'.tool = "subsystem_communication"
  BY <1>7, RespondAnswers DEF Communication, Answers
<1> QED
  BY <1>1, <1>2, <1>3, <1>4, <1>5, <1>6, <1>7 DEF AskGraph

LEMMA LookupAsks ==
  ASSUME AskLookup
  PROVE  \/ /\ answer'.tool = "get_context"
            /\ \/ \E t \in Texts, h \in Hints : GetContextByName(t, h)
               \/ \E s \in Targets, p \in DOMAIN MaxItems : GetContextWithSource(s, p)
         \/ /\ answer'.tool = "graph_subtree"
            /\ \E t \in Texts, h \in Hints, d \in Depths, m \in NodeLimits : Subtree(RootByName(g, t, h), d, m)
         \/ /\ answer'.tool = "resolve_symbol"
            /\ \E t \in Texts, h \in Hints, l \in Lines : ResolveForTool(t, h, l)
         \/ /\ answer'.tool = "read_file_skeleton"
            /\ \E t, n \in Texts \cup {NoTarget} : ReadFileSkeleton(t, n)
         \/ /\ answer'.tool \in {"read_symbol_source", "read_symbol_source_by_id"}
            /\ \E s \in Targets, deps \in BOOLEAN : ReadSymbolSource(s, deps)
         \/ /\ answer'.tool = "search_codebase"
            /\ \E t \in Texts, h \in Hints, mode \in {"symbol", "text", "both", "semantic"}, l \in Limits,
                  concepts \in BOOLEAN :
                    \E list \in (IF mode \in {"symbol", "text"} THEN {} ELSE SemanticLists(l)) \cup {Degraded} :
                        Search(t, h, mode, l, concepts, list)
         \/ answer'.tool \in {"repository_stats", "read_file_snippet", "find_duplicate_logic",
                              "resolve_any", "resolve_subsystem", "find_symbol"}
<1>1. ASSUME NEW t, NEW h, GetContextByName(t, h) PROVE answer'.tool = "get_context"
  BY <1>1, RespondAnswers DEF GetContextByName, Answers
<1>2. ASSUME NEW h, RepositoryStats(h) PROVE answer'.tool = "repository_stats"
  BY <1>2, RespondAnswers DEF RepositoryStats, Answers
<1>3. ASSUME NEW t, NEW h, NEW l, ResolveForTool(t, h, l) PROVE answer'.tool = "resolve_symbol"
  BY <1>3, RespondAnswers DEF ResolveForTool, Answers
<1>4. ASSUME NEW s, NEW d, NEW m, Subtree(s, d, m) PROVE answer'.tool = "graph_subtree"
  BY <1>4, RespondAnswers DEF Subtree, Answers
<1>5. ASSUME NEW s, NEW p, GetContextWithSource(s, p) PROVE answer'.tool = "get_context"
  BY <1>5, RespondAnswers DEF GetContextWithSource, Answers
<1>6. ASSUME NEW t, NEW n, ReadFileSkeleton(t, n) PROVE answer'.tool = "read_file_skeleton"
  BY <1>6, RespondAnswers DEF ReadFileSkeleton, Answers
<1>7. ASSUME NEW t, NEW first, NEW last, ReadFileSnippet(t, first, last) PROVE answer'.tool = "read_file_snippet"
  BY <1>7, RespondAnswers DEF ReadFileSnippet, Answers
<1>8. ASSUME NEW s, NEW deps, ReadSymbolSource(s, deps)
      PROVE  answer'.tool \in {"read_symbol_source", "read_symbol_source_by_id"}
  BY <1>8, RespondAnswers DEF ReadSymbolSource, Answers
<1>9. ASSUME NEW min, NEW h, NEW l, DuplicateLogic(min, h, l) PROVE answer'.tool = "find_duplicate_logic"
  BY <1>9, RespondAnswers DEF DuplicateLogic, Answers
<1>10. ASSUME NEW t, NEW h, Open(t, h) PROVE answer'.tool \in {"resolve_any", "resolve_subsystem"}
  BY <1>10, RespondAnswers DEF Open, Answers
<1>11. ASSUME NEW t, NEW h, FindSymbolTool(t, h) PROVE answer'.tool = "find_symbol"
  BY <1>11, RespondAnswers DEF FindSymbolTool, Answers
<1>12. ASSUME NEW t, NEW h, NEW mode, NEW l, NEW concepts, NEW list, Search(t, h, mode, l, concepts, list)
       PROVE  answer'.tool = "search_codebase"
  BY <1>12, RespondAnswers DEF Search, Answers
<1> QED
  BY <1>1, <1>2, <1>3, <1>4, <1>5, <1>6, <1>7, <1>8, <1>9, <1>10, <1>11, <1>12 DEF AskLookup

(* Every other step leaves the answer and its index, or there is none, or  *)
(* it is explore_graph's.                                                  *)
LEMMA OtherSteps ==
  ASSUME SessionInv, [Next]_vars, ~AskGraph, ~AskLookup
  PROVE  answer'.tool \in {"none", "explore_graph"} \/ UNCHANGED <<g, answer>>
<1>1. answer.tool # "none" <=> pc = "done"
  BY DEF SessionInv, CallInv
<1>2. CASE Explore
  <2>1. ASSUME NEW s, NEW d, NEW m, NEW way, BeginExplore(s, d, m, way) PROVE answer' = answer /\ g' = g
    BY <2>1 DEF BeginExplore
  <2>2. CASE FindRoot
    <3>1. \/ answer' = answer /\ g' = g
          \/ answer' = Answer([walk EXCEPT !.nodes = {}, !.queue = <<>>])
      BY <2>2 DEF FindRoot
    <3> QED
      BY <3>1 DEF Answer
  <2>3. CASE ExpandOut \/ ExpandIn
    BY <2>3 DEF ExpandOut, ExpandIn
  <2>4. CASE EndExplore
    <3>1. answer' = Answer(walk)
      BY <2>4 DEF EndExplore
    <3> QED
      BY <3>1 DEF Answer
  <2> QED
    BY <1>2, <2>1, <2>2, <2>3, <2>4 DEF Explore
<1>3. ASSUME NEW f, ReplaceFile(f) \/ LinkAgain PROVE answer'.tool = "none"
  <2>1. pc # "done" /\ answer' = answer
    BY <1>3 DEF ReplaceFile, LinkAgain
  <2> QED
    BY <1>1, <2>1
<1>4. CASE NextRequest
  BY <1>4 DEF NextRequest, NoAnswer
<1>5. CASE UNCHANGED vars
  BY <1>5 DEF vars
<1> QED
  BY <1>2, <1>3, <1>4, <1>5 DEF Next, Reindexing

----------------------------------------------------------------------------
(* graph_subtree and explore_graph *)

SubtreeInv ==
    answer.tool = "graph_subtree" =>
        \E root \in Symbols(g) \cup {NoSymbol}, d \in Nat, m \in Nat :
            /\ answer.request = [root |-> root, depth |-> d, max |-> m]
            /\ answer.response = GraphSubtree(g, root, d, m)

LEMMA RootsAreSymbols ==
  ASSUME NEW graph, WellFormed(graph), NEW s, NEW n, NEW hinted
  PROVE  RootById(graph, s) \in Symbols(graph) \cup {NoSymbol} /\ RootByName(graph, n, hinted) \in Symbols(graph) \cup {NoSymbol}
<1>1. RootById(graph, s) \in Symbols(graph) \cup {NoSymbol}
  BY DEF RootById
<1>2. RootByName(graph, n, hinted) \in Symbols(graph) \cup {NoSymbol}
  <2> DEFINE rows == {x \in Symbols(graph) : NameAt(graph, x) = n /\ FileAt(graph, x) \in hinted}
  <2>1. rows \subseteq Symbols(graph) /\ rows \subseteq Nat
    BY DEF WellFormed
  <2>2. RootByName(graph, n, hinted) = IF rows = {} THEN NoSymbol ELSE Min(rows)
    BY DEF RootByName
  <2> HIDE DEF rows
  <2> QED
    BY <2>1, <2>2, MinIsMember
<1> QED
  BY <1>1, <1>2

LEMMA SubtreeStep == SessionInv /\ SubtreeInv /\ [Next]_vars => SubtreeInv'
<1> SUFFICES ASSUME SessionInv, SubtreeInv, [Next]_vars, answer'.tool = "graph_subtree" PROVE SubtreeInv'
  BY DEF SubtreeInv
<1>1. ASSUME NEW root \in Symbols(g) \cup {NoSymbol}, NEW d \in Depths, NEW m \in NodeLimits, Subtree(root, d, m)
      PROVE  SubtreeInv'
  <2>1. d \in Nat /\ m \in Nat
    BY QueriesAssumption
  <2>2. /\ g' = g /\ answer'.request = [root |-> root, depth |-> d, max |-> m]
        /\ answer'.response = GraphSubtree(g, root, d, m)
    BY <1>1, RespondAnswers DEF Subtree, Answers
  <2> QED
    BY <2>1, <2>2 DEF SubtreeInv
<1>2. CASE AskGraph
  BY <1>1, <1>2, GraphAsks, RootsAreSymbols DEF SessionInv, IndexInv
<1>3. CASE AskLookup
  BY <1>1, <1>3, LookupAsks, RootsAreSymbols DEF SessionInv, IndexInv
<1>4. CASE ~AskGraph /\ ~AskLookup
  BY <1>4, OtherSteps DEF SubtreeInv
<1> QED
  BY <1>2, <1>3, <1>4

(* Unless one of the two is truncated, graph_subtree gives the nodes that  *)
(* explore_graph gives, and the same edges but for the self-loops.         *)
THEOREM ExploreReplaces == Spec => []ExploreReplacesSubtree
<1>1. Init => SubtreeInv
  BY DEF Init, NoAnswer, SubtreeInv
<1>2. SessionInv /\ SubtreeInv => ExploreReplacesSubtree
  <2> SUFFICES ASSUME SessionInv, SubtreeInv, Answered("graph_subtree") PROVE ExploreReplacesSubtree
    BY DEF ExploreReplacesSubtree
  <2>1. PICK root \in Symbols(g) \cup {NoSymbol}, d \in Nat, m \in Nat :
           /\ answer.request = [root |-> root, depth |-> d, max |-> m]
           /\ answer.response = GraphSubtree(g, root, d, m)
    BY DEF SubtreeInv, Answered
  <2> DEFINE a == ExploreGraph(g, root, d, m, "both")
             b == GraphSubtree(g, root, d, m)
  <2>2. ~a.truncated /\ ~b.truncated => a.nodes = b.nodes /\ a.edges = {e \in b.edges : e[1] # e[2]}
    <3>1. CASE root \in Symbols(g)
      <4>1. WellFormed(g)
        BY DEF SessionInv, IndexInv
      <4> QED
        BY <3>1, <4>1, ToolsAgree
    <3>2. CASE root = NoSymbol
      <4>1. a = NoWalk /\ b = NoWalk
        BY <3>2 DEF ExploreGraph, GraphSubtree
      <4> HIDE DEF a, b
      <4> QED
        BY <4>1 DEF NoWalk
    <3> QED
      BY <3>1, <3>2
  <2> QED
    BY <2>1, <2>2 DEF ExploreReplacesSubtree
<1> QED
  BY <1>1, <1>2, SubtreeStep, SessionHolds, PTL DEF Spec

----------------------------------------------------------------------------
(* get_context *)

(* Each source an edge names is a symbol, and so is its target *)
EndsExist(graph) ==
    \A e \in Rows(graph) : e.tgt \in Symbols(graph) /\ e.src \in Symbols(graph) \union {NoSource}

(* A symbol is never the one that stands for no symbol *)
IdsReal(graph) == NoSymbol \notin Symbols(graph)

(* The name at one end of a row of these kinds, seen from the other end *)
LEMMA IncomingMirrors ==
    ASSUME NEW graph, IdsReal(graph), EndsExist(graph), NEW s \in Symbols(graph), NEW kinds,
           NEW n \in GetIncomingEdges(graph, s, kinds)
    PROVE  \E t \in Symbols(graph) : NameAt(graph, t) = n /\ NameAt(graph, s) \in GetOutgoingEdges(graph, t, kinds)
<1>1. PICK e \in InRowsOf(graph, s, kinds) : e.src \in Symbols(graph) /\ n = NameAt(graph, e.src)
  BY DEF GetIncomingEdges, SourceNames
<1>2. e \in OutRowsOf(graph, e.src, kinds)
  BY <1>1 DEF InRowsOf, OutRowsOf
<1>3. NameAt(graph, s) \in GetOutgoingEdges(graph, e.src, kinds)
  BY <1>1, <1>2 DEF GetOutgoingEdges, TargetNames, InRowsOf
<1> QED
  BY <1>1, <1>3

LEMMA OutgoingMirrors ==
    ASSUME NEW graph, IdsReal(graph), EndsExist(graph), NEW s \in Symbols(graph), NEW kinds,
           NEW n \in GetOutgoingEdges(graph, s, kinds)
    PROVE  \E t \in Symbols(graph) : NameAt(graph, t) = n /\ NameAt(graph, s) \in GetIncomingEdges(graph, t, kinds)
<1>1. PICK e \in OutRowsOf(graph, s, kinds) : e.tgt \in Symbols(graph) /\ n = NameAt(graph, e.tgt)
  BY DEF GetOutgoingEdges, TargetNames
<1>2. e \in InRowsOf(graph, e.tgt, kinds)
  BY <1>1 DEF InRowsOf, OutRowsOf, IdsReal, NoSymbol, NoSource
<1>3. NameAt(graph, s) \in GetIncomingEdges(graph, e.tgt, kinds)
  BY <1>1, <1>2 DEF GetIncomingEdges, SourceNames, OutRowsOf
<1> QED
  BY <1>1, <1>3

(* The same of the rows that count by their confidence only *)
LEMMA SureIncomingMirrors ==
    ASSUME NEW graph, IdsReal(graph), EndsExist(graph), NEW s \in Symbols(graph), NEW kinds,
           NEW n \in GetIncomingEdgesMinConfidence(graph, s, kinds)
    PROVE  \E t \in Symbols(graph) :
             NameAt(graph, t) = n /\ NameAt(graph, s) \in GetOutgoingEdgesMinConfidence(graph, t, kinds)
<1>1. PICK e \in Sure(InRowsOf(graph, s, kinds)) : e.src \in Symbols(graph) /\ n = NameAt(graph, e.src)
  BY DEF GetIncomingEdgesMinConfidence, SourceNames
<1>2. e \in Sure(OutRowsOf(graph, e.src, kinds)) /\ e.tgt = s
  BY <1>1 DEF Sure, InRowsOf, OutRowsOf
<1>3. NameAt(graph, s) \in GetOutgoingEdgesMinConfidence(graph, e.src, kinds)
  BY <1>2 DEF GetOutgoingEdgesMinConfidence, TargetNames
<1> QED
  BY <1>1, <1>3

LEMMA SureOutgoingMirrors ==
    ASSUME NEW graph, IdsReal(graph), EndsExist(graph), NEW s \in Symbols(graph), NEW kinds,
           NEW n \in GetOutgoingEdgesMinConfidence(graph, s, kinds)
    PROVE  \E t \in Symbols(graph) :
             NameAt(graph, t) = n /\ NameAt(graph, s) \in GetIncomingEdgesMinConfidence(graph, t, kinds)
<1>1. PICK e \in Sure(OutRowsOf(graph, s, kinds)) : e.tgt \in Symbols(graph) /\ n = NameAt(graph, e.tgt)
  BY DEF GetOutgoingEdgesMinConfidence, TargetNames
<1>2. e \in Sure(InRowsOf(graph, e.tgt, kinds)) /\ e.src = s
  BY <1>1 DEF Sure, InRowsOf, OutRowsOf, IdsReal, NoSymbol, NoSource
<1>3. NameAt(graph, s) \in GetIncomingEdgesMinConfidence(graph, e.tgt, kinds)
  BY <1>2 DEF GetIncomingEdgesMinConfidence, SourceNames
<1> QED
  BY <1>1, <1>3

(* A symbol that the context of s lists as a caller, callee or dependency of  *)
(* either direction lists s in the opposite list, or another symbol of its    *)
(* name does: the four queries with their filters on kinds and confidence     *)
(* tell the same of both ends of an edge.                                     *)
THEOREM ContextsMirror ==
    ASSUME NEW graph, IdsReal(graph), EndsExist(graph), NEW s \in Symbols(graph)
    PROVE  LET c == ContextById(graph, s)
               Tells(n, list(_)) ==
                 \E t \in Symbols(graph) : NameAt(graph, t) = n /\ c.name \in list(ContextById(graph, t))
           IN  /\ \A n \in Callers(graph, c) : Tells(n, LAMBDA x : Callees(graph, x))
               /\ \A n \in Callees(graph, c) : Tells(n, LAMBDA x : Callers(graph, x))
               /\ \A n \in ReverseDependencies(graph, c) : Tells(n, LAMBDA x : ForwardDependencies(graph, x))
               /\ \A n \in ForwardDependencies(graph, c) : Tells(n, LAMBDA x : ReverseDependencies(graph, x))
<1> DEFINE c == ContextById(graph, s)
<1>1. /\ c.sym = s /\ c.name = NameAt(graph, s)
      /\ \A t \in Symbols(graph) : ContextById(graph, t).sym = t
  BY DEF ContextById
<1> HIDE DEF c
<1>2. ASSUME NEW n \in Callers(graph, c)
      PROVE  \E t \in Symbols(graph) : NameAt(graph, t) = n /\ c.name \in Callees(graph, ContextById(graph, t))
  BY <1>1, <1>2, IncomingMirrors, SureIncomingMirrors DEF Callers, Callees
<1>3. ASSUME NEW n \in Callees(graph, c)
      PROVE  \E t \in Symbols(graph) : NameAt(graph, t) = n /\ c.name \in Callers(graph, ContextById(graph, t))
  BY <1>1, <1>3, OutgoingMirrors, SureOutgoingMirrors DEF Callers, Callees
<1>4. ASSUME NEW n \in ReverseDependencies(graph, c)
      PROVE  \E t \in Symbols(graph) :
               NameAt(graph, t) = n /\ c.name \in ForwardDependencies(graph, ContextById(graph, t))
  BY <1>1, <1>4, IncomingMirrors, SureIncomingMirrors DEF ReverseDependencies, ForwardDependencies
<1>5. ASSUME NEW n \in ForwardDependencies(graph, c)
      PROVE  \E t \in Symbols(graph) :
               NameAt(graph, t) = n /\ c.name \in ReverseDependencies(graph, ContextById(graph, t))
  BY <1>1, <1>5, OutgoingMirrors, SureOutgoingMirrors DEF ReverseDependencies, ForwardDependencies
<1> QED
  BY <1>2, <1>3, <1>4, <1>5 DEF c

ListKeys == {"reverse_dependencies", "forward_dependencies", "callers", "callees", "same_file_callers",
             "external_imports", "siblings", "wrapped_by", "renders_components", "consumes_hooks"}

LEMMA FiveKeys ==
  ASSUME NEW a \in ListKeys, NEW b \in ListKeys, NEW c \in ListKeys, NEW d \in ListKeys, NEW e \in ListKeys
  PROVE  <<a, b, c, d, e>> \in Seq(ListKeys)
<1> DEFINE s == <<a, b, c, d, e>>
<1>1. s = [i \in 1..5 |-> s[i]] /\ \A i \in 1..5 : s[i] \in ListKeys
  <2>1. DOMAIN s = 1..5 /\ s = [i \in DOMAIN s |-> s[i]]
    OBVIOUS
  <2>2. s[1] = a /\ s[2] = b /\ s[3] = c /\ s[4] = d /\ s[5] = e
    OBVIOUS
  <2>3. \A i \in 1..5 : i = 1 \/ i = 2 \/ i = 3 \/ i = 4 \/ i = 5
    OBVIOUS
  <2> HIDE DEF s
  <2> QED
    BY <2>1, <2>2, <2>3
<1> HIDE DEF s
<1>2. s \in Seq(ListKeys)
  BY <1>1
<1> QED
  BY <1>2 DEF s

(* The lists of neighbours that a context may hold *)
NeighbourKeys == {"callers", "callees", "reverse_dependencies", "forward_dependencies"}

Backed(graph, c, l) == l.key \in NeighbourKeys => l.kept \subseteq ListOf(graph, c, l.key)

(* A response may be cut to its budget, but makes up no neighbour *)
Told(graph, c, response) == \A i \in DOMAIN response.lists : Backed(graph, c, response.lists[i])

Packed(graph, c, r) == \E X : r.lists \in Seq(X) /\ \A l \in X : Backed(graph, c, l)

LEMMA PackedTells == ASSUME NEW graph, NEW c, NEW r, Packed(graph, c, r) PROVE Told(graph, c, r)
<1>1. PICK X : r.lists \in Seq(X) /\ \A l \in X : Backed(graph, c, l)
  BY DEF Packed
<1>2. \A i \in DOMAIN r.lists : r.lists[i] \in X
  BY <1>1
<1> QED
  BY <1>1, <1>2 DEF Told

LEMMA PackedAppends ==
  ASSUME NEW graph, NEW c, NEW r, Packed(graph, c, r), NEW l, Backed(graph, c, l), NEW v,
         v.lists = Append(r.lists, l)
  PROVE  Packed(graph, c, v)
<1>1. PICK X : r.lists \in Seq(X) /\ \A k \in X : Backed(graph, c, k)
  BY DEF Packed
<1> DEFINE Y == X \cup {l}
<1>2. r.lists \in Seq(Y) /\ l \in Y
  <2>1. r.lists = [i \in 1..Len(r.lists) |-> r.lists[i]] /\ Len(r.lists) \in Nat
    BY <1>1
  <2>2. \A i \in 1..Len(r.lists) : r.lists[i] \in Y
    BY <1>1
  <2> QED
    BY <2>1, <2>2
<1>3. v.lists \in Seq(Y) /\ \A k \in Y : Backed(graph, c, k)
  <2>1. Append(r.lists, l) \in Seq(Y)
    <3> HIDE DEF Y
    <3> QED
      BY <1>2
  <2> QED
    BY <1>1, <2>1
<1> QED
  BY <1>3 DEF Packed

LEMMA InsertVecKeeps ==
  ASSUME NEW graph, NEW c, NEW max, NEW key, NEW r, Packed(graph, c, r)
  PROVE  Packed(graph, c, InsertVec(max, key, ListOf(graph, c, key), r))
<1> DEFINE items == ListOf(graph, c, key)
           kept == AtMost(Cardinality(items), max - r.used)
           l == [key |-> key, kept |-> Smallest(items, kept), more |-> Cardinality(items) - kept]
           v == InsertVec(max, key, items, r)
<1>1. Backed(graph, c, l)
  <2>1. Smallest(items, kept) \subseteq items
    BY DEF Smallest
  <2>2. l.key = key /\ l.kept = Smallest(items, kept)
    OBVIOUS
  <2> HIDE DEF l, kept
  <2> QED
    BY <2>1, <2>2 DEF Backed
<1>2. v = r \/ v.lists = Append(r.lists, l)
  BY DEF InsertVec
<1> HIDE DEF l, v
<1>3. Packed(graph, c, v)
  BY <1>1, <1>2, PackedAppends
<1> QED
  BY <1>3 DEF v

LEMMA InsertPropsKeeps ==
  ASSUME NEW graph, NEW c, NEW max, NEW pairs, NEW r, Packed(graph, c, r)
  PROVE  Packed(graph, c, InsertProps(max, pairs, r))
<1> DEFINE l == [key |-> "prop_interfaces", kept |-> pairs, more |-> 0]
           v == InsertProps(max, pairs, r)
<1>1. Backed(graph, c, l)
  BY DEF Backed, NeighbourKeys
<1>2. v = r \/ v.lists = Append(r.lists, l)
  BY DEF InsertProps
<1> HIDE DEF l, v
<1>3. Packed(graph, c, v)
  BY <1>1, <1>2, PackedAppends
<1> QED
  BY <1>3 DEF v

InsertOf(c, r, key) == InsertVec(c[3], key, ListOf(c[1], c[2], key), r)

PackFold == INSTANCE FoldTheorems WITH Step <- InsertOf, Greatest <- Max

Inserted(graph, c, max, keys) ==
    FoldLeft(LAMBDA r, k : InsertVec(max, k, ListOf(graph, c, k), r), EmptyResponse, keys)

LEMMA InsertedPacked ==
  ASSUME NEW graph, NEW ctx, NEW max, NEW keys \in Seq(ListKeys)
  PROVE  Packed(graph, ctx, Inserted(graph, ctx, max, keys))
<1> DEFINE n == Len(keys)
           c == <<graph, ctx, max>>
           end == Inserted(graph, ctx, max, keys)
           iter == CHOOSE iter : PackFold!Iterates(iter, c, EmptyResponse, keys, DOMAIN keys)
<1>1. n \in Nat /\ DOMAIN keys = 1..n
  OBVIOUS
<1>2. PackFold!GreatestUpTo(n)
  BY <1>1, MaxIsGreatest DEF PackFold!GreatestUpTo
<1>3. PackFold!Iterates(iter, c, EmptyResponse, keys, DOMAIN keys)
  <2>1. \E it : PackFold!Iterates(it, c, EmptyResponse, keys, 1..n)
    <3> HIDE DEF n, c
    <3> QED
      BY <1>1, <1>2, PackFold!IterationExists
  <2> HIDE DEF n, c
  <2> QED
    BY <1>1, <2>1
<1>4. end = iter[DOMAIN keys]
  BY DEF Inserted, FoldLeft, MapThenFoldSet, PackFold!Iterates, InsertOf
<1> HIDE DEF iter, end
<1>5. PICK f : PackFold!IsRun(f, c, EmptyResponse, keys, n) /\ end = f[n]
  <2> HIDE DEF n, c
  <2> QED
    BY <1>1, <1>2, <1>3, <1>4, PackFold!FoldRuns
<1> DEFINE S == {i \in 0..n : Packed(graph, ctx, f[i])}
<1>6. 0 \in S
  <2>1. f[0] = EmptyResponse
    BY <1>5 DEF PackFold!IsRun
  <2>2. EmptyResponse.lists \in Seq({})
    BY DEF EmptyResponse
  <2>3. Packed(graph, ctx, EmptyResponse)
    BY <2>2 DEF Packed
  <2> QED
    BY <1>1, <2>1, <2>3
<1>7. ASSUME NEW i \in 1..n, i - 1 \in S PROVE i \in S
  <2>1. f[i] = InsertVec(max, keys[i], ListOf(graph, ctx, keys[i]), f[i - 1])
    BY <1>5 DEF PackFold!IsRun, InsertOf
  <2>2. Packed(graph, ctx, f[i - 1])
    BY <1>7
  <2>3. Packed(graph, ctx, f[i])
    BY <2>1, <2>2, InsertVecKeeps
  <2> QED
    BY <1>1, <2>3
<1>8. 0..n \subseteq S
  <2> HIDE DEF S, n
  <2> QED
    BY <1>1, <1>6, <1>7, PackFold!InductionUpTo
<1>9. Packed(graph, ctx, f[n])
  BY <1>1, <1>8
<1> QED
  BY <1>5, <1>9 DEF end

LEMMA PackTells ==
  ASSUME NEW graph, NEW c, NEW profile \in DOMAIN MaxItems, NEW standard \in Seq(ListKeys), NEW verbose \in Seq(ListKeys)
  PROVE  Told(graph, c, Pack(graph, c, profile, standard, verbose))
<1> DEFINE keys == CASE profile = "compact"  -> <<>>
                     [] profile = "standard" -> standard
                     [] profile = "verbose"  -> standard \o verbose
           full == Inserted(graph, c, MaxItems[profile], keys)
           pack == Pack(graph, c, profile, standard, verbose)
<1>1. keys \in Seq(ListKeys)
  <2>1. profile = "compact" \/ profile = "standard" \/ profile = "verbose"
    BY BudgetAssumption
  <2>2. <<>> \in Seq(ListKeys) /\ standard \o verbose \in Seq(ListKeys)
    OBVIOUS
  <2>3. CASE profile = "compact"
    BY <2>2, <2>3
  <2>4. CASE profile = "standard"
    BY <2>4
  <2>5. CASE profile = "verbose"
    BY <2>2, <2>5
  <2> QED
    BY <2>1, <2>3, <2>4, <2>5
<1> HIDE DEF keys
<1>2. Packed(graph, c, full)
  BY <1>1, InsertedPacked
<1>3. pack = IF profile = "verbose" THEN InsertProps(MaxItems[profile], PropInterfaces(graph, c), full) ELSE full
  BY DEF Pack, Inserted, keys
<1> HIDE DEF full, pack
<1>4. Packed(graph, c, pack)
  BY <1>2, <1>3, InsertPropsKeeps
<1> QED
  BY <1>4, PackedTells DEF pack

LEMMA BuildsTell ==
  ASSUME NEW graph, NEW c, NEW profile \in DOMAIN MaxItems
  PROVE  Told(graph, c, BuildJson(graph, c, profile)) /\ Told(graph, c, BuildMarkdown(graph, c, profile))
<1> DEFINE standard == <<"reverse_dependencies", "forward_dependencies", "callers", "callees", "same_file_callers">>
           verbose == <<"external_imports", "siblings", "wrapped_by", "renders_components", "consumes_hooks">>
           full == Pack(graph, c, profile, standard, verbose)
<1>0. /\ "reverse_dependencies" \in ListKeys /\ "forward_dependencies" \in ListKeys /\ "callers" \in ListKeys
      /\ "callees" \in ListKeys /\ "same_file_callers" \in ListKeys /\ "external_imports" \in ListKeys
      /\ "siblings" \in ListKeys /\ "wrapped_by" \in ListKeys /\ "renders_components" \in ListKeys
      /\ "consumes_hooks" \in ListKeys
  BY DEF ListKeys
<1>1. standard \in Seq(ListKeys) /\ verbose \in Seq(ListKeys)
  <2>1. standard \in Seq(ListKeys)
    BY <1>0, FiveKeys, Zenon
  <2>2. verbose \in Seq(ListKeys)
    BY <1>0, FiveKeys, Zenon
  <2> QED
    BY <2>1, <2>2
<1>2. Told(graph, c, full)
  <2> HIDE DEF standard, verbose
  <2> QED
    BY <1>1, PackTells
<1>3. BuildJson(graph, c, profile)
        = [full EXCEPT !.lists = [i \in DOMAIN @ |-> [key |-> @[i].key, kept |-> @[i].kept]]]
  BY DEF BuildJson
<1> HIDE DEF full
<1>4. Told(graph, c, BuildJson(graph, c, profile))
  BY <1>2, <1>3 DEF Told, Backed
<1>5. Told(graph, c, BuildMarkdown(graph, c, profile))
  <2> DEFINE first == <<"callers", "callees", "same_file_callers", "reverse_dependencies", "forward_dependencies">>
             rest == <<"wrapped_by", "renders_components", "consumes_hooks", "external_imports", "siblings">>
  <2>1. first \in Seq(ListKeys)
    BY <1>0, FiveKeys, Zenon
  <2>0. rest \in Seq(ListKeys)
    BY <1>0, FiveKeys, Zenon
  <2>2. BuildMarkdown(graph, c, profile) = Pack(graph, c, profile, first, rest)
    BY DEF BuildMarkdown
  <2> HIDE DEF first, rest
  <2> QED
    BY <2>0, <2>1, <2>2, PackTells
<1> QED
  BY <1>4, <1>5

(* What a name in such a list is one step away from *)
Nearby(graph, s) == {NameAt(graph, t) : t \in Within(Steps(Sourced(graph), TRUE, TRUE), {s}, 1) \ {s}}

LEMMA OneStepNear ==
  ASSUME NEW graph, NEW s, NEW t, t # s, NEW e \in Sourced(graph),
         (e.src = s /\ e.tgt = t) \/ (e.tgt = s /\ e.src = t)
  PROVE  NameAt(graph, t) \in Nearby(graph, s)
<1> DEFINE pairs == Steps(Sourced(graph), TRUE, TRUE)
<1>1. <<s, t>> \in pairs
  BY DEF Steps
<1> HIDE DEF pairs
<1>2. s \in Within(pairs, {s}, 0)
  BY WithinZero
<1>3. <<s, t>>[1] = s /\ <<s, t>>[2] = t /\ 0 \in Nat /\ 0 + 1 = 1
  OBVIOUS
<1>4. t \in Within(pairs, {s}, 0 + 1)
  BY <1>1, <1>2, <1>3, WithinNext
<1> QED
  BY <1>3, <1>4 DEF Nearby, pairs

LEMMA NeighboursNear ==
  ASSUME NEW graph, NEW s \in Symbols(graph), NoSymbol \notin Symbols(graph), NEW c, c.sym = s,
         NEW key \in NeighbourKeys
  PROVE  ListOf(graph, c, key) \subseteq Nearby(graph, s)
<1>1. ASSUME NEW kinds, NEW e \in InRowsOf(graph, s, kinds), e.src \in Symbols(graph)
      PROVE  NameAt(graph, e.src) \in Nearby(graph, s)
  BY <1>1, OneStepNear DEF InRowsOf, Sourced
<1>2. ASSUME NEW kinds, NEW e \in OutRowsOf(graph, s, kinds), e.tgt \in Symbols(graph)
      PROVE  NameAt(graph, e.tgt) \in Nearby(graph, s)
  BY <1>2, OneStepNear DEF OutRowsOf, Sourced, NoSymbol, NoSource
<1>3. \A kinds : GetIncomingEdges(graph, s, kinds) \subseteq Nearby(graph, s)
                 /\ GetIncomingEdgesMinConfidence(graph, s, kinds) \subseteq Nearby(graph, s)
  BY <1>1 DEF GetIncomingEdges, GetIncomingEdgesMinConfidence, SourceNames, Sure
<1>4. \A kinds : GetOutgoingEdges(graph, s, kinds) \subseteq Nearby(graph, s)
                 /\ GetOutgoingEdgesMinConfidence(graph, s, kinds) \subseteq Nearby(graph, s)
  BY <1>2 DEF GetOutgoingEdges, GetOutgoingEdgesMinConfidence, TargetNames, Sure
<1>5. /\ Callers(graph, c) \subseteq Nearby(graph, s) /\ Callees(graph, c) \subseteq Nearby(graph, s)
      /\ ReverseDependencies(graph, c) \subseteq Nearby(graph, s)
      /\ ForwardDependencies(graph, c) \subseteq Nearby(graph, s)
  BY <1>3, <1>4 DEF Callers, Callees, ReverseDependencies, ForwardDependencies
<1>6. /\ ListOf(graph, c, "callers") = Callers(graph, c) /\ ListOf(graph, c, "callees") = Callees(graph, c)
      /\ ListOf(graph, c, "reverse_dependencies") = ReverseDependencies(graph, c)
      /\ ListOf(graph, c, "forward_dependencies") = ForwardDependencies(graph, c)
  BY DEF ListOf
<1> QED
  BY <1>5, <1>6 DEF NeighbourKeys

ContextInv ==
    answer.tool = "get_context" =>
        /\ Told(g, answer.request, answer.response)
        /\ LET s == answer.request.sym IN s # NoSymbol => s \in Symbols(g) /\ answer.request = ContextById(g, s)

LEMMA ContextStep == SessionInv /\ ContextInv /\ [Next]_vars => ContextInv'
<1> SUFFICES ASSUME SessionInv, ContextInv, [Next]_vars, answer'.tool = "get_context" PROVE ContextInv'
  BY DEF ContextInv
<1>1. ASSUME NEW s \in Targets, NEW p \in DOMAIN MaxItems, NEW markdown \in BOOLEAN, GetContext(s, p, markdown)
      PROVE  ContextInv'
  <2> DEFINE c == ContextById(g, s)
  <2>1. s \in Symbols(g)
    BY DEF Targets
  <2>2. c.sym = s
    BY <2>1 DEF ContextById
  <2>3. /\ g' = g /\ answer'.request = c
        /\ answer'.response = IF markdown THEN BuildMarkdown(g, c, p) ELSE BuildJson(g, c, p)
    BY <1>1, RespondAnswers DEF GetContext, Answers
  <2>4. Told(g, c, BuildMarkdown(g, c, p)) /\ Told(g, c, BuildJson(g, c, p))
    BY BuildsTell
  <2>5. answer'.request = ContextById(g, s)
    BY <2>3
  <2> HIDE DEF c
  <2> QED
    BY <2>1, <2>2, <2>3, <2>4, <2>5 DEF ContextInv
<1>2. ASSUME NEW t \in Texts, NEW h \in Hints, GetContextByName(t, h) PROVE ContextInv'
  <2> DEFINE named == {f \in g.files : FileName[g.path[f]] = t}
             c == ContextByName(g, t, h, named)
             rows == {x \in Symbols(g) : NameAt(g, x) = t /\ FileAt(g, x) \in h}
  <2>1. /\ g' = g /\ answer'.request = c
        /\ answer'.response = IF c = NoContext THEN EmptyResponse ELSE BuildJson(g, c, "verbose")
    BY <1>2, RespondAnswers DEF GetContextByName, Answers
  <2>2. Told(g, c, answer'.response)
    <3>1. "verbose" \in DOMAIN MaxItems
      BY BudgetAssumption
    <3>2. Told(g, c, BuildJson(g, c, "verbose"))
      BY <3>1, BuildsTell
    <3>3. Told(g, c, EmptyResponse)
      BY DEF Told, EmptyResponse
    <3> HIDE DEF c
    <3> QED
      BY <2>1, <3>2, <3>3
  <2>3. c.sym # NoSymbol => c.sym \in Symbols(g) /\ c = ContextById(g, c.sym)
    <3>1. CASE rows # {}
      <4>1. rows \subseteq Nat
        BY DEF SessionInv, IndexInv, WellFormed
      <4>2. c = ContextById(g, Min(rows))
        BY <3>1 DEF ContextByName
      <4>3. Min(rows) \in Symbols(g)
        <5>1. Min(rows) \in rows
          <6> HIDE DEF rows
          <6> QED
            BY <3>1, <4>1, MinIsMember
        <5> QED
          BY <5>1
      <4>4. c.sym = Min(rows)
        BY <4>2, <4>3 DEF ContextById
      <4> HIDE DEF c, rows
      <4> QED
        BY <4>2, <4>3, <4>4
    <3>2. CASE rows = {}
      <4>1. c = [sym |-> NoSymbol, file |-> Min(named), name |-> t] \/ c = NoContext
        BY <3>2 DEF ContextByName
      <4> HIDE DEF c
      <4> QED
        BY <4>1 DEF NoContext
    <3> QED
      BY <3>1, <3>2
  <2> HIDE DEF c
  <2> QED
    BY <2>1, <2>2, <2>3 DEF ContextInv
<1>3. ASSUME NEW s \in Targets, NEW p \in DOMAIN MaxItems, GetContextWithSource(s, p) PROVE ContextInv'
  <2> DEFINE c == ContextById(g, s)
             packed == BuildJson(g, c, p)
             response == [source |-> ReadSymbolSourceScoped(g, Live, c.name, {c.file}),
                          used |-> packed.used, lists |-> packed.lists]
  <2>1. s \in Symbols(g)
    BY DEF Targets
  <2>2. c.sym = s
    BY <2>1 DEF ContextById
  <2>3. g' = g /\ answer'.request = c /\ answer'.response = response
    BY <1>3, RespondAnswers DEF GetContextWithSource, Answers
  <2>4. Told(g, c, packed)
    BY BuildsTell
  <2>5. answer'.request = ContextById(g, s)
    BY <2>3
  <2>6. Told(g, c, response)
    <3>1. response.lists = packed.lists
      OBVIOUS
    <3> HIDE DEF response, packed, c
    <3> QED
      BY <2>4, <3>1 DEF Told
  <2> HIDE DEF c, packed, response
  <2> QED
    BY <2>1, <2>2, <2>3, <2>5, <2>6 DEF ContextInv
<1>4. CASE AskGraph
  BY <1>1, <1>4, GraphAsks
<1>5. CASE AskLookup
  BY <1>2, <1>3, <1>5, LookupAsks
<1>6. CASE ~AskGraph /\ ~AskLookup
  BY <1>6, OtherSteps DEF ContextInv
<1> QED
  BY <1>4, <1>5, <1>6

(* Whoever the context of a symbol lists as a caller, a callee or a        *)
(* dependency of either direction lists that symbol in the opposite list,  *)
(* and is one step away in the graph that explore_graph walks.             *)
THEOREM ContextsAgree == Spec => []NeighboursAgree
<1>1. Init => ContextInv
  BY DEF Init, NoAnswer, ContextInv
<1>2. SessionInv /\ ContextInv => NeighboursAgree
  <2> SUFFICES ASSUME SessionInv, ContextInv, Answered("get_context"), answer.request.sym # NoSymbol
               PROVE  NeighboursAgree
    BY DEF NeighboursAgree
  <2> DEFINE c == answer.request
             s == answer.request.sym
             named(n) == {ContextById(g, t) : t \in {x \in Symbols(g) : NameAt(g, x) = n}}
             lists == {l \in ToSet(answer.response.lists) : l.key \in NeighbourKeys}
  <2>1. s \in Symbols(g) /\ c = ContextById(g, s) /\ Told(g, c, answer.response)
    BY DEF ContextInv, Answered
  <2>2. IdsReal(g) /\ EndsExist(g)
    BY DEF SessionInv, IndexInv, WellFormed, IdsReal, EndsExist
  <2>3. /\ \A n \in Callers(g, c) : \E t \in Symbols(g) : NameAt(g, t) = n /\ c.name \in Callees(g, ContextById(g, t))
        /\ \A n \in Callees(g, c) : \E t \in Symbols(g) : NameAt(g, t) = n /\ c.name \in Callers(g, ContextById(g, t))
        /\ \A n \in ReverseDependencies(g, c) :
              \E t \in Symbols(g) : NameAt(g, t) = n /\ c.name \in ForwardDependencies(g, ContextById(g, t))
        /\ \A n \in ForwardDependencies(g, c) :
              \E t \in Symbols(g) : NameAt(g, t) = n /\ c.name \in ReverseDependencies(g, ContextById(g, t))
    BY <2>1, <2>2, ContextsMirror
  <2>4. /\ \A n \in Callers(g, c) : \E d \in named(n) : c.name \in Callees(g, d)
        /\ \A n \in Callees(g, c) : \E d \in named(n) : c.name \in Callers(g, d)
        /\ \A n \in ReverseDependencies(g, c) : \E d \in named(n) : c.name \in ForwardDependencies(g, d)
        /\ \A n \in ForwardDependencies(g, c) : \E d \in named(n) : c.name \in ReverseDependencies(g, d)
    <3> HIDE DEF c
    <3> QED
      BY <2>3
  <2>5. ASSUME NEW l \in lists PROVE l.kept \subseteq Nearby(g, s)
    <3>1. PICK i \in DOMAIN answer.response.lists : l = answer.response.lists[i]
      BY DEF ToSet
    <3>2. l.kept \subseteq ListOf(g, c, l.key)
      BY <2>1, <3>1 DEF Told, Backed
    <3>3. ListOf(g, c, l.key) \subseteq Nearby(g, s)
      BY <2>1, <2>2, NeighboursNear DEF IdsReal
    <3> QED
      BY <3>2, <3>3
  <2> QED
    BY <2>4, <2>5 DEF NeighboursAgree, Nearby, NeighbourKeys
<1> QED
  BY <1>1, <1>2, ContextStep, SessionHolds, PTL DEF Spec

----------------------------------------------------------------------------
(* resolve_symbol *)

(* One of finitely many rows that start at a line starts last *)
LEMMA LastStarts ==
  ASSUME NEW graph, NEW rows, rows # {}, IsFiniteSet(rows), \A r \in rows : graph.sym[r].line \in Nat
  PROVE  \E r \in rows : \A s \in rows : graph.sym[s].line <= graph.sym[r].line
<1> DEFINE Tops(T) == {r \in T : \A s \in T : graph.sym[s].line <= graph.sym[r].line}
           N == {n \in Nat : \A T \in SUBSET rows : Cardinality(T) = n /\ T # {} => Tops(T) # {}}
<1>1. 0 \in N
  BY FS_Subset, FS_EmptySet
<1>2. ASSUME NEW n \in Nat, n \in N PROVE n + 1 \in N
  <2> SUFFICES ASSUME NEW T \in SUBSET rows, Cardinality(T) = n + 1, T # {} PROVE Tops(T) # {}
    OBVIOUS
  <2>1. PICK t \in T : TRUE
    OBVIOUS
  <2> DEFINE R == T \ {t}
  <2>2. Cardinality(R) = n
    <3>1. IsFiniteSet(T)
      BY FS_Subset
    <3>2. Cardinality(R) = (n + 1) - 1
      BY <2>1, <3>1, FS_RemoveElement
    <3> QED
      BY <3>2
  <2>3. CASE R = {}
    <3>1. t \in Tops(T)
      BY <2>1, <2>3
    <3> QED
      BY <3>1
  <2>4. CASE R # {}
    <3>1. Tops(R) # {}
      BY <1>2, <2>2, <2>4
    <3>2. PICK r \in R : \A y \in R : graph.sym[y].line <= graph.sym[r].line
      BY <3>1
    <3>3. r \in Tops(T) \/ t \in Tops(T)
      BY <2>1, <3>2
    <3> QED
      BY <3>3
  <2> QED
    BY <2>3, <2>4
<1>3. Nat \subseteq N
  <2> HIDE DEF N
  <2> QED
    BY <1>1, <1>2, WithinFold!Induction
<1>4. Cardinality(rows) \in Nat
  BY FS_CardinalityType
<1>5. Tops(rows) # {}
  <2> HIDE DEF Tops
  <2> QED
    BY <1>3, <1>4
<1> QED
  BY <1>5

LEMMA PrecedingPicks ==
  ASSUME NEW graph, NEW rows, rows \subseteq Symbols(graph), WellFormed(graph), NEW line
  PROVE  Preceding(graph, rows, line).candidates \subseteq rows
<1> DEFINE before == {r \in rows : graph.sym[r].line <= line}
           last == {r \in before : \A s \in before : graph.sym[s].line <= graph.sym[r].line}
           p == Preceding(graph, rows, line)
<1>1. p = IF before = {} THEN Ambiguous({}) ELSE SymbolEntity(Min(last))
  BY DEF Preceding
<1>2. CASE before = {}
  BY <1>1, <1>2 DEF Ambiguous
<1>3. CASE before # {}
  <2>1. /\ IsFiniteSet(before) /\ before \subseteq rows /\ before \subseteq Nat
        /\ \A r \in before : graph.sym[r].line \in Nat
    BY FS_Subset DEF WellFormed
  <2>2. last # {} /\ last \subseteq Nat /\ last \subseteq rows
    <3> HIDE DEF before
    <3> QED
      BY <1>3, <2>1, LastStarts
  <2> HIDE DEF last
  <2>3. Min(last) \in rows
    BY <2>2, MinIsMember
  <2> QED
    BY <1>1, <1>3, <2>3 DEF SymbolEntity
<1> QED
  BY <1>2, <1>3

(* What a stage says of the rows it is given *)
StageSays(graph, rows, hint, line, r) ==
    /\ r.candidates \subseteq rows
    /\ r.kind = "not_found" <=> rows = {}
    /\ r.kind = "not_found" => r = NotFound
    /\ r.kind = "symbol" => r.candidates # {}
    /\ r.kind = "symbol" =>
          \A s \in r.candidates :
              /\ FileAt(graph, s) \in hint
              /\ line = NoLine => \A t \in rows : FileAt(graph, t) \in hint =>
                     /\ FileAt(graph, t) = FileAt(graph, s)
                     /\ graph.sym[t].line = graph.sym[s].line /\ graph.sym[t].end = graph.sym[s].end

LEMMA StageAnswers ==
  ASSUME NEW graph, WellFormed(graph), NEW rows \in SUBSET Symbols(graph), NEW hint, NEW line
  PROVE  StageSays(graph, rows, hint, line, StageSymbol(graph, rows, hint, line))
<1> DEFINE hinted == {r \in rows : FileAt(graph, r) \in hint}
           r == StageSymbol(graph, rows, hint, line)
           Says == StageSays(graph, rows, hint, line, r)
<1>1. ASSUME rows = {} PROVE Says
  <2>1. r = NotFound
    BY <1>1 DEF StageSymbol
  <2> HIDE DEF r
  <2> QED
    BY <1>1, <2>1 DEF StageSays, NotFound
<1>2. ASSUME rows # {}, hinted = {} PROVE Says
  <2>1. r = Ambiguous(rows)
    BY <1>2 DEF StageSymbol
  <2> HIDE DEF r
  <2> QED
    BY <1>2, <2>1 DEF StageSays, NotFound, Ambiguous
<1>3. ASSUME hinted # {} PROVE Says
  <2>1. r = RowsToEntity(graph, hinted, line) /\ rows # {}
    BY <1>3 DEF StageSymbol
  <2>2. hinted \subseteq Nat /\ hinted \subseteq Symbols(graph) /\ hinted \subseteq rows
    BY DEF WellFormed
  <2>3. Min(hinted) \in hinted
    <3> HIDE DEF hinted
    <3> QED
      BY <1>3, <2>2, MinIsMember
  <2>4. Preceding(graph, hinted, line).candidates \subseteq hinted
    <3> HIDE DEF hinted
    <3> QED
      BY <2>2, PrecedingPicks
  <2> HIDE DEF r
  <2>5. CASE SameRange(graph, hinted)
    <3>1. r = SymbolEntity(Min(hinted))
      <4> HIDE DEF hinted
      <4> QED
        BY <2>1, <2>5 DEF RowsToEntity
    <3> QED
      <4>1. r.kind = "symbol" /\ r.candidates = {Min(hinted)}
        BY <3>1 DEF SymbolEntity
      <4>2. \A t \in rows : FileAt(graph, t) \in hint =>
                     /\ FileAt(graph, t) = FileAt(graph, Min(hinted))
                     /\ graph.sym[t].line = graph.sym[Min(hinted)].line
                     /\ graph.sym[t].end = graph.sym[Min(hinted)].end
        BY <2>3, <2>5 DEF SameRange
      <4>3. Min(hinted) \in rows /\ FileAt(graph, Min(hinted)) \in hint
        BY <2>3
      <4> HIDE DEF hinted
      <4> QED
        BY <2>1, <4>1, <4>2, <4>3 DEF StageSays
  <2>6. CASE ~SameRange(graph, hinted) /\ line # NoLine
    <3>1. /\ r = Preceding(graph, hinted, line) /\ r.kind # "not_found"
          /\ r.kind = "symbol" => r.candidates # {}
      <4>1. r = Preceding(graph, hinted, line)
        <5> HIDE DEF hinted
        <5> QED
          BY <2>1, <2>6 DEF RowsToEntity
      <4>2. /\ Preceding(graph, hinted, line).kind \in {"symbol", "ambiguous"}
            /\ Preceding(graph, hinted, line).kind = "symbol" => Preceding(graph, hinted, line).candidates # {}
        BY DEF Preceding, SymbolEntity, Ambiguous
      <4> QED
        BY <4>1, <4>2
    <3> QED
      BY <2>1, <2>2, <2>4, <2>6, <3>1 DEF StageSays, NotFound
  <2>7. CASE ~SameRange(graph, hinted) /\ line = NoLine
    <3>1. r = Ambiguous(hinted)
      <4> HIDE DEF hinted
      <4> QED
        BY <2>1, <2>7 DEF RowsToEntity
    <3> QED
      BY <2>1, <2>2, <3>1 DEF Ambiguous, StageSays, NotFound
  <2> QED
    BY <2>5, <2>6, <2>7
<1> QED
  BY <1>1, <1>2, <1>3

(* The rows a text may stand for *)
RowsNamed(graph, t) == IF ExactRows(graph, t) # {} THEN ExactRows(graph, t) ELSE CanonicalRows(graph, t)

LEMMA ResolverSays ==
  ASSUME NEW graph, WellFormed(graph), NEW t, NEW hint, NEW line
  PROVE  StageSays(graph, RowsNamed(graph, t), hint, line, ResolveSymbol(graph, t, hint, line))
<1> DEFINE exact == ExactRows(graph, t)
           lower == CanonicalRows(graph, t)
           r == ResolveSymbol(graph, t, hint, line)
<1>1. r = IF StageSymbol(graph, exact, hint, line) # NotFound THEN StageSymbol(graph, exact, hint, line)
          ELSE StageSymbol(graph, lower, hint, line)
  BY DEF ResolveSymbol
<1>2. exact \in SUBSET Symbols(graph) /\ lower \in SUBSET Symbols(graph)
  BY DEF ExactRows, CanonicalRows
<1> HIDE DEF exact, lower, r
<1>3. /\ StageSays(graph, exact, hint, line, StageSymbol(graph, exact, hint, line))
      /\ StageSays(graph, lower, hint, line, StageSymbol(graph, lower, hint, line))
  BY <1>2, StageAnswers
<1>4. StageSymbol(graph, exact, hint, line) # NotFound <=> exact # {}
  BY <1>3 DEF StageSays, NotFound
<1>5. StageSays(graph, IF exact # {} THEN exact ELSE lower, hint, line, r)
  BY <1>1, <1>3, <1>4
<1> QED
  BY <1>5 DEF RowsNamed, exact, lower, r

ResolveInv ==
    answer.tool = "resolve_symbol" =>
        LET q == answer.request
        IN  answer.response = ResolveSymbol(g, q.text, q.hint, q.line)

LEMMA ResolveStep == SessionInv /\ ResolveInv /\ [Next]_vars => ResolveInv'
<1> SUFFICES ASSUME SessionInv, ResolveInv, [Next]_vars, answer'.tool = "resolve_symbol" PROVE ResolveInv'
  BY DEF ResolveInv
<1>1. ASSUME NEW t, NEW h, NEW l, ResolveForTool(t, h, l) PROVE ResolveInv'
  <2>1. /\ g' = g /\ answer'.request = [text |-> t, hint |-> h, line |-> l]
        /\ answer'.response = ResolveSymbol(g, t, h, l)
    BY <1>1, RespondAnswers DEF ResolveForTool, Answers
  <2> QED
    BY <2>1 DEF ResolveInv
<1>2. CASE AskGraph
  BY <1>2, GraphAsks
<1>3. CASE AskLookup
  BY <1>1, <1>3, LookupAsks
<1>4. CASE ~AskGraph /\ ~AskLookup
  BY <1>4, OtherSteps DEF ResolveInv
<1> QED
  BY <1>2, <1>3, <1>4

(* resolve_symbol settles on a symbol of the hinted files with the name    *)
(* asked for, and only if no other candidate there differs in range or a   *)
(* line was given; it finds nothing only where there is nothing.           *)
THEOREM ResolverNeverGuesses == Spec => []ResolveNeverGuesses
<1>1. Init => ResolveInv
  BY DEF Init, NoAnswer, ResolveInv
<1>2. SessionInv /\ ResolveInv => ResolveNeverGuesses
  <2> SUFFICES ASSUME SessionInv, ResolveInv, Answered("resolve_symbol") PROVE ResolveNeverGuesses
    BY DEF ResolveNeverGuesses
  <2> DEFINE q == answer.request
             r == answer.response
             exact == {s \in Symbols(g) : NameAt(g, s) = q.text}
             rows == IF exact # {} THEN exact ELSE {s \in Symbols(g) : Lower[NameAt(g, s)] = Lower[q.text]}
  <2>1. WellFormed(g)
    BY DEF SessionInv, IndexInv
  <2>2. r = ResolveSymbol(g, q.text, q.hint, q.line)
    BY DEF ResolveInv, Answered
  <2>3. rows = RowsNamed(g, q.text)
    BY DEF RowsNamed, ExactRows, CanonicalRows
  <2> HIDE DEF exact, rows, q, r
  <2>4. StageSays(g, rows, q.hint, q.line, r)
    BY <2>1, <2>2, <2>3, ResolverSays
  <2>5. /\ r.candidates \subseteq rows
        /\ r = NotFound <=> rows = {}
        /\ r.kind = "symbol" =>
              \A s \in r.candidates :
                  /\ FileAt(g, s) \in q.hint
                  /\ q.line = NoLine => \A t \in rows : FileAt(g, t) \in q.hint =>
                        <<FileAt(g, t), g.sym[t].line, g.sym[t].end>> = <<FileAt(g, s), g.sym[s].line, g.sym[s].end>>
    BY <2>4 DEF StageSays, NotFound
  <2> QED
    BY <2>5 DEF ResolveNeverGuesses, rows, exact, q, r
<1> QED
  BY <1>1, <1>2, ResolveStep, SessionHolds, PTL DEF Spec

----------------------------------------------------------------------------
(* shortest_path *)

PathInv ==
    answer.tool = "shortest_path" =>
        LET q == answer.request
        IN  answer.response = ShortestPath(g, Slices(g), RootById(g, q.from), RootById(g, q.to))

LEMMA PathStep == SessionInv /\ PathInv /\ [Next]_vars => PathInv'
<1> SUFFICES ASSUME SessionInv, PathInv, [Next]_vars, answer'.tool = "shortest_path" PROVE PathInv'
  BY DEF PathInv
<1>1. ASSUME NEW s, NEW t, FindPath(s, t) PROVE PathInv'
  <2>1. /\ g' = g /\ answer'.request = [from |-> s, to |-> t]
        /\ answer'.response = ShortestPath(g, Slices(g), RootById(g, s), RootById(g, t))
    BY <1>1, RespondAnswers DEF FindPath, Answers
  <2> QED
    BY <2>1 DEF PathInv
<1>2. CASE AskGraph
  BY <1>1, <1>2, GraphAsks
<1>3. CASE AskLookup
  BY <1>3, LookupAsks
<1>4. CASE ~AskGraph /\ ~AskLookup
  BY <1>4, OtherSteps DEF PathInv
<1> QED
  BY <1>2, <1>3, <1>4

(* shortest_path finds a path exactly when there is one. The path is a     *)
(* chain of rows of the index from one end to the other, and none is       *)
(* shorter.                                                                *)
THEOREM PathsAreShortest == Spec => []PathShortest
<1>1. Init => PathInv
  BY DEF Init, NoAnswer, PathInv
<1>2. SessionInv /\ PathInv => PathShortest
  <2> SUFFICES ASSUME SessionInv, PathInv, Answered("shortest_path"), ~answer.response.missing PROVE PathShortest
    BY DEF PathShortest
  <2> DEFINE r == answer.response
             from == answer.request.from
             to == answer.request.to
  <2>1. WellFormed(g)
    BY DEF SessionInv, IndexInv
  <2>2. r = ShortestPath(g, Slices(g), RootById(g, from), RootById(g, to)) /\ ~r.missing
    BY DEF PathInv, Answered
  <2> HIDE DEF r, from, to
  <2>3. {RootById(g, from), RootById(g, to)} \subseteq Symbols(g) \cup {NoSymbol}
    BY DEF RootById
  <2>4. Shortest(g, RootById(g, from), RootById(g, to), r) /\ NoSymbol \notin {RootById(g, from), RootById(g, to)}
    BY <2>1, <2>2, <2>3, PathIs
  <2>5. RootById(g, from) = from /\ RootById(g, to) = to
    BY <2>4 DEF RootById
  <2>6. Shortest(g, from, to, r)
    BY <2>4, <2>5
  <2> DEFINE far(n) == Within(Steps(Sourced(g), TRUE, FALSE), {from}, n)
             tail(i) == IF i = 0 THEN from ELSE r.edges[i][2]
  <2>7. /\ r.found <=> to \in far(Cardinality(Symbols(g)))
        /\ r.found => /\ r.distance = Len(r.edges) /\ r.edges \in Seq(Triples(Sourced(g)))
                      /\ to \in far(r.distance) /\ (r.distance > 0 => to \notin far(r.distance - 1))
    BY <2>6 DEF Shortest, Far, Onward
  <2>8. ASSUME r.found
        PROVE  /\ ToSet(r.edges) \subseteq Triples(Sourced(g))
               /\ \A i \in 1..Len(r.edges) : r.edges[i][1] = tail(i - 1)
               /\ tail(Len(r.edges)) = to
    <3>1. r.edges \in Seq(Triples(Sourced(g)))
      BY <2>7, <2>8
    <3>2. ToSet(r.edges) \subseteq Triples(Sourced(g))
      BY <3>1 DEF ToSet
    <3>3. \A i \in 1..Len(r.edges) : r.edges[i][1] = tail(i - 1)
      BY <2>6, <2>8 DEF Shortest
    <3>4. tail(Len(r.edges)) = to
      BY <2>6, <2>8, <3>1 DEF Shortest
    <3> QED
      BY <3>2, <3>3, <3>4
  <2> HIDE DEF far, tail
  <2>9. /\ r.found <=> to \in far(Cardinality(Symbols(g)))
        /\ r.found => /\ r.distance = Len(r.edges)
                      /\ to \in far(r.distance)
                      /\ r.distance > 0 => to \notin far(r.distance - 1)
                      /\ ToSet(r.edges) \subseteq Triples(Sourced(g))
                      /\ \A i \in 1..Len(r.edges) : r.edges[i][1] = tail(i - 1)
                      /\ tail(Len(r.edges)) = to
    BY <2>7, <2>8
  <2> QED
    BY <2>9 DEF PathShortest, r, from, to, far, tail
<1> QED
  BY <1>1, <1>2, PathStep, SessionHolds, PTL DEF Spec

----------------------------------------------------------------------------
(* discover_subsystem *)

SubsystemInv ==
    answer.tool = "subsystem_stats" =>
        LET q == answer.request
        IN  q.scope \in DOMAIN MaxHops /\ answer.response = DiscoverSubsystem(g, q.hits, q.scope)

LEMMA SubsystemStep == SessionInv /\ SubsystemInv /\ [Next]_vars => SubsystemInv'
<1> SUFFICES ASSUME SessionInv, SubsystemInv, [Next]_vars, answer'.tool = "subsystem_stats" PROVE SubsystemInv'
  BY DEF SubsystemInv
<1>1. ASSUME NEW t, NEW scope \in DOMAIN MaxHops, Subsystem(t, scope) PROVE SubsystemInv'
  <2>1. PICK hits : Respond("subsystem_stats", [hits |-> hits, scope |-> scope], DiscoverSubsystem(g, hits, scope))
    BY <1>1 DEF Subsystem
  <2>2. /\ g' = g /\ answer'.request = [hits |-> hits, scope |-> scope]
        /\ answer'.response = DiscoverSubsystem(g, hits, scope)
    BY <2>1, RespondAnswers DEF Answers
  <2> QED
    BY <2>2 DEF SubsystemInv
<1>2. CASE AskGraph
  BY <1>1, <1>2, GraphAsks
<1>3. CASE AskLookup
  BY <1>3, LookupAsks
<1>4. CASE ~AskGraph /\ ~AskLookup
  BY <1>4, OtherSteps DEF SubsystemInv
<1> QED
  BY <1>2, <1>3, <1>4

(* The lists of discover_subsystem agree, also when the cap on files cut   *)
(* them, and a symbol is there for a chain of edges from a seed.           *)
THEOREM SubsystemsConsistent == Spec => []SubsystemConsistent
<1>1. Init => SubsystemInv
  BY DEF Init, NoAnswer, SubsystemInv
<1>2. SessionInv /\ SubsystemInv => SubsystemConsistent
  <2> SUFFICES ASSUME SessionInv, SubsystemInv, Answered("subsystem_stats") PROVE SubsystemConsistent
    BY DEF SubsystemConsistent
  <2> DEFINE q == answer.request
  <2>1. WellFormed(g)
    BY DEF SessionInv, IndexInv
  <2>2. q.scope \in DOMAIN MaxHops /\ answer.response = DiscoverSubsystem(g, q.hits, q.scope)
    BY DEF SubsystemInv, Answered
  <2> HIDE DEF q
  <2> DEFINE d == answer.response
             seeds == Seeds(g, q.hits)
  <2>3. /\ d.files = d.matched /\ Cardinality(d.files) <= MaxSubsystemFiles
        /\ d.consumers \cap d.files = {} /\ d.routes \subseteq d.entrypoints
        /\ \A c \in d.clusters : c \subseteq d.files
        /\ d.symbols \subseteq Within(Both(g), seeds, MaxHops[q.scope])
        /\ ~d.truncated => seeds \subseteq d.symbols
    BY <2>1, <2>2, SubsystemIs
  <2> QED
    BY <2>3 DEF SubsystemConsistent, Both, q
<1> QED
  BY <1>1, <1>2, SubsystemStep, SessionHolds, PTL DEF Spec

----------------------------------------------------------------------------
(* The cycles of dependency_cycles                                          *)

CyclesInv ==
    answer.tool = "dependency_cycles" =>
        LET q == answer.request
        IN  q.same \in BOOLEAN /\ \E l \in Nat : answer.response = DependencyCycles(g, l, q.scope, q.same)

LEMMA CyclesStep == SessionInv /\ CyclesInv /\ [Next]_vars => CyclesInv'
<1> SUFFICES ASSUME SessionInv, CyclesInv, [Next]_vars, answer'.tool = "dependency_cycles" PROVE CyclesInv'
  BY DEF CyclesInv
<1>1. ASSUME NEW l \in Limits, NEW h, NEW same \in BOOLEAN, Cycles(l, h, same) PROVE CyclesInv'
  <2>1. /\ g' = g /\ answer'.request = [scope |-> h, same |-> same]
        /\ answer'.response = DependencyCycles(g, l, h, same)
    BY <1>1, RespondAnswers DEF Cycles, Answers
  <2>2. l \in Nat
    BY QueriesAssumption
  <2> QED
    BY <2>1, <2>2 DEF CyclesInv
<1>2. CASE AskGraph
  BY <1>1, <1>2, GraphAsks
<1>3. CASE AskLookup
  BY <1>3, LookupAsks
<1>4. CASE ~AskGraph /\ ~AskLookup
  BY <1>4, OtherSteps DEF CyclesInv
<1> QED
  BY <1>2, <1>3, <1>4

(* dependency_cycles: if a symbol comes back to itself along edges with a  *)
(* source, it finds a cycle; each is real, through distinct nodes, listed  *)
(* once whichever node the search entered it by; an answer not truncated   *)
(* returns all of them.                                                    *)
THEOREM CyclesAreFaithful == Spec => []CyclesFaithful
<1>1. Init => CyclesInv
  BY DEF Init, NoAnswer, CyclesInv
<1>2. SessionInv /\ CyclesInv => CyclesFaithful
  <2> SUFFICES ASSUME SessionInv, CyclesInv, Answered("dependency_cycles") PROVE CyclesFaithful
    BY DEF CyclesFaithful
  <2> DEFINE q == answer.request
             r == answer.response
  <2>1. WellFormed(g)
    BY DEF SessionInv, IndexInv
  <2>2. PICK l \in Nat : r = DependencyCycles(g, l, q.scope, q.same)
    BY DEF CyclesInv, Answered
  <2>3. q.same \in BOOLEAN
    BY DEF CyclesInv, Answered
  <2>4. CyclesMean(Attributed(g, q.scope), DependsOn(g, q.scope), q.same, r)
    <3> HIDE DEF q, r
    <3> QED
      BY <2>1, <2>2, <2>3, CyclesAnswer
  <2> QED
    BY <2>4 DEF CyclesFaithful, CyclesMean, After, IsTurn
<1> QED
  BY <1>1, <1>2, CyclesStep, SessionHolds, PTL DEF Spec

----------------------------------------------------------------------------
(* What a symbol has edges to, each once                                   *)

LEMMA RowsFinite == ASSUME NEW graph, WellFormed(graph) PROVE IsFiniteSet(Rows(graph))
<1> DEFINE q == graph.edges
           n == Len(q)
<1>1. q \in Seq(Rows(graph)) /\ Rows(graph) = {q[i] : i \in DOMAIN q}
  BY DEF WellFormed, Rows, ToSet
<1>2. n \in Nat /\ DOMAIN q = 1..n /\ IsFiniteSet(1..n)
  <2>1. n \in Nat /\ DOMAIN q = 1..n
    BY <1>1
  <2>2. IsFiniteSet(1..n)
    BY <2>1, FS_Interval
  <2> QED
    BY <2>1, <2>2
<1>3. q \in Surjection(1..n, Rows(graph))
  <2> HIDE DEF q, n
  <2>1. q \in [1..n -> Rows(graph)]
    BY <1>1, <1>2 DEF n
  <2> QED
    BY <1>1, <1>2, <2>1 DEF Surjection
<1> QED
  BY <1>2, <1>3, FS_Surjection

Depended(graph, s) == {e.tgt : e \in {x \in Rows(graph) : x.src = s}}
MoreEdges(graph, s) ==
    {p \in Symbols(graph) \X Symbols(graph) :
        \/ EdgeCount(graph, s, p[1]) > EdgeCount(graph, s, p[2])
        \/ EdgeCount(graph, s, p[1]) = EdgeCount(graph, s, p[2]) /\ p[1] < p[2]}

LEMMA DependenciesListed ==
  ASSUME NEW graph, WellFormed(graph), NEW s
  PROVE  ListsOnce(InternalDependencies(graph, s), Depended(graph, s))
<1> DEFINE S == Depended(graph, s)
           R == MoreEdges(graph, s)
           q == InternalDependencies(graph, s)
           count(t) == EdgeCount(graph, s, t)
<1>1. S \subseteq Symbols(graph) /\ IsFiniteSet(Symbols(graph)) /\ Symbols(graph) \subseteq Nat
  BY DEF WellFormed, Depended
<1>2. IsFiniteSet(S)
  BY <1>1, FS_Subset
<1>3. \A t : count(t) \in Nat
  <2> TAKE t
  <2>1. IsFiniteSet({e \in Rows(graph) : e.src = s /\ e.tgt = t})
    BY RowsFinite, FS_Subset
  <2> QED
    BY <2>1, FS_CardinalityType DEF EdgeCount
<1>4. \A x, y \in S : <<x, y>> \in R <=> count(x) > count(y) \/ (count(x) = count(y) /\ x < y)
  BY <1>1 DEF MoreEdges
<1>5. q = [i \in 1..Cardinality(S) |-> CHOOSE x \in S : Rank(S, R, x) = i - 1]
  <2> DEFINE before(y, x) == count(y) > count(x) \/ (count(y) = count(x) /\ y < x)
             place(x) == Cardinality({y \in S : before(y, x)})
             ranked(i) == CHOOSE x \in S : Rank(S, R, x) = i - 1
             placed(i) == CHOOSE x \in S : place(x) = i - 1
  <2>1. \A x \in S : {y \in S : <<y, x>> \in R} = {y \in S : before(y, x)}
    BY <1>4
  <2>2. \A x \in S : Rank(S, R, x) = place(x)
    BY <2>1 DEF Rank
  <2>3. S = {e.tgt : e \in {r \in Rows(graph) : r.src = s}} \cap Symbols(graph)
    BY <1>1 DEF Depended
  <2>4. q = [i \in 1..Cardinality(S) |-> placed(i)]
    BY <2>3 DEF InternalDependencies, InOrder
  <2>5. \A i : ranked(i) = placed(i)
    <3> HIDE DEF S, R, place
    <3>1. \A i : \A x : (x \in S /\ Rank(S, R, x) = i - 1) <=> (x \in S /\ place(x) = i - 1)
      BY <2>2
    <3> QED
      BY <3>1
  <2>6. q = [i \in 1..Cardinality(S) |-> ranked(i)]
    <3> HIDE DEF S, R, q, ranked, placed
    <3> QED
      BY <2>4, <2>5
  <2> QED
    BY <2>6
<1> HIDE DEF S, R, q, count
<1>6. Orders(R, S)
  BY <1>1, <1>3, <1>4 DEF Orders
<1>7. ListsOnce(q, S)
  BY <1>2, <1>5, <1>6, RanksList DEF Ranked
<1> QED
  BY <1>7 DEF q, S

(* A dependency is returned under its own name, and its source, if any, is *)
(* from a symbol of its range.                                             *)
LEMMA DependencyKnown ==
  ASSUME NEW graph, WellFormed(graph), NEW live, NEW t \in Symbols(graph)
  PROVE  LET d == DependencyOf(graph, live, t)
         IN  /\ d.name = NameAt(graph, t)
             /\ d.sym # NoSymbol => /\ FileAt(graph, d.sym) = FileAt(graph, t)
                                    /\ graph.sym[d.sym].line = graph.sym[t].line
                                    /\ graph.sym[d.sym].end = graph.sym[t].end
<1> DEFINE r == ResolveSymbol(graph, NameAt(graph, t), graph.files, NoLine)
           rows == RowsNamed(graph, NameAt(graph, t))
           m == Min(r.candidates)
           d == DependencyOf(graph, live, t)
<1>1. rows = ExactRows(graph, NameAt(graph, t)) /\ t \in rows
  BY DEF RowsNamed, ExactRows
<1>2. StageSays(graph, rows, graph.files, NoLine, r)
  BY ResolverSays
<1>3. FileAt(graph, t) \in graph.files /\ Symbols(graph) \subseteq Nat
  BY DEF WellFormed
<1>4. CASE r.kind = "symbol"
  <2>1. d = FetchSource(graph, live, m)
    BY <1>4 DEF DependencyOf
  <2>2. r.candidates \subseteq rows /\ r.candidates # {} /\ rows \subseteq Nat
    <3>1. rows \subseteq Symbols(graph)
      BY <1>1 DEF ExactRows
    <3> HIDE DEF r, rows
    <3> QED
      BY <1>2, <1>3, <1>4, <3>1 DEF StageSays
  <2>3. m \in r.candidates
    <3> HIDE DEF r, rows
    <3> QED
      BY <2>2, MinIsMember
  <2>4. NameAt(graph, m) = NameAt(graph, t)
    BY <1>1, <2>2, <2>3 DEF ExactRows
  <2>5. /\ FileAt(graph, t) = FileAt(graph, m)
        /\ graph.sym[t].line = graph.sym[m].line /\ graph.sym[t].end = graph.sym[m].end
    <3> HIDE DEF r, rows, m
    <3> QED
      BY <1>1, <1>2, <1>3, <1>4, <2>3 DEF StageSays
  <2>6. d.sym = m /\ d.name = NameAt(graph, m)
    <3> HIDE DEF m
    <3> QED
      BY <2>1 DEF FetchSource
  <2> QED
    BY <2>4, <2>5, <2>6
<1>5. CASE r.kind # "symbol"
  BY <1>5 DEF DependencyOf, Stub
<1> QED
  BY <1>4, <1>5

NoneTaken == [taken |-> <<>>, omitted |-> <<>>]
DependenciesOf(graph, live, s) ==
    FoldLeft(LAMBDA acc, t : TakeDependency(graph, live, acc, t), [taken |-> <<>>, omitted |-> <<>>], s)
TakeOf(c, acc, t) == TakeDependency(c[1], c[2], acc, t)
DependencyFold == INSTANCE FoldTheorems WITH Step <- TakeOf, Greatest <- Max

LEMMA DependenciesRun ==
    ASSUME NEW graph, NEW live, NEW X, NEW s \in Seq(X)
    PROVE  \E f : /\ DependencyFold!IsRun(f, <<graph, live>>, NoneTaken, s, Len(s))
                  /\ DependenciesOf(graph, live, s) = f[Len(s)]
<1> DEFINE n == Len(s)
           c == <<graph, live>>
           b == NoneTaken
           end == DependenciesOf(graph, live, s)
           iter == CHOOSE iter : DependencyFold!Iterates(iter, c, b, s, DOMAIN s)
<1>1. n \in Nat /\ DOMAIN s = 1..n
  OBVIOUS
<1>2. DependencyFold!GreatestUpTo(n)
  BY <1>1, MaxIsGreatest DEF DependencyFold!GreatestUpTo
<1>3. DependencyFold!Iterates(iter, c, b, s, DOMAIN s)
  <2>1. \E it : DependencyFold!Iterates(it, c, b, s, 1..n)
    <3> HIDE DEF n, c, b
    <3> QED
      BY <1>1, <1>2, DependencyFold!IterationExists
  <2> HIDE DEF n, c, b
  <2> QED
    BY <1>1, <2>1
<1>4. end = iter[DOMAIN s]
  BY DEF DependenciesOf, NoneTaken, FoldLeft, MapThenFoldSet, DependencyFold!Iterates, TakeOf
<1> HIDE DEF iter, end
<1>5. \E f : DependencyFold!IsRun(f, c, b, s, n) /\ end = f[n]
  <2> HIDE DEF n, c, b
  <2> QED
    BY <1>1, <1>2, <1>3, <1>4, DependencyFold!FoldRuns
<1> QED
  BY <1>5 DEF end


LEMMA AppendGrows ==
  ASSUME NEW X, NEW q \in Seq(X), NEW x \in X
  PROVE  /\ Append(q, x) \in Seq(X) /\ Len(Append(q, x)) = Len(q) + 1
         /\ ToSet(Append(q, x)) = ToSet(q) \cup {x}
<1>1. DOMAIN q = 1..Len(q) /\ DOMAIN Append(q, x) = 1..Len(Append(q, x))
  OBVIOUS
<1>2. /\ Append(q, x) \in Seq(X) /\ Len(Append(q, x)) = Len(q) + 1
      /\ {Append(q, x)[i] : i \in 1..Len(Append(q, x))} = {q[i] : i \in 1..Len(q)} \cup {x}
  BY DependencyFold!AppendedMembers
<1> QED
  BY <1>1, <1>2 DEF ToSet

(* What is taken and omitted of the dependencies seen *)
Valued(graph, seen) == {t \in seen : ~IsTypeOnly(graph, t)}
Accounts(graph, live, seen, n, acc) ==
    /\ acc = [taken |-> acc.taken, omitted |-> acc.omitted]
    /\ acc.taken \in Seq({DependencyOf(graph, live, t) : t \in Valued(graph, seen)})
    /\ acc.omitted \in Seq({NameAt(graph, t) : t \in seen})
    /\ {d.name : d \in ToSet(acc.taken)} \cup ToSet(acc.omitted) = {NameAt(graph, t) : t \in seen}
    /\ Len(acc.taken) + Len(acc.omitted) = n
    /\ Len(acc.taken) = AtMost(MaxDeps, Cardinality(Valued(graph, seen)))

LEMMA DependencyTaken ==
  ASSUME NEW graph, WellFormed(graph), NEW live, NEW seen, seen \subseteq Symbols(graph), IsFiniteSet(seen),
         NEW n \in Nat, NEW acc, Accounts(graph, live, seen, n, acc), NEW t \in Symbols(graph) \ seen
  PROVE  Accounts(graph, live, seen \cup {t}, n + 1, TakeDependency(graph, live, acc, t))
<1> DEFINE new == TakeDependency(graph, live, acc, t)
           all == seen \cup {t}
           D(S) == {DependencyOf(graph, live, x) : x \in Valued(graph, S)}
           N(S) == {NameAt(graph, x) : x \in S}
           d == DependencyOf(graph, live, t)
           valued == Valued(graph, seen)
<1>1. /\ acc.taken \in Seq(D(seen)) /\ acc.omitted \in Seq(N(seen)) /\ Len(acc.taken) + Len(acc.omitted) = n
      /\ {x.name : x \in ToSet(acc.taken)} \cup ToSet(acc.omitted) = N(seen)
      /\ Len(acc.taken) = AtMost(MaxDeps, Cardinality(valued))
      /\ acc = [taken |-> acc.taken, omitted |-> acc.omitted]
  BY DEF Accounts
<1>2. D(seen) \subseteq D(all) /\ N(seen) \subseteq N(all) /\ N(all) = N(seen) \cup {NameAt(graph, t)}
  BY DEF Valued
<1>3. IsFiniteSet(valued) /\ Cardinality(valued) \in Nat /\ MaxDeps \in Nat
  <2>1. IsFiniteSet(valued)
    BY FS_Subset DEF Valued
  <2> QED
    BY <2>1, FS_CardinalityType, DependencyAssumption
<1>4. /\ Valued(graph, all) = IF IsTypeOnly(graph, t) THEN valued ELSE valued \cup {t}
      /\ t \notin valued
  BY DEF Valued
<1>5. Cardinality(Valued(graph, all)) = IF IsTypeOnly(graph, t) THEN Cardinality(valued) ELSE Cardinality(valued) + 1
  <2> HIDE DEF valued, all
  <2> QED
    BY <1>3, <1>4, FS_AddElement
<1>6. acc.taken \in Seq(D(all)) /\ acc.omitted \in Seq(N(all))
  <2> HIDE DEF D, N, all
  <2> QED
    BY <1>1, <1>2, WidenSeq
<1>7. d.name = NameAt(graph, t)
  BY DependencyKnown
<1>8. CASE IsTypeOnly(graph, t) \/ Len(acc.taken) >= MaxDeps
  <2>1. new = [acc EXCEPT !.omitted = Append(@, NameAt(graph, t))]
    BY <1>8 DEF TakeDependency
  <2>2. /\ new.taken = acc.taken /\ new.omitted = Append(acc.omitted, NameAt(graph, t))
        /\ new = [taken |-> new.taken, omitted |-> new.omitted]
    <3> HIDE DEF new
    <3> QED
      BY <1>1, <2>1
  <2>3. NameAt(graph, t) \in N(all)
    OBVIOUS
  <2>4. /\ new.omitted \in Seq(N(all)) /\ Len(new.omitted) = Len(acc.omitted) + 1
        /\ ToSet(new.omitted) = ToSet(acc.omitted) \cup {NameAt(graph, t)}
    <3> HIDE DEF N, all
    <3> QED
      BY <1>6, <2>2, <2>3, AppendGrows
  <2>5. {x.name : x \in ToSet(new.taken)} \cup ToSet(new.omitted) = N(all)
    <3> HIDE DEF N, all, new
    <3> QED
      BY <1>1, <1>2, <2>2, <2>4
  <2>6. Len(new.taken) + Len(new.omitted) = n + 1
    <3> HIDE DEF N, D, all, new, valued
    <3> QED
      BY <1>1, <2>2, <2>4
  <2>7. Len(new.taken) = AtMost(MaxDeps, Cardinality(Valued(graph, all)))
    <3> HIDE DEF new, all, valued
    <3> QED
      BY <1>1, <1>3, <1>5, <1>8, <2>2 DEF AtMost
  <2> HIDE DEF new
  <2>8. new.taken \in Seq(D(all))
    BY <1>6, <2>2
  <2>9. Accounts(graph, live, all, n + 1, new)
    BY <2>2, <2>4, <2>5, <2>6, <2>7, <2>8 DEF Accounts
  <2> QED
    BY <2>9 DEF new
<1>9. CASE ~IsTypeOnly(graph, t) /\ ~(Len(acc.taken) >= MaxDeps)
  <2>1. new = [acc EXCEPT !.taken = Append(@, d)]
    BY <1>9 DEF TakeDependency
  <2>2. /\ new.taken = Append(acc.taken, d) /\ new.omitted = acc.omitted
        /\ new = [taken |-> new.taken, omitted |-> new.omitted]
    <3> HIDE DEF new, d
    <3> QED
      BY <1>1, <2>1
  <2>3. d \in D(all)
    BY <1>9 DEF Valued
  <2>4. /\ new.taken \in Seq(D(all)) /\ Len(new.taken) = Len(acc.taken) + 1
        /\ ToSet(new.taken) = ToSet(acc.taken) \cup {d}
    <3> HIDE DEF D, all, d
    <3> QED
      BY <1>6, <2>2, <2>3, AppendGrows
  <2>5. {x.name : x \in ToSet(new.taken)} \cup ToSet(new.omitted) = N(all)
    <3> HIDE DEF N, all, new, d
    <3> QED
      BY <1>1, <1>2, <1>7, <2>2, <2>4
  <2>6. Len(new.taken) + Len(new.omitted) = n + 1
    <3> HIDE DEF N, D, all, new, valued
    <3> QED
      BY <1>1, <2>2, <2>4
  <2>7. Len(new.taken) = AtMost(MaxDeps, Cardinality(Valued(graph, all)))
    <3> HIDE DEF new, all, valued, d, D, N
    <3> QED
      BY <1>1, <1>3, <1>5, <1>9, <2>4 DEF AtMost
  <2> HIDE DEF new
  <2>8. new.omitted \in Seq(N(all))
    BY <1>6, <2>2
  <2>9. Accounts(graph, live, all, n + 1, new)
    BY <2>2, <2>4, <2>5, <2>6, <2>7, <2>8 DEF Accounts
  <2> QED
    BY <2>9 DEF new
<1> QED
  BY <1>8, <1>9

LEMMA DependenciesAccounted ==
  ASSUME NEW graph, WellFormed(graph), NEW live, NEW T, T \subseteq Symbols(graph), IsFiniteSet(T),
         NEW s, ListsOnce(s, T)
  PROVE  Accounts(graph, live, T, Cardinality(T), DependenciesOf(graph, live, s))
<1> DEFINE n == Len(s)
           seen(i) == {s[k] : k \in 1..i}
           end == DependenciesOf(graph, live, s)
<1>1. n \in Nat /\ DOMAIN s = 1..n /\ s \in Seq(T) /\ n = Cardinality(T)
  BY DEF ListsOnce
<1>2. PICK f : DependencyFold!IsRun(f, <<graph, live>>, NoneTaken, s, n) /\ end = f[n]
  BY <1>1, DependenciesRun
<1>3. f[0] = NoneTaken /\ \A i \in 1..n : f[i] = TakeDependency(graph, live, f[i - 1], s[i])
  BY <1>2 DEF DependencyFold!IsRun, TakeOf
<1> DEFINE S == {i \in 0..n : Accounts(graph, live, seen(i), i, f[i])}
<1>4. 0 \in S
  <2>1. seen(0) = {} /\ Valued(graph, {}) = {} /\ Cardinality({}) = 0
    BY FS_EmptySet DEF Valued
  <2>2. Accounts(graph, live, {}, 0, NoneTaken)
    <3>1. NoneTaken.taken = <<>> /\ NoneTaken.omitted = <<>> /\ Len(<<>>) = 0 /\ ToSet(<<>>) = {}
      BY DEF NoneTaken, ToSet
    <3>2. AtMost(MaxDeps, 0) = 0
      BY DependencyAssumption DEF AtMost
    <3>3. NoneTaken = [taken |-> NoneTaken.taken, omitted |-> NoneTaken.omitted]
      BY DEF NoneTaken
    <3>4. \A X : <<>> \in Seq(X)
      OBVIOUS
    <3>5. {d.name : d \in {}} \cup {} = {NameAt(graph, t) : t \in {}}
      OBVIOUS
    <3> DEFINE none == NoneTaken
    <3> HIDE DEF none
    <3>6. /\ none.taken = <<>> /\ none.omitted = <<>> /\ none = [taken |-> none.taken, omitted |-> none.omitted]
      BY <3>1, <3>3 DEF none
    <3>7. /\ none.taken \in Seq({DependencyOf(graph, live, t) : t \in Valued(graph, {})})
          /\ none.omitted \in Seq({NameAt(graph, t) : t \in {}})
      BY <3>4, <3>6
    <3>8. {d.name : d \in ToSet(none.taken)} \cup ToSet(none.omitted) = {NameAt(graph, t) : t \in {}}
      BY <3>1, <3>6
    <3>9. Len(none.taken) + Len(none.omitted) = 0 /\ Len(none.taken) = AtMost(MaxDeps, Cardinality(Valued(graph, {})))
      BY <2>1, <3>2, <3>6
    <3>10. Accounts(graph, live, {}, 0, none)
      BY <3>6, <3>7, <3>8, <3>9 DEF Accounts
    <3> QED
      BY <3>10 DEF none
  <2>3. Accounts(graph, live, seen(0), 0, f[0])
    <3> HIDE DEF seen
    <3> QED
      BY <1>3, <2>1, <2>2
  <2> HIDE DEF seen
  <2> QED
    BY <1>1, <2>3
<1>5. ASSUME NEW i \in 1..n, i - 1 \in S PROVE i \in S
  <2>1. s[i] \in T /\ seen(i) = seen(i - 1) \cup {s[i]} /\ seen(i - 1) \subseteq T
    BY <1>1
  <2>2. s[i] \notin seen(i - 1)
    <3>1. \A k \in 1..(i - 1) : s[k] # s[i]
      BY <1>1 DEF ListsOnce
    <3> QED
      BY <3>1
  <2>3. IsFiniteSet(seen(i - 1)) /\ i - 1 \in Nat /\ (i - 1) + 1 = i
    BY <1>1, <2>1, FS_Subset
  <2>4. Accounts(graph, live, seen(i - 1), i - 1, f[i - 1])
    BY <1>5
  <2> HIDE DEF seen, n
  <2>5. Accounts(graph, live, seen(i - 1) \cup {s[i]}, (i - 1) + 1, TakeDependency(graph, live, f[i - 1], s[i]))
    BY <2>1, <2>2, <2>3, <2>4, DependencyTaken
  <2>6. Accounts(graph, live, seen(i), i, f[i])
    BY <1>3, <2>1, <2>3, <2>5
  <2> QED
    BY <1>1, <2>6
<1>6. 0..n \subseteq S
  <2> HIDE DEF S, n
  <2> QED
    BY <1>1, <1>4, <1>5, DependencyFold!InductionUpTo
<1>7. Accounts(graph, live, seen(n), n, end) /\ seen(n) = T
  <2>1. Accounts(graph, live, seen(n), n, f[n])
    <3> HIDE DEF seen, n
    <3> QED
      BY <1>1, <1>6
  <2>2. seen(n) = T
    BY <1>1 DEF ListsOnce
  <2> HIDE DEF seen
  <2> QED
    BY <1>2, <2>1, <2>2
<1> QED
  BY <1>1, <1>7

----------------------------------------------------------------------------
(* The walk of skeletonize_file                                            *)

SpanAt(graph, s) == graph.sym[s].line..graph.sym[s].end
Gone(graph, out) == {s \in Symbols(graph) : 0 - s \in ToSet(out)}

(* Up to line at all of the file is shown or gone with one symbol of seen *)
Shows(graph, target, seen, out, at) ==
    /\ at \in Nat \ {0} /\ out \in Seq(Int)
    /\ \A x \in ToSet(out) : x # 0 /\ x < at /\ (x < 0 => 0 - x \in seen)
    /\ \A i, j \in DOMAIN out : i < j => out[i] # out[j] /\ (out[i] > 0 /\ out[j] > 0 => out[i] < out[j])
    /\ \A s \in Gone(graph, out) : graph.sym[s].end < at /\ ~HoldsTarget(graph, s, target)
    /\ \A s, t \in Gone(graph, out) : s # t => SpanAt(graph, s) \cap SpanAt(graph, t) = {}
    /\ \A i \in 1..(at - 1) : i \in ToSet(out) <=> \A s \in Gone(graph, out) : i \notin SpanAt(graph, s)

LinesFrom(at, line) == [i \in 1..(line - at) |-> at + i - 1]

LEMMA LinesJoin ==
  ASSUME NEW out \in Seq(Int), NEW at \in Nat, NEW line \in Nat, at <= line
  PROVE  LET r == out \o LinesFrom(at, line)
         IN  /\ r \in Seq(Int) /\ Len(r) = Len(out) + (line - at) /\ Len(out) \in Nat
             /\ \A i \in 1..Len(out) : r[i] = out[i]
             /\ \A i \in (Len(out) + 1)..Len(r) : r[i] = at + (i - Len(out)) - 1
             /\ ToSet(r) = ToSet(out) \cup (at..(line - 1))
<1> DEFINE q == LinesFrom(at, line)
           m == line - at
           r == out \o q
           n == Len(out)
<1>1. m \in Nat /\ n \in Nat /\ DOMAIN out = 1..n
  OBVIOUS
<1>2. q \in Seq(Int) /\ Len(q) = m /\ \A i \in 1..m : q[i] = at + i - 1
  <2>1. \A i \in 1..m : at + i - 1 \in Int
    OBVIOUS
  <2>2. q = [i \in 1..m |-> at + i - 1]
    BY DEF LinesFrom
  <2>3. q \in [1..m -> Int] /\ \A i \in 1..m : q[i] = at + i - 1
    <3> HIDE DEF m, q
    <3> QED
      BY <2>1, <2>2
  <2> HIDE DEF m, q
  <2> QED
    BY <1>1, <2>3
<1> HIDE DEF q, m
<1>3. /\ r \in Seq(Int) /\ Len(r) = n + m
      /\ \A i \in 1..n : r[i] = out[i]
      /\ \A i \in 1..m : r[n + i] = q[i]
  <2>1. /\ r \in Seq(Int) /\ Len(r) = n + m
        /\ \A i \in 1..(n + m) : r[i] = IF i <= n THEN out[i] ELSE q[i - n]
    BY <1>2, ConcatProperties
  <2> HIDE DEF r, n
  <2>2. \A i \in 1..n : i \in 1..(n + m) /\ i <= n
    BY <1>1
  <2>3. \A i \in 1..m : n + i \in 1..(n + m) /\ ~(n + i <= n) /\ (n + i) - n = i
    BY <1>1
  <2> QED
    BY <2>1, <2>2, <2>3
<1> HIDE DEF r, n
<1>4. \A i \in (n + 1)..Len(r) : r[i] = at + (i - n) - 1
  <2> TAKE i \in (n + 1)..Len(r)
  <2>1. i - n \in 1..m /\ n + (i - n) = i
    BY <1>1, <1>3
  <2>2. r[n + (i - n)] = q[i - n]
    BY <1>3, <2>1
  <2> QED
    BY <1>2, <2>1, <2>2
<1>5. ToSet(r) = ToSet(out) \cup (at..(line - 1))
  <2>1. DOMAIN r = 1..(n + m)
    BY <1>1, <1>3
  <2>2. ASSUME NEW x \in ToSet(r) PROVE x \in ToSet(out) \cup (at..(line - 1))
    <3>1. PICK i \in 1..(n + m) : x = r[i]
      BY <2>1 DEF ToSet
    <3>2. CASE i <= n
      <4>1. i \in 1..n
        BY <1>1, <3>2
      <4>2. x = out[i] /\ i \in DOMAIN out
        BY <1>1, <1>3, <3>1, <4>1
      <4> QED
        BY <4>2 DEF ToSet
    <3>3. CASE i > n
      BY <1>1, <1>3, <1>4, <3>1, <3>3 DEF m
    <3> QED
      BY <1>1, <3>2, <3>3
  <2>3. ASSUME NEW x \in ToSet(out) PROVE x \in ToSet(r)
    <3>1. PICK i \in 1..n : x = out[i]
      BY <1>1 DEF ToSet
    <3>2. i \in 1..(n + m) /\ x = r[i]
      BY <1>1, <1>3, <3>1
    <3> QED
      BY <2>1, <3>2 DEF ToSet
  <2>4. ASSUME NEW x \in at..(line - 1) PROVE x \in ToSet(r)
    <3>1. x - at + 1 \in 1..m
      BY DEF m
    <3>2. r[n + (x - at + 1)] = q[x - at + 1] /\ q[x - at + 1] = x
      BY <1>2, <1>3, <3>1
    <3>3. n + (x - at + 1) \in 1..(n + m)
      BY <1>1, <3>1
    <3> QED
      BY <2>1, <3>2, <3>3 DEF ToSet
  <2> QED
    BY <2>2, <2>3, <2>4
<1> QED
  BY <1>1, <1>3, <1>4, <1>5 DEF r, n, m, q

(* A symbol not yet collapsed is not gone by a line shown *)
LEMMA ShowsOn ==
  ASSUME NEW graph, WellFormed(graph), NEW target, NEW seen, NEW out, NEW at, Shows(graph, target, seen, out, at),
         NEW line \in Nat, at <= line
  PROVE  Shows(graph, target, seen, out \o LinesFrom(at, line), line)
<1> DEFINE r == out \o LinesFrom(at, line)
           n == Len(out)
<1>1. /\ at \in Nat \ {0} /\ out \in Seq(Int)
      /\ \A x \in ToSet(out) : x # 0 /\ x < at /\ (x < 0 => 0 - x \in seen)
      /\ \A i, j \in DOMAIN out : i < j => out[i] # out[j] /\ (out[i] > 0 /\ out[j] > 0 => out[i] < out[j])
      /\ \A s \in Gone(graph, out) : graph.sym[s].end < at /\ ~HoldsTarget(graph, s, target)
      /\ \A s, t \in Gone(graph, out) : s # t => SpanAt(graph, s) \cap SpanAt(graph, t) = {}
      /\ \A i \in 1..(at - 1) : i \in ToSet(out) <=> \A s \in Gone(graph, out) : i \notin SpanAt(graph, s)
  BY DEF Shows
<1>2. /\ r \in Seq(Int) /\ Len(r) = n + (line - at) /\ n \in Nat
      /\ \A i \in 1..n : r[i] = out[i]
      /\ \A i \in (n + 1)..Len(r) : r[i] = at + (i - n) - 1
      /\ ToSet(r) = ToSet(out) \cup (at..(line - 1))
  <2>1. at \in Nat /\ out \in Seq(Int)
    BY <1>1
  <2> QED
    BY <2>1, LinesJoin
<1>3. DOMAIN out = 1..n /\ DOMAIN r = 1..Len(r) /\ \A i \in 1..n : out[i] \in ToSet(out) /\ out[i] \in Int
  BY <1>1 DEF ToSet
<1>4. \A s \in Symbols(graph) : s \in Nat \ {0} /\ graph.sym[s].end \in Nat
  BY DEF WellFormed, NoSymbol
<1> HIDE DEF r, n
<1>5. Gone(graph, r) = Gone(graph, out)
  BY <1>1, <1>2, <1>4 DEF Gone
<1>6. \A x \in ToSet(r) : x # 0 /\ x < line /\ (x < 0 => 0 - x \in seen)
  <2> TAKE x \in ToSet(r)
  <2>1. CASE x \in ToSet(out)
    <3>1. x \in Int
      BY <1>3, <2>1 DEF ToSet
    <3> QED
      BY <1>1, <2>1, <3>1
  <2>2. CASE x \in at..(line - 1)
    BY <1>1, <2>2
  <2> QED
    BY <1>2, <2>1, <2>2
<1>7. ASSUME NEW i \in DOMAIN r, NEW j \in DOMAIN r, i < j
      PROVE  r[i] # r[j] /\ (r[i] > 0 /\ r[j] > 0 => r[i] < r[j])
  <2>1. CASE j <= n
    <3>1. i \in 1..n /\ j \in 1..n
      BY <1>2, <1>3, <1>7, <2>1
    <3>2. r[i] = out[i] /\ r[j] = out[j]
      BY <1>2, <3>1
    <3>3. out[i] # out[j] /\ (out[i] > 0 /\ out[j] > 0 => out[i] < out[j])
      BY <1>1, <1>3, <1>7, <3>1
    <3> QED
      BY <3>2, <3>3
  <2>2. CASE i <= n /\ j > n
    <3>1. r[i] = out[i] /\ out[i] < at /\ out[i] \in Int
      BY <1>1, <1>2, <1>3, <2>2
    <3>2. r[j] = at + (j - n) - 1
      BY <1>2, <1>3, <2>2
    <3> QED
      BY <1>1, <1>2, <1>3, <2>2, <3>1, <3>2
  <2>3. CASE i > n
    <3>1. r[i] = at + (i - n) - 1 /\ r[j] = at + (j - n) - 1
      BY <1>2, <1>3, <1>7, <2>3
    <3> QED
      BY <1>1, <1>2, <1>3, <1>7, <3>1
  <2> QED
    BY <1>2, <1>3, <2>1, <2>2, <2>3
<1>8. \A s \in Gone(graph, r) : graph.sym[s].end < line /\ ~HoldsTarget(graph, s, target)
  BY <1>1, <1>4, <1>5 DEF Gone
<1>9. ASSUME NEW i \in 1..(line - 1)
      PROVE  i \in ToSet(r) <=> \A s \in Gone(graph, r) : i \notin SpanAt(graph, s)
  <2>1. CASE i < at
    BY <1>1, <1>2, <1>5, <2>1
  <2>2. CASE i >= at
    <3>1. i \in ToSet(r)
      BY <1>1, <1>2, <2>2
    <3>2. \A s \in Gone(graph, r) : i \notin SpanAt(graph, s)
      BY <1>1, <1>4, <1>5, <2>2 DEF SpanAt, Gone
    <3> QED
      BY <3>1, <3>2
  <2> QED
    BY <1>1, <2>1, <2>2
<1>10. line \in Nat \ {0}
  BY <1>1
<1>11. Shows(graph, target, seen, r, line)
  BY <1>1, <1>2, <1>5, <1>6, <1>7, <1>8, <1>9, <1>10 DEF Shows
<1> QED
  BY <1>11 DEF r

(* A symbol that begins where the walk is goes whole *)
LEMMA ShowsCollapsed ==
  ASSUME NEW graph, WellFormed(graph), NEW target, NEW seen, NEW out, NEW s \in Symbols(graph) \ seen,
         Shows(graph, target, seen, out, graph.sym[s].line), ~HoldsTarget(graph, s, target)
  PROVE  Shows(graph, target, seen \cup {s}, Append(out, 0 - s), graph.sym[s].end + 1)
<1> DEFINE r == Append(out, 0 - s)
           at == graph.sym[s].line
           to == graph.sym[s].end + 1
           n == Len(out)
<1>1. /\ at \in Nat \ {0} /\ out \in Seq(Int)
      /\ \A x \in ToSet(out) : x # 0 /\ x < at /\ (x < 0 => 0 - x \in seen)
      /\ \A i, j \in DOMAIN out : i < j => out[i] # out[j] /\ (out[i] > 0 /\ out[j] > 0 => out[i] < out[j])
      /\ \A t \in Gone(graph, out) : graph.sym[t].end < at /\ ~HoldsTarget(graph, t, target)
      /\ \A u, t \in Gone(graph, out) : u # t => SpanAt(graph, u) \cap SpanAt(graph, t) = {}
      /\ \A i \in 1..(at - 1) : i \in ToSet(out) <=> \A t \in Gone(graph, out) : i \notin SpanAt(graph, t)
  BY DEF Shows
<1>2. /\ \A t \in Symbols(graph) : /\ t \in Nat \ {0} /\ graph.sym[t].end \in Nat /\ graph.sym[t].line \in Nat \ {0}
      /\ to \in Nat \ {0} /\ at <= to /\ s \in Nat \ {0} /\ s \in Symbols(graph) /\ s \notin seen
  BY DEF WellFormed, NoSymbol
<1>3. 0 - s \in Int /\ 0 - s < 0 /\ 0 - (0 - s) = s
  BY <1>2
<1>4. /\ r \in Seq(Int) /\ Len(r) = n + 1 /\ n \in Nat /\ DOMAIN out = 1..n /\ DOMAIN r = 1..(n + 1)
      /\ \A i \in 1..n : r[i] = out[i] /\ out[i] \in Int /\ out[i] \in ToSet(out)
      /\ r[n + 1] = 0 - s
      /\ ToSet(r) = ToSet(out) \cup {0 - s} /\ ToSet(out) \subseteq Int
  <2>1. /\ r \in Seq(Int) /\ Len(r) = n + 1 /\ n \in Nat /\ DOMAIN out = 1..n /\ DOMAIN r = 1..(n + 1)
        /\ \A i \in 1..n : r[i] = out[i] /\ out[i] \in Int
        /\ r[n + 1] = 0 - s
    BY <1>1, <1>3
  <2>2. ToSet(r) = ToSet(out) \cup {0 - s}
    BY <1>1, <1>3, AppendGrows
  <2> HIDE DEF r, n
  <2> QED
    BY <2>1, <2>2 DEF ToSet
<1> HIDE DEF r, n, at, to
<1>5. 0 - s \notin ToSet(out)
  BY <1>1, <1>2, <1>3
<1>6. Gone(graph, r) = Gone(graph, out) \cup {s}
  <2>1. \A t \in Symbols(graph) : 0 - t = 0 - s <=> t = s
    BY <1>2
  <2>2. \A t \in Symbols(graph) : 0 - t \in ToSet(r) <=> (0 - t \in ToSet(out) \/ t = s)
    BY <1>4, <2>1
  <2> QED
    BY <1>2, <2>2 DEF Gone
<1>7. \A x \in ToSet(r) : x # 0 /\ x < to /\ (x < 0 => 0 - x \in seen \cup {s})
  BY <1>1, <1>2, <1>3, <1>4
<1>8. ASSUME NEW i \in DOMAIN r, NEW j \in DOMAIN r, i < j
      PROVE  r[i] # r[j] /\ (r[i] > 0 /\ r[j] > 0 => r[i] < r[j])
  <2>1. CASE j <= n
    BY <1>1, <1>4, <1>8, <2>1
  <2>2. CASE j = n + 1
    BY <1>3, <1>4, <1>5, <1>8, <2>2
  <2> QED
    BY <1>4, <2>1, <2>2
<1>9. \A t \in Gone(graph, r) : graph.sym[t].end < to /\ ~HoldsTarget(graph, t, target)
  <2> TAKE t \in Gone(graph, r)
  <2>1. graph.sym[s].end < to
    BY <1>2 DEF to
  <2>2. CASE t \in Gone(graph, out)
    <3>1. graph.sym[t].end \in Nat
      BY <1>2, <2>2 DEF Gone
    <3>2. graph.sym[t].end < at /\ ~HoldsTarget(graph, t, target)
      BY <1>1, <2>2
    <3>3. at \in Nat /\ to \in Nat /\ at <= to
      BY <1>1, <1>2
    <3> QED
      BY <3>1, <3>2, <3>3
  <2> QED
    BY <1>6, <2>1, <2>2
<1>10. \A t \in Gone(graph, out) : SpanAt(graph, s) \cap SpanAt(graph, t) = {}
  BY <1>1, <1>2 DEF Gone, SpanAt, at
<1>11. \A u, t \in Gone(graph, r) : u # t => SpanAt(graph, u) \cap SpanAt(graph, t) = {}
  BY <1>1, <1>6, <1>10
<1>12. ASSUME NEW i \in 1..(to - 1)
       PROVE  i \in ToSet(r) <=> \A t \in Gone(graph, r) : i \notin SpanAt(graph, t)
  <2>1. i \in ToSet(r) <=> i \in ToSet(out)
    BY <1>2, <1>3, <1>4
  <2>2. CASE i < at
    <3>1. i \notin SpanAt(graph, s)
      BY <1>1, <1>2, <2>2 DEF SpanAt, at
    <3> QED
      BY <1>1, <1>2, <1>6, <2>1, <2>2, <3>1
  <2>3. CASE i >= at
    <3>1. i \in SpanAt(graph, s)
      BY <1>1, <1>2, <2>3 DEF SpanAt, at, to
    <3>2. i \notin ToSet(out)
      BY <1>1, <1>2, <1>4, <2>3
    <3> QED
      BY <1>6, <2>1, <3>1, <3>2
  <2> QED
    BY <1>1, <1>2, <2>2, <2>3
<1>13. Shows(graph, target, seen \cup {s}, r, to)
  BY <1>2, <1>4, <1>7, <1>8, <1>9, <1>11, <1>12 DEF Shows
<1> QED
  BY <1>13 DEF r, to

LEMMA ShowsMore ==
  ASSUME NEW graph, NEW target, NEW seen, NEW s, NEW out, NEW at, Shows(graph, target, seen, out, at)
  PROVE  Shows(graph, target, seen \cup {s}, out, at)
BY DEF Shows

NothingShown == [out |-> <<>>, at |-> 1]
SkeletonOf(graph, target, q) ==
    FoldLeft(LAMBDA acc, s : SkeletonStep(graph, target, acc, s), [out |-> <<>>, at |-> 1], q)
PassOf(c, acc, s) == SkeletonStep(c[1], c[2], acc, s)
SkeletonFold == INSTANCE FoldTheorems WITH Step <- PassOf, Greatest <- Max

LEMMA SkeletonRun ==
    ASSUME NEW graph, NEW target, NEW X, NEW s \in Seq(X)
    PROVE  \E f : /\ SkeletonFold!IsRun(f, <<graph, target>>, NothingShown, s, Len(s))
                  /\ SkeletonOf(graph, target, s) = f[Len(s)]
<1> DEFINE n == Len(s)
           c == <<graph, target>>
           b == NothingShown
           end == SkeletonOf(graph, target, s)
           iter == CHOOSE iter : SkeletonFold!Iterates(iter, c, b, s, DOMAIN s)
<1>1. n \in Nat /\ DOMAIN s = 1..n
  OBVIOUS
<1>2. SkeletonFold!GreatestUpTo(n)
  BY <1>1, MaxIsGreatest DEF SkeletonFold!GreatestUpTo
<1>3. SkeletonFold!Iterates(iter, c, b, s, DOMAIN s)
  <2>1. \E it : SkeletonFold!Iterates(it, c, b, s, 1..n)
    <3> HIDE DEF n, c, b
    <3> QED
      BY <1>1, <1>2, SkeletonFold!IterationExists
  <2> HIDE DEF n, c, b
  <2> QED
    BY <1>1, <2>1
<1>4. end = iter[DOMAIN s]
  BY DEF SkeletonOf, NothingShown, FoldLeft, MapThenFoldSet, SkeletonFold!Iterates, PassOf
<1> HIDE DEF iter, end
<1>5. \E f : SkeletonFold!IsRun(f, c, b, s, n) /\ end = f[n]
  <2> HIDE DEF n, c, b
  <2> QED
    BY <1>1, <1>2, <1>3, <1>4, SkeletonFold!FoldRuns
<1> QED
  BY <1>5 DEF end


LEMMA SkeletonPasses ==
  ASSUME NEW graph, WellFormed(graph), NEW target, NEW seen, NEW acc, Shows(graph, target, seen, acc.out, acc.at),
         NEW s \in Symbols(graph) \ seen
  PROVE  LET new == SkeletonStep(graph, target, acc, s)
         IN  Shows(graph, target, seen \cup {s}, new.out, new.at)
<1> DEFINE new == SkeletonStep(graph, target, acc, s)
           line == graph.sym[s].line
           to == graph.sym[s].end + 1
           Goal == Shows(graph, target, seen \cup {s}, new.out, new.at)
<1>1. line \in Nat /\ to \in Nat /\ line <= to /\ acc.at \in Nat
  <2>1. s \in Symbols(graph)
    OBVIOUS
  <2> QED
    BY <2>1 DEF WellFormed, Shows
<1>2. ASSUME line < acc.at \/ HoldsTarget(graph, s, target) PROVE Goal
  <2>1. new = acc
    BY <1>2 DEF SkeletonStep
  <2>2. Shows(graph, target, seen \cup {s}, acc.out, acc.at)
    BY ShowsMore
  <2> HIDE DEF new
  <2> QED
    BY <2>1, <2>2
<1>3. ASSUME ~(line < acc.at), ~HoldsTarget(graph, s, target), graph.sym[s].kind = "variable" PROVE Goal
  <2>1. new.out = acc.out \o LinesFrom(acc.at, to) /\ new.at = to
    BY <1>3 DEF SkeletonStep, Collapse, ShowTo, LinesFrom
  <2>2. acc.at <= to
    <3> HIDE DEF line, to
    <3> QED
      BY <1>1, <1>3
  <2> HIDE DEF new, to
  <2>3. Shows(graph, target, seen, acc.out \o LinesFrom(acc.at, to), to)
    BY <1>1, <2>2, ShowsOn
  <2> QED
    BY <2>1, <2>3, ShowsMore
<1>4. ASSUME ~(line < acc.at), ~HoldsTarget(graph, s, target), graph.sym[s].kind # "variable" PROVE Goal
  <2> DEFINE out == acc.out \o LinesFrom(acc.at, line)
  <2>1. new.out = Append(out, 0 - s) /\ new.at = to
    BY <1>4 DEF SkeletonStep, Collapse, ShowTo, LinesFrom
  <2>2. acc.at <= line
    <3> HIDE DEF line
    <3> QED
      BY <1>1, <1>4
  <2>3. Shows(graph, target, seen, out, line)
    <3> HIDE DEF line
    <3> QED
      BY <1>1, <2>2, ShowsOn
  <2> HIDE DEF new, out
  <2>4. Shows(graph, target, seen \cup {s}, Append(out, 0 - s), to)
    BY <1>4, <2>3, ShowsCollapsed
  <2> QED
    BY <2>1, <2>4
<1> QED
  BY <1>2, <1>3, <1>4

LEMMA SkeletonWalked ==
  ASSUME NEW graph, WellFormed(graph), NEW target, NEW T, T \subseteq Symbols(graph),
         NEW s, ListsOnce(s, T)
  PROVE  LET w == SkeletonOf(graph, target, s) IN Shows(graph, target, T, w.out, w.at)
<1> DEFINE n == Len(s)
           seen(i) == {s[k] : k \in 1..i}
           end == SkeletonOf(graph, target, s)
<1>1. n \in Nat /\ DOMAIN s = 1..n /\ s \in Seq(T)
  BY DEF ListsOnce
<1>2. PICK f : SkeletonFold!IsRun(f, <<graph, target>>, NothingShown, s, n) /\ end = f[n]
  BY <1>1, SkeletonRun
<1>3. f[0] = NothingShown /\ \A i \in 1..n : f[i] = SkeletonStep(graph, target, f[i - 1], s[i])
  BY <1>2 DEF SkeletonFold!IsRun, PassOf
<1> DEFINE S == {i \in 0..n : Shows(graph, target, seen(i), f[i].out, f[i].at)}
<1>4. 0 \in S
  <2>1. <<>> \in Seq(Int) /\ DOMAIN <<>> = {} /\ ToSet(<<>>) = {} /\ Gone(graph, <<>>) = {}
    BY DEF ToSet, Gone
  <2>2. \A X : Shows(graph, target, X, <<>>, 1)
    BY <2>1 DEF Shows
  <2>3. f[0].out = <<>> /\ f[0].at = 1
    BY <1>3 DEF NothingShown
  <2>4. Shows(graph, target, seen(0), f[0].out, f[0].at)
    <3> HIDE DEF seen
    <3> QED
      BY <2>2, <2>3
  <2> HIDE DEF seen
  <2> QED
    BY <1>1, <2>4
<1>5. ASSUME NEW i \in 1..n, i - 1 \in S PROVE i \in S
  <2>1. s[i] \in T /\ seen(i) = seen(i - 1) \cup {s[i]}
    BY <1>1
  <2>2. s[i] \notin seen(i - 1)
    <3>1. \A k \in 1..(i - 1) : s[k] # s[i]
      BY <1>1 DEF ListsOnce
    <3> QED
      BY <3>1
  <2>3. Shows(graph, target, seen(i - 1), f[i - 1].out, f[i - 1].at)
    BY <1>5
  <2> HIDE DEF seen, n
  <2>4. LET new == SkeletonStep(graph, target, f[i - 1], s[i])
        IN  Shows(graph, target, seen(i - 1) \cup {s[i]}, new.out, new.at)
    BY <2>1, <2>2, <2>3, SkeletonPasses
  <2>5. Shows(graph, target, seen(i), f[i].out, f[i].at)
    BY <1>3, <2>1, <2>4
  <2> QED
    BY <1>1, <2>5
<1>6. 0..n \subseteq S
  <2> HIDE DEF S, n
  <2> QED
    BY <1>1, <1>4, <1>5, SkeletonFold!InductionUpTo
<1>7. Shows(graph, target, T, end.out, end.at)
  <2>1. Shows(graph, target, seen(n), f[n].out, f[n].at)
    <3> HIDE DEF seen, n
    <3> QED
      BY <1>1, <1>6
  <2>2. seen(n) = T
    BY <1>1 DEF ListsOnce
  <2> HIDE DEF seen, end, n
  <2> QED
    BY <1>2, <2>1, <2>2
<1> QED
  BY <1>7

(* The symbols of a file by their first line *)
InFile(graph, f) == {s \in Symbols(graph) : FileAt(graph, s) = f}
ByLine(graph) ==
    {p \in Symbols(graph) \X Symbols(graph) :
        \/ graph.sym[p[1]].line < graph.sym[p[2]].line
        \/ graph.sym[p[1]].line = graph.sym[p[2]].line /\ p[1] < p[2]}
LinedUp(graph, f) ==
    InOrder(InFile(graph, f), LAMBDA a, b : \/ graph.sym[a].line < graph.sym[b].line
                                            \/ graph.sym[a].line = graph.sym[b].line /\ a < b)

LEMMA SymbolsLinedUp ==
  ASSUME NEW graph, WellFormed(graph), NEW f
  PROVE  ListsOnce(LinedUp(graph, f), InFile(graph, f))
<1> DEFINE S == InFile(graph, f)
           R == ByLine(graph)
           q == LinedUp(graph, f)
           line(t) == graph.sym[t].line
<1>1. S \subseteq Symbols(graph) /\ IsFiniteSet(Symbols(graph)) /\ Symbols(graph) \subseteq Nat
  BY DEF WellFormed, InFile
<1>2. IsFiniteSet(S)
  BY <1>1, FS_Subset
<1>3. \A t \in S : line(t) \in Nat
  BY <1>1 DEF WellFormed
<1>4. \A x, y \in S : <<x, y>> \in R <=> line(x) < line(y) \/ (line(x) = line(y) /\ x < y)
  BY <1>1 DEF ByLine
<1>5. q = [i \in 1..Cardinality(S) |-> CHOOSE x \in S : Rank(S, R, x) = i - 1]
  <2> DEFINE before(y, x) == line(y) < line(x) \/ (line(y) = line(x) /\ y < x)
             place(x) == Cardinality({y \in S : before(y, x)})
             ranked(i) == CHOOSE x \in S : Rank(S, R, x) = i - 1
             placed(i) == CHOOSE x \in S : place(x) = i - 1
  <2>1. \A x \in S : {y \in S : <<y, x>> \in R} = {y \in S : before(y, x)}
    BY <1>4
  <2>2. \A x \in S : Rank(S, R, x) = place(x)
    BY <2>1 DEF Rank
  <2>3. q = [i \in 1..Cardinality(S) |-> placed(i)]
    BY DEF LinedUp, InOrder
  <2>4. \A i : ranked(i) = placed(i)
    <3> HIDE DEF S, R, place
    <3>1. \A i : \A x : (x \in S /\ Rank(S, R, x) = i - 1) <=> (x \in S /\ place(x) = i - 1)
      BY <2>2
    <3> QED
      BY <3>1
  <2>5. q = [i \in 1..Cardinality(S) |-> ranked(i)]
    <3> HIDE DEF S, R, q, ranked, placed
    <3> QED
      BY <2>3, <2>4
  <2> QED
    BY <2>5
<1> HIDE DEF S, R, q, line
<1>6. Orders(R, S)
  BY <1>1, <1>3, <1>4 DEF Orders
<1>7. ListsOnce(q, S)
  BY <1>2, <1>5, <1>6, RanksList DEF Ranked
<1> QED
  BY <1>7 DEF q, S

(* A path that resolves to a file resolves to one of the index *)
LEMMA FileEntityNames ==
  ASSUME NEW X, FileEntity(X).kind = "file"
  PROVE  FileEntity(X).candidates = X /\ X # {}
<1>1. X # {}
  <2> SUFFICES ASSUME X = {} PROVE FALSE
    OBVIOUS
  <2>1. Cardinality(X) # 1
    BY FS_EmptySet
  <2>2. FileEntity(X) = NotFound
    BY <2>1 DEF FileEntity
  <2> QED
    BY <2>2 DEF NotFound
<1>2. FileEntity(X) = IF Cardinality(X) = 1 THEN [kind |-> "file", candidates |-> X] ELSE Ambiguous(X)
  BY <1>1 DEF FileEntity
<1>3. Ambiguous(X).kind = "ambiguous"
  BY DEF Ambiguous
<1> QED
  BY <1>1, <1>2, <1>3

LEMMA PathsResolve ==
  ASSUME NEW graph, WellFormed(graph), NEW t, ResolvePath(graph, t).kind = "file"
  PROVE  Min(ResolvePath(graph, t).candidates) \in graph.files
<1> DEFINE a == StageFullPath(graph, t)
           b == StageFilename(graph, t)
           c == StageDirectory(graph, t)
           stages == <<a, b, c>>
           answers == {i \in DOMAIN stages : stages[i].kind # "not_found"}
           r == ResolvePath(graph, t)
           Names(x) == x.kind = "file" => x.candidates \subseteq graph.files /\ x.candidates # {}
<1>1. Names(a)
  BY FileEntityNames DEF StageFullPath
<1>2. Names(b)
  <2>1. CASE Parts[t] = <<>>
    BY <2>1 DEF StageFilename, NotFound
  <2>2. CASE Parts[t] # <<>>
    BY <2>2, FileEntityNames DEF StageFilename
  <2> QED
    BY <2>1, <2>2
<1>3. Names(c)
  BY DEF StageDirectory, NotFound
<1>4. r = IF answers = {} THEN NotFound ELSE stages[Min(answers)]
  BY DEF ResolvePath, FirstAnswer
<1>5. DOMAIN stages = 1..3 /\ stages[1] = a /\ stages[2] = b /\ stages[3] = c
  OBVIOUS
<1> HIDE DEF a, b, c, stages
<1>6. answers # {} => Min(answers) \in 1..3
  <2>1. answers \subseteq 1..3 /\ answers \subseteq Nat
    BY <1>5
  <2> HIDE DEF answers
  <2> QED
    BY <2>1, MinIsMember
<1> HIDE DEF answers
<1>7. r \in {a, b, c} \/ r = NotFound
  <2>1. CASE answers = {}
    BY <1>4, <2>1
  <2>2. CASE answers # {}
    <3> DEFINE k == Min(answers)
    <3>1. r = stages[k] /\ k \in 1..3
      BY <1>4, <1>6, <2>2
    <3> HIDE DEF k
    <3>2. k = 1 \/ k = 2 \/ k = 3
      BY <3>1
    <3> QED
      BY <1>5, <3>1, <3>2
  <2> QED
    BY <2>1, <2>2
<1>8. NotFound.kind = "not_found" /\ r.kind = "file"
  BY DEF NotFound
<1> HIDE DEF r
<1>9. r.candidates \subseteq graph.files /\ r.candidates # {}
  BY <1>1, <1>2, <1>3, <1>7, <1>8
<1>10. r.candidates \subseteq Nat
  BY <1>9 DEF WellFormed
<1>11. Min(r.candidates) \in r.candidates
  BY <1>9, <1>10, MinIsMember
<1> QED
  BY <1>9, <1>11 DEF r

(* What skeletonize_file returns of a text it does not refuse *)
LEMMA SkeletonAnswers ==
  ASSUME NEW graph, WellFormed(graph), NEW live, NEW f \in graph.files, NEW name,
         SkeletonizeFile(graph, live, f, name).ok
  PROVE  LET out == SkeletonizeFile(graph, live, f, name).out
             named == {s \in InFile(graph, f) : NameAt(graph, s) = name}
             target == IF name = NoTarget THEN NoTarget ELSE Min(named)
         IN  /\ Len(live[f].text) \in Nat /\ DOMAIN live[f].text = 1..Len(live[f].text)
             /\ \E at : at > Len(live[f].text) /\ Shows(graph, target, InFile(graph, f), out, at)
<1> DEFINE r == SkeletonizeFile(graph, live, f, name)
           text == live[f].text
           n == Len(text)
           rows == InFile(graph, f)
           named == {s \in rows : NameAt(graph, s) = name}
           target == IF name = NoTarget THEN NoTarget ELSE Min(named)
           w == SkeletonOf(graph, target, LinedUp(graph, f))
<1>1. /\ ~(live[f] = Unreadable \/ Stale(graph, live, f) \/ (name # NoTarget /\ named = {}))
      /\ r = [ok |-> TRUE, out |-> ShowTo(w, n + 1)]
  <2>1. r = IF live[f] = Unreadable \/ Stale(graph, live, f) \/ (name # NoTarget /\ named = {})
            THEN SkeletonError ELSE [ok |-> TRUE, out |-> ShowTo(w, n + 1)]
    BY DEF SkeletonizeFile, LinedUp, InFile, SkeletonOf
  <2>2. r.ok /\ ~SkeletonError.ok
    BY DEF SkeletonError
  <2> HIDE DEF r, w, named, n
  <2> QED
    BY <2>1, <2>2
<1>2. n \in Nat /\ DOMAIN text = 1..n
  <2>1. text = graph.text[f]
    BY <1>1 DEF Stale
  <2>2. graph.text[f] \in Seq(ToSet(graph.text[f]))
    BY DEF WellFormed
  <2> HIDE DEF text
  <2> QED
    BY <2>1, <2>2
<1>3. Shows(graph, target, rows, w.out, w.at)
  <2>1. rows \subseteq Symbols(graph) /\ ListsOnce(LinedUp(graph, f), rows)
    BY SymbolsLinedUp DEF InFile
  <2> HIDE DEF rows, target
  <2> QED
    BY <2>1, SkeletonWalked
<1>4. r.out = w.out \o LinesFrom(w.at, n + 1)
  <2> HIDE DEF w, n, r
  <2> QED
    BY <1>1 DEF ShowTo, LinesFrom
<1>5. w.at \in Nat \ {0} /\ w.out \in Seq(Int)
  <2> HIDE DEF w, rows, target
  <2> QED
    BY <1>3 DEF Shows
<1>6. \E at : at > n /\ Shows(graph, target, rows, r.out, at)
  <2> HIDE DEF w, r, rows, n, target
  <2>1. CASE w.at <= n + 1
    <3>1. Shows(graph, target, rows, w.out \o LinesFrom(w.at, n + 1), n + 1)
      BY <1>2, <1>3, <1>5, <2>1, ShowsOn DEF n
    <3>2. n + 1 > n
      BY <1>2
    <3> QED
      BY <1>4, <3>1, <3>2
  <2>2. CASE ~(w.at <= n + 1)
    <3>1. 1..(n + 1 - w.at) = 1..0 /\ w.at > n
      BY <1>2, <1>5, <2>2
    <3>2. LinesFrom(w.at, n + 1) = <<>>
      <4> DEFINE q == LinesFrom(w.at, n + 1)
      <4> DEFINE D == 1..((n + 1) - w.at)
      <4>1. q = [i \in 1..0 |-> w.at + i - 1]
        <5>1. q = [i \in D |-> w.at + i - 1]
          BY DEF LinesFrom
        <5>2. D = 1..0
          BY <1>2, <1>5, <2>2
        <5> HIDE DEF D, q
        <5> QED
          BY <5>1, <5>2
      <4> HIDE DEF q
      <4>2. q \in Seq(Int) /\ Len(q) = 0
        BY <4>1
      <4> QED
        BY <4>2, EmptySeq DEF q
    <3>3. r.out = w.out
      BY <1>4, <1>5, <3>2, ConcatEmptySeq
    <3> QED
      BY <1>3, <3>1, <3>3
  <2> QED
    BY <2>1, <2>2
<1> QED
  BY <1>2, <1>6

----------------------------------------------------------------------------
SourceInv ==
    answer.tool = "read_symbol_source" =>
        answer.response = ReadSymbolSourceTool(g, Live, answer.request.sym, answer.request.dependencies)
SkeletonInv ==
    answer.tool = "read_file_skeleton" /\ answer.response.ok =>
        LET q == answer.request
        IN  q.file \in g.files /\ answer.response = SkeletonizeFile(g, Live, q.file, q.target)

LEMMA SourceStep == SessionInv /\ SourceInv /\ [Next]_vars => SourceInv'
<1> SUFFICES ASSUME SessionInv, SourceInv, [Next]_vars, answer'.tool = "read_symbol_source" PROVE SourceInv'
  BY DEF SourceInv
<1>1. ASSUME NEW s, NEW deps, ReadSymbolSource(s, deps) PROVE SourceInv'
  <2>1. CASE Respond("read_symbol_source", [sym |-> s, dependencies |-> deps], ReadSymbolSourceTool(g, Live, s, deps))
    <3>1. /\ g' = g /\ answer'.request = [sym |-> s, dependencies |-> deps]
          /\ answer'.response = ReadSymbolSourceTool(g, Live, s, deps)
      BY <2>1, RespondAnswers DEF Answers
    <3> QED
      BY <3>1 DEF SourceInv
  <2>2. ASSUME NEW r, NEW q, Respond("read_symbol_source_by_id", q, r) PROVE FALSE
    BY <2>2, RespondAnswers DEF Answers
  <2> QED
    BY <1>1, <2>1, <2>2 DEF ReadSymbolSource
<1>2. CASE AskGraph
  BY <1>2, GraphAsks
<1>3. CASE AskLookup
  BY <1>1, <1>3, LookupAsks
<1>4. CASE ~AskGraph /\ ~AskLookup
  BY <1>4, OtherSteps DEF SourceInv
<1> QED
  BY <1>2, <1>3, <1>4

LEMMA SkeletonStepKeeps == SessionInv /\ SkeletonInv /\ [Next]_vars => SkeletonInv'
<1> SUFFICES ASSUME SessionInv, SkeletonInv, [Next]_vars, answer'.tool = "read_file_skeleton" PROVE SkeletonInv'
  BY DEF SkeletonInv
<1>0. WellFormed(g)
  BY DEF SessionInv, IndexInv
<1>1. ASSUME NEW t, NEW target, ReadFileSkeleton(t, target) PROVE SkeletonInv'
  <2> DEFINE r == ResolvePath(g, t)
             f == Min(r.candidates)
  <2>1. CASE r.kind = "file"
    <3>1. /\ g' = g /\ answer'.request = [file |-> f, target |-> target]
          /\ answer'.response = SkeletonizeFile(g, Live, f, target)
      <4> HIDE DEF r
      <4>1. Respond("read_file_skeleton", [file |-> f, target |-> target], SkeletonizeFile(g, Live, f, target))
        BY <1>1, <2>1 DEF ReadFileSkeleton, r
      <4> HIDE DEF f
      <4> QED
        BY <4>1, RespondAnswers DEF Answers
    <3>2. f \in g.files
      BY <1>0, <2>1, PathsResolve
    <3> HIDE DEF f
    <3> QED
      BY <3>1, <3>2 DEF SkeletonInv
  <2>2. CASE r.kind # "file"
    <3> HIDE DEF r
    <3>1. Respond("read_file_skeleton", [text |-> t], [ok |-> FALSE, error |-> r])
      BY <1>1, <2>2 DEF ReadFileSkeleton, r
    <3>2. answer'.response = [ok |-> FALSE, error |-> r]
      BY <3>1, RespondAnswers DEF Answers
    <3> QED
      BY <3>2 DEF SkeletonInv
  <2> QED
    BY <2>1, <2>2
<1>2. CASE AskGraph
  BY <1>2, GraphAsks
<1>3. CASE AskLookup
  BY <1>1, <1>3, LookupAsks
<1>4. CASE ~AskGraph /\ ~AskLookup
  BY <1>4, OtherSteps DEF SkeletonInv
<1> QED
  BY <1>2, <1>3, <1>4

LEMMA SkeletonTells == SessionInv /\ SkeletonInv => SkeletonShows
<1> SUFFICES ASSUME SessionInv, SkeletonInv, Answered("read_file_skeleton"), answer.response.ok PROVE SkeletonShows
  BY DEF SkeletonShows
<1> DEFINE f == answer.request.file
           name == answer.request.target
           out == answer.response.out
           text == Live[f].text
           lines == {i \in ToSet(out) : i > 0}
           gone == {s \in Symbols(g) : 0 - s \in ToSet(out)}
           span(s) == g.sym[s].line..g.sym[s].end
           target == {s \in Symbols(g) : FileAt(g, s) = f /\ NameAt(g, s) = name}
           asked == name # NoTarget /\ target # {} /\ span(Min(target)) # {}
           held == IF name = NoTarget THEN NoTarget ELSE Min(target)
<1>1. WellFormed(g)
  BY DEF SessionInv, IndexInv
<1>2. f \in g.files /\ answer.response = SkeletonizeFile(g, Live, f, name)
  BY DEF SkeletonInv, Answered
<1>3. target = {s \in InFile(g, f) : NameAt(g, s) = name}
  BY DEF InFile
<1>4. PICK at : /\ Len(text) \in Nat /\ DOMAIN text = 1..Len(text) /\ at > Len(text)
                /\ Shows(g, held, InFile(g, f), out, at)
  <2> DEFINE r == SkeletonizeFile(g, Live, f, name)
  <2>1. r.ok /\ out = r.out
    <3> HIDE DEF r
    <3> QED
      BY <1>2 DEF r
  <2>2. LET named == {s \in InFile(g, f) : NameAt(g, s) = name}
            only == IF name = NoTarget THEN NoTarget ELSE Min(named)
        IN  /\ Len(text) \in Nat /\ DOMAIN text = 1..Len(text)
            /\ \E at : at > Len(text) /\ Shows(g, only, InFile(g, f), r.out, at)
    <3> HIDE DEF f, name
    <3> QED
      BY <1>1, <1>2, <2>1, SkeletonAnswers
  <2> HIDE DEF f, name, r, text, out
  <2> QED
    BY <1>3, <2>1, <2>2
<1> HIDE DEF f, name, out, text
<1>5. /\ at \in Nat \ {0} /\ out \in Seq(Int)
      /\ \A x \in ToSet(out) : x # 0 /\ x < at
      /\ \A i, j \in DOMAIN out : i < j => out[i] # out[j] /\ (out[i] > 0 /\ out[j] > 0 => out[i] < out[j])
      /\ \A s \in gone : ~HoldsTarget(g, s, held)
      /\ \A s, t \in gone : s # t => span(s) \cap span(t) = {}
      /\ \A i \in 1..(at - 1) : i \in ToSet(out) <=> \A s \in gone : i \notin span(s)
  BY <1>4 DEF Shows, Gone, SpanAt
<1>6. IsInjective(out)
  <2>1. \A i \in DOMAIN out : i \in Nat
    BY <1>5
  <2>2. ASSUME NEW i \in DOMAIN out, NEW j \in DOMAIN out, out[i] = out[j] PROVE i = j
    BY <1>5, <2>1, <2>2
  <2> QED
    BY <2>2 DEF IsInjective
<1>7. \A i, j \in DOMAIN out : i < j /\ {out[i], out[j]} \subseteq lines => out[i] < out[j]
  BY <1>5
<1>8. \A i \in DOMAIN text : i \in lines <=> i \notin UNION {span(s) : s \in gone}
  <2> TAKE i \in DOMAIN text
  <2>1. i \in 1..(at - 1) /\ i > 0
    BY <1>4, <1>5
  <2>2. i \in lines <=> \A s \in gone : i \notin span(s)
    BY <1>5, <2>1
  <2>3. i \in UNION {span(s) : s \in gone} <=> \E s \in gone : i \in span(s)
    OBVIOUS
  <2> HIDE DEF lines, gone, span
  <2> QED
    BY <2>2, <2>3
<1>9. asked => \A s \in gone : ~(span(Min(target)) \subseteq span(s))
  <2> SUFFICES ASSUME asked, NEW s \in gone, span(Min(target)) \subseteq span(s) PROVE FALSE
    OBVIOUS
  <2> DEFINE t == Min(target)
  <2>1. t \in target
    <3>1. target \subseteq Nat /\ target # {}
      BY <1>1 DEF WellFormed
    <3> HIDE DEF target
    <3> QED
      BY <3>1, MinIsMember
  <2>2. t \in Symbols(g) /\ s \in Symbols(g)
    BY <2>1
  <2>3. t # NoTarget /\ held = t
    BY <1>1, <2>2 DEF WellFormed, NoTarget
  <2>4. /\ g.sym[t].line \in Nat /\ g.sym[t].end \in Nat /\ g.sym[s].line \in Nat /\ g.sym[s].end \in Nat
    BY <1>1, <2>2 DEF WellFormed
  <2> HIDE DEF t, target, held, gone
  <2>5. ~HoldsTarget(g, s, t)
    BY <1>5, <2>3
  <2>6. span(t) # {} /\ span(t) \subseteq span(s)
    BY DEF t
  <2>7. g.sym[t].line \in span(t) /\ g.sym[t].end \in span(t)
    BY <2>4, <2>6
  <2>8. g.sym[s].line <= g.sym[t].line /\ g.sym[t].end <= g.sym[s].end
    BY <2>4, <2>6, <2>7
  <2> QED
    BY <2>3, <2>5, <2>8 DEF HoldsTarget
<1> HIDE DEF lines, gone, span, target, asked
<1>10. \A s, t \in gone : s # t => span(s) \cap span(t) = {}
  BY <1>5
<1> QED
  BY <1>6, <1>7, <1>8, <1>9, <1>10 DEF SkeletonShows, lines, gone, span, target, asked, f, out, text, name

LEMMA DependenciesTell == SessionInv /\ SourceInv => DependenciesTold
<1> SUFFICES ASSUME SessionInv, SourceInv, Answered("read_symbol_source"), answer.request.dependencies
             PROVE  DependenciesTold
  BY DEF DependenciesTold
<1> DEFINE sym == answer.request.sym
           r == answer.response
           targets == {e.tgt : e \in {x \in Rows(g) : x.src = sym}}
           valued == {t \in targets : g.sym[t].kind \notin {"type", "interface"}}
           acc == DependenciesOf(g, Live, InternalDependencies(g, sym))
<1>1. WellFormed(g)
  BY DEF SessionInv, IndexInv
<1>2. r.taken = acc.taken /\ r.omitted = acc.omitted
  <2>1. r = ReadSymbolSourceTool(g, Live, sym, TRUE)
    BY DEF SourceInv, Answered
  <2> DEFINE own == [sym |-> sym, file |-> FileAt(g, sym)]
             whole == [target   |-> FetchSource(g, Live, sym),
                       taken    |-> IF TRUE THEN acc.taken ELSE <<>>,
                       omitted  |-> IF TRUE THEN acc.omitted ELSE <<>>,
                       external |-> IF TRUE THEN ExternalImports(g, own) ELSE {}]
  <2>2. ReadSymbolSourceTool(g, Live, sym, TRUE) = whole
    BY DEF ReadSymbolSourceTool, DependenciesOf
  <2>3. whole.taken = acc.taken /\ whole.omitted = acc.omitted
    <3> HIDE DEF acc, own
    <3> QED
      OBVIOUS
  <2> HIDE DEF whole, acc, sym
  <2> QED
    BY <2>1, <2>2, <2>3
<1>3. targets = Depended(g, sym) /\ targets \subseteq Symbols(g) /\ IsFiniteSet(targets)
  <2>1. targets = Depended(g, sym)
    BY DEF Depended
  <2>2. targets \subseteq Symbols(g)
    BY <1>1 DEF WellFormed
  <2>3. IsFiniteSet(Symbols(g))
    BY <1>1 DEF WellFormed
  <2> HIDE DEF targets
  <2> QED
    BY <2>1, <2>2, <2>3, FS_Subset
<1>4. Accounts(g, Live, targets, Cardinality(targets), acc)
  <2> HIDE DEF targets, sym
  <2>1. ListsOnce(InternalDependencies(g, sym), targets)
    BY <1>1, <1>3, DependenciesListed
  <2> QED
    BY <1>1, <1>3, <2>1, DependenciesAccounted
<1>5. valued = Valued(g, targets)
  BY DEF Valued, IsTypeOnly
<1> HIDE DEF r, acc, targets, valued, sym
<1>6. /\ {d.name : d \in ToSet(r.taken)} \cup ToSet(r.omitted) = {NameAt(g, t) : t \in targets}
      /\ Len(r.taken) + Len(r.omitted) = Cardinality(targets)
      /\ Len(r.taken) = AtMost(MaxDeps, Cardinality(valued))
      /\ r.taken \in Seq({DependencyOf(g, Live, t) : t \in valued})
  BY <1>2, <1>4, <1>5 DEF Accounts
<1>7. ASSUME NEW d \in ToSet(r.taken), d.sym # NoSymbol
      PROVE  \E t \in valued : <<FileAt(g, t), g.sym[t].line, g.sym[t].end>>
                                  = <<FileAt(g, d.sym), g.sym[d.sym].line, g.sym[d.sym].end>>
  <2>1. d \in {DependencyOf(g, Live, t) : t \in valued}
    BY <1>6, NarrowSeq
  <2>2. PICK t \in valued : d = DependencyOf(g, Live, t)
    BY <2>1
  <2>3. t \in Symbols(g)
    BY <1>3 DEF valued
  <2>4. /\ FileAt(g, d.sym) = FileAt(g, t)
        /\ g.sym[d.sym].line = g.sym[t].line /\ g.sym[d.sym].end = g.sym[t].end
    BY <1>1, <1>7, <2>2, <2>3, DependencyKnown
  <2> QED
    BY <2>4
<1> QED
  BY <1>6, <1>7 DEF DependenciesTold, r, targets, valued, sym

(* What read_file_skeleton and read_symbol_source leave out they account   *)
(* for: a line not shown is gone with one collapsed symbol, which does not *)
(* hold the whole target, and a dependency not taken is named.             *)
THEOREM SourcesAreTold == Spec => []SourcesTold
<1>1. Init => SourceInv /\ SkeletonInv
  BY DEF Init, NoAnswer, SourceInv, SkeletonInv
<1>2. SessionInv /\ SourceInv /\ SkeletonInv => SourcesTold
  BY SkeletonTells, DependenciesTell DEF SourcesTold
<1> QED
  BY <1>1, <1>2, SourceStep, SkeletonStepKeeps, SessionHolds, PTL DEF Spec
=============================================================================
