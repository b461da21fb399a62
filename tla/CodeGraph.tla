----------------------------- MODULE CodeGraph -----------------------------
(***************************************************************************)
(* The rows of an index as the query tools read them, and the two tools    *)
(* that look one edge deep: the context of a symbol (callers, callees,     *)
(* dependencies, siblings ...) packed into the item budget of a response   *)
(* profile, and the ranking of hotspots.                                   *)
(*                                                                         *)
(* A graph g is one snapshot of the database:                              *)
(*   g.files     the ids of files, g.path[f] the rank of f's path          *)
(*   g.text[f]   the text f was indexed from, which its hash stands for    *)
(*   g.sym[s]    the row of symbol s: name, file, kind, attributes, and    *)
(*               the lines it spans, line to end, for its bytes too        *)
(*   g.edges     the rows of edges in rowid order; src is NoSource for an  *)
(*               edge no symbol encloses, sure says confidence >= 0.5      *)
(*   g.rels      the rows of relationships: file, name, kind, local        *)
(*   g.features  the rows of symbol_features, for some of the symbols      *)
(* Names are numbers, so that a sorted list of names is the set of them.   *)
(* A path scope is the set of the files it matches.                        *)
(***************************************************************************)
EXTENDS Integers, SequencesExt, FiniteSetsExt

CONSTANTS
    MaxItems,      \* MaxItems[p]: items a response of profile p may list
    PropsNames     \* PropsNames[n]: the names that read "<n>Props"

ASSUME BudgetAssumption == DOMAIN MaxItems = {"compact", "standard", "verbose"}

NoSource == 0
NoSymbol == 0

(* The rows a test holds of, in their order, and the first n numbers.      *)
Which(Test(_), rows) == FoldLeft(LAMBDA found, e : IF Test(e) THEN Append(found, e) ELSE found, <<>>, rows)
UpTo(n) == [i \in 1..n |-> i]

(* The members of S as Before orders them, each where it ranks: what       *)
(* SetToSortSeq gives, but sorted by a definition the provers can expand.  *)
InOrder(S, Before(_, _)) ==
    [i \in 1..Cardinality(S) |-> CHOOSE x \in S : Cardinality({y \in S : Before(y, x)}) = i - 1]

Symbols(g) == DOMAIN g.sym
Rows(g) == ToSet(g.edges)
NameAt(g, s) == g.sym[s].name
FileAt(g, s) == g.sym[s].file

(* What the schema and the parser keep: ids are positive, a symbol is in a *)
(* file, on lines or on none (one of a package.json, before line 1), an    *)
(* edge is in a file, both its ends are symbols and its source is in the   *)
(* file of the edge.                                                       *)
WellFormed(g) ==
    /\ DOMAIN g = {"files", "path", "sym", "edges", "text", "rels", "features", "concepts"}
    /\ IsFiniteSet(Symbols(g)) /\ Symbols(g) \subseteq Nat \ {NoSymbol}
    /\ IsFiniteSet(g.files) /\ g.files \subseteq Nat \ {0}
    /\ g.edges \in Seq(Rows(g))
    /\ \A s \in Symbols(g) : /\ FileAt(g, s) \in g.files
          /\ g.sym[s].line \in Nat \ {0} /\ g.sym[s].end \in Nat /\ g.sym[s].line <= g.sym[s].end + 1
    /\ \A f \in g.files : g.text[f] \in Seq(ToSet(g.text[f]))
    /\ \A e \in Rows(g) :
          /\ DOMAIN e = {"file", "src", "tgt", "kind", "sure"}
          /\ e.file \in g.files /\ e.tgt \in Symbols(g)
          /\ e.src = NoSource \/ (e.src \in Symbols(g) /\ FileAt(g, e.src) = e.file)

CanonicalDependencyEdges ==
    {"calls", "imports", "interaction", "component_use", "type_ref", "global_ref",
     "new_call", "extends", "implements", "inherits", "instantiates", "re_export"}

NonCallEdges == CanonicalDependencyEdges \ {"calls"}

ReceiverResolvedEdges == {"method_call", "MEMBER_ACCESS"}

(* MIN_CONFIDENCE_FOR_RECEIVER_EDGES *)
Sure(rows) == {e \in rows : e.sure}

---------------------------------------------------------------------------
(* One edge deep: the names at the other end, never the symbol itself.     *)

OutRowsOf(g, s, kinds) == {e \in Rows(g) : e.src = s /\ e.kind \in kinds /\ e.tgt # s}
InRowsOf(g, s, kinds) ==
    {e \in Rows(g) : e.tgt = s /\ e.kind \in kinds /\ e.src \notin {s, NoSource}}

TargetNames(g, rows) == {NameAt(g, e.tgt) : e \in {r \in rows : r.tgt \in Symbols(g)}}
SourceNames(g, rows) == {NameAt(g, e.src) : e \in {r \in rows : r.src \in Symbols(g)}}

GetOutgoingEdges(g, s, kinds) == TargetNames(g, OutRowsOf(g, s, kinds))
GetOutgoingEdgesMinConfidence(g, s, kinds) == TargetNames(g, Sure(OutRowsOf(g, s, kinds)))
GetIncomingEdges(g, s, kinds) == SourceNames(g, InRowsOf(g, s, kinds))
(* Mutant: callers are not filtered by confidence, callees are.            *)
GetIncomingEdgesMinConfidence_Any(g, s, kinds) == SourceNames(g, InRowsOf(g, s, kinds))

GetIncomingEdgesMinConfidence(g, s, kinds) == SourceNames(g, Sure(InRowsOf(g, s, kinds)))

---------------------------------------------------------------------------
(* The context of a symbol. A context c has the symbol's id (NoSymbol when *)
(* only a file matched the name), its file and its name.                   *)

NoContext == [sym |-> NoSymbol, file |-> 0, name |-> 0]

ContextById(g, s) ==
    IF s \in Symbols(g) THEN [sym |-> s, file |-> FileAt(g, s), name |-> NameAt(g, s)]
    ELSE NoContext

(* By name the first row in scope, else the first file whose path holds    *)
(* the name; named is the set of those files.                              *)
ContextByName(g, n, scope, named) ==
    LET rows == {s \in Symbols(g) : NameAt(g, s) = n /\ FileAt(g, s) \in scope}
    IN  CASE rows # {} -> ContextById(g, Min(rows))
          [] rows = {} /\ named # {} -> [sym |-> NoSymbol, file |-> Min(named), name |-> n]
          [] OTHER -> NoContext

ReverseDependencies(g, c) ==
    GetIncomingEdges(g, c.sym, NonCallEdges)
        \cup GetIncomingEdgesMinConfidence(g, c.sym, {"MEMBER_ACCESS"})

ForwardDependencies(g, c) ==
    GetOutgoingEdges(g, c.sym, NonCallEdges)
        \cup GetOutgoingEdgesMinConfidence(g, c.sym, {"MEMBER_ACCESS"})

Callers(g, c) ==
    GetIncomingEdges(g, c.sym, {"calls"})
        \cup GetIncomingEdgesMinConfidence(g, c.sym, ReceiverResolvedEdges)

Callees(g, c) ==
    GetOutgoingEdges(g, c.sym, {"calls"})
        \cup GetOutgoingEdgesMinConfidence(g, c.sym, ReceiverResolvedEdges)

FirstNamed(g, n) == Min({s \in Symbols(g) : NameAt(g, s) = n})

(* A caller is looked up again by its name: it counts as in the file when  *)
(* the first symbol of that name is.                                       *)
SameFileCallers(g, c) == {n \in Callers(g, c) : FileAt(g, FirstNamed(g, n)) = c.file}

Siblings(g, c) ==
    {NameAt(g, s) : s \in {t \in Symbols(g) : FileAt(g, t) = c.file}} \ {c.name}

ExternalImports(g, c) == {r.name : r \in {r \in g.rels : r.file = c.file /\ ~r.local}}

WrappedBy(g, c) == GetIncomingEdges(g, c.sym, {"wraps_route"})
RendersComponents(g, c) == GetOutgoingEdges(g, c.sym, {"renders_component"})

ConsumesHooks(g, c) ==
    GetOutgoingEdges(g, c.sym, {"consumes_hook"})
        \cup {r.name : r \in {r \in g.rels : r.file = c.file /\ r.kind = "consumes_hook"}}

(* For each row with a props name every source of that name in the file is *)
(* read: two rows of one name give four results.                           *)
PropInterfaces(g, c) ==
    LET mine == {s \in Symbols(g) : FileAt(g, s) = c.file /\ NameAt(g, s) \in PropsNames[c.name]}
    IN  {p \in mine \X mine : NameAt(g, p[1]) = NameAt(g, p[2])}

---------------------------------------------------------------------------
(* Packing lists into the budget: TokenBudget::consume.                    *)

Smallest(S, n) == {x \in S : Cardinality({y \in S : y < x}) < n}
AtMost(a, b) == IF a < b THEN a ELSE b

EmptyResponse == [used |-> 0, lists |-> <<>>]

(* The closure insert_vec, or push_list, over one list.                    *)
InsertVec(max, key, items, response) ==
    LET kept == AtMost(Cardinality(items), max - response.used)
    IN  IF kept = 0 THEN response
        ELSE [used  |-> response.used + kept,
              lists |-> Append(response.lists,
                            [key |-> key, kept |-> Smallest(items, kept),
                             more |-> Cardinality(items) - kept])]

InsertProps(max, pairs, response) ==
    LET cost == 5 * Cardinality(pairs)
    IN  IF pairs = {} \/ response.used + cost > max THEN response
        ELSE [used  |-> response.used + cost,
              lists |-> Append(response.lists, [key |-> "prop_interfaces", kept |-> pairs, more |-> 0])]

ListOf(g, c, key) ==
    CASE key = "reverse_dependencies" -> ReverseDependencies(g, c)
      [] key = "forward_dependencies" -> ForwardDependencies(g, c)
      [] key = "callers"              -> Callers(g, c)
      [] key = "callees"              -> Callees(g, c)
      [] key = "same_file_callers"    -> SameFileCallers(g, c)
      [] key = "external_imports"     -> ExternalImports(g, c)
      [] key = "siblings"             -> Siblings(g, c)
      [] key = "wrapped_by"           -> WrappedBy(g, c)
      [] key = "renders_components"   -> RendersComponents(g, c)
      [] key = "consumes_hooks"       -> ConsumesHooks(g, c)

(* The order in which the lists draw on the budget.                        *)
Pack(g, c, profile, standard, verbose) ==
    LET max  == MaxItems[profile]
        keys == CASE profile = "compact"  -> <<>>
                  [] profile = "standard" -> standard
                  [] profile = "verbose"  -> standard \o verbose
        full == FoldLeft(LAMBDA r, k : InsertVec(max, k, ListOf(g, c, k), r), EmptyResponse, keys)
    IN  IF profile = "verbose" THEN InsertProps(max, PropInterfaces(g, c), full) ELSE full

(* Only the Markdown says how many items of a list were left out.          *)
BuildJson(g, c, profile) ==
    LET full == Pack(g, c, profile,
                     <<"reverse_dependencies", "forward_dependencies", "callers", "callees",
                       "same_file_callers">>,
                     <<"external_imports", "siblings", "wrapped_by", "renders_components", "consumes_hooks">>)
    IN  [full EXCEPT !.lists = [i \in DOMAIN @ |-> [key |-> @[i].key, kept |-> @[i].kept]]]

BuildMarkdown(g, c, profile) ==
    Pack(g, c, profile,
         <<"callers", "callees", "same_file_callers", "reverse_dependencies", "forward_dependencies">>,
         <<"wrapped_by", "renders_components", "consumes_hooks", "external_imports", "siblings">>)

---------------------------------------------------------------------------
(* architectural_hotspots: rows are counted, not neighbours.               *)

IncomingCount(g, s) == Cardinality({e \in Rows(g) : e.tgt = s /\ e.kind \in CanonicalDependencyEdges})
OutgoingCount(g, s) == Cardinality({e \in Rows(g) : e.src = s /\ e.kind \in CanonicalDependencyEdges})
HotspotScore(g, s) == 3 * IncomingCount(g, s) + OutgoingCount(g, s)

Classification(incoming) ==
    CASE incoming > 20 -> "critical"
      [] incoming \in 11..20 -> "important"
      [] OTHER -> "normal"

HotspotNode(g, s) ==
    [sym |-> s, file |-> FileAt(g, s), incoming |-> IncomingCount(g, s),
     outgoing |-> OutgoingCount(g, s), score |-> HotspotScore(g, s),
     class |-> Classification(IncomingCount(g, s))]

(* The sort of nodes is stable over the order of rows.                     *)
HotterNode(a, b) ==
    \/ a.score > b.score
    \/ a.score = b.score /\ a.incoming > b.incoming
    \/ a.score = b.score /\ a.incoming = b.incoming
       /\ \/ a.incoming + a.outgoing > b.incoming + b.outgoing
          \/ a.incoming + a.outgoing = b.incoming + b.outgoing /\ a.sym < b.sym

FileHotspot(f, nodes) ==
    LET mine == {n \in nodes : n.file = f}
    IN  [file |-> f, count |-> Cardinality(mine),
         incoming |-> MapThenSumSet(LAMBDA n : n.incoming, mine),
         outgoing |-> MapThenSumSet(LAMBDA n : n.outgoing, mine),
         score |-> MapThenSumSet(LAMBDA n : n.score, mine)]

HotterFile(g, a, b) ==
    \/ a.score > b.score
    \/ a.score = b.score /\ a.incoming > b.incoming
    \/ a.score = b.score /\ a.incoming = b.incoming /\ g.path[a.file] < g.path[b.file]

Truncate(seq, limit) == SubSeq(seq, 1, AtMost(limit, Len(seq)))

ArchitecturalHotspots(g, limit, scope) ==
    LET nodes == {HotspotNode(g, s) : s \in {t \in Symbols(g) : FileAt(g, t) \in scope}}
        files == {FileHotspot(f, nodes) : f \in {n.file : n \in nodes}}
    IN  [total |-> Cardinality(nodes),
         edges |-> Cardinality({e \in Rows(g) : e.file \in scope}),
         top   |-> Truncate(InOrder(nodes, HotterNode), limit),
         files |-> Truncate(InOrder(files, LAMBDA a, b : HotterFile(g, a, b)), limit)]
============================================================================
