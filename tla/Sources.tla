------------------------------ MODULE Sources ------------------------------
(***************************************************************************)
(* The tools that read source off the disk by what the index says of it:   *)
(* read_symbol_source (the library's, which compares the hash of the file  *)
(* first, and the MCP tool's, which does not), read_file_skeleton,         *)
(* read_file_snippet and find_duplicate_logic.                             *)
(*                                                                         *)
(* live[f].text is file f on disk now. Lines stand for bytes: the offsets  *)
(* of symbol s cut the lines g.sym[s].line to g.sym[s].end out of it.      *)
(***************************************************************************)
EXTENDS Lookup

CONSTANTS
    RowLimit,      \* the LIMIT on the edges whose targets are appended
    MaxDeps,       \* max_deps: dependencies the MCP tool expands
    Shape,         \* Shape[l]: what line l is normalised to
    Boilerplate,   \* the lines that mention a logger
    Comments       \* the lines that are comments

ASSUME DependencyAssumption == MaxDeps \in Nat

NoText == <<>>

Stretch(text, first, last) == SubSeq(text, first, AtMost(last, Len(text)))
SpanOf(g, s, text) == Stretch(text, g.sym[s].line, g.sym[s].end)
Fits(g, s, text) == g.sym[s].end <= Len(text)

---------------------------------------------------------------------------
(* query::retrieval: the stored offsets hold for one text only.            *)

Stale(g, live, f) == live[f] # Unreadable /\ live[f].text # g.text[f]

(* A stale source, or none at all, is marked unavailable and not shown.    *)
SourceOf(g, live, s) ==
    LET f == FileAt(g, s)
    IN  IF Stale(g, live, f) THEN NoText ELSE SpanOf(g, s, live[f].text)

Source(g, live, s, dependency) ==
    [sym |-> s, source |-> SourceOf(g, live, s), dependency |-> dependency,
     unavailable |-> SourceOf(g, live, s) = NoText]

(* The edges of the symbol, and those of its file that have no source.     *)
ReadSymbolSourceById(g, live, s, dependencies) ==
    LET edges == SelectSeq(g.edges, LAMBDA e : e.file = FileAt(g, s) /\ e.src \in {s, NoSource})
        found == SelectSeq(Truncate(edges, RowLimit), LAMBDA e : e.tgt \in Symbols(g))
    IN  CASE s \notin Symbols(g) -> <<>>
          [] s \in Symbols(g) /\ ~dependencies -> <<Source(g, live, s, FALSE)>>
          [] OTHER -> <<Source(g, live, s, FALSE)>>
                          \o [i \in DOMAIN found |-> Source(g, live, found[i].tgt, TRUE)]

(* By name the first five rows whose path holds the hint.                  *)
ReadSymbolSourceScoped(g, live, n, hint) ==
    LET rows == Smallest({s \in ExactRows(g, n) : FileAt(g, s) \in hint}, 5)
        seq  == InOrder(rows, <)
    IN  [i \in DOMAIN seq |-> Source(g, live, seq[i], FALSE)]

---------------------------------------------------------------------------
(* tools::read_symbol_source: the offsets are applied to what is on disk,  *)
(* and only a text too short for them is called stale. Of a symbol of a    *)
(* JSON file no source is read: a placeholder stands for it.               *)

IsJson(g, f) == PathTraits[g.path[f]].ext = "json"

FetchSource(g, live, s) ==
    LET f    == FileAt(g, s)
        text == live[f].text
        fits == text # NoText /\ Fits(g, s, text)
    IN  [sym |-> s, name |-> NameAt(g, s), stale |-> ~IsJson(g, f) /\ ~fits,
         source |-> IF ~IsJson(g, f) /\ fits THEN SpanOf(g, s, text) ELSE NoText]

Stub(name) == [sym |-> NoSymbol, name |-> name, stale |-> FALSE, source |-> NoText]

(* What the symbol has edges to, itself included: the most edges first.    *)
EdgeCount(g, s, t) == Cardinality({e \in Rows(g) : e.src = s /\ e.tgt = t})

InternalDependencies(g, s) ==
    LET targets == {e.tgt : e \in {r \in Rows(g) : r.src = s}} \cap Symbols(g)
    IN  InOrder(targets, LAMBDA a, b : \/ EdgeCount(g, s, a) > EdgeCount(g, s, b)
                                       \/ EdgeCount(g, s, a) = EdgeCount(g, s, b) /\ a < b)

IsTypeOnly(g, t) == g.sym[t].kind \in {"type", "interface"}

(* A dependency is looked up again by its name, without a hint.            *)
DependencyOf(g, live, t) ==
    LET r == ResolveSymbol(g, NameAt(g, t), g.files, NoLine)
    IN  IF r.kind = "symbol" THEN FetchSource(g, live, Min(r.candidates)) ELSE Stub(NameAt(g, t))

(* Mutant: what exceeds the cap is dropped.                                *)
TakeDependency_Silent(g, live, acc, t) ==
    IF IsTypeOnly(g, t) THEN [acc EXCEPT !.omitted = Append(@, NameAt(g, t))]
    ELSE IF Len(acc.taken) >= MaxDeps THEN acc
    ELSE [acc EXCEPT !.taken = Append(@, DependencyOf(g, live, t))]

TakeDependency(g, live, acc, t) ==
    IF IsTypeOnly(g, t) \/ Len(acc.taken) >= MaxDeps
    THEN [acc EXCEPT !.omitted = Append(@, NameAt(g, t))]
    ELSE [acc EXCEPT !.taken = Append(@, DependencyOf(g, live, t))]

ReadSymbolSourceTool(g, live, s, dependencies) ==
    LET none == [taken |-> <<>>, omitted |-> <<>>]
        deps == FoldLeft(LAMBDA acc, t : TakeDependency(g, live, acc, t), none, InternalDependencies(g, s))
        own  == [sym |-> s, file |-> FileAt(g, s)]
    IN  [target   |-> FetchSource(g, live, s),
         taken    |-> IF dependencies THEN deps.taken ELSE <<>>,
         omitted  |-> IF dependencies THEN deps.omitted ELSE <<>>,
         external |-> IF dependencies THEN ExternalImports(g, own) ELSE {}]

---------------------------------------------------------------------------
(* skeletonize_file: a walk over the symbols of a file by their first      *)
(* line. at is the first line not yet passed; out has the lines shown and, *)
(* where a body was, the symbol collapsed, as a negative number.           *)

NoTarget == NoSymbol

ShowTo(acc, line) == acc.out \o [i \in 1..(line - acc.at) |-> acc.at + i - 1]

HoldsTarget(g, s, target) ==
    target # NoTarget /\ g.sym[s].line <= g.sym[target].line /\ g.sym[target].end <= g.sym[s].end

Collapse(g, acc, s) ==
    [out |-> IF g.sym[s].kind = "variable" THEN ShowTo(acc, g.sym[s].end + 1)
             ELSE Append(ShowTo(acc, g.sym[s].line), 0 - s),
     at  |-> g.sym[s].end + 1]

(* Mutant: a symbol within one already collapsed is not passed over.       *)
SkeletonStep_Nested(g, target, acc, s) ==
    IF HoldsTarget(g, s, target) THEN acc ELSE Collapse(g, acc, s)

(* Nested symbols go with the one around them; one that holds the target   *)
(* stays open, so that what is nested in the target itself is collapsed.   *)
SkeletonStep(g, target, acc, s) ==
    IF g.sym[s].line < acc.at \/ HoldsTarget(g, s, target) THEN acc ELSE Collapse(g, acc, s)

SkeletonError == [ok |-> FALSE, out |-> <<>>]

(* target is a name, or NoTarget: the first symbol of the file with it.    *)
SkeletonizeFile(g, live, f, name) ==
    LET rows   == {s \in Symbols(g) : FileAt(g, s) = f}
        named  == {s \in rows : NameAt(g, s) = name}
        target == IF name = NoTarget THEN NoTarget ELSE Min(named)
        order  == InOrder(rows, LAMBDA a, b : \/ g.sym[a].line < g.sym[b].line
                                              \/ g.sym[a].line = g.sym[b].line /\ a < b)
        walk   == FoldLeft(LAMBDA acc, s : SkeletonStep(g, target, acc, s), [out |-> <<>>, at |-> 1], order)
    IN  IF live[f] = Unreadable \/ Stale(g, live, f) \/ (name # NoTarget /\ named = {})
        THEN SkeletonError
        ELSE [ok |-> TRUE, out |-> ShowTo(walk, Len(live[f].text) + 1)]

---------------------------------------------------------------------------
(* read_file_snippet: the range is checked, its end is clamped.            *)

ReadSnippet(text, first, last) ==
    IF text = NoText \/ first = 0 \/ first > Len(text) \/ last < first
    THEN [ok |-> FALSE, first |-> 0, last |-> 0, source |-> NoText]
    ELSE [ok |-> TRUE, first |-> first, last |-> AtMost(last, Len(text)),
          source |-> Stretch(text, first, last)]

---------------------------------------------------------------------------
(* find_duplicate_logic: symbols whose lines, cut out of the file as it is *)
(* now, are the same once normalised.                                      *)

(* A body that mentions a logger is compared as it stands.                 *)
Normalize(body) ==
    IF ToSet(body) \cap Boilerplate # {} THEN [verbatim |-> TRUE, text |-> body]
    ELSE LET code == SelectSeq(body, LAMBDA l : l \notin Comments)
         IN  [verbatim |-> FALSE, text |-> [i \in DOMAIN code |-> Shape[code[i]]]]

Scanned(g, live, min, scope) ==
    {s \in Symbols(g) :
        LET text == live[FileAt(g, s)].text
        IN  /\ g.sym[s].kind \notin {"import", "jsx_element"} /\ FileAt(g, s) \in scope
            /\ text # NoText /\ Fits(g, s, text)
            /\ Len(SpanOf(g, s, text)) >= min}

BodyOf(g, live, s) == SpanOf(g, s, live[FileAt(g, s)].text)
SameLogic(g, live, s, t) == Normalize(BodyOf(g, live, s)) = Normalize(BodyOf(g, live, t))

(* A group has the length of its first member, comments counted.           *)
DuplicateGroups(g, live, scanned) ==
    LET like(s) == {t \in scanned : SameLogic(g, live, s, t)}
    IN  {[members |-> like(s), length |-> Len(BodyOf(g, live, Min(like(s))))]
            : s \in {t \in scanned : Cardinality(like(t)) > 1}}

(* Groups of one length come out of a hash table in any order.             *)
FindDuplicateLogic(g, live, min, scope, limit) ==
    LET scanned == Scanned(g, live, min, scope)
        groups  == DuplicateGroups(g, live, scanned)
    IN  {[scanned |-> Cardinality(scanned), found |-> Cardinality(groups), groups |-> r] :
            r \in {q \in [1..AtMost(limit, Cardinality(groups)) -> groups] :
                      /\ \A i, j \in DOMAIN q : i < j => q[i] # q[j] /\ q[i].length >= q[j].length
                      /\ \A k \in groups \ ToSet(q), i \in DOMAIN q : k.length <= q[i].length}}
============================================================================
