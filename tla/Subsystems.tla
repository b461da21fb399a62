---------------------------- MODULE Subsystems -----------------------------
(***************************************************************************)
(* The tools that answer for a part of the repository: discover_subsystem  *)
(* grows a set of seed symbols along edges while the neighbours stay       *)
(* cohesive, subsystem_communication counts the edges between two          *)
(* directories, and list_entrypoints lists the ways in.                    *)
(***************************************************************************)
EXTENDS CodeGraph, Entrypoints

CONSTANTS
    MaxHops,             \* MaxHops[scope]: hops a traversal scope allows
    MaxSubsystemFiles,   \* MAX_SUBSYSTEM_FILES
    Components,          \* Components[p]: the parts of the path of rank p
    NamePrefix           \* the pairs <<a, b>> where the text of part b extends that of a

ASSUME SubsystemAssumption ==
    /\ DOMAIN MaxHops = {"strict", "expanded", "full"} /\ \A s \in DOMAIN MaxHops : MaxHops[s] \in Nat
    /\ MaxSubsystemFiles \in Nat \ {0}

---------------------------------------------------------------------------
(* discover_subsystem. m is the match so far: symbols, files, the frontier *)
(* of the last hop, and whether the cap on files was met.                  *)

(* Every symbol with the name, kind and path of a seed is a seed.          *)
Seeds(g, hits) ==
    {s \in Symbols(g) : \E h \in hits \cap Symbols(g) :
        NameAt(g, s) = NameAt(g, h) /\ g.sym[s].kind = g.sym[h].kind /\ FileAt(g, s) = FileAt(g, h)}

Candidates(g, m) ==
    LET out == {e.tgt : e \in {r \in Rows(g) : r.src \in m.frontier}}
        in  == {e.src : e \in {r \in Rows(g) : r.tgt \in m.frontier}}
    IN  (out \cup in) \ (m.symbols \cup {NoSource})

CohesiveEdges(g, m, c) ==
    Cardinality({e \in Rows(g) : (e.src = c /\ e.tgt \in m.symbols) \/ (e.src \in m.symbols /\ e.tgt = c)})

(* The degree comes from symbol_features: 1 when the row is missing.       *)
TotalEdges(g, c) == IF c \in DOMAIN g.features THEN g.features[c].in + g.features[c].out ELSE 1
IsLocal(g, c) == c \in DOMAIN g.features /\ g.features[c].local

Cohesive(g, m, c) ==
    LET edges == CohesiveEdges(g, m, c)
        total == IF TotalEdges(g, c) > 1 THEN TotalEdges(g, c) ELSE 1
    IN  ~IsLocal(g, c) /\ (10 * edges >= 3 * total \/ edges >= 3)

FilesOf(g, symbols) == {FileAt(g, s) : s \in symbols \cap Symbols(g)}

Hop(g, m) ==
    LET joined == {c \in Candidates(g, m) : Cohesive(g, m, c)}
    IN  [m EXCEPT !.symbols = @ \cup joined, !.files = @ \cup FilesOf(g, joined), !.frontier = joined]

HopOn(g, m) ==
    CASE m.truncated \/ m.frontier = {} -> m
      [] ~m.truncated /\ m.frontier # {} /\ Cardinality(m.files) >= MaxSubsystemFiles ->
            [m EXCEPT !.truncated = TRUE]
      [] OTHER -> Hop(g, m)

Expand(g, m, hops) == FoldLeft(LAMBDA n, i : HopOn(g, n), m, UpTo(hops))

(* Mutant: the cap drops files and keeps their symbols.                    *)
KeepFiles_Symbols(g, m) ==
    IF Cardinality(m.files) <= MaxSubsystemFiles THEN m
    ELSE [m EXCEPT !.truncated = TRUE, !.files = Smallest(@, MaxSubsystemFiles)]

(* Beyond the cap the lowest file ids stay, and the symbols in them.       *)
KeepFiles(g, m) ==
    LET kept == Smallest(m.files, MaxSubsystemFiles)
    IN  IF Cardinality(m.files) <= MaxSubsystemFiles THEN m
        ELSE [m EXCEPT !.truncated = TRUE, !.files = kept,
                       !.symbols = {s \in @ \cap Symbols(g) : FileAt(g, s) \in kept}]

Dependencies(g, m) ==
    {NameAt(g, e.tgt) : e \in {r \in Rows(g) : r.file \in m.files /\ r.tgt \in Symbols(g) \ m.symbols}}

Consumers(g, m) == {e.file : e \in {r \in Rows(g) : r.tgt \in m.symbols}} \ m.files

(* Files linked by an edge, either way: the connected groups of two or     *)
(* more of them.                                                           *)
FileLinks(g, m) ==
    UNION {{<<e.file, FileAt(g, e.tgt)>>, <<FileAt(g, e.tgt), e.file>>} : e \in
        {r \in Rows(g) : r.tgt \in Symbols(g) /\ {r.file, FileAt(g, r.tgt)} \subseteq m.files
                         /\ r.file # FileAt(g, r.tgt)}}

Joined(links, group) == group \cup {l[2] : l \in {k \in links : k[1] \in group}}
Grow(links, group, files) == FoldLeft(LAMBDA c, i : Joined(links, c), group, UpTo(Cardinality(files)))

Clusters(g, m) == {c \in {Grow(FileLinks(g, m), {f}, m.files) : f \in m.files} : Cardinality(c) > 1}

(* The flag was set at index time; the class is asked for again.           *)
IsEntrypoint(g, s) == s \in DOMAIN g.features /\ g.features[s].entry
ClassOf(g, s) == ClassifyEntrypoint(NameAt(g, s), g.sym[s].kind, g.path[FileAt(g, s)], g.sym[s].attributes)

(* Whatever is not a page counts as a route here, a command line too.      *)
Entrypoints(g, symbols) == {s \in symbols \cap Symbols(g) : IsEntrypoint(g, s)}
Routes(g, symbols) == {s \in Entrypoints(g, symbols) : ClassOf(g, s) # "page"}

DiscoverSubsystem(g, hits, scope) ==
    LET seeds == Seeds(g, hits)
        grown == Expand(g, [symbols |-> seeds, files |-> FilesOf(g, seeds), frontier |-> seeds,
                            truncated |-> FALSE], MaxHops[scope])
        m     == KeepFiles(g, grown)
    IN  [symbols |-> m.symbols, matched |-> m.files, files |-> FilesOf(g, m.symbols),
         dependencies |-> Dependencies(g, m), consumers |-> Consumers(g, m),
         routes |-> {NameAt(g, s) : s \in Routes(g, m.symbols)},
         entrypoints |-> {NameAt(g, s) : s \in Entrypoints(g, m.symbols)},
         clusters |-> Clusters(g, m), truncated |-> m.truncated]

---------------------------------------------------------------------------
(* list_entrypoints: the whole index, three buckets.                       *)

ListEntrypoints(g, scope) ==
    LET found == {s \in Entrypoints(g, Symbols(g)) : FileAt(g, s) \in scope}
    IN  [total  |-> Cardinality(found),
         routes |-> {s \in found : ClassOf(g, s) \notin {"page", "cli"}},
         pages  |-> {s \in found : ClassOf(g, s) = "page"},
         cli    |-> {s \in found : ClassOf(g, s) = "cli"}]

---------------------------------------------------------------------------
(* subsystem_communication. A directory is the sequence of its parts.      *)

PathOf(g, f) == Components[g.path[f]]
Dirs(g) == {Front(PathOf(g, f)) : f \in g.files}

CommonPrefix(dirs) ==
    Max({n \in 0..Min({Len(d) : d \in dirs}) : \A d, e \in dirs : SubSeq(d, 1, n) = SubSeq(e, 1, n)})

StripPrefix(g, d) == SubSeq(d, CommonPrefix(Dirs(g)) + 1, Len(d))

ResolveDirs(g, q) ==
    LET exact == {d \in Dirs(g) : StripPrefix(g, d) = q \/ (IsSuffix(q, d) /\ Len(q) < Len(d))}
        under == {d \in Dirs(g) : IsPrefix(q, StripPrefix(g, d))}
    IN  IF exact # {} THEN exact ELSE under

(* files.path LIKE 'd%' compares text: src/api is a prefix of src/api_v2.  *)
Under(d, p) ==
    \/ d = <<>>
    \/ /\ Len(d) <= Len(p)
       /\ Front(d) = SubSeq(p, 1, Len(d) - 1)
       /\ Last(d) = p[Len(d)] \/ <<Last(d), p[Len(d)]>> \in NamePrefix

EdgesBetween(g, from, to) ==
    {e \in Rows(g) : /\ e.tgt \in Symbols(g)
                     /\ \E d \in from : Under(d, PathOf(g, e.file))
                     /\ \E d \in to : Under(d, PathOf(g, FileAt(g, e.tgt)))}

SubsystemCommunication(g, a, b) ==
    LET from == ResolveDirs(g, a)
        to   == ResolveDirs(g, b)
    IN  IF {} \in {from, to} THEN [found |-> FALSE, there |-> {}, back |-> {}]
        ELSE [found |-> TRUE, there |-> EdgesBetween(g, from, to), back |-> EdgesBetween(g, to, from)]
============================================================================
