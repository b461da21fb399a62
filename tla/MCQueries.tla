----------------------------- MODULE MCQueries -----------------------------
(* Two files of two symbols each: <src/api/one> has symbols 1 and 2, <src/  *)
(* api_v2/two> has 3 and 4; 1 and 4 share a name. Every choice of at most   *)
(* MCEdges of twelve edges is an index to start from.                       *)
EXTENDS QueryRules

CONSTANT MCEdges

MCSym(name, file, line, end, kind, attributes) ==
    [name |-> name, file |-> file, line |-> line, end |-> end, kind |-> kind, attributes |-> attributes]

(* Symbol 1 is a decorated route, 2 the component of a page file, 3 a route *)
(* by its kind and 4 a main function.                                      *)
MCSymbols ==
    << MCSym(1, 1, 1, 4, "function", {"get", "staticmethod"}), MCSym(2, 1, 5, 6, "method", {}),
       MCSym(3, 2, 1, 9, "route", {}), MCSym(1, 2, 3, 5, "function", {"property"}) >>

MCPathTraits ==
    << [ext |-> "tsx", stem |-> "page", app |-> TRUE, pages |-> FALSE, api |-> FALSE, main |-> FALSE],
       [ext |-> "py", stem |-> "two", app |-> FALSE, pages |-> FALSE, api |-> FALSE, main |-> FALSE] >>

MCEdge(file, src, tgt, kind, sure) == [file |-> file, src |-> src, tgt |-> tgt, kind |-> kind, sure |-> sure]

MCPool ==
    << MCEdge(1, 1, 2, "calls", TRUE), MCEdge(1, 2, 3, "imports", TRUE), MCEdge(2, 3, 1, "calls", TRUE),
       MCEdge(1, 1, 3, "type_ref", TRUE), MCEdge(1, 1, 1, "calls", TRUE), MCEdge(1, 1, 2, "imports", TRUE),
       MCEdge(2, 3, 2, "method_call", TRUE), MCEdge(2, 4, 2, "MEMBER_ACCESS", FALSE),
       MCEdge(2, NoSource, 1, "imports", TRUE), MCEdge(1, NoSource, 3, "imports", TRUE),
       MCEdge(1, NoSource, 2, "imports", TRUE), MCEdge(2, 4, 3, "renders_component", TRUE) >>

(* What file 1 reads on disk; it was indexed from that, or from a longer    *)
(* text. A 10 is a comment, a 9 normalises to an 8.                        *)
MCText == <<8, 9, 8, 8, 9, 10>>
MCOlder == <<8, 9, 8, 8, 9, 10, 8, 8, 8>>
MCIndexed(sym) == << IF \E s \in DOMAIN sym : sym[s].file = 1 /\ sym[s].end > 6 THEN MCOlder ELSE MCText,
                     MCOlder >>

MCIndex(sym, edges, features) ==
    [files |-> {1, 2}, path |-> <<1, 2>>, sym |-> sym, edges |-> edges, text |-> MCIndexed(sym),
     rels |-> {[file |-> 1, name |-> 7, kind |-> "consumes_hook", local |-> FALSE],
               [file |-> 2, name |-> 7, kind |-> "imports", local |-> FALSE]},
     features |-> [s \in DOMAIN features |->
                      [features[s] EXCEPT !.entry =
                          ClassifyEntrypoint(sym[s].name, sym[s].kind, sym[s].file, sym[s].attributes) # "none"]],
     concepts |-> {}]

MCChosen(indexes) ==
    LET order == SetToSortSeq(indexes, <) IN [i \in DOMAIN order |-> MCPool[order[i]]]

MCFeature(in, out, local) ==
    [in |-> in, out |-> out, local |-> local, entry |-> FALSE, callable |-> TRUE, pagerank |-> 10 * in]

(* The features of symbols 1 to 3; those of 4 were never written.          *)
MCFeatures == <<MCFeature(1, 1, FALSE), MCFeature(4, 4, FALSE), MCFeature(1, 0, TRUE)>>
MCAllFeatures == <<MCFeature(0, 0, FALSE), MCFeature(0, 2, FALSE), MCFeature(1, 0, FALSE), MCFeature(2, 0, FALSE)>>

MCEdgeSets == UNION {kSubset(n, DOMAIN MCPool) : n \in 0..MCEdges}
MCWith(indexes) == MCIndex(MCSymbols, MCChosen(indexes), MCFeatures)

(* Symbols of one name in one file; the same range twice; tagged symbols.  *)
MCTwice == [MCSymbols EXCEPT ![2] = MCSym(1, 1, 5, 9, "function", {})]
MCSame == [MCSymbols EXCEPT ![2] = MCSym(1, 1, 1, 4, "class", {}),
                              ![4] = MCSym(1, 2, 1, 4, "function", {})]
(* One symbol within another; an interface and a variable.                 *)
MCNested == [MCSymbols EXCEPT ![1] = MCSym(1, 1, 2, 6, "function", {}), ![2] = MCSym(2, 1, 4, 5, "method", {}),
                                ![3] = MCSym(3, 2, 1, 9, "interface", {}), ![4] = MCSym(4, 1, 1, 1, "variable", {})]
MCUntagged ==
    { MCIndex(sym, MCChosen({1, 2, 4, 6, 7}), features) :
        sym \in {MCSymbols, MCTwice, MCSame, MCNested}, features \in {MCFeatures, MCAllFeatures} }
MCLookups == MCUntagged \cup {[graph EXCEPT !.concepts = TagConcepts(graph)] : graph \in MCUntagged}

MCContended == {MCWith(s) : s \in {{1, 2, 3}, {1, 3, 9}, {1, 2, 7}, {1, 7, 8}, {2, 3}, {1, 2}, {3, 5}, {8, 12}, {2, 3, 8, 12}}}
MCGraphs == {MCWith(s) : s \in MCEdgeSets} \cup MCLookups \cup MCContended

(* Texts: the names 1 to 3; 4 is 1 in capitals; 5 a concept, and also the   *)
(* directory api; 6 is the file one.                                        *)
MCTexts == 1..6
MCLower == <<1, 2, 3, 1, 5, 6, 7>>
MCParts == << <<"x">>, <<"y">>, <<"z">>, <<"X">>, <<"api">>, <<"one">> >>
MCComponents == << <<"src", "api", "one">>, <<"src", "api_v2", "two">> >>
MCNamePrefix == {<<"api", "api_v2">>}
MCKeywords == 5 :> [terms |-> {6}, names |-> {1, 2}, paths |-> {2}]
MCAliasOf == <<1, 2, 3, 4, 2, 6>>

(* Rows: texts; columns: names 1 to 7, or paths 1 and 2.                    *)
MCNameLikeness ==
    << <<1000, 100, 0, 0, 0, 0, 0>>, <<100, 1000, 0, 0, 0, 0, 0>>, <<0, 0, 1000, 0, 0, 0, 0>>,
       <<900, 0, 0, 0, 0, 0, 0>>, <<0, 100, 300, 0, 0, 0, 0>>, <<0, 0, 0, 0, 0, 0, 0>> >>
MCPathLikeness == << <<0, 0>>, <<0, 0>>, <<0, 0>>, <<0, 0>>, <<100, 50>>, <<200, 0>> >>
MCFileLikeness == << <<0, 0>>, <<0, 0>>, <<0, 0>>, <<0, 0>>, <<250, 100>>, <<800, 0>> >>
MCPathBoost == <<50, -120>>
MCFileName == <<6, 7>>

MCMaxItems == [compact |-> 1, standard |-> 3, verbose |-> 7]
MCPropsNames == [n \in 1..7 |-> IF n = 2 THEN {1} ELSE {}]
MCMaxHops == [strict |-> 0, expanded |-> 1, full |-> 2]

(* Lines 2 and 4 of file 1 match every text; file 2 cannot be read.         *)
MCLive == << [text |-> MCText, hits |-> {2, 4}], Unreadable >>
MCShape == [l \in 8..11 |-> IF l = 9 THEN 8 ELSE l]

(* Symbol 1 fetches a route of file 2, symbol 2 one that no file serves.    *)
MCSlices(graph) ==
    [s \in Symbols(graph) |-> CASE s \in {1, 11} -> << {}, {2} >> [] s = 2 -> << {} >> [] OTHER -> <<>>]

MCNewId(s) == s + 10
MCHints == {{1, 2}, {1}, {2}, {}}
============================================================================
