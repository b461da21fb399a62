----------------------------- MODULE MCReindex -----------------------------
(***************************************************************************)
(* A repository small enough for TLC: two files; contents that define a   *)
(* symbol, refer to it, do both, and one no frontend parses.  The second   *)
(* file is a component, whose template is missing or binds caller.         *)
(***************************************************************************)
EXTENDS Reindex

CONSTANTS pA, pB, wOne, wTwo, lib, consumer, both, broken, page, helper, caller

MCPath == {pA, pB}
MCRank == [p \in MCPath |-> IF p = pA THEN 1 ELSE 2]
MCName == {helper, caller}
MCContent == {lib, consumer, both, broken}
MCParses == {lib, consumer, both}

(* lib defines helper; consumer defines caller, whose body refers to helper; *)
(* both is a consumer with a helper of its own.                              *)
MCDefs == [c \in MCContent |->
    CASE c = lib -> {helper} [] c = consumer -> {caller}
      [] c = both -> {helper, caller} [] OTHER -> {}]
MCRefs == [c \in MCContent |->
    IF c \in {consumer, both} THEN {<<helper, caller>>} ELSE {}]

(* page binds an event to caller, in its first line; it is helper that has   *)
(* lines of so small a number where it is defined.                           *)
MCComponent == {pB}
MCTemplate == {page}
MCBound == [c \in MCContent |-> [t \in MCTemplate |->
    {<<caller, IF helper \in MCDefs[c] THEN helper ELSE NoSymbol>>}]]

(* As a route: helper is named by an HTTP literal of consumer *)
MCLiterals == [c \in MCContent |->
    IF c = consumer THEN {helper} \intersect Routes ELSE {}]

(* A helper and a consumer of it, or the helper alone *)
MCDisks == {[p \in MCPath |-> IF p = pA THEN lib ELSE consumer],
            [p \in MCPath |-> IF p = pA THEN lib ELSE NoContent]}

(* The first of them alone *)
MCOneDisk == {[p \in MCPath |-> IF p = pA THEN lib ELSE consumer]}

=============================================================================
