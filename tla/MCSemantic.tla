----------------------------- MODULE MCSemantic -----------------------------
(* One file defines names 1 and 2 in its first text and only 2 in its       *)
(* second. The offsets of 1 cut the same out of either text, those of 2     *)
(* something else (9) out of the other text.                                *)
EXTENDS Semantic

MCNames(f, v) == IF v = 1 THEN {1, 2} ELSE {2}
MCSlice(n, p, v) == CASE n = 1 -> 10 [] n # 1 /\ p = v -> 10 * n + v [] OTHER -> 9
============================================================================
