--------------------------- MODULE MCInitPublish ---------------------------
(***************************************************************************)
(* InitPublish for TLC: two files, two contents that parse and one that    *)
(* does not.                                                               *)
(***************************************************************************)
EXTENDS InitPublish

CONSTANTS pA, pB, one, two, broken, sOne

MCPath == {pA, pB}
MCContent == {one, two, broken}
MCDisks == {[p \in MCPath |-> one], [p \in MCPath |-> IF p = pA THEN one ELSE NoContent]}
=============================================================================
