------------------------ MODULE MCReindexRefinement ------------------------
(***************************************************************************)
(* ReindexRefinement over the repository of MCReindex.                     *)
(***************************************************************************)
EXTENDS MCReindex, ReindexRefinement
=============================================================================
