------------------------- MODULE ReindexRefinement -------------------------
(***************************************************************************)
(* Reindex implements FileIndex.  The index of FileIndex is read off the   *)
(* content_hash column; a call of FileIndex lasts as long as reindex_paths *)
(* reads files, up to its first transaction.  The later steps of the call, *)
(* which write states, edges and features, must leave the index alone.     *)
(* The contents seen by a call are history, kept by a variable that no     *)
(* action of Reindex reads.                                                *)
(***************************************************************************)
EXTENDS Reindex

VARIABLE seen

Watching(phase, paths, p) == phase = "reading" /\ p \in paths

SeenInit == seen = [w \in Process |-> [p \in Path |-> {}]]

SeenNext ==
    seen' = [w \in Process |-> [p \in Path |->
                IF ~Watching(pc'[w], batch'[w], p) THEN {}
                ELSE {disk'[p]} \union
                     (IF Watching(pc[w], batch[w], p) THEN seen[w][p] ELSE {})]]

HInit == Init /\ SeenInit
HNext == Next /\ SeenNext
HSpec == HInit /\ [][HNext]_<<vars, seen>>
FairHSpec == HSpec /\ Fairness

(* The content a path is indexed as: the hash of its row *)
IndexedAs(p) ==
    IF \E row \in db.files : PathOf(row.id) = p
    THEN (CHOOSE row \in db.files : PathOf(row.id) = p).hash
    ELSE NoContent

FI == INSTANCE FileIndex WITH
        index   <- [p \in Path |-> IndexedAs(p)],
        calling <- [w \in Process |-> IF pc[w] = "reading" THEN batch[w] ELSE {}]

(* Whatever processes interleave, fail or crash, what the index says of a     *)
(* path was true at some moment of the call that wrote it, a call records all *)
(* of its files or none, and no other step of reindex_paths (linking,         *)
(* interactions, features) changes what the index says.                       *)
ImplementsFileIndex == FI!Spec
=============================================================================
