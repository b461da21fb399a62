----------------------------- MODULE FileIndex -----------------------------
(***************************************************************************)
(* What incremental reindexing promises, without the database: an index    *)
(* that says of each path which content it was indexed as.  A call names   *)
(* paths and, later and in one step, records for each of them a content    *)
(* the file really had at some moment of the call; or it is given up and   *)
(* records nothing.  Calls of several processes overlap with each other    *)
(* and with edits.                                                         *)
(***************************************************************************)
EXTENDS Naturals

CONSTANTS Path, Content, Parses, NoContent, Process

VARIABLES
    disk,     \* disk[p]: what file p contains
    index,    \* index[p]: the content p is indexed as
    calling,  \* calling[w]: the paths of w's call, {} when it has none
    seen      \* seen[w][p]: contents p had since the call began

vars == <<disk, index, calling, seen>>

(* A file no frontend parses is not in the index *)
Recorded(c) == IF c \in Parses THEN c ELSE NoContent

Unseen == [p \in Path |-> {}]

Init ==
    /\ disk \in [Path -> Content \union {NoContent}]
    /\ index = [p \in Path |-> Recorded(disk[p])]
    /\ calling = [w \in Process |-> {}]
    /\ seen = [w \in Process |-> Unseen]

Edit(p, c) ==
    /\ disk' = [disk EXCEPT ![p] = c]
    /\ seen' = [w \in Process |->
                  IF p \in calling[w] THEN [seen[w] EXCEPT ![p] = @ \union {c}]
                  ELSE seen[w]]
    /\ UNCHANGED <<index, calling>>

Begin(w, ps) ==
    /\ calling[w] = {}
    /\ calling' = [calling EXCEPT ![w] = ps]
    /\ seen' = [seen EXCEPT ![w] =
                  [p \in Path |-> IF p \in ps THEN {disk[p]} ELSE {}]]
    /\ UNCHANGED <<disk, index>>

End(w) ==
    /\ calling[w] # {}
    /\ calling' = [calling EXCEPT ![w] = {}]
    /\ seen' = [seen EXCEPT ![w] = Unseen]
    /\ UNCHANGED disk

(* A snapshot of the call's files, each as it was at some moment of it *)
Snapshots(w) ==
    {snap \in [calling[w] -> Content \union {NoContent}] :
        \A p \in calling[w] : snap[p] \in seen[w][p]}

Commit(w) ==
    /\ \E snap \in Snapshots(w) :
         index' = [p \in Path |-> IF p \in calling[w] THEN Recorded(snap[p])
                                  ELSE index[p]]
    /\ End(w)

Abandon(w) == End(w) /\ UNCHANGED index

Next ==
    \/ \E p \in Path, c \in Content \union {NoContent} : Edit(p, c)
    \/ \E w \in Process :
         \/ \E ps \in SUBSET Path : Begin(w, ps)
         \/ Commit(w)
         \/ Abandon(w)

Spec == Init /\ [][Next]_vars
=============================================================================
