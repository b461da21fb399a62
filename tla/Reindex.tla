------------------------------ MODULE Reindex ------------------------------
(***************************************************************************)
(* Incremental reindexing: indexer::reindex::reindex_paths, run by several *)
(* processes (MCP sessions and their detached `codebroker` children, the   *)
(* command line) on one database while the user edits the files.           *)
(*                                                                         *)
(* reindex_paths is not one transaction.  It reads and parses the files,   *)
(* replaces their rows in a first transaction, then reads relationships    *)
(* and symbols in separate statements, writes the relationship states in a *)
(* second transaction, the edges in a third, the interaction edges in one  *)
(* implicit transaction each, and the features, computed from two more     *)
(* reads, in a fourth.  Every such point is an action here, so processes   *)
(* interleave wherever SQLite lets them.                                   *)
(*                                                                         *)
(* MaxEdits, MaxRequests, MaxFaults and MaxLosses bound the user's edits,  *)
(* the explicit requests, the faults and the transactions that lose        *)
(* inserts; the automatic reindexing of stale files is not bounded.        *)
(***************************************************************************)
EXTENDS IndexDb

CONSTANTS
    Process,      \* the sessions that reindex
    Rank,         \* order of the paths
    Disks,        \* disk images a behaviour may start from
    ScanLimit,    \* rows get_stale_files looks at (2000 in the MCP server)
    MaxEdits,     \* edits of the user in a behaviour
    MaxRequests,  \* explicit reindex requests in a behaviour
    MaxFaults,    \* crashes and failed transactions in a behaviour
    MaxLosses     \* transactions that commit without some of their inserts

ASSUME ReindexAssumption ==
    /\ Rank \in [Path -> Nat]
    /\ Disks \subseteq [Path -> Content \union {NoContent}]
    /\ ScanLimit \in Nat
    /\ MaxEdits \in Nat
    /\ MaxRequests \in Nat
    /\ MaxFaults \in Nat
    /\ MaxLosses \in Nat

VARIABLES
    disk,      \* disk[p]: content of p, NoContent when there is no file
    template,  \* template[p]: content of the .html beside component p
    db,        \* the database file
    gen,       \* number of the last committed replacement of file rows
    pc,        \* where each process is in reindex_paths
    batch,     \* changed_paths of the call
    unread,    \* paths of the batch not read yet
    parsed,    \* what the others were parsed as
    unbound,   \* components parsed, whose template is not read yet
    markup,    \* the templates read
    rels,      \* relationships read by run_resolver
    syms,      \* symbols read by the stage that is running
    pending,   \* interaction edges still to insert
    partial,   \* history: the numbers of the replacements of file rows that
               \* committed although some of their inserts failed
    edits, requests, faults

local == <<pc, batch, unread, parsed, unbound, markup, rels, syms, pending>>
bounds == <<edits, requests, faults>>
tables == <<db, gen, partial>>
vars == <<disk, template, tables, local, bounds>>

Phase == {"idle",          \* not reindexing
          "reading",       \* reading and parsing the batch
          "replaced",      \* first transaction committed
          "rels_read",     \* relationships and enclosing symbols read
          "syms_read",     \* SymbolIndex built, relationships resolved
          "states_written",
          "linked",        \* edges flushed, or linking failed
          "wiring",        \* inserting interaction edges
          "features_read", \* extract_features has read the symbols
          "edges_read",    \* and the edges, and computed the communities
          "emptied",       \* DELETE ran outside a transaction
          "panicked"}      \* unwrap() on a missing community ended the call

NoParse == [p \in Path |-> NoContent]

Templates == {t \in [Path -> Template \union {NoContent}] :
                 \A p \in Path : t[p] \in TemplatesOf(p)}

Init ==
    /\ disk \in Disks
    /\ template \in Templates
    /\ db = FullIndex(disk, template)
    /\ gen = 0
    /\ partial = {}
    /\ pc = [w \in Process |-> "idle"]
    /\ batch = [w \in Process |-> {}]
    /\ unread = [w \in Process |-> {}]
    /\ parsed = [w \in Process |-> NoParse]
    /\ unbound = [w \in Process |-> {}]
    /\ markup = [w \in Process |-> NoParse]
    /\ rels = [w \in Process |-> {}]
    /\ syms = [w \in Process |-> {}]
    /\ pending = [w \in Process |-> {}]
    /\ edits = 0 /\ requests = 0 /\ faults = 0

Goto(w, phase) == pc' = [pc EXCEPT ![w] = phase]

(* The locals of a call die with it *)
Return(w, phase) ==
    /\ Goto(w, phase)
    /\ batch' = [batch EXCEPT ![w] = {}]
    /\ unread' = [unread EXCEPT ![w] = {}]
    /\ parsed' = [parsed EXCEPT ![w] = NoParse]
    /\ unbound' = [unbound EXCEPT ![w] = {}]
    /\ markup' = [markup EXCEPT ![w] = NoParse]
    /\ rels' = [rels EXCEPT ![w] = {}]
    /\ syms' = [syms EXCEPT ![w] = {}]
    /\ pending' = [pending EXCEPT ![w] = {}]

Fault == faults < MaxFaults /\ faults' = faults + 1

----------------------------------------------------------------------------
(* The environment: the user creates, edits or removes a file. *)
Edit(p) ==
    /\ edits < MaxEdits
    /\ edits' = edits + 1
    /\ \E c \in (Content \union {NoContent}) \ {disk[p]} :
         disk' = [disk EXCEPT ![p] = c]
    /\ UNCHANGED <<template, tables, local, requests, faults>>

(* The user edits the template of a component.  No row has its hash, so the  *)
(* check for stale files never sees it.                                     *)
EditTemplate(p) ==
    /\ edits < MaxEdits
    /\ edits' = edits + 1
    /\ \E t \in TemplatesOf(p) \ {template[p]} :
         template' = [template EXCEPT ![p] = t]
    /\ UNCHANGED <<disk, tables, local, requests, faults>>

(* A call of reindex_paths with the non-empty list of paths ps; the process  *)
(* outlives a panic of an earlier call, or another one takes its place.      *)
Begin(w, ps) ==
    /\ pc[w] \in {"idle", "panicked"}
    /\ ps # {}
    /\ Goto(w, "reading")
    /\ batch' = [batch EXCEPT ![w] = ps]
    /\ unread' = [unread EXCEPT ![w] = ps]
    /\ UNCHANGED <<disk, template, tables, parsed, unbound, markup, rels, syms,
                   pending>>

(* reindex_workspace with paths, `codebroker reindex-incremental` *)
Request(w) ==
    /\ requests < MaxRequests
    /\ requests' = requests + 1
    /\ \E ps \in SUBSET Path : Begin(w, ps)
    /\ UNCHANGED <<edits, faults>>

(* SELECT ... FROM files LIMIT n reads the n rows of smallest id; within one *)
(* transaction rows are inserted in the order of their paths.                *)
Scanned(rows) ==
    LET upTo(id) == {row \in rows :
            \/ row.id[2] < id[2]
            \/ row.id[2] = id[2] /\ Rank[PathOf(row.id)] <= Rank[PathOf(id)]}
    IN  {row \in rows : Cardinality(upTo(row.id)) <= ScanLimit}

(* get_stale_files had it skipped the files it cannot read *)
StaleFiles_SkipMissing(rows) ==
    {PathOf(r.id) : r \in {q \in rows : disk[PathOf(q.id)] \notin {q.hash, NoContent}}}

(* get_stale_files: scanned files that are gone or whose content changed *)
StaleFiles(rows) ==
    {PathOf(r.id) : r \in {q \in rows : disk[PathOf(q.id)] # q.hash}}

(* What tools/call does before every tool *)
AutoReindex(w) ==
    /\ Begin(w, StaleFiles(Scanned(db.files)))
    /\ UNCHANGED bounds

(* parse_source had it recorded a file no frontend returns output for *)
ReadFile_Unparsed(w) ==
    /\ pc[w] = "reading"
    /\ \E p \in unread[w] :
         /\ unread' = [unread EXCEPT ![w] = @ \ {p}]
         /\ parsed' = [parsed EXCEPT ![w][p] = disk[p]]
    /\ UNCHANGED <<disk, template, tables, pc, batch, unbound, markup, rels, syms,
                   pending, bounds>>

(* read_hash_parse of one file, in any order: a rayon worker each.  When a  *)
(* component has parsed, its template is still to be read.                  *)
ReadFile(w) ==
    /\ pc[w] = "reading"
    /\ \E p \in unread[w] :
         /\ unread' = [unread EXCEPT ![w] = @ \ {p}]
         /\ parsed' = [parsed EXCEPT ![w][p] =
                         IF disk[p] \in Parses THEN disk[p] ELSE NoContent]
         /\ unbound' = [unbound EXCEPT ![w] =
                          @ \union {q \in {p} \intersect Component : disk[q] \in Parses}]
    /\ UNCHANGED <<disk, template, tables, pc, batch, markup, rels, syms, pending,
                   bounds>>

(* parse_source reads the template of a component after the component *)
ReadTemplate(w) ==
    /\ pc[w] = "reading"
    /\ \E p \in unbound[w] :
         /\ unbound' = [unbound EXCEPT ![w] = @ \ {p}]
         /\ markup' = [markup EXCEPT ![w][p] = template[p]]
    /\ UNCHANGED <<disk, template, tables, pc, batch, unread, parsed, rels, syms,
                   pending, bounds>>

(* The rows of the batch had the hash been taken from the disk again when    *)
(* they are inserted                                                        *)
BatchRows_HashAtCommit(w) ==
    LET ps == {p \in batch[w] : parsed[w][p] # NoContent /\ disk[p] # NoContent}
    IN  [ParsedRows(ps, parsed[w], markup[w], gen + 1) EXCEPT !.files =
            {[row EXCEPT !.hash = disk[PathOf(row.id)]] : row \in @}]

(* The rows of the paths of the batch that parsed *)
BatchRows(w) ==
    ParsedRows({p \in batch[w] : parsed[w][p] # NoContent},
               parsed[w], markup[w], gen + 1)

(* The first transaction had it left a path that no longer parses in place *)
ReplacedDb_KeepUnparsed(w, new) ==
    InsertRows(DeleteFileData(db, RowsOf(db, {PathOf(row.id) : row \in new.files})), new)

(* The first transaction: the rows of every path of the batch are deleted,  *)
(* the rows new inserted.                                                   *)
ReplacedDb(w, new) == InsertRows(DeleteFileData(db, RowsOf(db, batch[w])), new)

Parsed(w) == pc[w] = "reading" /\ unread[w] = {} /\ unbound[w] = {}

Replace(w, new) ==
    /\ Parsed(w)
    /\ db' = ReplacedDb(w, new)
    /\ gen' = gen + 1
    /\ Goto(w, "replaced")
    /\ UNCHANGED <<disk, template, batch, unread, parsed, unbound, markup, rels,
                   syms, pending, bounds>>

ReplaceRows(w) ==
    /\ Replace(w, BatchRows(w))
    /\ UNCHANGED partial

(* An insert of a symbol or relationship that fails is skipped, and the     *)
(* batch commits without the row, under the new hash.                       *)
ReplacePartly(w) ==
    /\ Cardinality(partial) < MaxLosses
    /\ \E new \in Remains(BatchRows(w)) : Replace(w, new)
    /\ partial' = partial \union {gen + 1}

(* BEGIN IMMEDIATE stays busy for five seconds, or a delete, the insert of  *)
(* a file row or the COMMIT fails and the batch is rolled back:             *)
(* reindex_paths returns Err.                                               *)
ReplaceFails(w) ==
    /\ Parsed(w)
    /\ Fault
    /\ Return(w, "idle")
    /\ UNCHANGED <<disk, template, tables, edits, requests>>

----------------------------------------------------------------------------
(* Pass 2 had it resolved the relationships of the batch alone *)
ReadRelationships_BatchOnly(w) ==
    /\ pc[w] = "replaced"
    /\ rels' = [rels EXCEPT ![w] =
                  {r \in db.relationships : PathOf(r.file) \in batch[w]}]
    /\ Goto(w, "rels_read")
    /\ UNCHANGED <<disk, template, tables, batch, unread, parsed, unbound,
                   markup, syms, pending, bounds>>

(* Pass 2, resolve_relationships: all relationships, whatever the batch.    *)
(* enclosing_symbol_id reads rows of the same file row, which live and die  *)
(* with the relationship, so it is part of reading the relationships.       *)
ReadRelationships(w) ==
    /\ pc[w] = "replaced"
    /\ rels' = [rels EXCEPT ![w] = db.relationships]
    /\ Goto(w, "rels_read")
    /\ UNCHANGED <<disk, template, tables, batch, unread, parsed, unbound,
                   markup, syms, pending, bounds>>

ReadSymbols(w) ==
    /\ pc[w] = "rels_read"
    /\ syms' = [syms EXCEPT ![w] = db.symbols]
    /\ Goto(w, "syms_read")
    /\ UNCHANGED <<disk, template, tables, batch, unread, parsed, unbound,
                   markup, rels, pending, bounds>>

WriteStates(w) ==
    /\ pc[w] = "syms_read"
    /\ db' = UpdateStates(db, rels[w], syms[w])
    /\ Goto(w, "states_written")
    /\ UNCHANGED <<disk, template, gen, partial, batch, unread, parsed,
                   unbound, markup, rels, syms, pending, bounds>>

FlushEdges(w) ==
    /\ pc[w] = "states_written"
    /\ db' = InsertEdges(db, StaticEdges(rels[w], syms[w]))
    /\ Goto(w, "linked")
    /\ rels' = [rels EXCEPT ![w] = {}]
    /\ syms' = [syms EXCEPT ![w] = {}]
    /\ UNCHANGED <<disk, template, gen, partial, batch, unread, parsed,
                   unbound, markup, pending, bounds>>

(* Either transaction of pass 2 fails to begin: unwrap_or_default swallows  *)
(* the error and the call goes on.                                          *)
LinkFails(w) ==
    /\ pc[w] \in {"syms_read", "states_written"}
    /\ Fault
    /\ Goto(w, "linked")
    /\ rels' = [rels EXCEPT ![w] = {}]
    /\ syms' = [syms EXCEPT ![w] = {}]
    /\ UNCHANGED <<disk, template, tables, batch, unread, parsed, unbound,
                   markup, pending, edits, requests>>

(* infer_interactions matches the files as they are on disk NOW *)
ScanInteractions(w) ==
    /\ pc[w] = "linked"
    /\ pending' = [pending EXCEPT ![w] =
                     InteractionEdges(FileIds(db), disk, db.symbols)]
    /\ Goto(w, "wiring")
    /\ UNCHANGED <<disk, template, tables, batch, unread, parsed, unbound,
                   markup, rels, syms, bounds>>

InsertInteraction(w) ==
    /\ pc[w] = "wiring"
    /\ \E e \in pending[w] :
         /\ db' = InsertEdges(db, {e})
         /\ pending' = [pending EXCEPT ![w] = @ \ {e}]
    /\ UNCHANGED <<disk, template, gen, partial, pc, batch, unread, parsed,
                   unbound, markup, rels, syms, bounds>>

(* extract_features had it read only the symbols some edge touches *)
ReadFeatureSymbols_Connected(w) ==
    /\ pc[w] = "wiring" /\ pending[w] = {}
    /\ syms' = [syms EXCEPT ![w] =
                  {s \in db.symbols : \E e \in db.edges : s \in {e.src, e.tgt}}]
    /\ Goto(w, "features_read")
    /\ UNCHANGED <<disk, template, tables, batch, unread, parsed, unbound,
                   markup, rels, pending, bounds>>

(* extract_features: the symbols, then the edges, are read by statements of  *)
(* their own.                                                               *)
ReadFeatureSymbols(w) ==
    /\ pc[w] = "wiring" /\ pending[w] = {}
    /\ syms' = [syms EXCEPT ![w] = db.symbols]
    /\ Goto(w, "features_read")
    /\ UNCHANGED <<disk, template, tables, batch, unread, parsed, unbound,
                   markup, rels, pending, bounds>>

(* Label propagation looks up the community of both ends of every edge that *)
(* has a source symbol and touches a symbol read before; one that was not    *)
(* read is an unwrap() on None.                                             *)
Neighbours(es, ss) ==
    {e.tgt : e \in {x \in es : x.src \in ss}}
    \union {e.src : e \in {x \in es : x.src # NoSymbol /\ x.tgt \in ss}}

ReadFeatureEdges(w) ==
    /\ pc[w] = "features_read"
    /\ IF Neighbours(db.edges, syms[w]) \subseteq syms[w]
       THEN /\ Goto(w, "edges_read")
            /\ UNCHANGED <<batch, unread, parsed, unbound, markup, rels, syms,
                           pending>>
       ELSE Return(w, "panicked")
    /\ UNCHANGED <<disk, template, tables, bounds>>

(* DELETE and re-INSERT in one transaction; insert errors are ignored *)
FeatureRows(w) == {s \in syms[w] : ForeignKeys => s \in db.symbols}

WriteFeatures(w) ==
    /\ pc[w] = "edges_read"
    /\ db' = [db EXCEPT !.features = FeatureRows(w)]
    /\ Return(w, "idle")
    /\ UNCHANGED <<disk, template, gen, partial, bounds>>

(* BEGIN IMMEDIATE fails, the error is ignored, and the DELETE and the       *)
(* INSERTs commit one by one.                                               *)
DeleteFeatures(w) ==
    /\ pc[w] = "edges_read"
    /\ Fault
    /\ db' = [db EXCEPT !.features = {}]
    /\ Goto(w, "emptied")
    /\ UNCHANGED <<disk, template, gen, partial, batch, unread, parsed,
                   unbound, markup, rels, syms, pending, edits, requests>>

InsertFeatures(w) ==
    /\ pc[w] = "emptied"
    /\ db' = [db EXCEPT !.features = @ \union FeatureRows(w)]
    /\ Return(w, "idle")
    /\ UNCHANGED <<disk, template, gen, partial, bounds>>

(* The process is killed between two transactions; SQLite rolls open work   *)
(* back, and the next process finds the tables as they are.                  *)
Crash(w) ==
    /\ pc[w] \notin {"idle", "panicked"}
    /\ Fault
    /\ Return(w, "idle")
    /\ UNCHANGED <<disk, template, tables, edits, requests>>

----------------------------------------------------------------------------
Progress(w) ==
    \/ ReadFile(w)         \/ ReadTemplate(w)
    \/ ReplaceRows(w)
    \/ ReadRelationships(w) \/ ReadSymbols(w)
    \/ WriteStates(w)      \/ FlushEdges(w)
    \/ ScanInteractions(w) \/ InsertInteraction(w)
    \/ ReadFeatureSymbols(w) \/ ReadFeatureEdges(w)
    \/ WriteFeatures(w)    \/ InsertFeatures(w)

Failure(w) ==
    \/ ReplaceFails(w) \/ ReplacePartly(w)
    \/ LinkFails(w) \/ DeleteFeatures(w) \/ Crash(w)

Step(w) == Request(w) \/ AutoReindex(w) \/ Progress(w) \/ Failure(w)

Next ==
    \/ \E p \in Path : Edit(p) \/ EditTemplate(p)
    \/ \E w \in Process : Step(w)

Spec == Init /\ [][Next]_vars

(* Assumed of the sessions: a call that has begun keeps running, and tools  *)
(* keep being called, each call checking for stale files first.             *)
Fairness == \A w \in Process : WF_vars(Progress(w)) /\ WF_vars(AutoReindex(w))

FairSpec == Spec /\ Fairness

----------------------------------------------------------------------------
(* Properties *)

TypeOK ==
    /\ disk \in [Path -> Content \union {NoContent}]
    /\ template \in Templates
    /\ db \in Database
    /\ gen \in Nat
    /\ partial \in SUBSET Nat
    /\ pc \in [Process -> Phase]
    /\ batch \in [Process -> SUBSET Path]
    /\ unread \in [Process -> SUBSET Path]
    /\ parsed \in [Process -> [Path -> Content \union {NoContent}]]
    /\ unbound \in [Process -> SUBSET Component]
    /\ markup \in [Process -> Templates]
    /\ rels \in [Process -> SUBSET RelationshipRow]
    /\ syms \in [Process -> SUBSET SymbolId]
    /\ pending \in [Process -> SUBSET EdgeRow]
    /\ edits \in Nat /\ requests \in Nat /\ faults \in Nat

(* Whatever processes interleave, crash or fail, there is one row per path   *)
(* and none of its symbols or relationships is of another content than its   *)
(* content_hash names, although files change between parse and commit; and   *)
(* all of them are there unless an insert of its own transaction failed.     *)
(* The relationships a component has from its template are those of one      *)
(* template, whichever, since no hash names it.                              *)
(* insert_file: "computed from the exact bytes the caller is about to        *)
(* extract start_byte/end_byte offsets from".                                *)
HashNamesRows == RowsMatchHash(db, partial)

(* validate(): dangling edges "should always be zero", with edges computed   *)
(* from reads that other processes' transactions have overtaken.             *)
NoDanglingEdges == Dangling(db) = {}

(* Is the process past its first transaction, with its edges not flushed?    *)
Linking(w) == pc[w] \in {"replaced", "rels_read", "syms_read", "states_written"}

(* reindex_paths deletes the edges into the files it replaces, those of      *)
(* untouched consumers included.  Unless something failed, they are all back *)
(* as soon as every process that replaced rows has flushed its edges.        *)
EdgesRestored ==
    (faults = 0 /\ \A w \in Process : ~Linking(w)) => LinksComplete(db)

Quiet == faults = 0 /\ \A w \in Process : pc[w] = "idle"

(* The state column and the edges table are written by two transactions: a   *)
(* relationship recorded as resolved to a repository symbol has an edge to a *)
(* symbol of that name.                                                      *)
StatesMatchEdges ==
    Quiet => \A x \in db.resolved :
        x[2] = "repository_symbol" =>
            \E e \in db.edges : /\ e.file = x[1].file
                                /\ e.src = EnclosingSymbol(x[1])
                                /\ NameOf(e.tgt) = x[1].name

(* symbol_features is recomputed from two reads of its own: after the last   *)
(* call it has a row for every symbol and for nothing else.                  *)
FeaturesMatchSymbols == Quiet => db.features = db.symbols

(* community.get(&neighbor).unwrap() in extract_features never meets a       *)
(* neighbour it did not read.                                                *)
FeaturesNeverPanic == \A w \in Process : pc[w] # "panicked"

(* The rows of a file change only by a commit whose batch names it, and the  *)
(* commit replaces the whole batch: no path of it keeps a row it had.        *)
ReplacedTogether ==
    [][\A w \in Process :
        (pc[w] = "reading" /\ pc'[w] = "replaced") =>
            /\ \A p \in Path \ batch[w] : RowsOf(db', {p}) = RowsOf(db, {p})
            /\ FileIds(db) \intersect RowsOf(db', batch[w]) = {}]_vars

(* get_stale_files: the "list of paths for files that have been modified      *)
(* since they were indexed", capped at limit "to prevent excessive memory     *)
(* usage on massive changes": with no more stale files than the limit, the    *)
(* list has them all.                                                         *)
StaleListComplete ==
    Cardinality(StaleFiles(db.files)) <= ScanLimit =>
        StaleFiles(Scanned(db.files)) = StaleFiles(db.files)

(* Once the user stops editing, the check before every tool call brings every *)
(* indexed file up to date, also when a call that parsed an older content     *)
(* commits late.                                                              *)
IndexConverges ==
    <>[](\A row \in db.files : disk[PathOf(row.id)] = row.hash)
=============================================================================
