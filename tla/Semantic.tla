------------------------------ MODULE Semantic ------------------------------
(***************************************************************************)
(* The vectors of symbols beside the rows they describe. Three actors      *)
(* share an index and the files on disk: the user, who edits files and     *)
(* changes the embedding model; codebroker reindex-incremental, which      *)
(* replaces the rows of a file and then embeds the symbols it inserted;    *)
(* and the MCP server, which heals the context of a stale symbol before it *)
(* answers get_edit_context, answers read_symbol_source as the index has   *)
(* it, and answers semantic searches from a cache of the vectors, checked  *)
(* against a fingerprint of the table.                                     *)
(*                                                                         *)
(* A replacement (reindex_paths, see Reindex) is one step here. What is    *)
(* embedded of a symbol, its card, is cut out of the live file with the    *)
(* offsets the index has: Slice(n, p, v) is what the offsets of name n in  *)
(* text p cut out of text v, its body when p = v.                          *)
(***************************************************************************)
EXTENDS Integers, FiniteSetsExt

CONSTANTS
    File, Text, Model,
    Names(_, _),      \* Names(f, v): what text v of file f defines
    Slice(_, _, _),
    MaxId, MaxEdits, MaxSwitches, MaxHeals   \* bounds

NoId == 0
NoText == 0           \* a file not in the index, or one that cannot be read
NoSource == -1        \* a source that was not handed out

ASSUME SemanticAssumption ==
    /\ NoText \notin Text
    /\ \A f \in File, v \in Text : IsFiniteSet(Names(f, v)) /\ Names(f, v) \subseteq Int

VARIABLES
    disk,       \* disk[f]: the text of file f, NoText once it is deleted
    indexed,    \* indexed[f]: the text its rows were made from
    sym,        \* the rows of symbols: id -> name and file
    lastId,     \* the AUTOINCREMENT counter of symbols
    vectors,    \* the rows of embeddings
    model,      \* the configured model
    cli,        \* reindex-incremental
    server,     \* the request the server works on
    cache,      \* VECTOR_CACHE
    used        \* history and bounds: edits, switches, heals; raced, the
                \* symbols whose file changed before it was embedded; lost,
                \* whether vectors were deleted since the cache was loaded

vars == <<disk, indexed, sym, lastId, vectors, model, cli, server, cache, used>>

Idle == [pc |-> "idle"]
NoCache == [model |-> "none", print |-> <<-1, -1>>, entries |-> {}]

---------------------------------------------------------------------------
(* The rows.                                                               *)

SymbolsOf(f) == {s \in DOMAIN sym : sym[s].file = f}

(* Which of the new ids goes to which name does not matter: ascending.     *)
NewRows(f, v) ==
    LET names == Names(f, v)
        rank(n) == Cardinality({m \in names : m <= n})
    IN  [s \in {lastId + rank(n) : n \in names} |->
            [name |-> CHOOSE n \in names : lastId + rank(n) = s, file |-> f]]

(* reindex_paths on one file that can be read: delete_file_data, then the  *)
(* rows of what is on disk. The vectors of the deleted symbols go.         *)
Replace(f) ==
    /\ disk[f] # NoText /\ lastId + Cardinality(Names(f, disk[f])) <= MaxId
    /\ LET kept == DOMAIN sym \ SymbolsOf(f)
           new  == NewRows(f, disk[f])
       IN  sym' = [s \in kept \cup DOMAIN new |-> IF s \in kept THEN sym[s] ELSE new[s]]
    /\ lastId' = lastId + Cardinality(Names(f, disk[f]))
    /\ indexed' = [indexed EXCEPT ![f] = disk[f]]
    /\ vectors' = {r \in vectors : r.sym \notin SymbolsOf(f)}

(* embedding_candidates, for the symbols just inserted: the row and the    *)
(* card stored for it under this model, if any.                            *)
Stored(s, m) == {r.card : r \in {q \in vectors : q.sym = s /\ q.model = m}}
Candidates(ids, m) ==
    {[sym |-> s, name |-> sym[s].name, file |-> sym[s].file, text |-> indexed[sym[s].file],
      stored |-> Stored(s, m)] : s \in ids \cap DOMAIN sym}

(* build_card: path, name and what the offsets cut out of the file now.    *)
BuildCard(c, live) == [name |-> c.name, file |-> c.file, body |-> Slice(c.name, c.text, live)]

(* Mutant: rows are written for symbols that are gone.                     *)
MayUpsert_Unchecked(rows) == TRUE

(* The foreign key of embeddings: one missing symbol fails the batch.      *)
MayUpsert(rows) == \A r \in rows : r.sym \in DOMAIN sym

(* INSERT OR REPLACE of each row in turn: a new one gets the next rowid,   *)
(* after the highest of the table with the row it replaces still in it.    *)
Rowids(table) == {0} \cup {r.rowid : r \in table}
UpsertAll(table, rows) ==
    LET rank(r) == Cardinality({s \in {q.sym : q \in rows} : s <= r.sym})
    IN  {q \in table : \A r \in rows : q.sym # r.sym \/ q.model # r.model}
            \cup {[sym |-> r.sym, model |-> r.model, card |-> r.card,
                   rowid |-> Max(Rowids(table)) + rank(r)] : r \in rows}

(* get_all_symbol_embeddings, joined to the symbols.                       *)
Entries(m) ==
    {[sym |-> r.sym, name |-> sym[r.sym].name, file |-> sym[r.sym].file, model |-> r.model, card |-> r.card]
        : r \in {q \in vectors : q.model = m /\ q.sym \in DOMAIN sym}}

(* The count of the rows and the highest rowid.                            *)
Fingerprint(m) ==
    LET rows == {r \in vectors : r.model = m} IN <<Cardinality(rows), Max(Rowids(rows))>>

---------------------------------------------------------------------------
Init ==
    /\ disk \in [File -> Text] /\ indexed = [f \in File |-> NoText]
    /\ sym = <<>> /\ lastId = 0 /\ vectors = {}
    /\ model \in Model
    /\ cli = Idle /\ server = Idle /\ cache = NoCache
    /\ used = [edits |-> 0, switches |-> 0, heals |-> 0, raced |-> {}, lost |-> FALSE]

(* The user. An edit that comes before the cards of a reindexing process   *)
(* are built races with it.                                                *)
Raced(f) ==
    IF cli.pc \in {"candidates", "cards"} /\ cli.file = f THEN used.raced \cup cli.touched ELSE used.raced

Edit(f) ==
    /\ used.edits < MaxEdits
    /\ \E v \in (Text \cup {NoText}) \ {disk[f]} : disk' = [disk EXCEPT ![f] = v]
    /\ used' = [used EXCEPT !.edits = @ + 1, !.raced = Raced(f)]
    /\ UNCHANGED <<indexed, sym, lastId, vectors, model, cli, server, cache>>

SwitchModel ==
    /\ used.switches < MaxSwitches
    /\ \E m \in Model \ {model} : model' = m
    /\ used' = [used EXCEPT !.switches = @ + 1]
    /\ UNCHANGED <<disk, indexed, sym, lastId, vectors, cli, server, cache>>

Forget(f) == used.lost \/ \E r \in vectors : r.sym \in SymbolsOf(f)

---------------------------------------------------------------------------
(* reindex-incremental f: replace, read the candidates, read the file and  *)
(* build the cards, embed, write.                                          *)

CliReindex(f) ==
    /\ cli = Idle /\ Replace(f)
    /\ cli' = [pc |-> "candidates", file |-> f, touched |-> DOMAIN sym' \ DOMAIN sym, model |-> model]
    /\ used' = [used EXCEPT !.lost = Forget(f)]
    /\ UNCHANGED <<disk, model, server, cache>>

CliCandidates ==
    /\ cli.pc = "candidates"
    /\ cli' = [pc |-> "cards", file |-> cli.file, touched |-> cli.touched, model |-> cli.model,
               candidates |-> Candidates(cli.touched, cli.model)]
    /\ UNCHANGED <<disk, indexed, sym, lastId, vectors, model, server, cache, used>>

(* A file that is gone has no cards; an unchanged card is not embedded.    *)
CliCards ==
    /\ cli.pc = "cards"
    /\ LET live == disk[cli.file]
           rows == {[sym |-> c.sym, model |-> cli.model, card |-> BuildCard(c, live), stored |-> c.stored]
                       : c \in cli.candidates}
       IN  cli' = [pc |-> "embed", file |-> cli.file, touched |-> cli.touched,
                   rows |-> IF live = NoText THEN {} ELSE {r \in rows : r.card \notin r.stored}]
    /\ UNCHANGED <<disk, indexed, sym, lastId, vectors, model, server, cache, used>>

(* A batch of cards whose call fails is left out; nothing retries it.      *)
CliEmbed ==
    /\ cli.pc = "embed"
    /\ \E rows \in SUBSET cli.rows :
          cli' = IF rows = {} THEN Idle ELSE [cli EXCEPT !.pc = "write", !.rows = rows]
    /\ UNCHANGED <<disk, indexed, sym, lastId, vectors, model, server, cache, used>>

(* One transaction: all the rows, or none.                                 *)
CliWrite ==
    /\ cli.pc = "write"
    /\ vectors' = IF MayUpsert(cli.rows) THEN UpsertAll(vectors, cli.rows) ELSE vectors
    /\ cli' = Idle
    /\ UNCHANGED <<disk, indexed, sym, lastId, model, server, cache, used>>

---------------------------------------------------------------------------
(* get_edit_context of a symbol that was resolved to an id.                *)

BeginEdit(s) ==
    /\ server = Idle /\ s \in DOMAIN sym
    /\ server' = [pc |-> "assemble", id |-> s, name |-> sym[s].name, file |-> sym[s].file]
    /\ UNCHANGED <<disk, indexed, sym, lastId, vectors, model, cli, cache, used>>

Stale(f) == disk[f] # NoText /\ indexed[f] # NoText /\ disk[f] # indexed[f]

(* The context: the row by its id; stale when the file has another hash.   *)
Assemble ==
    /\ server.pc = "assemble"
    /\ server' = [pc |-> IF server.id \in DOMAIN sym /\ Stale(server.file) THEN "heal" ELSE "row",
                  id |-> server.id, name |-> server.name, file |-> server.file,
                  context |-> IF server.id \in DOMAIN sym THEN server.id ELSE NoId]
    /\ UNCHANGED <<disk, indexed, sym, lastId, vectors, model, cli, cache, used>>

(* The stale file is reindexed, without the vectors of its new symbols.    *)
Heal ==
    /\ server.pc = "heal" /\ used.heals < MaxHeals
    /\ Replace(server.file)
    /\ server' = [server EXCEPT !.pc = "refresh"]
    /\ used' = [used EXCEPT !.heals = @ + 1, !.lost = Forget(server.file)]
    /\ UNCHANGED <<disk, model, cli, cache>>

HealFails ==
    /\ server.pc = "heal"
    /\ server' = [server EXCEPT !.pc = "row"]
    /\ UNCHANGED <<disk, indexed, sym, lastId, vectors, model, cli, cache, used>>

(* The context again, by name; the old one if the name is gone.            *)
Refresh ==
    /\ server.pc = "refresh"
    /\ LET rows == {s \in SymbolsOf(server.file) : sym[s].name = server.name}
       IN  server' = [server EXCEPT !.pc = "row", !.context = IF rows = {} THEN @ ELSE Min(rows)]
    /\ UNCHANGED <<disk, indexed, sym, lastId, vectors, model, cli, cache, used>>

(* read_symbol_source_by_id reads the row of the id it was resolved to ... *)
ReadRow ==
    /\ server.pc = "row"
    /\ server' = [pc |-> "source", id |-> server.id, name |-> server.name, file |-> server.file,
                  context |-> server.context,
                  text |-> IF server.id \in DOMAIN sym THEN indexed[server.file] ELSE NoText]
    /\ UNCHANGED <<disk, indexed, sym, lastId, vectors, model, cli, cache, used>>

(* Mutant: the offsets are used on whatever the file holds now.            *)
Trusted_Always(text, live) == TRUE

(* ... and then the file, whose hash must be the one in the row.           *)
Trusted(text, live) == text = live

ReadSource ==
    /\ server.pc = "source"
    /\ LET live == disk[server.file]
       IN  server' = [pc |-> "edit", id |-> server.id, name |-> server.name, file |-> server.file,
                      context |-> server.context, text |-> server.text, live |-> live,
                      source |-> IF server.text # NoText /\ live # NoText /\ Trusted(server.text, live)
                                 THEN Slice(server.name, server.text, live) ELSE NoSource]
    /\ UNCHANGED <<disk, indexed, sym, lastId, vectors, model, cli, cache, used>>

---------------------------------------------------------------------------
(* read_symbol_source, the tool: the row is read while the name is         *)
(* resolved, and its offsets are used on whatever the file holds then.     *)
(* Only an unreadable file, or one too short for them, is reported.        *)

BeginRead(s) ==
    /\ server = Idle /\ s \in DOMAIN sym
    /\ server' = [pc |-> "tool", name |-> sym[s].name, file |-> sym[s].file, text |-> indexed[sym[s].file]]
    /\ UNCHANGED <<disk, indexed, sym, lastId, vectors, model, cli, cache, used>>

ReadToolSource ==
    /\ server.pc = "tool"
    /\ LET live == disk[server.file]
           cut  == IF live = NoText THEN {} ELSE {Slice(server.name, server.text, live)}
       IN  \E source \in cut \cup (IF live = server.text THEN {} ELSE {NoSource}) :
              server' = [pc |-> "read", name |-> server.name, file |-> server.file, text |-> server.text,
                         live |-> live, source |-> source]
    /\ UNCHANGED <<disk, indexed, sym, lastId, vectors, model, cli, cache, used>>

---------------------------------------------------------------------------
(* semantic_leg: fingerprint, then the cache or a load.                    *)

(* Mutant: whatever was loaded for the model is served again.              *)
Cached_Print(m, print) == cache.model = m

Cached(m, print) == cache.model = m /\ cache.print = print

BeginSearch ==
    /\ server = Idle
    /\ server' = [pc |-> "lookup", model |-> model, print |-> Fingerprint(model),
                  before |-> Entries(model)]
    /\ used' = [used EXCEPT !.lost = @ /\ Cached(model, Fingerprint(model))]
    /\ UNCHANGED <<disk, indexed, sym, lastId, vectors, model, cli, cache>>

(* No vector, no model or no answer of it: the search degrades.            *)
Serve(entries, hit) ==
    \E degraded \in {FALSE, TRUE} :
        /\ entries = {} => degraded
        /\ server' = [pc |-> "search", model |-> server.model, before |-> server.before,
                      entries |-> entries, hit |-> hit, degraded |-> degraded]

Lookup ==
    /\ server.pc = "lookup"
    /\ LET hit == Cached(server.model, server.print)
       IN  /\ Serve(IF hit THEN cache.entries ELSE Entries(server.model), hit)
           /\ cache' = IF hit THEN cache
                       ELSE [model |-> server.model, print |-> server.print,
                             entries |-> Entries(server.model)]
    /\ UNCHANGED <<disk, indexed, sym, lastId, vectors, model, cli, used>>

NextRequest ==
    /\ server.pc \in {"edit", "read", "search"}
    /\ server' = Idle
    /\ UNCHANGED <<disk, indexed, sym, lastId, vectors, model, cli, cache, used>>

Restart ==
    /\ cache # NoCache /\ server = Idle
    /\ cache' = NoCache
    /\ UNCHANGED <<disk, indexed, sym, lastId, vectors, model, cli, server, used>>

---------------------------------------------------------------------------
User == SwitchModel \/ \E f \in File : Edit(f)
Cli == CliCandidates \/ CliCards \/ CliEmbed \/ CliWrite \/ \E f \in File : CliReindex(f)
EditContext == Assemble \/ Heal \/ HealFails \/ Refresh \/ ReadRow \/ ReadSource \/ \E s \in DOMAIN sym : BeginEdit(s)
ReadTool == ReadToolSource \/ \E s \in DOMAIN sym : BeginRead(s)
Search == BeginSearch \/ Lookup

Next == User \/ Cli \/ EditContext \/ ReadTool \/ Search \/ NextRequest \/ Restart

Spec == Init /\ [][Next]_vars

---------------------------------------------------------------------------
(* get_edit_context: the source is the body of the symbol named, in the    *)
(* text the index describes, or it is withheld: never another stretch of a *)
(* file that changed while the request ran. read_symbol_source promises it *)
(* of a file that has not changed since its row was written, and no more.  *)
SourceAligned ==
    (server.pc = "edit" \/ (server.pc = "read" /\ server.live = server.text)) /\ server.source # NoSource =>
        /\ server.name \in Names(server.file, server.text)
        /\ server.source = Slice(server.name, server.text, server.text)

(* Every stored vector belongs to a symbol the index has and was made of   *)
(* its name, path and body; only one whose file changed between its        *)
(* replacement and its card may be of something else.                      *)
VectorsBelong ==
    \A r \in vectors :
        /\ r.sym \in DOMAIN sym
        /\ r.card.name = sym[r.sym].name /\ r.card.file = sym[r.sym].file
        /\ r.sym \notin used.raced =>
              \E v \in Text : r.card.body = Slice(r.card.name, v, v)
        /\ \A q \in vectors : q.rowid = r.rowid \/ <<q.sym, q.model>> = <<r.sym, r.model>> => q = r

(* A semantic search answers from the vectors of the configured model, one *)
(* per symbol, and from the table as it was during the request: unless     *)
(* vectors were deleted since the cache was loaded, a table with the same  *)
(* count and highest rowid is the same table.                              *)
CacheFresh ==
    server.pc = "search" =>
        /\ \A e \in server.entries : e.model = server.model
        /\ \A d, e \in server.entries : d.sym = e.sym => d = e
        /\ ~used.lost => server.before \subseteq server.entries
        /\ ~used.lost /\ server.hit => server.entries = server.before
============================================================================
