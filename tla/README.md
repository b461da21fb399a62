# codeBroker in TLA+

codeBroker indexes a repository into one SQLite database,
`.codebroker/codebroker.db`, and answers questions about it through an MCP
server and a command line. This directory models how the index is kept right
(the incremental reindexing that every session runs, the full `codebroker init`
that publishes a new database under it, the resolver that turns the
relationships of the rows into edges), how the tools answer from it (the walks
of the graph, the lookups and searches, the sources they hand out) and the
vectors kept beside it. Paths below are relative to `src/`.

## The system

| Part | State it keeps | Operations | Interacts with |
| --- | --- | --- | --- |
| storage (`storage/src/db.rs`, `schema.rs`) | tables files, symbols, relationships, edges, symbol_features, embeddings, semantic_bindings, symbol_concepts, metadata | one method per statement; no transaction of its own | every other part |
| incremental reindex (`indexer/src/reindex.rs`) | none; works on the database | `reindex_paths`: parse, replace rows, link, interactions, features | called by `codebroker reindex-incremental`, the semantic self-healing and, through a child process, the MCP server |
| resolver (`indexer/src/resolver/`) and graph builder (`indexer/src/graph_builder/`) | snapshots of symbols and relationships | classification, receiver, lexical candidates, filters, ranking; one edge per resolved relationship | reindex and init |
| features, interactions (`indexer/src/features.rs`, `interactions.rs`) | snapshots | pagerank, communities, entry points; HTTP literals against routes | reindex and init |
| init (`cli/src/main.rs`) | temporary database `codebroker.db.tmp` | copy, reparse what changed, link, stamp, rename | replaces the database under open sessions |
| MCP server (`mcp/src/main.rs`) | active workspace, cache of vectors | stale check before every tool, `reindex_workspace`, `set_workspace`, read-only tools | spawns the command line with `run_detached` and waits for it |
| query engine (`query/src/`) | none; several statements per tool, no transaction | contexts, walks, paths, cycles, subsystems, search, source retrieval | storage, the files on disk |
| symbol resolution of tools (`resolver/src/`) | none | a text becomes a symbol, a path, a concept, a subsystem or an ambiguity | query engine, storage |
| entrypoint classifier (`storage/src/entrypoints.rs`) | none | name, kind, path and decorators to route, page or command line | features at index time, query engine later |
| semantic (`semantic/src/`) | embeddings; in the server a cache of them | backfill, search, self-healing context | storage, reindex, the files on disk |
| parser | none | source text to symbols and relationships | reindex, init |
| graph, graph_diagnostics, analytics, dashboard, developer reports, runtime | none that the rest depends on | | storage |

What is hard here is that nothing is one transaction. A session's
`reindex_paths` is four transactions and a dozen reads, several sessions run at
once on the same file, each may be killed or lose a lock race anywhere, the
user edits the files all the while, and `init` replaces the database under all
of them by file operations SQLite knows nothing of. Many errors are dropped by
`let _ =` or `unwrap_or_default`. The readers are no better off: a tool is a
series of statements over an index that changes between them, slices files with
offsets stored earlier, and cuts its answer at several caps. The properties
below say what survives that.

## Modules

| Module | Models | State |
| --- | --- | --- |
| `IndexDb` | the rows of a database and what each statement does to them: `DeleteFileData`, `InsertRows`, `RelationshipRows`, `StateOf`, `StaticEdges`, `InsertEdges`, `UpdateStates`, `InteractionEdges` | none |
| `Reindex` | `reindex_paths` run by several processes, the stale check of the MCP server, edits, failures, crashes | the disk, the database, the locals of each call |
| `FileIndex` | what reindexing promises: an index of contents, where a call records a snapshot of its files in one step or nothing | abstract |
| `ReindexRefinement` | the refinement mapping from `Reindex` to `FileIndex`, with a history variable for the contents seen during a call | `seen` |
| `InitPublish` | `codebroker init` and its rename, with sessions, inodes and write-ahead logs | disk, files, names, logs, connections, locals of init |
| `VariableFlow` | the snapshot the resolver works on: `SymbolIndex`, `ImportResolver` and the passes of `VariableFlowEngine` | none |
| `Resolution` | the stages of `ResolutionPipeline`, the graph builder, the writer, and reindexing of unchanged files | the rows, the types of variables, the outcomes, the edges |
| `CodeGraph` | the rows as the tools read them; the context of a symbol packed into a budget; hotspots | none |
| `Traversals` | `explore_graph` and `graph_subtree`, `shortest_path`, `dependency_cycles` | none |
| `Entrypoints` | the shared classifier | none |
| `Subsystems` | `discover_subsystem`, `subsystem_communication`, `list_entrypoints` | none |
| `Lookup` | the resolution pipeline, the lexical search, concept tags, rank fusion | none |
| `Sources` | `read_symbol_source`, `read_file_skeleton`, `read_file_snippet`, `find_duplicate_logic` | none |
| `Queries` | the `tools/call` loop over one index; `explore_graph` statement by statement beside a process that replaces a file | the index, the walk, the answer, the versions a call has seen |
| `QueryRules` | what the answers promise, against definitions that do not walk, rank or pack as the code does | |
| `Semantic` | the embedding backfill, the self-healing `get_edit_context`, `read_symbol_source`, the cache of vectors | the disk, rows, vectors, the command line, the server, the cache |
| `FoldTheorems` | a fold over a sequence as a run of states, for the proof modules to instantiate | none |
| `Reindex_proofs`, `InitPublish_proofs`, `Resolution_proofs`, `Traversals_proofs`, `Queries_proofs`, `Searches_proofs`, `Semantic_proofs` | lemmas and theorems, see "Proofs" | |
| `MCReindex`, `MCReindexRefinement`, `MCInitPublish`, `MCResolution`, `MCQueries`, `MCSemantic` | instances for TLC | |

`Reindex` extends `IndexDb`; `ReindexRefinement` extends `Reindex` and
instantiates `FileIndex`. `InitPublish` stands alone: it abstracts a database to
what `init` decides on and a call of `reindex_paths` to its two commits, rows and
links, whose interleaving is the subject of `Reindex`. `Resolution` extends
`VariableFlow` and is sequential, as the resolver is on its snapshot; it refines
what `IndexDb` takes from it (`StateOf`, `StaticEdges`: one lexical stage).
`Traversals` extends `CodeGraph`; `Subsystems` extends `CodeGraph` and
`Entrypoints`, `Lookup` extends `Subsystems`, `Sources` extends `Lookup`;
`Queries` composes `Traversals` and `Sources`. `Semantic` stands alone and takes
a call of `reindex_paths` as one step. A proof module extends the module it is
about; `Reindex_proofs` extends `ReindexRefinement` and ends with the refinement.
`Traversals_proofs` holds the lemmas about walks, lists and folds, `Queries_proofs`
extends it with the sessions, and `Searches_proofs` extends that with the search.

### Reindex and the code

One action per point where another process may get in between:

| Action | Code |
| --- | --- |
| `Request`, `AutoReindex`, `Begin` | `reindex_workspace` with paths; `get_stale_files(2000)` before every tool and the call it makes |
| `ReadFile`, `ReadTemplate` | one rayon worker's `read_hash_parse`, `None` is `NoContent`; for a component `parse_source` then reads the `.html` beside it |
| `ReplaceRows` | the first `BEGIN IMMEDIATE ... COMMIT` |
| `ReplacePartly` | the same, where the insert of some symbols or relationships failed and was skipped |
| `ReplaceFails` | its rollback: `BEGIN` stays busy, or a `delete_file_data`, an `insert_file` or the `COMMIT` fails |
| `ReadRelationships`, `ReadSymbols` | `run_resolver`'s read; `SymbolIndex::build` |
| `WriteStates`, `FlushEdges`, `LinkFails` | the second and third transaction; the error `unwrap_or_default` drops |
| `ScanInteractions`, `InsertInteraction` | `infer_interactions`, its inserts committing one at a time |
| `ReadFeatureSymbols`, `ReadFeatureEdges`, `WriteFeatures`, `DeleteFeatures`, `InsertFeatures` | `extract_features`: two reads, then DELETE and INSERTs in a transaction, or without one when `BEGIN` failed |
| `Crash` | the process is killed between two transactions; it, or the one after it, may `Begin` again, as after a panic |
| `Edit`, `EditTemplate` | the user |

A file row's id is the pair of its path and the number of the transaction that
inserted it, which is what AUTOINCREMENT gives: never used before. A content
stands for its hash; `Defs` and `Refs` give the symbols it defines and the
names it refers to, `Parses` the contents a frontend accepts. Relationships
are those that reach the lexical stages of the resolver.

Of a path in `Component`, which stands for `*.component.ts`, `template[p]` is the
`.html` beside it or none, and `Bound[c][t]` are the relationships `parse_source`
adds for content `c` and template `t` (`parsed_file.rs:94-119`): calls from the
symbol whose lines hold the line of the binding, though that line is the template's.
Nothing hashes the template, and an edit of it makes no file stale.

Two kinds of failure of the first transaction are told apart, as the code does.
`ReplaceFails` rolls back; a path named twice in one call, which
meets `files.path UNIQUE`, is one of these. `ReplacePartly` commits with the new hash
and without the rows whose insert failed (`reindex.rs:153-161`): any subset of
the symbols and of the relationships; with the symbol around a relationship missing, a
wider one is around it, or none (`Among`), as `enclosing_symbol_id` looks among the rows. `partial`,
a history variable, has the transactions that lost something; `MaxLosses` bounds it.
Not modelled are an error on which SQLite itself ends the transaction, so that what
follows commits row by row, and the rows of `update_file_metadata` and
`insert_semantic_binding`, which no other table is computed from here.

A comment in `delete_file_data` says foreign keys are never enabled; the
bundled SQLite may be built with them on by default. `ForeignKeys` is a
constant, FALSE in `reindex_single` and TRUE in the runs of two processes.

### InitPublish and the code

`Start` to `Publish` follow the statements of the `init` arm of
`cli/src/main.rs` in order. A name is bound to an inode, a connection keeps the
inode and the log it opened, and a log is found by name; that is how a rename
can leave a session writing to a file nobody can open again, and a log lie next
to a file it was not written for. Opening creates a missing log; a commit
appends to the connection's log; the last connection to close a database
checkpoints it and removes the log. `fs::copy` and a checkpoint are each one
step. The `-shm` file and automatic checkpoints are left out.

### Resolution and the code

`Prepare`, `Execute` and `Build` are the three parts of `resolve_relationships`;
`Resolve` takes a relationship through `ClassificationStage`,
`MemberResolverStage` and `LexicalStages` (generation, the two filters, which
filter nothing, and ranking), and `Settled` is the early exit of the pipeline.
`Flow` is `VariableFlowEngine::new`: `LoadBindings`, `LoadConstructors`,
`LoadImports`, `ResolveAliases`. A file's rows are its content, named by
the file and a place in it; what a reindexing of an unchanged file changes is
the order of the rows, `d.order`. An import source stands for the class its
prefix or first segment puts it in (`none`, `std`, `crate`, `relative`, `alias`,
`node`, `package`, `stdlib`, `local`), for Python the import's name when it has
no source; a file for its extension's language. `Builtins` is the list of
JavaScript globals. Line and byte ranges are one pair of bounds. `TypeGraph`
is built empty, so no ancestor is ever searched. The resolver's lookup of the
receiver itself as an import (`receiver.rs:161-214`) and of builtin receivers
(216-229) find nothing: an import always has a type from `LoadImports`, a
builtin is settled by `ClassificationStage`.

### Queries and the code

A graph `g` is one snapshot of the database: rows of symbols, edges in rowid
order, relationships, features, concept tags, and the text each file was indexed
from. A name, a text, a path is a number; how alike two of them are is data
(`NameLikeness`, `PathLikeness`), what the code does with the likeness is
modelled. A path filter is the set of files it matches. A file on disk is `Live`.

| Operator or action | Code |
| --- | --- |
| `ContextById`, `Callers`, `Callees`, `ForwardDependencies`, `BuildJson`, `BuildMarkdown` | `query/src/context.rs`, `response.rs`; the queries of `storage/src/db.rs` they run |
| `ArchitecturalHotspots` | `graph.rs`, rows counted per symbol |
| `StartWalk`, `Pop`, `OutStep`, `InStep` | one queue entry and one statement of `explore_graph`; `GraphSubtree` runs the same walk over both directions with its own filter |
| `ShortestPath`, `SuggestedConnector` | `shortest_path` and the route literals it reads out of the live source when the edges end |
| `DependencyCycles` | the depth first search, its rotation and its cap |
| `DiscoverSubsystem`, `SubsystemCommunication`, `ListEntrypoints` | `subsystem.rs` |
| `ClassifyEntrypoint` | `entrypoints.rs` |
| `ResolveSymbol`, `ResolvePath`, `ResolveSubsystem`, `ResolveAny`, `ResolveSearch` | `resolver/src/pipeline.rs`, `universal.rs` |
| `SearchSymbols`, `TagConcepts`, `RrfFuse` | `engine.rs`, `concepts.rs`, `semantic/src/search.rs` |
| `ReadSymbolSourceById`, `ReadSymbolSourceTool`, `SkeletonizeFile`, `ReadSnippet`, `FindDuplicateLogic` | `retrieval.rs`, `tools/read_symbol_source.rs`, `duplicates.rs` |
| `Respond` and the actions that use it | one `tools/call`, taken in one snapshot |
| `BeginExplore`, `FindRoot`, `ExpandOut`, `ExpandIn`, `EndExplore` | `explore_graph`, between whose statements others commit |
| `ReplaceFile`, `LinkAgain` | `reindex_paths` of another process: its first transaction and its edge flush |

Where the order of a hash table shows, any order is taken (`Rankings`, ties of
the fusion, which cycles fill the limit). `graph_subtree`, `find_symbol`,
`discover_subsystem`, `resolve_subsystem`, `resolve_any` and
`read_symbol_source_by_id` with dependencies are operations of the library that
no tool calls today; they are asked here like the others.

### Semantic and the code

| Action | Code |
| --- | --- |
| `CliReindex` | `codebroker reindex-incremental` up to `reindex_paths`'s return |
| `CliCandidates`, `CliCards`, `CliEmbed`, `CliWrite` | `backfill_embeddings`: the candidates' rows, the cards cut out of the live files, the calls of the embedder, each of which may fail, the upsert in one transaction |
| `BeginEdit`, `Assemble`, `Heal`, `HealFails`, `Refresh` | `get_edit_context` and `assemble_context_self_healing` (`staleness.rs`) |
| `ReadRow`, `ReadSource` | `read_symbol_source_by_id`: the row by its id, then the file, whose hash must match |
| `BeginRead`, `ReadToolSource` | the `read_symbol_source` tool, which compares no hash |
| `BeginSearch`, `Lookup` | `semantic_leg`: `fingerprint`, then the cache or a load (`vector_search.rs`) |
| `Edit`, `SwitchModel`, `Restart` | the user; a new server process |

`Slice(n, p, v)` is what the offsets that name `n` has in text `p` cut out of
text `v`: its body when `p = v`, anything else otherwise. Vectors stand for the
cards they were made from. Rowids and symbol ids are numbers, since the
fingerprint compares the first and SQLite may reuse them, while AUTOINCREMENT
never reuses the second.

## Runs

| Run | Instance | Checks |
| --- | --- | --- |
| `reindex_single` | 1 process, 2 files of which one is a component, 4 contents, a route, 2 edits of files or templates, 1 request besides the automatic calls, 1 fault, 1 commit with lost inserts, no foreign keys; two disks to start from | rows are those of the hash and no edge dangles after any sequence of calls, a fault included; without one edges, states and features agree too |
| `reindex_pair` | 2 processes, the same files, 1 edit of a file or template, 1 request besides the automatic calls, 1 fault, no lost insert, foreign keys, fairness; one disk | `HashNamesRows`, `NoDanglingEdges`, `EdgesRestored`, `ReplacedTogether`, `ImplementsFileIndex`, `IndexConverges` |
| `init_single` | 2 inits one after the other, 1 session, 2 edits, 1 fault | `NeverHalfBuilt`, `PublishedUpToDate`, `PublishedReparsed` |
| `resolution` | about 1500 repositories of 3 files, in every order of rows | what relationships resolve to, edges after reindexing |
| `queries` | every index of 4 symbols in 2 files with at most 3 of 12 edges, 16 denser ones for the lookups, 9 that another process reindexes; every tool, every combination of its arguments | what the answers promise of the graph, of the files and of each other |
| `semantic` | 1 file, 2 texts, 2 models, 2 edits, 1 change of the model, 1 healing, 5 symbol ids | `SourceAligned`, `VectorsBelong`, `CacheFresh` |
| `reindex_panic`, `reindex_scan`, `init_unlinked`, `init_foreign_log`, `resolution_alias`, `cycles_unattributed` | smallest instance that shows it | a violated statement each, see below |

The properties in words:

- `HashNamesRows`: each path has at most one row; no symbol or relationship of it
  is of another content than its hash names, and all are there unless an insert
  of the very transaction that wrote the row failed. A component's relationships
  are those of one template, whichever. Readers slice files by
  stored offsets when the hash matches, so this is what makes them right.
- `NoDanglingEdges`: `query::validation` says dangling edges "should always be
  zero".
- `EdgesRestored`: edges of consumers that were deleted with the files they
  point into are back once no process is between its first transaction and its
  edge flush, if nothing failed.
- `StatesMatchEdges`, `FeaturesMatchSymbols`: the other two derived tables agree
  with the rows when everything is idle. One process only: see below.
- `ReplacedTogether`: a commit replaces its whole batch and nothing else.
- `ImplementsFileIndex`: the content_hash column behaves as `FileIndex` says; no
  later step of a call disturbs it.
- `IndexConverges`: once the user stops editing, every indexed file becomes and
  stays up to date.
- `NeverHalfBuilt`: the database others open is never the one an init is still
  writing, an init that follows a crashed one included.
- `PublishedUpToDate`, `PublishedReparsed`: what is published describes the disk
  if no file changed since the walk; an index of another pipeline version is
  reparsed.
- `AnnotationWins`, `SingletonFollowed`, `AliasesClosed`: the type of a variable
  is the annotated one whatever else is known; an imported instance has the type
  its file constructs it from, whichever of several constructions comes last; what an alias can be given it has been given.
- `OutsideReceiversUnlinked`, `ConfidentEdgesTyped`: no phantom dependency, which
  would be an edge of full confidence to a symbol that only shares a name.
- `TerminalContracts`: the final state of a relationship and its candidates fit,
  as the resolver's assertions and the builder expect.
- `IncrementalMatchesFull`: reindexing unchanged files leaves the edges of a full
  index, with their confidences, if every name is defined once.

- `ExploreComplete`: an answer of `explore_graph` that does not say it is cut holds
  everything within the depth asked for; whatever it holds is within it.
- `ExploreOfCall`: while another process replaces a file, an answer may mix two
  states of the index, but every edge of it was in one of them, none dangles,
  every node hangs on the root, and the caps hold.
- `ExploreReplacesSubtree`: the two walks agree where neither is cut, but for
  self-loops.
- `PathShortest`: a path is found exactly when there is one, and none is shorter.
- `CyclesFaithful`: no graph with a cycle along edges with a source is called
  acyclic; each cycle is one of the relation the code searches along and
  listed once, whichever node the search entered it by. Whether an edge
  without a source may be part of one is left to `UnattributedIgnored`, which is
  violated.
- `NeighboursAgree`: who calls whom reads the same from both ends of an edge.
- `SubsystemConsistent`: symbols, files, consumers and entry points of an answer are
  of one set, also when the cap on files cut it.
- `ResolveNeverGuesses`: the symbol a tool works on has the name asked for, is in the
  hinted files and is the only one there that it could be.
- `SearchTells`, `FusionFair`: a search says what it left out and never hides the exact
  match behind another of its name; a result preferred by both lists is preferred.
- `SourcesTold`: a skeleton shows each line once or collapses it into one symbol that is
  not the target; each dependency is returned, stubbed or named as omitted.
- `SourceAligned`: the source handed out by `get_edit_context` is the symbol's body in
  the text the index describes, or it is withheld, whatever was edited and reindexed
  while the request ran; `read_symbol_source` keeps it for a file as it was indexed.
- `VectorsBelong`: a vector is of a symbol the index has and was made of its name, path
  and body, if the file did not change under the call that embedded it.
- `CacheFresh`: a search answers from the configured model's vectors, and a cache hit is
  what the table has, as long as no vectors were deleted.

**Bounds.** `MaxEdits`, `MaxRequests`, `MaxFaults`, `MaxInits`, `MaxOpens` bound
what the environment does; the automatic reindexing is not bounded. Two files
are a definition and its consumer. Of the four contents one defines `helper`,
one refers to it, one does both, which makes the name ambiguous, and one does
not parse. Two processes suffice for an overtaken read. An edit lets a file
change while a call that read it is running; in `reindex_single` a second one
changes it, or the template it was bound to, again. The request and the automatic
calls of `reindex_pair` overlap. Lost inserts are left to `reindex_single` to keep the
run of two processes small; the theorems have both. The one template binds an event to a function; where
the file defines another symbol first, its line falls within that one.
`ScanLimit` is 2, the number of files, except in `reindex_scan` where it is 1.
The repositories of `MCResolution` vary a class (a recursive method, a second
class or a function with the same method name), an instance of it or a function
that returns one, and a user of it: its imports, bindings, receiver and language.
Three files are a definition, an instance and a use; the order of their rows is
any permutation, which every sequence of reindexing leads to. Of the four symbols of
`MCQueries` two share a name in different files and, in some indexes, a range or a
file; three edges make a path, a triangle, a cycle through a file node, a parallel
kind, a self-loop. The limits asked for are below, at and above what there is, and the
caps of the code (nodes, edges, seeds, files of a subsystem, items of a profile) are
constants small enough to be met. `Precision` is a million, enough for lists far longer
than these. `MaxId` 5 in `semantic` lets a file of two symbols be
replaced and healed; the theorems about it need no bound.

**Fairness.** `FairSpec` assumes weak fairness of each process's own steps (a
call that has begun runs on: it waits for nothing but a five second busy
timeout) and of the stale check (tools keep being called, and `tools/call`
checks before each one except `set_workspace` and `reindex_workspace`;
`run_detached` waits for the child). Nothing is assumed of edits, requests or
faults. The only liveness claim, `IndexConverges`, is about an index whose files
fit the scan limit.

**Stopping.** The runs of `Reindex`, `InitPublish` and `Semantic` allow deadlock:
with their bounds used up and nothing stale, the system has nothing to do.
`Resolution` and `Queries` are checked for it.

## What the code does not keep

Six statements of the repository's comments, tests or assertions fail, each shown by a
run of its own and quoted in `PROJECT.json`:

- `reindex_panic`: `extract_features` unwraps the community of a neighbour that
  was committed between its two reads.
- `reindex_scan`: the limit of `get_stale_files` is on the rows it looks at, so
  an edited file beyond the 2000th row is never found.
- `init_unlinked`: a copy taken between the two halves of a session's call has
  current hashes and no edges; `nothing_changed` publishes it.
- `init_foreign_log`: the old log is removed before the rename, and a session
  may make a new one in between.
- `resolution_alias`: `const q = r; q.find()` is not followed to the type of `r`,
  as a fixture and a comment say: the call gives `q` a provisional type first.
- `cycles_unattributed`: a test says "NULL-source edges must not form cycles"
  (`graph.rs:2220`), and a comment that they are "intentionally excluded, matching
  dependency_cycles" (`graph.rs:287-288`). They are edges of their file, to
  which each symbol leads: two files that import from each other at top level are a
  cycle. The test has both its edges within one file, where they are skipped.

Others are in the model and limit what the properties claim. "Any error inside rolls
the whole batch back explicitly", says a comment (`reindex.rs:116-120`), but errors of
`insert_symbol`, `insert_relationship` and `insert_semantic_binding` are dropped
(lines 153-164), and a file with missing rows has the hash of a complete one until it changes
(`ReplacePartly`; `HashNamesRows` excepts those rows). A template that is edited leaves
the relationships read from the old one, as only the component's own file is hashed
(`EditTemplate`). With two processes
an old snapshot of features or of relationship states may be written last
(`FeaturesMatchSymbols` and `StatesMatchEdges` are claimed of one process).
After a crash or a failed pass 2 edges stay lost until the next reindexing call
(`EdgesRestored` is claimed without faults). When `BEGIN IMMEDIATE` fails in
`extract_features`, readers can see the features table empty (`DeleteFeatures`),
against the comment there. An init that reparses everything leaves the rows of
a file that no longer parses and stamps them as current (`PublishedReparsed`
excepts it), while `reindex_paths` deletes such a file's rows. A busy
checkpoint or a session's commit makes the copy of the live database incomplete
(`CheckpointLive`, `CopyLive`). Two inits at once share the temporary path, and
nothing keeps one from removing or publishing the file the other is writing:
`InitPublish` has one init at a time, which may be crashed and started again.
Pass 2 resolves every relationship of the repository, although the
comment at `reindex.rs:181` describes a scope; `EdgesRestored` depends on it.

In the resolver, `x = Foo()` in Python is a relationship of kind `instantiates`
with source `x`, which `MemberResolverStage` takes for a receiver: it types `x`
as `Foo`, looks for a method `Foo` in `Foo` and ends as missing, so that only the
`calls` relationship of the same line links to `Foo`. For the same reason as in
`resolution_alias` a receiver nothing is known of ends as missing and never as
dynamic, a bare `this.m()` outside a class included. A method that calls itself
through `this` is resolved as a repository symbol, not as recursive; the builder
drops the loop. Where several classes of one name have the method, or an edit
changes what an untouched file's relationship resolves to, the edges depend on
the history: pass 2 inserts and never removes, hence the conditions of
`IncrementalMatchesFull`.

In the semantic part, the comment in `get_edit_context` says its source is read
after any reindexing too (`mcp/src/main.rs:1521`), but it is read by the id the
symbol had before: after a healing the answer has no source. Healing deletes the
vectors and concept tags of the file's old symbols and restores none. A batch
the embedder refuses is not retried, though a comment says so
(`embeddings.rs:138`), since the next backfill is narrowed to the symbols it was
told of. A card is cut out of the live file with stored offsets, so an edit at
that moment stores a vector of something else (`VectorsBelong` excepts it, by
`used.raced`). The fingerprint of the cache is a count and a highest rowid, which
come again when vectors are deleted and others inserted: a stale cache is then
served (`CacheFresh` excepts it, by `used.lost`). `read_symbol_source` of the
server compares no hash, while its description promises the exact source.

In the query engine and the resolution of tools:

- Hotspots count rows: self-loops and parallel kinds count, confident edges of a
  receiver do not, though a comment (`graph.rs:2225`) says counts never diverge.
- Whether a cycle of `dependency_cycles` crosses files is decided by its first 40 nodes.
- `shortest_path` never crosses an HTTP call: interaction edges have no source, and
  the edges its comment counts on (`graph.rs:838`) are those of
  `detect_logical_edges`, which nothing calls. The connector is suggested from the live file, whose
  hash is not compared.
- `subsystem_communication` matches `dir%`, hence also a sibling directory whose
  name begins alike. The cap on files keeps the lowest ids and may drop a seed.
  The cohesion divides edges read now by degrees stored in `symbol_features`, of
  whichever index was there when they were written, or by 1 without a row.
- Command line symbols are routes in the statistics of a subsystem and `cli` in
  `list_entrypoints`; `entrypoints.rs:5` says tools cannot disagree. A `.tsx` file
  in a root level `pages/api` is a page, a `.ts` file there no entry point.
- `resolve_symbol` with a line hint that rules out every candidate answers
  `Ambiguous` without one, though the comment says the rows are restored; with a
  line and no file it takes the closest line in any file (`pipeline.rs:132`).
- `resolve_search` may return more concepts than the limit; semantic mode never
  says that it was cut; `rrf_fuse` adds up the ranks of a result that one list
  has twice; the text scan and `explore_graph` may say they were cut when they
  were not, and the JSON form of a context drops lists without saying so.
- `read_file_skeleton` collapses symbols nested in the target it promises to
  leave expanded (`retrieval.rs:715`). `get_context` looks its symbol up again by
  name for the source (`mcp/src/main.rs:980`), `read_symbol_source` its
  dependencies, of which a recursive symbol is one itself.
- `find_duplicate_logic` groups verbatim the snippets it rejected as logging
  (`duplicates.rs:37`), and a group has the length of its first member.
- `tag_concepts` deletes and inserts without a transaction (`concepts.rs:86`), and
  interaction edges are matched with the disk as it is then; nothing removes one.

## Proofs

Thirty-seven theorems, each for every value of the constants the named assumption
allows. The runs were used first, on each invariant that could be checked.

| Module | Theorem | States | From |
| --- | --- | --- | --- |
| `Reindex_proofs` | `TypeCorrect` | `Spec => []TypeOK` | `ContentAssumption`, `ReindexAssumption` |
| | `RowsCorrect` | `Spec => []HashNamesRows` | |
| | `ReplacedCorrect` | `Spec => ReplacedTogether` | |
| | `EdgesCorrect` | `Spec => []NoDanglingEdges` | foreign keys are enforced |
| | `RestoredCorrect` | `Spec => []EdgesRestored` | |
| | `StatesCorrect` | `Spec => []StatesMatchEdges` | one process, finitely many paths and names |
| | `FeaturesCorrect` | `Spec => []FeaturesMatchSymbols` | the same |
| | `NoPanicCorrect` | `Spec => []FeaturesNeverPanic` | the same |
| | `AloneEdgesCorrect` | `Spec => []NoDanglingEdges` | the same; no foreign keys needed |
| | `RefinementCorrect` | `HSpec => ImplementsFileIndex` | |
| `InitPublish_proofs` | `TypeCorrect` | `Spec => []TypeOK` | `InitPublishAssumption` |
| | `NeverHalfBuiltCorrect` | `Spec => []NeverHalfBuilt` | |
| | `PublishedUpToDateCorrect` | `Spec => PublishedUpToDate` | |
| | `PublishedReparsedCorrect` | `Spec => PublishedReparsed` | |
| `Resolution_proofs` | `ContractsCorrect` | `Spec => []TerminalContracts` | `RepositoryAssumption`, as for the next six |
| | `ResolutionTyped` | `Spec => []TypeOK` | |
| | `EdgesTyped` | `Spec => []ConfidentEdgesTyped` | |
| | `AnnotationsWin` | `Spec => []AnnotationWins` | |
| | `OutsideStaysOutside` | `Spec => []OutsideReceiversUnlinked` | |
| | `SingletonsFollowed` | `Spec => []SingletonFollowed` | |
| | `AliasesClose` | `Spec => []AliasesClosed` | |
| `Queries_proofs` | `QueriesTyped` | `Spec => []TypeOK` | `GraphAssumption`, `NewIdAssumption`, `QueriesAssumption`, as for all that follow here and in `Searches_proofs` |
| | `ExploreStaysOfCall` | `Spec => []ExploreOfCall` | `CapAssumption` |
| | `ExploreIsComplete` | `Spec => []ExploreComplete` | `CapAssumption` |
| | `ExploreReplaces` | `Spec => []ExploreReplacesSubtree` | `CapAssumption` |
| | `PathsAreShortest` | `Spec => []PathShortest` | |
| | `ContextsMirror` | the lists of two contexts agree on an edge between them | edges end in symbols of the index |
| | `ContextsAgree` | `Spec => []NeighboursAgree` | `BudgetAssumption` |
| | `ResolverNeverGuesses` | `Spec => []ResolveNeverGuesses` | |
| | `SubsystemsConsistent` | `Spec => []SubsystemConsistent` | `SubsystemAssumption` |
| | `CyclesAreFaithful` | `Spec => []CyclesFaithful` | `CapAssumption` |
| | `SourcesAreTold` | `Spec => []SourcesTold` | `DependencyAssumption` |
| `Searches_proofs` | `SearchesTell` | `Spec => []SearchTells` | `LookupAssumption`, `LikenessAssumption` |
| | `FusionIsFair` | `Spec => []FusionFair` | the same and `PrecisionAssumption` |
| `Semantic_proofs` | `SourcesAligned` | `Spec => []SourceAligned` | `SemanticAssumption` |
| | `VectorsCorrect` | `Spec => []VectorsBelong` | |
| | `CacheCorrect` | `Spec => []CacheFresh` | |

**Rows and edges of `Reindex`.** `RowsInv` adds to typing and `RowsMatchHash` that
every file row was inserted by a transaction up to `gen` (`Fresh`): without it a
new row could have the id of an old one, and its symbols would be mixed with the
old row's. Both commits, whole and with losses, are one case of the proof: `Commits(w, new)`
with rows `new` that are `RowsFrom` what was parsed; that they are all of it
(`ParsedFrom`) or some (`RemainsFrom`) matters only for `RowsComplete`. `EdgeInv` adds that each edge comes with a source symbol of the edge's
own file (`EdgesAnchored`), and, for what each process holds between its reads
and its writes (`Held`), that a relationship it read whose file row is still
there is itself still there, and that the interaction edges it is about to
insert have no source. The last is what makes a late `FlushEdges` sound: a
foreign key guards the edge's file and target, not its source, so the source
must live and die with the file. `Reindex_proofs` has a lemma for each operator of `IndexDb` and one step per
action, grouped by what the action may touch.

**Lost edges come back.** `RestoreInv` says that each relationship that should be
linked to a symbol is, or some call has promised the edge: its reads are still to
come, or it has read the relationship, or the relationship and all that resolves
it. A promise is kept until its `FlushEdges`. What has to be shown is that a
commit under a promise either takes the relationship with it or is itself a new
promise: the call that replaced a row reads after its commit.

**Refinement.** `HInv`: a call that is reading has seen each file of its batch as
it is now, and what it has parsed of a file is a content it has seen
(`Witnessed`). Each action is then an `Edit`, `Begin`, `Commit`, `Abandon` or a
stutter of `FileIndex`; in particular everything after the first transaction
leaves `files` alone.

**One process.** `AloneInv`: what the call holds is what the database has, as
nobody else writes, and each derived table agrees with the rows from the step
that writes it on. Finiteness is needed because `StateOf` compares the number of
candidates with one. The panic of `reindex_panic` and the stale tables that two
processes leave are what the hypothesis excludes.

**Publication.** `NamesInv`: the temporary and the published name are of
different inodes, and init has the temporary one open or none. From that,
`NeverHalfBuilt` and that no session writes to the inode being built. `BuildInv`
follows its content: what is read of the disk but not inserted is right unless
the user edits, a row an older pipeline wrote is a row, and what was inserted
describes the disk. The heart is `InsertedDescribes`, on the rows init leaves
alone, deletes and inserts.

**Folds.** The engine's passes, a walk's queue and a subsystem's hops are folds or
recursive functions over sequences of rows. `FoldTheorems` states once, for a step
operator it takes as a constant, that a fold is the last state of a run
(`IsRun`), and what a run that selects some members of a sequence ends with: which,
how many and in which order; a proof module instantiates it with the model's own steps. So an
argument about a loop of the code is an invariant of its body, as it would be
of an action.

**Resolution.** `Inv` says of each phase that the snapshot, the types of variables,
the outcomes and the edges are those of the rows as they stand (`FlowCurrent`,
`OutcomesCurrent`), and that every edge, those of earlier reindexings included,
is one the contract of a final state allows (`EdgesSound`).
`Flow` is a chain of stages, and a stage is a run: `Holding(v, K, t)`, that all types
are typed and those of the keys `K` are `t` with certainty, is kept by each
stage and established for an annotated variable by `LoadBindings`; nothing of
lower confidence replaces it. For a singleton the argument is `AtMost`: before
`LoadConstructors` nothing is known of the instance, every row that
constructs it gives the same type (`Settles`), and the import copies that.
`AliasesClosed` counts: a pass over the aliases of a file that leaves one open
has given a type to one that had none (`PassesSettle`), so the passes, as
many as there are aliases, end with none open.

**Queries.** `SessionInv`: the index is well formed, rows another process holds back
for its link phase still fit it (`RowsFit`), and a walk in progress is `Tidy`
with respect to every version of the index it has seen: its edges were rows of
one, its nodes hang on the root, its queue is of its nodes. New ids never used
before make a version's symbols disjoint from what replaced them. Over one index
`OneIndexInv` adds `Walked`: whatever has left the queue has had all its
rows taken, and the queue is in the order of distance, so that nothing
found later is nearer. `graph_subtree` is the same walk with its own filter, so
`SubtreeInv` compares the two through `Walked`. For `shortest_path`
`Searching` is the invariant of the outer loop (who is seen, at which
distance, by which edge), `Relaxing` that of the rows at one node, and
`WalkedBack` that of the reconstruction from the end. `ContextInv` keeps that an
answer's lists are drawn from the lists of its context, whatever the
budget cut; the two ends agree because each list is a selection by one end of
the same rows. `ResolveInv` follows the two stages and their filters;
`SubsystemInv` rests on `Matched`, the invariant of the hops, with the case of
the cap on files apart.

`GraphAssumption` is that each index is `WellFormed`: finitely many files and
symbols, and each edge of a file of the index and to a symbol of it, as the
schema's foreign keys enforce (`storage/src/schema.rs:32`); a source may be missing,
and one that is there is of the edge's own file.

**Order.** The tools sort before they walk or answer. `RanksExist` gives each
member of a finite set its rank under a strict total order, by induction on the
size of the set, `RanksOrder` says that ranks order as the members do, and
`RanksList` that the list made of them has each member once, in order
(`ListsOnce`). What is sorted is always a finite set of rows, so no induction over
sequences is needed.

**Cycles.** `dependency_cycles` is a depth first search with its stack and colours.
`DepthFirst`, its loop invariant, has three parts. `Stacked`: the frames are a
path of distinct visited nodes, each reached by an arc of the one below it.
`Keeps`: each cycle kept is a loop along arcs, turned to begin with its least
node; a loop has one such turn (`TurnedOnce`), so no cycle is kept twice. `Clean`:
as long as no cycle was found, the nodes that were left are `Graded`, that is, a
rank falls along every arc from them, so that none of them can return to
itself. A step either takes a slot of the top frame or drops the frame, and a
frame dropped gets a rank above all below it. What is still to be done (`Ahead`:
the slots not yet taken, and the roots) falls with every step, so the
search ends within the steps the model allows it. `CyclesFaithful` is then read off
an empty stack: no cycle returned means that all nodes are graded, so no node comes back
to itself along any of the arcs, those with a source among them (`NoReturn`).

**Sources.** Two loops. `Accounts` is the invariant of the one that appends
dependencies: each symbol passed was taken or its name omitted, and what was taken
is as many as the cap lets in of those that are values. The other walks the symbols of a file in order of their first
line: what it has shown and collapsed covers the lines above the point it has
come to, each once (`Shows`). That no line comes twice rests on the order, and
that each comes on the last stretch shown after the loop.

**Searches.** What the stages find is a finite set of results whose scores are numbers,
in which, of two symbols of one name, one that does not outrank the other does not claim
to be the exact match (`OneExact`): that is what the demotion of namesakes is for. Sorted and cut at the limit the list still ranks (`Ranks`), and
holds all that was found if that fits. The concepts are then put between the results
of a high and of a low score; the two parts keep the order of the list they
divide (`RankingDivides`), nothing of the one part has the score of the other, and
a concept is no symbol of the first leg, so no namesake gets ahead (`BestFirst`).

**Fusion.** `Added` is the invariant of the loop over one list: what the table held
before, plus for each of the ranks passed its contribution. After both lists
the points of a result are the sum of its two shares (`Totals`), and a share falls
strictly with the rank (`ContributionsFall`), by `PrecisionAssumption`. So a
result that leads another wherever that one is listed has strictly more
points, and the sort, whose ties are broken by a strict order (`SortedIs`), puts it
first (`FusionFairly`); the cut keeps a prefix.

`LikenessAssumption` gives the search numbers to work with: the likeness of a text
to a name, a path or a line, the parts of `symbol_features` it ranks by, finitely many lines
in a file. `PrecisionAssumption` stands for the floating point of the code, where the
contributions of neighbours, and their sums, differ in any list of fewer than ten
million; the model counts in units of which `Precision` make one, and asks that there
be enough of them for the longest list a caller may get.

**Semantic.** `RowsInv`: the rows are those of the texts indexed, under ids the
counter has given out. `ServerInv` and `CliInv` say that an id held across the
steps of a request or a backfill is its symbol's or nobody's: that ids are never
used again is what makes holding one harmless. `VectorsInv` adds a highest
rowid, `FreshInv` that nothing else has written vectors of the symbols a call
inserted. So a write of vectors only adds rows, above those there were, and
`CacheInv` can say that the same highest rowid means the same entries, until
vectors are deleted.

Only checked by TLC:

- `IndexConverges`, which needs fairness and ENABLED.
- `IncrementalMatchesFull`: it is claimed of the instance. Where the type of a
  function's result or a chain of imports depends on the order of the files, the
  edges that stay of a file depend on the history, so its conditions would have
  to exclude that before it could hold of every repository.

`StatesMatchEdges` and `FeaturesMatchSymbols` of several processes are not true and
not claimed.

## Not modelled, and the plan

What could still be added:

1. The MCP server's selection of a workspace, with several sessions and the shared
   `active_project` file.
2. `init`'s carry-over of vectors by `body_hash`, and its own backfill.
3. What a call of `reindex_paths` rewrites besides: `semantic_bindings`, metrics,
   the pipeline manifest, symbol concepts as separate statements.
4. The label propagation and pagerank of `extract_features`, which the model takes
   for a row per symbol; `fetch_data_model_dependencies`; semantic summaries.
5. Errors of reads: the resolver of tools turns them into an empty answer that does
   not say it is cut (`resolver/src/pipeline.rs:698`) or into a name not found
   (lines 190 and 238); `ResolveSearch` and `ResolveSymbol` have none.
6. `explore_graph` is the one query taken statement by statement. The others are
   one step of one snapshot; each is several statements without a transaction.

Hazards no property covers: two inits at once share the temporary path, and
embedding batches that fail. In both the code makes no promise that a property
could hold it to.

Left out for good: the parser's queries (tree-sitter; used through `Defs`, `Refs`,
`Parses`), the embedders (network and arithmetic), the likeness of vectors,
texts and names, the analytics server and dashboard, the diagnostics and
developer reports, process spawning, `detect_logical_edges` and the traversal
engine of the graph crate, which nothing calls. In the modelled parts: the
builder's metrics, the tracing of decisions, the wording and layout of answers,
and the `init` panic on a file row without a hash.
