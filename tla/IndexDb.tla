------------------------------ MODULE IndexDb ------------------------------
(***************************************************************************)
(* The rows of .codebroker/codebroker.db that the indexing pipeline works  *)
(* on, and what each statement or transaction of the storage layer does to *)
(* them.  A database is a record of row sets; no operator here has state,  *)
(* so the same operators serve the one database of Reindex and the several *)
(* files of InitPublish.                                                   *)
(*                                                                         *)
(* Row ids.  Every table uses INTEGER PRIMARY KEY AUTOINCREMENT, so a row  *)
(* inserted by a transaction has an id no earlier row ever had.  A path    *)
(* occurs at most once in a transaction (files.path is UNIQUE), hence the  *)
(* id of a file row is <<path, number of the inserting transaction>> and   *)
(* that of a symbol row is its file id with its name.  Symbols of one file *)
(* with the same name and kind are told apart by start_byte in the code;   *)
(* here they are told apart by name.                                       *)
(***************************************************************************)
EXTENDS Naturals, FiniteSets

CONSTANTS
    Path,         \* stored paths, "./src/a.ts"
    Content,      \* what a file may contain; a content stands for its hash
    Name,         \* names of symbols
    Parses,       \* contents for which a frontend returns output
    Defs,         \* Defs[c]: names of the symbols content c defines
    Refs,         \* Refs[c]: <<referenced name, enclosing symbol or NoSymbol>>
    Component,    \* paths ending in .component.ts
    Template,     \* what the .html beside a component may contain
    Bound,        \* Bound[c][t]: like Refs[c], from the event bindings of t
    Routes,       \* names of symbols of kind route, endpoint or handler
    Literals,     \* Literals[c]: routes named by an HTTP call literal of c
    ForeignKeys,  \* does the SQLite build enforce foreign keys?
    NoContent,    \* a file or template that is absent, or a file that did not parse
    NoSymbol      \* NULL in edges.source_symbol_id

ASSUME ContentAssumption ==
    /\ Parses \subseteq Content
    /\ Routes \subseteq Name
    /\ Defs \in [Content -> SUBSET Name]
    /\ Refs \in [Content -> SUBSET (Name \X (Name \union {NoSymbol}))]
    /\ \A c \in Content : \A ref \in Refs[c] : ref[2] \in Defs[c] \union {NoSymbol}
    /\ Component \subseteq Path
    /\ Bound \in [Content -> [Template -> SUBSET (Name \X (Name \union {NoSymbol}))]]
    /\ \A c \in Content, t \in Template :
          \A ref \in Bound[c][t] : ref[2] \in Defs[c] \union {NoSymbol}
    /\ Literals \in [Content -> SUBSET Routes]
    /\ ForeignKeys \in BOOLEAN
    /\ NoContent \notin Content \union Template
    /\ NoSymbol \notin Name

----------------------------------------------------------------------------
(* Rows.  PathOf(id) is files.path; OwnerOf(s) is symbols.file_id. *)

FileId == Path \X Nat
SymbolId == FileId \X Name
PathOf(id) == id[1]
OwnerOf(sym) == sym[1]
NameOf(sym) == sym[2]

FileRow == [id : FileId, hash : Content]

RelationshipRow ==
    [file : FileId, name : Name, encl : Name \union {NoSymbol}]

(* relationships.state; a row absent from resolved still has the NULL it was *)
(* inserted with.                                                            *)
ResolutionState == {"repository_symbol", "recursive", "missing", "ambiguous"}

EdgeRow == [file : FileId, src : SymbolId \union {NoSymbol},
            tgt : SymbolId, kind : {"static", "interaction"}]

Database == [files : SUBSET FileRow,
             symbols : SUBSET SymbolId,
             relationships : SUBSET RelationshipRow,
             resolved : SUBSET (RelationshipRow \X ResolutionState),
             edges : SUBSET EdgeRow,
             features : SUBSET SymbolId]

EmptyDb == [files |-> {}, symbols |-> {}, relationships |-> {},
            resolved |-> {}, edges |-> {}, features |-> {}]

FileIds(db) == {row.id : row \in db.files}
RowsOf(db, paths) == {id \in FileIds(db) : PathOf(id) \in paths}

----------------------------------------------------------------------------
(* delete_file_data without DELETE FROM edges ... target_symbol_id IN ... *)
DeleteFileData_KeepIncoming(db, ids) ==
    [files         |-> {row \in db.files : row.id \notin ids},
     symbols       |-> {s \in db.symbols : OwnerOf(s) \notin ids},
     relationships |-> {r \in db.relationships : r.file \notin ids},
     resolved      |-> {x \in db.resolved : x[1].file \notin ids},
     edges         |-> {e \in db.edges : e.file \notin ids},
     features      |-> db.features]

(* delete_file_data, for every row id of the set ids.  The statements name  *)
(* the edges, relationships, symbols and the file; symbol_features rows     *)
(* disappear only through ON DELETE CASCADE, that is with ForeignKeys.      *)
DeleteFileData(db, ids) ==
    [files         |-> {row \in db.files : row.id \notin ids},
     symbols       |-> {s \in db.symbols : OwnerOf(s) \notin ids},
     relationships |-> {r \in db.relationships : r.file \notin ids},
     resolved      |-> {x \in db.resolved : x[1].file \notin ids},
     edges         |-> {e \in db.edges : /\ OwnerOf(e.tgt) \notin ids
                                         /\ e.file \notin ids},
     features      |-> IF ForeignKeys
                       THEN {s \in db.features : OwnerOf(s) \notin ids}
                       ELSE db.features]

(* The templates path p may have: a file that is no component has none *)
TemplatesOf(p) == IF p \in Component THEN Template \union {NoContent} ELSE {NoContent}

(* The relationships of content c beside template t.  The line of a handler *)
(* is its line in the template, so the symbol around it is whichever symbol *)
(* of c covers a line of that number.                                       *)
References(c, t) == Refs[c] \union (IF t \in Template THEN Bound[c][t] ELSE {})

(* The rows one ParsedFile contributes: path p, read as content c with      *)
(* template t, inserted by transaction number gen.                          *)
SymbolRows(p, c, gen) == {<<p, gen>>} \X Defs[c]

RelationshipRows(p, c, t, gen) ==
    {[file |-> <<p, gen>>, name |-> ref[1], encl |-> ref[2]] : ref \in References(c, t)}

(* The rows of the paths ps, parsed[p] and markup[p] being the content and  *)
(* the template p was read with.                                            *)
ParsedRows(ps, parsed, markup, gen) ==
    [files         |-> {[id |-> <<p, gen>>, hash |-> parsed[p]] : p \in ps},
     symbols       |-> UNION {SymbolRows(p, parsed[p], gen) : p \in ps},
     relationships |-> UNION {RelationshipRows(p, parsed[p], markup[p], gen) : p \in ps}]

(* Relationship r when the rows ss alone are there of its file's symbols:   *)
(* with the row around it missing, a wider one is around it, or none.       *)
Among(r, ss) ==
    IF r.encl = NoSymbol \/ <<r.file, r.encl>> \in ss THEN {r}
    ELSE {[r EXCEPT !.encl = n] :
             n \in {NoSymbol} \union {NameOf(s) : s \in {x \in ss : OwnerOf(x) = r.file}}}

(* What is inserted of the rows new when the insert of some symbols or      *)
(* relationships fails: their errors are ignored.                           *)
Remains(new) ==
    UNION {{[files |-> new.files, symbols |-> ss, relationships |-> rs] :
              rs \in SUBSET UNION {Among(r, ss) : r \in new.relationships}} :
           ss \in SUBSET new.symbols} \ {new}

InsertRows(db, new) ==
    [files         |-> db.files \union new.files,
     symbols       |-> db.symbols \union new.symbols,
     relationships |-> db.relationships \union new.relationships,
     resolved      |-> db.resolved,
     edges         |-> db.edges,
     features      |-> db.features]

----------------------------------------------------------------------------
(* Linking.  The relationships of this model are those that reach the       *)
(* lexical stages of the resolver: a receiver or an import source that      *)
(* settles a relationship earlier is outside this module.                   *)

(* SymbolIndex::find_by_name over a snapshot of the symbols table *)
FindByName(syms, name) == {s \in syms : NameOf(s) = name}

(* enclosing_symbol_id returning the symbol's name instead of its row id *)
EnclosingSymbol_Name(r) == r.encl

(* enclosing_symbol_id: the symbol row around a relationship's line *)
EnclosingSymbol(r) ==
    IF r.encl = NoSymbol THEN NoSymbol ELSE <<r.file, r.encl>>

(* RankingStage had it recorded a tie as resolved *)
StateOf_TieResolved(r, syms) ==
    LET candidates == FindByName(syms, r.name) IN
    CASE candidates = {} -> "missing"
      [] candidates = {EnclosingSymbol(r)} -> "recursive"
      [] OTHER -> "repository_symbol"

(* LexicalGenerationStage and RankingStage: every candidate scores 0.0, so  *)
(* two candidates are a tie.                                                *)
StateOf(r, syms) ==
    LET candidates == FindByName(syms, r.name) IN
    CASE candidates = {} -> "missing"
      [] candidates = {EnclosingSymbol(r)} -> "recursive"
      [] Cardinality(candidates) > 1 -> "ambiguous"
      [] OTHER -> "repository_symbol"

(* Resolved to the one symbol s that is not the enclosing one *)
LinksTo(r, s, syms) ==
    FindByName(syms, r.name) = {s} /\ s # EnclosingSymbol(r)

(* GraphBuilder::build: one edge for each relationship resolved to a symbol *)
StaticEdges(rels, syms) ==
    UNION {{[file |-> r.file, src |-> EnclosingSymbol(r), tgt |-> s, kind |-> "static"] :
                s \in {t \in syms : LinksTo(r, t, syms)}} : r \in rels}

(* No foreign key check *)
ReferencesExist_Unchecked(db, e) == TRUE

(* What a foreign key check accepts: source_symbol_id carries no key *)
ReferencesExist(db, e) ==
    ForeignKeys => /\ e.file \in FileIds(db)
                   /\ e.tgt \in db.symbols

(* flush_edges / insert_interaction_edge: INSERT OR IGNORE of each edge; a  *)
(* row that fails its foreign key is counted as a failure and skipped.      *)
InsertEdges(db, es) ==
    [db EXCEPT !.edges = @ \union {e \in es : ReferencesExist(db, e)}]

(* Resolver::execute's UPDATE ... WHERE id: rows deleted meanwhile match nothing *)
UpdateStates(db, rels, syms) ==
    [db EXCEPT !.resolved =
        {x \in @ : x[1] \notin rels} \union
        {<<r, StateOf(r, syms)>> : r \in rels \intersect db.relationships}]

(* infer_interactions: file row id, whose file holds content c on disk now, *)
(* against the route symbols of the database.                               *)
InteractionEdges(ids, disk, syms) ==
    {[file |-> x[1], src |-> NoSymbol, tgt |-> x[2], kind |-> "interaction"] :
        x \in {y \in ids \X syms :
                 /\ disk[PathOf(y[1])] # NoContent
                 /\ NameOf(y[2]) \in Literals[disk[PathOf(y[1])]]}}

(* The database a full index of the given disk publishes: every parsed file *)
(* inserted by transaction 0, linked, with its features.                    *)
FullIndex(disk, template) ==
    LET ps   == {p \in Path : disk[p] \in Parses}
        base == InsertRows(EmptyDb, ParsedRows(ps, disk, template, 0))
        linked == UpdateStates(base, base.relationships, base.symbols)
    IN  [linked EXCEPT
            !.edges = StaticEdges(base.relationships, base.symbols)
                      \union InteractionEdges(FileIds(base), disk, base.symbols),
            !.features = base.symbols]

----------------------------------------------------------------------------
(* Integrity of one database *)

(* files.path is UNIQUE *)
UniquePaths(db) ==
    \A f, g \in db.files : PathOf(f.id) = PathOf(g.id) => f = g

(* No symbol of file row f, and no relationship, is of another content than *)
(* its hash names, save the relationships of a template; around each is a   *)
(* symbol row, or none.                                                     *)
RowsAreOf(db, f) ==
    /\ \A s \in db.symbols : OwnerOf(s) = f.id => NameOf(s) \in Defs[f.hash]
    /\ \A r \in db.relationships : r.file = f.id =>
          /\ EnclosingSymbol(r) \in db.symbols \union {NoSymbol}
          /\ \E t \in TemplatesOf(PathOf(f.id)) : \E ref \in References(f.hash, t) :
                /\ r.name = ref[1]
                /\ r.encl = ref[2] \/ <<f.id, ref[2]>> \notin db.symbols

(* All symbols of file row f's hash are there, and all relationships of it  *)
(* beside some one template.                                                *)
RowsComplete(db, f) ==
    /\ {s \in db.symbols : OwnerOf(s) = f.id} = {f.id} \X Defs[f.hash]
    /\ \E t \in TemplatesOf(PathOf(f.id)) :
          {r \in db.relationships : r.file = f.id}
            = RelationshipRows(PathOf(f.id), f.hash, t, f.id[2])

(* No symbol and no relationship outlives its file row *)
OwnersExist(db) ==
    /\ \A s \in db.symbols : OwnerOf(s) \in FileIds(db)
    /\ \A r \in db.relationships : r.file \in FileIds(db)

(* A reader that finds the hash of a file current may trust the symbols and *)
(* byte offsets stored for it (storage/src/db.rs, hash_content); the        *)
(* transactions partial committed although some of their inserts failed.    *)
RowsMatchHash(db, partial) ==
    /\ UniquePaths(db)
    /\ \A f \in db.files :
          /\ RowsAreOf(db, f)
          /\ f.id[2] \notin partial => RowsComplete(db, f)
    /\ OwnersExist(db)

(* query::validation counts edges whose source or target symbol row is gone *)
Dangling(db) ==
    {e \in db.edges : \/ e.file \notin FileIds(db)
                      \/ e.tgt \notin db.symbols
                      \/ e.src # NoSymbol /\ e.src \notin db.symbols}

(* Every relationship that resolves to one symbol has its edge *)
LinksComplete(db) == StaticEdges(db.relationships, db.symbols) \subseteq db.edges

=============================================================================
