--------------------------- MODULE Reindex_proofs ---------------------------
(***************************************************************************)
(* Theorems about Reindex, for any number of processes, paths, contents    *)
(* and faults and any scan limit: first what each statement of IndexDb     *)
(* leaves of the type of a database and of the tie between the rows of a   *)
(* file and its content hash; then the processes; last, for one process,   *)
(* the derived tables (edges, relationship states, features), which        *)
(* several transactions write from reads of their own and which then agree *)
(* with the rows and with each other whenever no call is running.          *)
(***************************************************************************)
EXTENDS ReindexRefinement, FiniteSetTheorems, TLAPS

----------------------------------------------------------------------------
(* Types *)

(* delete_file_data leaves a database *)
LEMMA DeleteType ==
    ASSUME NEW d \in Database, NEW ids
    PROVE  DeleteFileData(d, ids) \in Database
BY DEF Database, DeleteFileData

(* Files are parsed as contents, components beside templates of theirs *)
Parsing(ps, m, t) ==
    ps \subseteq Path /\ \A p \in ps : m[p] \in Content /\ t[p] \in TemplatesOf(p)

(* The rows new are those of the files ps, parsed as m beside t, or what is  *)
(* left of them: each file row, symbols of what was parsed, relationships of *)
(* it inside symbols that are left.                                          *)
RowsFrom(new, ps, m, t, g) ==
    /\ new.files = {[id |-> <<p, g>>, hash |-> m[p]] : p \in ps}
    /\ \A s \in new.symbols : \E p \in ps : \E n \in Defs[m[p]] : s = << <<p, g>>, n>>
    /\ \A r \in new.relationships :
          /\ r \in RelationshipRow
          /\ EnclosingSymbol(r) \in new.symbols \union {NoSymbol}
          /\ \E p \in ps : /\ r.file = <<p, g>>
                          /\ \E ref \in References(m[p], t[p]) :
                               /\ r.name = ref[1]
                               /\ r.encl = ref[2] \/ << <<p, g>>, ref[2]>> \notin new.symbols

(* A relationship is of a name, from within a symbol of its file or none *)
LEMMA ReferenceType ==
    ASSUME NEW p \in Path, NEW c \in Content, NEW t \in TemplatesOf(p),
           NEW ref \in References(c, t)
    PROVE  /\ ref[1] \in Name /\ ref[2] \in Name \union {NoSymbol}
           /\ ref[2] \in Defs[c] \union {NoSymbol}
<1>1. CASE ref \in Refs[c]
  BY <1>1, ContentAssumption
<1>2. CASE t \in Template /\ ref \in Bound[c][t]
  <2>1. Bound[c][t] \subseteq Name \X (Name \union {NoSymbol})
    BY <1>2, ContentAssumption
  <2> QED BY <1>2, <2>1, ContentAssumption
<1> QED BY <1>1, <1>2 DEF References

(* All the rows of parsed files *)
LEMMA ParsedFrom ==
    ASSUME NEW ps, NEW m, NEW t, Parsing(ps, m, t), NEW g \in Nat
    PROVE  RowsFrom(ParsedRows(ps, m, t, g), ps, m, t, g)
<1> DEFINE new == ParsedRows(ps, m, t, g)
<1>1. /\ new.files = {[id |-> <<p, g>>, hash |-> m[p]] : p \in ps}
      /\ new.symbols = UNION {SymbolRows(p, m[p], g) : p \in ps}
      /\ new.relationships = UNION {RelationshipRows(p, m[p], t[p], g) : p \in ps}
  BY DEF ParsedRows
<1> HIDE DEF new
<1>2. ASSUME NEW s \in new.symbols
      PROVE  \E p \in ps : \E n \in Defs[m[p]] : s = << <<p, g>>, n>>
  BY <1>1 DEF SymbolRows
<1>3. ASSUME NEW p \in ps, NEW n \in Defs[m[p]] PROVE << <<p, g>>, n>> \in new.symbols
  BY <1>1 DEF SymbolRows
<1>4. ASSUME NEW r \in new.relationships
      PROVE  /\ r \in RelationshipRow
             /\ EnclosingSymbol(r) \in new.symbols \union {NoSymbol}
             /\ \E p \in ps : /\ r.file = <<p, g>>
                             /\ \E ref \in References(m[p], t[p]) :
                                  r.name = ref[1] /\ r.encl = ref[2]
  <2>0. PICK p \in ps : r \in RelationshipRows(p, m[p], t[p], g)
    BY <1>1
  <2>1. PICK ref \in References(m[p], t[p]) :
            r = [file |-> <<p, g>>, name |-> ref[1], encl |-> ref[2]]
    BY <2>0 DEF RelationshipRows
  <2>2. p \in Path /\ m[p] \in Content /\ t[p] \in TemplatesOf(p)
    BY DEF Parsing
  <2>3. /\ ref[1] \in Name /\ ref[2] \in Name \union {NoSymbol}
        /\ ref[2] \in Defs[m[p]] \union {NoSymbol}
    BY <2>2, ReferenceType
  <2>4. r \in RelationshipRow
    BY <2>1, <2>2, <2>3 DEF RelationshipRow, FileId
  <2>5. EnclosingSymbol(r) \in new.symbols \union {NoSymbol}
    BY <1>3, <2>1, <2>3 DEF EnclosingSymbol
  <2> QED BY <2>1, <2>4, <2>5
<1>5. RowsFrom(new, ps, m, t, g)
  BY <1>1, <1>2, <1>4 DEF RowsFrom
<1> QED BY <1>5 DEF new

(* A relationship whose enclosing symbol was lost is inside another, or none *)
LEMMA AmongType ==
    ASSUME NEW q \in RelationshipRow, NEW ss \in SUBSET SymbolId, NEW r \in Among(q, ss)
    PROVE  /\ r \in RelationshipRow /\ r.file = q.file /\ r.name = q.name
           /\ EnclosingSymbol(r) \in ss \union {NoSymbol}
           /\ r.encl = q.encl \/ <<q.file, q.encl>> \notin ss
<1>1. CASE q.encl = NoSymbol \/ <<q.file, q.encl>> \in ss
  BY <1>1 DEF Among, EnclosingSymbol
<1>2. CASE ~(q.encl = NoSymbol \/ <<q.file, q.encl>> \in ss)
  <2>1. PICK n \in {NoSymbol} \union {NameOf(s) : s \in {x \in ss : OwnerOf(x) = q.file}} :
            r = [q EXCEPT !.encl = n]
    BY <1>2 DEF Among
  <2>2. n # NoSymbol => n \in Name /\ <<q.file, n>> \in ss
    BY <2>1 DEF SymbolId, NameOf, OwnerOf
  <2>3. r = [file |-> q.file, name |-> q.name, encl |-> n]
    BY <2>1 DEF RelationshipRow
  <2> QED BY <1>2, <2>2, <2>3 DEF RelationshipRow, EnclosingSymbol
<1> QED BY <1>1, <1>2

(* What is left of rows when some are lost *)
LEMMA RemainsFrom ==
    ASSUME NEW ps, NEW m, NEW t, Parsing(ps, m, t), NEW g \in Nat, NEW all,
           RowsFrom(all, ps, m, t, g), NEW new \in Remains(all)
    PROVE  RowsFrom(new, ps, m, t, g)
<1>1. PICK ss \in SUBSET all.symbols :
        \E rs \in SUBSET UNION {Among(q, ss) : q \in all.relationships} :
            new = [files |-> all.files, symbols |-> ss, relationships |-> rs]
  BY DEF Remains
<1>2. /\ new.files = all.files /\ new.symbols = ss
      /\ new.relationships \subseteq UNION {Among(q, ss) : q \in all.relationships}
  BY <1>1
<1>3. ss \subseteq SymbolId
  <2> SUFFICES ASSUME NEW s \in ss PROVE s \in SymbolId
    OBVIOUS
  <2>0. PICK p \in ps : \E n \in Defs[m[p]] : s = << <<p, g>>, n>>
    BY DEF RowsFrom
  <2>1. PICK n \in Defs[m[p]] : s = << <<p, g>>, n>>
    BY <2>0
  <2>2. p \in Path /\ n \in Name
    BY ContentAssumption DEF Parsing
  <2> QED BY <2>1, <2>2 DEF SymbolId, FileId
<1>4. ASSUME NEW r \in new.relationships
      PROVE  /\ r \in RelationshipRow
             /\ EnclosingSymbol(r) \in new.symbols \union {NoSymbol}
             /\ \E p \in ps : /\ r.file = <<p, g>>
                             /\ \E ref \in References(m[p], t[p]) :
                                  /\ r.name = ref[1]
                                  /\ r.encl = ref[2] \/ << <<p, g>>, ref[2]>> \notin new.symbols
  <2>1. PICK q \in all.relationships : r \in Among(q, ss)
    BY <1>2
  <2>5. PICK p \in ps :
            /\ q \in RelationshipRow /\ q.file = <<p, g>>
            /\ \E ref \in References(m[p], t[p]) :
                 /\ q.name = ref[1]
                 /\ q.encl = ref[2] \/ << <<p, g>>, ref[2]>> \notin all.symbols
    BY DEF RowsFrom
  <2>2. PICK ref \in References(m[p], t[p]) :
            /\ q.name = ref[1]
            /\ q.encl = ref[2] \/ << <<p, g>>, ref[2]>> \notin all.symbols
    BY <2>5
  <2>3. /\ r \in RelationshipRow /\ r.file = q.file /\ r.name = q.name
        /\ EnclosingSymbol(r) \in ss \union {NoSymbol}
        /\ r.encl = q.encl \/ <<q.file, q.encl>> \notin ss
    BY <1>3, <2>1, <2>5, AmongType
  <2>4. r.encl = ref[2] \/ << <<p, g>>, ref[2]>> \notin ss
    BY <2>2, <2>3, <2>5
  <2> QED BY <1>2, <2>2, <2>3, <2>4, <2>5
<1>5. \A s \in new.symbols : \E p \in ps : \E n \in Defs[m[p]] : s = << <<p, g>>, n>>
  BY <1>2 DEF RowsFrom
<1> QED BY <1>2, <1>4, <1>5 DEF RowsFrom

(* The inserts of the first transaction leave a database *)
LEMMA InsertType ==
    ASSUME NEW d \in Database, NEW ps, NEW m, NEW t, Parsing(ps, m, t),
           NEW g \in Nat, NEW new, RowsFrom(new, ps, m, t, g)
    PROVE  InsertRows(d, new) \in Database
<1>1. new.files \subseteq FileRow
  BY DEF RowsFrom, Parsing, FileRow, FileId
<1>2. new.symbols \subseteq SymbolId
  BY ContentAssumption DEF RowsFrom, Parsing, SymbolId, FileId
<1>3. new.relationships \subseteq RelationshipRow
  BY DEF RowsFrom
<1> QED BY <1>1, <1>2, <1>3 DEF Database, InsertRows

LEMMA EnclosingType ==
    ASSUME NEW r \in RelationshipRow
    PROVE  EnclosingSymbol(r) \in SymbolId \union {NoSymbol}
BY DEF EnclosingSymbol, RelationshipRow, SymbolId

(* GraphBuilder::build makes rows of the edges table *)
LEMMA StaticEdgesType ==
    ASSUME NEW rs \in SUBSET RelationshipRow, NEW ss \in SUBSET SymbolId
    PROVE  StaticEdges(rs, ss) \subseteq EdgeRow
<1> SUFFICES ASSUME NEW r \in rs, NEW s \in ss
             PROVE  [file |-> r.file, src |-> EnclosingSymbol(r), tgt |-> s,
                     kind |-> "static"] \in EdgeRow
  BY DEF StaticEdges
<1>1. r.file \in FileId
  BY DEF RelationshipRow
<1> QED BY <1>1, EnclosingType DEF EdgeRow

(* infer_interactions makes rows of the edges table *)
LEMMA InteractionEdgesType ==
    ASSUME NEW ids \in SUBSET FileId, NEW f, NEW ss \in SUBSET SymbolId
    PROVE  InteractionEdges(ids, f, ss) \subseteq EdgeRow
BY DEF InteractionEdges, EdgeRow

(* Writing edges leaves a database *)
LEMMA InsertEdgesType ==
    ASSUME NEW d \in Database, NEW es \in SUBSET EdgeRow
    PROVE  InsertEdges(d, es) \in Database
BY DEF Database, InsertEdges

LEMMA StateType ==
    ASSUME NEW r, NEW ss
    PROVE  StateOf(r, ss) \in ResolutionState
BY DEF StateOf, ResolutionState

(* Writing relationship states leaves a database *)
LEMMA UpdateStatesType ==
    ASSUME NEW d \in Database, NEW rs, NEW ss
    PROVE  UpdateStates(d, rs, ss) \in Database
<1>1. {<<r, StateOf(r, ss)>> : r \in rs \intersect d.relationships}
        \subseteq RelationshipRow \X ResolutionState
  BY StateType DEF Database
<1> QED BY <1>1 DEF Database, UpdateStates

LEMMA FileIdsType ==
    ASSUME NEW d \in Database
    PROVE  FileIds(d) \subseteq FileId
BY DEF Database, FileIds, FileRow

LEMMA EnclosingOwner ==
    ASSUME NEW r, EnclosingSymbol(r) # NoSymbol
    PROVE  OwnerOf(EnclosingSymbol(r)) = r.file
BY DEF EnclosingSymbol, OwnerOf

----------------------------------------------------------------------------
(* Rows and hashes *)

(* A file row is of its hash still when no row of its own has changed *)
LEMMA OwnRows ==
    ASSUME NEW d, NEW e, NEW f,
           \A s : OwnerOf(s) = f.id => (s \in e.symbols <=> s \in d.symbols),
           \A r : r.file = f.id => (r \in e.relationships <=> r \in d.relationships)
    PROVE  /\ RowsAreOf(d, f) => RowsAreOf(e, f)
           /\ RowsComplete(d, f) => RowsComplete(e, f)
<1>1. {s \in e.symbols : OwnerOf(s) = f.id} = {s \in d.symbols : OwnerOf(s) = f.id}
  OBVIOUS
<1>2. {r \in e.relationships : r.file = f.id} = {r \in d.relationships : r.file = f.id}
  OBVIOUS
<1>3. ASSUME RowsAreOf(d, f) PROVE RowsAreOf(e, f)
  <2>1. \A s \in e.symbols : OwnerOf(s) = f.id => NameOf(s) \in Defs[f.hash]
    BY <1>3 DEF RowsAreOf
  <2>2. ASSUME NEW r \in e.relationships, r.file = f.id
        PROVE  /\ EnclosingSymbol(r) \in e.symbols \union {NoSymbol}
               /\ \E t \in TemplatesOf(PathOf(f.id)) : \E ref \in References(f.hash, t) :
                     /\ r.name = ref[1]
                     /\ r.encl = ref[2] \/ <<f.id, ref[2]>> \notin e.symbols
    <3>1. r \in d.relationships
      BY <2>2
    <3>2. EnclosingSymbol(r) \in d.symbols \union {NoSymbol}
      BY <1>3, <2>2, <3>1 DEF RowsAreOf
    <3>3. EnclosingSymbol(r) \in e.symbols \union {NoSymbol}
      BY <2>2, <3>2, EnclosingOwner
    <3>4. \A n : OwnerOf(<<f.id, n>>) = f.id
      BY DEF OwnerOf
    <3>5. \A n : <<f.id, n>> \notin d.symbols => <<f.id, n>> \notin e.symbols
      BY <3>4
    <3> QED BY <1>3, <2>2, <3>1, <3>3, <3>5 DEF RowsAreOf
  <2> QED BY <2>1, <2>2 DEF RowsAreOf
<1> QED BY <1>1, <1>2, <1>3 DEF RowsComplete

(* Only the fields files, symbols and relationships matter to RowsMatchHash *)
LEMMA MatchFrame ==
    ASSUME NEW d, NEW e, NEW lost, RowsMatchHash(d, lost), e.files = d.files,
           e.symbols = d.symbols, e.relationships = d.relationships
    PROVE  RowsMatchHash(e, lost)
BY OwnRows DEF RowsMatchHash, UniquePaths, OwnersExist, FileIds

(* delete_file_data takes a file with all of its rows *)
LEMMA DeleteMatches ==
    ASSUME NEW d \in Database, NEW ids, NEW lost, RowsMatchHash(d, lost)
    PROVE  RowsMatchHash(DeleteFileData(d, ids), lost)
<1> DEFINE e == DeleteFileData(d, ids)
<1>1. /\ e.files = {row \in d.files : row.id \notin ids}
      /\ e.symbols = {s \in d.symbols : OwnerOf(s) \notin ids}
      /\ e.relationships = {r \in d.relationships : r.file \notin ids}
  BY DEF DeleteFileData
<1> HIDE DEF e
<1>2. UniquePaths(e)
  BY <1>1 DEF RowsMatchHash, UniquePaths
<1>3. ASSUME NEW f \in e.files
      PROVE  RowsAreOf(e, f) /\ (f.id[2] \notin lost => RowsComplete(e, f))
  <2>1. f \in d.files /\ f.id \notin ids
    BY <1>1, <1>3
  <2>2. \A s : OwnerOf(s) = f.id => (s \in e.symbols <=> s \in d.symbols)
    BY <1>1, <2>1
  <2>3. \A r : r.file = f.id => (r \in e.relationships <=> r \in d.relationships)
    BY <1>1, <2>1
  <2> QED BY <2>1, <2>2, <2>3, OwnRows DEF RowsMatchHash
<1>4. OwnersExist(e)
  BY <1>1 DEF RowsMatchHash, OwnersExist, FileIds
<1>5. RowsMatchHash(e, lost)
  BY <1>2, <1>3, <1>4 DEF RowsMatchHash
<1> QED BY <1>5 DEF e

(* Parsed files are inserted with rows of the content hashed, all of them    *)
(* unless their transaction is one that lost some, beside rows of other      *)
(* paths and older transactions.                                             *)
LEMMA InsertMatches ==
    ASSUME NEW d \in Database, NEW lost, RowsMatchHash(d, lost),
           NEW ps, NEW m, NEW t, Parsing(ps, m, t), NEW g \in Nat,
           \A f \in d.files : PathOf(f.id) \notin ps,
           NEW new, RowsFrom(new, ps, m, t, g), NEW more, lost \subseteq more,
           new = ParsedRows(ps, m, t, g) \/ g \in more
    PROVE  RowsMatchHash(InsertRows(d, new), more)
<1> DEFINE e == InsertRows(d, new)
<1>1. /\ e.files = d.files \union new.files
      /\ e.symbols = d.symbols \union new.symbols
      /\ e.relationships = d.relationships \union new.relationships
      /\ new.files = {[id |-> <<p, g>>, hash |-> m[p]] : p \in ps}
  BY DEF InsertRows, RowsFrom
<1> HIDE DEF e
<1>2. \A p \in ps : <<p, g>> \notin FileIds(d)
  BY DEF FileIds, PathOf
<1>3. \A s \in new.symbols : \E p \in ps : OwnerOf(s) = <<p, g>>
  BY DEF RowsFrom, OwnerOf
<1>4. \A r \in new.relationships : \E p \in ps : r.file = <<p, g>>
  BY DEF RowsFrom
<1>5. UniquePaths(e)
  BY <1>1 DEF RowsMatchHash, UniquePaths, PathOf
<1>6. ASSUME NEW f \in d.files
      PROVE  RowsAreOf(e, f) /\ (f.id[2] \notin more => RowsComplete(e, f))
  <2>1. \A p \in ps : f.id # <<p, g>>
    BY DEF PathOf
  <2>2. \A s : OwnerOf(s) = f.id => (s \in e.symbols <=> s \in d.symbols)
    BY <1>1, <1>3, <2>1
  <2>3. \A r : r.file = f.id => (r \in e.relationships <=> r \in d.relationships)
    BY <1>1, <1>4, <2>1
  <2> QED BY <2>2, <2>3, OwnRows DEF RowsMatchHash
<1>7. ASSUME NEW p \in ps, NEW f \in new.files, f.id = <<p, g>>, f.hash = m[p]
      PROVE  RowsAreOf(e, f) /\ (f.id[2] \notin more => RowsComplete(e, f))
  <2>1. /\ \A s \in d.symbols : OwnerOf(s) # f.id
        /\ \A r \in d.relationships : r.file # f.id
    BY <1>2, <1>7 DEF RowsMatchHash, OwnersExist
  <2>2. \A s : OwnerOf(s) = f.id => (s \in e.symbols <=> s \in new.symbols)
    BY <1>1, <2>1
  <2>3. \A r : r.file = f.id => (r \in e.relationships <=> r \in new.relationships)
    BY <1>1, <2>1
  <2>4. PathOf(f.id) = p /\ f.id[2] = g /\ t[p] \in TemplatesOf(p)
    BY <1>7 DEF PathOf, Parsing
  <2>5. RowsAreOf(new, f)
    <3>1. ASSUME NEW s \in new.symbols, OwnerOf(s) = f.id PROVE NameOf(s) \in Defs[f.hash]
      <4>0. PICK q \in ps : \E n \in Defs[m[q]] : s = << <<q, g>>, n>>
        BY DEF RowsFrom
      <4>1. PICK n \in Defs[m[q]] : s = << <<q, g>>, n>>
        BY <4>0
      <4>2. q = p /\ NameOf(s) = n
        BY <1>7, <3>1, <4>1 DEF OwnerOf, NameOf
      <4> QED BY <1>7, <4>1, <4>2
    <3>2. ASSUME NEW r \in new.relationships, r.file = f.id
          PROVE  \E ref \in References(f.hash, t[p]) :
                     /\ r.name = ref[1]
                     /\ r.encl = ref[2] \/ <<f.id, ref[2]>> \notin new.symbols
      <4>1. PICK q \in ps : /\ r.file = <<q, g>>
                            /\ \E ref \in References(m[q], t[q]) :
                                 /\ r.name = ref[1]
                                 /\ r.encl = ref[2] \/ << <<q, g>>, ref[2]>> \notin new.symbols
        BY DEF RowsFrom
      <4>2. q = p
        BY <1>7, <3>2, <4>1
      <4> QED BY <1>7, <4>1, <4>2
    <3>3. \A r \in new.relationships : EnclosingSymbol(r) \in new.symbols \union {NoSymbol}
      BY DEF RowsFrom
    <3> QED BY <2>4, <3>1, <3>2, <3>3 DEF RowsAreOf
  <2>6. ASSUME g \notin more PROVE RowsComplete(new, f)
    <3>1. /\ new.symbols = UNION {SymbolRows(q, m[q], g) : q \in ps}
          /\ new.relationships = UNION {RelationshipRows(q, m[q], t[q], g) : q \in ps}
      BY <2>6 DEF ParsedRows
    <3>2. \A q \in ps : \A s \in SymbolRows(q, m[q], g) : OwnerOf(s) = <<q, g>>
      BY DEF SymbolRows, OwnerOf
    <3>3. \A q \in ps : \A r \in RelationshipRows(q, m[q], t[q], g) : r.file = <<q, g>>
      BY DEF RelationshipRows
    <3>4. \A q \in ps : <<q, g>> = f.id => q = p
      BY <1>7
    <3>5. {s \in new.symbols : OwnerOf(s) = f.id} = SymbolRows(p, m[p], g)
      BY <1>7, <3>1, <3>2, <3>4
    <3>6. {r \in new.relationships : r.file = f.id} = RelationshipRows(p, m[p], t[p], g)
      BY <1>7, <3>1, <3>3, <3>4
    <3>7. SymbolRows(p, m[p], g) = {f.id} \X Defs[f.hash]
      BY <1>7 DEF SymbolRows
    <3> QED BY <1>7, <2>4, <3>5, <3>6, <3>7 DEF RowsComplete
  <2> QED BY <2>2, <2>3, <2>4, <2>5, <2>6, OwnRows
<1>8. ASSUME NEW f \in e.files
      PROVE  RowsAreOf(e, f) /\ (f.id[2] \notin more => RowsComplete(e, f))
  <2>1. CASE f \in new.files
    <3>1. PICK p \in ps : f.id = <<p, g>> /\ f.hash = m[p]
      BY <1>1, <2>1
    <3> QED BY <1>7, <2>1, <3>1
  <2> QED BY <1>1, <1>6, <2>1
<1>9. FileIds(d) \subseteq FileIds(e) /\ \A p \in ps : <<p, g>> \in FileIds(e)
  <2>1. ASSUME NEW p \in ps PROVE <<p, g>> \in FileIds(e)
    <3>1. [id |-> <<p, g>>, hash |-> m[p]] \in e.files
      BY <1>1
    <3>2. [id |-> <<p, g>>, hash |-> m[p]].id \in FileIds(e)
      BY <3>1 DEF FileIds
    <3> QED BY <3>2
  <2> QED BY <1>1, <2>1 DEF FileIds
<1>10. OwnersExist(e)
  <2>1. ASSUME NEW s \in e.symbols PROVE OwnerOf(s) \in FileIds(e)
    BY <1>1, <1>3, <1>9 DEF RowsMatchHash, OwnersExist
  <2>2. ASSUME NEW r \in e.relationships PROVE r.file \in FileIds(e)
    BY <1>1, <1>4, <1>9 DEF RowsMatchHash, OwnersExist
  <2> QED BY <2>1, <2>2 DEF OwnersExist
<1>11. RowsMatchHash(e, more)
  BY <1>5, <1>8, <1>10 DEF RowsMatchHash
<1> QED BY <1>11 DEF e

----------------------------------------------------------------------------
(* Edges *)

(* Edge e hangs on rows of database d: the file row it was built for, its   *)
(* target, and, when it has a source, a symbol of that same file.           *)
Anchored(d, e) ==
    /\ e.file \in FileIds(d)
    /\ e.tgt \in d.symbols
    /\ e.src # NoSymbol => e.src \in d.symbols /\ OwnerOf(e.src) = e.file

EdgesAnchored(d) == \A e \in d.edges : Anchored(d, e)

LEMMA AnchoredNotDangling ==
    ASSUME NEW d, EdgesAnchored(d)
    PROVE  Dangling(d) = {}
BY DEF EdgesAnchored, Anchored, Dangling

LEMMA AnchoredFrame ==
    ASSUME NEW d, NEW e, EdgesAnchored(d), e.files = d.files,
           e.symbols = d.symbols, e.edges = d.edges
    PROVE  EdgesAnchored(e)
BY DEF EdgesAnchored, Anchored, FileIds

(* delete_file_data removes the edges of a file by their file_id, and the   *)
(* edges into it, of whatever file, by their target; an edge out of it goes *)
(* with its file_id, since its source is a symbol of the same file.         *)
LEMMA DeleteAnchors ==
    ASSUME NEW d \in Database, NEW ids, EdgesAnchored(d)
    PROVE  EdgesAnchored(DeleteFileData(d, ids))
<1> DEFINE e == DeleteFileData(d, ids)
<1>1. /\ e.files = {row \in d.files : row.id \notin ids}
      /\ e.symbols = {s \in d.symbols : OwnerOf(s) \notin ids}
      /\ e.edges = {x \in d.edges : OwnerOf(x.tgt) \notin ids /\ x.file \notin ids}
  BY DEF DeleteFileData
<1> HIDE DEF e
<1>2. ASSUME NEW x \in e.edges PROVE Anchored(e, x)
  <2>1. /\ x \in d.edges /\ Anchored(d, x)
        /\ OwnerOf(x.tgt) \notin ids /\ x.file \notin ids
    BY <1>1 DEF EdgesAnchored
  <2>2. x.file \in FileIds(e)
    BY <1>1, <2>1 DEF Anchored, FileIds
  <2>3. x.tgt \in e.symbols
    BY <1>1, <2>1 DEF Anchored
  <2>4. x.src # NoSymbol => x.src \in e.symbols /\ OwnerOf(x.src) = x.file
    BY <1>1, <2>1 DEF Anchored
  <2> QED BY <2>2, <2>3, <2>4 DEF Anchored
<1>3. EdgesAnchored(e)
  BY <1>2 DEF EdgesAnchored
<1> QED BY <1>3 DEF e

(* The inserts of the first transaction take no row away *)
LEMMA InsertAnchors ==
    ASSUME NEW d \in Database, NEW new, EdgesAnchored(d)
    PROVE  EdgesAnchored(InsertRows(d, new))
<1> DEFINE e == InsertRows(d, new)
<1>1. d.files \subseteq e.files /\ d.symbols \subseteq e.symbols /\ e.edges = d.edges
  BY DEF InsertRows
<1> HIDE DEF e
<1>2. EdgesAnchored(e)
  BY <1>1 DEF EdgesAnchored, Anchored, FileIds
<1> QED BY <1>2 DEF e

(* The enclosing symbol of a relationship row is a symbol of its file *)
LEMMA EnclosingExists ==
    ASSUME NEW d, NEW lost, RowsMatchHash(d, lost), NEW r \in d.relationships,
           EnclosingSymbol(r) # NoSymbol
    PROVE  EnclosingSymbol(r) \in d.symbols /\ OwnerOf(EnclosingSymbol(r)) = r.file
<1>1. PICK f \in d.files : f.id = r.file
  BY DEF RowsMatchHash, OwnersExist, FileIds
<1>2. RowsAreOf(d, f)
  BY DEF RowsMatchHash
<1> QED BY <1>1, <1>2, EnclosingOwner DEF RowsAreOf

(* An edge built from a relationship row the database still has hangs on    *)
(* rows of the database if its target does.                                 *)
LEMMA StaticAnchored ==
    ASSUME NEW d \in Database, NEW lost, RowsMatchHash(d, lost),
           NEW rs \in SUBSET RelationshipRow, NEW ss,
           NEW e \in StaticEdges(rs, ss), e.tgt \in d.symbols,
           \A r \in rs : r.file = e.file => r \in d.relationships
    PROVE  Anchored(d, e)
<1>1. PICK r \in rs : e.file = r.file /\ e.src = EnclosingSymbol(r)
  BY DEF StaticEdges
<1>2. r \in d.relationships
  BY <1>1
<1>3. e.file \in FileIds(d)
  BY <1>1, <1>2 DEF RowsMatchHash, OwnersExist
<1> QED BY <1>1, <1>2, <1>3, EnclosingExists DEF Anchored

(* Interaction edges have no source *)
LEMMA InteractionSource ==
    ASSUME NEW ids, NEW f, NEW ss, NEW e \in InteractionEdges(ids, f, ss)
    PROVE  e.src = NoSymbol /\ e.file \in ids /\ e.tgt \in ss
BY DEF InteractionEdges

----------------------------------------------------------------------------
(* The published database *)

(* A full index of any disk image is a database whose rows match their      *)
(* hashes, all inserted by transaction 0, with no dangling edge.            *)
LEMMA FullIndexSound ==
    ASSUME NEW f \in [Path -> Content \union {NoContent}], NEW t \in Templates
    PROVE  /\ FullIndex(f, t) \in Database
           /\ RowsMatchHash(FullIndex(f, t), {})
           /\ \A row \in FullIndex(f, t).files : row.id[2] = 0
           /\ EdgesAnchored(FullIndex(f, t))
<1> DEFINE ps == {p \in Path : f[p] \in Parses}
           new == ParsedRows(ps, f, t, 0)
           base == InsertRows(EmptyDb, new)
           linked == UpdateStates(base, base.relationships, base.symbols)
           static == StaticEdges(base.relationships, base.symbols)
           inter == InteractionEdges(FileIds(base), f, base.symbols)
           full == [linked EXCEPT !.edges = static \union inter,
                                  !.features = base.symbols]
<1>1. EmptyDb \in Database /\ RowsMatchHash(EmptyDb, {})
  BY DEF EmptyDb, Database, RowsMatchHash, UniquePaths, OwnersExist
<1>2. Parsing(ps, f, t)
  BY ContentAssumption DEF Parsing, Templates
<1>0. RowsFrom(new, ps, f, t, 0)
  BY <1>2, ParsedFrom
<1>3. base \in Database
  BY <1>0, <1>1, <1>2, InsertType
<1>4. RowsMatchHash(base, {})
  <2>1. \A x \in EmptyDb.files : PathOf(x.id) \notin ps
    BY DEF EmptyDb
  <2> HIDE DEF ps
  <2> QED BY <1>0, <1>1, <1>2, <2>1, InsertMatches
<1>5. \A row \in base.files : row.id[2] = 0
  BY DEF InsertRows, ParsedRows, EmptyDb
<1> HIDE DEF base
<1>6. linked \in Database
  BY <1>3, UpdateStatesType
<1>7. /\ linked.files = base.files /\ linked.symbols = base.symbols
      /\ linked.relationships = base.relationships
  BY <1>3 DEF UpdateStates, Database
<1>8. static \subseteq EdgeRow /\ inter \subseteq EdgeRow
  BY <1>3, StaticEdgesType, InteractionEdgesType, FileIdsType DEF Database
<1> HIDE DEF linked
<1>9. ASSUME NEW e \in static PROVE Anchored(base, e)
  <2>1. e.tgt \in base.symbols
    BY DEF StaticEdges
  <2>2. base.relationships \in SUBSET RelationshipRow
    BY <1>3 DEF Database
  <2> QED BY <1>3, <1>4, <2>1, <2>2, StaticAnchored
<1>10. ASSUME NEW e \in inter PROVE Anchored(base, e)
  BY InteractionSource DEF Anchored
<1> HIDE DEF static, inter
<1>11. /\ full.files = base.files /\ full.symbols = base.symbols
       /\ full.relationships = base.relationships
       /\ full.edges = static \union inter
       /\ full \in Database
  BY <1>3, <1>6, <1>7, <1>8 DEF Database
<1>12. FullIndex(f, t) = full
  BY DEF FullIndex, full, static, inter, linked, base
<1> HIDE DEF full
<1>13. EdgesAnchored(full)
  BY <1>9, <1>10, <1>11 DEF EdgesAnchored, Anchored, FileIds
<1>14. RowsMatchHash(full, {})
  BY <1>4, <1>11, MatchFrame
<1> QED BY <1>5, <1>11, <1>12, <1>13, <1>14

----------------------------------------------------------------------------
(* Type correctness *)

(* Every action of the module keeps the locals of a call typed when it ends *)
LEMMA ReturnType ==
    ASSUME TypeOK, NEW w \in Process, NEW phase \in Phase, Return(w, phase)
    PROVE  /\ pc' \in [Process -> Phase]
           /\ batch' \in [Process -> SUBSET Path]
           /\ unread' \in [Process -> SUBSET Path]
           /\ parsed' \in [Process -> [Path -> Content \union {NoContent}]]
           /\ unbound' \in [Process -> SUBSET Component]
           /\ markup' \in [Process -> Templates]
           /\ rels' \in [Process -> SUBSET RelationshipRow]
           /\ syms' \in [Process -> SUBSET SymbolId]
           /\ pending' \in [Process -> SUBSET EdgeRow]
<1>1. NoParse \in Templates
  BY DEF NoParse, Templates, TemplatesOf
<1>2. markup' = [markup EXCEPT ![w] = NoParse]
  BY DEF Return
<1>3. markup' \in [Process -> Templates]
  BY <1>1, <1>2 DEF TypeOK
<1> QED BY <1>3 DEF TypeOK, Return, Goto, NoParse

LEMMA BeginType ==
    ASSUME TypeOK, NEW w \in Process, NEW ps \in SUBSET Path, Begin(w, ps)
    PROVE  /\ UNCHANGED <<disk, template, db, gen, partial, parsed, unbound, markup,
                          rels, syms, pending>>
           /\ pc' \in [Process -> Phase]
           /\ batch' \in [Process -> SUBSET Path]
           /\ unread' \in [Process -> SUBSET Path]
BY DEF TypeOK, Begin, Goto, Phase, tables

ParsedPaths(w) == {p \in batch[w] : parsed[w][p] # NoContent}

(* The first transaction of w commits, with the rows new *)
Commits(w, new) ==
    /\ Replace(w, new)
    /\ Parsing(ParsedPaths(w), parsed[w], markup[w])
    /\ RowsFrom(new, ParsedPaths(w), parsed[w], markup[w], gen + 1)
    /\ partial \subseteq partial' /\ partial' \subseteq Nat
    /\ \/ new = ParsedRows(ParsedPaths(w), parsed[w], markup[w], gen + 1)
       \/ gen + 1 \in partial'

LEMMA CommittedRows ==
    ASSUME TypeOK, NEW w \in Process, ReplaceRows(w) \/ ReplacePartly(w)
    PROVE  \E new : Commits(w, new)
<1>1. gen \in Nat /\ gen + 1 \in Nat /\ partial \subseteq Nat
  BY DEF TypeOK
<1>2. Parsing(ParsedPaths(w), parsed[w], markup[w])
  <2>1. parsed[w] \in [Path -> Content \union {NoContent}] /\ batch[w] \subseteq Path
    BY DEF TypeOK
  <2>2. \A p \in Path : markup[w][p] \in TemplatesOf(p)
    BY DEF TypeOK, Templates
  <2> QED BY <2>1, <2>2 DEF Parsing, ParsedPaths
<1>3. BatchRows(w) = ParsedRows(ParsedPaths(w), parsed[w], markup[w], gen + 1)
  BY DEF BatchRows, ParsedPaths
<1>4. RowsFrom(BatchRows(w), ParsedPaths(w), parsed[w], markup[w], gen + 1)
  BY <1>1, <1>2, <1>3, ParsedFrom
<1>5. CASE ReplaceRows(w)
  BY <1>1, <1>2, <1>3, <1>4, <1>5 DEF ReplaceRows, Commits
<1>6. CASE ReplacePartly(w)
  <2>1. PICK new \in Remains(BatchRows(w)) : Replace(w, new)
    BY <1>6 DEF ReplacePartly
  <2>2. RowsFrom(new, ParsedPaths(w), parsed[w], markup[w], gen + 1)
    BY <1>1, <1>2, <1>4, RemainsFrom
  <2>3. partial' = partial \union {gen + 1}
    BY <1>6 DEF ReplacePartly
  <2> QED BY <1>1, <1>2, <2>1, <2>2, <2>3 DEF Commits
<1> QED BY <1>5, <1>6

(* The first transaction leaves a database *)
LEMMA ReplacedType ==
    ASSUME TypeOK, NEW w \in Process, NEW new, Commits(w, new)
    PROVE  ReplacedDb(w, new) \in Database
<1>1. DeleteFileData(db, RowsOf(db, batch[w])) \in Database
  BY DeleteType DEF TypeOK
<1>2. gen + 1 \in Nat
  BY DEF TypeOK
<1> QED BY <1>1, <1>2, InsertType DEF Commits, ReplacedDb

LEMMA CommitType ==
    ASSUME TypeOK, NEW w \in Process, ReplaceRows(w) \/ ReplacePartly(w)
    PROVE  TypeOK'
<1>1. PICK new : Commits(w, new)
  BY CommittedRows
<1>2. Replace(w, new) /\ partial' \subseteq Nat
  BY <1>1 DEF Commits
<1>3. db' \in Database
  BY <1>1, <1>2, ReplacedType DEF Replace
<1> QED BY <1>2, <1>3 DEF TypeOK, Replace, Goto, Phase, bounds

(* A step of a process keeps the types *)
LEMMA ProgressType ==
    ASSUME TypeOK, NEW w \in Process, Progress(w)
    PROVE  TypeOK'
<1> USE DEF TypeOK
<1> USE DEF tables
<1>1. CASE ReadFile(w)
  BY <1>1, ContentAssumption DEF ReadFile, local, bounds
<1>13. CASE ReadTemplate(w)
  <2>1. PICK p \in unbound[w] :
            /\ unbound' = [unbound EXCEPT ![w] = @ \ {p}]
            /\ markup' = [markup EXCEPT ![w][p] = template[p]]
    BY <1>13 DEF ReadTemplate
  <2>2. p \in Path /\ markup[w] \in Templates /\ template \in Templates
    BY ContentAssumption
  <2>3. [markup[w] EXCEPT ![p] = template[p]] \in Templates
    BY <2>2 DEF Templates, TemplatesOf
  <2>4. markup' = [markup EXCEPT ![w] = [markup[w] EXCEPT ![p] = template[p]]]
    BY <2>1
  <2>5. markup' \in [Process -> Templates] /\ unbound' \in [Process -> SUBSET Component]
    BY <2>1, <2>3, <2>4
  <2> QED BY <1>13, <2>5 DEF ReadTemplate, bounds
<1>2. CASE ReplaceRows(w)
  BY <1>2, CommitType
<1>3. CASE ReadRelationships(w)
  BY <1>3 DEF ReadRelationships, Goto, Phase, bounds, Database
<1>4. CASE ReadSymbols(w)
  BY <1>4 DEF ReadSymbols, Goto, Phase, bounds, Database
<1>5. CASE WriteStates(w)
  BY <1>5, UpdateStatesType DEF WriteStates, Goto, Phase, bounds
<1>6. CASE FlushEdges(w)
  <2>1. db' \in Database
    BY <1>6, StaticEdgesType, InsertEdgesType DEF FlushEdges
  <2> QED BY <1>6, <2>1 DEF FlushEdges, Goto, Phase, bounds
<1>7. CASE ScanInteractions(w)
  <2>1. InteractionEdges(FileIds(db), disk, db.symbols) \subseteq EdgeRow
    BY InteractionEdgesType, FileIdsType DEF Database
  <2> QED BY <1>7, <2>1 DEF ScanInteractions, Goto, Phase, bounds
<1>8. CASE InsertInteraction(w)
  <2>1. db' \in Database
    BY <1>8, InsertEdgesType DEF InsertInteraction
  <2> QED BY <1>8, <2>1 DEF InsertInteraction, bounds
<1>9. CASE ReadFeatureSymbols(w)
  BY <1>9 DEF ReadFeatureSymbols, Goto, Phase, bounds, Database
<1>10. CASE ReadFeatureEdges(w)
  <2>1. CASE Return(w, "panicked")
    BY <1>10, <2>1, ReturnType DEF ReadFeatureEdges, Phase, bounds
  <2>2. CASE Goto(w, "edges_read") /\ UNCHANGED <<batch, unread, parsed, unbound, markup,
                                                     rels, syms, pending>>
    BY <1>10, <2>2 DEF ReadFeatureEdges, Goto, Phase, bounds
  <2> QED BY <1>10, <2>1, <2>2 DEF ReadFeatureEdges
<1>11. CASE WriteFeatures(w)
  <2>1. db' \in Database
    BY <1>11 DEF WriteFeatures, FeatureRows, Database
  <2> QED BY <1>11, <2>1, ReturnType DEF WriteFeatures, Phase, bounds
<1>12. CASE InsertFeatures(w)
  <2>1. db' \in Database
    BY <1>12 DEF InsertFeatures, FeatureRows, Database
  <2> QED BY <1>12, <2>1, ReturnType DEF InsertFeatures, Phase, bounds
<1> QED BY <1>1, <1>2, <1>3, <1>4, <1>5, <1>6, <1>7, <1>8, <1>9, <1>10,
           <1>11, <1>12, <1>13 DEF Progress

(* So does a fault *)
LEMMA FailureType ==
    ASSUME TypeOK, NEW w \in Process, Failure(w)
    PROVE  TypeOK'
<1> USE DEF TypeOK, tables
<1>1. CASE ReplaceFails(w)
  BY <1>1, ReturnType DEF ReplaceFails, Fault, Phase
<1>2. CASE LinkFails(w)
  BY <1>2 DEF LinkFails, Fault, Goto, Phase
<1>3. CASE DeleteFeatures(w)
  <2>1. db' \in Database
    BY <1>3 DEF DeleteFeatures, Database
  <2> QED BY <1>3, <2>1 DEF DeleteFeatures, Fault, Goto, Phase
<1>4. CASE Crash(w)
  BY <1>4, ReturnType DEF Crash, Fault, Phase
<1>5. CASE ReplacePartly(w)
  BY <1>5, CommitType
<1> QED BY <1>1, <1>2, <1>3, <1>4, <1>5 DEF Failure

(* The beginning of a call finds only paths to reindex *)
LEMMA StaleType ==
    ASSUME TypeOK
    PROVE  StaleFiles(Scanned(db.files)) \in SUBSET Path
<1>1. \A row \in db.files : PathOf(row.id) \in Path
  BY DEF TypeOK, Database, FileRow, FileId, PathOf
<1>2. Scanned(db.files) \subseteq db.files
  BY DEF Scanned
<1> QED BY <1>1, <1>2 DEF StaleFiles

LEMMA TypeInit == Init => TypeOK
<1> SUFFICES ASSUME Init PROVE TypeOK
  OBVIOUS
<1>1. disk \in [Path -> Content \union {NoContent}]
  BY ReindexAssumption DEF Init
<1>2. db \in Database
  BY <1>1, FullIndexSound DEF Init
<1>3. NoParse \in Templates
  BY DEF NoParse, Templates, TemplatesOf
<1>4. markup \in [Process -> Templates]
  BY <1>3 DEF Init
<1> QED BY <1>1, <1>2, <1>4 DEF Init, TypeOK, Phase, NoParse

LEMMA TypeStep == TypeOK /\ [Next]_vars => TypeOK'
<1> SUFFICES ASSUME TypeOK, [Next]_vars PROVE TypeOK'
  OBVIOUS
<1>1. ASSUME NEW p \in Path, Edit(p) PROVE TypeOK'
  BY <1>1 DEF TypeOK, Edit, local, tables
<1>5. ASSUME NEW p \in Path, EditTemplate(p) PROVE TypeOK'
  <2>1. PICK t \in TemplatesOf(p) : template' = [template EXCEPT ![p] = t]
    BY <1>5 DEF EditTemplate
  <2>2. template' \in Templates
    BY <2>1 DEF TypeOK, Templates, TemplatesOf
  <2> QED BY <1>5, <2>2 DEF TypeOK, EditTemplate, local, tables
<1>2. ASSUME NEW w \in Process, Request(w) PROVE TypeOK'
  <2>1. PICK ps \in SUBSET Path : Begin(w, ps)
    BY <1>2 DEF Request
  <2>2. edits' = edits /\ faults' = faults /\ requests' \in Nat
    BY <1>2 DEF TypeOK, Request
  <2> QED BY <2>1, <2>2, BeginType DEF TypeOK
<1>3. ASSUME NEW w \in Process, AutoReindex(w) PROVE TypeOK'
  BY <1>3, BeginType, StaleType DEF TypeOK, AutoReindex, bounds
<1>4. CASE UNCHANGED vars
  BY <1>4 DEF TypeOK, vars, local, bounds, tables
<1> QED BY <1>1, <1>2, <1>3, <1>4, <1>5, ProgressType, FailureType DEF Next, Step

(* Every variable, and every table of the database, keeps its type whatever  *)
(* processes interleave: no reindex writes a row its table cannot hold.      *)
THEOREM TypeCorrect == Spec => []TypeOK
BY TypeInit, TypeStep, PTL DEF Spec

----------------------------------------------------------------------------
(* Hashes and rows *)

(* Row ids are never reused: every file row was inserted by a transaction   *)
(* that has committed.                                                      *)
Fresh == \A f \in db.files : f.id[2] <= gen

RowsInv == TypeOK /\ RowsMatchHash(db, partial) /\ Fresh

(* What a step that is not the first transaction of a call leaves alone *)
SameRows == /\ db'.files = db.files
            /\ db'.symbols = db.symbols
            /\ db'.relationships = db.relationships
            /\ gen' = gen
            /\ partial' = partial

LEMMA ProgressSameRows ==
    ASSUME TypeOK, NEW w \in Process, Progress(w), ~ReplaceRows(w)
    PROVE  SameRows
<1> USE DEF TypeOK, Database, SameRows, tables
<1>1. CASE WriteStates(w)
  BY <1>1 DEF WriteStates, UpdateStates
<1>2. CASE FlushEdges(w)
  BY <1>2 DEF FlushEdges, InsertEdges
<1>3. CASE InsertInteraction(w)
  BY <1>3 DEF InsertInteraction, InsertEdges
<1>4. CASE WriteFeatures(w) \/ InsertFeatures(w)
  BY <1>4 DEF WriteFeatures, InsertFeatures
<1>5. CASE UNCHANGED <<db, gen, partial>>
  BY <1>5
<1> QED BY <1>1, <1>2, <1>3, <1>4, <1>5
     DEF Progress, ReadFile, ReadTemplate, ReadRelationships, ReadSymbols, ScanInteractions,
         ReadFeatureSymbols, ReadFeatureEdges

LEMMA FailureSameRows ==
    ASSUME TypeOK, NEW w \in Process, Failure(w), ~ReplacePartly(w)
    PROVE  SameRows
BY DEF TypeOK, Database, SameRows, tables, Failure, ReplaceFails, LinkFails,
       DeleteFeatures, Crash

(* Only the first transaction of some call replaces rows *)
LEMMA StepSameRows ==
    ASSUME TypeOK, [Next]_vars
    PROVE  SameRows \/ \E w \in Process : \E new : Commits(w, new)
<1>1. ASSUME NEW p \in Path, Edit(p) \/ EditTemplate(p) PROVE SameRows
  BY <1>1 DEF Edit, EditTemplate, SameRows, tables
<1>2. ASSUME NEW w \in Process, Request(w) \/ AutoReindex(w) PROVE SameRows
  BY <1>2 DEF Request, AutoReindex, Begin, SameRows, tables
<1>3. CASE UNCHANGED vars
  BY <1>3 DEF vars, SameRows, tables
<1>4. ASSUME NEW w \in Process, ReplaceRows(w) \/ ReplacePartly(w)
      PROVE  \E new : Commits(w, new)
  BY <1>4, CommittedRows
<1> QED BY <1>1, <1>2, <1>3, <1>4, ProgressSameRows, FailureSameRows DEF Next, Step

(* The rows deleted by the first transaction of a call are those of its batch *)
LEMMA KeptPaths ==
    ASSUME TypeOK, NEW w \in Process,
           NEW f \in DeleteFileData(db, RowsOf(db, batch[w])).files
    PROVE  f \in db.files /\ PathOf(f.id) \notin batch[w]
BY DEF DeleteFileData, RowsOf, FileIds

(* The file rows after the first transaction: those of other paths as they   *)
(* were, and new ones for paths of the batch.                                *)
LEMMA ReplacedFiles ==
    ASSUME TypeOK, NEW w \in Process, NEW new, Commits(w, new),
           NEW f \in ReplacedDb(w, new).files
    PROVE  \/ f \in db.files /\ PathOf(f.id) \notin batch[w]
           \/ PathOf(f.id) \in batch[w] /\ f.id[2] = gen + 1
<1>1. CASE f \in DeleteFileData(db, RowsOf(db, batch[w])).files
  BY <1>1, KeptPaths
<1>2. CASE f \in new.files
  <2>1. PICK p \in ParsedPaths(w) : f = [id |-> <<p, gen + 1>>, hash |-> parsed[w][p]]
    BY <1>2 DEF Commits, RowsFrom
  <2> QED BY <2>1 DEF ParsedPaths, PathOf
<1> QED BY <1>1, <1>2 DEF ReplacedDb, InsertRows

LEMMA ReplaceMatches ==
    ASSUME RowsInv, NEW w \in Process, NEW new, Commits(w, new)
    PROVE  RowsMatchHash(ReplacedDb(w, new), partial')
<1> DEFINE d == DeleteFileData(db, RowsOf(db, batch[w]))
<1>1. d \in Database /\ RowsMatchHash(d, partial)
  BY DeleteType, DeleteMatches DEF RowsInv, TypeOK
<1>2. \A f \in d.files : PathOf(f.id) \notin ParsedPaths(w)
  BY KeptPaths DEF RowsInv, ParsedPaths
<1>3. gen + 1 \in Nat
  BY DEF RowsInv, TypeOK
<1> HIDE DEF d
<1>4. RowsMatchHash(InsertRows(d, new), partial')
  BY <1>1, <1>2, <1>3, InsertMatches DEF Commits
<1> QED BY <1>4 DEF ReplacedDb, d

LEMMA RowsInit == Init => RowsInv
<1> SUFFICES ASSUME Init PROVE RowsInv
  OBVIOUS
<1>1. TypeOK
  BY TypeInit
<1>2. RowsMatchHash(db, partial) /\ \A row \in db.files : row.id[2] = 0
  BY <1>1, FullIndexSound DEF Init, TypeOK
<1> QED BY <1>1, <1>2 DEF Init, RowsInv, Fresh

LEMMA RowsStep == RowsInv /\ [Next]_vars => RowsInv'
<1> SUFFICES ASSUME RowsInv, [Next]_vars PROVE RowsInv'
  OBVIOUS
<1>1. TypeOK /\ TypeOK'
  BY TypeStep DEF RowsInv
<1>2. CASE SameRows
  <2>1. RowsMatchHash(db', partial')
    BY <1>2, MatchFrame DEF RowsInv, SameRows
  <2>2. Fresh'
    BY <1>2 DEF RowsInv, SameRows, Fresh
  <2> QED BY <1>1, <2>1, <2>2 DEF RowsInv
<1>3. ASSUME NEW w \in Process, NEW new, Commits(w, new) PROVE RowsInv'
  <2>1. db' = ReplacedDb(w, new) /\ gen' = gen + 1
    BY <1>3 DEF Commits, Replace
  <2>2. RowsMatchHash(db', partial')
    BY <1>3, <2>1, ReplaceMatches
  <2>3. ASSUME NEW f \in db'.files PROVE f.id[2] <= gen'
    <3>1. \/ f \in db.files
          \/ f.id[2] = gen + 1
      BY <1>1, <1>3, <2>1, ReplacedFiles
    <3>2. gen \in Nat /\ \A g \in db.files : g.id[2] \in Nat
      BY <1>1 DEF TypeOK, Database, FileRow, FileId
    <3> QED BY <2>1, <3>1, <3>2 DEF RowsInv, Fresh
  <2> QED BY <1>1, <2>2, <2>3 DEF RowsInv, Fresh
<1> QED BY <1>1, <1>2, <1>3, StepSameRows

(* One row per path, with no symbol and no relationship of another content   *)
(* than its content_hash names, and with all of them unless an insert of its *)
(* own transaction failed, however many processes reindex, fail or crash,    *)
(* and whatever files and templates the user edits meanwhile.                *)
THEOREM RowsCorrect == Spec => []HashNamesRows
<1>1. RowsInv => HashNamesRows
  BY DEF RowsInv, HashNamesRows
<1> QED BY <1>1, RowsInit, RowsStep, PTL DEF Spec

(* A commit replaces its whole batch and nothing else: rows of other paths    *)
(* stay, and no path of the batch keeps a row.                                *)
THEOREM ReplacedCorrect == Spec => ReplacedTogether
<1> DEFINE A == \A w \in Process :
        (pc[w] = "reading" /\ pc'[w] = "replaced") =>
            /\ \A p \in Path \ batch[w] : RowsOf(db', {p}) = RowsOf(db, {p})
            /\ FileIds(db) \intersect RowsOf(db', batch[w]) = {}
<1>1. ASSUME RowsInv, [Next]_vars PROVE A
  <2> SUFFICES ASSUME NEW w \in Process, pc[w] = "reading", pc'[w] = "replaced"
               PROVE  /\ \A p \in Path \ batch[w] : RowsOf(db', {p}) = RowsOf(db, {p})
                      /\ FileIds(db) \intersect RowsOf(db', batch[w]) = {}
    OBVIOUS
  <2> USE DEF RowsInv
  <2>1. ReplaceRows(w) \/ ReplacePartly(w)
    BY <1>1 DEF TypeOK, Next, Step, Request, AutoReindex, Begin, Progress, Failure, vars,
         local, Edit, EditTemplate, ReadFile, ReadTemplate, ReplaceRows,
         ReplacePartly, Replace, ReadRelationships, ReadSymbols,
         WriteStates, FlushEdges, ScanInteractions, InsertInteraction,
         ReadFeatureSymbols, ReadFeatureEdges, WriteFeatures, InsertFeatures,
         ReplaceFails, LinkFails, DeleteFeatures, Crash, Return, Goto
  <2>8. PICK new : Commits(w, new)
    BY <1>1, <2>1, CommittedRows
  <2>2. db' = ReplacedDb(w, new)
    BY <2>8 DEF Commits, Replace
  <2>3. \A f \in db.files : f.id[2] # gen + 1
    <3>1. gen \in Nat /\ \A f \in db.files : f.id[2] \in Nat /\ f.id[2] <= gen
      BY <1>1 DEF TypeOK, Database, FileRow, FileId, Fresh
    <3> QED BY <3>1
  <2>4. \A f \in db'.files : \/ f \in db.files /\ PathOf(f.id) \notin batch[w]
                             \/ PathOf(f.id) \in batch[w] /\ f.id[2] = gen + 1
    BY <1>1, <2>2, <2>8, ReplacedFiles
  <2>5. \A f \in db.files : PathOf(f.id) \notin batch[w] => f \in db'.files
    BY <2>2 DEF ReplacedDb, InsertRows, DeleteFileData, RowsOf, FileIds
  <2>6. ASSUME NEW p \in Path \ batch[w] PROVE RowsOf(db', {p}) = RowsOf(db, {p})
    BY <2>4, <2>5 DEF RowsOf, FileIds
  <2>7. FileIds(db) \intersect RowsOf(db', batch[w]) = {}
    BY <2>3, <2>4 DEF RowsOf, FileIds
  <2> QED BY <2>6, <2>7
<1>2. RowsInv /\ [Next]_vars => [A]_vars
  BY <1>1
<1> QED BY <1>2, RowsInit, RowsStep, PTL DEF Spec, ReplacedTogether

----------------------------------------------------------------------------
(* Edges *)

(* What pass 2 of a call still holds of an earlier read: a relationship row   *)
(* whose file row is still there is still there itself, since a transaction   *)
(* takes a file row with all of its relationships and never reuses its id.    *)
(* An interaction edge waiting to be inserted has no source.                  *)
Held(w) ==
    /\ \A r \in rels[w] : /\ r.file[2] <= gen
                          /\ r.file \in FileIds(db) => r \in db.relationships
    /\ \A e \in pending[w] : e.src = NoSymbol

EdgeInv == RowsInv /\ EdgesAnchored(db) /\ \A w \in Process : Held(w)

(* The locals of a call that ends are empty *)
LEMMA ReturnHeld ==
    ASSUME TypeOK, NEW v \in Process, NEW phase, Return(v, phase), NEW w \in Process
    PROVE  rels'[w] \subseteq rels[w] /\ pending'[w] \subseteq pending[w]
BY DEF TypeOK, Return

(* Where the held reads of a process may come from *)
LEMMA HeldStep ==
    ASSUME EdgeInv, [Next]_vars, NEW w \in Process
    PROVE  /\ \/ rels'[w] \subseteq rels[w]
              \/ rels'[w] = db.relationships /\ UNCHANGED <<db, gen>>
           /\ \/ pending'[w] \subseteq pending[w]
              \/ pending'[w] = InteractionEdges(FileIds(db), disk, db.symbols)
<1> DEFINE R == \/ rels'[w] \subseteq rels[w]
                \/ rels'[w] = db.relationships /\ UNCHANGED <<db, gen>>
           P == \/ pending'[w] \subseteq pending[w]
                \/ pending'[w] = InteractionEdges(FileIds(db), disk, db.symbols)
<1>0. TypeOK
  BY DEF EdgeInv, RowsInv
<1>1. ASSUME UNCHANGED <<rels, pending>> PROVE R /\ P
  BY <1>1
<1>2. ASSUME NEW v \in Process, \E phase \in Phase : Return(v, phase)
      PROVE  R /\ P
  BY <1>0, <1>2, ReturnHeld
<1>3. ASSUME NEW v \in Process, ReadRelationships(v) PROVE R /\ P
  BY <1>0, <1>3 DEF ReadRelationships, TypeOK, tables
<1>4. ASSUME NEW v \in Process, FlushEdges(v) \/ LinkFails(v) PROVE R /\ P
  BY <1>0, <1>4 DEF FlushEdges, LinkFails, TypeOK
<1>5. ASSUME NEW v \in Process, ScanInteractions(v) PROVE R /\ P
  BY <1>0, <1>5 DEF ScanInteractions, TypeOK
<1>6. ASSUME NEW v \in Process, InsertInteraction(v) PROVE R /\ P
  BY <1>0, <1>6 DEF InsertInteraction, TypeOK
<1>7. ASSUME NEW v \in Process, ReadFeatureEdges(v) PROVE R /\ P
  BY <1>1, <1>2, <1>7 DEF ReadFeatureEdges, Phase
<1>8. ASSUME NEW v \in Process,
             WriteFeatures(v) \/ InsertFeatures(v)
               \/ ReplaceFails(v) \/ Crash(v)
      PROVE  R /\ P
  <2>1. Return(v, "idle") /\ "idle" \in Phase
    BY <1>8 DEF WriteFeatures, InsertFeatures, ReplaceFails, Crash, Phase
  <2> QED BY <1>2, <2>1
<1>9. ASSUME UNCHANGED vars \/ \E p \in Path : Edit(p) \/ EditTemplate(p) PROVE R /\ P
  BY <1>1, <1>9 DEF vars, local, Edit, EditTemplate
<1>10. ASSUME NEW v \in Process,
              \/ Request(v) \/ AutoReindex(v) \/ ReadFile(v) \/ ReadTemplate(v)
              \/ ReplaceRows(v) \/ ReplacePartly(v) \/ ReadSymbols(v) \/ WriteStates(v) \/ ReadFeatureSymbols(v)
              \/ DeleteFeatures(v)
       PROVE  R /\ P
  BY <1>1, <1>10 DEF Request, AutoReindex, Begin, ReadFile, ReadTemplate,
     ReplaceRows, ReplacePartly, Replace, ReadSymbols, WriteStates, ReadFeatureSymbols, DeleteFeatures
<1> HIDE DEF R, P
<1>11. ASSUME NEW v \in Process, Step(v) PROVE R /\ P
  <2>1. CASE Progress(v)
    BY <1>3, <1>4, <1>5, <1>6, <1>7, <1>8, <1>10, <2>1 DEF Progress
  <2>2. CASE Failure(v)
    BY <1>4, <1>8, <1>10, <2>2 DEF Failure
  <2>3. CASE Request(v) \/ AutoReindex(v)
    BY <1>10, <2>3
  <2> QED BY <1>11, <2>1, <2>2, <2>3 DEF Step
<1>12. R /\ P
  BY <1>9, <1>11 DEF Next
<1> QED BY <1>12 DEF R, P

(* A transaction that replaces rows takes relationships only with their file *)
(* row, and gives file rows it inserts an id no held relationship has.        *)
LEMMA RelationshipsKept ==
    ASSUME EdgeInv, [Next]_vars, NEW r \in RelationshipRow, r.file[2] <= gen,
           r.file \in FileIds(db) => r \in db.relationships, r.file \in FileIds(db')
    PROVE  r \in db'.relationships
<1>1. CASE SameRows
  BY <1>1 DEF SameRows, FileIds
<1>2. ASSUME NEW v \in Process, NEW new, Commits(v, new) PROVE r \in db'.relationships
  <2>1. db' = ReplacedDb(v, new)
    BY <1>2 DEF Commits, Replace
  <2>2. r.file[2] # gen + 1
    <3>1. r.file[2] \in Nat /\ gen \in Nat
      BY DEF EdgeInv, RowsInv, TypeOK, RelationshipRow, FileId
    <3> QED BY <3>1
  <2>3. PICK f \in db'.files : f.id = r.file
    BY DEF FileIds
  <2>4. f \in db.files /\ PathOf(f.id) \notin batch[v]
    BY <1>2, <2>1, <2>2, <2>3, ReplacedFiles DEF EdgeInv, RowsInv
  <2>5. r \in db.relationships
    BY <2>3, <2>4 DEF FileIds
  <2>6. r.file \notin RowsOf(db, batch[v])
    BY <2>3, <2>4 DEF RowsOf
  <2> QED BY <2>1, <2>5, <2>6 DEF ReplacedDb, InsertRows, DeleteFileData
<1> QED BY <1>1, <1>2, StepSameRows DEF EdgeInv, RowsInv

LEMMA HeldKept ==
    ASSUME EdgeInv, [Next]_vars, NEW w \in Process
    PROVE  Held(w)'
<1>1. \A e \in pending'[w] : e.src = NoSymbol
  BY HeldStep, InteractionSource DEF EdgeInv, Held
<1>2. gen \in Nat /\ gen' \in Nat /\ gen <= gen'
  <2>1. SameRows => gen' = gen
    BY DEF SameRows
  <2>2. (\E v \in Process : \E new : Commits(v, new)) => gen' = gen + 1
    BY DEF Commits, Replace
  <2> QED BY <2>1, <2>2, StepSameRows DEF EdgeInv, RowsInv, TypeOK
<1>3. ASSUME NEW r \in rels'[w]
      PROVE  r.file[2] <= gen' /\ (r.file \in FileIds(db') => r \in db'.relationships)
  <2>1. CASE r \in rels[w]
    <3>1. r \in RelationshipRow /\ r.file[2] \in Nat
      BY <2>1 DEF EdgeInv, RowsInv, TypeOK, RelationshipRow, FileId
    <3>2. r.file[2] <= gen /\ (r.file \in FileIds(db) => r \in db.relationships)
      BY <2>1 DEF EdgeInv, Held
    <3> QED BY <1>2, <3>1, <3>2, RelationshipsKept
  <2>2. CASE r \in db.relationships /\ UNCHANGED <<db, gen>>
    <3>1. r.file \in FileIds(db)
      BY <2>2 DEF EdgeInv, RowsInv, RowsMatchHash, OwnersExist
    <3>2. PICK f \in db.files : f.id = r.file
      BY <3>1 DEF FileIds
    <3> QED BY <2>2, <3>2 DEF EdgeInv, RowsInv, Fresh
  <2> QED BY <1>3, <2>1, <2>2, HeldStep
<1> QED BY <1>1, <1>3 DEF Held

(* Edges inserted from held reads hang on rows of the database, because the  *)
(* foreign keys of edges.file_id and edges.target_symbol_id refuse the others. *)
LEMMA InsertedAnchored ==
    ASSUME EdgeInv, ForeignKeys, NEW es,
           \A e \in es : ReferencesExist(db, e) => Anchored(db, e)
    PROVE  EdgesAnchored(InsertEdges(db, es))
<1> DEFINE e == InsertEdges(db, es)
<1>1. /\ e.files = db.files /\ e.symbols = db.symbols
      /\ e.edges = db.edges \union {x \in es : ReferencesExist(db, x)}
  BY DEF InsertEdges, EdgeInv, RowsInv, TypeOK, Database
<1> HIDE DEF e
<1>2. EdgesAnchored(e)
  BY <1>1 DEF EdgeInv, EdgesAnchored, Anchored, FileIds
<1> QED BY <1>2 DEF e

LEMMA EdgesCommit ==
    ASSUME EdgeInv, NEW w \in Process, ReplaceRows(w) \/ ReplacePartly(w)
    PROVE  EdgesAnchored(db')
<1>1. PICK new : Commits(w, new)
  BY CommittedRows DEF EdgeInv, RowsInv
<1>2. DeleteFileData(db, RowsOf(db, batch[w])) \in Database
  BY DeleteType DEF EdgeInv, RowsInv, TypeOK
<1>3. EdgesAnchored(DeleteFileData(db, RowsOf(db, batch[w])))
  BY DeleteAnchors DEF EdgeInv, RowsInv, TypeOK
<1> QED BY <1>1, <1>2, <1>3, InsertAnchors DEF Commits, Replace, ReplacedDb

LEMMA EdgesProgress ==
    ASSUME EdgeInv, ForeignKeys, NEW w \in Process, Progress(w)
    PROVE  EdgesAnchored(db')
<1> USE DEF EdgeInv, RowsInv, TypeOK
<1>1. CASE ReplaceRows(w)
  BY <1>1, EdgesCommit
<1>2. CASE FlushEdges(w)
  <2>1. ASSUME NEW e \in StaticEdges(rels[w], syms[w]), ReferencesExist(db, e)
        PROVE  Anchored(db, e)
    <3>1. e.file \in FileIds(db) /\ e.tgt \in db.symbols
      BY <2>1 DEF ReferencesExist
    <3>2. \A r \in rels[w] : r.file = e.file => r \in db.relationships
      BY <3>1 DEF Held
    <3> QED BY <3>1, <3>2, StaticAnchored
  <2> QED BY <1>2, <2>1, InsertedAnchored DEF FlushEdges
<1>3. CASE InsertInteraction(w)
  <2>1. PICK e \in pending[w] : db' = InsertEdges(db, {e})
    BY <1>3 DEF InsertInteraction
  <2>2. ReferencesExist(db, e) => Anchored(db, e)
    BY <2>1 DEF ReferencesExist, Held, Anchored
  <2> QED BY <2>1, <2>2, InsertedAnchored
<1>4. CASE WriteStates(w)
  <2>1. db'.files = db.files /\ db'.symbols = db.symbols /\ db'.edges = db.edges
    BY <1>4 DEF WriteStates, UpdateStates, Database
  <2> QED BY <2>1, AnchoredFrame
<1>5. CASE WriteFeatures(w) \/ InsertFeatures(w)
  <2>1. db'.files = db.files /\ db'.symbols = db.symbols /\ db'.edges = db.edges
    BY <1>5 DEF WriteFeatures, InsertFeatures, Database
  <2> QED BY <2>1, AnchoredFrame
<1>6. CASE UNCHANGED db
  BY <1>6
<1> QED BY <1>1, <1>2, <1>3, <1>4, <1>5, <1>6
     DEF tables, Progress, ReadFile, ReadTemplate, ReadRelationships, ReadSymbols, ScanInteractions,
         ReadFeatureSymbols, ReadFeatureEdges

LEMMA EdgesFailure ==
    ASSUME EdgeInv, NEW w \in Process, Failure(w)
    PROVE  EdgesAnchored(db')
<1>1. CASE ReplacePartly(w)
  BY <1>1, EdgesCommit
<1>2. CASE ~ReplacePartly(w)
  <2>1. db'.files = db.files /\ db'.symbols = db.symbols /\ db'.edges = db.edges
    BY <1>2 DEF Failure, ReplaceFails, LinkFails, DeleteFeatures, Crash, EdgeInv,
           RowsInv, TypeOK, Database, tables
  <2> QED BY <2>1, AnchoredFrame DEF EdgeInv
<1> QED BY <1>1, <1>2

LEMMA EdgesStep ==
    ASSUME EdgeInv, ForeignKeys, [Next]_vars
    PROVE  EdgeInv'
<1>1. RowsInv' /\ \A w \in Process : Held(w)'
  BY RowsStep, HeldKept DEF EdgeInv
<1>2. CASE UNCHANGED db
  BY <1>1, <1>2 DEF EdgeInv
<1>3. ASSUME NEW w \in Process, Progress(w) \/ Failure(w) PROVE EdgesAnchored(db')
  BY <1>3, EdgesProgress, EdgesFailure
<1> QED BY <1>1, <1>2, <1>3 DEF EdgeInv, Next, Step, Request, AutoReindex, Begin,
           Edit, EditTemplate, vars, tables

LEMMA EdgesInit == Init => EdgeInv
<1> SUFFICES ASSUME Init PROVE EdgeInv
  OBVIOUS
<1>1. RowsInv
  BY RowsInit
<1>2. EdgesAnchored(db)
  BY <1>1, FullIndexSound DEF Init, RowsInv, TypeOK
<1>3. \A w \in Process : Held(w)
  BY DEF Init, Held
<1> QED BY <1>1, <1>2, <1>3 DEF EdgeInv

(* Where SQLite enforces foreign keys, no edge ever hangs on a file or symbol *)
(* row that is gone, although every call builds its edges from reads that the *)
(* transactions of other calls may have overtaken.                            *)
THEOREM EdgesCorrect ==
    ASSUME ForeignKeys
    PROVE  Spec => []NoDanglingEdges
<1>1. EdgeInv => NoDanglingEdges
  BY AnchoredNotDangling DEF EdgeInv, NoDanglingEdges
<1>2. EdgeInv /\ [Next]_vars => EdgeInv'
  BY EdgesStep
<1> QED BY <1>1, <1>2, EdgesInit, PTL DEF Spec

----------------------------------------------------------------------------
(* Edges of untouched consumers *)

EdgeOf(r, s) ==
    [file |-> r.file, src |-> EnclosingSymbol(r), tgt |-> s, kind |-> "static"]

(* A call that will yet insert the edge of relationship r to symbol s: its   *)
(* reads are to come, or have what pass 2 needs to resolve r to s.           *)
Promised(w, r, s) ==
    \/ pc[w] = "replaced"
    \/ pc[w] = "rels_read" /\ r \in rels[w]
    \/ /\ pc[w] \in {"syms_read", "states_written"}
       /\ r \in rels[w] /\ s \in syms[w] /\ LinksTo(r, s, syms[w])

LinkedOrPromised(r, s) ==
    LinksTo(r, s, db.symbols) =>
        EdgeOf(r, s) \in db.edges \/ \E w \in Process : Promised(w, r, s)

RestoreInv ==
    /\ RowsInv
    /\ faults = 0 => \A r \in db.relationships, s \in db.symbols : LinkedOrPromised(r, s)

(* A promise holds until it is kept *)
LEMMA PromiseKept ==
    ASSUME TypeOK, SameRows, NEW r \in db.relationships, NEW s \in db.symbols,
           LinksTo(r, s, db.symbols), NEW w \in Process, Promised(w, r, s),
           NEW v \in Process, Progress(v), ~FlushEdges(v)
    PROVE  Promised(w, r, s)'
<1>1. ASSUME UNCHANGED <<pc[w], rels[w], syms[w]>> PROVE Promised(w, r, s)'
  BY <1>1 DEF Promised
<1>2. CASE v # w
  BY <1>1, <1>2 DEF TypeOK, Progress, ReadFile, ReadTemplate, ReplaceRows, Replace,
     ReadRelationships,
     ReadSymbols, WriteStates, FlushEdges, ScanInteractions, InsertInteraction,
     ReadFeatureSymbols, ReadFeatureEdges, WriteFeatures, InsertFeatures,
     Return, Goto
<1>3. CASE v = w
  <2>1. CASE ReadRelationships(w)
    BY <2>1 DEF ReadRelationships, Goto, TypeOK, Promised
  <2>2. CASE ReadSymbols(w)
    <3>1. pc[w] = "rels_read" /\ r \in rels[w]
      BY <2>2 DEF ReadSymbols, Promised
    <3>2. pc'[w] = "syms_read" /\ rels'[w] = rels[w] /\ syms'[w] = db.symbols
      BY <2>2 DEF ReadSymbols, Goto, TypeOK
    <3> QED BY <3>1, <3>2 DEF Promised
  <2>3. CASE WriteStates(w)
    BY <2>3 DEF WriteStates, Goto, TypeOK, Promised
  <2> QED BY <1>3, <2>1, <2>2, <2>3 DEF Promised, Progress, ReadFile, ReadTemplate,
       ReplaceRows, Replace, Parsed, ScanInteractions, InsertInteraction, ReadFeatureSymbols, ReadFeatureEdges,
       WriteFeatures, InsertFeatures
<1> QED BY <1>2, <1>3

(* FlushEdges of w inserts what w promised, and leaves the other promises *)
LEMMA PromiseFlushed ==
    ASSUME RowsInv, NEW v \in Process, FlushEdges(v),
           NEW r \in db.relationships, NEW s \in db.symbols,
           NEW w \in Process, Promised(w, r, s)
    PROVE  EdgeOf(r, s) \in db'.edges \/ Promised(w, r, s)'
<1> USE DEF RowsInv
<1>1. CASE v # w
  BY <1>1 DEF FlushEdges, Goto, TypeOK, Promised
<1>2. CASE v = w
  <2>1. r \in rels[w] /\ s \in syms[w] /\ LinksTo(r, s, syms[w])
    BY <1>2 DEF FlushEdges, Promised
  <2>2. EdgeOf(r, s) \in StaticEdges(rels[w], syms[w])
    BY <2>1 DEF StaticEdges, EdgeOf
  <2>3. ReferencesExist(db, EdgeOf(r, s))
    BY DEF ReferencesExist, EdgeOf, RowsMatchHash, OwnersExist
  <2>4. db' = InsertEdges(db, StaticEdges(rels[w], syms[w]))
    BY <1>2 DEF FlushEdges
  <2> QED BY <2>2, <2>3, <2>4 DEF InsertEdges, TypeOK, Database
<1> QED BY <1>1, <1>2

(* No step but the first transaction of a call takes an edge away *)
LEMMA EdgesGrow ==
    ASSUME TypeOK, NEW v \in Process, Progress(v), ~ReplaceRows(v)
    PROVE  db.edges \subseteq db'.edges
<1> USE DEF TypeOK, Database, tables
<1>1. CASE WriteStates(v)
  BY <1>1 DEF WriteStates, UpdateStates
<1>2. CASE FlushEdges(v)
  BY <1>2 DEF FlushEdges, InsertEdges
<1>3. CASE InsertInteraction(v)
  BY <1>3 DEF InsertInteraction, InsertEdges
<1>4. CASE WriteFeatures(v) \/ InsertFeatures(v)
  BY <1>4 DEF WriteFeatures, InsertFeatures
<1>5. CASE UNCHANGED db
  BY <1>5
<1> QED BY <1>1, <1>2, <1>3, <1>4, <1>5
     DEF Progress, ReadFile, ReadTemplate, ReadRelationships, ReadSymbols, ScanInteractions,
         ReadFeatureSymbols, ReadFeatureEdges

LEMMA RestoreProgress ==
    ASSUME RestoreInv, faults = 0, NEW v \in Process, Progress(v), ~ReplaceRows(v),
           NEW r \in db'.relationships, NEW s \in db'.symbols
    PROVE  LinkedOrPromised(r, s)'
<1>1. TypeOK /\ RowsInv
  BY DEF RestoreInv, RowsInv
<1>2. SameRows
  BY <1>1, ProgressSameRows
<1>3. r \in db.relationships /\ s \in db.symbols
  BY <1>2 DEF SameRows
<1> SUFFICES ASSUME LinksTo(r, s, db.symbols)
             PROVE  EdgeOf(r, s) \in db'.edges \/ \E w \in Process : Promised(w, r, s)'
  BY <1>2 DEF LinkedOrPromised, SameRows
<1>4. CASE EdgeOf(r, s) \in db.edges
  BY <1>1, <1>4, EdgesGrow
<1>5. ASSUME NEW w \in Process, Promised(w, r, s)
      PROVE  EdgeOf(r, s) \in db'.edges \/ Promised(w, r, s)'
  BY <1>1, <1>2, <1>3, <1>5, PromiseKept, PromiseFlushed
<1> QED BY <1>3, <1>4, <1>5 DEF RestoreInv, LinkedOrPromised

LEMMA RestoreStep == RestoreInv /\ [Next]_vars => RestoreInv'
<1> SUFFICES ASSUME RestoreInv, [Next]_vars PROVE RestoreInv'
  OBVIOUS
<1>1. RowsInv /\ RowsInv'
  BY RowsStep DEF RestoreInv
<1>2. ASSUME UNCHANGED <<db, rels, syms>>, faults' = 0 => faults = 0,
             \A w \in Process : pc'[w] = pc[w] \/ pc[w] \in {"idle", "panicked"}
      PROVE  RestoreInv'
  BY <1>1, <1>2 DEF RestoreInv, LinkedOrPromised, Promised
<1>3. ASSUME NEW p \in Path, Edit(p) \/ EditTemplate(p) PROVE RestoreInv'
  BY <1>2, <1>3 DEF Edit, EditTemplate, local, tables
<1>4. ASSUME NEW v \in Process, Request(v) \/ AutoReindex(v) PROVE RestoreInv'
  BY <1>1, <1>2, <1>4 DEF Request, AutoReindex, Begin, Goto, bounds, tables, RowsInv,
     TypeOK
<1>5. ASSUME NEW v \in Process, Progress(v), ~ReplaceRows(v) PROVE RestoreInv'
  <2>1. faults' = faults
    BY <1>5 DEF Progress, ReadFile, ReadTemplate, ReadRelationships, ReadSymbols,
       WriteStates, FlushEdges, ScanInteractions, InsertInteraction, ReadFeatureSymbols,
       ReadFeatureEdges, WriteFeatures, InsertFeatures, bounds
  <2> QED BY <1>1, <1>5, <2>1, RestoreProgress DEF RestoreInv
<1>6. ASSUME NEW v \in Process, ReplaceRows(v) \/ ReplacePartly(v) PROVE RestoreInv'
  <2>1. pc'[v] = "replaced"
    BY <1>1, <1>6 DEF ReplaceRows, ReplacePartly, Replace, Goto, RowsInv, TypeOK
  <2> QED BY <1>1, <2>1 DEF RestoreInv, LinkedOrPromised, Promised
<1>7. ASSUME NEW v \in Process, Failure(v), ~ReplacePartly(v) PROVE RestoreInv'
  <2>1. faults' = faults + 1 /\ faults \in Nat
    BY <1>1, <1>7 DEF Failure, ReplaceFails, LinkFails, DeleteFeatures, Crash,
       Fault, RowsInv, TypeOK
  <2> QED BY <1>1, <2>1 DEF RestoreInv
<1>8. CASE UNCHANGED vars
  BY <1>2, <1>8 DEF vars, local, bounds, tables
<1> QED BY <1>3, <1>4, <1>5, <1>6, <1>7, <1>8 DEF Next, Step

LEMMA RestoreInit == Init => RestoreInv
<1> SUFFICES ASSUME Init PROVE RestoreInv
  OBVIOUS
<1>1. RowsInv
  BY RowsInit
<1>2. StaticEdges(db.relationships, db.symbols) \subseteq db.edges
  BY DEF Init, FullIndex, UpdateStates, InsertRows, EmptyDb
<1> QED BY <1>1, <1>2 DEF RestoreInv, LinkedOrPromised, StaticEdges, EdgeOf

(* If nothing fails, the edges of consumers that were deleted with the files *)
(* they point into are back when no call is between its first transaction    *)
(* and its flush, whatever the calls that overlapped had read.               *)
THEOREM RestoredCorrect == Spec => []EdgesRestored
<1>1. RestoreInv => EdgesRestored
  <2> SUFFICES ASSUME RestoreInv, faults = 0, \A w \in Process : ~Linking(w),
                      NEW e \in StaticEdges(db.relationships, db.symbols)
               PROVE  e \in db.edges
    BY DEF EdgesRestored, LinksComplete
  <2>1. PICK r \in db.relationships, s \in db.symbols :
            LinksTo(r, s, db.symbols) /\ e = EdgeOf(r, s)
    BY DEF StaticEdges, EdgeOf
  <2>2. \A w \in Process : ~Promised(w, r, s)
    BY DEF Promised, Linking
  <2> QED BY <2>1, <2>2 DEF RestoreInv, LinkedOrPromised
<1> QED BY <1>1, RestoreInit, RestoreStep, PTL DEF Spec

----------------------------------------------------------------------------
(* One process *)

(* A relationship recorded as resolved to a repository symbol has its edge *)
StatesHaveEdges(d) ==
    \A x \in d.resolved :
        x[2] = "repository_symbol" =>
            \E e \in d.edges : /\ e.file = x[1].file
                               /\ e.src = EnclosingSymbol(x[1])
                               /\ NameOf(e.tgt) = x[1].name

ResolvedExist(d) == \A x \in d.resolved : x[1] \in d.relationships

(* What the database is in every state, whatever failed *)
Sound(d) == IsFiniteSet(d.symbols) /\ EdgesAnchored(d) /\ ResolvedExist(d)

(* What the call holds is what the database has: nobody else writes *)
Current(w) ==
    /\ pc[w] = "rels_read" => rels[w] = db.relationships
    /\ pc[w] \in {"syms_read", "states_written"} =>
            rels[w] = db.relationships /\ syms[w] = db.symbols
    /\ pc[w] \in {"features_read", "edges_read", "emptied"} => syms[w] = db.symbols
    /\ pc[w] = "wiring" => \A e \in pending[w] : Anchored(db, e)
    /\ pc[w] # "panicked"
    /\ pc[w] = "emptied" => faults # 0

(* The derived tables, if nothing failed *)
Derived(w) ==
    faults = 0 =>
        /\ pc[w] = "states_written" =>
                \A x \in db.resolved : x[2] = StateOf(x[1], db.symbols)
        /\ ~Linking(w) => StatesHaveEdges(db)
        /\ pc[w] \in {"idle", "reading"} => db.features = db.symbols

AloneInv(w) == RowsInv /\ Sound(db) /\ Current(w) /\ Derived(w)

----------------------------------------------------------------------------
(* Operators *)

(* A relationship resolved to a repository symbol has an edge among those    *)
(* the builder makes: one candidate, which is not the enclosing symbol.      *)
LEMMA ResolvedToOne ==
    ASSUME NEW ss, IsFiniteSet(ss), NEW rs, NEW r \in rs,
           StateOf(r, ss) = "repository_symbol"
    PROVE  \E e \in StaticEdges(rs, ss) : /\ e.file = r.file
                                          /\ e.src = EnclosingSymbol(r)
                                          /\ NameOf(e.tgt) = r.name
                                          /\ e.tgt \in ss
<1> DEFINE F == FindByName(ss, r.name)
<1>1. F # {} /\ F # {EnclosingSymbol(r)} /\ ~(Cardinality(F) > 1)
  BY DEF StateOf
<1>2. F \subseteq ss /\ \A s \in F : NameOf(s) = r.name
  BY DEF FindByName
<1>3. IsFiniteSet(F)
  BY <1>2, FS_Subset
<1> HIDE DEF F
<1>4. PICK s \in F : TRUE
  BY <1>1
<1>5. Cardinality(F) \in Nat /\ Cardinality(F \ {s}) \in Nat
      /\ Cardinality(F \ {s}) = Cardinality(F) - 1
  BY <1>3, <1>4, FS_CardinalityType, FS_RemoveElement
<1>6. Cardinality(F \ {s}) = 0
  BY <1>1, <1>5
<1>7. F \ {s} = {}
  BY <1>3, <1>6, FS_EmptySet, FS_Subset
<1>8. F = {s} /\ s # EnclosingSymbol(r)
  BY <1>1, <1>4, <1>7
<1>9. LinksTo(r, s, ss)
  BY <1>8 DEF LinksTo, F
<1>10. EdgeOf(r, s) \in StaticEdges(rs, ss)
  BY <1>2, <1>4, <1>9 DEF StaticEdges, EdgeOf
<1>11. EdgeOf(r, s).file = r.file /\ EdgeOf(r, s).src = EnclosingSymbol(r)
       /\ EdgeOf(r, s).tgt = s
  BY DEF EdgeOf
<1> QED BY <1>2, <1>4, <1>10, <1>11

(* The first transaction deletes from every table alike *)
LEMMA DeleteSound ==
    ASSUME NEW d \in Database, NEW ids, Sound(d)
    PROVE  Sound(DeleteFileData(d, ids))
<1> DEFINE e == DeleteFileData(d, ids)
<1>1. e.symbols \subseteq d.symbols
  BY DEF DeleteFileData
<1>2. IsFiniteSet(e.symbols)
  BY <1>1, FS_Subset DEF Sound
<1>3. ResolvedExist(e)
  BY DEF Sound, ResolvedExist, DeleteFileData
<1>4. EdgesAnchored(e)
  BY DeleteAnchors DEF Sound
<1> QED BY <1>2, <1>3, <1>4 DEF Sound

LEMMA InsertSound ==
    ASSUME IsFiniteSet(Path), IsFiniteSet(Name), NEW d \in Database, Sound(d),
           NEW ps, NEW m, NEW t, Parsing(ps, m, t), NEW g \in Nat,
           NEW new, RowsFrom(new, ps, m, t, g)
    PROVE  Sound(InsertRows(d, new))
<1> DEFINE e == InsertRows(d, new)
           ids == Path \X {g}
<1>1. e.symbols = d.symbols \union new.symbols /\ e.resolved = d.resolved
      /\ d.relationships \subseteq e.relationships
  BY DEF InsertRows
<1>2. new.symbols \subseteq ids \X Name
  BY ContentAssumption DEF RowsFrom, Parsing
<1>3. IsFiniteSet(ids)
  BY FS_Singleton, FS_Product
<1> HIDE DEF ids
<1>4. IsFiniteSet(ids \X Name)
  BY <1>3, FS_Product
<1>5. IsFiniteSet(new.symbols)
  BY <1>2, <1>4, FS_Subset
<1>6. IsFiniteSet(d.symbols \union new.symbols)
  BY <1>5, FS_Union DEF Sound
<1>7. EdgesAnchored(e)
  BY InsertAnchors DEF Sound
<1>8. ResolvedExist(e)
  BY <1>1 DEF Sound, ResolvedExist
<1> QED BY <1>1, <1>6, <1>7, <1>8 DEF Sound

(* Only files, symbols, relationships, resolved and edges matter *)
LEMMA SoundFrame ==
    ASSUME NEW d, NEW e, Sound(d), e.files = d.files, e.symbols = d.symbols,
           e.relationships = d.relationships, e.resolved = d.resolved, e.edges = d.edges
    PROVE  Sound(e)
BY AnchoredFrame DEF Sound, ResolvedExist

(* Edges whose ends exist may be added *)
LEMMA SoundEdges ==
    ASSUME NEW d \in Database, Sound(d), NEW es, \A e \in es : Anchored(d, e)
    PROVE  Sound(InsertEdges(d, es))
<1> DEFINE e == InsertEdges(d, es)
<1>1. /\ e.files = d.files /\ e.symbols = d.symbols
      /\ e.relationships = d.relationships /\ e.resolved = d.resolved
      /\ e.edges \subseteq d.edges \union es
  BY DEF InsertEdges, Database
<1> HIDE DEF e
<1>2. Sound(e)
  BY <1>1 DEF Sound, ResolvedExist, EdgesAnchored, Anchored, FileIds
<1> QED BY <1>2 DEF e

(* The edges built from the rows the database has *)
LEMMA StaticsAnchored ==
    ASSUME NEW d \in Database, NEW lost, RowsMatchHash(d, lost)
    PROVE  \A e \in StaticEdges(d.relationships, d.symbols) : Anchored(d, e)
<1> SUFFICES ASSUME NEW e \in StaticEdges(d.relationships, d.symbols)
             PROVE  Anchored(d, e)
  OBVIOUS
<1>1. e.tgt \in d.symbols
  BY DEF StaticEdges
<1>2. d.relationships \in SUBSET RelationshipRow
  BY DEF Database
<1> QED BY <1>1, <1>2, StaticAnchored

(* The states written from the rows the database has are theirs, and all *)
LEMMA StatesWritten ==
    ASSUME NEW d \in Database, ResolvedExist(d)
    PROVE  LET e == UpdateStates(d, d.relationships, d.symbols) IN
           /\ ResolvedExist(e)
           /\ \A x \in e.resolved : x[2] = StateOf(x[1], d.symbols)
BY DEF UpdateStates, ResolvedExist, Database

(* Flushing the edges gives each relationship so recorded its edge *)
LEMMA StatesLinked ==
    ASSUME NEW d \in Database, Sound(d), NEW lost, RowsMatchHash(d, lost),
           \A x \in d.resolved : x[2] = StateOf(x[1], d.symbols)
    PROVE  StatesHaveEdges(InsertEdges(d, StaticEdges(d.relationships, d.symbols)))
<1> DEFINE es == StaticEdges(d.relationships, d.symbols)
           e == InsertEdges(d, es)
<1>1. e.resolved = d.resolved /\ \A x \in es : ReferencesExist(d, x) => x \in e.edges
  BY DEF InsertEdges, Database
<1>2. \A x \in es : ReferencesExist(d, x)
  BY StaticsAnchored DEF Anchored, ReferencesExist
<1>3. ASSUME NEW x \in d.resolved, x[2] = "repository_symbol"
      PROVE  \E y \in es : /\ y.file = x[1].file /\ y.src = EnclosingSymbol(x[1])
                           /\ NameOf(y.tgt) = x[1].name
  BY <1>3, ResolvedToOne DEF Sound, ResolvedExist
<1> HIDE DEF es, e
<1>4. StatesHaveEdges(e)
  BY <1>1, <1>2, <1>3 DEF StatesHaveEdges
<1> QED BY <1>4 DEF e, es

(* No neighbour of a symbol is missing when every edge is anchored *)
LEMMA NeighboursRead ==
    ASSUME NEW d, EdgesAnchored(d)
    PROVE  Neighbours(d.edges, d.symbols) \subseteq d.symbols
BY DEF EdgesAnchored, Anchored, Neighbours

----------------------------------------------------------------------------
(* Steps *)

(* A step that leaves the tables alone, and a call that keeps what it read *)
LEMMA QuietStep ==
    ASSUME NEW w, Process = {w}, AloneInv(w), RowsInv', UNCHANGED db,
           faults' = 0 => faults = 0,
           Current(w)',
           ~Linking(w)' => ~Linking(w),
           pc'[w] = "states_written" => pc[w] = "states_written",
           faults' = 0 /\ pc'[w] \in {"idle", "reading"} => pc[w] \in {"idle", "reading"}
    PROVE  AloneInv(w)'
BY DEF AloneInv, Derived, Linking

LEMMA BeginAlone ==
    ASSUME NEW w, Process = {w}, AloneInv(w), RowsInv',
           Request(w) \/ AutoReindex(w)
    PROVE  AloneInv(w)'
<1>1. /\ pc[w] = "idle" /\ pc'[w] = "reading"
      /\ UNCHANGED <<db, rels, syms, pending, faults>>
  <2>1. pc[w] # "panicked" /\ pc \in [Process -> Phase]
    BY DEF AloneInv, Current, RowsInv, TypeOK
  <2>2. PICK ps : Begin(w, ps)
    BY DEF Request, AutoReindex
  <2>3. UNCHANGED faults
    BY DEF Request, AutoReindex, bounds
  <2> QED BY <2>1, <2>2, <2>3 DEF Begin, Goto, tables
<1>2. Current(w)'
  BY <1>1 DEF Current
<1> QED BY <1>1, <1>2, QuietStep DEF Linking

LEMMA ReplaceAlone ==
    ASSUME NEW w, Process = {w}, IsFiniteSet(Path), IsFiniteSet(Name),
           AloneInv(w), RowsInv', ReplaceRows(w) \/ ReplacePartly(w)
    PROVE  AloneInv(w)'
<1> DEFINE d == DeleteFileData(db, RowsOf(db, batch[w]))
<1>1. TypeOK
  BY DEF AloneInv, RowsInv
<1>2. d \in Database /\ Sound(d)
  BY <1>1, DeleteType, DeleteSound DEF AloneInv, TypeOK
<1>3. PICK new : Commits(w, new)
  BY <1>1, CommittedRows
<1>4. gen + 1 \in Nat
  BY <1>1 DEF TypeOK
<1> HIDE DEF d
<1>5. Sound(InsertRows(d, new))
  BY <1>2, <1>3, <1>4, InsertSound DEF Commits
<1>6. Sound(db')
  BY <1>3, <1>5 DEF Commits, Replace, ReplacedDb, d
<1>7. pc'[w] = "replaced"
  BY <1>1, <1>3 DEF Commits, Replace, Goto, TypeOK
<1> QED BY <1>6, <1>7 DEF AloneInv, Current, Derived, Linking

LEMMA LinkingAlone ==
    ASSUME NEW w, Process = {w}, AloneInv(w), RowsInv',
           ReadRelationships(w) \/ ReadSymbols(w) \/ WriteStates(w) \/ FlushEdges(w)
    PROVE  AloneInv(w)'
<1>1. TypeOK /\ db \in Database /\ RowsMatchHash(db, partial) /\ Sound(db)
  BY DEF AloneInv, RowsInv, TypeOK
<1>2. CASE ReadRelationships(w)
  <2>1. pc'[w] = "rels_read" /\ rels'[w] = db.relationships /\ UNCHANGED <<db, faults>>
    BY <1>1, <1>2 DEF ReadRelationships, Goto, TypeOK, bounds, tables
  <2> QED BY <1>1, <2>1 DEF AloneInv, Current, Derived, Linking
<1>3. CASE ReadSymbols(w)
  <2>1. /\ pc[w] = "rels_read" /\ pc'[w] = "syms_read" /\ syms'[w] = db.symbols
        /\ rels'[w] = rels[w] /\ UNCHANGED <<db, faults>>
    BY <1>1, <1>3 DEF ReadSymbols, Goto, TypeOK, bounds, tables
  <2> QED BY <1>1, <2>1 DEF AloneInv, Current, Derived, Linking
<1>4. CASE WriteStates(w)
  <2>1. /\ pc[w] = "syms_read" /\ pc'[w] = "states_written"
        /\ UNCHANGED <<rels, syms, faults>>
        /\ db' = UpdateStates(db, rels[w], syms[w])
    BY <1>1, <1>4 DEF WriteStates, Goto, TypeOK, bounds, tables
  <2>2. rels[w] = db.relationships /\ syms[w] = db.symbols
    BY <2>1 DEF AloneInv, Current
  <2>3. /\ db'.symbols = db.symbols /\ db'.relationships = db.relationships
        /\ db'.files = db.files /\ db'.edges = db.edges
    BY <1>1, <2>1 DEF UpdateStates, Database
  <2>4. ResolvedExist(db') /\ \A x \in db'.resolved : x[2] = StateOf(x[1], db.symbols)
    BY <1>1, <2>1, <2>2, StatesWritten DEF Sound
  <2>5. Sound(db')
    BY <1>1, <2>3, <2>4, AnchoredFrame DEF Sound
  <2> QED BY <2>1, <2>2, <2>3, <2>4, <2>5 DEF AloneInv, Current, Derived, Linking
<1>5. CASE FlushEdges(w)
  <2>1. /\ pc[w] = "states_written" /\ pc'[w] = "linked" /\ UNCHANGED faults
        /\ db' = InsertEdges(db, StaticEdges(rels[w], syms[w]))
    BY <1>1, <1>5 DEF FlushEdges, Goto, TypeOK, bounds, tables
  <2>2. rels[w] = db.relationships /\ syms[w] = db.symbols
    BY <2>1 DEF AloneInv, Current
  <2>3. Sound(db')
    BY <1>1, <2>1, <2>2, StaticsAnchored, SoundEdges
  <2>4. faults = 0 => StatesHaveEdges(db')
    BY <1>1, <2>1, <2>2, StatesLinked DEF AloneInv, Derived
  <2> QED BY <2>1, <2>3, <2>4 DEF AloneInv, Current, Derived, Linking
<1> QED BY <1>2, <1>3, <1>4, <1>5

LEMMA WiringAlone ==
    ASSUME NEW w, Process = {w}, AloneInv(w), RowsInv',
           ScanInteractions(w) \/ InsertInteraction(w)
    PROVE  AloneInv(w)'
<1>1. TypeOK /\ db \in Database /\ Sound(db)
  BY DEF AloneInv, RowsInv, TypeOK
<1>2. CASE ScanInteractions(w)
  <2>1. /\ pc[w] = "linked" /\ pc'[w] = "wiring" /\ UNCHANGED <<db, faults>>
        /\ pending'[w] = InteractionEdges(FileIds(db), disk, db.symbols)
    BY <1>1, <1>2 DEF ScanInteractions, Goto, TypeOK, bounds, tables
  <2>2. \A e \in pending'[w] : Anchored(db, e)
    BY <2>1, InteractionSource DEF Anchored
  <2> QED BY <1>1, <2>1, <2>2 DEF AloneInv, Current, Derived, Linking
<1>3. CASE InsertInteraction(w)
  <2>1. PICK e \in pending[w] : /\ db' = InsertEdges(db, {e})
                                /\ pending'[w] = pending[w] \ {e}
    BY <1>1, <1>3 DEF InsertInteraction, TypeOK
  <2>2. pc[w] = "wiring" /\ UNCHANGED <<pc, faults>>
    BY <1>3 DEF InsertInteraction, bounds
  <2>3. \A x \in pending[w] : Anchored(db, x)
    BY <2>2 DEF AloneInv, Current
  <2>4. Sound(db')
    BY <1>1, <2>1, <2>3, SoundEdges
  <2>5. /\ db'.symbols = db.symbols /\ db'.files = db.files
        /\ db'.resolved = db.resolved /\ db.edges \subseteq db'.edges
    BY <1>1, <2>1 DEF InsertEdges, Database
  <2>6. \A x \in pending'[w] : Anchored(db', x)
    BY <2>1, <2>3, <2>5 DEF Anchored, FileIds
  <2>7. faults = 0 => StatesHaveEdges(db')
    BY <2>2, <2>5 DEF AloneInv, Derived, Linking, StatesHaveEdges
  <2> QED BY <2>2, <2>4, <2>6, <2>7 DEF AloneInv, Current, Derived, Linking
<1> QED BY <1>2, <1>3

LEMMA FeaturesAlone ==
    ASSUME NEW w, Process = {w}, AloneInv(w), RowsInv',
           \/ ReadFeatureSymbols(w) \/ ReadFeatureEdges(w)
           \/ WriteFeatures(w) \/ InsertFeatures(w) \/ DeleteFeatures(w)
    PROVE  AloneInv(w)'
<1>1. TypeOK /\ db \in Database /\ Sound(db)
  BY DEF AloneInv, RowsInv, TypeOK
<1>2. CASE ReadFeatureSymbols(w)
  <2>1. /\ pc[w] = "wiring" /\ pc'[w] = "features_read" /\ syms'[w] = db.symbols
        /\ UNCHANGED <<db, faults>>
    BY <1>1, <1>2 DEF ReadFeatureSymbols, Goto, TypeOK, bounds, tables
  <2> QED BY <1>1, <2>1 DEF AloneInv, Current, Derived, Linking
<1>3. CASE ReadFeatureEdges(w)
  <2>1. pc[w] = "features_read" /\ syms[w] = db.symbols /\ UNCHANGED <<db, faults>>
    BY <1>3 DEF ReadFeatureEdges, AloneInv, Current, bounds, tables
  <2>2. Neighbours(db.edges, syms[w]) \subseteq syms[w]
    BY <1>1, <2>1, NeighboursRead DEF Sound
  <2>3. pc'[w] = "edges_read" /\ syms'[w] = syms[w]
    BY <1>1, <1>3, <2>2 DEF ReadFeatureEdges, Goto, TypeOK
  <2> QED BY <1>1, <2>1, <2>3 DEF AloneInv, Current, Derived, Linking
<1>4. ASSUME \/ pc[w] = "edges_read" /\ db' = [db EXCEPT !.features = FeatureRows(w)]
             \/ pc[w] = "emptied" /\ db' = [db EXCEPT !.features = @ \union FeatureRows(w)],
             Return(w, "idle"), UNCHANGED faults
      PROVE  AloneInv(w)'
  <2>1. pc'[w] = "idle" /\ syms[w] = db.symbols
    BY <1>1, <1>4 DEF Return, Goto, TypeOK, AloneInv, Current
  <2>2. FeatureRows(w) = db.symbols
    BY <2>1 DEF FeatureRows
  <2>3. /\ db'.symbols = db.symbols /\ db'.files = db.files
        /\ db'.relationships = db.relationships
        /\ db'.resolved = db.resolved /\ db'.edges = db.edges
        /\ pc[w] = "edges_read" => db'.features = db.symbols
    BY <1>1, <1>4, <2>2 DEF Database
  <2>4. Sound(db')
    BY <1>1, <2>3, SoundFrame
  <2>5. faults = 0 => db'.features = db'.symbols
    BY <1>4, <2>3 DEF AloneInv, Current
  <2>6. faults = 0 => StatesHaveEdges(db')
    BY <1>4, <2>3 DEF AloneInv, Derived, Linking, StatesHaveEdges
  <2> QED BY <1>4, <2>1, <2>4, <2>5, <2>6 DEF AloneInv, Current, Derived, Linking
<1>5. CASE DeleteFeatures(w)
  <2>1. /\ pc[w] = "edges_read" /\ pc'[w] = "emptied" /\ faults' = faults + 1
        /\ syms[w] = db.symbols /\ UNCHANGED syms
        /\ db' = [db EXCEPT !.features = {}] /\ faults \in Nat
    BY <1>1, <1>5 DEF DeleteFeatures, Fault, Goto, TypeOK, AloneInv, Current
  <2>2. /\ db'.symbols = db.symbols /\ db'.files = db.files
        /\ db'.relationships = db.relationships
        /\ db'.resolved = db.resolved /\ db'.edges = db.edges
    BY <1>1, <2>1 DEF Database
  <2>3. Sound(db')
    BY <1>1, <2>2, SoundFrame
  <2>4. faults' # 0
    BY <2>1
  <2> QED BY <2>1, <2>2, <2>3, <2>4 DEF AloneInv, Current, Derived
<1> QED BY <1>2, <1>3, <1>4, <1>5 DEF WriteFeatures, InsertFeatures, bounds

LEMMA OthersAlone ==
    ASSUME NEW w, Process = {w}, AloneInv(w), RowsInv',
           \/ ReadFile(w) \/ ReadTemplate(w)
           \/ ReplaceFails(w) \/ LinkFails(w) \/ Crash(w)
    PROVE  AloneInv(w)'
<1>1. TypeOK /\ Sound(db)
  BY DEF AloneInv, RowsInv
<1>2. CASE ReadFile(w) \/ ReadTemplate(w)
  <2>1. pc[w] = "reading" /\ UNCHANGED <<db, pc, rels, syms, pending, faults>>
    BY <1>2 DEF ReadFile, ReadTemplate, bounds, tables
  <2> QED BY <2>1 DEF AloneInv, Current, Derived, Linking
<1>3. CASE ReplaceFails(w) \/ LinkFails(w) \/ Crash(w)
  <2>1. pc'[w] \in {"idle", "linked"} /\ UNCHANGED db /\ faults' = faults + 1 /\ faults \in Nat
    BY <1>1, <1>3 DEF ReplaceFails, LinkFails, Crash, Fault, Return, Goto, TypeOK, tables
  <2>2. faults' # 0
    BY <2>1
  <2> QED BY <1>1, <2>1, <2>2 DEF AloneInv, Current, Derived
<1> QED BY <1>2, <1>3

LEMMA AloneStep ==
    ASSUME NEW w, Process = {w}, IsFiniteSet(Path), IsFiniteSet(Name)
    PROVE  AloneInv(w) /\ [Next]_vars => AloneInv(w)'
<1> SUFFICES ASSUME AloneInv(w), [Next]_vars PROVE AloneInv(w)'
  OBVIOUS
<1>1. RowsInv'
  BY RowsStep DEF AloneInv
<1>2. CASE UNCHANGED <<db, pc, rels, syms, pending, faults>>
  BY <1>1, <1>2 DEF AloneInv, Current, Derived, Linking
<1>3. CASE Step(w)
  BY <1>1, <1>3, BeginAlone, ReplaceAlone, LinkingAlone, WiringAlone, FeaturesAlone,
     OthersAlone DEF Step, Progress, Failure
<1>4. ASSUME NEW p \in Path, Edit(p) \/ EditTemplate(p) PROVE AloneInv(w)'
  BY <1>2, <1>4 DEF Edit, EditTemplate, local, tables
<1>5. CASE UNCHANGED vars
  BY <1>2, <1>5 DEF vars, local, bounds, tables
<1> QED BY <1>3, <1>4, <1>5 DEF Next

LEMMA AloneInit ==
    ASSUME NEW w, Process = {w}, IsFiniteSet(Path), IsFiniteSet(Name)
    PROVE  Init => AloneInv(w)
<1> SUFFICES ASSUME Init PROVE AloneInv(w)
  OBVIOUS
<1> DEFINE ps == {p \in Path : disk[p] \in Parses}
           new == ParsedRows(ps, disk, template, 0)
           base == InsertRows(EmptyDb, new)
           linked == UpdateStates(base, base.relationships, base.symbols)
           static == StaticEdges(base.relationships, base.symbols)
<1>1. RowsInv /\ EdgesAnchored(db) /\ db \in Database
  BY EdgesInit DEF EdgeInv, RowsInv, TypeOK
<1>2. Parsing(ps, disk, template) /\ RowsFrom(new, ps, disk, template, 0)
  <2>1. Parsing(ps, disk, template)
    BY <1>1, ContentAssumption DEF Parsing, Init, Templates
  <2> HIDE DEF ps
  <2> QED BY <2>1, ParsedFrom
<1>3. EmptyDb \in Database /\ Sound(EmptyDb)
  BY FS_EmptySet DEF EmptyDb, Database, Sound, EdgesAnchored, ResolvedExist
<1>4. Sound(base) /\ base \in Database
  <2> HIDE DEF ps
  <2> QED BY <1>2, <1>3, InsertSound, InsertType
<1>5. ResolvedExist(linked) /\ \A x \in linked.resolved : x[2] = StateOf(x[1], base.symbols)
  <2> HIDE DEF base
  <2> QED BY <1>4, StatesWritten DEF Sound
<1>6. /\ db.symbols = base.symbols /\ db.relationships = base.relationships
      /\ db.resolved = linked.resolved /\ static \subseteq db.edges
      /\ db.features = base.symbols /\ linked.relationships = base.relationships
  BY DEF Init, FullIndex, UpdateStates, InsertRows, EmptyDb
<1> HIDE DEF base, linked
<1>7. Sound(db)
  BY <1>1, <1>4, <1>5, <1>6 DEF Sound, ResolvedExist
<1>8. StatesHaveEdges(db)
  <2> SUFFICES ASSUME NEW x \in db.resolved, x[2] = "repository_symbol"
               PROVE  \E e \in db.edges : /\ e.file = x[1].file
                                          /\ e.src = EnclosingSymbol(x[1])
                                          /\ NameOf(e.tgt) = x[1].name
    BY DEF StatesHaveEdges
  <2>1. x[1] \in base.relationships /\ StateOf(x[1], base.symbols) = "repository_symbol"
    BY <1>5, <1>6 DEF ResolvedExist
  <2> QED BY <1>4, <1>6, <2>1, ResolvedToOne DEF Sound
<1> QED BY <1>1, <1>6, <1>7, <1>8 DEF Init, AloneInv, Current, Derived

(* With one process, a relationship recorded as resolved to a repository     *)
(* symbol has an edge to a symbol of that name whenever no call runs, though *)
(* states and edges are written by two transactions, unless one of them      *)
(* failed.                                                                   *)
THEOREM StatesCorrect ==
    ASSUME NEW w, Process = {w}, IsFiniteSet(Path), IsFiniteSet(Name)
    PROVE  Spec => []StatesMatchEdges
<1>1. AloneInv(w) => StatesMatchEdges
  BY DEF AloneInv, Derived, StatesMatchEdges, Quiet, StatesHaveEdges, Linking
<1> QED BY <1>1, AloneInit, AloneStep, PTL DEF Spec

(* With one process, symbol_features has a row for every symbol and for      *)
(* nothing else whenever no call runs and nothing failed.                    *)
THEOREM FeaturesCorrect ==
    ASSUME NEW w, Process = {w}, IsFiniteSet(Path), IsFiniteSet(Name)
    PROVE  Spec => []FeaturesMatchSymbols
<1>1. AloneInv(w) => FeaturesMatchSymbols
  BY DEF AloneInv, Derived, FeaturesMatchSymbols, Quiet
<1> QED BY <1>1, AloneInit, AloneStep, PTL DEF Spec

(* With one process, extract_features never unwraps a community it did not   *)
(* compute, whatever was interrupted before: every end of an edge was read.  *)
THEOREM NoPanicCorrect ==
    ASSUME NEW w, Process = {w}, IsFiniteSet(Path), IsFiniteSet(Name)
    PROVE  Spec => []FeaturesNeverPanic
<1>1. AloneInv(w) => FeaturesNeverPanic
  BY DEF AloneInv, Current, FeaturesNeverPanic
<1> QED BY <1>1, AloneInit, AloneStep, PTL DEF Spec

(* With one process, no edge ever has a missing end, whether or not SQLite   *)
(* enforces foreign keys.                                                    *)
THEOREM AloneEdgesCorrect ==
    ASSUME NEW w, Process = {w}, IsFiniteSet(Path), IsFiniteSet(Name)
    PROVE  Spec => []NoDanglingEdges
<1>1. AloneInv(w) => NoDanglingEdges
  BY AnchoredNotDangling DEF AloneInv, Sound, NoDanglingEdges
<1> QED BY <1>1, AloneInit, AloneStep, PTL DEF Spec

----------------------------------------------------------------------------
(* Reindex implements FileIndex, for any number of processes, paths,        *)
(* contents and faults and any scan limit                                   *)
Recorded(c) == IF c \in Parses THEN c ELSE NoContent

(* A call that is reading has seen each file of its batch as it is now, and  *)
(* a file it has read was parsed from a content it has seen.  A call that    *)
(* is not reading has seen nothing.                                          *)
Witnessed(w) ==
    /\ pc[w] # "reading" => \A p \in Path : seen[w][p] = {}
    /\ pc[w] = "reading" =>
         /\ batch[w] # {} /\ unread[w] \subseteq batch[w]
         /\ \A p \in Path \ batch[w] : seen[w][p] = {}
         /\ \A p \in batch[w] : disk[p] \in seen[w][p]
         /\ \A p \in batch[w] \ unread[w] :
                \E c \in seen[w][p] : parsed[w][p] = Recorded(c)

SeenType == seen \in [Process -> [Path -> SUBSET (Content \union {NoContent})]]

HInv == RowsInv /\ SeenType /\ \A w \in Process : Witnessed(w)

----------------------------------------------------------------------------
(* What a step of Reindex does to a call that is reading, or is not *)

Stays(w) ==
    /\ pc'[w] = "reading" <=> pc[w] = "reading"
    /\ UNCHANGED <<batch[w], unread[w], parsed[w]>>

Rests(w) == pc[w] # "reading" /\ pc'[w] # "reading"

Begins(w) ==
    /\ pc[w] # "reading" /\ pc'[w] = "reading"
    /\ batch'[w] # {} /\ unread'[w] = batch'[w]
    /\ UNCHANGED disk

Reads(w) ==
    /\ pc[w] = "reading" /\ pc'[w] = "reading"
    /\ UNCHANGED <<disk, batch[w]>>
    /\ \E p \in unread[w] :
         /\ unread'[w] = unread[w] \ {p}
         /\ parsed'[w] = [parsed[w] EXCEPT ![p] = Recorded(disk[p])]

Ends(w) == pc[w] = "reading" /\ pc'[w] # "reading"

LEMMA ReturnCall ==
    ASSUME TypeOK, NEW v \in Process, NEW phase, phase # "reading",
           Return(v, phase), NEW w \in Process
    PROVE  Stays(w) \/ Rests(w) \/ Ends(w)
BY DEF TypeOK, Return, Goto, Stays, Rests, Ends

LEMMA GotoCall ==
    ASSUME TypeOK, NEW v \in Process, pc[v] # "reading", NEW phase,
           phase # "reading", Goto(v, phase), UNCHANGED <<batch, unread, parsed>>,
           NEW w \in Process
    PROVE  Stays(w)
BY DEF TypeOK, Goto, Stays

LEMMA ReplaceCall ==
    ASSUME TypeOK, NEW v \in Process, NEW new, Replace(v, new), NEW w \in Process
    PROVE  Stays(w) \/ Ends(w)
BY DEF Replace, Parsed, Goto, Stays, Ends, TypeOK

LEMMA ProgressCall ==
    ASSUME TypeOK, NEW v \in Process, Progress(v), NEW w \in Process
    PROVE  Stays(w) \/ Rests(w) \/ Reads(w) \/ Ends(w)
<1> DEFINE G == Stays(w) \/ Rests(w) \/ Reads(w) \/ Ends(w)
<1>1. CASE ReadFile(v)
  <2>1. CASE v = w
    BY <1>1, <2>1 DEF ReadFile, Reads, TypeOK, Recorded
  <2>2. CASE v # w
    BY <1>1, <2>2 DEF ReadFile, Stays, TypeOK
  <2> QED BY <2>1, <2>2
<1>12. CASE ReadTemplate(v)
  BY <1>12 DEF ReadTemplate, Stays
<1>2. CASE ReplaceRows(v)
  BY <1>2, ReplaceCall DEF ReplaceRows
<1>3. CASE ReadRelationships(v)
  BY <1>3, GotoCall DEF ReadRelationships
<1>4. CASE ReadSymbols(v)
  BY <1>4, GotoCall DEF ReadSymbols
<1>5. CASE WriteStates(v)
  BY <1>5, GotoCall DEF WriteStates
<1>6. CASE FlushEdges(v)
  BY <1>6, GotoCall DEF FlushEdges
<1>7. CASE ScanInteractions(v)
  BY <1>7, GotoCall DEF ScanInteractions
<1>8. CASE InsertInteraction(v)
  BY <1>8 DEF InsertInteraction, Stays
<1>9. CASE ReadFeatureSymbols(v)
  BY <1>9, GotoCall DEF ReadFeatureSymbols
<1>10. CASE ReadFeatureEdges(v)
  <2>1. CASE Return(v, "panicked")
    BY <2>1, ReturnCall
  <2>2. CASE Goto(v, "edges_read") /\ UNCHANGED <<batch, unread, parsed>>
    BY <1>10, <2>2, GotoCall DEF ReadFeatureEdges
  <2> QED BY <1>10, <2>1, <2>2 DEF ReadFeatureEdges
<1>11. CASE Return(v, "idle")
  BY <1>11, ReturnCall
<1> QED BY <1>1, <1>2, <1>3, <1>4, <1>5, <1>6, <1>7, <1>8, <1>9, <1>10, <1>11,
           <1>12
     DEF Progress, WriteFeatures, InsertFeatures

LEMMA FailureCall ==
    ASSUME TypeOK, NEW v \in Process, Failure(v), NEW w \in Process
    PROVE  Stays(w) \/ Rests(w) \/ Ends(w)
<1>1. CASE LinkFails(v)
  BY <1>1, GotoCall DEF LinkFails
<1>2. CASE DeleteFeatures(v)
  BY <1>2, GotoCall DEF DeleteFeatures
<1>3. CASE Return(v, "idle")
  BY <1>3, ReturnCall
<1>4. CASE ReplacePartly(v)
  BY <1>4, ReplaceCall DEF ReplacePartly
<1> QED BY <1>1, <1>2, <1>3, <1>4 DEF Failure, ReplaceFails, Crash

LEMMA BeginCall ==
    ASSUME TypeOK, NEW v \in Process, NEW ps \in SUBSET Path, Begin(v, ps),
           NEW w \in Process
    PROVE  Stays(w) \/ Begins(w)
BY DEF TypeOK, Begin, Goto, Stays, Begins

LEMMA CallStep ==
    ASSUME TypeOK, [Next]_vars, NEW w \in Process
    PROVE  Stays(w) \/ Rests(w) \/ Begins(w) \/ Reads(w) \/ Ends(w)
<1>1. ASSUME NEW p \in Path, Edit(p) \/ EditTemplate(p) PROVE Stays(w)
  BY <1>1 DEF Edit, EditTemplate, local, Stays
<1>2. ASSUME NEW v \in Process, Request(v) PROVE Stays(w) \/ Begins(w)
  BY <1>2, BeginCall DEF Request
<1>3. ASSUME NEW v \in Process, AutoReindex(v) PROVE Stays(w) \/ Begins(w)
  BY <1>3, BeginCall, StaleType DEF AutoReindex
<1>4. CASE UNCHANGED vars
  BY <1>4 DEF vars, local, Stays
<1> QED BY <1>1, <1>2, <1>3, <1>4, ProgressCall, FailureCall DEF Next, Step

----------------------------------------------------------------------------
(* The history of the contents seen *)

LEMMA SeenStep ==
    ASSUME SeenNext, NEW w \in Process, NEW p \in Path
    PROVE  seen'[w][p] =
             IF pc'[w] = "reading" /\ p \in batch'[w]
             THEN {disk'[p]} \union
                  (IF pc[w] = "reading" /\ p \in batch[w] THEN seen[w][p] ELSE {})
             ELSE {}
BY DEF SeenNext, Watching

LEMMA SeenTypeStep ==
    ASSUME HInv, TypeOK', SeenNext
    PROVE  SeenType'
<1>1. ASSUME NEW w \in Process, NEW p \in Path
      PROVE  seen'[w][p] \in SUBSET (Content \union {NoContent})
  <2>1. disk'[p] \in Content \union {NoContent}
    BY DEF TypeOK
  <2>2. seen[w][p] \in SUBSET (Content \union {NoContent})
    BY DEF HInv, SeenType
  <2>3. \A c \in seen'[w][p] : c = disk'[p] \/ c \in seen[w][p]
    BY SeenStep
  <2> QED BY <2>1, <2>2, <2>3
<1>2. seen' \in [Process -> [Path -> SUBSET (Content \union {NoContent})]]
  BY <1>1 DEF SeenNext
<1> QED BY <1>2 DEF SeenType

LEMMA WitnessedStep ==
    ASSUME HInv, [Next]_vars, SeenNext, NEW w \in Process
    PROVE  Witnessed(w)'
<1>1. TypeOK /\ TypeOK'
  BY TypeStep DEF HInv, RowsInv
<1>2. \A p \in Path : seen'[w][p] =
             IF pc'[w] = "reading" /\ p \in batch'[w]
             THEN {disk'[p]} \union
                  (IF pc[w] = "reading" /\ p \in batch[w] THEN seen[w][p] ELSE {})
             ELSE {}
  BY SeenStep
<1>3. batch[w] \subseteq Path /\ batch'[w] \subseteq Path /\ unread[w] \subseteq Path
  BY <1>1 DEF TypeOK
<1>4. Witnessed(w)
  BY DEF HInv
<1>5. CASE Rests(w) \/ Ends(w)
  BY <1>2, <1>5 DEF Rests, Ends, Witnessed
<1>6. CASE Begins(w)
  BY <1>2, <1>3, <1>6 DEF Begins, Witnessed
<1>7. CASE Stays(w)
  <2>1. CASE pc[w] # "reading"
    BY <1>2, <1>7, <2>1 DEF Stays, Witnessed
  <2>2. CASE pc[w] = "reading"
    <3>1. \A p \in batch[w] : seen[w][p] \subseteq seen'[w][p] /\ disk'[p] \in seen'[w][p]
      BY <1>2, <1>3, <1>7, <2>2 DEF Stays
    <3>2. /\ batch'[w] = batch[w] /\ unread'[w] = unread[w]
          /\ parsed'[w] = parsed[w] /\ pc'[w] = "reading"
      BY <1>7, <2>2 DEF Stays
    <3>3. \A p \in Path \ batch'[w] : seen'[w][p] = {}
      BY <1>2
    <3>4. ASSUME NEW p \in batch'[w] \ unread'[w]
          PROVE  \E c \in seen'[w][p] : parsed'[w][p] = Recorded(c)
      BY <1>4, <2>2, <3>1, <3>2 DEF Witnessed
    <3>5. batch[w] # {} /\ unread[w] \subseteq batch[w]
      BY <1>4, <2>2 DEF Witnessed
    <3> QED BY <3>1, <3>2, <3>3, <3>4, <3>5 DEF Witnessed
  <2> QED BY <2>1, <2>2
<1>8. CASE Reads(w)
  <2>1. PICK q \in unread[w] :
            /\ unread'[w] = unread[w] \ {q}
            /\ parsed'[w] = [parsed[w] EXCEPT ![q] = Recorded(disk[q])]
    BY <1>8 DEF Reads
  <2>2. parsed[w] \in [Path -> Content \union {NoContent}] /\ q \in batch[w]
    BY <1>1, <1>4, <1>8, <2>1 DEF TypeOK, Reads, Witnessed
  <2>3. \A p \in batch[w] : seen[w][p] \subseteq seen'[w][p] /\ disk'[p] \in seen'[w][p]
    BY <1>2, <1>3, <1>8 DEF Reads
  <2>4. ASSUME NEW p \in batch[w] \ unread'[w]
        PROVE  \E c \in seen'[w][p] : parsed'[w][p] = Recorded(c)
    <3>1. CASE p = q
      BY <1>3, <1>8, <2>1, <2>2, <2>3, <3>1 DEF Reads
    <3>2. CASE p # q
      <4>1. \E c \in seen[w][p] : parsed[w][p] = Recorded(c)
        BY <1>4, <1>8, <2>1, <2>4, <3>2 DEF Reads, Witnessed
      <4>2. parsed'[w][p] = parsed[w][p]
        BY <1>3, <2>1, <2>2, <3>2
      <4> QED BY <2>3, <4>1, <4>2
    <3> QED BY <3>1, <3>2
  <2> QED BY <1>2, <1>3, <1>4, <1>8, <2>1, <2>3, <2>4 DEF Reads, Witnessed
<1> QED BY <1>1, <1>5, <1>6, <1>7, <1>8, CallStep

LEMMA HInvStep == HInv /\ [HNext]_<<vars, seen>> => HInv'
<1> SUFFICES ASSUME HInv, [HNext]_<<vars, seen>> PROVE HInv'
  OBVIOUS
<1>1. CASE HNext
  <2>1. [Next]_vars /\ SeenNext
    BY <1>1 DEF HNext
  <2>2. RowsInv'
    BY <2>1, RowsStep DEF HInv
  <2>3. SeenType'
    BY <2>1, <2>2, SeenTypeStep DEF RowsInv
  <2> QED BY <2>1, <2>2, <2>3, WitnessedStep DEF HInv
<1>2. CASE UNCHANGED <<vars, seen>>
  <2>1. RowsInv'
    BY <1>2, RowsStep DEF HInv
  <2>2. UNCHANGED <<disk, pc, batch, unread, parsed, seen>>
    BY <1>2 DEF vars, local
  <2> QED BY <2>1, <2>2 DEF HInv, SeenType, Witnessed
<1> QED BY <1>1, <1>2

LEMMA HInvInit == HInit => HInv
<1> SUFFICES ASSUME HInit PROVE HInv
  OBVIOUS
<1>1. RowsInv
  BY RowsInit DEF HInit
<1>2. SeenType
  BY DEF HInit, SeenInit, SeenType
<1>3. \A w \in Process : Witnessed(w)
  BY DEF HInit, Init, SeenInit, Witnessed
<1> QED BY <1>1, <1>2, <1>3 DEF HInv

----------------------------------------------------------------------------
(* The index *)

LEMMA IndexedRow ==
    ASSUME UniquePaths(db), NEW row \in db.files
    PROVE  IndexedAs(PathOf(row.id)) = row.hash
BY DEF UniquePaths, IndexedAs

(* Only the file rows matter to the index *)
LEMMA IndexKept ==
    ASSUME db'.files = db.files, NEW p
    PROVE  IndexedAs(p)' = IndexedAs(p)
BY DEF IndexedAs

(* The first transaction records of its batch what was parsed, and leaves   *)
(* the rest of the index alone.                                             *)
LEMMA IndexReplaced ==
    ASSUME RowsInv, UniquePaths(db'), NEW w \in Process, NEW rows, Commits(w, rows),
           NEW p \in Path
    PROVE  IndexedAs(p)' = IF p \in batch[w] THEN parsed[w][p] ELSE IndexedAs(p)
<1> DEFINE At(q) == {f \in db.files : PathOf(f.id) = q}
           new(q) == [id |-> <<q, gen + 1>>, hash |-> parsed[w][q]]
<1>1. db'.files = {f \in db.files : PathOf(f.id) \notin batch[w]}
                  \union {new(q) : q \in {x \in batch[w] : parsed[w][x] # NoContent}}
  <2>1. rows.files = {new(q) : q \in ParsedPaths(w)}
    BY DEF Commits, RowsFrom
  <2>2. db' = ReplacedDb(w, rows)
    BY DEF Commits, Replace
  <2> HIDE DEF new
  <2> QED BY <2>1, <2>2 DEF ParsedPaths, ReplacedDb, InsertRows, DeleteFileData,
           RowsOf, FileIds
<1>2. \A q : PathOf(new(q).id) = q /\ new(q).hash = parsed[w][q]
  BY DEF PathOf
<1> HIDE DEF new
<1>3. CASE p \in batch[w] /\ parsed[w][p] # NoContent
  <2>1. new(p) \in db'.files /\ PathOf(new(p).id) = p
    BY <1>1, <1>2, <1>3
  <2>2. \A f \in db'.files : PathOf(f.id) = p => f = new(p)
    BY <2>1 DEF UniquePaths
  <2>3. (CHOOSE f \in db'.files : PathOf(f.id) = p) = new(p)
    BY <2>1, <2>2
  <2> QED BY <1>2, <1>3, <2>1, <2>3 DEF IndexedAs
<1>4. CASE p \in batch[w] /\ parsed[w][p] = NoContent
  <2>1. \A f \in db'.files : PathOf(f.id) # p
    BY <1>1, <1>2, <1>4
  <2> QED BY <1>4, <2>1 DEF IndexedAs
<1>5. CASE p \notin batch[w]
  <2>1. {f \in db'.files : PathOf(f.id) = p} = At(p)
    BY <1>1, <1>2, <1>5
  <2>2. CASE At(p) = {}
    BY <1>5, <2>1, <2>2 DEF IndexedAs
  <2>3. ASSUME NEW f \in At(p) PROVE IndexedAs(p)' = IndexedAs(p)
    <3>1. f \in db.files /\ f \in db'.files /\ PathOf(f.id) = p
      BY <2>1, <2>3
    <3>2. IndexedAs(p) = f.hash
      BY <3>1, IndexedRow DEF RowsInv, RowsMatchHash
    <3>3. \A g \in db'.files : PathOf(g.id) = p => g = f
      BY <3>1 DEF UniquePaths
    <3>4. (CHOOSE g \in db'.files : PathOf(g.id) = p) = f
      BY <3>1, <3>3
    <3> QED BY <3>1, <3>2, <3>4 DEF IndexedAs
  <2> QED BY <1>5, <2>2, <2>3
<1> QED BY <1>3, <1>4, <1>5

(* The published index records what the disk has *)
LEMMA IndexInit ==
    ASSUME Init, NEW p \in Path
    PROVE  IndexedAs(p) = Recorded(disk[p])
<1>1. disk \in [Path -> Content \union {NoContent}] /\ UniquePaths(db)
  BY RowsInit, ReindexAssumption DEF Init, RowsInv, RowsMatchHash
<1>2. db.files = {[id |-> <<q, 0>>, hash |-> disk[q]] : q \in {x \in Path : disk[x] \in Parses}}
  BY DEF Init, FullIndex, UpdateStates, InsertRows, ParsedRows, EmptyDb
<1>3. CASE disk[p] \in Parses
  <2> DEFINE row == [id |-> <<p, 0>>, hash |-> disk[p]]
  <2>1. row \in db.files
    BY <1>2, <1>3
  <2>2. IndexedAs(PathOf(row.id)) = row.hash
    BY <1>1, <2>1, IndexedRow
  <2> QED BY <1>3, <2>2 DEF PathOf, Recorded
<1>4. CASE disk[p] \notin Parses
  <2>1. \A row \in db.files : PathOf(row.id) # p
    BY <1>2, <1>4 DEF PathOf
  <2> QED BY <1>4, <2>1 DEF IndexedAs, Recorded
<1> QED BY <1>3, <1>4

----------------------------------------------------------------------------
(* Steps *)

Calling == [w \in Process |-> IF pc[w] = "reading" THEN batch[w] ELSE {}]

(* A step that neither edits a file nor begins or ends a call of FileIndex *)
LEMMA SeenKept ==
    ASSUME HInv, SeenNext, UNCHANGED disk, UNCHANGED Calling
    PROVE  UNCHANGED seen
<1>1. ASSUME NEW w \in Process, NEW p \in Path PROVE seen'[w][p] = seen[w][p]
  <2>1. Calling'[w] = Calling[w]
    OBVIOUS
  <2>2. (pc'[w] = "reading" /\ p \in batch'[w]) <=> (pc[w] = "reading" /\ p \in batch[w])
    BY <2>1 DEF Calling
  <2>3. ~(pc[w] = "reading" /\ p \in batch[w]) => seen[w][p] = {}
    BY DEF HInv, Witnessed
  <2>4. pc[w] = "reading" /\ p \in batch[w] => disk[p] \in seen[w][p]
    BY DEF HInv, Witnessed
  <2>5. CASE pc[w] = "reading" /\ p \in batch[w]
    <3>1. seen'[w][p] = {disk[p]} \union seen[w][p]
      BY <2>2, <2>5, SeenStep
    <3> QED BY <2>4, <2>5, <3>1
  <2>6. CASE ~(pc[w] = "reading" /\ p \in batch[w])
    <3>1. seen'[w][p] = {}
      BY <2>2, <2>6, SeenStep
    <3> QED BY <2>3, <2>6, <3>1
  <2> QED BY <2>5, <2>6
<1>2. seen \in [Process -> [Path -> SUBSET (Content \union {NoContent})]]
  BY DEF HInv, SeenType
<1>3. seen' = [w \in Process |-> [p \in Path |-> seen'[w][p]]]
  BY DEF SeenNext
<1>4. seen = [w \in Process |-> [p \in Path |-> seen[w][p]]]
  BY <1>2
<1> QED BY <1>1, <1>3, <1>4

Index == [p \in Path |-> IndexedAs(p)]

(* Nothing FileIndex sees changes *)
Invisible == UNCHANGED <<disk, Index, Calling, seen>>

LEMMA Stutters == Invisible => UNCHANGED FI!vars
BY DEF Invisible, Index, Calling, FI!vars

LEMMA IndexUnchanged ==
    ASSUME db'.files = db.files
    PROVE  UNCHANGED Index
BY IndexKept DEF Index

(* The contents seen by the calls, when every call but w's goes on as it was *)
LEMMA SeenElsewhere ==
    ASSUME HInv, SeenNext, UNCHANGED disk, NEW w \in Process,
           \A v \in Process \ {w} : Calling'[v] = Calling[v]
    PROVE  seen' = [seen EXCEPT ![w] = seen'[w]]
<1>1. ASSUME NEW v \in Process \ {w}, NEW p \in Path PROVE seen'[v][p] = seen[v][p]
  <2>1. (pc'[v] = "reading" /\ p \in batch'[v]) <=> (pc[v] = "reading" /\ p \in batch[v])
    BY DEF Calling
  <2>2. CASE pc[v] = "reading" /\ p \in batch[v]
    <3>1. seen'[v][p] = {disk[p]} \union seen[v][p]
      BY <2>1, <2>2, SeenStep
    <3>2. disk[p] \in seen[v][p]
      BY <2>2 DEF HInv, Witnessed
    <3> QED BY <3>1, <3>2
  <2>3. CASE ~(pc[v] = "reading" /\ p \in batch[v])
    <3>1. seen'[v][p] = {}
      BY <2>1, <2>3, SeenStep
    <3>2. seen[v][p] = {}
      BY <2>3 DEF HInv, Witnessed
    <3> QED BY <3>1, <3>2
  <2> QED BY <2>2, <2>3
<1>2. seen \in [Process -> [Path -> SUBSET (Content \union {NoContent})]]
  BY DEF HInv, SeenType
<1>3. \A v \in Process : seen'[v] = [p \in Path |-> seen'[v][p]]
  BY DEF SeenNext
<1>4. \A v \in Process \ {w} : seen'[v] = seen[v]
  <2> SUFFICES ASSUME NEW v \in Process \ {w} PROVE seen'[v] = seen[v]
    OBVIOUS
  <2>1. seen[v] = [p \in Path |-> seen[v][p]]
    BY <1>2
  <2>2. seen'[v] = [p \in Path |-> seen'[v][p]]
    BY <1>3
  <2> QED BY <1>1, <2>1, <2>2
<1>5. seen' = [v \in Process |-> seen'[v]]
  BY DEF SeenNext
<1> QED BY <1>2, <1>4, <1>5

LEMMA EditRefines ==
    ASSUME HInv, SeenNext, NEW p \in Path, Edit(p)
    PROVE  \E c \in Content \union {NoContent} : FI!Edit(p, c)
<1>1. PICK c \in Content \union {NoContent} : disk' = [disk EXCEPT ![p] = c]
  BY DEF Edit
<1>2. UNCHANGED <<db, pc, batch>>
  BY DEF Edit, local, tables
<1>3. UNCHANGED Index /\ UNCHANGED Calling
  BY <1>2, IndexUnchanged DEF Calling
<1>4. disk \in [Path -> Content \union {NoContent}]
  BY DEF HInv, RowsInv, TypeOK
<1>5. seen \in [Process -> [Path -> SUBSET (Content \union {NoContent})]]
  BY DEF HInv, SeenType
<1>6. ASSUME NEW w \in Process
      PROVE  seen'[w] = IF p \in Calling[w]
                        THEN [seen[w] EXCEPT ![p] = @ \union {c}] ELSE seen[w]
  <2> DEFINE to == IF p \in Calling[w]
                   THEN [seen[w] EXCEPT ![p] = @ \union {c}] ELSE seen[w]
  <2>1. ASSUME NEW q \in Path PROVE seen'[w][q] = to[q]
    <3>1. CASE pc[w] = "reading" /\ q \in batch[w]
      <4>1. seen'[w][q] = {disk'[q]} \union seen[w][q]
        BY <1>2, <3>1, SeenStep
      <4>2. disk[q] \in seen[w][q]
        BY <3>1 DEF HInv, Witnessed
      <4>3. CASE q = p
        <5>1. disk'[q] = c /\ p \in Calling[w]
          BY <1>1, <1>4, <3>1, <4>3 DEF Calling
        <5> QED BY <1>5, <4>1, <4>3, <5>1
      <4>4. CASE q # p
        <5>1. disk'[q] = disk[q] /\ to[q] = seen[w][q]
          BY <1>1, <1>4, <1>5, <4>4
        <5> QED BY <4>1, <4>2, <5>1
      <4> QED BY <4>3, <4>4
    <3>2. CASE ~(pc[w] = "reading" /\ q \in batch[w])
      <4>1. seen'[w][q] = {} /\ seen[w][q] = {}
        BY <1>2, <3>2, SeenStep DEF HInv, Witnessed
      <4>2. to[q] = seen[w][q]
        BY <1>5, <3>2 DEF Calling
      <4> QED BY <4>1, <4>2
    <3> QED BY <3>1, <3>2
  <2>2. to = [q \in Path |-> to[q]]
    BY <1>5
  <2>3. seen'[w] = [q \in Path |-> seen'[w][q]]
    BY DEF SeenNext
  <2> HIDE DEF to
  <2>4. seen'[w] = to
    BY <2>1, <2>2, <2>3
  <2> QED BY <2>4 DEF to
<1>7. seen' = [w \in Process |-> seen'[w]]
  BY DEF SeenNext
<1>8. seen' = [w \in Process |-> IF p \in Calling[w]
                  THEN [seen[w] EXCEPT ![p] = @ \union {c}] ELSE seen[w]]
  BY <1>6, <1>7
<1>9. FI!Edit(p, c)
  BY <1>1, <1>3, <1>8 DEF FI!Edit, Index, Calling
<1> QED BY <1>9

LEMMA BeginRefines ==
    ASSUME HInv, SeenNext, NEW w \in Process, NEW ps \in SUBSET Path, Begin(w, ps)
    PROVE  FI!Begin(w, ps)
<1>1. pc[w] # "reading" /\ pc' = [pc EXCEPT ![w] = "reading"]
      /\ batch' = [batch EXCEPT ![w] = ps] /\ UNCHANGED <<disk, db>>
  BY DEF Begin, Goto, tables
<1>2. pc \in [Process -> Phase] /\ batch \in [Process -> SUBSET Path]
  BY DEF HInv, RowsInv, TypeOK
<1>3. /\ Calling' = [Calling EXCEPT ![w] = ps] /\ Calling[w] = {}
  BY <1>1, <1>2 DEF Calling
<1>4. seen' = [seen EXCEPT ![w] = seen'[w]]
  BY <1>1, <1>3, SeenElsewhere DEF Calling
<1>5. seen'[w] = [p \in Path |-> IF p \in ps THEN {disk[p]} ELSE {}]
  <2>1. \A p \in Path : seen'[w][p] = IF p \in ps THEN {disk[p]} ELSE {}
    BY <1>1, <1>2, SeenStep
  <2>2. seen'[w] = [p \in Path |-> seen'[w][p]]
    BY DEF SeenNext
  <2> QED BY <2>1, <2>2
<1>6. UNCHANGED Index
  BY <1>1, IndexUnchanged
<1> QED BY <1>1, <1>3, <1>4, <1>5, <1>6 DEF FI!Begin, Index, Calling

(* A call that is reading and stops, for whatever reason *)
LEMMA EndRefines ==
    ASSUME HInv, SeenNext, NEW w \in Process, Ends(w), UNCHANGED disk,
           \A v \in Process \ {w} : Calling'[v] = Calling[v]
    PROVE  FI!End(w) /\ Calling[w] = batch[w]
<1>1. Calling[w] = batch[w] /\ batch[w] # {} /\ Calling'[w] = {}
  BY DEF HInv, Witnessed, Ends, Calling
<1>2. Calling' = [Calling EXCEPT ![w] = {}]
  BY <1>1 DEF Calling
<1>3. seen' = [seen EXCEPT ![w] = seen'[w]]
  BY SeenElsewhere
<1>4. seen'[w] = [p \in Path |-> {}]
  <2>1. \A p \in Path : seen'[w][p] = {}
    BY SeenStep DEF Ends
  <2>2. seen'[w] = [p \in Path |-> seen'[w][p]]
    BY DEF SeenNext
  <2> QED BY <2>1, <2>2
<1> QED BY <1>1, <1>2, <1>3, <1>4 DEF FI!End, FI!Unseen, Calling

LEMMA CommitRefines ==
    ASSUME HInv, HInv', SeenNext, NEW w \in Process, NEW rows, Commits(w, rows)
    PROVE  FI!Commit(w)
<1>1. /\ pc[w] = "reading" /\ unread[w] = {}
      /\ pc' = [pc EXCEPT ![w] = "replaced"] /\ UNCHANGED <<disk, batch>>
  BY DEF Commits, Replace, Parsed, Goto
<1>2. pc \in [Process -> Phase] /\ batch[w] \subseteq Path
  BY DEF HInv, RowsInv, TypeOK
<1>3. Ends(w) /\ \A v \in Process \ {w} : Calling'[v] = Calling[v]
  BY <1>1, <1>2 DEF Ends, Calling
<1>4. FI!End(w) /\ Calling[w] = batch[w]
  BY <1>1, <1>3, EndRefines
<1> DEFINE snap == [p \in batch[w] |-> CHOOSE c \in seen[w][p] : parsed[w][p] = Recorded(c)]
<1>5. ASSUME NEW p \in batch[w]
      PROVE  snap[p] \in seen[w][p] /\ parsed[w][p] = Recorded(snap[p])
  BY <1>1 DEF HInv, Witnessed
<1>6. snap \in FI!Snapshots(w)
  <2>1. snap \in [batch[w] -> Content \union {NoContent}]
    BY <1>2, <1>5 DEF HInv, SeenType
  <2> HIDE DEF snap
  <2> QED BY <1>4, <1>5, <2>1 DEF FI!Snapshots, Calling
<1> HIDE DEF snap
<1>7. Index' = [p \in Path |-> IF p \in Calling[w] THEN FI!Recorded(snap[p])
                               ELSE Index[p]]
  <2>1. ASSUME NEW p \in Path
        PROVE  IndexedAs(p)' = IF p \in batch[w] THEN FI!Recorded(snap[p]) ELSE IndexedAs(p)
    <3>1. UniquePaths(db')
      BY DEF HInv, RowsInv, RowsMatchHash
    <3>2. IndexedAs(p)' = IF p \in batch[w] THEN parsed[w][p] ELSE IndexedAs(p)
      BY <1>1, <3>1, IndexReplaced DEF HInv
    <3> QED BY <1>5, <3>2 DEF Recorded, FI!Recorded
  <2> QED BY <1>4, <2>1 DEF Index
<1> QED BY <1>4, <1>6, <1>7 DEF FI!Commit, Index, Calling

LEMMA AbandonRefines ==
    ASSUME HInv, SeenNext, NEW w \in Process, pc[w] = "reading",
           Return(w, "idle"), UNCHANGED <<disk, db>>
    PROVE  FI!Abandon(w)
<1>1. pc' = [pc EXCEPT ![w] = "idle"] /\ batch' = [batch EXCEPT ![w] = {}]
  BY DEF Return, Goto
<1>2. pc \in [Process -> Phase] /\ batch \in [Process -> SUBSET Path]
  BY DEF HInv, RowsInv, TypeOK
<1>3. Ends(w) /\ \A v \in Process \ {w} : Calling'[v] = Calling[v]
  BY <1>1, <1>2 DEF Ends, Calling
<1>4. FI!End(w)
  BY <1>3, EndRefines
<1>5. UNCHANGED Index
  BY IndexUnchanged
<1> QED BY <1>4, <1>5 DEF FI!Abandon, Index

LEMMA StutterRefines ==
    ASSUME HInv, SeenNext, UNCHANGED disk, db'.files = db.files, UNCHANGED Calling
    PROVE  UNCHANGED FI!vars
BY SeenKept, IndexUnchanged, Stutters DEF Invisible

(* Every step of a call but its first transaction is invisible *)
LEMMA ProgressRefines ==
    ASSUME HInv, SeenNext, NEW w \in Process, Progress(w), ~ReplaceRows(w)
    PROVE  UNCHANGED FI!vars
<1>1. TypeOK
  BY DEF HInv, RowsInv
<1>2. db'.files = db.files /\ UNCHANGED disk
  <2>1. SameRows
    BY <1>1, ProgressSameRows
  <2> QED BY <2>1 DEF SameRows, Progress, ReadFile, ReadRelationships, ReadSymbols,
         ReadTemplate, WriteStates, FlushEdges, ScanInteractions, InsertInteraction,
         ReadFeatureSymbols, ReadFeatureEdges, WriteFeatures, InsertFeatures
<1>3. UNCHANGED Calling
  <2>1. ASSUME NEW phase, phase # "reading", Return(w, phase), pc[w] # "reading"
        PROVE  UNCHANGED Calling
    BY <1>1, <2>1 DEF Return, Goto, Calling, TypeOK
  <2>2. ASSUME NEW phase, phase # "reading", Goto(w, phase), pc[w] # "reading",
               UNCHANGED batch
        PROVE  UNCHANGED Calling
    BY <1>1, <2>2 DEF Goto, Calling, TypeOK
  <2>3. ASSUME UNCHANGED <<pc, batch>> PROVE UNCHANGED Calling
    BY <2>3 DEF Calling
  <2>4. CASE ReadFile(w) \/ ReadTemplate(w) \/ InsertInteraction(w)
    BY <2>3, <2>4 DEF ReadFile, ReadTemplate, InsertInteraction
  <2>5. CASE ReadFeatureEdges(w)
    BY <2>1, <2>2, <2>5 DEF ReadFeatureEdges
  <2>6. CASE WriteFeatures(w) \/ InsertFeatures(w)
    BY <2>1, <2>6 DEF WriteFeatures, InsertFeatures
  <2>7. CASE \/ ReadRelationships(w) \/ ReadSymbols(w) \/ WriteStates(w)
             \/ FlushEdges(w) \/ ScanInteractions(w) \/ ReadFeatureSymbols(w)
    BY <2>2, <2>7 DEF ReadRelationships, ReadSymbols, WriteStates, FlushEdges,
       ScanInteractions, ReadFeatureSymbols
  <2> QED BY <2>4, <2>5, <2>6, <2>7 DEF Progress
<1> QED BY <1>2, <1>3, StutterRefines

(* A fault gives a call up, or is invisible *)
LEMMA FailureRefines ==
    ASSUME HInv, SeenNext, NEW w \in Process, Failure(w), ~ReplacePartly(w)
    PROVE  FI!Abandon(w) \/ UNCHANGED FI!vars
<1>1. TypeOK
  BY DEF HInv, RowsInv
<1>2. db'.files = db.files /\ UNCHANGED disk
  BY <1>1, FailureSameRows DEF SameRows, Failure, ReplaceFails, LinkFails,
     DeleteFeatures, Crash
<1>3. CASE ReplaceFails(w) \/ Crash(w)
  <2>1. Return(w, "idle") /\ UNCHANGED <<disk, db>>
    BY <1>3 DEF ReplaceFails, Crash, tables
  <2>2. CASE pc[w] = "reading"
    BY <2>1, <2>2, AbandonRefines
  <2>3. CASE pc[w] # "reading"
    <3>1. UNCHANGED Calling
      BY <1>1, <2>1, <2>3 DEF Return, Goto, Calling, TypeOK
    <3> QED BY <1>2, <3>1, StutterRefines
  <2> QED BY <2>2, <2>3
<1>4. CASE LinkFails(w) \/ DeleteFeatures(w)
  <2>1. UNCHANGED Calling
    BY <1>1, <1>4 DEF LinkFails, DeleteFeatures, Goto, Calling, TypeOK
  <2> QED BY <1>2, <2>1, StutterRefines
<1> QED BY <1>3, <1>4 DEF Failure

LEMMA NextRefines == HInv /\ HInv' /\ [HNext]_<<vars, seen>> => [FI!Next]_FI!vars
<1> SUFFICES ASSUME HInv, HInv', [HNext]_<<vars, seen>> PROVE [FI!Next]_FI!vars
  OBVIOUS
<1>1. CASE UNCHANGED <<vars, seen>>
  <2>1. Invisible
    BY <1>1, IndexUnchanged DEF vars, local, tables, Invisible, Calling
  <2> QED BY <2>1, Stutters
<1>2. CASE HNext
  <2>0. SeenNext
    BY <1>2 DEF HNext
  <2>1. ASSUME NEW p \in Path, Edit(p) PROVE FI!Next
    <3>1. \E c \in Content \union {NoContent} : FI!Edit(p, c)
      BY <2>0, <2>1, EditRefines
    <3> QED BY <3>1 DEF FI!Next
  <2>2. ASSUME NEW w \in Process, Request(w) PROVE FI!Next
    <3>1. PICK ps \in SUBSET Path : Begin(w, ps)
      BY <2>2 DEF Request
    <3>2. FI!Begin(w, ps)
      BY <2>0, <3>1, BeginRefines
    <3> QED BY <3>2 DEF FI!Next
  <2>3. ASSUME NEW w \in Process, AutoReindex(w) PROVE FI!Next
    <3>1. PICK ps \in SUBSET Path : Begin(w, ps)
      BY <2>3, StaleType DEF AutoReindex, HInv, RowsInv
    <3>2. FI!Begin(w, ps)
      BY <2>0, <3>1, BeginRefines
    <3> QED BY <3>2 DEF FI!Next
  <2>7. ASSUME NEW p \in Path, EditTemplate(p) PROVE UNCHANGED FI!vars
    <3>1. UNCHANGED <<disk, db>> /\ UNCHANGED Calling
      BY <2>7 DEF EditTemplate, tables, local, Calling
    <3> QED BY <2>0, <3>1, StutterRefines
  <2>4. ASSUME NEW w \in Process, ReplaceRows(w) \/ ReplacePartly(w) PROVE FI!Next
    <3>1. PICK rows : Commits(w, rows)
      BY <2>4, CommittedRows DEF HInv, RowsInv
    <3>2. FI!Commit(w)
      BY <2>0, <3>1, CommitRefines
    <3> QED BY <3>2 DEF FI!Next
  <2>5. ASSUME NEW w \in Process, Progress(w), ~ReplaceRows(w)
        PROVE  UNCHANGED FI!vars
    BY <2>0, <2>5, ProgressRefines
  <2>6. ASSUME NEW w \in Process, Failure(w), ~ReplacePartly(w)
        PROVE  FI!Next \/ UNCHANGED FI!vars
    <3>1. FI!Abandon(w) \/ UNCHANGED FI!vars
      BY <2>0, <2>6, FailureRefines
    <3> QED BY <3>1 DEF FI!Next
  <2> QED BY <1>2, <2>1, <2>2, <2>3, <2>4, <2>5, <2>6, <2>7 DEF HNext, Next, Step
<1> QED BY <1>1, <1>2

LEMMA InitRefines == HInit => FI!Init
<1> SUFFICES ASSUME HInit PROVE FI!Init
  OBVIOUS
<1>1. Init /\ seen = [w \in Process |-> [p \in Path |-> {}]]
  BY DEF HInit, SeenInit
<1>2. disk \in [Path -> Content \union {NoContent}]
  BY <1>1, ReindexAssumption DEF Init
<1>3. Index = [p \in Path |-> FI!Recorded(disk[p])]
  BY <1>1, IndexInit DEF Index, Recorded, FI!Recorded
<1>4. Calling = [w \in Process |-> {}]
  BY <1>1 DEF Init, Calling
<1> QED BY <1>1, <1>2, <1>3, <1>4 DEF FI!Init, FI!Unseen, Index, Calling

(* Reindex implements FileIndex: of any number of overlapping calls, edits,  *)
(* crashes and failures, each call writes to content_hash, in one step, what *)
(* each of its files was read as at some moment of the call, or nothing; no  *)
(* later step of reindex_paths changes what the index says.                  *)
THEOREM RefinementCorrect == HSpec => ImplementsFileIndex
BY InitRefines, HInvInit, HInvStep, NextRefines, PTL
   DEF HSpec, ImplementsFileIndex, FI!Spec
=============================================================================
