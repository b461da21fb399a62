-------------------------- MODULE Semantic_proofs ---------------------------
(***************************************************************************)
(* Theorems about Semantic, for any files, texts, models and bounds.       *)
(***************************************************************************)
EXTENDS Semantic, FiniteSetTheorems, WellFoundedInduction, NaturalsInduction, TLAPS

----------------------------------------------------------------------------
(* Numbers and sets *)

(* A bounded set of naturals has a greatest element, and Max is it *)
LEMMA MaxOfBounded ==
    ASSUME NEW S \in SUBSET Nat, S # {}, NEW k \in Nat, \A x \in S : x <= k
    PROVE  Max(S) \in S /\ \A x \in S : x <= Max(S)
<1> DEFINE gaps == {k - x : x \in S}
<1>1. gaps \subseteq Nat /\ gaps # {}
  <2>1. \A x \in S : x \in Nat /\ x <= k /\ k - x \in Nat
    OBVIOUS
  <2>2. PICK x \in S : TRUE
    OBVIOUS
  <2>3. k - x \in gaps
    OBVIOUS
  <2> QED BY <2>1, <2>3
<1>2. \E m \in gaps : \A n \in gaps : ~(<<n, m>> \in OpToRel(<, Nat))
  BY <1>1, NatLessThanWellFounded, WFMin
<1>3. PICK m \in gaps : \A n \in gaps : ~(n < m)
  BY <1>1, <1>2 DEF OpToRel
<1>4. PICK x \in S : m = k - x
  BY <1>3
<1>5. \A y \in S : x >= y
  <2> SUFFICES ASSUME NEW y \in S, ~(x >= y) PROVE FALSE
    OBVIOUS
  <2>1. k - y \in gaps /\ k - y < m
    BY <1>4
  <2> QED BY <2>1, <1>3
<1> QED BY <1>4, <1>5 DEF Max

(* The place of an element in a finite set of integers *)
LEMMA RankRange ==
    ASSUME NEW S, IsFiniteSet(S), NEW x \in S, S \subseteq Int
    PROVE  Cardinality({y \in S : y <= x}) \in 1..Cardinality(S)
<1> DEFINE below == {y \in S : y <= x}
<1>1. below \in SUBSET S /\ below # {}
  OBVIOUS
<1>2. IsFiniteSet(below) /\ Cardinality(below) <= Cardinality(S)
  BY <1>1, FS_Subset
<1>3. Cardinality(below) \in Nat /\ Cardinality(S) \in Nat /\ Cardinality(below) # 0
  BY <1>1, <1>2, FS_CardinalityType, FS_EmptySet
<1> QED BY <1>2, <1>3

LEMMA RankInjective ==
    ASSUME NEW S, IsFiniteSet(S), S \subseteq Int, NEW x \in S, NEW z \in S,
           Cardinality({y \in S : y <= x}) = Cardinality({y \in S : y <= z})
    PROVE  x = z
<1>1. ASSUME NEW a \in S, NEW b \in S, a < b,
             Cardinality({y \in S : y <= a}) = Cardinality({y \in S : y <= b})
      PROVE  FALSE
  <2>0. \A y \in S : y <= a => y <= b
    BY <1>1
  <2>1. {y \in S : y <= a} \in SUBSET {y \in S : y <= b}
    BY <2>0
  <2>2. IsFiniteSet({y \in S : y <= b})
    BY FS_Subset
  <2>3. {y \in S : y <= b} = {y \in S : y <= a}
    BY <1>1, <2>1, <2>2, FS_Subset
  <2> QED BY <1>1, <2>3
<1> QED BY <1>1
----------------------------------------------------------------------------
(* The rows *)

(* The rows of symbols are those of the texts the index has for their files, *)
(* under ids the counter has given out *)
RowsInv ==
    /\ disk \in [File -> Text \cup {NoText}]
    /\ indexed \in [File -> Text \cup {NoText}]
    /\ lastId \in Nat
    /\ DOMAIN sym \subseteq 1..lastId
    /\ \A s \in DOMAIN sym :
          /\ sym[s].file \in File
          /\ indexed[sym[s].file] \in Text
          /\ sym[s].name \in Names(sym[s].file, indexed[sym[s].file])

(* An id that was once the symbol called name in file f: the row may be gone, *)
(* but no other symbol has the id *)
Known(id, name, f) ==
    /\ id \in 1..lastId
    /\ id \in DOMAIN sym => sym[id].name = name /\ sym[id].file = f

(* New rows have ids of their own and names of the text *)
LEMMA NewRowsOf ==
    ASSUME NEW f \in File, NEW v \in Text, lastId \in Nat,
           NEW s \in DOMAIN NewRows(f, v)
    PROVE  /\ s \in (lastId + 1)..(lastId + Cardinality(Names(f, v)))
           /\ NewRows(f, v)[s].name \in Names(f, v)
           /\ NewRows(f, v)[s].file = f
<1> DEFINE names == Names(f, v)
           rank(n) == Cardinality({m \in names : m <= n})
<1>1. IsFiniteSet(names) /\ names \subseteq Int
  BY SemanticAssumption
<1>2. PICK n \in names : s = lastId + rank(n)
  BY DEF NewRows
<1>3. rank(n) \in 1..Cardinality(names) /\ Cardinality(names) \in Nat
  BY <1>1, RankRange, FS_CardinalityType
<1>4. s \in (lastId + 1)..(lastId + Cardinality(names))
  <2> HIDE DEF names, rank
  <2> QED BY <1>2, <1>3
<1>5. NewRows(f, v)[s] = [name |-> CHOOSE m \in names : lastId + rank(m) = s, file |-> f]
  BY DEF NewRows
<1>6. (CHOOSE m \in names : lastId + rank(m) = s) \in names
  BY <1>2
<1> QED BY <1>4, <1>5, <1>6

(* What a replacement does to the rows: those of the file go, those of others *)
(* stay as they are, and what is new is of the file and of its text on disk *)
LEMMA Replaced ==
    ASSUME RowsInv, NEW f \in File, Replace(f)
    PROVE  /\ lastId' \in Nat /\ lastId <= lastId'
           /\ disk[f] \in Text
           /\ \A s \in DOMAIN sym' :
                 \/ s \in DOMAIN sym /\ s \notin SymbolsOf(f) /\ sym'[s] = sym[s]
                 \/ /\ s \in (lastId + 1)..lastId'
                    /\ sym'[s].file = f /\ sym'[s].name \in Names(f, disk[f])
           /\ \A s \in DOMAIN sym \ SymbolsOf(f) : s \in DOMAIN sym'
<1> DEFINE v == disk[f]
           kept == DOMAIN sym \ SymbolsOf(f)
           new == NewRows(f, v)
<1>1. v \in Text
  BY DEF RowsInv, Replace
<1>2. lastId \in Nat /\ lastId' = lastId + Cardinality(Names(f, v))
  BY DEF RowsInv, Replace
<1>3. Cardinality(Names(f, v)) \in Nat
  BY <1>1, SemanticAssumption, FS_CardinalityType
<1>4. \A s \in DOMAIN new : /\ s \in (lastId + 1)..lastId'
                            /\ new[s].name \in Names(f, v)
                            /\ new[s].file = f
  BY <1>1, <1>2, NewRowsOf
<1>5. sym' = [s \in kept \cup DOMAIN new |-> IF s \in kept THEN sym[s] ELSE new[s]]
  BY Zenon DEF Replace
<1> HIDE DEF v, new
<1>6. DOMAIN sym' = kept \cup DOMAIN new
  BY <1>5
<1>7. \A s \in kept : sym'[s] = sym[s]
  BY <1>5
<1>8. \A s \in DOMAIN new \ kept : sym'[s] = new[s]
  BY <1>5
<1>9. lastId <= lastId'
  BY <1>2, <1>3
<1>10. \A s \in DOMAIN sym' :
          \/ s \in DOMAIN sym /\ s \notin SymbolsOf(f) /\ sym'[s] = sym[s]
          \/ /\ s \in (lastId + 1)..lastId'
             /\ sym'[s].file = f /\ sym'[s].name \in Names(f, v)
  BY <1>4, <1>6, <1>7, <1>8
<1>11. lastId' \in Nat
  BY <1>2, <1>3
<1> QED BY <1>1, <1>6, <1>9, <1>10, <1>11 DEF v
LEMMA ReplacedRows ==
    ASSUME RowsInv, NEW f \in File, Replace(f), UNCHANGED disk
    PROVE  RowsInv'
<1>1. indexed' = [indexed EXCEPT ![f] = disk[f]]
  BY DEF Replace
<1>2. disk[f] \in Text /\ lastId' \in Nat /\ lastId <= lastId'
  BY Replaced
<1>3. indexed' \in [File -> Text \cup {NoText}]
  BY <1>1, <1>2 DEF RowsInv
<1>4. ASSUME NEW s \in DOMAIN sym'
      PROVE  /\ s \in 1..lastId'
             /\ sym'[s].file \in File
             /\ indexed'[sym'[s].file] \in Text
             /\ sym'[s].name \in Names(sym'[s].file, indexed'[sym'[s].file])
  <2>1. CASE s \in DOMAIN sym /\ s \notin SymbolsOf(f) /\ sym'[s] = sym[s]
    <3>1. sym[s].file \in File /\ sym[s].file # f
      BY <2>1 DEF SymbolsOf, RowsInv
    <3>2. indexed'[sym[s].file] = indexed[sym[s].file]
      BY <1>1, <3>1 DEF RowsInv
    <3> QED BY <1>2, <2>1, <3>1, <3>2 DEF RowsInv
  <2>2. CASE /\ s \in (lastId + 1)..lastId'
             /\ sym'[s].file = f /\ sym'[s].name \in Names(f, disk[f])
    <3>1. indexed'[f] = disk[f]
      BY <1>1 DEF RowsInv
    <3> QED BY <1>2, <2>2, <3>1 DEF RowsInv
  <2> QED BY <1>4, <2>1, <2>2, Replaced
<1>5. DOMAIN sym' \subseteq 1..lastId'
  BY <1>4
<1> QED BY <1>2, <1>3, <1>4, <1>5 DEF RowsInv

(* Ids are not reused *)
LEMMA StillKnown ==
    ASSUME RowsInv, NEW f \in File, Replace(f),
           NEW id, NEW name, NEW g, Known(id, name, g)
    PROVE  Known(id, name, g)'
<1>1. id \in 1..lastId /\ lastId \in Nat /\ lastId' \in Nat /\ lastId <= lastId'
  BY Replaced DEF Known, RowsInv
<1>2. id \notin (lastId + 1)..lastId'
  BY <1>1
<1>3. id \in DOMAIN sym' => id \in DOMAIN sym /\ sym'[id] = sym[id]
  BY <1>2, Replaced
<1> QED BY <1>1, <1>3 DEF Known

(* The request the server works on *)
ServerInv ==
    /\ server.pc \in {"assemble", "heal", "refresh", "row", "source"} =>
          server.file \in File /\ Known(server.id, server.name, server.file)
    /\ server.pc \in {"heal", "refresh", "row"} =>
          server = [pc |-> server.pc, id |-> server.id, name |-> server.name, file |-> server.file,
                    context |-> server.context]
    /\ server.pc \in {"source", "tool"} /\ server.text # NoText =>
          server.name \in Names(server.file, server.text)
    /\ SourceAligned

(* Only a replacement changes the rows *)
LEMMA RowsStep ==
    ASSUME RowsInv, ServerInv, [Next]_vars
    PROVE  /\ RowsInv'
           /\ \/ UNCHANGED <<indexed, sym, lastId>>
              \/ \E f \in File : Replace(f) /\ UNCHANGED disk
<1>1. ASSUME NEW f \in File, CliReindex(f) PROVE Replace(f) /\ UNCHANGED disk
  BY <1>1, Zenon DEF CliReindex
<1>2. CASE Heal
  <2>1. server.file \in File /\ Replace(server.file) /\ UNCHANGED disk
    BY <1>2, Zenon DEF Heal, ServerInv
  <2> QED BY <2>1, ReplacedRows
<1>3. ASSUME NEW f \in File, Edit(f)
      PROVE  disk' \in [File -> Text \cup {NoText}] /\ UNCHANGED <<indexed, sym, lastId>>
  BY <1>3 DEF Edit, RowsInv
<1>4. CASE UNCHANGED <<indexed, sym, lastId>> /\ disk' \in [File -> Text \cup {NoText}]
  BY <1>4 DEF RowsInv
<1>5. CASE UNCHANGED <<disk, indexed, sym, lastId>>
  BY <1>5 DEF RowsInv
<1>6. \/ Heal
      \/ \E f \in File : CliReindex(f) \/ Edit(f)
      \/ UNCHANGED <<disk, indexed, sym, lastId>>
  BY Zenon DEF Next, User, Cli, EditContext, ReadTool, Search, SwitchModel, CliCandidates, CliCards,
     CliEmbed, CliWrite, Assemble, HealFails, Refresh, ReadRow, ReadSource, BeginEdit,
     ReadToolSource, BeginRead, BeginSearch, Lookup, NextRequest, Restart, vars
<1> QED BY <1>1, <1>2, <1>3, <1>4, <1>5, <1>6, ReplacedRows

LEMMA KnownStep ==
    ASSUME RowsInv, ServerInv, [Next]_vars, NEW id, NEW name, NEW g, Known(id, name, g)
    PROVE  Known(id, name, g)'
BY RowsStep, StillKnown DEF Known

(* A symbol that has a row is in the text its file was indexed with *)
LEMMA KnownInText ==
    ASSUME RowsInv, NEW id \in DOMAIN sym, NEW name, NEW f, Known(id, name, f)
    PROVE  indexed[f] \in Text /\ name \in Names(f, indexed[f])
BY DEF RowsInv, Known

LEMMA ServerStep ==
    ASSUME RowsInv, ServerInv, [Next]_vars
    PROVE  ServerInv'
<1>1. ASSUME NEW id, NEW name, NEW g, Known(id, name, g) PROVE Known(id, name, g)'
  BY <1>1, KnownStep
<1>2. CASE UNCHANGED server
  BY <1>1, <1>2 DEF ServerInv, SourceAligned
<1>3. ASSUME NEW s \in DOMAIN sym, BeginEdit(s) PROVE ServerInv'
  <2>1. Known(s, sym[s].name, sym[s].file) /\ sym[s].file \in File
    BY DEF Known, RowsInv
  <2> QED BY <1>1, <1>3, <2>1 DEF BeginEdit, ServerInv, SourceAligned
<1>4. CASE Assemble
  BY <1>1, <1>4 DEF Assemble, ServerInv, SourceAligned
<1>5. CASE Heal
  BY <1>1, <1>5 DEF Heal, ServerInv, SourceAligned
<1>6. CASE HealFails
  BY <1>1, <1>6 DEF HealFails, ServerInv, SourceAligned
<1>7. CASE Refresh
  BY <1>1, <1>7 DEF Refresh, ServerInv, SourceAligned
<1>8. CASE ReadRow
  <2>1. server.id \in DOMAIN sym => server.name \in Names(server.file, indexed[server.file])
    BY <1>8, KnownInText DEF ReadRow, ServerInv
  <2> QED BY <1>1, <1>8, <2>1 DEF ReadRow, ServerInv, SourceAligned
<1>9. CASE ReadSource
  BY <1>9 DEF ReadSource, ServerInv, SourceAligned, Trusted
<1>10. ASSUME NEW s \in DOMAIN sym, BeginRead(s) PROVE ServerInv'
  BY <1>10 DEF BeginRead, ServerInv, SourceAligned, RowsInv
<1>11. CASE ReadToolSource
  BY <1>11, SemanticAssumption DEF ReadToolSource, ServerInv, SourceAligned
<1>12. CASE BeginSearch \/ Lookup \/ NextRequest
  BY <1>12 DEF BeginSearch, Lookup, Serve, NextRequest, Idle, ServerInv, SourceAligned
<1> QED
  BY <1>2, <1>3, <1>4, <1>5, <1>6, <1>7, <1>8, <1>9, <1>10, <1>11, <1>12, Zenon
  DEF Next, User, Cli, EditContext, ReadTool, Search, SwitchModel, Edit, CliReindex, CliCandidates,
      CliCards, CliEmbed, CliWrite, Restart, vars

(* What the server hands out as the source of a symbol is its body in the     *)
(* text the index describes, whatever edits, reindexing calls and its own     *)
(* healing come between the steps of the request; the tool that does not      *)
(* compare hashes does so of a file that has not changed.                     *)
THEOREM SourcesAligned == Spec => []SourceAligned
<1>1. Init => RowsInv /\ ServerInv
  BY SemanticAssumption DEF Init, RowsInv, ServerInv, SourceAligned, Idle
<1>2. RowsInv /\ ServerInv /\ [Next]_vars => (RowsInv /\ ServerInv)'
  BY RowsStep, ServerStep
<1>3. ServerInv => SourceAligned
  BY DEF ServerInv
<1> QED BY <1>1, <1>2, <1>3, PTL DEF Spec

----------------------------------------------------------------------------
(* The vectors *)

(* Rows written one after the other: each key has one row, each row its own   *)
(* rowid, and there is a highest one *)
LEMMA Upserted ==
    ASSUME NEW table, NEW rows, NEW k \in Nat,
           \A r \in table : r.rowid \in 1..k,
           \A q, r \in table : q.rowid = r.rowid \/ <<q.sym, q.model>> = <<r.sym, r.model>> => q = r,
           IsFiniteSet({q.sym : q \in rows}), {q.sym : q \in rows} \subseteq Int,
           \A q, r \in rows : q.sym = r.sym => q = r
    PROVE  /\ \E m \in Nat : \A r \in UpsertAll(table, rows) : r.rowid \in 1..m
           /\ \A q, r \in UpsertAll(table, rows) :
                 q.rowid = r.rowid \/ <<q.sym, q.model>> = <<r.sym, r.model>> => q = r
           /\ \A r \in UpsertAll(table, rows) :
                 \/ r \in table
                 \/ /\ \E q \in rows : r.sym = q.sym /\ r.card = q.card
                    /\ \A t \in table : t.rowid < r.rowid
           /\ \A t \in table : t \in UpsertAll(table, rows) \/ \E r \in rows : r.sym = t.sym
<1> DEFINE ids == {q.sym : q \in rows}
           rank(i) == Cardinality({j \in ids : j <= i})
           top == Max(Rowids(table))
           kept == {q \in table : \A r \in rows : q.sym # r.sym \/ q.model # r.model}
           row(r) == [sym |-> r.sym, model |-> r.model, card |-> r.card, rowid |-> top + rank(r.sym)]
<1>1. top \in Nat /\ \A r \in table : r.rowid \in 1..top
  <2>1. Rowids(table) \in SUBSET Nat /\ Rowids(table) # {} /\ \A x \in Rowids(table) : x <= k
    BY DEF Rowids
  <2>2. top \in Rowids(table) /\ \A x \in Rowids(table) : x <= top
    BY <2>1, MaxOfBounded
  <2> QED BY <2>1, <2>2 DEF Rowids
<1>2. \A i \in ids : rank(i) \in 1..Cardinality(ids)
  BY RankRange
<1>3. Cardinality(ids) \in Nat
  BY FS_CardinalityType
<1>4. \A i, j \in ids : rank(i) = rank(j) => i = j
  BY RankInjective
<1>5. UpsertAll(table, rows) = kept \cup {row(r) : r \in rows}
  BY DEF UpsertAll
<1>6. \A r \in rows : r.sym \in ids
  OBVIOUS
<1> HIDE DEF ids, rank, top
<1>7. top + Cardinality(ids) \in Nat
  BY <1>1, <1>3
<1>8. \A r \in rows : row(r).rowid \in (top + 1)..(top + Cardinality(ids))
  BY <1>1, <1>2, <1>3, <1>6
<1>9. \A r \in kept : r.rowid \in 1..top
  BY <1>1
<1>10. \A r \in UpsertAll(table, rows) : r.rowid \in 1..(top + Cardinality(ids))
  BY <1>1, <1>3, <1>5, <1>8, <1>9
<1>11. ASSUME NEW q \in kept, NEW r \in rows
       PROVE  q.rowid # row(r).rowid /\ <<q.sym, q.model>> # <<row(r).sym, row(r).model>>
  BY <1>1, <1>3, <1>8, <1>9
<1>12. ASSUME NEW q \in rows, NEW r \in rows,
              row(q).rowid = row(r).rowid \/ <<row(q).sym, row(q).model>> = <<row(r).sym, row(r).model>>
       PROVE  row(q) = row(r)
  <2>1. rank(q.sym) \in Nat /\ rank(r.sym) \in Nat
    BY <1>2, <1>6, <1>3
  <2>2. q.sym = r.sym
    BY <1>1, <1>4, <1>6, <1>12, <2>1
  <2> QED BY <2>2
<1>13. \A q, r \in UpsertAll(table, rows) :
          q.rowid = r.rowid \/ <<q.sym, q.model>> = <<r.sym, r.model>> => q = r
  BY <1>5, <1>11, <1>12
<1>14. \A r \in rows : \A t \in table : t.rowid < row(r).rowid
  BY <1>1, <1>3, <1>8
<1>15. \A r \in UpsertAll(table, rows) :
          \/ r \in table
          \/ /\ \E q \in rows : r.sym = q.sym /\ r.card = q.card
             /\ \A t \in table : t.rowid < r.rowid
  BY <1>5, <1>14
<1>16. \A t \in table : t \in UpsertAll(table, rows) \/ \E r \in rows : r.sym = t.sym
  BY <1>5
<1> QED BY <1>7, <1>10, <1>13, <1>15, <1>16

(* A card that may be stored for a symbol, if it still has a row *)
Carded(id, card) ==
    /\ Known(id, card.name, card.file)
    /\ id \notin used.raced => \E v \in Text : card.body = Slice(card.name, v, v)

(* An id that was once a symbol of file f *)
Owned(id, f) == id \in 1..lastId /\ (id \in DOMAIN sym => sym[id].file = f)

(* The call of reindex-incremental *)
CliInv ==
    /\ used = [edits |-> used.edits, switches |-> used.switches, heals |-> used.heals,
               raced |-> used.raced, lost |-> used.lost]
    /\ cli.pc \in {"candidates", "cards"} =>
          /\ cli.file \in File
          /\ \A s \in cli.touched : Owned(s, cli.file)
          /\ \A s \in cli.touched \ used.raced : disk[cli.file] = indexed[cli.file]
    /\ cli.pc = "cards" =>
          /\ \A c \in cli.candidates :
                /\ c.sym \in cli.touched /\ Known(c.sym, c.name, c.file)
                /\ c.sym \notin used.raced => c.text = disk[cli.file]
          /\ \A b, c \in cli.candidates : b.sym = c.sym => b = c
    /\ cli.pc = "embed" =>
          cli = [pc |-> "embed", file |-> cli.file, touched |-> cli.touched, rows |-> cli.rows]
    /\ cli.pc \in {"embed", "write"} =>
          /\ \A r \in cli.rows : Carded(r.sym, r.card)
          /\ \A q, r \in cli.rows : q.sym = r.sym => q = r

(* Only an edit makes symbols raced, those of the call whose file it edits *)
LEMMA RacedStep ==
    ASSUME CliInv, [Next]_vars
    PROVE  /\ used' = [edits |-> used'.edits, switches |-> used'.switches, heals |-> used'.heals,
                       raced |-> used'.raced, lost |-> used'.lost]
           /\ used.raced \subseteq used'.raced
           /\ \/ UNCHANGED disk
              \/ \E f \in File :
                    /\ disk' = [disk EXCEPT ![f] = disk'[f]]
                    /\ cli.pc \in {"candidates", "cards"} /\ cli.file = f =>
                          cli.touched \subseteq used'.raced
<1> DEFINE Shape == used' = [edits |-> used'.edits, switches |-> used'.switches,
                             heals |-> used'.heals, raced |-> used'.raced, lost |-> used'.lost]
<1>1. CASE UNCHANGED <<disk, used>>
  BY <1>1 DEF CliInv
<1>2. ASSUME NEW f \in File, Edit(f)
      PROVE  /\ Shape /\ used.raced \subseteq used'.raced
             /\ disk' = [disk EXCEPT ![f] = disk'[f]]
             /\ cli.pc \in {"candidates", "cards"} /\ cli.file = f => cli.touched \subseteq used'.raced
  BY <1>2 DEF Edit, Raced, CliInv
<1>3. ASSUME NEW f \in File, CliReindex(f) PROVE Shape /\ used'.raced = used.raced /\ UNCHANGED disk
  BY <1>3 DEF CliReindex, CliInv
<1>4. CASE SwitchModel \/ Heal \/ BeginSearch
  <2>1. Shape /\ used'.raced = used.raced /\ UNCHANGED disk
    BY <1>4 DEF SwitchModel, Heal, BeginSearch, CliInv
  <2> QED BY <2>1
<1>5. \/ SwitchModel \/ Heal \/ BeginSearch
      \/ \E f \in File : CliReindex(f) \/ Edit(f)
      \/ UNCHANGED <<disk, used>>
  BY Zenon DEF Next, User, Cli, EditContext, ReadTool, Search, CliCandidates, CliCards,
     CliEmbed, CliWrite, Assemble, HealFails, Refresh, ReadRow, ReadSource, BeginEdit,
     ReadToolSource, BeginRead, Lookup, NextRequest, Restart, vars
<1> QED BY <1>1, <1>2, <1>3, <1>4, <1>5

LEMMA OwnedStep ==
    ASSUME RowsInv, ServerInv, [Next]_vars, NEW id, NEW f, Owned(id, f)
    PROVE  Owned(id, f)'
<1>1. CASE UNCHANGED <<indexed, sym, lastId>>
  BY <1>1 DEF Owned
<1>2. ASSUME NEW g \in File, Replace(g) PROVE Owned(id, f)'
  <2>1. id \in 1..lastId /\ lastId \in Nat /\ lastId' \in Nat /\ lastId <= lastId'
    BY <1>2, Replaced DEF Owned, RowsInv
  <2>2. id \notin (lastId + 1)..lastId'
    BY <2>1
  <2>3. id \in DOMAIN sym' => id \in DOMAIN sym /\ sym'[id] = sym[id]
    BY <1>2, <2>2, Replaced
  <2> QED BY <2>1, <2>3 DEF Owned
<1> QED BY <1>1, <1>2, RowsStep

LEMMA CardedStep ==
    ASSUME RowsInv, ServerInv, CliInv, [Next]_vars, NEW id, NEW card, Carded(id, card)
    PROVE  Carded(id, card)'
<1>1. Known(id, card.name, card.file)'
  BY KnownStep DEF Carded
<1>2. id \notin used'.raced => id \notin used.raced
  BY RacedStep
<1> QED BY <1>1, <1>2 DEF Carded

(* While the call does nothing, what it holds stays good or becomes raced *)
LEMMA CliKept ==
    ASSUME RowsInv, ServerInv, CliInv, [Next]_vars, UNCHANGED cli
    PROVE  CliInv'
<1>1. \A s, f : Owned(s, f) => Owned(s, f)'
  BY OwnedStep
<1>2. \A s, n, f : Known(s, n, f) => Known(s, n, f)'
  BY KnownStep
<1>3. \A s, c : Carded(s, c) => Carded(s, c)'
  BY CardedStep
<1>4. ASSUME cli.pc \in {"candidates", "cards"}, NEW s \in cli.touched \ used'.raced
      PROVE  disk'[cli.file] = indexed'[cli.file] /\ disk'[cli.file] = disk[cli.file]
  <2>1. cli.file \in File /\ s \notin used.raced /\ disk[cli.file] = indexed[cli.file]
    BY <1>4, RacedStep DEF CliInv
  <2>2. disk'[cli.file] = disk[cli.file]
    <3>1. CASE UNCHANGED disk
      BY <3>1
    <3>2. ASSUME NEW f \in File, disk' = [disk EXCEPT ![f] = disk'[f]],
                 cli.file = f => cli.touched \subseteq used'.raced
          PROVE  disk'[cli.file] = disk[cli.file]
      <4>1. cli.file # f
        BY <1>4, <3>2
      <4>2. [disk EXCEPT ![f] = disk'[f]][cli.file] = disk[cli.file]
        BY <2>1, <4>1 DEF RowsInv
      <4> QED BY <3>2, <4>2, Zenon
    <3>3. CASE ~UNCHANGED disk
      <4>1. PICK f \in File : /\ disk' = [disk EXCEPT ![f] = disk'[f]]
                              /\ cli.pc \in {"candidates", "cards"} /\ cli.file = f =>
                                    cli.touched \subseteq used'.raced
        BY <3>3, RacedStep
      <4>2. cli.file = f => cli.touched \subseteq used'.raced
        BY <1>4, <4>1
      <4>3. disk' = [disk EXCEPT ![f] = disk'[f]]
        BY <4>1
      <4> QED BY <3>2, <4>2, <4>3, Zenon
    <3> QED BY <3>1, <3>3
  <2>3. indexed'[cli.file] = disk[cli.file]
    <3>1. CASE UNCHANGED indexed
      BY <2>1, <3>1
    <3>2. ASSUME NEW g \in File, Replace(g) PROVE indexed'[cli.file] = disk[cli.file]
      <4>1. indexed' = [indexed EXCEPT ![g] = disk[g]]
        BY <3>2 DEF Replace
      <4> QED BY <2>1, <4>1 DEF RowsInv
    <3> QED BY <3>1, <3>2, RowsStep
  <2> QED BY <2>2, <2>3
<1>5. used.raced \subseteq used'.raced
  BY RacedStep
<1>6. cli.pc \in {"candidates", "cards"} =>
         /\ cli.file \in File
         /\ \A s \in cli.touched : Owned(s, cli.file)'
         /\ \A s \in cli.touched \ used'.raced : disk'[cli.file] = indexed'[cli.file]
  BY <1>1, <1>4 DEF CliInv
<1>7. cli.pc = "cards" =>
         /\ \A c \in cli.candidates :
               /\ c.sym \in cli.touched /\ Known(c.sym, c.name, c.file)'
               /\ c.sym \notin used'.raced => c.text = disk'[cli.file]
         /\ \A b, c \in cli.candidates : b.sym = c.sym => b = c
  BY <1>2, <1>4, <1>5 DEF CliInv
<1>8. cli.pc \in {"embed", "write"} =>
         /\ \A r \in cli.rows : Carded(r.sym, r.card)'
         /\ \A q, r \in cli.rows : q.sym = r.sym => q = r
  BY <1>3 DEF CliInv
<1>9. cli.pc = "embed" =>
         cli = [pc |-> "embed", file |-> cli.file, touched |-> cli.touched, rows |-> cli.rows]
  BY DEF CliInv
<1> QED BY <1>6, <1>7, <1>8, <1>9, RacedStep DEF CliInv

(* The steps of the call *)
LEMMA CliStep ==
    ASSUME RowsInv, ServerInv, CliInv, [Next]_vars
    PROVE  CliInv'
<1>1. RowsInv'
  BY RowsStep
<1>2. used' = [edits |-> used'.edits, switches |-> used'.switches, heals |-> used'.heals,
               raced |-> used'.raced, lost |-> used'.lost]
  BY RacedStep
<1>3. ASSUME NEW f \in File, CliReindex(f) PROVE CliInv'
  <2>1. Replace(f) /\ UNCHANGED disk
    BY <1>3 DEF CliReindex
  <2>2. cli'.pc = "candidates" /\ cli'.file = f /\ cli'.touched = DOMAIN sym' \ DOMAIN sym
    BY <1>3 DEF CliReindex
  <2>3. \A s \in DOMAIN sym' \ DOMAIN sym : s \in 1..lastId' /\ sym'[s].file = f
    BY <1>1, <2>1, Replaced DEF RowsInv
  <2>4. indexed'[f] = disk'[f]
    BY <2>1 DEF Replace, RowsInv
  <2> QED BY <1>2, <2>2, <2>3, <2>4 DEF CliInv, Owned
<1>4. CASE CliCandidates
  <2>1. /\ cli'.pc = "cards" /\ cli'.file = cli.file /\ cli'.touched = cli.touched
        /\ cli'.candidates = Candidates(cli.touched, cli.model)
        /\ UNCHANGED <<disk, indexed, sym, lastId, used>>
    BY <1>4 DEF CliCandidates
  <2>2. /\ cli.file \in File
        /\ \A s \in cli.touched : Owned(s, cli.file)
        /\ \A s \in cli.touched \ used.raced : disk[cli.file] = indexed[cli.file]
    BY <1>4 DEF CliCandidates, CliInv
  <2>3. ASSUME NEW c \in Candidates(cli.touched, cli.model)
        PROVE  /\ c.sym \in cli.touched /\ Known(c.sym, c.name, c.file)
               /\ c.sym \notin used.raced => c.text = disk[cli.file]
    <3>1. PICK s \in cli.touched \cap DOMAIN sym :
             /\ c.sym = s /\ c.name = sym[s].name /\ c.file = sym[s].file
             /\ c.text = indexed[sym[s].file]
      BY DEF Candidates
    <3> QED BY <2>2, <3>1 DEF Owned, Known
  <2>4. \A b, c \in Candidates(cli.touched, cli.model) : b.sym = c.sym => b = c
    BY DEF Candidates
  <2> QED BY <1>2, <2>1, <2>2, <2>3, <2>4 DEF CliInv, Owned, Known
<1>5. CASE CliCards
  <2>1. UNCHANGED <<disk, indexed, sym, lastId, used>>
    BY <1>5 DEF CliCards
  <2>2. /\ \A c \in cli.candidates :
              /\ Known(c.sym, c.name, c.file)
              /\ c.sym \notin used.raced => c.text = disk[cli.file]
        /\ \A b, c \in cli.candidates : b.sym = c.sym => b = c
        /\ cli.file \in File
    BY <1>5 DEF CliCards, CliInv
  <2>3. cli' = [pc |-> "embed", file |-> cli.file, touched |-> cli.touched, rows |-> cli'.rows]
    BY <1>5 DEF CliCards
  <2>4. \A r \in cli'.rows :
           /\ disk[cli.file] # NoText
           /\ \E c \in cli.candidates :
                 r = [sym |-> c.sym, model |-> cli.model, card |-> BuildCard(c, disk[cli.file]),
                      stored |-> c.stored]
    BY <1>5 DEF CliCards
  <2>5. \A r \in cli'.rows : Carded(r.sym, r.card)
    <3> SUFFICES ASSUME NEW r \in cli'.rows PROVE Carded(r.sym, r.card)
      OBVIOUS
    <3>1. disk[cli.file] \in Text
      BY <2>2, <2>4 DEF RowsInv
    <3>2. PICK c \in cli.candidates : r.sym = c.sym /\ r.card = BuildCard(c, disk[cli.file])
      BY <2>4
    <3>3. /\ r.card.name = c.name /\ r.card.file = c.file
          /\ r.card.body = Slice(c.name, c.text, disk[cli.file])
      BY <3>2 DEF BuildCard
    <3> QED BY <2>2, <3>1, <3>2, <3>3 DEF Carded
  <2>6. \A q, r \in cli'.rows : q.sym = r.sym => q = r
    BY <2>2, <2>4
  <2>7. \A r \in cli'.rows : Carded(r.sym, r.card)'
    BY <2>1, <2>5 DEF Carded, Known
  <2> QED BY <1>2, <2>3, <2>6, <2>7 DEF CliInv
<1>6. CASE CliEmbed
  <2>1. UNCHANGED <<disk, indexed, sym, lastId, used>>
    BY <1>6 DEF CliEmbed
  <2>2. cli' = Idle \/ (cli'.pc = "write" /\ cli'.rows \subseteq cli.rows)
    <3>1. cli = [pc |-> "embed", file |-> cli.file, touched |-> cli.touched, rows |-> cli.rows]
      BY <1>6 DEF CliEmbed, CliInv
    <3>2. PICK rows \in SUBSET cli.rows :
             cli' = Idle \/ cli' = [cli EXCEPT !.pc = "write", !.rows = rows]
      BY <1>6 DEF CliEmbed
    <3> QED BY <3>1, <3>2
  <2>3. /\ \A r \in cli.rows : Carded(r.sym, r.card)'
        /\ \A q, r \in cli.rows : q.sym = r.sym => q = r
    BY <1>6, <2>1 DEF CliEmbed, CliInv, Carded, Known
  <2> QED BY <1>2, <2>2, <2>3 DEF CliInv, Idle
<1>7. CASE CliWrite
  BY <1>2, <1>7 DEF CliWrite, CliInv, Idle
<1>8. \/ UNCHANGED cli
      \/ CliCandidates \/ CliCards \/ CliEmbed \/ CliWrite
      \/ \E f \in File : CliReindex(f)
  BY Zenon DEF Next, User, Cli, EditContext, ReadTool, Search, SwitchModel, Edit,
     Assemble, Heal, HealFails, Refresh, ReadRow, ReadSource, BeginEdit,
     ReadToolSource, BeginRead, BeginSearch, Lookup, NextRequest, Restart, vars
<1> QED BY <1>3, <1>4, <1>5, <1>6, <1>7, <1>8, CliKept

(* The table of vectors, with a highest rowid *)
VectorsInv ==
    /\ VectorsBelong
    /\ \E k \in Nat : \A r \in vectors : r.rowid \in 1..k

(* What a successful write does: its rows come above those there were *)
LEMMA RowsWritten ==
    ASSUME RowsInv, CliInv, VectorsInv, CliWrite,
           MayUpsert(cli.rows), vectors' = UpsertAll(vectors, cli.rows)
    PROVE  /\ \A r \in cli.rows : Carded(r.sym, r.card) /\ r.sym \in DOMAIN sym
           /\ \E k \in Nat : \A r \in vectors' : r.rowid \in 1..k
           /\ \A q, r \in vectors' :
                 q.rowid = r.rowid \/ <<q.sym, q.model>> = <<r.sym, r.model>> => q = r
           /\ \A r \in vectors' :
                 \/ r \in vectors
                 \/ /\ \E q \in cli.rows : r.sym = q.sym /\ r.card = q.card
                    /\ \A t \in vectors : t.rowid < r.rowid
           /\ \A t \in vectors : t \in vectors' \/ \E r \in cli.rows : r.sym = t.sym
<1>1. /\ \A r \in cli.rows : Carded(r.sym, r.card) /\ r.sym \in DOMAIN sym
      /\ \A q, r \in cli.rows : q.sym = r.sym => q = r
  BY DEF CliWrite, CliInv, MayUpsert
<1>2. {q.sym : q \in cli.rows} \in SUBSET (1..lastId)
  BY <1>1 DEF Carded, Known
<1>3. IsFiniteSet({q.sym : q \in cli.rows}) /\ {q.sym : q \in cli.rows} \subseteq Int
  <2>1. IsFiniteSet(1..lastId) /\ 1..lastId \subseteq Int
    BY FS_Interval DEF RowsInv
  <2> QED BY <1>2, <2>1, FS_Subset
<1>4. PICK k \in Nat : \A r \in vectors : r.rowid \in 1..k
  BY DEF VectorsInv
<1>5. \A q, r \in vectors : q.rowid = r.rowid \/ <<q.sym, q.model>> = <<r.sym, r.model>> => q = r
  BY DEF VectorsInv, VectorsBelong
<1> QED BY <1>1, <1>3, <1>4, <1>5, Upserted

LEMMA VectorsWritten ==
    ASSUME RowsInv, CliInv, VectorsInv, CliWrite
    PROVE  VectorsInv'
<1>1. UNCHANGED <<sym, lastId, used>>
  BY DEF CliWrite
<1>2. CASE vectors' = vectors
  BY <1>1, <1>2 DEF VectorsInv, VectorsBelong
<1>3. CASE MayUpsert(cli.rows) /\ vectors' = UpsertAll(vectors, cli.rows)
  <2>1. ASSUME NEW r \in vectors'
        PROVE  /\ r.sym \in DOMAIN sym
               /\ r.card.name = sym[r.sym].name /\ r.card.file = sym[r.sym].file
               /\ r.sym \notin used.raced => \E v \in Text : r.card.body = Slice(r.card.name, v, v)
    BY <1>3, RowsWritten DEF Carded, Known, VectorsInv, VectorsBelong
  <2> QED BY <1>1, <1>3, <2>1, RowsWritten DEF VectorsInv, VectorsBelong
<1> QED BY <1>2, <1>3 DEF CliWrite

(* A replacement takes the vectors of the rows it takes *)
LEMMA VectorsReplaced ==
    ASSUME RowsInv, VectorsInv, NEW f \in File, Replace(f), used.raced \subseteq used'.raced
    PROVE  VectorsInv'
<1>1. vectors' = {r \in vectors : r.sym \notin SymbolsOf(f)}
  BY DEF Replace
<1>2. ASSUME NEW s \in DOMAIN sym, s \notin SymbolsOf(f)
      PROVE  s \in DOMAIN sym' /\ sym'[s] = sym[s]
  <2>1. s \in 1..lastId /\ lastId \in Nat
    BY DEF RowsInv
  <2>2. s \notin (lastId + 1)..lastId'
    BY <2>1, Replaced
  <2> QED BY <1>2, <2>2, Replaced
<1>3. ASSUME NEW r \in vectors'
      PROVE  /\ r.sym \in DOMAIN sym'
             /\ r.card.name = sym'[r.sym].name /\ r.card.file = sym'[r.sym].file
             /\ r.sym \notin used'.raced => \E v \in Text : r.card.body = Slice(r.card.name, v, v)
  BY <1>1, <1>2 DEF VectorsInv, VectorsBelong
<1>4. \A q, r \in vectors' : q.rowid = r.rowid \/ <<q.sym, q.model>> = <<r.sym, r.model>> => q = r
  BY <1>1 DEF VectorsInv, VectorsBelong
<1>5. \E k \in Nat : \A r \in vectors' : r.rowid \in 1..k
  BY <1>1 DEF VectorsInv
<1> QED BY <1>3, <1>4, <1>5 DEF VectorsInv, VectorsBelong

LEMMA VectorsStep ==
    ASSUME RowsInv, ServerInv, CliInv, VectorsInv, [Next]_vars
    PROVE  VectorsInv'
<1>1. used.raced \subseteq used'.raced
  BY RacedStep
<1>2. CASE UNCHANGED <<sym, vectors>>
  BY <1>1, <1>2 DEF VectorsInv, VectorsBelong
<1>3. ASSUME NEW f \in File, CliReindex(f) PROVE VectorsInv'
  BY <1>1, <1>3, VectorsReplaced DEF CliReindex
<1>4. CASE Heal
  BY <1>1, <1>4, VectorsReplaced DEF Heal, ServerInv
<1>5. CASE CliWrite
  BY <1>5, VectorsWritten
<1>6. \/ UNCHANGED <<sym, vectors>>
      \/ Heal \/ CliWrite
      \/ \E f \in File : CliReindex(f)
  BY Zenon DEF Next, User, Cli, EditContext, ReadTool, Search, SwitchModel, Edit, CliCandidates,
     CliCards, CliEmbed, Assemble, HealFails, Refresh, ReadRow, ReadSource, BeginEdit,
     ReadToolSource, BeginRead, BeginSearch, Lookup, NextRequest, Restart, vars
<1> QED BY <1>2, <1>3, <1>4, <1>5, <1>6

(* Every stored vector is that of a symbol the index has, made of its name,   *)
(* its path and, unless the file changed under the call that embedded it, its *)
(* body, although cards are built outside any transaction from ids that other *)
(* calls may have replaced meanwhile.                                         *)
THEOREM VectorsCorrect == Spec => []VectorsBelong
<1> DEFINE Inv == RowsInv /\ ServerInv /\ CliInv /\ VectorsInv
<1>1. Init => RowsInv /\ ServerInv
  BY SemanticAssumption DEF Init, RowsInv, ServerInv, SourceAligned, Idle
<1>2. Init => CliInv
  BY DEF Init, CliInv, Idle
<1>3. Init => VectorsInv
  BY DEF Init, VectorsInv, VectorsBelong
<1>4. Inv /\ [Next]_vars => Inv'
  BY RowsStep, ServerStep, CliStep, VectorsStep
<1>5. Inv => VectorsBelong
  BY DEF VectorsInv
<1>6. Init => Inv
  BY <1>1, <1>2, <1>3
<1> HIDE DEF Inv
<1> QED BY <1>4, <1>5, <1>6, PTL DEF Spec

----------------------------------------------------------------------------
(* The cache of vectors *)

(* What a call will write is for symbols it inserted, and nothing else has    *)
(* written vectors for them *)
FreshInv ==
    /\ cli.pc \in {"candidates", "cards", "embed", "write"} =>
          \A r \in vectors : r.sym \notin cli.touched
    /\ cli.pc \in {"embed", "write"} => \A r \in cli.rows : r.sym \in cli.touched

(* Rows are only added, above those that were there, for symbols that stay *)
Grown ==
    /\ vectors \subseteq vectors'
    /\ \A r \in vectors' \ vectors : \A t \in vectors : t.rowid < r.rowid
    /\ \A r \in vectors : r.sym \in DOMAIN sym' /\ sym'[r.sym] = sym[r.sym]

LEMMA FreshStep ==
    ASSUME RowsInv, ServerInv, CliInv, VectorsInv, FreshInv, [Next]_vars
    PROVE  FreshInv'
<1>1. CASE UNCHANGED <<cli, vectors>>
  BY <1>1 DEF FreshInv
<1>2. ASSUME NEW f \in File, CliReindex(f) PROVE FreshInv'
  <2>1. /\ cli'.pc = "candidates" /\ cli'.touched = DOMAIN sym' \ DOMAIN sym
        /\ Replace(f)
    BY <1>2 DEF CliReindex
  <2>2. vectors' \subseteq vectors
    BY <2>1 DEF Replace
  <2> QED BY <2>1, <2>2 DEF FreshInv, VectorsInv, VectorsBelong
<1>3. CASE Heal
  <2>1. UNCHANGED cli /\ vectors' \subseteq vectors
    BY <1>3 DEF Heal, Replace
  <2> QED BY <2>1 DEF FreshInv
<1>4. CASE CliCandidates
  BY <1>4 DEF CliCandidates, FreshInv
<1>5. CASE CliCards
  <2>1. \A c \in cli.candidates : c.sym \in cli.touched
    BY <1>5 DEF CliCards, CliInv
  <2>2. /\ cli'.pc = "embed" /\ cli'.touched = cli.touched /\ UNCHANGED vectors
        /\ \A r \in cli'.rows : \E c \in cli.candidates : r.sym = c.sym
    BY <1>5 DEF CliCards
  <2>3. cli.pc = "cards"
    BY <1>5 DEF CliCards
  <2> QED BY <2>1, <2>2, <2>3 DEF FreshInv
<1>6. CASE CliEmbed
  <2>1. cli = [pc |-> "embed", file |-> cli.file, touched |-> cli.touched, rows |-> cli.rows]
    BY <1>6 DEF CliEmbed, CliInv
  <2>2. PICK rows \in SUBSET cli.rows :
           cli' = Idle \/ cli' = [cli EXCEPT !.pc = "write", !.rows = rows]
    BY <1>6 DEF CliEmbed
  <2>3. cli' = Idle \/ (cli'.pc = "write" /\ cli'.touched = cli.touched /\ cli'.rows \subseteq cli.rows)
    BY <2>1, <2>2
  <2>4. UNCHANGED vectors /\ cli.pc = "embed"
    BY <1>6 DEF CliEmbed
  <2> QED BY <2>3, <2>4 DEF FreshInv, Idle
<1>7. CASE CliWrite
  BY <1>7 DEF CliWrite, FreshInv, Idle
<1> QED BY <1>1, <1>2, <1>3, <1>4, <1>5, <1>6, <1>7, Zenon
     DEF Next, User, Cli, EditContext, ReadTool, Search, SwitchModel, Edit,
     Assemble, HealFails, Refresh, ReadRow, ReadSource, BeginEdit,
     ReadToolSource, BeginRead, BeginSearch, Lookup, NextRequest, Restart, vars

(* A replacement that takes vectors is remembered; otherwise the table grows *)
LEMMA ReplacedGrown ==
    ASSUME RowsInv, VectorsInv, NEW f \in File, Replace(f), ~Forget(f)
    PROVE  Grown
<1>1. \A r \in vectors : r.sym \notin SymbolsOf(f) /\ r.sym \in DOMAIN sym
  BY DEF Forget, VectorsInv, VectorsBelong
<1>2. vectors' = vectors
  BY <1>1 DEF Replace
<1>3. ASSUME NEW s \in DOMAIN sym, s \notin SymbolsOf(f)
      PROVE  s \in DOMAIN sym' /\ sym'[s] = sym[s]
  <2>1. s \in 1..lastId /\ lastId \in Nat
    BY DEF RowsInv
  <2>2. s \notin (lastId + 1)..lastId'
    BY <2>1, Replaced
  <2> QED BY <1>3, <2>2, Replaced
<1> QED BY <1>1, <1>2, <1>3 DEF Grown

LEMMA WrittenGrown ==
    ASSUME RowsInv, CliInv, VectorsInv, FreshInv, CliWrite
    PROVE  Grown
<1>1. UNCHANGED sym
  BY DEF CliWrite
<1>2. CASE vectors' = vectors
  BY <1>1, <1>2 DEF Grown, VectorsInv, VectorsBelong
<1>3. CASE MayUpsert(cli.rows) /\ vectors' = UpsertAll(vectors, cli.rows)
  <2>1. \A t \in vectors : ~\E r \in cli.rows : r.sym = t.sym
    BY DEF CliWrite, FreshInv
  <2>2. /\ \A r \in vectors' : r \in vectors \/ \A t \in vectors : t.rowid < r.rowid
        /\ \A t \in vectors : t \in vectors'
    BY <1>3, <2>1, RowsWritten
  <2> QED BY <1>1, <2>2 DEF Grown, VectorsInv, VectorsBelong
<1> QED BY <1>2, <1>3 DEF CliWrite

RowsOf(m) == {r \in vectors : r.model = m}
Top(m) == Max(Rowids(RowsOf(m)))

(* What was read of the vectors of a model, with the fingerprint taken        *)
(* before: if the highest rowid is still the same, it is what the table has   *)
Current(print, entries, m) ==
    /\ print[2] <= Top(m)
    /\ print[2] = Top(m) => entries = Entries(m)

CacheInv ==
    /\ cache.print[2] \in Int
    /\ \A e \in cache.entries : e.model = cache.model
    /\ \A d, e \in cache.entries : d.sym = e.sym => d = e
    /\ server.pc = "lookup" => server.print[2] \in Int
    /\ ~used.lost /\ (server.pc = "lookup" => Cached(server.model, server.print)) =>
          Current(cache.print, cache.entries, cache.model)
    /\ server.pc = "lookup" /\ ~used.lost =>
          /\ Current(server.print, server.before, server.model)
          /\ server.before \subseteq Entries(server.model)
          /\ Cached(server.model, server.print) => cache.entries = server.before
    /\ CacheFresh

(* The highest rowid of a table, 0 if it has no rows *)
LEMMA TopOf ==
    ASSUME NEW table, NEW k \in Nat, \A r \in table : r.rowid \in 1..k
    PROVE  /\ Max(Rowids(table)) \in Nat
           /\ \A r \in table : r.rowid <= Max(Rowids(table))
           /\ Max(Rowids(table)) = 0 \/ \E r \in table : r.rowid = Max(Rowids(table))
<1>1. /\ Rowids(table) \in SUBSET Nat /\ Rowids(table) # {}
      /\ \A x \in Rowids(table) : x <= k
  BY DEF Rowids
<1>2. /\ Max(Rowids(table)) \in Rowids(table)
      /\ \A x \in Rowids(table) : x <= Max(Rowids(table))
  BY <1>1, MaxOfBounded
<1> QED BY <1>1, <1>2 DEF Rowids

LEMMA PrintOf ==
    ASSUME NEW m
    PROVE  Fingerprint(m)[2] = Top(m)
BY DEF Fingerprint, Top, RowsOf

(* One entry per symbol, of the model asked for *)
LEMMA EntriesOf ==
    ASSUME VectorsInv, NEW m
    PROVE  /\ \A e \in Entries(m) : e.model = m
           /\ \A d, e \in Entries(m) : d.sym = e.sym => d = e
<1>1. \A e \in Entries(m) : \E r \in vectors :
         /\ r.model = m /\ e.sym = r.sym /\ e.model = r.model
         /\ e = [sym |-> r.sym, name |-> sym[r.sym].name, file |-> sym[r.sym].file,
                 model |-> r.model, card |-> r.card]
  BY DEF Entries
<1>2. \A q, r \in vectors : <<q.sym, q.model>> = <<r.sym, r.model>> => q = r
  BY DEF VectorsInv, VectorsBelong
<1> QED BY <1>1, <1>2

(* While the table only grows, the highest rowid tells whether it has *)
LEMMA GrownCurrent ==
    ASSUME VectorsInv, VectorsInv', Grown, NEW m, NEW print, print[2] \in Int, NEW entries
    PROVE  /\ Entries(m) \subseteq Entries(m)'
           /\ Current(print, entries, m) => Current(print, entries, m)'
<1>1. RowsOf(m) \subseteq RowsOf(m)'
  BY DEF Grown, RowsOf
<1>2. /\ Top(m) \in Nat
      /\ \A r \in RowsOf(m) : r.rowid <= Top(m)
      /\ Top(m) = 0 \/ \E r \in RowsOf(m) : r.rowid = Top(m)
  <2>1. PICK k \in Nat : \A r \in RowsOf(m) : r.rowid \in 1..k
    BY DEF VectorsInv, RowsOf
  <2> QED BY <2>1, TopOf DEF Top
<1>3. /\ Top(m)' \in Nat
      /\ \A r \in RowsOf(m)' : r.rowid <= Top(m)'
  <2>1. PICK k \in Nat : \A r \in RowsOf(m)' : r.rowid \in 1..k
    BY DEF VectorsInv, RowsOf
  <2> QED BY <2>1, TopOf DEF Top
<1>4. Top(m) <= Top(m)'
  BY <1>1, <1>2, <1>3
<1>5. ASSUME NEW r \in RowsOf(m)', r \notin RowsOf(m) PROVE Top(m) < r.rowid
  <2>1. r \in vectors' \ vectors
    BY <1>5 DEF RowsOf
  <2>2. r.rowid \in Nat \ {0}
    BY <2>1 DEF VectorsInv
  <2> QED BY <1>2, <2>1, <2>2 DEF Grown, RowsOf
<1>6. Top(m) = Top(m)' => RowsOf(m)' = RowsOf(m)
  <2> SUFFICES ASSUME Top(m) = Top(m)', NEW r \in RowsOf(m)', r \notin RowsOf(m) PROVE FALSE
    BY <1>1
  <2>1. r.rowid <= Top(m) /\ Top(m) < r.rowid
    BY <1>3, <1>5
  <2>2. r.rowid \in Nat
    BY DEF VectorsInv, RowsOf
  <2> QED BY <1>2, <2>1, <2>2
<1>7. /\ \A r \in vectors : r.sym \in DOMAIN sym' /\ sym'[r.sym] = sym[r.sym]
      /\ \A r \in vectors : r.sym \in DOMAIN sym
  BY DEF Grown, VectorsInv, VectorsBelong
<1>8. \A q : q \in RowsOf(m) <=> q \in vectors /\ q.model = m
  BY DEF RowsOf
<1>9. \A q : q \in RowsOf(m)' <=> q \in vectors' /\ q.model = m
  BY DEF RowsOf
<1>10. Entries(m) \subseteq Entries(m)'
  BY <1>1, <1>7, <1>8, <1>9 DEF Entries
<1>11. RowsOf(m)' = RowsOf(m) => Entries(m)' = Entries(m)
  BY <1>7, <1>8, <1>9 DEF Entries
<1>12. ASSUME Current(print, entries, m) PROVE Current(print, entries, m)'
  BY <1>2, <1>3, <1>4, <1>6, <1>11, <1>12 DEF Current
<1> QED BY <1>10, <1>12

(* Either vectors are lost, which is remembered, or the table grows *)
LEMMA LostStep ==
    ASSUME RowsInv, ServerInv, CliInv, VectorsInv, FreshInv, [Next]_vars, ~BeginSearch
    PROVE  ~used'.lost => ~used.lost /\ Grown
<1>1. CASE UNCHANGED <<sym, vectors>> /\ used'.lost = used.lost
  BY <1>1 DEF Grown, VectorsInv, VectorsBelong
<1>2. ASSUME NEW f \in File, Replace(f), used' = [used EXCEPT !.lost = Forget(f)]
      PROVE  ~used'.lost => ~used.lost /\ Grown
  <2>1. used'.lost = Forget(f)
    BY <1>2, Zenon DEF CliInv
  <2> QED BY <1>2, <2>1, ReplacedGrown, Zenon DEF Forget
<1>3. ASSUME NEW f \in File, CliReindex(f) PROVE ~used'.lost => ~used.lost /\ Grown
  BY <1>2, <1>3, Zenon DEF CliReindex
<1>4. CASE Heal
  <2>1. server.file \in File /\ Replace(server.file)
        /\ used' = [used EXCEPT !.heals = @ + 1, !.lost = Forget(server.file)]
    BY <1>4, Zenon DEF Heal, ServerInv
  <2>2. used'.lost = Forget(server.file)
    BY <2>1, Zenon DEF CliInv
  <2> QED BY <2>1, <2>2, ReplacedGrown, Zenon DEF Forget
<1>5. CASE CliWrite
  BY <1>5, WrittenGrown DEF CliWrite
<1>6. ASSUME NEW f \in File, Edit(f) PROVE UNCHANGED <<sym, vectors>> /\ used'.lost = used.lost
  BY <1>6 DEF Edit, CliInv
<1>7. CASE SwitchModel
  <2>1. UNCHANGED <<sym, vectors>> /\ used'.lost = used.lost
    BY <1>7 DEF SwitchModel, CliInv
  <2> QED BY <1>1, <2>1
<1>8. \/ UNCHANGED <<sym, vectors, used>>
      \/ Heal \/ CliWrite \/ SwitchModel
      \/ \E f \in File : CliReindex(f) \/ Edit(f)
  BY Zenon DEF Next, User, Cli, EditContext, ReadTool, Search, CliCandidates,
     CliCards, CliEmbed, Assemble, HealFails, Refresh, ReadRow, ReadSource, BeginEdit,
     ReadToolSource, BeginRead, Lookup, NextRequest, Restart, vars
<1> QED BY <1>1, <1>3, <1>4, <1>5, <1>6, <1>7, <1>8

(* Steps that neither load the cache nor search *)
LEMMA CacheKept ==
    ASSUME RowsInv, ServerInv, CliInv, VectorsInv, FreshInv, CacheInv, [Next]_vars,
           ~BeginSearch, UNCHANGED cache,
           \/ UNCHANGED server
           \/ server.pc # "lookup" /\ server'.pc \notin {"lookup", "search"}
    PROVE  CacheInv'
<1>1. VectorsInv'
  BY VectorsStep
<1>2. ~used'.lost => ~used.lost /\ Grown
  BY LostStep
<1>3. ASSUME ~used'.lost, server'.pc = "lookup" => Cached(server'.model, server'.print)
      PROVE  Current(cache.print, cache.entries, cache.model)'
  <2>1. Current(cache.print, cache.entries, cache.model)
    BY <1>2, <1>3 DEF CacheInv, Cached
  <2> QED BY <1>1, <1>2, <1>3, <2>1, GrownCurrent DEF CacheInv
<1>4. ASSUME ~used'.lost, server'.pc = "lookup"
      PROVE  /\ Current(server.print, server.before, server.model)'
             /\ server.before \subseteq Entries(server.model)'
             /\ Cached(server.model, server.print) => cache.entries = server.before
  <2>1. /\ Current(server.print, server.before, server.model)
        /\ server.before \subseteq Entries(server.model)
        /\ Cached(server.model, server.print) => cache.entries = server.before
        /\ server.print[2] \in Int
    BY <1>2, <1>4 DEF CacheInv
  <2>2. UNCHANGED server
    BY <1>4
  <2> QED BY <1>1, <1>2, <1>4, <2>1, <2>2, GrownCurrent
<1>5. CacheFresh'
  BY <1>2 DEF CacheInv, CacheFresh
<1>6. UNCHANGED server \/ server'.pc # "lookup"
  OBVIOUS
<1>7. server'.pc = "lookup" => server'.print[2] \in Int
  BY <1>6 DEF CacheInv
<1>8. Cached(server.model, server.print)' = Cached(server'.model, server'.print)
  BY DEF Cached
<1>9. server'.pc = "lookup" /\ ~used'.lost =>
         /\ Current(server.print, server.before, server.model)'
         /\ (server.before \subseteq Entries(server.model))'
         /\ Cached(server.model, server.print)' => cache'.entries = server'.before
  BY <1>4, <1>6 DEF Cached
<1> QED BY <1>3, <1>5, <1>7, <1>9 DEF CacheInv, Cached

LEMMA CacheSearch ==
    ASSUME CliInv, VectorsInv, CacheInv, BeginSearch
    PROVE  CacheInv'
<1>1. /\ server'.pc = "lookup" /\ server'.model = model /\ server'.print = Fingerprint(model)
      /\ server'.before = Entries(model)
      /\ server.pc = "idle" /\ UNCHANGED <<sym, vectors, cache>>
  BY DEF BeginSearch, Idle
<1>2. used'.lost <=> used.lost /\ Cached(model, Fingerprint(model))
  BY Zenon DEF BeginSearch, CliInv
<1>3. server'.print[2] = Top(model) /\ Top(model) \in Nat
  <2>1. PICK k \in Nat : \A r \in RowsOf(model) : r.rowid \in 1..k
    BY DEF VectorsInv, RowsOf
  <2> QED BY <1>1, <2>1, PrintOf, TopOf DEF Top
<1>4. ASSUME ~used'.lost, Cached(model, Fingerprint(model))
      PROVE  /\ Current(cache.print, cache.entries, cache.model)
             /\ cache.entries = Entries(model)
  <2>1. Current(cache.print, cache.entries, cache.model)
    BY <1>1, <1>2, <1>4 DEF CacheInv
  <2>2. cache.model = model /\ cache.print = Fingerprint(model)
    BY <1>4 DEF Cached
  <2> QED BY <1>1, <1>3, <2>1, <2>2 DEF Current
<1>5. \A m : Top(m)' = Top(m) /\ Entries(m)' = Entries(m)
  BY <1>1 DEF Top, RowsOf, Entries
<1>6. \A print, entries, m : Current(print, entries, m) => Current(print, entries, m)'
  BY <1>5 DEF Current
<1>7. Current(server'.print, server'.before, model)
  BY <1>1, <1>3 DEF Current
<1>8. CacheFresh'
  BY <1>1 DEF CacheFresh
<1>9. ~used'.lost /\ Cached(server.model, server.print)' =>
         /\ Current(cache.print, cache.entries, cache.model)'
         /\ cache'.entries = server'.before
  BY <1>1, <1>4, <1>6 DEF Cached
<1>10. /\ Current(server.print, server.before, server.model)'
       /\ (server.before \subseteq Entries(server.model))'
  BY <1>1, <1>5, <1>6, <1>7
<1> QED BY <1>1, <1>3, <1>8, <1>9, <1>10 DEF CacheInv

LEMMA CacheLookup ==
    ASSUME VectorsInv, CacheInv, Lookup
    PROVE  CacheInv'
<1> DEFINE hit == Cached(server.model, server.print)
           now == Entries(server.model)
           answer == IF hit THEN cache.entries ELSE now
<1>1. /\ server.pc = "lookup" /\ UNCHANGED <<sym, vectors, used>>
      /\ server'.pc = "search" /\ server'.model = server.model /\ server'.before = server.before
      /\ server'.entries = answer /\ server'.hit = hit
  BY DEF Lookup, Serve
<1>2. IF hit THEN cache' = cache
      ELSE cache' = [model |-> server.model, print |-> server.print, entries |-> now]
  BY DEF Lookup
<1>3. \A print, entries, m : Current(print, entries, m) => Current(print, entries, m)'
  <2>1. \A m : Top(m)' = Top(m) /\ Entries(m)' = Entries(m)
    BY <1>1 DEF Top, RowsOf, Entries
  <2> QED BY <2>1 DEF Current
<1>4. /\ \A e \in now : e.model = server.model
      /\ \A d, e \in now : d.sym = e.sym => d = e
  BY EntriesOf
<1> HIDE DEF now
<1>5. /\ cache'.print[2] \in Int
      /\ \A e \in cache'.entries : e.model = cache'.model
      /\ \A d, e \in cache'.entries : d.sym = e.sym => d = e
      /\ cache'.model = server.model /\ cache'.entries = answer
  BY <1>1, <1>2, <1>4 DEF CacheInv, Cached
<1>6. ASSUME ~used.lost PROVE Current(cache'.print, cache'.entries, cache'.model)
  <2>1. CASE hit
    BY <1>2, <1>6, <2>1 DEF CacheInv
  <2>2. CASE ~hit
    BY <1>1, <1>2, <1>6, <2>2 DEF CacheInv, Current, now
  <2> QED BY <2>1, <2>2
<1>7. ~used.lost => server.before \subseteq answer /\ (hit => answer = server.before)
  BY <1>1 DEF CacheInv, now
<1>8. CacheFresh'
  BY <1>1, <1>5, <1>7 DEF CacheFresh
<1>9. ~used'.lost => Current(cache.print, cache.entries, cache.model)'
  BY <1>1, <1>3, <1>6
<1> QED BY <1>1, <1>5, <1>8, <1>9 DEF CacheInv

LEMMA CacheStep ==
    ASSUME RowsInv, ServerInv, CliInv, VectorsInv, FreshInv, CacheInv, [Next]_vars
    PROVE  CacheInv'
<1>1. CASE BeginSearch
  BY <1>1, CacheSearch
<1>2. CASE Lookup
  BY <1>2, CacheLookup
<1>3. CASE Restart
  <2>1. /\ cache' = NoCache /\ server' = server /\ server.pc = "idle"
    BY <1>3 DEF Restart, Idle
  <2>2. VectorsInv'
    BY VectorsStep
  <2>3. PICK k \in Nat : \A r \in RowsOf("none")' : r.rowid \in 1..k
    BY <2>2 DEF VectorsInv, RowsOf
  <2>4. Top("none")' \in Nat
    BY <2>3, TopOf DEF Top
  <2>5. Current(cache.print, cache.entries, cache.model)'
    BY <2>1, <2>4 DEF NoCache, Current
  <2> QED BY <2>1, <2>5 DEF CacheInv, NoCache, CacheFresh
<1>4. CASE ~BeginSearch /\ ~Lookup /\ ~Restart
  <2>1. UNCHANGED cache
    BY <1>4, Zenon DEF Next, User, Cli, EditContext, ReadTool, Search, SwitchModel, Edit, CliReindex,
       CliCandidates, CliCards, CliEmbed, CliWrite, Assemble, Heal, HealFails, Refresh, ReadRow,
       ReadSource, BeginEdit, ReadToolSource, BeginRead, NextRequest, vars
  <2>2. CASE EditContext \/ ReadTool \/ NextRequest
    <3>1. server.pc # "lookup" /\ server'.pc \notin {"lookup", "search"}
      <4>1. CASE NextRequest \/ Assemble \/ ReadRow \/ ReadSource \/ ReadToolSource
        BY <4>1 DEF NextRequest, Assemble, ReadRow, ReadSource, ReadToolSource, Idle
      <4>2. CASE Heal \/ HealFails \/ Refresh
        BY <4>2 DEF Heal, HealFails, Refresh, ServerInv
      <4>3. ASSUME NEW s \in DOMAIN sym, BeginEdit(s) \/ BeginRead(s)
            PROVE  server.pc # "lookup" /\ server'.pc \notin {"lookup", "search"}
        BY <4>3 DEF BeginEdit, BeginRead, Idle
      <4> QED BY <2>2, <4>1, <4>2, <4>3, Zenon DEF EditContext, ReadTool
    <3> QED BY <1>4, <2>1, <3>1, CacheKept
  <2>3. CASE ~EditContext /\ ~ReadTool /\ ~NextRequest
    <3>1. UNCHANGED server
      BY <1>4, <2>3, Zenon DEF Next, User, Cli, Search, SwitchModel, Edit, CliReindex,
         CliCandidates, CliCards, CliEmbed, CliWrite, vars
    <3> QED BY <1>4, <2>1, <3>1, CacheKept
  <2> QED BY <2>2, <2>3
<1> QED BY <1>1, <1>2, <1>3, <1>4

(* A semantic search answers from the vectors of the configured model, one    *)
(* per symbol; unless vectors were deleted since the cache was loaded, it     *)
(* misses none that was there when the request began, and a cache that is     *)
(* taken for fresh by its fingerprint is.                                     *)
THEOREM CacheCorrect == Spec => []CacheFresh
<1> DEFINE Inv == RowsInv /\ ServerInv /\ CliInv /\ VectorsInv /\ FreshInv /\ CacheInv
<1>1. Init => RowsInv /\ ServerInv
  BY SemanticAssumption DEF Init, RowsInv, ServerInv, SourceAligned, Idle
<1>2. Init => CliInv /\ FreshInv
  BY DEF Init, CliInv, FreshInv, Idle
<1>3. Init => VectorsInv
  BY DEF Init, VectorsInv, VectorsBelong
<1>4. Init => CacheInv
  <2> SUFFICES ASSUME Init PROVE CacheInv
    OBVIOUS
  <2>1. cache = NoCache /\ server.pc = "idle"
    BY DEF Init, Idle
  <2>2. Top("none") \in Nat
    <3>1. \A r \in RowsOf("none") : r.rowid \in 1..0
      BY DEF Init, RowsOf
    <3> QED BY <3>1, TopOf DEF Top
  <2>3. Current(cache.print, cache.entries, cache.model)
    BY <2>1, <2>2 DEF NoCache, Current
  <2> QED BY <2>1, <2>3 DEF CacheInv, NoCache, CacheFresh
<1>5. Inv /\ [Next]_vars => Inv'
  BY RowsStep, ServerStep, CliStep, VectorsStep, FreshStep, CacheStep
<1>6. Inv => CacheFresh
  BY DEF CacheInv
<1>7. Init => Inv
  BY <1>1, <1>2, <1>3, <1>4
<1> HIDE DEF Inv
<1> QED BY <1>5, <1>6, <1>7, PTL DEF Spec
=============================================================================
