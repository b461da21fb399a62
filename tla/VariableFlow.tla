---------------------------- MODULE VariableFlow ----------------------------
(***************************************************************************)
(* What the resolver knows before it resolves anything: SymbolIndex (which *)
(* symbols bear a name, which encloses which), ImportResolver (what a file *)
(* imports) and VariableFlowEngine (the type of each variable).  They are  *)
(* functions of one snapshot d of the tables:                              *)
(*   d.file[f]  what file f contributes: its language and its rows, in the *)
(*              order they were inserted;                                  *)
(*   d.order    the files in the order of their rows.  A reindexed file    *)
(*              has new ids, so its rows move to the end.                  *)
(* A symbol or relationship is named by its file and its place there.  An  *)
(* import source is abstracted to the class its prefix puts it in, line    *)
(* and byte ranges to one pair of bounds, a dotted path to its tokens.     *)
(***************************************************************************)
EXTENDS Integers, SequencesExt

CONSTANT NoName

Symbol(d, s) == d.file[s[1]].symbols[s[2]]
Relationship(d, r) == d.file[r[1]].relationships[r[2]]

SymbolIds(d) == UNION {{f} \X DOMAIN d.file[f].symbols : f \in DOMAIN d.file}

(* All ids of one table, ORDER BY id *)
RowOrder(d, table) ==
    FoldLeft(LAMBDA ids, f : ids \o [i \in DOMAIN d.file[f][table] |-> <<f, i>>], <<>>, d.order)
Relationships(d) == RowOrder(d, "relationships")
Bindings(d) ==
    LET ids == RowOrder(d, "bindings")
        Row(b) == d.file[b[1]].bindings[b[2]]
    IN  [k \in DOMAIN ids |-> [file |-> ids[k][1], kind |-> Row(ids[k]).kind,
                               name |-> Row(ids[k]).name, type |-> Row(ids[k]).type]]

Place(d, f) == CHOOSE k \in DOMAIN d.order : d.order[k] = f
First(d, ids) ==
    CHOOSE s \in ids : \A t \in ids :
        \/ Place(d, s[1]) < Place(d, t[1])
        \/ s[1] = t[1] /\ s[2] <= t[2]

----------------------------------------------------------------------------
(* SymbolIndex *)

FindByName(d, n) == {s \in SymbolIds(d) : Symbol(d, s).name = n}

Size(d, s) == Symbol(d, s).hi - Symbol(d, s).lo
Tightest(d, ids) == First(d, {s \in ids : \A t \in ids : Size(d, s) <= Size(d, t)})

(* parent_map: the tightest symbol of the same file around s *)
Enclosing(d, s) ==
    {p \in SymbolIds(d) \ {s} : /\ p[1] = s[1]
                                /\ Symbol(d, p).lo <= Symbol(d, s).lo
                                /\ Symbol(d, p).hi >= Symbol(d, s).hi}
ParentName(d, s) ==
    IF Enclosing(d, s) = {} THEN NoName ELSE Symbol(d, Tightest(d, Enclosing(d, s))).name

FindMethodInType(d, method, type) ==
    {s \in FindByName(d, method) : ParentName(d, s) = type}

(* enclosing_symbol_id: the symbols around a relationship's line, the *)
(* innermost or none as a set.                                        *)
EnclosingSymbol(d, r) ==
    LET at == Relationship(d, r).at
        around == {s \in SymbolIds(d) : /\ s[1] = r[1]
                                        /\ Symbol(d, s).kind # "variable"
                                        /\ Symbol(d, s).lo <= at /\ at <= Symbol(d, s).hi}
    IN  IF around = {} THEN {} ELSE {Tightest(d, around)}

----------------------------------------------------------------------------
(* ImportResolver: of two imports of one name the later row wins *)
ImportRows(d, f, n) ==
    {i \in DOMAIN d.file[f].relationships :
        /\ d.file[f].relationships[i].kind = "imports"
        /\ d.file[f].relationships[i].name = n}
IsImported(d, f, n) == ImportRows(d, f, n) # {}
ImportSource(d, f, n) ==
    d.file[f].relationships[CHOOSE i \in ImportRows(d, f, n) :
                                \A j \in ImportRows(d, f, n) : j <= i].source

(* Only a source inside the repository is looked up, and by name alone *)
ImportedSymbols(d, f, n) ==
    IF ImportSource(d, f, n) \in {"relative", "alias", "crate"} THEN FindByName(d, n) ELSE {}

----------------------------------------------------------------------------
(* VariableFlowEngine: v maps a variable, a file and a path of names, to its *)
(* type and the confidence in it; a variable without a type is not in v.     *)
Medium == 1
High == 2
Certain == 3

TypeOf(v, f, path) == IF <<f, path>> \in DOMAIN v THEN v[<<f, path>>].type ELSE NoName

(* Confidence ignored *)
ApplyType_Last(v, f, path, type, confidence) ==
    (<<f, path>> :> [type |-> type, confidence |-> confidence]) @@ v

(* VariableState::apply_type: the first of the most confident *)
ApplyType(v, f, path, type, confidence) ==
    LET x == <<f, path>> IN
    IF x \in DOMAIN v /\ v[x].confidence >= confidence THEN v
    ELSE [y \in DOMAIN v \union {x} |->
             IF y = x THEN [type |-> type, confidence |-> confidence] ELSE v[y]]

(* function_returns: declared return types of all files, the last one wins *)
Returned(d, n) ==
    LET declared == SelectSeq(Bindings(d), LAMBDA b : b.kind = "return_type" /\ b.name = n)
    IN  IF declared = <<>> THEN NoName ELSE Last(declared).type

LoadBindings(d) ==
    FoldLeft(LAMBDA v, b :
                CASE b.kind \in {"var_type", "field_type"} ->
                        ApplyType(v, b.file, <<b.name>>, b.type, Certain)
                  [] b.kind = "assignment" /\ Returned(d, b.type) # NoName ->
                        ApplyType(v, b.file, <<b.name>>, Returned(d, b.type), Medium)
                  [] b.kind = "import_alias" /\ IsImported(d, b.file, b.type) ->
                        ApplyType(v, b.file, <<b.name>>, b.type, Certain)
                  [] OTHER -> v,
             <<>>, Bindings(d))

(* The source of any call is taken for the variable its result is assigned *)
(* to, the receiver of a method call as well.                               *)
LoadConstructors(d, v0) ==
    FoldLeft(LAMBDA v, r :
                LET rel == Relationship(d, r) IN
                IF rel.receiver = <<>> THEN v
                ELSE CASE rel.kind \in {"new_call", "instantiates"} ->
                             ApplyType(v, r[1], rel.receiver, rel.name, High)
                       [] rel.kind \in {"calls", "method_call"} ->
                             ApplyType(v, r[1], rel.receiver,
                                       IF Returned(d, rel.name) # NoName
                                           THEN Returned(d, rel.name) ELSE rel.name, Medium)
                       [] OTHER -> v,
             v0, Relationships(d))

(* An imported name is its own type, unless it is an instance whose type its *)
(* defining file tells.                                                      *)
ImportedType(d, v, f, n) ==
    LET ids == ImportedSymbols(d, f, n)
        s == First(d, ids)
    IN  IF /\ ids # {}
           /\ Symbol(d, s).kind # "type"
           /\ TypeOf(v, s[1], <<n>>) # NoName
        THEN TypeOf(v, s[1], <<n>>)
        ELSE n

LoadImports(d, v0) ==
    FoldLeft(LAMBDA v, r :
                LET n == Relationship(d, r).name IN
                IF Relationship(d, r).kind = "imports"
                THEN ApplyType(v, r[1], <<n>>, ImportedType(d, v, r[1], n), Certain)
                ELSE v,
             v0, Relationships(d))

AliasKinds == {"alias", "destructuring", "object_literal", "assignment"}

(* What binding b gives a type to, and the type it has for it, if any *)
AliasTarget(b) == IF b.kind = "object_literal" THEN <<b.type, b.name>> ELSE <<b.name>>
AliasType(d, v, b) ==
    CASE b.kind = "alias" -> TypeOf(v, b.file, <<b.type>>)
      [] b.kind = "destructuring" -> TypeOf(v, b.file, <<b.type, b.name>>)
      [] b.kind = "object_literal" -> TypeOf(v, b.file, <<b.name>>)
      [] b.kind = "assignment" ->
            IF Returned(d, b.type) # NoName THEN Returned(d, b.type) ELSE b.type

Applies(d, v, b) ==
    TypeOf(v, b.file, AliasTarget(b)) = NoName /\ AliasType(d, v, b) # NoName

(* One pass: what applies is collected first and then applied *)
AliasPass(d, v0, bs) ==
    FoldLeft(LAMBDA v, b : IF Applies(d, v0, b)
                           THEN ApplyType(v, b.file, AliasTarget(b), AliasType(d, v0, b), Medium)
                           ELSE v,
             v0, bs)

AliasBindings(d, f) ==
    FoldLeft(LAMBDA bs, b : IF b.file = f /\ b.kind \in AliasKinds THEN Append(bs, b) ELSE bs,
             <<>>, Bindings(d))

(* A single pass for each file *)
ResolveAliases_Once(d, v0) ==
    FoldLeft(LAMBDA v, f : AliasPass(d, v, AliasBindings(d, f)), v0, d.order)

(* For each file at most one pass more than it has such bindings; a pass in  *)
(* which nothing applies is the last.                                        *)
ResolveAliases(d, v0) ==
    FoldLeft(LAMBDA v, f :
                LET bs == AliasBindings(d, f) IN
                FoldLeft(LAMBDA w, b : AliasPass(d, w, bs), AliasPass(d, v, bs), bs),
             v0, d.order)

(* load_imports before load_constructors *)
Flow_ImportsFirst(d) ==
    ResolveAliases(d, LoadConstructors(d, LoadImports(d, LoadBindings(d))))

Flow(d) == ResolveAliases(d, LoadImports(d, LoadConstructors(d, LoadBindings(d))))

=============================================================================
