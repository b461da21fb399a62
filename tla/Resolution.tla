----------------------------- MODULE Resolution -----------------------------
(***************************************************************************)
(* The resolver and the graph builder: every relationship of the database  *)
(* goes through the stages of ResolutionPipeline, the results become       *)
(* edges, and files are reindexed with their content unchanged, which      *)
(* deletes the edges at both ends and moves their rows behind the others.  *)
(* The tracing of decisions is left out.                                   *)
(***************************************************************************)
EXTENDS VariableFlow

CONSTANTS
    File,
    Repositories,   \* the repositories a behaviour may be about
    Builtins        \* JS_BUILTIN_RECEIVERS

(* What the parser keeps of a file: names are not empty, ranges not reversed *)
IsContent(c) ==
    /\ c.symbols \in Seq(Range(c.symbols))
    /\ \A s \in Range(c.symbols) :
          s.name # NoName /\ {s.lo, s.hi} \subseteq Nat /\ s.lo <= s.hi
    /\ c.relationships \in Seq(Range(c.relationships))
    /\ \A r \in Range(c.relationships) : r.name # NoName
    /\ c.bindings \in Seq(Range(c.bindings))
    /\ \A b \in Range(c.bindings) : b = [kind |-> b.kind, name |-> b.name, type |-> b.type] /\ b.type # NoName

ASSUME RepositoryAssumption ==
    /\ IsFiniteSet(File)
    /\ \A repository \in Repositories :
          repository = [f \in File |-> repository[f]] /\ \A f \in File : IsContent(repository[f])

VARIABLES
    d,          \* the rows of the database, see VariableFlow
    phase,
    flow,       \* the types of variables
    resolved,   \* the outcome of each relationship
    edges

vars == <<d, phase, flow, resolved, edges>>

----------------------------------------------------------------------------
(* The stages.  An outcome has a state, "open" until a stage settles it, the *)
(* candidates and the score of the first one.                                *)

Outcome(state, targets, score) == [state |-> state, targets |-> targets, score |-> score]
Open == Outcome("open", {}, 1)

(* classify_import_source by the class of the source and the language *)
Classify(source, lang) ==
    CASE source = "std" -> "standard_library"
      [] source = "crate" -> "repository_symbol"
      [] lang = "rust" /\ source \notin {"std", "crate", "none"} -> "external_dependency"
      [] lang = "script" /\ source = "node" -> "builtin"
      [] lang = "script" /\ source = "package" -> "external_dependency"
      [] lang = "python" /\ source = "stdlib" -> "standard_library"
      [] lang = "python" /\ source = "package" -> "external_dependency"
      [] OTHER -> "repository_symbol"

MemberKinds == {"method_call", "MEMBER_ACCESS"}
Outside == {"external_dependency", "standard_library", "builtin"}

ClassificationStage(r) ==
    LET rel == Relationship(d, r)
        lang == d.file[r[1]].lang
        class == Classify(rel.source, lang)
    IN  CASE /\ rel.kind \in MemberKinds
             /\ lang = "script"
             /\ \E b \in Builtins : rel.receiver = <<b>> -> Outcome("builtin", {}, 1)
          [] /\ rel.kind \in {"imports", "re_export"}
             /\ class # "repository_symbol" -> Outcome(class, {}, 1)
          [] OTHER -> Open

IsSelf(token) == token \in {"this", "self"}

(* The type graph is always empty, so no ancestor is searched *)
MethodOutcome(method, type) ==
    LET found == FindMethodInType(d, method, type) IN
    Outcome(IF found = {} THEN "missing" ELSE "repository_symbol", found, 1)

(* The name of the class around the method around r *)
EnclosingClass(r) ==
    LET around == EnclosingSymbol(d, r) IN
    IF around = {} THEN NoName ELSE ParentName(d, CHOOSE s \in around : TRUE)

(* The variable a receiver names: this.field is looked up as field *)
Variable(receiver) ==
    IF Len(receiver) > 1 /\ IsSelf(Head(receiver)) THEN Tail(receiver) ELSE receiver

(* Every receiver counts as a variable of the repository *)
Origin_Local(r, type) == "local"

(* Where the type of a receiver comes from *)
Origin(r, type) ==
    IF IsImported(d, r[1], type)
    THEN Classify(ImportSource(d, r[1], type), d.file[r[1]].lang)
    ELSE "local"

(* A variable without a type is left to the lexical stages; an import has one *)
(* by load_imports, a builtin is settled before.                               *)
MemberResolverStage(r) ==
    LET rel == Relationship(d, r)
        bare == Len(rel.receiver) = 1 /\ IsSelf(Head(rel.receiver))
        type == TypeOf(flow, r[1], Variable(rel.receiver))
    IN  IF rel.kind \notin MemberKinds \union {"instantiates"} \/ rel.receiver = <<>>
        THEN Open
        ELSE IF bare /\ EnclosingClass(r) # NoName
        THEN MethodOutcome(rel.name, EnclosingClass(r))
        ELSE CASE type = NoName -> Open
               [] type # NoName /\ Origin(r, type) \in Outside ->
                     Outcome(Origin(r, type), {}, 1)
               [] OTHER -> MethodOutcome(rel.name, type)

(* The lexical scores counted as much as a resolved receiver *)
LexicalScore_One == 1

LexicalScore == 0

DynamicKinds == MemberKinds \union {"annotation", "generic_constraint"}

(* The candidates without a ranking *)
LexicalStages_Unranked(r) == Outcome("open", FindByName(d, Relationship(d, r).name), 0)

(* LexicalGenerationStage, the filters that filter nothing, RankingStage *)
LexicalStages(r) ==
    LET rel == Relationship(d, r)
        named == FindByName(d, rel.name)
        state == CASE named = {} /\ rel.kind \in DynamicKinds -> "dynamic"
                   [] named = {} /\ rel.kind \notin DynamicKinds -> "missing"
                   [] Cardinality(named) > 1 -> "ambiguous"
                   [] named # {} /\ named = EnclosingSymbol(d, r) -> "recursive"
                   [] OTHER -> "repository_symbol"
    IN  Outcome(state, named, IF named = {} THEN 1 ELSE LexicalScore)

(* The first stage that settles it decides *)
Settled(r) ==
    IF ClassificationStage(r) # Open THEN ClassificationStage(r)
    ELSE IF MemberResolverStage(r) # Open THEN MemberResolverStage(r)
    ELSE LexicalStages(r)

(* The remaining stages run on: resolve_with keeps the first state, but *)
(* add_candidates replaces the candidates.                               *)
Resolve_RunOn(r) ==
    LET named == FindByName(d, Relationship(d, r).name) IN
    [Settled(r) EXCEPT !.targets = IF named = {} THEN @ ELSE named]

(* ResolutionPipeline::execute *)
Resolve(r) == Settled(r)

RelationshipIds == {Relationships(d)[k] : k \in DOMAIN Relationships(d)}

----------------------------------------------------------------------------
(* The graph builder and the writer *)

(* An edge is identified by all but its confidence *)
Key(e) == [e EXCEPT !.confidence = 0]

EdgeOf(r) ==
    LET o == resolved[r] IN
    [file |-> r[1], src |-> EnclosingSymbol(d, r), tgt |-> First(d, o.targets),
     kind |-> Relationship(d, r).kind, confidence |-> o.score]

(* Of several edges with one key the first stays, in a build as in the table: *)
(* INSERT OR IGNORE.                                                          *)
Insert(es, e) == IF \E x \in es : Key(x) = Key(e) THEN es ELSE es \union {e}

(* Resolved to a symbol other than the enclosing one *)
Linked(r) ==
    /\ resolved[r].state = "repository_symbol"
    /\ {First(d, resolved[r].targets)} # EnclosingSymbol(d, r)

BuiltEdges ==
    FoldLeft(LAMBDA es, r : IF Linked(r) THEN Insert(es, EdgeOf(r)) ELSE es,
             {}, Relationships(d))

(* Only the relationships of the file touched last are linked *)
FlushEdges_Touched(es) ==
    es \union {e \in BuiltEdges : /\ es = {} \/ e.file = Last(d.order)
                                  /\ \A x \in es : Key(x) # Key(e)}

FlushEdges(es) == es \union {e \in BuiltEdges : \A x \in es : Key(x) # Key(e)}

----------------------------------------------------------------------------
Init ==
    /\ \E repository \in Repositories, order \in SetToSeqs(File) :
         d = [file |-> repository, order |-> order]
    /\ phase = "indexed"
    /\ flow = <<>>
    /\ resolved = <<>>
    /\ edges = {}

(* SymbolIndex, ImportResolver and the flow engine are built *)
Prepare ==
    /\ phase = "indexed"
    /\ flow' = Flow(d)
    /\ phase' = "prepared"
    /\ UNCHANGED <<d, resolved, edges>>

(* Resolver::execute; the relationships do not depend on each other *)
Execute ==
    /\ phase = "prepared"
    /\ resolved' = [r \in RelationshipIds |-> Resolve(r)]
    /\ phase' = "resolved"
    /\ UNCHANGED <<d, flow, edges>>

Build ==
    /\ phase = "resolved"
    /\ edges' = FlushEdges(edges)
    /\ phase' = "built"
    /\ UNCHANGED <<d, flow, resolved>>

(* The edges of a file and those into its symbols go *)
DeleteFileData(f) == {e \in edges : e.file # f /\ e.tgt[1] # f}

Behind(order, f) == Append(FoldLeft(LAMBDA q, g : IF g = f THEN q ELSE Append(q, g), <<>>, order), f)

(* reindex_paths of a file whose content has not changed *)
Reindex(f) ==
    /\ phase = "built"
    /\ d' = [d EXCEPT !.order = Behind(@, f)]
    /\ edges' = DeleteFileData(f)
    /\ flow' = <<>>
    /\ resolved' = <<>>
    /\ phase' = "indexed"

Next ==
    \/ Prepare
    \/ Execute
    \/ Build
    \/ \E f \in File : Reindex(f)

Spec == Init /\ [][Next]_vars

----------------------------------------------------------------------------
(* Properties *)

State == {"repository_symbol", "external_dependency", "standard_library", "builtin",
          "dynamic", "ambiguous", "missing", "recursive"}

(* The types of the variables; every relationship the resolver has been through *)
(* is in a terminal state (resolver/pipeline.rs:29 panics otherwise).            *)
TypeOK ==
    /\ d.file \in Repositories
    /\ d.order \in SetToSeqs(File)
    /\ phase \in {"indexed", "prepared", "resolved", "built"}
    /\ \A x \in DOMAIN flow : flow[x].confidence \in Medium .. Certain
    /\ \A r \in DOMAIN resolved :
         /\ resolved[r].state \in State
         /\ resolved[r].targets \subseteq SymbolIds(d)
         /\ resolved[r].score \in {0, 1}
    /\ \A e \in edges : /\ e.file \in File
                        /\ e.tgt \in SymbolIds(d)
                        /\ e.src \subseteq SymbolIds(d)
                        /\ e.confidence \in {0, 1}

IsResolved == phase \in {"resolved", "built"}

(* What the assertions of resolver/assertions.rs and the "should not happen" *)
(* of builder.rs:68 are about: an ambiguous relationship has several         *)
(* candidates, a resolved one at least one, a recursive one its own symbol,  *)
(* and one that leads out of the repository or nowhere has none.             *)
TerminalContracts ==
    IsResolved => \A r \in DOMAIN resolved :
        CASE resolved[r].state = "ambiguous" -> Cardinality(resolved[r].targets) > 1
          [] resolved[r].state = "repository_symbol" -> resolved[r].targets # {}
          [] resolved[r].state = "recursive" -> resolved[r].targets = EnclosingSymbol(d, r)
          [] OTHER -> resolved[r].targets = {}

(* query/src/graph.rs admits an edge of a member kind by its confidence alone, *)
(* which is to exclude "every obj.map() resolving to an unrelated top-level    *)
(* map function": an edge of full confidence ends at a symbol that another one *)
(* encloses, and two relationships that share an edge do not confuse the two.  *)
ConfidentEdgesTyped ==
    \A e \in edges : e.confidence = 1 =>
        /\ e.kind \in MemberKinds \union {"instantiates"}
        /\ ParentName(d, e.tgt) # NoName

(* The file's own facts on a variable: nothing but relationships that call *)
(* methods on it, or one binding.                                          *)
Unbound(f, x) == \A i \in DOMAIN d.file[f].bindings : d.file[f].bindings[i].name # x
OnlyBound(f, x, kind, y) ==
    \E i \in DOMAIN d.file[f].bindings :
        /\ d.file[f].bindings[i] = [kind |-> kind, name |-> x, type |-> y]
        /\ \A j \in DOMAIN d.file[f].bindings \ {i} : d.file[f].bindings[j].name # x

MethodCalls(x) ==
    {r \in DOMAIN resolved : /\ Relationship(d, r).kind = "method_call"
                             /\ Relationship(d, r).receiver = <<x>>
                             /\ x \notin Builtins /\ ~IsSelf(x)}

Names == {Symbol(d, s).name : s \in SymbolIds(d)}
Variables == {b.name : b \in UNION {Range(d.file[f].bindings) : f \in File}}

(* "annotation precedence" (receiver.rs:13): the annotated type of a variable *)
(* is the one its method calls resolve against, whatever a constructor, a     *)
(* call, an import or another file says of a variable of that name.           *)
AnnotationWins ==
    IsResolved => \A x \in Variables, type \in Names : \A r \in MethodCalls(x) :
        OnlyBound(r[1], x, "var_type", type) /\ ~IsImported(d, r[1], type) =>
            resolved[r].targets = FindMethodInType(d, Relationship(d, r).name, type)

(* classification.rs and receiver.rs stop at a receiver from outside: a method *)
(* called on a type that the file imports from outside the repository is never *)
(* linked, even to a type of the same name inside.                             *)
OutsideReceiversUnlinked ==
    IsResolved => \A x \in Variables, type \in Names : \A r \in MethodCalls(x) :
        ( /\ OnlyBound(r[1], x, "var_type", type)
          /\ IsImported(d, r[1], type)
          /\ Classify(ImportSource(d, r[1], type), d.file[r[1]].lang) \in Outside )
        => resolved[r].state \in Outside

(* "follow it one hop" (flow/engine.rs:122): a method called on an instance  *)
(* imported from inside the repository resolves to the class that the file   *)
(* which defines the instance constructs it from, in whatever order the rows *)
(* of the two files are.                                                     *)
Constructions(f, x) ==
    {i \in DOMAIN d.file[f].relationships :
        /\ d.file[f].relationships[i].kind \in {"new_call", "instantiates"}
        /\ d.file[f].relationships[i].receiver = <<x>>}
Constructs(f, x, type) ==
    /\ Constructions(f, x) # {}
    /\ \A i \in Constructions(f, x) : d.file[f].relationships[i].name = type

SingletonFollowed ==
    IsResolved => \A s \in SymbolIds(d), type \in Names :
        LET x == Symbol(d, s).name IN
        ( /\ Constructs(s[1], x, type) /\ Symbol(d, s).kind # "type"
          /\ Unbound(s[1], x) /\ ~IsImported(d, s[1], x) )
        => \A r \in MethodCalls(x) :
              ( /\ IsImported(d, r[1], x) /\ ImportedSymbols(d, r[1], x) = {s}
                /\ Unbound(r[1], x) /\ ~IsImported(d, r[1], type) )
              => resolved[r].targets = FindMethodInType(d, Relationship(d, r).name, type)

(* An alias, a destructured name or a literal's field has a type when what it *)
(* stands for has one, however long the chain and whatever its order: the     *)
(* bound on the passes of resolve_aliases is never reached too early.         *)
AliasesClosed ==
    phase # "indexed" =>
        \A k \in DOMAIN Bindings(d) :
            Bindings(d)[k].kind \in AliasKinds => ~Applies(d, flow, Bindings(d)[k])

(* A fixture of the resolver's tests: "const a = b" with "a.query(); //       *)
(* Resolves to Database.query".  A method called on an alias of an annotated  *)
(* variable resolves as it does on the variable.  It does not: the call has   *)
(* given the alias a provisional type, the method's name, before aliases are  *)
(* resolved, so that it comes out as missing.                                 *)
AliasFollowed ==
    IsResolved => \A x, y \in Variables, type \in Names : \A r \in MethodCalls(x) :
        ( /\ OnlyBound(r[1], x, "alias", y) /\ OnlyBound(r[1], y, "var_type", type)
          /\ ~IsImported(d, r[1], x) /\ ~IsImported(d, r[1], type) )
        => resolved[r].targets = FindMethodInType(d, Relationship(d, r).name, type)

(* Every name is defined once *)
NamesUnique ==
    \A s, t \in SymbolIds(d) : Symbol(d, s).name = Symbol(d, t).name => s = t

(* "Pass 2 must re-link not just the touched files' own outgoing edges"      *)
(* (reindex.rs): after files whose content has not changed are reindexed, in *)
(* any order and any number of times, the edges are those of a full index,   *)
(* none lost, none left over and each with its confidence, although the      *)
(* order of the rows on which types depend is another.                       *)
IncrementalMatchesFull ==
    phase = "built" /\ NamesUnique => edges = BuiltEdges
=============================================================================
