---------------------------- MODULE MCResolution ----------------------------
(* Small repositories for Resolution: "model" defines a class Repo with a    *)
(* method find, "inst" makes an instance of it, "app" uses it.               *)
EXTENDS Resolution

Sym(name, kind, lo, hi) == [name |-> name, kind |-> kind, lo |-> lo, hi |-> hi]
Rel(kind, name, receiver, at) ==
    [kind |-> kind, name |-> name, source |-> "none", receiver |-> receiver, at |-> at]
Import(name, source) ==
    [kind |-> "imports", name |-> name, source |-> source, receiver |-> <<>>, at |-> 1]
Bind(kind, name, type) == [kind |-> kind, name |-> name, type |-> type]
Content(lang, symbols, relationships, bindings) ==
    [lang |-> lang, symbols |-> symbols, relationships |-> relationships,
     bindings |-> bindings]

Repo == <<Sym("Repo", "type", 1, 6), Sym("find", "function", 2, 4)>>

(* find calls itself, or not; a second class or a function has a find, or not *)
Models ==
    { Content("script", Repo, <<>>, <<>>),
      Content("script", Repo, <<Rel("method_call", "find", <<"this">>, 3)>>, <<>>),
      Content("script", Repo \o <<Sym("Other", "type", 7, 9), Sym("find", "function", 8, 8)>>,
              <<Rel("calls", "find", <<>>, 8)>>, <<>>),
      Content("script", Repo \o <<Sym("find", "function", 7, 8)>>, <<>>, <<>>) }

(* The instance repo, or a function that returns one *)
Instances ==
    { Content("script", <<Sym("repo", "variable", 2, 2)>>,
              <<Import("Repo", "relative"), Rel("new_call", "Repo", <<"repo">>, 2)>>, <<>>),
      Content("script", <<Sym("make", "function", 2, 3)>>,
              <<Import("Repo", "relative"), Rel("new_call", "Repo", <<>>, 3)>>,
              <<Bind("return_type", "make", "Repo")>>) }

Imports ==
    {<<>>} \union {<<Import("repo", c)>> : c \in {"relative", "alias", "package"}}
           \union {<<Import("Repo", c)>> : c \in {"relative", "package"}}

BindingLists ==
    { <<>>,
      <<Bind("var_type", "r", "Repo")>>,
      <<Bind("alias", "q", "t"), Bind("alias", "t", "p"), Bind("var_type", "p", "Repo")>>,
      <<Bind("assignment", "r", "make"), Bind("object_literal", "r", "o"),
        Bind("destructuring", "r", "o")>>,
      <<Bind("field_type", "r", "Repo")>> }

Receivers == {<<>>, <<"repo">>, <<"r">>, <<"this", "r">>, <<"console">>}

AppOf(lang, imports, bindings, receiver) ==
    Content(lang, <<Sym("run", "function", 2, 9)>>,
            imports \o << Rel("new_call", "Repo", <<"x">>, 3),
                          Rel("method_call", "find", receiver, 4),
                          Rel("method_call", "find", <<>>, 5),
                          Rel("calls", "make", <<"r">>, 6) >>,
            bindings)

Apps == {AppOf("script", i, b, r) : i \in Imports, b \in BindingLists, r \in Receivers}

(* Languages whose import sources are classed otherwise *)
OtherApps ==
    { AppOf(lang, <<Import("Repo", source), Import("repo", source)>>, b, <<"r">>) :
        lang \in {"rust", "python", "other"},
        source \in {"std", "crate", "relative", "package", "stdlib", "local", "none"},
        b \in {<<>>, <<Bind("var_type", "r", "Repo")>>} }
    \union
    { Content("python", <<Sym("run", "function", 2, 9)>>,
              << Rel("instantiates", "Repo", <<"x">>, 3), Rel("instantiates", "Repo", <<>>, 4),
                 Rel("method_call", "find", <<"x">>, 5), Rel("calls", "run", <<>>, 6),
                 Rel("MEMBER_ACCESS", "gone", <<>>, 7) >>,
              <<Bind("import_alias", "x", "Repo")>>) }

MCFile == {"model", "inst", "app"}
MCRepositories ==
    {[f \in MCFile |-> CASE f = "model" -> m [] f = "inst" -> i [] f = "app" -> a] :
        m \in Models, i \in Instances, a \in Apps \union OtherApps}
MCBuiltins == {"console", "self"}

(* const q = r with an annotated r, and q.find() *)
AliasRepositories ==
    {[f \in MCFile |->
        CASE f = "model" -> Content("script", Repo, <<>>, <<>>)
          [] f = "inst" -> Content("script", <<>>, <<>>, <<>>)
          [] f = "app" -> Content("script", <<Sym("run", "function", 2, 9)>>,
                                  <<Rel("method_call", "find", <<x>>, 4)>>,
                                  <<Bind("var_type", "r", "Repo"), Bind("alias", "q", "r")>>)] :
        x \in {"r", "q"}}
=============================================================================
