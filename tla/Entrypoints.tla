---------------------------- MODULE Entrypoints ----------------------------
(***************************************************************************)
(* The shared classifier of entrypoints: whether a symbol is a route, a    *)
(* page or a command line, from its name, kind, path and decorators. The   *)
(* flag is_entrypoint of symbol_features is written with it at index time  *)
(* and the tools ask it again for the class.                               *)
(*                                                                         *)
(* A decorator is the word its callee ends with ("get" of @app.get("/x")). *)
(* Of a path only what the conventions read is kept, in PathTraits.        *)
(***************************************************************************)
EXTENDS Naturals

CONSTANTS
    PathTraits,   \* PathTraits[p]: extension and stem of path p, and whether
                  \* app/ or pages/ is in it, pages/api/ is below a directory
                  \* of it, or it ends in __main__.py
    Capital,      \* the names that start with a capital letter
    MainName      \* the name main

IsCallableKind(kind) ==
    kind \in {"function", "method", "route", "endpoint", "lambda", "jsx_element", "component"}

IsRouteDecorator(attribute) ==
    attribute \in {"get", "post", "put", "delete", "patch", "head", "options", "websocket",
                   "route", "api_route", "websocket_route"}

IsWebComponentExt(ext) == ext \in {"tsx", "jsx", "ts", "js"}

(* The first convention whose files these are decides, also against.       *)
FileConventionClass(t, name, kind) ==
    LET component == IsCallableKind(kind) /\ name \in Capital
    IN  CASE ~IsWebComponentExt(t.ext) -> "none"
          [] IsWebComponentExt(t.ext) /\ t.app /\ t.stem = "route" /\ t.ext \in {"ts", "js"} ->
                IF IsCallableKind(kind) THEN "route" ELSE "none"
          [] IsWebComponentExt(t.ext) /\ t.app /\ t.stem \in {"page", "layout", "template", "default"} ->
                IF component THEN "page" ELSE "none"
          [] /\ t.ext \in {"tsx", "jsx"} /\ t.pages
             /\ ~(t.app /\ t.stem \in {"page", "layout", "template", "default"}) ->
                CASE t.stem \in {"_app", "_document"} \/ ~component -> "none"
                  [] t.stem \notin {"_app", "_document"} /\ component /\ t.api -> "route"
                  [] OTHER -> "page"
          [] OTHER -> "none"

(* Only Python files are called __main__.py.                               *)
CliClass(t, name, kind) ==
    IF \/ t.main /\ (IsCallableKind(kind) \/ kind = "class")
       \/ kind = "function" /\ name = MainName /\ t.ext = "py"
    THEN "cli" ELSE "none"

ClassifyEntrypoint(name, kind, path, attributes) ==
    LET t == PathTraits[path]
        decorated == IsCallableKind(kind) /\ \E a \in attributes : IsRouteDecorator(a)
    IN  CASE kind \in {"page", "layout"} -> "page"
          [] kind \in {"route", "endpoint"} -> "route"
          [] kind \notin {"page", "layout", "route", "endpoint"} /\ decorated -> "route"
          [] OTHER -> IF FileConventionClass(t, name, kind) # "none"
                      THEN FileConventionClass(t, name, kind) ELSE CliClass(t, name, kind)
============================================================================
