--------------------------- MODULE ProjectReaders ---------------------------
(* plugin/scripts/project-graph.mjs, the files of a project and the edges that *)
(* a parser sees in them.  A path is the sequence of its names, the last one   *)
(* without its extension; what a pattern of the script matches in a source is  *)
(* a record, in the order of the lines.                                        *)
EXTENDS Naturals, Sequences, SequencesExt, FiniteSetsExt

CONSTANTS Projects,   \* what git may show: [files, language, source, aliases, baseUrl, packages]
          RoutesFile, \* config/routes.rb
          Underscore, \* the file name of a Ruby constant
          ClassOf,    \* the class name of an association: camelize, singularize
          Params      \* segments of a literal that stand for an id

VARIABLE project

Visible       == project.files
LanguageOf(f) == project.language[f]
Items(f, is)  == {x \in Range(project.source[f]) : x.is = is}
Edge(f, t, k) == [from |-> f, to |-> t, kind |-> k]

\* posix.join of a directory and a relative path.
Joined(directory, spec) == IF spec.up > Len(directory) THEN <<"..">> \o spec.path
                           ELSE SubSeq(directory, 1, Len(directory) - spec.up) \o spec.path

-----------------------------------------------------------------------------
(* Ruby.                                                                       *)
\* Declarations nest by their indentation.
Declare(read, x) ==
    IF x.is \notin {"class", "module"} THEN read
    ELSE LET outer == SelectSeq(read.frames, LAMBDA frame : frame.indent < x.indent)
             wraps == IF outer = <<>> THEN 0 ELSE Last(outer).at
             seen  == [i \in DOMAIN read.declared |-> [read.declared[i] EXCEPT !.wrapsAnother = @ \/ i = wraps]]
             name  == FlattenSeq([i \in DOMAIN outer |-> outer[i].name]) \o x.name
         IN [frames   |-> Append(outer, [name |-> x.name, indent |-> x.indent, at |-> Len(seen) + 1]),
             declared |-> Append(seen, [name |-> name, kind |-> x.is, wrapsAnother |-> FALSE])]
RubyDeclarations(f) == FoldLeft(Declare, [frames |-> <<>>, declared |-> <<>>], project.source[f]).declared
DeclaredNames(f) == {d.name : d \in Range(RubyDeclarations(f))}
RubySymbols(f)   == {d.name : d \in {x \in Range(RubyDeclarations(f)) : x.kind = "class" \/ ~x.wrapsAnother}}
RubyNamespaceChain(f) == IF RubyDeclarations(f) = <<>> THEN <<>> ELSE Last(RubyDeclarations(f)).name

AutoloadKey(f) == CASE LanguageOf(f) # "ruby"             -> <<>>
                    [] f[1] = "app" /\ Len(f) > 2 -> SubSeq(f, 3, Len(f))
                    [] f[1] = "lib" /\ Len(f) > 1 -> Tail(f)
                    [] OTHER                      -> <<>>
Autoloaded(constant) == {f \in Visible : AutoloadKey(f) = [i \in DOMAIN constant |-> Underscore[constant[i]]]}

\* The innermost scope around the reference that has the constant.
ResolveRubyConstant(constant, chain) ==
    LET found == {depth \in 0..Len(chain) : Autoloaded(SubSeq(chain, 1, depth) \o constant) # {}}
    IN IF found = {} THEN {} ELSE Autoloaded(SubSeq(chain, 1, Max(found)) \o constant)

ConstantEdges(f) ==
    LET chain   == RubyNamespaceChain(f)
        foreign == {x \in Items(f, "constant") : x.name \notin DeclaredNames(f)
                                                 /\ ~(Len(x.name) = 1 /\ x.name[1] \in Range(chain))}
    IN {Edge(f, t, "constant") : t \in UNION {ResolveRubyConstant(x.name, chain) : x \in foreign}}

\* A model is preferred to another class of the name.
AssociationTargets(x) ==
    LET candidates == ResolveRubyConstant(IF x.class # <<>> THEN x.class ELSE <<ClassOf[x.word]>>, <<>>)
        models     == {t \in candidates : SubSeq(t, 1, 2) = <<"app", "models">>}
    IN IF models # {} THEN models ELSE candidates

RubyEdges(f) ==
    ConstantEdges(f)
      \cup {Edge(f, t, "association") : t \in UNION {AssociationTargets(x) : x \in Items(f, "association")}}
      \cup {Edge(f, Joined(Front(f), x), "require") : x \in Items(f, "require_relative")}
      \cup {Edge(f, <<"lib">> \o x.path, "require") : x \in Items(f, "require")}

-----------------------------------------------------------------------------
(* Routes: blocks nest namespaces, and every `end` line closes one.            *)
Namespaces(blocks) == SelectSeq(blocks, LAMBDA name : name # "")
RoutesOf(x, scope) ==
    LET Controller(name) == <<"app", "controllers">> \o scope \o <<name \o "_controller">>
        Route(path, name) == [path |-> scope \o path, controller |-> Controller(name)]
        Or(default) == IF x.controller = "" THEN default ELSE x.controller
    IN CASE x.is = "resources" -> <<Route(<<x.word>>, Or(x.word)), Route(<<x.word, ":id">>, Or(x.word))>>
         [] x.is = "resource"  -> <<Route(<<x.word>>, Or(x.word \o "s"))>>
         [] x.is = "verb"      -> <<Route(x.path, x.controller)>>
         [] OTHER              -> <<>>
ReadRoute(read, x) ==
    [routes |-> read.routes \o RoutesOf(x, Namespaces(read.blocks)),
     blocks |-> IF x.opens THEN Append(read.blocks, IF x.is = "namespace" THEN x.word ELSE "")
                ELSE IF x.is = "end" /\ read.blocks # <<>> THEN Front(read.blocks) ELSE read.blocks]
Routes == IF RoutesFile \in Visible
          THEN FoldLeft(ReadRoute, [routes |-> <<>>, blocks |-> <<>>], project.source[RoutesFile]).routes ELSE <<>>

\* routesByPath: of two routes with one path the later one is kept.
RouteOf(path) == LET matching == {i \in DOMAIN Routes : Routes[i].path = path}
                 IN IF matching = {} THEN {} ELSE {Routes[Max(matching)]}
NormalizeApiPath(segments) == [i \in DOMAIN segments |-> IF segments[i] \in Params THEN ":id" ELSE segments[i]]

-----------------------------------------------------------------------------
(* TypeScript, JavaScript and Dart.                                            *)
ImportCandidates(f, spec) ==
    IF spec.relative THEN <<Joined(Front(f), spec)>>
    ELSE FlattenSeq([i \in DOMAIN project.aliases |->
             LET alias == project.aliases[i]
             IN IF (IF alias.wildcard THEN IsPrefix(alias.prefix, spec.path) ELSE spec.path = alias.prefix)
                THEN [k \in DOMAIN alias.targets |-> alias.targets[k] \o SubSeq(spec.path, Len(alias.prefix) + 1, Len(spec.path))]
                ELSE <<>>])
         \o [i \in DOMAIN project.baseUrl |-> project.baseUrl[i] \o spec.path]

\* The file of a candidate, or the index of its directory; the first candidate that has one.
ResolveScriptImport(f, spec) ==
    LET candidates == ImportCandidates(f, spec)
        probes == FlattenSeq([i \in DOMAIN candidates |-> <<candidates[i], Append(candidates[i], "index")>>])
        found  == {i \in DOMAIN probes : probes[i] \in Visible}
    IN IF found = {} THEN {} ELSE {probes[Min(found)]}

Seams(f) == {[from |-> f, to |-> route.controller, route |-> route.path] :
               route \in {r \in UNION {RouteOf(NormalizeApiPath(x.path)) : x \in Items(f, "literal")} : r.controller \in Visible}}

ScriptEdges(f) == {Edge(f, t, "import") : t \in UNION {ResolveScriptImport(f, x) : x \in Items(f, "import")}}
                    \cup {Edge(f, seam.to, "seam") : seam \in Seams(f)}

DartTargetOf(f, x) == IF x.relative THEN {Joined(Front(f), x)}
                      ELSE IF x.package \in DOMAIN project.packages THEN {project.packages[x.package] \o <<"lib">> \o x.path} ELSE {}
DartEdges(f) == {Edge(f, t, "import") : t \in UNION {DartTargetOf(f, x) : x \in Items(f, "import")}}

ScriptSymbols(f) == {x.name : x \in Items(f, "symbol")}
DartSymbols(f)   == {x.name : x \in {y \in Items(f, "symbol") : ~y.private}}

-----------------------------------------------------------------------------
SymbolsOf(f) == CASE LanguageOf(f) \in {"ruby", "erb"}              -> RubySymbols(f)
                  [] LanguageOf(f) \in {"typescript", "javascript"} -> ScriptSymbols(f)
                  [] LanguageOf(f) = "dart"                         -> DartSymbols(f)
EdgesOf(f) == CASE LanguageOf(f) \in {"ruby", "erb"}              -> RubyEdges(f)
                [] LanguageOf(f) \in {"typescript", "javascript"} -> ScriptEdges(f)
                [] LanguageOf(f) = "dart"                         -> DartEdges(f)
AllSeams == UNION {Seams(f) : f \in {x \in Visible : LanguageOf(x) \in {"typescript", "javascript"}}}
\* A file's edge to itself says nothing; an edge that is found twice is one.
DedupeEdges(found) == {e \in found : e.from # e.to}
AllEdges == {e \in DedupeEdges((UNION {EdgesOf(f) : f \in Visible}) \cup {Edge(RoutesFile, r.controller, "route") : r \in Range(Routes)}) :
               e.to \in Visible}
=============================================================================
