---------------------------- MODULE MCProjectMap ----------------------------
(* Small projects for the map: one of scripts with any of some imports, and a  *)
(* Rails application with a frontend, some of its lines left out.              *)
EXTENDS ProjectGraph

Import(path) == [is |-> "import", relative |-> FALSE, path |-> path]
ScriptFiles == {<<"lib", "pay", "one">>, <<"lib", "pay", "two">>, <<"modules", "Pay", "ui">>, <<"modules", "view", "form">>,
                <<"modules", "view", "page">>, <<"src", "main">>, <<"src", "util">>, <<"src", "deep", "x">>, <<"top">>}
Imports == {<<<<"src", "main">>, <<"lib", "pay", "one">>>>, <<<<"src", "main">>, <<"modules", "view", "form">>>>,
            <<<<"src", "util">>, <<"src", "main">>>>, <<<<"src", "deep", "x">>, <<"src", "util">>>>,
            <<<<"top">>, <<"src", "main">>>>, <<<<"src", "util">>, <<"modules", "view", "form">>>>,
            <<<<"lib", "pay", "two">>, <<"top">>>>, <<<<"modules", "view", "page">>, <<"src", "deep", "x">>>>,
            <<<<"modules", "Pay", "ui">>, <<"src", "util">>>>}
ScriptProject(files, imports) ==
    [files |-> files, language |-> [f \in files |-> "typescript"], aliases |-> <<>>, baseUrl |-> <<<<>>>>, packages |-> <<>>,
     source |-> [f \in files |-> SetToSeq({Import(i[2]) : i \in {x \in imports : x[1] = f}})]]
\* Without a group directory the top directories are the seeds.
TopFiles == {<<"src", "main">>, <<"src", "util">>, <<"src", "deep", "x">>, <<"top">>, <<"bin", "run">>}

Class(indent, name)    == [is |-> "class", indent |-> indent, name |-> name]
Constant(name)         == [is |-> "constant", name |-> name]
Line(is, name, opens)  == [is |-> is, word |-> name, controller |-> "", opens |-> opens]
RailsSource(lines, literals) ==
    [routes     |-> <<Line("namespace", "modules", TRUE), Line("resources", "bills", TRUE), Line("end", "", FALSE),
                      [is |-> "verb", path |-> <<"status">>, controller |-> "bills", opens |-> FALSE], Line("end", "", FALSE), Line("resource", "bill", FALSE)>>,
     controller |-> <<Class(0, <<"Modules">>), Class(2, <<"BillsController">>)>> \o [i \in 1..Cardinality(lines) |-> SetToSeq(lines)[i]],
     outer      |-> <<Class(0, <<"BillsController">>), Constant(<<"Modules", "Bill">>)>>,
     model      |-> <<Class(0, <<"Bill">>), [is |-> "association", word |-> "bills", class |-> <<>>],
                      [is |-> "require", path |-> <<"bill">>], [is |-> "require_relative", up |-> 0, path |-> <<"modules", "bill">>]>>,
     web        |-> <<[is |-> "import", relative |-> TRUE, up |-> 1, path |-> <<"shared">>], [is |-> "import", relative |-> FALSE, path |-> <<"@", "web", "app">>],
                      [is |-> "symbol", name |-> <<"App">>]>> \o literals,
     dart       |-> <<[is |-> "import", relative |-> FALSE, package |-> "web", path |-> <<"main">>],
                      [is |-> "symbol", name |-> <<"Main">>, private |-> FALSE], [is |-> "symbol", name |-> <<"run">>, private |-> TRUE]>>,
     none       |-> <<>>]
RailsFiles == {<<"config", "routes">>, <<"app", "controllers", "modules", "bills_controller">>, <<"app", "controllers", "bills_controller">>,
               <<"app", "models", "bill">>, <<"app", "models", "modules", "bill">>, <<"lib", "bill">>,
               <<"apps", "web", "app">>, <<"apps", "shared", "index">>, <<"apps", "dart", "lib", "main">>, <<"apps", "dart", "run">>}
KindOfFile == [f \in RailsFiles |->
                 CASE f = <<"config", "routes">>                                       -> <<"ruby", "routes">>
                   [] f = <<"app", "controllers", "modules", "bills_controller">>      -> <<"ruby", "controller">>
                   [] f = <<"app", "controllers", "bills_controller">>                 -> <<"ruby", "outer">>
                   [] f = <<"app", "models", "bill">>                                  -> <<"ruby", "model">>
                   [] f = <<"apps", "web", "app">>                                     -> <<"typescript", "web">>
                   [] f = <<"apps", "shared", "index">>                                -> <<"javascript", "none">>
                   [] f = <<"apps", "dart", "run">>                                    -> <<"dart", "dart">>
                   [] f = <<"apps", "dart", "lib", "main">>                            -> <<"dart", "none">>
                   [] OTHER                                                            -> <<"ruby", "none">>]
RailsProject(lines, literals) ==
    [files |-> RailsFiles, language |-> [f \in RailsFiles |-> KindOfFile[f][1]], baseUrl |-> <<>>,
     aliases |-> <<[prefix |-> <<"@">>, wildcard |-> TRUE, targets |-> <<<<"none">>, <<"apps">>>>]>>, packages |-> [web |-> <<"apps", "dart">>],
     source |-> [f \in RailsFiles |-> RailsSource(lines, literals)[KindOfFile[f][2]]]]
References == {Constant(<<"Bill">>), Constant(<<"Modules", "Bill">>), Constant(<<"BillsController">>)}
Literals == {<<[is |-> "literal", path |-> p]>> : p \in {<<"modules", "bills", "7">>, <<"bill">>}}
            \cup {<<[is |-> "literal", path |-> <<"modules", "bills", "7">>], [is |-> "literal", path |-> <<"modules", "bills">>],
                    [is |-> "literal", path |-> <<"modules", "status">>]>>}

MCProjects == {ScriptProject(ScriptFiles, imports) : imports \in SUBSET Imports}
              \cup {ScriptProject(TopFiles, imports) : imports \in SUBSET {i \in Imports : {i[1], i[2]} \subseteq TopFiles}}
              \cup {RailsProject(lines, literals) : lines \in SUBSET References, literals \in Literals}
\* Three files of a directory that holds a group directory.
MCCovered    == {ScriptProject(ScriptFiles, imports) : imports \in SUBSET {i \in Imports : i[1] \notin {<<"top">>}}}
MCRoutesFile == <<"config", "routes">>
MCGroups     == {"lib", "modules", "apps"}
MCChanges    == {{<<"app", "models", "bill">>}, {<<"src", "main">>, <<"top">>}}
MCNames      == <<"App", "Bill", "BillsController", "Main", "Modules", "Pay", "app", "apps", "bill", "bills_controller", "bin", "config", "controllers", "dart", "deep", "form", "index", "lib", "main",
                  "models", "modules", "one", "page", "pay", "root", "routes", "run", "shared", "src", "top", "two", "ui", "util", "view", "web", "x">>
MCSlugOf     == [n \in Range(MCNames) |-> IF n = "Pay" THEN <<"pay">> ELSE <<n>>]
MCUnderscore == [Bill |-> "bill", Modules |-> "modules", BillsController |-> "bills_controller"]
MCClassOf    == [bills |-> "Bill"]
=============================================================================
