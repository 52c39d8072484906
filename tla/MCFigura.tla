------------------------------ MODULE MCFigura ------------------------------
(* Documents, diagrams and schemas for the figura commands.  A behaviour is    *)
(* one of check and build, or one of erd, or one of its readers.               *)
EXTENDS FiguraBuild, FiguraErd, MCErdSources, TLC

VARIABLE command
sumVars == <<command, figuraVars, erdVars, sourceVars>>

Shape(scope, name, box)       == [scope |-> scope, name |-> name, box |-> box, path |-> <<>>]
Connection(scope, name, path) == [scope |-> scope, name |-> name, box |-> <<>>, path |-> path]
Label(owner, box)             == [owner |-> owner, box |-> box, font |-> 4]
Plain(family, width) == LET a == Shape(<<>>, "a", <<0, 0, 4, 2>>) IN
                      [layout |-> "elk", direction |-> "down", renders |-> TRUE, kind |-> family, width |-> width, height |-> 6,
                       objects |-> {a}, labels |-> {Label(a, <<1, 0, 2, 1>>)}]

\* A label of an edge inside a container, which frames its path, and one that meets it by its side.
Nested == LET box  == Shape(<<>>, "box", <<0, 0, 8, 6>>)
              in   == Shape(<<"box">>, "in", <<1, 1, 2, 2>>)
              edge == Connection(<<>>, "edge", <<3, 2, 4, 2>>)
          IN [Plain("graph", 10) EXCEPT !.objects = {box, in, edge},
                !.labels = {Label(in, <<1, 1, 2, 1>>), Label(edge, <<3, 2, 3, 1>>)}]
Crossed == [Nested EXCEPT !.labels = @ \cup {Label(Shape(<<>>, "out", <<>>), <<2, 1, 2, 2>>)}]

MCDiagram == [flow    |-> Nested,
              crossed |-> Crossed,
              wide    |-> Plain("graph", 30),
              tables  |-> Plain("erd", 16),
              table   |-> Plain("erd", 8),
              broken  |-> [Plain("graph", 4) EXCEPT !.renders = FALSE],
              strange |-> [Plain("graph", 4) EXCEPT !.layout = "dot"]]

El(tag, inside) == <<<<"open", tag>>>> \o inside \o <<<<"close", tag>>>>
Text            == <<<<"text">>>>
\* __init__.py, with a tag and a character reference.
Code            == <<<<"code", <<<<"separator", 2>>, <<"word", 4>>, <<"separator", 2>>, <<"markup", 3>>, <<"separator", 1>>, <<"word", 2>>,
                                 <<"reference", 5>>, <<"separator", 1>>>>>>>>
D2(name)        == El("figure", El("pre", <<<<"d2", name>>>>))
Document(body)  == El("html", El("head", Text) \o body)

MCContents == {Document(El("h1", Text) \o El("h2", Text) \o El("div", El("div", Code) \o El("pre", Code)) \o D2("flow")),
               Document(El("h2", Text) \o D2("tables") \o El("section", D2("table"))),
               Document(El("h1", Text) \o Text \o D2("crossed") \o D2("wide") \o D2("broken")),
               Document(D2("broken")),
               Document(D2("flow") \o D2("strange")),
               Document(El("h1", Text) \o El("p", Text) \o <<<<"open", "p">>>> \o Code \o <<<<"open", "pre">>>> \o Code),
               Document(El("table", <<<<"cells", 20>>>>) \o El("h1", Text) \o El("h2", Text) \o El("figure", <<<<"image", 10>>>>)),
               Text \o El("p", Text)}

\* A page of 14 by 13 with a margin of 1: a column of 12, and 8 for a diagram above its caption.
Face(file, weight, style) == [file |-> file, weight |-> weight, style |-> style]
MCBundleFiles == {"Regular", "Italic", "SemiBold", "Bold", "Mono"}
MCFaces       == <<Face("Regular", 400, "normal"), Face("Italic", 400, "italic"), Face("SemiBold", 600, "normal"), Face("Bold", 700, "normal")>>
MCTheme == [path \in PageSize |-> <<"number", IF path[2] = "widthPoints" THEN 14 ELSE 13>>]
           @@ [path \in RolePaths \cup ColorPaths |-> <<"color", "ink">>]
           @@ [path \in PositivePaths |-> <<"number", IF path[1] = "typography" THEN 1 ELSE 2>>]
           @@ [path \in Margins \cup NonNegativePaths |-> <<"number", 1>>]
           @@ [path \in {"fonts"} \X {"text", "code"} \X {"family"} |-> <<"family", "Inter">>]
           @@ (<<"fonts", "text", "faces">> :> <<"faces", MCFaces>>) @@ (<<"fonts", "code", "faces">> :> <<"faces", <<Face("Mono", 400, "normal")>>>>)
WithFaces(faces) == [MCTheme EXCEPT ![<<"fonts", "text", "faces">>] = <<"faces", faces>>]
Without(paths)   == [path \in DOMAIN MCTheme \ paths |-> MCTheme[path]]
MCThemes == [plain    |-> MCTheme,
             narrow   |-> [MCTheme EXCEPT ![Margin("left")] = <<"number", 13>>],
             heightless |-> [MCTheme EXCEPT ![<<"page", "heightPoints">>] = <<"other">>],
             floorless |-> [MCTheme EXCEPT ![<<"diagram", "minimumLabelPoints">>] = <<"number", 0>>],
             colorless |-> [MCTheme EXCEPT ![<<"roles", "note", "text">>] = <<"other">>],
             noteless |-> Without({"roles"} \X {"note"} \X {"fill", "stroke", "text"}),
             guest    |-> MCTheme @@ (<<"roles", "guest", "fill">> :> <<"color", "ink">>),
             faceless |-> Without({<<"fonts", "text", "faces">>}),
             boldless |-> WithFaces(SubSeq(MCFaces, 1, 3)),
             lost     |-> WithFaces(Append(MCFaces, Face("Lost", 1000, "oblique")))]

\* Browsers: named by FIGURA_CHROME, on PATH, in /Applications, too old, not a browser, none.
Chromium(directory) == <<directory, "chromium">>
OnMac               == <<"/Applications", "Google Chrome">>
MachineWith(chrome, majors, tool) == [chrome |-> chrome, path |-> <<"", "/bin", "/opt">>, executable |-> DOMAIN majors,
                                      major |-> majors, pdftoppm |-> tool]
MCMachines == {MachineWith(<<>>, (Chromium("/bin") :> 131) @@ (<<"/opt", "google-chrome">> :> major), "runs") : major \in {130, 140}}
              \cup {MachineWith(<<>>, OnMac :> 140, tool) : tool \in {"runs", "missing"}}
              \cup {MachineWith(Chromium("/my"), majors, "runs") :
                       majors \in {Chromium("/my") :> 0, OnMac :> 140, (OnMac :> 0) @@ (Chromium("/my") :> 131)}}
              \cup {MachineWith(<<>>, <<>>, "runs")}

\* The heading is not closed.
MCUnclosed == {Document(El("h1", Text) \o <<<<"open", "h2">>>> \o Text \o El("p", Text))}

TableColumn(name, key, service) == [name |-> name, primaryKey |-> key, unique |-> FALSE, service |-> service, references |-> {},
                                    row |-> CASE name = "id" -> 8 [] name = "ref" -> 12 [] OTHER -> 13]
Table(name, domain)        == [name |-> name, domain |-> domain,
                               columns |-> {TableColumn("id", TRUE, FALSE), TableColumn("ref", FALSE, FALSE), TableColumn("at", FALSE, TRUE)}]
From(t, c, u, d) == [from |-> [table |-> t, column |-> c], to |-> [table |-> u, column |-> d], cardinality |-> "many-to-one"]
MCRelations == {From(1, "ref", 2, "id"), From(2, "ref", 3, "at"), From(3, "at", 1, "id"), From(4, "ref", 4, "id"), From(4, "at", 1, "ref")}
MCTables    == <<Table(2, 0), Table(1, 2), Table(3, 0), Table(4, 2)>>
MCSchemas   == {[tables |-> MCTables, relations |-> SetToSeq(relations)] : relations \in SUBSET MCRelations}
               \cup {[tables |-> <<Table(1, 0), Table(1, 0)>>, relations |-> <<>>],
                     [tables |-> MCTables, relations |-> <<From(1, "ref", 7, "id")>>],
                     [tables |-> MCTables, relations |-> <<From(1, "id", 2, "ref"), From(2, "ref", 1, "id"), From(3, "ref", 1, "id")>>]}
MCFlags     == [tables : {<<>>, <<{1, 2, 4}>>, <<{1, 5}>>}, domains : {<<>>, <<{1, 2}, {2, 3}>>},
                key : BOOLEAN, hide : BOOLEAN]
MCEarlier   == {<<>>, <<"earlier", "earlier", "earlier", "earlier", "earlier">>}
MCFittings  == {{s \in SUBSET (1..4) : Cardinality(s) <= most} : most \in 1..3}
               \cup {{{1}, {3}, {4}, {1, 2, 3}, {3, 4}}, {{1}, {2}, {1, 3}, {1, 4}, {1, 2, 4}, {2, 3, 4}}}

\* What another command would be asked for makes no difference.
SomeErd == <<CHOOSE f \in MCFlags : f.tables = <<>>, CHOOSE f \in MCFittings : \A s \in f : Cardinality(s) < 2, <<>>>>
SomeSource == Drawn([tables |-> <<>>, foreignKeys |-> <<>>])
SumInit == /\ command \in {"page", "erd", "source"}
           /\ IF command = "page" THEN TRUE ELSE site = "dev"
           /\ IF command = "erd" THEN TRUE ELSE flags = SomeErd[1] /\ fitting = SomeErd[2] /\ out = SomeErd[3]
           /\ IF command = "source" THEN SourcesInit ELSE source = SomeSource /\ read = NotRead
           /\ FiguraInit /\ ErdInit
SumNext == \/ command = "page" /\ FiguraNext /\ UNCHANGED <<command, erdVars, sourceVars>>
           \/ command = "erd" /\ ErdNext /\ UNCHANGED <<command, figuraVars, sourceVars>>
           \/ command = "source" /\ SourcesNext /\ UNCHANGED <<command, figuraVars, erdVars>>
SumSpec == SumInit /\ [][SumNext]_sumVars
PageSpec == SumInit /\ command = "page" /\ [][SumNext]_sumVars /\ FiguraFairness
=============================================================================
