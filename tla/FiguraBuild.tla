---------------------------- MODULE FiguraBuild -----------------------------
(* figura check and figura build, one command after the other on one document, *)
(* with the files they leave beside it.  d2 comes from the launcher's cache,   *)
(* which commands of other projects fill and use at the same time.  The author *)
(* may change the document at any time: a command reads it once.               *)
EXTENDS FiguraLauncher, FiguraPreflight, FiguraPage

CONSTANTS Contents, \* what the document may hold when it is read
          Pages,    \* page previews of a printed PDF
          MaxKept,  \* groups after which the page is too long for a string
          MaxCommands

ASSUME DocumentsAreFinite == \A content \in Contents : Len(content) \in Nat /\ DOMAIN content = 1..Len(content)
\* The source of a diagram fills its <pre>; pictures and print styles are figura's own.
ASSUME DocumentsAreWritten ==
    \A content \in Contents : \A i \in DOMAIN content :
      /\ content[i][1] \notin {"svg", "style"}
      /\ content[i][1] = "d2" => content[i][2] \in DOMAIN Diagram /\ i > 1 /\ content[i - 1] = <<"open", "pre">> /\ (i < Len(content) => content[i + 1] = <<"close", "pre">>)
      /\ content[i][1] = "code" => content[i] = <<"code", content[i][2]>>
                                 /\ \A k \in DOMAIN content[i][2] : content[i][2][k] = <<content[i][2][k][1], content[i][2][k][2]>>
\* TOP_LEVEL_DIRECTION and DEFAULT_DIRECTION.
ASSUME DiagramsAreDirected == \A content \in Contents : \A diagram \in Range(ExtractDiagrams(content)) :
                                Diagram[diagram.source].direction \in {"down", "right", "up", "left"}
ASSUME AbsentIsNoStatus == Absent \notin {"0", "1", "uncaught"}

VARIABLES verb, stage, child, html, index, rendered, problems, page, groupEnd, kept, files, status, commands
buildVars  == <<theme, verb, stage, child, html, index, rendered, problems, page, groupEnd, kept, files, status, commands>>
figuraVars == <<launcherVars, buildVars>>

NoFiles == [pdf |-> Absent, previews |-> 0, failed |-> {}, work |-> FALSE]

BuildInit == /\ verb = "build" /\ stage = "over" /\ child = Absent /\ status = Absent /\ commands = 0
             /\ theme = NoTheme /\ html = <<>> /\ index = 0 /\ rendered = <<>> /\ problems = {} /\ page = <<>>
             /\ groupEnd = 0 /\ kept = <<>> /\ files = NoFiles

Goes(from, to) == stage = from /\ stage' = to
\* Once the work directory exists every way out passes through its removal.
Exits(code)    == stage' = (IF files.work THEN "finally" ELSE "over") /\ status' = code
Data           == <<theme, html, index, rendered, problems, page, groupEnd, kept>>
Forgotten      == index' = 0 /\ rendered' = <<>> /\ problems' = {} /\ groupEnd' = 0 /\ kept' = <<>>
Alone          == UNCHANGED <<launcherVars, child, verb, commands>>

\* The preview directory, all of it or the pictures of failed diagrams in it.
ClearPreviews(left)              == [left EXCEPT !.previews = 0, !.failed = {}]
ClearFailedDiagramPreviews(left) == [left EXCEPT !.failed = {}]

\* A build removes the PDF and every preview first.
Command(k) == /\ stage = "over" /\ commands < MaxCommands /\ commands' = commands + 1
              /\ stage' = "preflight" /\ verb' = k /\ status' = Absent
              /\ files' = LET left == [files EXCEPT !.work = FALSE]
                          IN IF k = "build" THEN [ClearPreviews(left) EXCEPT !.pdf = Absent] ELSE left
              /\ theme' = NoTheme /\ html' = <<>> /\ page' = <<>>
              /\ UNCHANGED <<launcherVars, child, index, rendered, problems, groupEnd, kept>>

\* spawnSync of the launcher, under any free pid.
Spawn(from, to, isWarm) == \E p \in Pids : /\ Goes(from, to) /\ Launch(p, isWarm) /\ child' = p
                                           /\ UNCHANGED <<verb, Data, files, status, commands>>

Returned(p) == state[p] \in Over \cup {"dev", "running"}
Reaped(p)   == state' = [state EXCEPT ![p] = "idle"] /\ warm' = warm \ {p} /\ UNCHANGED <<site, unpack, cached>>

\* A failed preflight of a check leaves the pictures of an earlier one.
Preflight == /\ stage = "preflighting" /\ Returned(child) /\ Reaped(child) /\ child' = Absent
             /\ \E machine \in Machines :
                  IF PreflightProblems(verb, machine, state[child]) = {}
                  THEN /\ stage' = "read" /\ UNCHANGED status
                       /\ files' = [ClearFailedDiagramPreviews(files) EXCEPT !.work = TRUE]
                  ELSE Exits("1") /\ UNCHANGED files
             /\ UNCHANGED <<verb, Data, commands>>

\* Mutant: only the finally remains.
FailKeepsPdf(left) == Exits("1") /\ UNCHANGED Data /\ files' = left

\* catch: a FiguraError ends the command with its report, and a build without its PDF.
Fail(left) == /\ Exits("1") /\ UNCHANGED Data
              /\ files' = IF verb = "build" THEN [left EXCEPT !.pdf = Absent] ELSE left

\* loadTheme throws an Error; a diagram with a layout that figura does not know is a FiguraError.
Read == /\ stage = "read" /\ Alone
        /\ \E loaded \in DOMAIN Theme :
             IF ValidateTheme(Theme[loaded]) # {} THEN Exits("uncaught") /\ UNCHANGED <<Data, files>>
             ELSE \E content \in Contents :
                    IF UnknownLayout(ExtractDiagrams(content)) THEN Fail(files)
                    ELSE /\ Goes("read", "render") /\ theme' = loaded /\ html' = content /\ index' = 1
                         /\ UNCHANGED <<rendered, problems, page, groupEnd, kept, files, status>>

Diagrams == ExtractDiagrams(html)

\* A launcher or a d2 that fails is a problem of the diagram, and the next one is rendered.
RenderDiagram == /\ stage = "rendering" /\ Returned(child) /\ Reaped(child) /\ child' = Absent
                 /\ stage' = "render" /\ index' = index + 1
                 /\ IF /\ state[child] \in {"dev", "running"} /\ Diagram[Diagrams[index].source].renders
                       /\ Range(D2ThemeArguments(Theme[theme])) \subseteq BundleFiles
                    THEN rendered' = Append(rendered, Diagrams[index]) /\ UNCHANGED problems
                    ELSE problems' = problems \cup {<<index, "D2-FAILED">>} /\ UNCHANGED rendered
                 /\ UNCHANGED <<verb, theme, html, page, groupEnd, kept, files, status, commands>>

\* What checkDocument found ends the command or lets a build go on.
Checked(found) == /\ problems' = found /\ UNCHANGED <<theme, html, index, rendered, page, groupEnd, kept, files>>
                  /\ IF found # {} THEN stage' = "draw" /\ UNCHANGED status
                     ELSE IF verb = "check" THEN Exits("0")
                     ELSE stage' = "inline" /\ UNCHANGED status

\* Mutant: a document without a rendered diagram has no problems.
MeasureNothing == /\ stage = "render" /\ index > Len(Diagrams) /\ Alone
                  /\ IF rendered = <<>> THEN Checked({})
                     ELSE Checked(problems \cup LayoutProblems(rendered)) \/ Fail(files)

\* The browser job measures what was rendered, or fails.
Measure == /\ stage = "render" /\ index > Len(Diagrams) /\ Alone
           /\ IF rendered = <<>> THEN Checked(problems)
              ELSE Checked(problems \cup LayoutProblems(rendered)) \/ Fail(files)

WithLayoutProblem == {problem[1] : problem \in {x \in problems : x[2] # "D2-FAILED"}}

\* A second job draws the failed diagrams one by one and may fail after any; the report comes after it.
DrawFailed == /\ stage = "draw" /\ Alone /\ UNCHANGED Data /\ Exits("1")
              /\ \E last \in WithLayoutProblem \cup {0} :
                   files' = [files EXCEPT !.failed = @ \cup {k \in WithLayoutProblem : k <= last}]

\* printableDocument: the diagrams go in at their print scale; the page needs a head.
Inline == /\ stage = "inline" /\ Alone
          /\ IF <<"close", "head">> \notin Range(html) THEN Fail(files)
             ELSE /\ Goes("inline", "search") /\ index' = 1
                  /\ page' = WithPrintStyles(WithCodeBreakOpportunities(InlineDiagrams(html, rendered)), theme)
                  /\ UNCHANGED <<theme, html, rendered, problems, groupEnd, kept, files, status>>

\* HEADING_OPENING.exec, from index on.
FindHeading == LET found == {i \in index..Len(page) : i > 0 /\ TagNameAt(page, i) \in Headings} IN
               /\ stage = "search" /\ Alone /\ UNCHANGED <<theme, html, rendered, problems, page, kept, files, status>>
               /\ IF found = {} THEN stage' = "print" /\ UNCHANGED <<index, groupEnd>>
                  ELSE /\ stage' = "group" /\ index' = Min(found)
                       /\ groupEnd' = ElementEnd(page, Min(found), page[Min(found)][2])

HeadingFollows == TagNameAt(page, NextElementStart(groupEnd)) \in Headings

\* A heading that follows at once joins the group.
ExtendGroup == /\ stage = "group" /\ HeadingFollows /\ Alone
               /\ groupEnd' = ElementEnd(page, NextElementStart(groupEnd), TagNameAt(page, NextElementStart(groupEnd)))
               /\ UNCHANGED <<stage, theme, html, index, rendered, problems, page, kept, files, status>>

\* The group takes the block; without end tags the search starts over.
KeepHeading == LET group == HeadingGroup(page, groupEnd) IN
               /\ stage = "group" /\ ~HeadingFollows /\ Alone
               /\ UNCHANGED <<theme, html, rendered, problems, page, groupEnd, files>>
               /\ IF ~group.keeps THEN stage' = "search" /\ index' = groupEnd /\ UNCHANGED <<kept, status>>
                  ELSE IF Len(kept) < MaxKept
                  THEN stage' = "search" /\ index' = group.blockEnd /\ kept' = Append(kept, <<index, group.blockEnd>>) /\ UNCHANGED status
                  ELSE Exits("uncaught") /\ UNCHANGED <<index, kept>>

\* The third job, which may fail: tables or headings that do not fit end the build before it prints.
PrintPdf == /\ stage = "print" /\ Alone /\ UNCHANGED Data
            /\ \/ Fail(files)
               \/ /\ PrintedLayoutProblems(page, kept) # {}
                  /\ Exits("1") /\ UNCHANGED files
               \/ /\ PrintedLayoutProblems(page, kept) = {} /\ Goes("print", "rasterize")
                  /\ files' = [files EXCEPT !.pdf = page] /\ UNCHANGED status

\* The previews are removed and drawn again; pdftoppm may stop after any page.
RasterizePages == /\ stage = "rasterize" /\ Alone
                  /\ \/ Exits("0") /\ UNCHANGED Data /\ files' = [files EXCEPT !.previews = Pages, !.failed = {}]
                     \/ \E drawn \in 0..Pages : Fail([files EXCEPT !.previews = drawn, !.failed = {}])

Finally == /\ Goes("finally", "over") /\ Alone /\ files' = [files EXCEPT !.work = FALSE]
           /\ Forgotten /\ UNCHANGED <<theme, html, page, status>>

\* An error that is not a FiguraError: a full disk, a directory that cannot be written.
Throw == /\ stage \in {"read", "render", "draw", "inline", "print", "rasterize"} /\ Alone
         /\ Exits("uncaught") /\ UNCHANGED Data
         /\ files' \in CASE stage = "print"     -> {[files EXCEPT !.pdf = pdf] : pdf \in {Absent, <<>>, page}}
                        [] stage = "rasterize" -> {[files EXCEPT !.previews = drawn, !.failed = {}] : drawn \in 0..Pages}
                        [] OTHER              -> {files}

\* A signal: nothing is removed, and a launcher it was waiting for goes on alone.
KillCommand == /\ stage # "over" /\ stage' = "over" /\ status' = "killed" /\ child' = Absent
               /\ Forgotten /\ theme' = NoTheme /\ html' = <<>> /\ page' = <<>>
               /\ UNCHANGED <<launcherVars, verb, files, commands>>

-----------------------------------------------------------------------------
\* Launchers of other commands: their preflights.
LaunchOther(p) == Launch(p, TRUE) /\ UNCHANGED buildVars
ReapOther(p)   == p # child /\ Returned(p) /\ Reaped(p) /\ UNCHANGED buildVars
Launcher(p)    == (LauncherNext(p) /\ UNCHANGED buildVars) \/ ReapOther(p)

CommandStep == \/ Spawn("preflight", "preflighting", TRUE) \/ Preflight \/ Read
               \/ index <= Len(Diagrams) /\ Spawn("render", "rendering", FALSE)
               \/ RenderDiagram \/ Measure \/ DrawFailed \/ Inline \/ FindHeading \/ ExtendGroup \/ KeepHeading
               \/ PrintPdf \/ RasterizePages \/ Finally
BuildNext == \/ \E k \in {"check", "build"} : Command(k)
             \/ CommandStep \/ Throw \/ KillCommand
FiguraInit == LauncherInit /\ BuildInit
FiguraNext == BuildNext \/ \E p \in Pids : LaunchOther(p) \/ Launcher(p)
FiguraSpec == FiguraInit /\ [][FiguraNext]_figuraVars

\* Node runs on, and the launcher it waits for ends.  (Strongly fair: other
\* commands may take the few pids of an instance, which a system has enough of.)
FiguraFairness == SF_figuraVars(CommandStep) /\ \A p \in Pids : WF_figuraVars(Launcher(p))

-----------------------------------------------------------------------------
(* "A failed build leaves no PDF", and what an exit status says of the files:  *)
(* 0 for a build means the PDF of the page it put together and every preview,  *)
(* 0 for a check that no picture of a failed diagram is left; after a report   *)
(* the pictures are those of diagrams that failed in what this command read.   *)
OutcomeMatchesFiles ==
    stage = "over" =>
      /\ status \in {"0", "1", "uncaught"} => ~files.work
      /\ status = "0" => files.failed = {} /\ (verb = "build" => files.pdf = page /\ files.previews = Pages)
      /\ status = "1" /\ verb = "build" => files.pdf = Absent
      /\ status = "1" /\ html # <<>> => \A k \in files.failed : Diagram[Diagrams[k].source].renders

(* The diagrams of a PDF stand where the document has them, and as printed     *)
(* every one is inside the column and, with its caption, the page that the     *)
(* PDF's own styles lay out, its labels no smaller than the theme's floor, all *)
(* its ERD diagrams at one scale, and no two labels share a pixel.             *)
Bare(token)      == CASE token[1] \in {"d2", "svg"} -> <<"diagram", token[2]>>
                      [] token[1] = "code"         -> <<"code", [i \in DOMAIN token[2] |-> <<token[2][i][1], token[2][i][2]>>]>>
                      [] OTHER                     -> token
Standing(tokens) == {i \in DOMAIN tokens : tokens[i][1] # "style" /\ tokens[i] \notin {<<"open", "pre">>, <<"close", "pre">>}}
Skeleton(tokens) == Picked([i \in DOMAIN tokens |-> Bare(tokens[i])], Standing(tokens))
Pixels(box) == (box[1]..(box[1] + box[3] - 1)) \X (box[2]..(box[2] + box[4] - 1))
PrintedDiagramsFit ==
    stage = "over" /\ verb = "build" /\ status = "0" =>
      LET svgs    == {t \in Range(files.pdf) : t[1] = "svg"}
          css     == Css(files.pdf)
          caption == css[<<"diagram", "captionGapPoints">>][2] + 2 * LineHeight(css, "caption") IN
      /\ Skeleton(files.pdf) = Skeleton(html) /\ Cardinality({i \in DOMAIN files.pdf : files.pdf[i][1] = "svg"}) = Len(Diagrams)
      /\ \A t \in svgs : LET m == Diagram[t[2]] IN
           /\ m.width * t[3][1] <= PrintedColumn(css) * t[3][2]
           /\ m.height * t[3][1] + caption * t[3][2] <= PrintedHeight(css) * t[3][2]
           /\ \A l \in m.labels : l.font * t[3][1] >= MinimumLabel * t[3][2]
           /\ \A k, l \in m.labels : k.owner # l.owner => Pixels(k.box) \cap Pixels(l.box) = {}
      /\ \A t, u \in svgs : Diagram[t[2]].kind = "erd" /\ Diagram[u[2]].kind = "erd" => t[3] = u[3]

(* "Keeps every heading on the page of the block that follows it": when the    *)
(* page goes to the printer a heading that ends where a kept block begins is   *)
(* in one group with it, and a group holds whole elements, none of them twice. *)
HeadingsKeepTheirBlock ==
    stage = "print" =>
      /\ \A i \in 1..(Len(page) - 1) :
           page[i][1] = "close" /\ page[i][2] \in Headings /\ TagNameAt(page, i + 1) \in KeptBlockTags =>
             \E k \in DOMAIN kept : kept[k][1] < i /\ i + 1 < kept[k][2]
      /\ \A k \in DOMAIN kept : LET inside == kept[k][1]..(kept[k][2] - 1) IN
           /\ \A t \in {page[i][2] : i \in {j \in inside : page[j][1] \in {"open", "close"}}} :
                Cardinality({i \in inside : page[i] = <<"open", t>>}) = Cardinality({i \in inside : page[i] = <<"close", t>>})
           /\ k > 1 => kept[k - 1][2] <= kept[k][1]

(* "Each remedy follows the diagram's layout, kind and direction, and never     *)
(* offers what is already set": every problem a check reports has a way out.   *)
RemediesAreNew ==
    stage = "draw" =>
      \A problem \in problems : problem[2] # "D2-FAILED" =>
        \A cause \in BOOLEAN : LET m == Diagram[Diagrams[problem[1]].source]
                               offers == LayoutRemedy(problem[2], m, cause)
                           IN offers # {} /\ {m.layout, m.direction} \cap offers = {}

(* What preflight found is still there when it is used: no launcher that a     *)
(* command starts for a diagram downloads d2, or fails to provide it.          *)
PreflightSuffices == stage = "rendering" => state[child] \notin (Working \ {"resolve", "test", "ready"}) \cup {"failed"}

(* "It prints one success line, or `figura: <document> FAILED:`": a command    *)
(* that starts comes to an end.                                                *)
CommandEnds == stage = "preflight" ~> stage = "over"
=============================================================================
