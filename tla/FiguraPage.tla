----------------------------- MODULE FiguraPage -----------------------------
(* What figura computes of a document: the diagrams it finds, the scale each   *)
(* prints at, the layout problems, the page with the diagrams in place, and    *)
(* the groups that keep a heading with the block after it.  A document is a    *)
(* sequence of tokens: <<"open", tag>>, <<"close", tag>>, <<"text">>,          *)
(* <<"d2", source>> and <<"svg", source, scale>>.  A position is the index of  *)
(* a token; the code's -1, at which a string is searched from its start, is 0. *)
(* The content of a table is <<"cells", width>>, an image <<"image", height>>, *)
(* the print styles <<"style", theme>>, inline code <<"code", runs>>: the kind *)
(* and the length of each run of its characters.                               *)
EXTENDS FiguraTheme, FiniteSets, SequencesExt, FiniteSetsExt

CONSTANT Diagram \* what each D2 source is to d2, and as measured
ASSUME DiagramsAreMeasured == \A source \in DOMAIN Diagram : LET m == Diagram[source] IN
                                m.width \in Nat /\ m.height \in Nat /\ \A l \in m.labels : l.font \in Nat /\ \A i \in 1..4 : l.box[i] \in Int

Headings == {"h1", "h2", "h3"}
KeptBlockTags == {"figure", "table", "p", "pre", "ul", "ol", "div", "blockquote"}

\* The tags open at i of those that open from start on.
Depth(html, start, tag, i) == Cardinality({j \in start..i : html[j] = <<"open", tag>>})
                              - Cardinality({j \in start..i : html[j] = <<"close", tag>>})

\* Mutant: the first closing tag ends the element.
FirstClosingEnds(html, start, tag) == LET ends == {i \in start..Len(html) : html[i] = <<"close", tag>>}
                                      IN IF ends = {} THEN 0 ELSE Min(ends) + 1

ElementEnd(html, start, tag) ==
    LET ends == {i \in start..Len(html) : html[i] = <<"close", tag>> /\ Depth(html, start, tag, i) = 0}
    IN IF ends = {} THEN 0 ELSE Min(ends) + 1

TagNameAt(html, i) == IF i \in 1..Len(html) /\ html[i][1] = "open" THEN html[i][2] ELSE "none"

NextElementStart(end) == IF end = 0 THEN 1 ELSE end

\* What a group that reaches to end, past its headings, does with the block there.
HeadingGroup(html, end) == LET tag == TagNameAt(html, NextElementStart(end))
                           IN [keeps |-> tag \in KeptBlockTags,
                               blockEnd |-> IF tag = "none" THEN 0 ELSE ElementEnd(html, NextElementStart(end), tag)]

-----------------------------------------------------------------------------
\* The k-th of a set of positions, and a sequence of only those positions.
Nth(positions, k)      == CHOOSE i \in positions : Cardinality({j \in positions : j <= i}) = k
Picked(seq, positions) == [k \in 1..Cardinality(positions) |-> seq[Nth(positions, k)]]

\* Each <pre class="d2"> up to its first </pre>; a <pre> before it has ended.
ExtractDiagrams(html) ==
    LET end(i) == {j \in i..Len(html) : html[j] = <<"close", "pre">>}
        pres   == {i \in 1..(Len(html) - 1) : html[i] = <<"open", "pre">>}
        starts == {i \in pres : html[i + 1][1] = "d2" /\ end(i) # {} /\ \A j \in pres : j < i => \E c \in end(j) : c < i}
    IN [k \in 1..Cardinality(starts) |->
          LET i == Nth(starts, k) IN [ordinal |-> k, source |-> html[i + 1][2], span |-> <<i, Min(end(i))>>]]

UnknownLayout(diagrams) == \E k \in DOMAIN diagrams : Diagram[diagrams[k].source].layout \notin {"elk", "dagre"}

\* A scale is a fraction: min(1, column / width).
DiagramScale(d) == LET width == Diagram[d.source].width
                   IN IF width <= ColumnWidth THEN <<1, 1>> ELSE <<ColumnWidth, width>>

\* All ERD diagrams print at the smallest scale one of them needs.
PrintScales(diagrams) ==
    LET erds       == {k \in DOMAIN diagrams : Diagram[diagrams[k].source].kind = "erd"}
        Less(s, t) == s[1] * t[2] < t[1] * s[2]
        shared     == CHOOSE k \in erds : \A j \in erds : ~Less(DiagramScale(diagrams[j]), DiagramScale(diagrams[k]))
    IN [k \in DOMAIN diagrams |-> DiagramScale(diagrams[IF k \in erds THEN shared ELSE k])]

ProblemIf(code, found) == IF found THEN {code} ELSE {}

DiagramSizeProblems(m, scale) ==
    ProblemIf("DIAGRAM-TOO-WIDE", \E l \in m.labels : l.font * scale[1] < MinimumLabel * scale[2])
    \cup ProblemIf("DIAGRAM-TOO-TALL", m.height * scale[1] > DiagramHeight * scale[2])

\* Boxes <<x, y, width, height>> on whole pixels; half a pixel in common is only touching.
Overlapping(a, b) == \A i \in 1..2 : /\ 2 * a[i] < 2 * (b[i] + b[i + 2]) - 1
                                     /\ 2 * b[i] < 2 * (a[i] + a[i + 2]) - 1
Encloses(outer, inner) == \A i \in 1..2 : inner[i] >= outer[i] /\ inner[i] + inner[i + 2] <= outer[i] + outer[i + 2]

\* An object has a scope and a name; a shape has a box, a connection a path.
IsAncestor(candidate, object) == IsPrefix(Append(candidate.scope, candidate.name), object.scope)
IsFrameOf(shape, object) == object.path # <<>> /\ Encloses(shape.box, object.path)

CrossesShape(label, other) == /\ other # label.owner /\ other.box # <<>>
                              /\ ~IsAncestor(other, label.owner) /\ ~IsFrameOf(other, label.owner)
                              /\ Overlapping(label.box, other.box)
CrossesLabel(label, other) == other.owner # label.owner /\ Overlapping(label.box, other.box)
SpillsOut(label) == /\ label.owner.box # <<>>
                    /\ Overlapping(label.box, label.owner.box) /\ ~Encloses(label.owner.box, label.box)

GeometryProblems(m) ==
    ProblemIf("LABEL-OVERLAP", \E l \in m.labels : (\E o \in m.objects : CrossesShape(l, o)) \/ (\E k \in m.labels : CrossesLabel(l, k)))
    \cup ProblemIf("TEXT-OVERFLOW", \E l \in m.labels : SpillsOut(l))

\* The problems <<ordinal, code>> of the diagrams that d2 rendered.
LayoutProblems(rendered) ==
    UNION {{<<rendered[k].ordinal, code>> : code \in
              LET m == Diagram[rendered[k].source] IN DiagramSizeProblems(m, PrintScales(rendered)[k]) \cup GeometryProblems(m)}
           : k \in DOMAIN rendered}

\* Mutant: the layout that is set is offered.
OtherLayoutSwapped(layout) == layout

OtherLayout(layout) == IF layout = "elk" THEN "dagre" ELSE "elk"

\* The changes a remedy offers; narrower marks the diagram that set the shared scale.
DirectionOffer(m, direction) == IF m.direction = direction THEN {} ELSE {direction}
LayoutOffer(m)               == IF m.kind = "graph" THEN {OtherLayout(m.layout)} ELSE {}

TooWideRemedy(m, isOwnScale) ==
    IF ~isOwnScale THEN {"narrower"}
    ELSE IF m.kind = "sequence" THEN {"shorten", "split"}
    ELSE IF m.kind = "erd" /\ m.layout = "elk" THEN {"dagre", "split"}
    ELSE DirectionOffer(m, "down") \cup LayoutOffer(m) \cup {"split"}
TooTallRemedy(m) == IF m.kind = "sequence" THEN {"split"}
                    ELSE DirectionOffer(m, "right") \cup LayoutOffer(m) \cup {"split"}
LabelOverlapRemedy(m, intoContainer) ==
    {"shorten"} \cup (IF intoContainer \/ m.kind = "sequence" THEN {} ELSE {OtherLayout(m.layout)})

\* Whether the diagram set its own scale, or the label's edge leads into the container it crosses.
LayoutRemedy(code, m, cause) == CASE code = "DIAGRAM-TOO-WIDE" -> TooWideRemedy(m, cause)
                                  [] code = "DIAGRAM-TOO-TALL" -> TooTallRemedy(m)
                                  [] code = "LABEL-OVERLAP"    -> LabelOverlapRemedy(m, cause)
                                  [] code = "TEXT-OVERFLOW"    -> {"shorten"}

-----------------------------------------------------------------------------
\* A diagram takes the place of its source, and the rest of its span is gone.
InlineDiagrams(html, diagrams) ==
    LET place(k) == diagrams[k].span[1] + 1
        gone     == UNION {(diagrams[k].span[1]..diagrams[k].span[2]) \ {place(k)} : k \in DOMAIN diagrams}
        drawn    == [i \in DOMAIN html |->
                       IF \E k \in DOMAIN diagrams : place(k) = i
                       THEN LET k == CHOOSE n \in DOMAIN diagrams : place(n) = i
                            IN <<"svg", diagrams[k].source, PrintScales(diagrams)[k]>>
                       ELSE html[i]]
    IN Picked(drawn, DOMAIN html \ gone)

-----------------------------------------------------------------------------
\* Of the runs of inline code a tag is not seen, and a character reference is one character.
VisibleLength(runs) == LET Seen(run) == CASE run[1] = "markup" -> 0 [] run[1] = "reference" -> 1 [] OTHER -> run[2]
                       IN MapThenSumSet(LAMBDA i : Seen(runs[i]), DOMAIN runs)

\* A line may end after each run of separators that is neither first nor last of what is seen: it gets a mark.
WithBreakOpportunities(runs) ==
    [i \in DOMAIN runs |->
      IF /\ runs[i][1] = "separator" /\ VisibleLength(SubSeq(runs, 1, i - 1)) > 0
         /\ VisibleLength(SubSeq(runs, 1, i)) < VisibleLength(runs)
      THEN Append(runs[i], "break") ELSE runs[i]]

\* The tokens of <pre> blocks, up to the first that is not closed.
Untouched(html) ==
    LET from[i \in 1..(Len(html) + 1)] ==
          IF i > Len(html) THEN {}
          ELSE IF html[i] # <<"open", "pre">> THEN from[i + 1]
          ELSE LET end == ElementEnd(html, i, "pre") IN IF end = 0 THEN {} ELSE (i..(end - 1)) \cup from[end]
    IN from[1]

WithCodeBreakOpportunities(html) ==
    [i \in DOMAIN html |-> IF html[i][1] = "code" /\ i \notin Untouched(html)
                           THEN <<"code", WithBreakOpportunities(html[i][2])>> ELSE html[i]]

\* The styles of a theme go in before the first </head>.
WithPrintStyles(html, of) == LET head == Min({i \in DOMAIN html : html[i] = <<"close", "head">>})
                              IN InsertAt(html, head, <<"style", of>>)

-----------------------------------------------------------------------------
\* What the browser measures of the page, laid out by its custom properties, on whole points.
Css(page)           == LET style == CHOOSE i \in DOMAIN page : page[i][1] = "style" IN ThemeCss(Theme[page[style][2]])
PrintedColumn(css)  == PageGeometry(css).columnWidth
PrintedHeight(css)  == PageGeometry(css).columnHeight
LineHeight(css, of) == css[<<"typography", of, "lineHeightPoints">>][2]
Ceiling(n, scale)   == (n * scale[1] + scale[2] - 1) \div scale[2]
TokenHeight(css, token) == CASE token[1] = "svg" -> Ceiling(Diagram[token[2]].height, token[3])
                             [] token[1] = "image" -> token[2]
                             [] token[1] = "open" /\ token[2] \in Headings -> LineHeight(css, token[2])
                             [] OTHER -> 0

\* A table that is wider than the column.
TableOverflows(page) == {i \in 2..Len(page) : /\ page[i - 1] = <<"open", "table">> /\ page[i][1] = "cells"
                                              /\ page[i][2] > PrintedColumn(Css(page))}

\* A group that ends with a figure and is taller than a page.
HeadingsApart(page, kept) ==
    {k \in DOMAIN kept : LET last == kept[k][2] - 1 IN
       /\ page[last] = <<"close", "figure">>
       /\ MapThenSumSet(LAMBDA i : TokenHeight(Css(page), page[i]), kept[k][1]..last) > PrintedHeight(Css(page))}

PrintedLayoutProblems(page, kept) ==
    ProblemIf("TABLE-TOO-WIDE", TableOverflows(page) # {}) \cup ProblemIf("HEADING-APART", HeadingsApart(page, kept) # {})
=============================================================================
