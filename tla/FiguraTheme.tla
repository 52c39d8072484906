---------------------------- MODULE FiguraTheme -----------------------------
(* theme/theme.json as figura reads it: when it is valid, the limits that      *)
(* diagrams are checked against, and the custom properties that the page is    *)
(* printed with.  A theme is a function from the paths of theme.json to        *)
(* values: <<"color", c>>, <<"family", name>>, <<"number", n>> in points,      *)
(* <<"faces", list>>, or <<"other">>; a path that is missing is not in its     *)
(* domain.  A face has a file, a weight and a style.                           *)
EXTENDS Integers, Sequences, Functions

CONSTANTS Theme,      \* each content that theme.json may have, parsed
          BundleFiles \* the files of the bundle
ASSUME ThemesAreInWholePoints == \A t \in DOMAIN Theme : \A path \in DOMAIN Theme[t] :
                                   Theme[t][path][1] = "number" => Theme[t][path][2] \in Int

VARIABLE theme        \* the one that the command has loaded
NoTheme == "none"

RoleNames         == {"source", "core", "tool", "app", "observability", "neutral", "note"}
TypographyEntries == {"text", "table", "code", "h1", "h2", "h3", "footer", "caption"}
D2FontSlots == [regular  |-> [weight |-> 400, style |-> "normal"],
                italic   |-> [weight |-> 400, style |-> "italic"],
                semibold |-> [weight |-> 600, style |-> "normal"],
                bold     |-> [weight |-> 700, style |-> "normal"]]

Margin(side) == <<"page", "marginPoints", side>>
Margins      == {Margin(side) : side \in {"top", "right", "bottom", "left"}}
PageSize     == {"page"} \X {"widthPoints", "heightPoints"}
RolePaths    == {"roles"} \X RoleNames \X {"fill", "stroke", "text"}
ColorPaths   == {"text"} \X {"primary", "muted", "accent"}
                \cup {"callouts"} \X {"warning", "note", "decision"} \X {"line", "label"}
                \cup {"table"} \X {"headerFill", "rule"} \cup {<<"diagram", "failureHighlight">>}
PositivePaths    == {<<"table", "ruleWidthPoints">>, <<"diagram", "minimumLabelPoints">>}
                    \cup {"typography"} \X TypographyEntries \X {"sizePoints", "lineHeightPoints"}
NonNegativePaths == {"table"} \X {"cellPaddingBlockPoints", "cellPaddingInlinePoints"}
                    \cup {"spacing"} \X {"paragraphPoints", "blockPoints", "headingBeforePoints", "headingAfterPoints"}
                    \cup {"diagram"} \X {"captionGapPoints", "padPixels"}

ValueAt(t, path)   == IF path \in DOMAIN t THEN t[path] ELSE <<"other">>
Amount(t, path) == t[path][2]

RequireColor(t, path) == IF ValueAt(t, path)[1] = "color" THEN {} ELSE {path}
RequirePoints(t, path, allowZero) ==
    IF ValueAt(t, path)[1] = "number" /\ (Amount(t, path) > 0 \/ (allowZero /\ Amount(t, path) = 0)) THEN {} ELSE {path}

PageGeometry(t) == [columnWidth  |-> Amount(t, <<"page", "widthPoints">>) - Amount(t, Margin("left")) - Amount(t, Margin("right")),
                    columnHeight |-> Amount(t, <<"page", "heightPoints">>) - Amount(t, Margin("top")) - Amount(t, Margin("bottom"))]

\* The sizes first: margins are subtracted only of a page that has numbers.
ValidatePage(t) ==
    LET wrong == UNION {RequirePoints(t, path, path \in Margins) : path \in PageSize \cup Margins}
    IN IF wrong = {} /\ (PageGeometry(t).columnWidth <= 0 \/ PageGeometry(t).columnHeight <= 0)
       THEN {<<"page", "marginPoints">>} ELSE wrong

\* A role that is missing is one problem, and so is each that figura does not know.
ValidateRoles(t) ==
    LET named == {path[2] : path \in {p \in DOMAIN t : p[1] = "roles"}}
    IN {<<"roles", role>> : role \in (RoleNames \ named) \cup (named \ RoleNames)}
       \cup UNION {RequireColor(t, path) : path \in {p \in RolePaths : p[2] \in named}}

Faces(t, role) == LET faces == ValueAt(t, <<"fonts", role, "faces">>) IN IF faces[1] = "faces" THEN faces[2] ELSE <<>>
FillsSlot(face, slot) == face.weight = D2FontSlots[slot].weight /\ face.style = D2FontSlots[slot].style
FaceProblems(face) == {part \in {"file", "weight", "style"} :
                         CASE part = "file"   -> face.file \notin BundleFiles
                           [] part = "weight" -> face.weight \notin 100..900
                           [] part = "style"  -> face.style \notin {"normal", "italic"}}
ValidateFonts(t) ==
    UNION {LET faces == Faces(t, role) IN
           (IF ValueAt(t, <<"fonts", role, "family">>)[1] = "family" THEN {} ELSE {<<"fonts", role, "family">>})
           \cup (IF faces = <<>> THEN {<<"fonts", role, "faces">>} ELSE (UNION {FaceProblems(face) : face \in Range(faces)}) \X {role})
           \cup {<<"fonts", role, slot>> : slot \in {s \in DOMAIN D2FontSlots :
                   role = "text" /\ faces # <<>> /\ \A face \in Range(faces) : ~FillsSlot(face, s)}}
           : role \in {"text", "code"}}

\* Every problem is found before the theme is turned down.
ValidateTheme(t) == ValidatePage(t) \cup ValidateRoles(t) \cup ValidateFonts(t)
                    \cup (UNION {RequireColor(t, path) : path \in ColorPaths})
                    \cup (UNION {RequirePoints(t, path, FALSE) : path \in PositivePaths})
                    \cup (UNION {RequirePoints(t, path, TRUE) : path \in NonNegativePaths})

-----------------------------------------------------------------------------
\* The font file d2 is given for each of its slots: the first face that fills it.
D2ThemeArguments(t) ==
    [slot \in DOMAIN D2FontSlots |->
       LET faces == Faces(t, "text") IN
       faces[CHOOSE i \in DOMAIN faces : FillsSlot(faces[i], slot) /\ \A j \in 1..(i - 1) : ~FillsSlot(faces[j], slot)].file]

\* A caption may take two lines.
CaptionReserve(t) == Amount(t, <<"diagram", "captionGapPoints">>) + 2 * Amount(t, <<"typography", "caption", "lineHeightPoints">>)

\* layoutLimits of the loaded theme, in the unit of the measurements.
ColumnWidth   == PageGeometry(Theme[theme]).columnWidth
DiagramHeight == PageGeometry(Theme[theme]).columnHeight - CaptionReserve(Theme[theme])
MinimumLabel  == Amount(Theme[theme], <<"diagram", "minimumLabelPoints">>)

\* The custom properties of the page, named by the path of what they carry; code in text has a relative size.
ThemeCss(t) ==
    LET relative == <<"code", "relative">>
        printed  == (PageSize \cup Margins \cup RolePaths \cup ColorPaths \cup PositivePaths \cup NonNegativePaths)
                    \ ({"diagram"} \X {"failureHighlight", "minimumLabelPoints", "padPixels"})
    IN [path \in printed \cup {relative} \cup {"fonts"} \X {"text", "code"} \X {"family"} |->
          IF path = relative
          THEN <<"ratio", Amount(t, <<"typography", "code", "sizePoints">>), Amount(t, <<"typography", "text", "sizePoints">>)>>
          ELSE t[path]]
=============================================================================
