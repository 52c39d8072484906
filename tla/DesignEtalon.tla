---------------------------- MODULE DesignEtalon ----------------------------
(* plugin/scripts/check-design-etalon.mjs: the gate that a page of design/     *)
(* passes before it is fixed, for an HTML and for a JSON etalon.  The checker  *)
(* stands beside the registry and the tokens that the design server writes.    *)
(*                                                                             *)
(* A failure is its code and the node it names; the order of the report and    *)
(* its wording are left out.  Text is what the patterns make of it: a prop's   *)
(* value is a literal, a binding, or a string that begins with $ and is none.  *)
(* etalon.document: how the etalon file reads; for JSON, ill says that a key is  *)
(* unknown or does not have the type or the pattern that the schema asks for.  *)
EXTENDS Integers, FiniteSets, SequencesExt

CONSTANTS Etalons,    \* the pages to check: [slug, file, extension, document, index, registry, tokens]
          NumberOf,   \* Number(segment), a natural number or -1
          NoDoc       \* a file that is not there, or an undeclared manifest

\* A document that parses lists its nodes.
ASSUME EtalonsAreTyped ==
    \A e \in Etalons : e.extension = "json" /\ e.document # NoDoc /\ e.document.json =>
      LET nodes == e.document.nodes IN Len(nodes) \in Nat /\ nodes = [i \in 1..Len(nodes) |-> nodes[i]]

VARIABLES etalon,      \* the page that is checked
          next,      \* the checker's next step
          registry,  \* the registry as it was read
          failures,  \* what is wrong so far
          hint,      \* whether the report hints at a stale registry
          verdict    \* the exit: "passed", "failed", "unreadable"
etalonVars == <<etalon, next, registry, failures, hint, verdict>>

-----------------------------------------------------------------------------
(* What an etalon may be made of. *)

EtalonProp(name, type, required) == [name |-> name, type |-> type, required |-> required, values |-> {}]
Style(name)   == EtalonProp(name, "string", FALSE)
Styles(names) == {Style(n) : n \in names}
HoldsNodes         == EtalonProp("children", "node", FALSE)
Alignment(name) == [EtalonProp(name, "enum", FALSE) EXCEPT !.values = {"start", "center", "end", "stretch"}]
ChildLayoutProps == {EtalonProp("grow", "boolean", FALSE), Alignment("alignInParent"),
                     EtalonProp("scroll", "boolean", FALSE), Style("maxWidth")}
Type    == {"tone", "font", "size", "weight", "leading"}
Surface == {"fill", "stroke", "radius", "padding"}
Primitives ==
    [Stack       |-> {Style("gap"), Alignment("align"), HoldsNodes} \cup ChildLayoutProps,
     Row         |-> {Style("gap"), Alignment("align"), EtalonProp("wrap", "boolean", FALSE), HoldsNodes} \cup ChildLayoutProps,
     Text        |-> {EtalonProp("text", "string", TRUE)} \cup Styles(Type),
     Box         |-> {HoldsNodes} \cup Styles(Surface),
     Element     |-> {EtalonProp("tag", "string", TRUE), Style("text"), HoldsNodes} \cup Styles(Surface \cup Type) \cup ChildLayoutProps,
     Placeholder |-> {EtalonProp("label", "string", TRUE), Style("height"), Style("note"), HoldsNodes}]
StyleProps == Surface \cup {"gap", "height", "maxWidth", "tone", "font", "size", "weight", "leading"}

RefusedAttributes == {"class", "className", "style", "onClick"}
RefusedTags       == {"svg"}
IsKnownTag(elements, tag)             == tag \in elements.custom \cup elements.tags
IsKnownAttribute(elements, tag, name) ==
    name \in elements.data \cup elements.commonAttributes
             \cup IF tag \in DOMAIN elements.tagAttributes THEN elements.tagAttributes[tag] ELSE {}

\* A string that begins with $ and is no binding counts as a literal; the schema refuses it.
ClassifyPropValue(value) == IF value.is = "stray" THEN "literal" ELSE value.is
IsSupportedPropValue(value) == value.is # "stray"

-----------------------------------------------------------------------------
(* Parsing: failures here end the run. *)

NodeProblem(node) == node.ill \/ \E p \in DOMAIN node.props : ~IsSupportedPropValue(node.props[p])
SchemaProblem(parsed) == \/ parsed.ill
                         \/ DOMAIN parsed.data = {}
                         \/ "default" \in DOMAIN parsed.states
                         \/ parsed.nodes = <<>>
                         \/ \E i \in DOMAIN parsed.nodes : NodeProblem(parsed.nodes[i])

-----------------------------------------------------------------------------
(* The validator. *)

Issue(code, node) == [code |-> code, node |-> node]
Issues(code, nodes) == {Issue(code, n) : n \in nodes}
NodesAt(nodes, positions) == {nodes[i].id : i \in positions}

ReferencedIds(node) == node.children \o FlattenSeq(SetToSeq({node.slots[s] : s \in DOMAIN node.slots}))

\* The first node of an id is the one that the others are told of.
NodeIndex(nodes, id) == CHOOSE i \in DOMAIN nodes : nodes[i].id = id /\ \A j \in 1..i - 1 : nodes[j].id # id
IdsOf(nodes) == {nodes[i].id : i \in DOMAIN nodes}
DuplicateIds(nodes) == Issues("DUPLICATE-ID", NodesAt(nodes, {i \in DOMAIN nodes : NodeIndex(nodes, nodes[i].id) # i}))

\* <<parent's position, position in its references, child's id>> of what is declared.
ReferencesOf(nodes) == UNION {{<<i, k, ReferencedIds(nodes[i])[k]>> : k \in DOMAIN ReferencedIds(nodes[i])} : i \in DOMAIN nodes}

\* Mutant: a node may come where it is referred to.
ComesTooLate(nodes, r) == NodeIndex(nodes, r[3]) < r[1]

ParentAfterChild(nodes, r) == NodeIndex(nodes, r[3]) <= r[1]

CheckTree(nodes) ==
    LET all   == ReferencesOf(nodes)
        known == {r \in all : r[3] \in IdsOf(nodes)}
    IN  Issues("UNKNOWN-NODE", {r[3] : r \in all \ known})
        \cup Issues("PARENT-AFTER-CHILD", {r[3] : r \in {x \in known : ParentAfterChild(nodes, x)}})
        \cup Issues("MULTIPLE-PARENTS", {r[3] : r \in {x \in known : \E y \in known : y # x /\ y[3] = x[3]}})
        \cup Issues("ORPHAN-NODE", NodesAt(nodes, {i \in DOMAIN nodes : i > 1 /\ \A r \in known : r[3] # nodes[i].id}))

IsPropProvided(node, prop) ==
    \/ prop.name \in DOMAIN node.props
    \/ /\ prop.type = "node"
       /\ IF prop.name = "children" THEN node.children # <<>>
          ELSE prop.name \in DOMAIN node.slots /\ node.slots[prop.name] # <<>>

\* A tag that is bound, or that is no string, is not looked up.
CheckTag(node, elements) ==
    IF "tag" \notin DOMAIN node.props \/ ClassifyPropValue(node.props.tag) # "literal" \/ ~node.props.tag.string THEN {}
    ELSE IF node.props.tag.text \in RefusedTags THEN {"REFUSED-TAG"}
    ELSE IF IsKnownTag(elements, node.props.tag.text) THEN {} ELSE {"UNKNOWN-TAG"}

CheckAttribute(node, elements, name) ==
    IF /\ name \notin RefusedAttributes
       /\ "tag" \in DOMAIN node.props /\ node.props.tag.string
       /\ IsKnownAttribute(elements, node.props.tag.text, name)
    THEN {} ELSE {"UNKNOWN-ATTRIBUTE"}

CheckProps(node, declared, elements) ==
    LET element == node.component = "Element"
        names   == {p.name : p \in declared}
        Prop(n) == CHOOSE p \in declared : p.name = n
        given   == DOMAIN node.props \cap names
        Literal(n) == ClassifyPropValue(node.props[n]) = "literal"
        slots   == DOMAIN node.slots \cup IF node.children = <<>> THEN {} ELSE {"children"}
        When(code, found) == IF found THEN {code} ELSE {}
        strange == DOMAIN node.props \ names
    IN  (IF element THEN CheckTag(node, elements) \cup UNION {CheckAttribute(node, elements, n) : n \in strange}
         ELSE When("UNKNOWN-PROP", strange # {}))
        \cup When("BAD-ENUM", \E n \in given : Prop(n).type = "enum" /\ Literal(n) /\ node.props[n].text \notin Prop(n).values)
        \cup When("FUNCTION-PROP-VALUE", \E n \in given : Prop(n).type = "function")
        \cup When("RAW-STYLE-VALUE", node.component \in DOMAIN Primitives /\ \E n \in given \cap StyleProps : Literal(n))
        \cup When("SLOT-NOT-NODE", \E s \in slots : s \notin names \/ Prop(s).type # "node")
        \cup When("MISSING-PROP", \E p \in declared : p.required /\ ~IsPropProvided(node, p))

\* The registry's components stand before the primitives of the same name.
ComponentsOf(reg) == reg.components @@ Primitives

CheckNode(node, known, elements) ==
    IF node.proposal THEN IF node.note THEN {} ELSE {"PROPOSAL-WITHOUT-NOTE"}
    ELSE IF node.component \notin DOMAIN known THEN {"UNKNOWN-COMPONENT"}
    ELSE CheckProps(node, known[node.component], elements)

BoundTo(node, kind) == {v \in {node.props[p] : p \in DOMAIN node.props} : ClassifyPropValue(v) = kind}
BoundTokens(node) == {v.text : v \in BoundTo(node, "token")}
BoundPaths(node)  == {v.path : v \in BoundTo(node, "data")}
Binders(nodes)    == UNION {BoundPaths(n) : n \in Range(nodes)}

\* One segment further: an array is asked by number, and only an object by name.
Into(value, segment) ==
    IF value.is = "array" THEN IF NumberOf[segment] + 1 \in DOMAIN value.at THEN value.at[NumberOf[segment] + 1] ELSE [is |-> "none"]
    ELSE IF value.is = "object" /\ segment \in DOMAIN value.at THEN value.at[segment] ELSE [is |-> "none"]
HasPath(value, path) == FoldLeft(Into, value, path).is # "none"

CheckFixtures(e) ==
    Issues("MISSING-FIXTURE-PATH", {f \in DOMAIN e.data : \E path \in Binders(e.nodes) : ~HasPath(e.data[f], path)})
    \cup Issues("UNUSED-STATE", {s \in DOMAIN e.states : e.states[s] \cap Binders(e.nodes) = {}})

NodeIssues(e, reg)     == UNION {{Issue(code, n.id) : code \in CheckNode(n, ComponentsOf(reg), reg.elements)} : n \in Range(e.nodes)}
TokenIssues(e, tokens) == Issues("UNKNOWN-TOKEN", NodesAt(e.nodes, {i \in DOMAIN e.nodes : ~(BoundTokens(e.nodes[i]) \subseteq tokens)}))

ValidateEtalon(e, reg, tokens) ==
    DuplicateIds(e.nodes) \cup CheckTree(e.nodes) \cup NodeIssues(e, reg) \cup TokenIssues(e, tokens) \cup CheckFixtures(e)

-----------------------------------------------------------------------------
EtalonInit == /\ etalon \in Etalons
              /\ next = "read" /\ registry = NoDoc /\ failures = {} /\ hint = FALSE /\ verdict = "none"

Then(step, found) == /\ next' = step /\ failures' = failures \cup found
                     /\ UNCHANGED <<etalon, registry, hint, verdict>>

\* The branch is chosen by the extension.
ReadEtalon == /\ next = "read"
              /\ IF etalon.document = NoDoc THEN /\ verdict' = "unreadable" /\ next' = "end"
                                              /\ UNCHANGED <<etalon, registry, failures, hint>>
                 ELSE Then(IF etalon.extension = "json" THEN "folder" ELSE "html", {})

PageFolderFailures ==
    IF etalon.slug = "index" THEN Issues("RESERVED-SLUG", {etalon.slug})
    ELSE IF etalon.index # NoDoc /\ <<etalon.slug, etalon.file, etalon.extension>> \in etalon.index THEN {}
    ELSE Issues("NO-INDEX-LINK", {etalon.slug})

\* What the manifest declares has a block of its own.
ManifestFailures(declared, blocks, none, missing) ==
    IF declared = NoDoc THEN Issues(none, {etalon.slug}) ELSE Issues(missing, declared \ blocks)

CheckHtmlEtalon ==
    LET html == etalon.document IN
    /\ next = "html"
    /\ Then("report", (IF html.linksTokens THEN {} ELSE Issues("NO-TOKENS-LINK", {etalon.slug}))
                      \cup PageFolderFailures
                      \cup ManifestFailures(html.fixtures, html.fixtureBlocks, "NO-MANIFEST-FIXTURES", "MISSING-FIXTURE")
                      \cup ManifestFailures(html.states, html.stateBlocks, "NO-MANIFEST-STATES", "MISSING-STATE")
                      \cup Issues("RAW-HEX", html.rawColors) \cup Issues("RAW-PX", html.rawSizes))

CheckPageFolder == next = "folder" /\ Then("parse", PageFolderFailures)

ParseEtalon == /\ next = "parse"
               /\ IF ~etalon.document.json \/ SchemaProblem(etalon.document) THEN Then("report", Issues("INVALID-ETALON", {etalon.slug}))
                  ELSE Then("slug", {})

CheckSlug == /\ next = "slug"
             /\ Then("registry", Issues("SLUG-MISMATCH", {s \in {etalon.file, etalon.document.slug} : s # etalon.slug}))

IsRegistryProp(prop)   == prop.type # "enum" \/ prop.values # NoDoc
IsRegistry(text)       == /\ text.json
                          /\ \A c \in DOMAIN text.components : \A p \in text.components[c] : IsRegistryProp(p)
                          /\ text.elements # NoDoc /\ text.elements.tags # {}

ReadRegistry ==
    /\ next = "registry"
    /\ IF etalon.registry # NoDoc /\ IsRegistry(etalon.registry)
       THEN /\ registry' = etalon.registry /\ next' = "validate" /\ UNCHANGED <<etalon, failures, hint, verdict>>
       ELSE Then("report", Issues("NO-REGISTRY", {etalon.slug}))

\* Without tokens.css no token is known.
ReadTokenVocabulary == IF etalon.tokens = NoDoc THEN {} ELSE etalon.tokens

CheckJsonEtalon ==
    LET issues == ValidateEtalon(etalon.document, registry, ReadTokenVocabulary) IN
    /\ next = "validate"
    /\ failures' = failures \cup issues
    /\ hint' = (\E i \in issues : i.code \in {"UNKNOWN-COMPONENT", "UNKNOWN-PROP", "UNKNOWN-TOKEN"})
    /\ next' = "report" /\ UNCHANGED <<etalon, registry, verdict>>

ReportEtalon == /\ next = "report"
                /\ verdict' = IF failures = {} THEN "passed" ELSE "failed"
                /\ next' = "end" /\ UNCHANGED <<etalon, registry, failures, hint>>

EtalonNext == \/ ReadEtalon \/ CheckHtmlEtalon \/ CheckPageFolder \/ ParseEtalon \/ CheckSlug
              \/ ReadRegistry \/ CheckJsonEtalon \/ ReportEtalon
EtalonSpec == EtalonInit /\ [][EtalonNext]_etalonVars

-----------------------------------------------------------------------------
\* What a renderer finds in the children and slots of these nodes.
Within(nodes, ids) == UNION {Range(ReferencedIds(n)) : n \in {m \in Range(nodes) : m.id \in ids}}

(* The codes of the validator are local rules about positions and parents;     *)
(* together they have to mean that a page which passed can be rendered: from   *)
(* its first node every node is met, in one place only, none has another's id  *)
(* and none is inside itself, and in every fixture what it binds has a value.  *)
PassedPagesRender ==
    verdict = "passed" /\ etalon.extension = "json" =>
        LET nodes == etalon.document.nodes IN
        /\ Cardinality(IdsOf(nodes)) = Len(nodes)
        /\ Within(nodes, IdsOf(nodes)) \subseteq IdsOf(nodes)
        /\ \A met \in SUBSET IdsOf(nodes) : nodes[1].id \in met /\ Within(nodes, met) \subseteq met => met = IdsOf(nodes)
        /\ Cardinality(ReferencesOf(nodes)) = Len(nodes) - 1
        /\ \A n \in Range(nodes), f \in DOMAIN etalon.document.data :
                \A path \in BoundPaths(n) : HasPath(etalon.document.data[f], path)
=============================================================================
