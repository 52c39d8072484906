--------------------------- MODULE MCDesignEtalon ---------------------------
(* Pages that are trees of three nodes and pages that are not, pages of every  *)
(* component, prop and fixture that the checker has a code for, HTML pages,    *)
(* and the folders that a page is found in.                                    *)
EXTENDS DesignEtalon

Literal(text) == [is |-> "literal", text |-> text, path |-> <<>>, string |-> TRUE]
Number        == [is |-> "literal", text |-> "5", path |-> <<>>, string |-> FALSE]
DataPath(path)    == [is |-> "data", text |-> "$data", path |-> path, string |-> TRUE]
Token(name)   == [is |-> "token", text |-> name, path |-> <<>>, string |-> TRUE]
Stray         == [is |-> "stray", text |-> "$", path |-> <<>>, string |-> TRUE]

Node(id, children) == [id |-> id, component |-> "Card", proposal |-> FALSE, props |-> <<>>,
                       children |-> children, slots |-> <<>>, note |-> FALSE, ill |-> FALSE]
Leaf(v)    == [is |-> "leaf"]
Object(at) == [is |-> "object", at |-> at]
Fixture    == Object([title |-> Leaf("t"), rows |-> [is |-> "array", at |-> <<Object([name |-> Leaf("n")])>>]])
Sparse     == Object([title |-> Leaf("t"), rows |-> [is |-> "array", at |-> <<>>]])
MCNumberOf == [title |-> -1, rows |-> -1, name |-> -1, one |-> 0, two |-> 1]
Title      == <<"title">>
FirstName  == <<"rows", "one", "name">>

Etalon(nodes) == [json |-> TRUE, ill |-> FALSE, slug |-> "login", nodes |-> nodes,
                  data |-> [typical |-> Fixture, minimal |-> Sparse], states |-> <<>>]
Registry == [json |-> TRUE,
             components |-> [Card |-> {EtalonProp("header", "node", FALSE), HoldsNodes, EtalonProp("title", "string", FALSE)},
                             Form |-> {EtalonProp("onSubmit", "function", FALSE), EtalonProp("body", "node", TRUE)}],
             elements |-> [tags |-> {"p", "a", "svg"}, custom |-> {"x-icon"}, data |-> {"data-x"},
                           commonAttributes |-> {"id", "className"}, tagAttributes |-> [a |-> {"href"}]]]
Login(document) == [slug |-> "login", file |-> "login", extension |-> "json", document |-> document,
                    index |-> {<<"login", "login", "json">>, <<"login", "login", "html">>}, registry |-> Registry, tokens |-> {"space"}]

-----------------------------------------------------------------------------
\* Three nodes, or fewer, that refer to each other, to themselves, and to z.
NodeIds    == {"a", "b", "c", "z"}
UpTo1  == {<<>>} \cup {<<i>> : i \in NodeIds}
UpTo2  == UpTo1 \cup {<<i, j>> : i \in NodeIds, j \in NodeIds}
Slotted(node, ids) == [node EXCEPT !.slots = [header |-> ids]]
Trees  == {<<Node("a", x)>> : x \in UpTo1}
          \cup {<<Node("a", x), Node("b", y)>> : x \in UpTo2, y \in UpTo1}
          \cup {<<Node("a", x), Slotted(Node("b", y), z), Node(id, <<>>)>> : x \in UpTo2, y \in UpTo1, z \in UpTo1, id \in {"a", "b", "c"}}

-----------------------------------------------------------------------------
\* Nodes of every kind below a first one.
Has(component, props) == [Node("b", <<>>) EXCEPT !.component = component, !.props = props]
Wrong == {Has("Ghost", <<>>), [Has("Ghost", <<>>) EXCEPT !.proposal = TRUE], [Has("Ghost", <<>>) EXCEPT !.proposal = TRUE, !.note = TRUE],
          Has("Card", [title |-> DataPath(Title)]), Has("Card", [title |-> DataPath(FirstName)]), Has("Card", [title |-> DataPath(<<"rows", "name">>)]),
          Has("Card", [title |-> Stray]), Has("Card", [size |-> Number]), [Has("Card", <<>>) EXCEPT !.ill = TRUE],
          Has("Form", [onSubmit |-> Literal("f")]), Slotted(Has("Form", <<>>), <<>>), Has("Text", <<>>),
          Has("Text", [text |-> Literal("t"), tone |-> Literal("red")]), Has("Text", [text |-> Literal("t"), tone |-> Token("space")]),
          Has("Stack", [gap |-> Token("none"), align |-> Literal("left")]), Has("Stack", [align |-> DataPath(Title), gap |-> Token("space")])}
ElementTags  == {Literal("p"), Literal("a"), Literal("svg"), Literal("x-icon"), Literal("q"), Number, DataPath(Title)}
Attributes == {"href", "id", "className", "data-x"}
Elements == {Has("Element", [tag |-> t]) : t \in ElementTags} \cup {Has("Element", ("tag" :> t) @@ (n :> Literal("v"))) : t \in ElementTags, n \in Attributes}
            \cup {Has("Element", [href |-> Literal("v")])}
Below(nodes) == {<<Node("a", <<"b">>), n>> : n \in nodes}

\* Etalons that are off the schema, of another slug, with states or with no fixture.
Bad == LET e == Etalon(<<Node("a", <<>>)>>) IN
       {[e EXCEPT !.json = FALSE], [e EXCEPT !.ill = TRUE], [e EXCEPT !.slug = "other"], [e EXCEPT !.nodes = <<>>], [e EXCEPT !.data = <<>>],
        [e EXCEPT !.states = [default |-> {Title}]], [e EXCEPT !.states = [empty |-> {Title}]],
        [e EXCEPT !.states = [empty |-> {Title}], !.nodes = <<[Node("a", <<>>) EXCEPT !.props = [title |-> DataPath(Title)]]>>]}

Html == [linksTokens : BOOLEAN, fixtures : {NoDoc, {}, {"typical"}}, states : {NoDoc, {"empty"}},
         fixtureBlocks : {{}, {"typical"}}, stateBlocks : {{"empty"}}, rawColors : {{}, {"#fff"}}, rawSizes : {{}, {"3px"}}]

PlainPage   == Login(Etalon(<<Node("a", <<>>)>>))
Folders == {[PlainPage EXCEPT !.slug = s, !.file = f, !.index = i] : s \in {"index", "login"}, f \in {"login", "draft"},
            i \in {NoDoc, {}, {<<"login", "login", "json">>}, {<<"login", "draft", "json">>}}}
Systems == {[PlainPage EXCEPT !.registry = r, !.tokens = t] : t \in {NoDoc, {}}, r \in {NoDoc, [Registry EXCEPT !.json = FALSE],
            [Registry EXCEPT !.elements = NoDoc], [Registry EXCEPT !.elements.tags = {}],
            [Registry EXCEPT !.components = [Card |-> {[EtalonProp("kind", "enum", FALSE) EXCEPT !.values = NoDoc]}]]}}

MCEtalons == {Login(Etalon(nodes)) : nodes \in Trees \cup Below(Wrong \cup Elements)} \cup {Login(e) : e \in Bad \cup {NoDoc}}
             \cup {[Login(h) EXCEPT !.extension = "html"] : h \in Html} \cup Folders \cup Systems
=============================================================================
