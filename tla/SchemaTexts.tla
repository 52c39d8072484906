---------------------------- MODULE SchemaTexts -----------------------------
(* The calls in a line of db/schema.rb (erd-source-rails.mjs) and the blocks,  *)
(* fields and attributes of a Prisma schema (erd-source-prisma.mjs), as tokens *)
(* like those of TypescriptClasses.  A Ruby string or symbol is a token of     *)
(* kind "value"; `@@` is one token, and comments are gone.                     *)
EXTENDS TypescriptClasses

Lookup(entries, key) == IF key \in DOMAIN entries THEN entries[key] ELSE Undefined
ListValue(items)     == [is |-> "list", items |-> items]
\* A list of names.
NamesIn(value) == IF value.is = "list" THEN [i \in DOMAIN value.items |-> value.items[i].name] ELSE <<>>

-----------------------------------------------------------------------------
(* rails. *)

RECURSIVE RubyValue(_)
RubyValue(tokens) ==
    LET only   == IF Len(tokens) = 1 THEN tokens[1].kind ELSE "none"
        listed == Len(tokens) > 1 /\ tokens[1].value = <<"[">> /\ Last(tokens).value = <<"]">>
        items  == TopLevelSlices(SubSeq(tokens, 2, Len(tokens) - 1))
    IN CASE only = "value"  -> String(tokens[1].value)
         [] only = "number" -> [is |-> "number"]
         [] only = "identifier" /\ tokens[1].value \in Words({"true", "false", "nil"}) -> [is |-> "literal", name |-> tokens[1].value]
         [] listed          -> ListValue([i \in DOMAIN items |-> RubyValue(items[i])])
         [] OTHER           -> Undefined

\* Labels give options, the last of a name counts.
CallArguments(tokens) ==
    LET parts   == TopLevelSlices(tokens)
        options == SelectSeq(parts, LAMBDA p : p[1].kind = "label")
        others  == SelectSeq(parts, LAMBDA p : p[1].kind # "label")
    IN [positional |-> [i \in DOMAIN others |-> RubyValue(others[i])],
        options |-> FoldLeft(LAMBDA so, p : (p[1].value[1] :> RubyValue(Tail(p))) @@ so, <<>>, options)]

-----------------------------------------------------------------------------
(* prisma. *)

TextOf(tokens) == FlattenSeq([i \in DOMAIN tokens |-> tokens[i].value])

\* A name and a string literal are both their text.  Of an item with arguments of its own the name counts.
ArgumentValue(tokens) ==
    LET parts == TopLevelSlices(SubSeq(tokens, 2, Len(tokens) - 1))
        Name(item) == LET open == {i \in DOMAIN item : IsPunctuation(item, i, "(")}
                      IN IF open = {} THEN item ELSE SubSeq(item, 1, Min(open) - 1)
    IN IF IsPunctuation(tokens, 1, "[") THEN ListValue([i \in DOMAIN parts |-> String(TextOf(Name(parts[i])))])
       ELSE String(TextOf(tokens))

ArgumentList(tokens) ==
    LET parts == TopLevelSlices(tokens)
        named == SelectSeq(parts, LAMBDA p : KindAt(p, 1) = "identifier" /\ IsPunctuation(p, 2, ":"))
        others == SelectSeq(parts, LAMBDA p : ~(KindAt(p, 1) = "identifier" /\ IsPunctuation(p, 2, ":")))
    IN [positional |-> [i \in DOMAIN others |-> ArgumentValue(others[i])],
        named |-> FoldLeft(LAMBDA so, p : (p[1].value[1] :> ArgumentValue(SubSeq(p, 3, Len(p)))) @@ so, <<>>, named)]

RECURSIVE AttributesFrom(_, _, _)
AttributesFrom(tokens, i, prefix) ==
    LET at == {k \in i..Len(tokens) : IsPunctuation(tokens, k, prefix)} IN
    IF at = {} THEN <<>>
    ELSE LET first == Min(at) + 1
             last  == DottedEnd(tokens, first)
             close == ClosingIndex(tokens, last + 1)
             given == IF IsPunctuation(tokens, last + 1, "(") THEN SubSeq(tokens, last + 2, close - 1) ELSE <<>>
         IN <<[name |-> TextOf(SelectSeq(SubSeq(tokens, first, last), LAMBDA t : t.kind = "identifier")), arguments |-> ArgumentList(given)]>>
            \o AttributesFrom(tokens, IF IsPunctuation(tokens, last + 1, "(") THEN close + 1 ELSE last + 1, prefix)
AttributeList(tokens, prefix) == AttributesFrom(tokens, 1, prefix)

\* A block is [keyword, name, lines].
IsBlockAttribute(line) == IsPunctuation(line, 1, "@@")
BlockAttribute(block, name) ==
    LET lines == SelectSeq(block.lines, IsBlockAttribute)
    IN SelectSeq(FlattenSeq([i \in DOMAIN lines |-> AttributeList(lines[i], "@@")]), LAMBDA a : a.name = <<name>>)
FieldAttribute(attributes, name) == SelectSeq(attributes, LAMBDA a : a.name = <<name>>)

\* The first positional argument or else the one named so, of the first attribute.
ArgumentNamed(attributes, name) ==
    IF attributes = <<>> THEN Undefined
    ELSE IF attributes[1].arguments.positional # <<>> THEN attributes[1].arguments.positional[1]
    ELSE Lookup(attributes[1].arguments.named, name)
MappedName(attributes, fallback) ==
    LET map == ArgumentNamed(FieldAttribute(attributes, "map"), "name") IN IF map = Undefined THEN fallback ELSE map.name
FieldSet(attribute) == NamesIn(ArgumentNamed(<<attribute>>, "fields"))

FieldWith(line, list, optional, attributes) ==
    LET relation == FieldAttribute(attributes, "relation")
        Listed(key) == IF relation = <<>> THEN <<>> ELSE NamesIn(Lookup(relation[1].arguments.named, key))
    IN [name |-> line[1].value, type |-> line[2].value, list |-> list, optional |-> optional,
        column   |-> MappedName(attributes, line[1].value),
        id       |-> FieldAttribute(attributes, "id") # <<>>,
        unique   |-> FieldAttribute(attributes, "unique") # <<>>,
        relation |-> LET name == ArgumentNamed(relation, "name") IN IF name = Undefined THEN <<>> ELSE name.name,
        fields   |-> Listed("fields"), references |-> Listed("references")]
\* name type [] ? attributes
ParsedField(line) ==
    LET type == IF IsPunctuation(line, 3, "(") THEN ClosingIndex(line, 3) ELSE 2   \* Unsupported("...")
        list == IsPunctuation(line, type + 1, "[")
        optional == IsPunctuation(line, (IF list THEN type + 2 ELSE type) + 1, "?")
    IN FieldWith(line, list, optional, AttributeList(SubSeq(line, type + 1, Len(line)), "@"))
ParsedModel(block) ==
    LET fields == SelectSeq(block.lines, LAMBDA l : ~IsBlockAttribute(l))
        keys   == BlockAttribute(block, "id")
        unique == BlockAttribute(block, "unique")
    IN [name |-> block.name, table |-> MappedName(BlockAttribute(block, "map"), block.name),
        fields |-> [i \in DOMAIN fields |-> ParsedField(fields[i])],
        key    |-> UNION {Range(FieldSet(keys[i])) : i \in DOMAIN keys},
        uniqueSets |-> {Range(FieldSet(unique[i])) : i \in DOMAIN unique}]
=============================================================================
