------------------------- MODULE TypescriptClasses --------------------------
(* erd-source-typeorm.mjs: the classes, members and decorators that the tokens *)
(* of a TypeScript file declare.  A token is [kind, value, newline]: what kind *)
(* it is, the words of its text, and whether a line ends before it.  Decorator *)
(* arguments are values: [is, ...], where Undefined is undefined.              *)
EXTENDS Integers, SequencesExt, FiniteSetsExt

Words(names) == {<<n>> : n \in names}
ClassPrefixes       == Words({"export", "default", "abstract", "declare"})
MemberModifiers     == Words({"public", "private", "protected", "readonly", "static", "declare", "abstract", "override",
                              "accessor", "async", "get", "set"})
LineContinuingEnds  == Words({"|", "&", "=>", "=", ":", ",", ".", "?", "(", "[", "{", "<", "+", "-", "*", "/",
                              "extends", "keyof", "typeof", "new", "in", "is", "as"})
LineContinuingStarts == Words({"|", "&", ".", "?.", "=>", "?", "=", "+", "*", "/"})

KindAt(tokens, i) == IF i \in DOMAIN tokens THEN tokens[i].kind ELSE "none"
IsPunctuation(tokens, i, mark) == KindAt(tokens, i) = "punctuation" /\ tokens[i].value = <<mark>>
IsWord(tokens, i, words) == KindAt(tokens, i) = "identifier" /\ tokens[i].value \in words
Opens(t)  == t.kind = "punctuation" /\ t.value \in Words({"(", "[", "{"})
Closes(t) == t.kind = "punctuation" /\ t.value \in Words({")", "]", "}"})
Change(t) == IF Opens(t) THEN 1 ELSE IF Closes(t) THEN -1 ELSE 0

-----------------------------------------------------------------------------
(* Brackets. *)

RECURSIVE ClosingFrom(_, _, _)
ClosingFrom(tokens, i, depth) ==
    IF i > Len(tokens) THEN i
    ELSE IF Closes(tokens[i]) /\ depth = 1 THEN i ELSE ClosingFrom(tokens, i + 1, depth + Change(tokens[i]))
\* Len + 1 when nothing closes it.
ClosingIndex(tokens, open) == ClosingFrom(tokens, open, 0)

RECURSIVE AngleClosingFrom(_, _, _)
AngleClosingFrom(tokens, i, depth) ==
    LET now == depth + (IF IsPunctuation(tokens, i, "<") THEN 1 ELSE IF IsPunctuation(tokens, i, ">") THEN -1 ELSE 0)
    IN IF i > Len(tokens) \/ now = 0 THEN i ELSE AngleClosingFrom(tokens, i + 1, now)

\* Without empty slices.
TopLevelSlices(tokens) ==
    LET Take(so, t) == IF so.depth = 0 /\ IsPunctuation(<<t>>, 1, ",") THEN [so EXCEPT !.slices = Append(@, <<>>)]
                       ELSE [depth |-> so.depth + Change(t), slices |-> Append(Front(so.slices), Append(Last(so.slices), t))]
    IN SelectSeq(FoldLeft(Take, [depth |-> 0, slices |-> <<<<>>>>], tokens).slices, LAMBDA s : s # <<>>)

DepthBefore(tokens, i) == FoldLeft(LAMBDA d, t : d + Change(t), 0, SubSeq(tokens, 1, i - 1))
TopLevel(tokens, mark) == {i \in DOMAIN tokens : IsPunctuation(tokens, i, mark) /\ DepthBefore(tokens, i) = 0}

-----------------------------------------------------------------------------
(* Values. *)

Undefined    == [is |-> "undefined"]
String(name) == [is |-> "string", name |-> name]
LiteralWords     == Words({"true", "false", "null", "undefined"})
WordValue(t) == IF t.value = <<"undefined">> THEN Undefined
                ELSE [is |-> IF t.value \in LiteralWords THEN "literal" ELSE "identifier", name |-> t.value]

RECURSIVE TokenValue(_)
ObjectValue(tokens) ==
    LET Enter(entries, e) ==
            IF e[1].kind \in {"identifier", "string", "number"} /\ IsPunctuation(e, 2, ":")
            THEN (e[1].value :> TokenValue(SubSeq(e, 3, Len(e)))) @@ entries
            ELSE IF Len(e) = 1 /\ e[1].kind = "identifier" THEN (e[1].value :> [is |-> "identifier", name |-> e[1].value]) @@ entries
            ELSE entries
    IN [is |-> "object", entries |-> FoldLeft(Enter, <<>>, TopLevelSlices(tokens))]
TokenValue(tokens) ==
    LET Enclosed(open) == IsPunctuation(tokens, 1, open) /\ ClosingIndex(tokens, 1) = Len(tokens)
        inner  == SubSeq(tokens, 2, Len(tokens) - 1)
        only   == IF Len(tokens) = 1 THEN tokens[1].kind ELSE "none"
        arrows == TopLevel(tokens, "=>")
    IN CASE arrows # {}          -> [is |-> "arrow", body |-> SubSeq(tokens, Min(arrows) + 1, Len(tokens))]
         [] only = "string"      -> String(tokens[1].value)
         [] only = "number"      -> [is |-> "number"]
         [] only = "identifier"  -> WordValue(tokens[1])
         [] arrows = {} /\ Enclosed("{") -> ObjectValue(inner)
         [] arrows = {} /\ Enclosed("[") -> LET items == TopLevelSlices(inner)
                                            IN [is |-> "list", items |-> [i \in DOMAIN items |-> TokenValue(items[i])]]
         [] OTHER                -> [is |-> IF Len(tokens) = 2 /\ IsPunctuation(tokens, 1, "-") /\ tokens[2].kind = "number"
                                            THEN "number" ELSE "expression"]

\* Of a name with dots the last part counts.
RECURSIVE DottedEnd(_, _)
DottedEnd(tokens, i) ==
    IF IsPunctuation(tokens, i + 1, ".") /\ KindAt(tokens, i + 2) = "identifier" THEN DottedEnd(tokens, i + 2) ELSE i

ParsedDecorator(tokens, at) ==
    LET name  == DottedEnd(tokens, at + 1)
        close == ClosingIndex(tokens, name + 1)
        given == TopLevelSlices(SubSeq(tokens, name + 2, close - 1))
    IN IF IsPunctuation(tokens, name + 1, "(")
       THEN [name |-> tokens[name].value, arguments |-> [i \in DOMAIN given |-> TokenValue(given[i])], next |-> close + 1]
       ELSE [name |-> tokens[name].value, arguments |-> <<>>, next |-> name + 1]

-----------------------------------------------------------------------------
(* Members. *)

IsLineBoundary(tokens, i) ==
    tokens[i].newline /\ tokens[i - 1].value \notin LineContinuingEnds /\ tokens[i].value \notin LineContinuingStarts

\* A type ends at `=` too, and its angles are brackets.
RECURSIVE EndFrom(_, _, _, _, _, _)
EndFrom(tokens, start, i, limit, isType, depth) ==
    LET angle == CASE ~isType                       -> 0
                   [] IsPunctuation(tokens, i, "<") -> 1
                   [] IsPunctuation(tokens, i, ">") -> -1
                   [] OTHER                         -> 0
        stops == \/ IsPunctuation(tokens, i, ";") \/ IsPunctuation(tokens, i, "@")
                 \/ isType /\ IsPunctuation(tokens, i, "=")
                 \/ IsLineBoundary(tokens, i)
    IN IF i >= limit THEN limit
       ELSE IF depth = 0 /\ i > start /\ stops THEN i
       ELSE EndFrom(tokens, start, i + 1, limit, isType, depth + Change(tokens[i]) + angle)
ExpressionEnd(tokens, start, limit, isType) == EndFrom(tokens, start, start, limit, isType, 0)

\* An abstract method has no body.
SkippedMethod(tokens, i, limit) ==
    LET open  == IF IsPunctuation(tokens, i, "<") THEN AngleClosingFrom(tokens, i, 0) + 1 ELSE i
        after == ClosingIndex(tokens, open) + 1
        body  == {k \in after..(limit - 1) : IsPunctuation(tokens, k, "{") \/ IsPunctuation(tokens, k, ";") \/ IsLineBoundary(tokens, k)}
        stop  == IF body = {} THEN (IF after > limit THEN after ELSE limit) ELSE Min(body)
    IN IF IsPunctuation(tokens, stop, "{") THEN ClosingIndex(tokens, stop) + 1 ELSE stop

IsMemberNameStart(tokens, i) ==
    KindAt(tokens, i) \in {"identifier", "string", "number"} \/ \E mark \in {"[", "#", "*"} : IsPunctuation(tokens, i, mark)
RECURSIVE AfterModifiers(_, _)
AfterModifiers(tokens, i) ==
    IF IsWord(tokens, i, MemberModifiers) /\ IsMemberNameStart(tokens, i + 1) /\ ~tokens[i + 1].newline
    THEN AfterModifiers(tokens, i + 1) ELSE i

\* The end of a member's name, and with it that of its `?` or `!`.
NameEnd(tokens, first) ==
    LET last == IF IsPunctuation(tokens, first, "[") THEN ClosingIndex(tokens, first)
                ELSE IF IsPunctuation(tokens, first, "#") \/ IsPunctuation(tokens, first, "*") THEN first + 1 ELSE first
    IN IF IsPunctuation(tokens, last + 1, "?") \/ IsPunctuation(tokens, last + 1, "!") THEN last + 1 ELSE last
MemberName(tokens, first) == IF IsPunctuation(tokens, first, "[") THEN <<>>
                             ELSE IF IsPunctuation(tokens, first, "#") \/ IsPunctuation(tokens, first, "*")
                             THEN tokens[first + 1].value ELSE tokens[first].value
\* What follows a name, from its colon, parenthesis or semicolon on.
MemberNamed(tokens, name, marked, end) ==
    LET typed  == IF IsPunctuation(tokens, marked, ":") THEN ExpressionEnd(tokens, marked + 1, end, TRUE) ELSE marked
        method == IsPunctuation(tokens, marked, "(") \/ IsPunctuation(tokens, marked, "<")
    IN [name |-> name, method |-> method,
        type |-> SubSeq(tokens, marked + 1, typed - 1),
        next |-> IF method THEN SkippedMethod(tokens, marked, end)
                 ELSE IF IsPunctuation(tokens, typed, "=") THEN ExpressionEnd(tokens, typed + 1, end, FALSE) ELSE typed]
MemberFrom(tokens, first, end) == MemberNamed(tokens, MemberName(tokens, first), NameEnd(tokens, first) + 1, end)
\* The member that begins at i, after its decorators: [name, type, next, method]; a computed name is <<>>.
MemberAt(tokens, i, end) == MemberFrom(tokens, AfterModifiers(tokens, i), end)

RECURSIVE ParsedMembers(_, _, _, _, _)
Decorating(tokens, d, end, class, decorators) == ParsedMembers(tokens, d.next, end, class, Append(decorators, d))
WithMember(tokens, m, end, class, decorators) ==
    (IF m.method \/ m.name = <<>> THEN <<>>
     ELSE <<[name |-> m.name, class |-> class, decorators |-> decorators, type |-> m.type]>>)
    \o ParsedMembers(tokens, m.next, end, class, <<>>)
ParsedMembers(tokens, i, end, class, decorators) ==
    IF i >= end THEN <<>>
    ELSE IF IsPunctuation(tokens, i, ";") THEN ParsedMembers(tokens, i + 1, end, class, decorators)
    ELSE IF IsPunctuation(tokens, i, "@")
         THEN Decorating(tokens, ParsedDecorator(tokens, i), end, class, decorators)
    ELSE IF IsPunctuation(tokens, i, "{") THEN ParsedMembers(tokens, ClosingIndex(tokens, i) + 1, end, class, <<>>)
    ELSE WithMember(tokens, MemberAt(tokens, i, end), end, class, decorators)

-----------------------------------------------------------------------------
(* Classes. *)

\* The body's brace, and the name after `extends`, outside the angles and parentheses of the header.
RECURSIVE HeaderFrom(_, _, _, _)
HeaderFrom(tokens, i, depth, parent) ==
    LET now == depth + (IF IsPunctuation(tokens, i, "<") \/ IsPunctuation(tokens, i, "(") THEN 1
                        ELSE IF IsPunctuation(tokens, i, ">") \/ IsPunctuation(tokens, i, ")") THEN -1 ELSE 0)
    IN IF i > Len(tokens) \/ (depth = 0 /\ IsPunctuation(tokens, i, "{")) THEN [open |-> i, parent |-> parent]
       ELSE HeaderFrom(tokens, i + 1, now, IF now = 0 /\ IsWord(tokens, i, Words({"extends"}))
                                           THEN tokens[DottedEnd(tokens, i + 1)].value ELSE parent)

ParsedClass(tokens, i, decorators) ==
    LET header == HeaderFrom(tokens, i + 2, 0, <<>>)
        close  == ClosingIndex(tokens, header.open)
        name   == tokens[i + 1].value
    IN [next |-> close + 1,
        declaration |-> [name |-> name, parent |-> header.parent, decorators |-> decorators,
                         members |-> ParsedMembers(tokens, header.open + 1, close, name, <<>>)]]

RECURSIVE ClassesFrom(_, _, _)
DecoratingClass(tokens, d, decorators) == ClassesFrom(tokens, d.next, Append(decorators, d))
WithClass(tokens, c) == <<c.declaration>> \o ClassesFrom(tokens, c.next, <<>>)
ClassesFrom(tokens, i, decorators) ==
    IF i > Len(tokens) THEN <<>>
    ELSE IF IsPunctuation(tokens, i, "@")
         THEN DecoratingClass(tokens, ParsedDecorator(tokens, i), decorators)
    ELSE IF IsWord(tokens, i, Words({"class"})) /\ KindAt(tokens, i + 1) = "identifier" /\ ~IsPunctuation(tokens, i - 1, ".")
         THEN WithClass(tokens, ParsedClass(tokens, i, decorators))
    ELSE ClassesFrom(tokens, i + 1, IF IsWord(tokens, i, ClassPrefixes) THEN decorators ELSE <<>>)
ParsedClasses(tokens) == ClassesFrom(tokens, 1, <<>>)
=============================================================================
