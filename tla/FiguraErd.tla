----------------------------- MODULE FiguraErd ------------------------------
(* figura erd: a schema becomes parts that each fit a page, and the parts the  *)
(* files erd-NN.d2.  Tables, columns and domains are numbered in the order of  *)
(* their names; domain 0 is no domain.                                         *)
EXTENDS Naturals, Sequences, SequencesExt, FiniteSetsExt

CONSTANTS Schemas,  \* what a source may hold
          Flags,    \* what the command line may ask for
          Earlier,  \* the files an earlier command may have left
          Fittings  \* which sets of tables d2 draws within a page

\* row is the length of a column's row.
ErdColumns   == [name : STRING, primaryKey : BOOLEAN, unique : BOOLEAN, service : BOOLEAN, references : SUBSET Nat, row : Nat]
ErdTables    == [name : Nat, domain : Nat, columns : SUBSET ErdColumns]
ErdEnds      == [table : Nat, column : STRING]
ErdRelations == [from : ErdEnds, to : ErdEnds, cardinality : STRING]

ASSUME SchemasAreTyped == /\ Schemas \subseteq [tables : Seq(ErdTables), relations : Seq(ErdRelations)]
                          /\ \A schema \in Schemas : \A t \in Range(schema.tables) : IsFiniteSet(t.columns)
ASSUME FlagsAreTyped == Flags \subseteq [tables : Seq(SUBSET Nat), domains : Seq(SUBSET Nat), key : BOOLEAN, hide : BOOLEAN]

VARIABLES erdStep, flags, fitting, model, groups, unplaced, part, parts, tooLarge, written, out, erdStatus
erdVars == <<erdStep, flags, fitting, model, groups, unplaced, part, parts, tooLarge, written, out, erdStatus>>

-----------------------------------------------------------------------------
\* schemaModel: a schema is [tables, relations], both sequences.
Named(tables, name) == {i \in DOMAIN tables : tables[i].name = name}

EndIsKnown(tables, end) == \E i \in Named(tables, end.table) : \E c \in tables[i].columns : c.name = end.column

SchemaIsInvalid(schema) ==
    \/ \E i \in DOMAIN schema.tables : Cardinality(Named(schema.tables, schema.tables[i].name)) > 1
    \/ \E r \in Range(schema.relations) : \/ ~EndIsKnown(schema.tables, r.from) \/ ~EndIsKnown(schema.tables, r.to)
                                          \/ r.cardinality \notin {"many-to-one", "one-to-one"}

\* The tables a column refers to, which a table keeps when those tables are left out.
RefersTo(schema, table, column) ==
    {r.to.table : r \in {x \in Range(schema.relations) : x.from = [table |-> table, column |-> column]}}

WithReferences(schema) ==
    LET Referring(t) == [t EXCEPT !.columns = {[c EXCEPT !.references = RefersTo(schema, t.name, c.name)] : c \in @}]
    IN [tables |-> [i \in DOMAIN schema.tables |-> Referring(schema.tables[i])], relations |-> schema.relations]

\* --tables: what is kept keeps its number, in which nothing but the order of the files could show.
ModelSubset(m, names) ==
    [tables |-> Restrict(m.tables, {i \in DOMAIN m.tables : m.tables[i].name \in names}),
     relations |-> Restrict(m.relations, {i \in DOMAIN m.relations : {m.relations[i].from.table, m.relations[i].to.table} \subseteq names})]
TableNames(m) == {t.name : t \in Range(m.tables)}

\* --domains: the first domain with a pattern for the table replaces the table's own.
WithDomains(m, patterns) ==
    LET Matching(t) == {d \in DOMAIN patterns : t.name \in patterns[d]}
        Placed(t)   == IF Matching(t) = {} THEN t ELSE [t EXCEPT !.domain = Min(Matching(t))]
    IN [m EXCEPT !.tables = [i \in DOMAIN m.tables |-> Placed(m.tables[i])]]

-----------------------------------------------------------------------------
\* erdD2: what a part shows.
RelationEndColumns(m) == UNION {{r.from, r.to} : r \in Range(m.relations)}
IsKeyColumn(c) == c.primaryKey \/ c.unique \/ c.references # {}
VisibleColumns(m, t, asked) ==
    {c \in t.columns : \/ [table |-> t.name, column |-> c.name] \in RelationEndColumns(m)
                       \/ (asked.key => IsKeyColumn(c)) /\ ~(asked.hide /\ c.service)}
ErdD2(m, names) ==
    [tables |-> {[name |-> t.name, domain |-> t.domain, rows |-> VisibleColumns(m, t, flags)] : t \in {x \in Range(m.tables) : x.name \in names}},
     edges  |-> {r \in Range(m.relations) : {r.from.table, r.to.table} \subseteq names /\ r.from.table # r.to.table}]

-----------------------------------------------------------------------------
\* splitIntoParts.  Relations between t and u count at both ends.
Joining(t, u)    == {i \in DOMAIN model.relations : {model.relations[i].from.table, model.relations[i].to.table} = {t, u}}
Neighbours(m, S) == S \cup UNION {{r.from.table, r.to.table} : r \in {x \in Range(m.relations) : {x.from.table, x.to.table} \cap S # {}}}

Component(m, t) == LET reached[n \in Nat] == IF n = 0 THEN {t} ELSE Neighbours(m, reached[n - 1]) IN reached[Cardinality(DOMAIN m.tables)]

\* The elements of a set one after the other: the nth has n - 1 before it.
Ordered(S, Before(_, _)) == [n \in 1..Cardinality(S) |-> CHOOSE x \in S : Cardinality({y \in S \ {x} : Before(y, x)}) = n - 1]
ConnectedComponents(m)   == Ordered({Component(m, t) : t \in TableNames(m)}, LAMBDA s, t : Min(s) < Min(t))

DomainOf(m, t) == (CHOOSE x \in Range(m.tables) : x.name = t).domain
\* The groups of a component by domain, the tables without one last.
DomainGroups(m, component) ==
    LET domains == Ordered({DomainOf(m, t) : t \in component}, LAMBDA d, e : e = 0 \/ (d # 0 /\ d < e))
    IN [i \in DOMAIN domains |-> [whole |-> FALSE, tables |-> {t \in component : DomainOf(m, t) = domains[i]}]]

NeighbourCount(t, among) == Cardinality({u \in among : Joining(t, u) # {}})
MostConnectedSeed == CHOOSE t \in unplaced : \A u \in unplaced \ {t} :
    \/ NeighbourCount(t, unplaced) > NeighbourCount(u, unplaced)
    \/ NeighbourCount(t, unplaced) = NeighbourCount(u, unplaced) /\ t < u

RelationsIntoPart(t) == Cardinality(UNION {Joining(t, u) : u \in part})
NextCandidate == CHOOSE t \in unplaced : \A u \in unplaced \ {t} :
    \/ RelationsIntoPart(t) > RelationsIntoPart(u)
    \/ RelationsIntoPart(t) = RelationsIntoPart(u) /\ t < u

\* What a table that does not fit alone may be drawn with instead; of rows of one length any may count as the longest.
With(option)        == [flags EXCEPT ![option] = TRUE]
LongestRow(columns) == CHOOSE c \in columns : \A d \in columns : d.row <= c.row
SingleTableRemedy(m, t, code) ==
    LET shown == VisibleColumns(m, t, flags)
        RemovesCause(option) == LET hidden == shown \ VisibleColumns(m, t, With(option))
                                IN IF code = "DIAGRAM-TOO-WIDE" THEN LongestRow(shown) \in hidden ELSE hidden # {}
        offers == {option \in {"key", "hide"} : ~flags.key /\ (option = "hide" => ~flags.hide) /\ RemovesCause(option)}
    IN IF offers = {} THEN {"document table"} ELSE offers

\* planErdDiagrams: a drawing for every part.
PlannedDiagrams == [n \in DOMAIN parts |-> ErdD2(model, parts[n])]

-----------------------------------------------------------------------------
NoModel == [tables |-> <<>>, relations |-> <<>>]
ErdInit == /\ erdStep = "start" /\ erdStatus = "none" /\ flags \in Flags /\ fitting \in Fittings
           /\ model = NoModel /\ groups = <<>> /\ unplaced = {} /\ part = {} /\ parts = <<>> /\ tooLarge = {}
           /\ written = 0 /\ out \in Earlier

Leaves(code) == erdStep' = "over" /\ erdStatus' = code
Given == UNCHANGED <<flags, fitting>>
Plan  == <<groups, unplaced, part, parts, tooLarge>>
PlanFiles == <<written, out, erdStatus>>

\* Preflight and the reading of the source may fail; a schema with a problem is only reported.
ReadSchema ==
    /\ erdStep = "start" /\ Given /\ UNCHANGED <<unplaced, part, parts, tooLarge, written, out>>
    /\ \/ Leaves("1") /\ UNCHANGED <<model, groups>>
       \/ \E schema \in Schemas :
            LET source == WithReferences(schema)
                named  == IF flags.tables = <<>> THEN TableNames(source) ELSE flags.tables[1]
            IN IF SchemaIsInvalid(schema) \/ ~(named \subseteq TableNames(source))
               THEN Leaves("1") /\ UNCHANGED <<model, groups>>
               ELSE /\ erdStep' = "place" /\ UNCHANGED erdStatus
                    /\ model' = WithDomains(ModelSubset(source, named), flags.domains)
                    /\ groups' = [i \in DOMAIN ConnectedComponents(model') |->
                                    [whole |-> TRUE, tables |-> ConnectedComponents(model')[i]]]

\* placedWhole: a component, or a group of one, that fits is a part.
PlaceWhole ==
    /\ erdStep = "place" /\ groups # <<>> /\ Given /\ UNCHANGED <<model, part, tooLarge, PlanFiles>>
    /\ LET group == Head(groups) IN
       IF group.tables \in fitting
       THEN parts' = Append(parts, group.tables) /\ groups' = Tail(groups) /\ UNCHANGED <<erdStep, unplaced>>
       ELSE IF group.whole
       THEN groups' = DomainGroups(model, group.tables) \o Tail(groups) /\ UNCHANGED <<erdStep, unplaced, parts>>
       ELSE erdStep' = "seed" /\ unplaced' = group.tables /\ groups' = Tail(groups) /\ UNCHANGED parts

SeedPart ==
    /\ erdStep = "seed" /\ Given /\ UNCHANGED <<model, groups, parts, PlanFiles>>
    /\ IF unplaced = {} THEN erdStep' = "place" /\ UNCHANGED <<unplaced, part, tooLarge>>
       ELSE /\ unplaced' = unplaced \ {MostConnectedSeed}
            /\ IF {MostConnectedSeed} \in fitting
               THEN erdStep' = "grow" /\ part' = {MostConnectedSeed} /\ UNCHANGED tooLarge
               ELSE tooLarge' = tooLarge \cup {MostConnectedSeed} /\ UNCHANGED <<erdStep, part>>

\* Mutant: the candidate leaves the unplaced tables before it is measured.
GrowTakesFirst ==
    /\ erdStep = "grow" /\ Given /\ UNCHANGED <<model, groups, tooLarge, PlanFiles>>
    /\ IF unplaced # {} /\ part \cup {NextCandidate} \in fitting
       THEN part' = part \cup {NextCandidate} /\ unplaced' = unplaced \ {NextCandidate} /\ UNCHANGED <<erdStep, parts>>
       ELSE /\ parts' = Append(parts, part) /\ part' = {} /\ erdStep' = "seed"
            /\ unplaced' = IF unplaced = {} THEN {} ELSE unplaced \ {NextCandidate}

\* A part grows until its next candidate does not fit.
GrowPart ==
    /\ erdStep = "grow" /\ Given /\ UNCHANGED <<model, groups, tooLarge, PlanFiles>>
    /\ IF unplaced # {} /\ part \cup {NextCandidate} \in fitting
       THEN part' = part \cup {NextCandidate} /\ unplaced' = unplaced \ {NextCandidate} /\ UNCHANGED <<erdStep, parts>>
       ELSE parts' = Append(parts, part) /\ part' = {} /\ erdStep' = "seed" /\ UNCHANGED unplaced

Planned == erdStep = "place" /\ groups = <<>>
ErdReport  == Planned /\ tooLarge # {} /\ Leaves("1") /\ Given /\ UNCHANGED <<model, Plan, written, out>>

\* Mutant: the drawings of an earlier plan stay beside the new ones.
KeepOut  == Planned /\ tooLarge = {} /\ erdStep' = "write" /\ Given /\ UNCHANGED <<model, Plan, PlanFiles>>
ClearOut == /\ Planned /\ tooLarge = {} /\ erdStep' = "write" /\ out' = << >>
            /\ Given /\ UNCHANGED <<model, Plan, written, erdStatus>>

\* erd-NN.d2, one after the other.
WriteDiagram ==
    /\ erdStep = "write" /\ Given /\ UNCHANGED <<model, Plan>>
    /\ IF written = Len(parts) THEN Leaves("0") /\ UNCHANGED <<written, out>>
       ELSE /\ written' = written + 1
            /\ out' = [n \in DOMAIN out \cup {written'} |-> IF n = written' THEN PlannedDiagrams[n] ELSE out[n]]
            /\ UNCHANGED <<erdStep, erdStatus>>

\* d2 fails on a part, which ends the command; a full disk or a signal ends it anywhere.
D2Fails == erdStep \in {"place", "seed", "grow"} /\ Leaves("1") /\ Given /\ UNCHANGED <<model, Plan, written, out>>
Stopped == erdStep # "over" /\ Leaves("stopped") /\ Given /\ UNCHANGED <<model, Plan, written, out>>

ErdNext == ReadSchema \/ PlaceWhole \/ SeedPart \/ GrowPart \/ ErdReport \/ ClearOut \/ WriteDiagram \/ D2Fails \/ Stopped
ErdSpec == ErdInit /\ [][ErdNext]_erdVars

-----------------------------------------------------------------------------
RowsDiffer(columns) == \A c, d \in columns : c.row = d.row => c = d

(* When the plan is made every table is in one part or is reported as too      *)
(* large alone, every part fits, no part joins tables without a relation but   *)
(* those of one domain, and a part with two domains is all that is connected.  *)
(* In a part every relation but a self-reference is drawn, between two rows    *)
(* that are shown whatever columns are left out.  A flag that is offered for a *)
(* table that is too wide alone, and has no two rows of one length, leaves only *)
(* shorter rows; one offered for a table that is too tall leaves fewer rows.   *)
PartsCoverTheSchema ==
    Planned =>
      /\ \A t \in TableNames(model) : Cardinality({n \in DOMAIN parts : t \in parts[n]}) = IF t \in tooLarge THEN 0 ELSE 1
      /\ \A t \in tooLarge : {t} \notin fitting
      /\ \A t \in {x \in Range(model.tables) : x.name \in tooLarge} : \A option \in {"key", "hide"} :
           LET Rows(asked) == VisibleColumns(model, t, asked) IN
           /\ option \in SingleTableRemedy(model, t, "DIAGRAM-TOO-WIDE") /\ RowsDiffer(t.columns) => \A c \in Rows(With(option)) : \E d \in Rows(flags) : c.row < d.row
           /\ option \in SingleTableRemedy(model, t, "DIAGRAM-TOO-TALL") => Cardinality(Rows(With(option))) < Cardinality(Rows(flags))
      /\ \A n \in DOMAIN parts :
           /\ parts[n] \in fitting
           /\ \E t \in parts[n] : \/ parts[n] = Component(model, t)
                                  \/ parts[n] \subseteq {u \in Component(model, t) : DomainOf(model, u) = DomainOf(model, t)}
           /\ LET drawn == ErdD2(model, parts[n]) IN
              \A r \in Range(model.relations) : {r.from.table, r.to.table} \subseteq parts[n] =>
                /\ r \in drawn.edges \/ r.from.table = r.to.table
                /\ \A end \in {r.from, r.to} : \E t \in drawn.tables : t.name = end.table /\ \E c \in t.rows : c.name = end.column

(* The files are those of one plan: of this one after a success, of an earlier *)
(* one after a report; only a command that is stopped leaves a part of a plan. *)
OutIsOnePlan == /\ erdStatus = "0" => out = PlannedDiagrams
                /\ erdStatus = "1" => out \in Earlier /\ written = 0
=============================================================================
