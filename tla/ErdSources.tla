----------------------------- MODULE ErdSources -----------------------------
(* The sources of figura erd: what a PostgreSQL database, db/schema.rb, Prisma *)
(* models or TypeORM classes declare becomes tables and relations.  A name is  *)
(* the sequence of its words, whatever their case; a schema or a TypeScript    *)
(* file is its tokens; the types of columns are left out.                      *)
EXTENDS SchemaTexts, Functions

CONSTANTS Sources,    \* [kind, declares, database]: a source, and the database that its tool makes of it
          SingularOf, \* Rails: the singular of a table's name
          ModelRank   \* Prisma: the order of the models' names

VARIABLES source, read
sourceVars == <<source, read>>

Column(name, key, unique, nullable) == [name |-> name, primaryKey |-> key, unique |-> unique, nullable |-> nullable]
End(table, column) == [table |-> table, column |-> column]

ForeignKeyCardinality(columns, name) ==
    LET named == SelectSeq(columns, LAMBDA c : c.name = name)
        keys  == SelectSeq(columns, LAMBDA c : c.primaryKey)
    IN IF named # <<>> /\ (named[1].unique \/ (named[1].primaryKey /\ Len(keys) = 1)) THEN "one-to-one" ELSE "many-to-one"
\* columnsOfTable: of two tables with one name the later one counts.
ColumnsOf(tables, name) == LET named == SelectSeq(tables, LAMBDA t : t.name = name)
                           IN IF named = <<>> THEN <<>> ELSE Last(named).columns
Related(tables, from, to) == [from |-> from, to |-> to, cardinality |-> ForeignKeyCardinality(ColumnsOf(tables, from.table), from.column)]
Schema(tables, relations, skipped) ==
    [tables |-> tables, skipped |-> skipped, relations |-> [i \in DOMAIN relations |-> Related(tables, relations[i].from, relations[i].to)]]
Failed == [failed |-> TRUE]

-----------------------------------------------------------------------------
(* psql: the catalog query.  Of the indexes a column is unique by one that is  *)
(* on it alone and on every row; partitions, and keys to other schemas, are    *)
(* not read.                                                                   *)
IsUniqueAlone(table, name) ==
    \E i \in table.indexes : i.unique /\ ~i.primary /\ i.columns = {name} /\ ~i.partial
CatalogTable(table) ==
    [name |-> table.name,
     columns |-> [i \in DOMAIN table.columns |->
                    LET c == table.columns[i]
                    IN Column(c.name, c.name \in table.primary, IsUniqueAlone(table, c.name), ~c.notNull)]]
ReadPostgres(database) ==
    LET shown == SelectSeq(database.tables, LAMBDA t : ~t.partition)
        names == {t.name : t \in Range(shown)}
        keys  == SelectSeq(database.foreignKeys, LAMBDA k : {k.table, k.target} \subseteq names)
        Pairs(k) == [i \in DOMAIN k.columns |-> [from |-> End(k.table, k.columns[i]), to |-> End(k.target, k.targets[i])]]
    IN Schema([i \in DOMAIN shown |-> CatalogTable(shown[i])], FlattenSeq([i \in DOMAIN keys |-> Pairs(keys[i])]), {})

-----------------------------------------------------------------------------
(* rails: create_table opens a table, t.<method> lines add to it, `end` closes *)
(* it.                                                                         *)
MethodsWithoutColumns == {"index", "unique_constraint", "check_constraint", "exclusion_constraint"}
IsFalse(value) == value = [is |-> "literal", name |-> <<"false">>]
IsTrue(value)  == value = [is |-> "literal", name |-> <<"true">>]
\* Undefined and nil give the default; a list stays one, which is the name of no column.
NameOr(value, default) == CASE value.is = "string" -> value.name
                            [] value.is = "list"   -> <<"[">> \o FlattenSeq(NamesIn(value))
                            [] OTHER               -> default

CreatedTable(call) ==
    LET key == Lookup(call.options, "primary_key")
        id  == ~IsFalse(Lookup(call.options, "id"))
    IN [name |-> call.positional[1].name, unique |-> {},
        composite |-> IF key.is = "list" THEN Range(NamesIn(key)) ELSE IF ~id /\ key.is = "string" THEN {key.name} ELSE {},
        columns |-> IF id /\ key.is # "list" THEN <<Column(NameOr(key, <<"id">>), TRUE, FALSE, FALSE)>> ELSE <<>>]
ApplyTableMethod(table, method, call) ==
    LET alone == IF call.positional # <<>> /\ Len(NamesIn(call.positional[1])) = 1 THEN {NamesIn(call.positional[1])[1]} ELSE {}
        named == SelectSeq(call.positional, LAMBDA v : v.is = "string")
        option == [o \in {"unique", "where", "null", "primary_key"} |-> Lookup(call.options, o)]
        unique == method = "unique_constraint" \/ (method = "index" /\ IsTrue(option["unique"]) /\ option["where"] = Undefined)
        added  == [i \in DOMAIN named |-> Column(named[i].name, IsTrue(option["primary_key"]), FALSE, ~IsFalse(option["null"]))]
    IN [table EXCEPT !.unique = @ \cup IF unique THEN alone ELSE {},
                     !.columns = IF method \in MethodsWithoutColumns THEN @ ELSE @ \o added]
ReadRailsLine(so, line) ==
    LET first == line[1].value
        does  == {i \in DOMAIN line : IsWord(line, i, Words({"do"}))}
        Call(from, to) == CallArguments(SubSeq(line, from, to))
    IN CASE so.open # <<>> /\ first = <<"end">> -> [so EXCEPT !.tables = @ \o so.open, !.open = <<>>]
         [] so.open # <<>> /\ first = <<"t">> /\ IsPunctuation(line, 2, ".") /\ KindAt(line, 3) = "identifier"
              -> [so EXCEPT !.open = <<ApplyTableMethod(@[1], line[3].value[1], Call(4, Len(line)))>>]
         [] first = <<"create_table">>    -> [so EXCEPT !.open = <<CreatedTable(Call(2, IF does = {} THEN Len(line) ELSE Max(does) - 1))>>]
         [] first = <<"add_foreign_key">> -> [so EXCEPT !.keys = Append(@, Call(2, Len(line)))]
         [] OTHER                         -> so
RailsTable(table) ==
    [name |-> table.name,
     columns |-> [i \in DOMAIN table.columns |->
                    LET c == table.columns[i]
                    IN [c EXCEPT !.primaryKey = @ \/ c.name \in table.composite, !.unique = c.name \in table.unique]]]
RailsSchema(all) ==
    LET From(k) == End(k.positional[1].name, NameOr(Lookup(k.options, "column"), SingularOf[k.positional[2].name] \o <<"id">>))
        To(k)   == End(k.positional[2].name, NameOr(Lookup(k.options, "primary_key"), <<"id">>))
    IN Schema([i \in DOMAIN all.tables |-> RailsTable(all.tables[i])],
              [i \in DOMAIN all.keys |-> [from |-> From(all.keys[i]), to |-> To(all.keys[i])]], {})
ReadRails(lines) ==
    RailsSchema(FoldLeft(ReadRailsLine, [tables |-> <<>>, open |-> <<>>, keys |-> <<>>], SelectSeq(lines, LAMBDA l : l # <<>>)))

-----------------------------------------------------------------------------
(* prisma: the fields of a model that are not models themselves are columns,   *)
(* @relation(fields, references) the foreign keys.                             *)
ModelNames(models)  == {m.name : m \in Range(models)}
NamedModel(models, n)  == CHOOSE m \in Range(models) : m.name = n
ColumnNameOf(m, f)  == LET named == SelectSeq(m.fields, LAMBDA x : x.name = f) IN IF named = <<>> THEN f ELSE named[1].column
PrismaTable(models, composites, m) ==
    LET scalars == SelectSeq(m.fields, LAMBDA f : f.type \notin ModelNames(models) \cup composites)
    IN [name |-> m.table,
        columns |-> [i \in DOMAIN scalars |->
                       LET f == scalars[i]
                       IN Column(f.column, f.id \/ f.name \in m.key, f.unique \/ {f.name} \in m.uniqueSets, f.optional)]]
PrismaRelations(models, m) ==
    LET referring == SelectSeq(m.fields, LAMBDA f : f.type \in ModelNames(models) /\ f.fields # <<>> /\ f.references # <<>>)
        Pairs(f) == [i \in DOMAIN f.fields |-> [from |-> End(m.table, ColumnNameOf(m, f.fields[i])),
                                                to   |-> LET target == NamedModel(models, f.type)
                                                         IN End(target.table, ColumnNameOf(target, f.references[i]))]]
    IN FlattenSeq([i \in DOMAIN referring |-> Pairs(referring[i])])

\* Two lists of one another, by the name of their relation, are a join table; of a table's name it is drawn once.
IsListSide(models, f) == f.type \in ModelNames(models) /\ f.list /\ f.fields = <<>>
Opposite(models, m, f) == {g \in Range(NamedModel(models, f.type).fields) :
                             g # f /\ g.type = m.name /\ IsListSide(models, g) /\ g.relation = f.relation}
JoinOf(models, m, f) ==
    LET target == NamedModel(models, f.type)
        ends   == IF ModelRank[target.name] < ModelRank[m.name] THEN <<target, m>> ELSE <<m, target>>
    IN [name |-> IF f.relation # <<>> THEN f.relation ELSE ends[1].name \o <<"to">> \o ends[2].name, ends |-> ends]
SideJoins(models, m) ==
    LET sides == SelectSeq(m.fields, LAMBDA f : IsListSide(models, f) /\ Opposite(models, m, f) # {})
    IN [i \in DOMAIN sides |-> JoinOf(models, m, sides[i])]
JoinedModels(models) ==
    FoldLeft(LAMBDA joins, j : IF j.name \in {x.name : x \in Range(joins)} THEN joins ELSE Append(joins, j),
             <<>>, FlattenSeq([i \in DOMAIN models |-> SideJoins(models, models[i])]))
PrismaSchema(models, tables, joins) ==
    LET KeyOf(m) == SelectSeq(ColumnsOf(tables, m.table), LAMBDA c : c.primaryKey)
        side == <<<<"A">>, <<"B">>>>
        JoinTable(j) == [name |-> j.name, columns |-> [i \in 1..2 |-> Column(side[i], TRUE, FALSE, FALSE)]]
        JoinKeys(j)  == [i \in 1..2 |-> [from |-> End(j.name, side[i]), to |-> End(j.ends[i].table, KeyOf(j.ends[i])[1].name)]]
    IN IF \E j \in Range(joins) : \E i \in 1..2 : Len(KeyOf(j.ends[i])) # 1 THEN Failed
       ELSE Schema(tables \o [i \in DOMAIN joins |-> JoinTable(joins[i])],
                   FlattenSeq([i \in DOMAIN models |-> PrismaRelations(models, models[i])])
                     \o FlattenSeq([i \in DOMAIN joins |-> JoinKeys(joins[i])]), {})
PrismaOfModels(models, composites) ==
    PrismaSchema(models, [i \in DOMAIN models |-> PrismaTable(models, composites, models[i])], JoinedModels(models))
ReadPrisma(blocks) ==
    LET declared == SelectSeq(blocks, LAMBDA b : b.keyword = "model")
    IN PrismaOfModels([i \in DOMAIN declared |-> ParsedModel(declared[i])],
                      {b.name : b \in {x \in Range(blocks) : x.keyword = "type"}})

-----------------------------------------------------------------------------
(* typeorm: decorators.  What is not modelled there is left out, with its      *)
(* class and member in `skipped`.                                              *)

ColumnDecorators  == Words({"PrimaryGeneratedColumn", "PrimaryColumn", "Column", "CreateDateColumn", "UpdateDateColumn", "DeleteDateColumn"})
DateDecorators    == Words({"CreateDateColumn", "UpdateDateColumn", "DeleteDateColumn"})
RelationDecorators == Words({"ManyToOne", "OneToOne", "ManyToMany"})
UnsupportedMembers == Words({"VersionColumn", "ViewColumn", "ObjectIdColumn", "TreeParent", "TreeChildren", "TreeLevelColumn"})
UnsupportedClasses == Words({"TableInheritance", "ChildEntity", "Tree"})
TypescriptTypes   == Words({"string", "number", "boolean", "Date", "Buffer"})
ConstructorTypes  == Words({"String", "Number", "Boolean", "Date", "Buffer"})
ActiveRecordBase  == <<"Base", "Entity">>
Nothing == <<>>

\* What an object says of a key.  A name there that is not a string literal is printed as what it is, an object.
Option(value, key) == IF value.is = "object" /\ <<key>> \in DOMAIN value.entries THEN value.entries[<<key>>] ELSE Undefined
Says(value, key, word) == Option(value, key) = [is |-> "literal", name |-> <<word>>]
NameIn(value, key) == LET name == Option(value, key)
                      IN CASE name = Undefined -> Nothing [] name.is = "string" -> name.name [] OTHER -> <<"[object Object]">>
FirstOf(values)        == IF values = <<>> THEN Undefined ELSE values[1]
ObjectArgument(values) == FirstOf(SelectSeq(values, LAMBDA v : v.is = "object"))
Decorated(decorators, names) == SelectSeq(decorators, LAMBDA d : d.name \in names)
HasDecorator(m, name) == Decorated(m.decorators, {<<name>>}) # <<>>
\* What the first decorator of that name is given.
GivenTo(m, name) == IF HasDecorator(m, name) THEN Decorated(m.decorators, {<<name>>})[1].arguments ELSE <<>>

\* Of the type only whether the parser can tell it.
TypeIsTold(m, d) ==
    LET first   == FirstOf(d.arguments)
        options == ObjectArgument(d.arguments)
        declared == IF first.is \in {"string", "identifier"} THEN first ELSE Option(options, "type")
        written == SelectSeq(m.type, LAMBDA t : t.value \notin Words({"null", "undefined", "|"}))
    IN CASE declared = String(<<"enum">>) \/ (declared = Undefined /\ Option(options, "enum") # Undefined) -> TRUE
         [] declared.is = "string"        -> TRUE
         [] declared.is = "identifier"    -> declared.name \in ConstructorTypes
         [] d.name \in DateDecorators \/ Option(options, "length") # Undefined -> TRUE
         [] OTHER -> Len(written) = 1 /\ written[1].kind = "identifier" /\ written[1].value \in TypescriptTypes
IsUntold(m, d) == FirstOf(d.arguments).is = "arrow" \/ (d.name # <<"PrimaryGeneratedColumn">> /\ ~TypeIsTold(m, d))
MemberColumn(m, d) ==
    LET options == ObjectArgument(d.arguments)
        primary == d.name \in Words({"PrimaryGeneratedColumn", "PrimaryColumn"})
    IN [property |-> m.name]
       @@ Column(IF NameIn(options, "name") # Nothing THEN NameIn(options, "name") ELSE m.name,
                 primary \/ (d.name # <<"DeleteDateColumn">> /\ Says(options, "primary", "true")),
                 Says(options, "unique", "true"),
                 ~primary /\ (d.name = <<"DeleteDateColumn">> \/ Says(options, "nullable", "true")))

\* The first name in an arrow's body, or a string.
RelationTargetName(value) ==
    CASE value.is = "string" -> value.name
      [] value.is = "arrow"  -> LET names == SelectSeq(value.body, LAMBDA t : t.kind = "identifier")
                                IN IF names = <<>> THEN Nothing ELSE names[1].value
      [] OTHER               -> Nothing
JoinSpecifications(value) ==
    LET objects == IF value.is = "list" THEN SelectSeq(value.items, LAMBDA v : v.is = "object")
                   ELSE IF value.is = "object" THEN <<value>> ELSE <<>>
    IN [i \in DOMAIN objects |-> [name |-> NameIn(objects[i], "name"), references |-> NameIn(objects[i], "referencedColumnName")]]
RelationOf(m, d) ==
    LET table == ObjectArgument(GivenTo(m, "JoinTable"))
        Joins(many, one) == JoinSpecifications(IF Option(table, many) # Undefined THEN Option(table, many) ELSE Option(table, one))
    IN [class |-> m.class, name |-> m.name, kind |-> d.name[1], target |-> RelationTargetName(FirstOf(d.arguments)),
        nullable |-> ~Says(ObjectArgument(SubSeq(d.arguments, 2, Len(d.arguments))), "nullable", "false"),
        owns     |-> \/ d.name = <<"ManyToOne">>
                     \/ d.name = <<"OneToOne">> /\ HasDecorator(m, "JoinColumn")
                     \/ d.name = <<"ManyToMany">> /\ HasDecorator(m, "JoinTable"),
        joins    |-> IF d.name = <<"ManyToMany">> THEN Joins("joinColumns", "joinColumn") ELSE JoinSpecifications(FirstOf(GivenTo(m, "JoinColumn"))),
        inverse  |-> Joins("inverseJoinColumns", "inverseJoinColumn"),
        table    |-> NameIn(table, "name")]

\* The fields of an index or a constraint, in the first list, or arrow over the properties, among its arguments.
IndexedFieldNames(values) ==
    LET lists == SelectSeq(values, LAMBDA v : v.is \in {"list", "arrow"})
        Items(items) == SelectSeq(items, LAMBDA v : v.is = "string")
        Property(body) == SelectSeq([i \in DOMAIN body |-> [token |-> body[i], dotted |-> IsPunctuation(body, i - 1, ".")]],
                                    LAMBDA x : x.dotted /\ x.token.kind = "identifier")
    IN IF lists = <<>> THEN <<>>
       ELSE IF lists[1].is = "list" THEN LET named == Items(lists[1].items) IN [i \in DOMAIN named |-> named[i].name]
       ELSE LET named == Property(lists[1].body) IN [i \in DOMAIN named |-> named[i].token.value]
IsUniqueIndex(d) == \/ d.name = <<"Unique">>
                    \/ d.name = <<"Index">> /\ LET options == ObjectArgument(d.arguments)
                                               IN Says(options, "unique", "true") /\ Option(options, "where") = Undefined

-----------------------------------------------------------------------------
(* typeorm: inheritance. *)

HasParent(c) == c.parent \notin {Nothing, ActiveRecordBase}
NamedClass(classes, name) == SelectSeq(classes, LAMBDA c : c.name = name)
Lineage(classes, class) ==
    LET up[c \in Range(classes)] == IF ~HasParent(c) \/ NamedClass(classes, c.parent) = <<>> THEN <<c>>
                                    ELSE Append(up[NamedClass(classes, c.parent)[1]], c)
    IN up[class]
\* Mutant: a class does not override what it inherits.
AllMembers(ancestry) == FlattenSeq([i \in DOMAIN ancestry |-> ancestry[i].members])
\* The members of a class override those of its base classes.
MergedMembers(ancestry) ==
    FoldLeft(LAMBDA members, c : SelectSeq(members, LAMBDA m : m.name \notin {x.name : x \in Range(c.members)}) \o c.members,
             <<>>, ancestry)

EntityTableName(class) ==
    LET first == FirstOf(GivenTo(class, "Entity"))
    IN IF first.is = "string" THEN first.name ELSE IF NameIn(first, "name") # Nothing THEN NameIn(first, "name") ELSE class.name
\* What is not supported counts before a column, and a column before a relation.
IsUnsupported(m)  == Decorated(m.decorators, UnsupportedMembers) # <<>>
ColumnIn(m)   == IF IsUnsupported(m) THEN <<>> ELSE Decorated(m.decorators, ColumnDecorators)
RelationIn(m) == IF IsUnsupported(m) \/ ColumnIn(m) # <<>> THEN <<>> ELSE Decorated(m.decorators, RelationDecorators)
EntityWithMembers(class, ancestry, members) ==
    LET columns  == SelectSeq(members, LAMBDA m : ColumnIn(m) # <<>> /\ ~IsUntold(m, ColumnIn(m)[1]))
        relations == SelectSeq(members, LAMBDA m : RelationIn(m) # <<>>)
        constraints == {d \in UNION {Range(c.decorators) : c \in Range(ancestry)} : IsUniqueIndex(d)}
    IN [class |-> class.name, table |-> EntityTableName(class), implicit |-> <<>>, joinsOf |-> <<>>,
        columns |-> [i \in DOMAIN columns |-> MemberColumn(columns[i], ColumnIn(columns[i])[1])],
        relations |-> [i \in DOMAIN relations |-> RelationOf(relations[i], RelationIn(relations[i])[1])],
        uniques |-> {<<m.name>> : m \in {x \in Range(members) : \E d \in Range(x.decorators) : d.name = <<"Index">> /\ IsUniqueIndex(d)}}
                    \cup {IndexedFieldNames(d.arguments) : d \in constraints}]
EntityOfLineage(class, ancestry)  == EntityWithMembers(class, ancestry, MergedMembers(ancestry))
EntityWithColumns(classes, class) == EntityOfLineage(class, Lineage(classes, class))
SkippedOf(classes, class) ==
    LET members == Range(MergedMembers(Lineage(classes, class)))
    IN {<<m.class, m.name>> : m \in {x \in members : IsUnsupported(x) \/ (ColumnIn(x) # <<>> /\ IsUntold(x, ColumnIn(x)[1]))}}
         \cup {<<c.name, c.parent>> : c \in {x \in Range(Lineage(classes, class)) : HasParent(x) /\ NamedClass(classes, x.parent) = <<>>}}

-----------------------------------------------------------------------------
(* typeorm: relations. *)

\* referencedColumns: by property when every join names one, and else the key; <<>> when one is missing.
ReferencedColumns(entity, joins) ==
    LET Of(property) == SelectSeq(entity.columns, LAMBDA c : c.property = property)
    IN IF joins = <<>> \/ \E i \in DOMAIN joins : joins[i].references = Nothing THEN SelectSeq(entity.columns, LAMBDA c : c.primaryKey)
       ELSE IF \E i \in DOMAIN joins : Of(joins[i].references) = <<>> THEN <<>>
       ELSE [i \in DOMAIN joins |-> Of(joins[i].references)[1]]
JoinName(joins, i, default) == IF i \in DOMAIN joins /\ joins[i].name # Nothing THEN joins[i].name ELSE default

Marked(columns, names) == [i \in DOMAIN columns |-> [columns[i] EXCEPT !.unique = @ \/ columns[i].name \in names]]
AddJoinColumns(so, e, m, t) ==
    LET entity == so.entities[e]
        target == so.entities[t]
        referenced == ReferencedColumns(target, m.joins)
        names  == [i \in DOMAIN referenced |-> JoinName(m.joins, i, m.name \o referenced[i].property)]
        known  == {c.name : c \in Range(entity.columns) \cup Range(entity.implicit)}
        fresh  == SelectSeq(names, LAMBDA n : n \notin known)
        added  == [i \in DOMAIN fresh |-> [property |-> Nothing] @@ Column(fresh[i], FALSE, FALSE, m.nullable)]
        one    == IF m.kind = "OneToOne" THEN Range(names) ELSE {}
    IN IF referenced = <<>> THEN [so EXCEPT !.skipped = @ \cup {<<m.class, m.name>>}]
       ELSE [so EXCEPT !.entities[e].columns = Marked(@, one), !.entities[e].implicit = Marked(@ \o added, one),
                       !.entities[e].joinsOf = (m.name :> names) @@ @,
                       !.relations = @ \o [i \in DOMAIN names |-> [from |-> End(entity.table, names[i]), to |-> End(target.table, referenced[i].name)]]]
JunctionTable(so, e, m, t) ==
    LET ends == <<so.entities[e], so.entities[t]>>
        joins == <<m.joins, m.inverse>>
        referenced == [k \in 1..2 |-> ReferencedColumns(ends[k], joins[k])]
        table == IF m.table # Nothing THEN m.table ELSE ends[1].table \o m.name \o ends[2].table
        Name(k, i) == JoinName(joins[k], i, ends[k].table \o referenced[k][i].name)
        Columns(k) == [i \in DOMAIN referenced[k] |-> Column(Name(k, i), TRUE, FALSE, FALSE)]
        Relations(k) == [i \in DOMAIN referenced[k] |-> [from |-> End(table, Name(k, i)), to |-> End(ends[k].table, referenced[k][i].name)]]
    IN IF <<>> \in Range(referenced) THEN [so EXCEPT !.skipped = @ \cup {<<m.class, m.name>>}]
       ELSE [so EXCEPT !.junctions = Append(@, [name |-> table, columns |-> Columns(1) \o Columns(2)]), !.relations = @ \o Relations(1) \o Relations(2)]

EntityOf(so, name) == {t \in DOMAIN so.entities : name \in {so.entities[t].class, so.entities[t].table}}
Relate(so, e, m) ==
    CASE ~m.owns                        -> so
      [] EntityOf(so, m.target) = {}   -> [so EXCEPT !.skipped = @ \cup {<<m.class, m.name>>}]
      [] m.kind = "ManyToMany"         -> JunctionTable(so, e, m, Max(EntityOf(so, m.target)))
      [] OTHER                         -> AddJoinColumns(so, e, m, Max(EntityOf(so, m.target)))

\* A unique index, or class-level constraint, that is on one column.
MarkUniqueColumns(entity) ==
    LET ColumnsOfProperty(p) == IF p \in DOMAIN entity.joinsOf THEN Range(entity.joinsOf[p])
                                ELSE {c.name : c \in {x \in Range(entity.columns) : x.property = p}}
        alone == {u \in {ColumnsOfProperty(p[1]) : p \in {q \in entity.uniques : Len(q) = 1}} : Cardinality(u) = 1}
    IN [entity EXCEPT !.columns = Marked(@, UNION alone), !.implicit = Marked(@, UNION alone)]
EntityTable(entity) ==
    LET columns == entity.columns \o entity.implicit
    IN [name |-> entity.table, columns |-> [i \in DOMAIN columns |-> Restrict(columns[i], DOMAIN columns[i] \ {"property"})]]

Unrelated(classes, declared) ==
    [entities |-> [i \in DOMAIN declared |-> EntityWithColumns(classes, declared[i])], relations |-> <<>>, junctions |-> <<>>,
     skipped |-> {<<c.name>> : c \in {x \in Range(classes) : Decorated(x.decorators, UnsupportedClasses) # <<>>}}
                   \cup UNION {SkippedOf(classes, c) : c \in Range(declared)}]
RelateAll(so, e) == FoldLeft(LAMBDA s, m : Relate(s, e, m), so, so.entities[e].relations)
TypeormSchema(so) ==
    Schema([i \in DOMAIN so.entities |-> EntityTable(MarkUniqueColumns(so.entities[i]))] \o so.junctions, so.relations, so.skipped)
TypeormOfEntities(classes, declared) ==
    IF \E c \in Range(declared) : FirstOf(GivenTo(c, "Entity")).is \notin {"undefined", "string", "object"} THEN Failed  \* a TypeError
    ELSE TypeormSchema(FoldLeft(RelateAll, Unrelated(classes, declared), [i \in DOMAIN declared |-> i]))
TypeormOfClasses(classes) == TypeormOfEntities(classes, SelectSeq(classes, LAMBDA c : HasDecorator(c, "Entity")))
ReadTypeorm(files) == TypeormOfClasses(FlattenSeq([i \in DOMAIN files |-> ParsedClasses(files[i])]))

-----------------------------------------------------------------------------
SchemaOf(s) == CASE s.kind = "psql"    -> ReadPostgres(s.declares)
                 [] s.kind = "rails"   -> ReadRails(s.declares)
                 [] s.kind = "prisma"  -> ReadPrisma(s.declares)
                 [] s.kind = "typeorm" -> ReadTypeorm(s.declares)
                 [] s.kind = "manual"  -> s.declares
NotRead == [failed |-> FALSE]
SourcesInit == source \in Sources /\ read = NotRead
\* No file, a query that fails, a text that does not parse, a type that is not known.
CannotRead == read = NotRead /\ read' = Failed /\ UNCHANGED source
ReadSource == read = NotRead /\ read' = SchemaOf(source) /\ UNCHANGED source
SourcesNext == CannotRead \/ ReadSource

-----------------------------------------------------------------------------
(* figura/README.md: "one schema reads the same from any source", and every    *)
(* declaration that a parser does not model is named in a warning: a schema    *)
(* read without a warning is the one that psql reads from the database that    *)
(* the source declares, whatever was inherited, renamed, implied or joined;    *)
(* and with a warning every relation that is shown is one of that database.    *)
Unordered(schema) == [tables |-> {[name |-> t.name, columns |-> Range(t.columns)] : t \in Range(schema.tables)},
                      relations |-> Range(schema.relations)]
ReadsTheSame ==
    "tables" \in DOMAIN read =>
      LET real == ReadPostgres(source.database)
      IN /\ read.skipped = {} => /\ Unordered(read) = Unordered(real)
                                 /\ Len(read.tables) = Len(real.tables) /\ Len(read.relations) = Len(real.relations)
         /\ {<<r.from, r.to>> : r \in Range(read.relations)} \subseteq {<<r.from, r.to>> : r \in Range(real.relations)}
=============================================================================
