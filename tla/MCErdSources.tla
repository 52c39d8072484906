---------------------------- MODULE MCErdSources ----------------------------
(* Small databases, and the Rails schemas, Prisma models and TypeORM classes   *)
(* that declare them: users, posts of users, profiles that are one to a user,  *)
(* tags that are many to many with posts, and reviews with a key of two.       *)
EXTENDS ErdSources

Id      == <<"id">>
Users   == <<"users">>
Posts   == <<"posts">>
Tags    == <<"tags">>
Reviews == <<"reviews">>
Votes   == <<"votes">>
Vote    == <<"Vote">>
Email   == <<"email">>
UserId  == <<"user", "id">>
PostId  == <<"post", "id">>
TagId   == <<"tag", "id">>
Profiles == <<"profiles">>
PostTags == <<"posts", "tags">>

\* unique: how an email is; nullable: a post's author; shared: a profile's key is the user's; join: the join table's names.
Designs == [unique : {"no", "alone", "pair", "partial"}, nullable : BOOLEAN, shared : BOOLEAN, join : {"named", "implicit"}]
NamedJoins == {d \in Designs : d.join = "named"}

-----------------------------------------------------------------------------
Index(columns, partial) == [unique |-> TRUE, primary |-> FALSE, columns |-> columns, partial |-> partial]
DbTable(name, columns, nullable, key, indexes) ==
    [name |-> name, partition |-> FALSE, primary |-> key, indexes |-> indexes \cup {[Index(key, FALSE) EXCEPT !.primary = TRUE]},
     columns |-> [i \in DOMAIN columns |-> [name |-> columns[i], notNull |-> columns[i] \notin nullable]]]
DbKey(table, columns, target, targets) == [table |-> table, columns |-> columns, target |-> target, targets |-> targets]
EmailIndexes(d) == CASE d.unique = "alone"   -> {Index({Email}, FALSE)}
                     [] d.unique = "pair"    -> {Index({Email, Id}, FALSE)}
                     [] d.unique = "partial" -> {Index({Email}, TRUE)}
                     [] OTHER                -> {}
JoinNames(d) == IF d.join = "named" THEN [table |-> PostTags, columns |-> <<PostId, TagId>>]
                ELSE [table |-> <<"Post", "to", "Tag">>, columns |-> <<<<"A">>, <<"B">>>>]
DatabaseOf(d) ==
    LET join == JoinNames(d) IN
    [tables |-> <<DbTable(Users, <<Id, Email>>, {Email}, {Id}, EmailIndexes(d)),
                  DbTable(Posts, <<Id, UserId>>, IF d.nullable THEN {UserId} ELSE {}, {Id}, {}),
                  IF d.shared THEN DbTable(Profiles, <<UserId>>, {}, {UserId}, {})
                  ELSE DbTable(Profiles, <<Id, UserId>>, {}, {Id}, {Index({UserId}, FALSE)}),
                  DbTable(Tags, <<Id>>, {}, {Id}, {}),
                  DbTable(Reviews, <<PostId, UserId>>, {}, {PostId, UserId}, {}),
                  DbTable(Votes, <<Id, PostId, UserId>>, {}, {Id}, {}),
                  DbTable(join.table, join.columns, {}, Range(join.columns), {})>>,
     foreignKeys |-> <<DbKey(Posts, <<UserId>>, Users, <<Id>>), DbKey(Profiles, <<UserId>>, Users, <<Id>>),
                       DbKey(Reviews, <<PostId>>, Posts, <<Id>>), DbKey(Reviews, <<UserId>>, Users, <<Id>>),
                       DbKey(Votes, <<PostId, UserId>>, Reviews, <<PostId, UserId>>),
                       DbKey(join.table, <<join.columns[1]>>, Posts, <<Id>>), DbKey(join.table, <<join.columns[2]>>, Tags, <<Id>>)>>]
\* Partitions, and keys of or to what is not shown, are not read.
Partitioned(database) ==
    [tables |-> Append(database.tables, [DbTable(<<"posts", "old">>, <<Id, UserId>>, {}, {Id}, {}) EXCEPT !.partition = TRUE]),
     foreignKeys |-> database.foreignKeys \o <<DbKey(<<"posts", "old">>, <<UserId>>, Users, <<Id>>), DbKey(Posts, <<UserId>>, <<"elsewhere">>, <<Id>>)>>]

\* Tags that are many to many with themselves.
Tree == <<"tree">>
WithTree(d, database) ==
    IF d.join = "named" THEN database
    ELSE [tables |-> Append(database.tables, DbTable(Tree, <<<<"A">>, <<"B">>>>, {}, {<<"A">>, <<"B">>}, {})),
          foreignKeys |-> database.foreignKeys \o <<DbKey(Tree, <<<<"A">>>>, Tags, <<Id>>), DbKey(Tree, <<<<"B">>>>, Tags, <<Id>>)>>]

-----------------------------------------------------------------------------
\* A foreign key of two columns is one that a Rails reader has no columns for: votes are left out.
WithoutVotes(database) == [tables |-> SelectSeq(database.tables, LAMBDA t : t.name # Votes),
                           foreignKeys |-> SelectSeq(database.foreignKeys, LAMBDA k : k.table # Votes)]
\* Texts, as tokens.
Lexeme(kind, value) == <<[kind |-> kind, value |-> value, newline |-> FALSE]>>
P(mark)  == Lexeme("punctuation", <<mark>>)
W(words) == Lexeme("identifier", words)
K(word)  == W(<<word>>)
S(words) == Lexeme("string", words)
NewLine(tokens) == <<[tokens[1] EXCEPT !.newline = TRUE]>> \o Tail(tokens)
Commas(parts) == FlattenSeq([i \in DOMAIN parts |-> (IF i = 1 THEN <<>> ELSE P(",")) \o parts[i]])
Braced(fields) == P("{") \o Commas([i \in DOMAIN fields |-> K(fields[i][1]) \o P(":") \o fields[i][2]]) \o P("}")
ListOf(items)  == P("[") \o Commas(items) \o P("]")
Yes == K("true")
No  == K("false")
Labelled(word, tokens) == Lexeme("label", <<word>>) \o tokens
V(words) == Lexeme("value", words)
Create(name, options)  == K("create_table") \o Commas(<<V(name)>> \o options) \o K("do") \o P("|") \o K("t") \o P("|")
Method(method, parts)  == K("t") \o P(".") \o K(method) \o Commas(parts)
Foreign(table, target, options) == K("add_foreign_key") \o Commas(<<V(table), V(target)>> \o options)
RubyList(names)        == ListOf([i \in DOMAIN names |-> V(names[i])])
RailsOf(d) ==
    LET ends   == <<K("end")>>
        column(name) == Method("integer", <<V(name), Labelled("null", No)>>)
        unique == Labelled("unique", Yes)
        id(value) == Labelled("id", value)
        key(value) == Labelled("primary_key", value) IN
    <<K("ActiveRecord") \o P("::") \o K("Schema") \o K("do"), <<>>,
      Create(Users, <<id(V(<<"uuid">>))>>), Method("string", <<V(Email), Labelled("limit", Lexeme("number", <<"80">>))>>)>>
      \o (CASE d.unique = "alone"   -> <<Method("unique_constraint", <<RubyList(<<Email>>)>>)>>
            [] d.unique = "pair"    -> <<Method("index", <<RubyList(<<Email, Id>>), unique>>)>>
            [] d.unique = "partial" -> <<Method("index", <<RubyList(<<Email>>), Labelled("where", V(<<"active">>)), unique>>)>>
            [] OTHER                -> <<Method("index", <<RubyList(<<Email>>), Labelled("name", V(<<"by", "email">>))>>)>>)
      \o ends \o <<Create(Posts, <<Labelled("force", V(<<"cascade">>))>>), IF d.nullable THEN Method("bigint", <<V(UserId)>>) ELSE column(UserId)>>
      \o ends \o (IF d.shared THEN <<Create(Profiles, <<id(No), key(V(UserId))>>), column(UserId)>>
                  ELSE <<Create(Profiles, <<key(V(Id))>>), column(UserId), Method("index", <<RubyList(<<UserId>>), unique>>)>>)
      \o ends \o <<Create(Tags, <<>>)>> \o ends
      \o <<Create(Reviews, <<key(RubyList(<<PostId, UserId>>))>>), Method("integer", <<V(PostId), V(UserId), Labelled("null", No)>>)>> \o ends
      \o <<Create(PostTags, <<id(No), key(RubyList(<<PostId, TagId>>))>>), column(PostId), column(TagId)>> \o ends
      \o <<Foreign(Posts, Users, <<Labelled("column", V(UserId))>>), Foreign(Profiles, Users, <<Labelled("on_delete", V(<<"cascade">>))>>),
           Foreign(Reviews, Posts, <<>>), Foreign(Reviews, Users, <<key(V(Id))>>), Foreign(PostTags, Posts, <<>>), Foreign(PostTags, Tags, <<>>)>> \o ends

-----------------------------------------------------------------------------
Attribute(name, parts) == P("@") \o K(name) \o P("(") \o Commas(parts) \o P(")")
OnBlock(name, parts)   == P("@@") \o K(name) \o P("(") \o Commas(parts) \o P(")")
Idents(names)     == ListOf([i \in DOMAIN names |-> W(names[i])])
Scalar(name)      == W(name) \o K("Int")
BareAttribute(name)       == P("@") \o K(name)
Native            == P("@") \o K("db") \o P(".") \o K("Text")
Key(name)         == Scalar(name) \o BareAttribute("id") \o Attribute("default", <<K("autoincrement") \o P("(") \o P(")")>>)
\* A field is mapped to its column.
MapTo(column)     == Attribute("map", <<S(column)>>)
One(name, model, fields, references) ==
    W(name) \o K(model) \o Attribute("relation", <<K("fields") \o P(":") \o Idents(fields), K("references") \o P(":") \o Idents(references)>>)
List(name, model) == W(name) \o K(model) \o P("[") \o P("]")
Block(keyword, name, lines) == [keyword |-> keyword, name |-> <<name>>, lines |-> lines]
Model(name, table, lines)   == Block("model", name, Append(lines, OnBlock("map", <<S(table)>>)))
PrismaOf(d) ==
    LET post == <<"Post">> key == <<"key">> author == <<"author">>
        tags(model, other) == IF d.join = "implicit" THEN model ELSE other IN
    <<Model("User", Users, <<Key(Id), W(Email) \o K("String") \o P("?") \o Native, List(Posts, "Post"), List(Reviews, "Review"),
                             W(<<"home">>) \o K("Address") \o P("?")>>
              \o CASE d.unique = "pair"  -> <<OnBlock("unique", <<P("[") \o W(Email) \o P("(") \o K("sort") \o P(":") \o K("Desc") \o P(")") \o P(",") \o W(Id) \o P("]")>>)>>
                   [] d.unique = "alone" -> <<OnBlock("unique", <<K("fields") \o P(":") \o Idents(<<Email>>), K("map") \o P(":") \o S(<<"one">>)>>)>>
                   [] OTHER              -> <<OnBlock("index", <<Idents(<<Email>>)>>)>>),
      Block("type", "Address", <<Scalar(<<"street">>)>>),
      Model("Tag", Tags, <<Key(Id), List(<<"posts">>, tags("Post", "PostTag"))>>
                           \o IF d.join = "named" THEN <<>> ELSE <<List(<<"above">>, "Tag") \o Attribute("relation", <<S(Tree)>>),
                                                                   List(<<"below">>, "Tag") \o Attribute("relation", <<K("name") \o P(":") \o S(Tree)>>)>>),
      Model("Post", Posts, <<Key(key) \o MapTo(Id), W(author) \o K("Int") \o (IF d.nullable THEN P("?") ELSE <<>>) \o Attribute("map", <<K("name") \o P(":") \o S(UserId)>>),
                             One(<<"user">>, "User", <<author>>, <<Id>>), List(Reviews, "Review"), List(<<"tags">>, tags("Tag", "PostTag"))>>),
      Model("Profile", Profiles, (IF d.shared THEN <<Key(UserId)>> ELSE <<Key(Id), Scalar(UserId) \o BareAttribute("unique")>>)
                                   \o <<One(<<"user">>, "User", <<UserId>>, <<Id>>)>>),
      Model("Review", Reviews, <<Scalar(PostId), Scalar(author) \o MapTo(UserId), One(<<"user">>, "User", <<author>>, <<Id>>),
                                 One(<<"post">>, "Post", <<PostId>>, <<key>>), OnBlock("id", <<Idents(<<PostId, author>>)>>)>>),
      Model("Vote", Votes, <<Key(Id), Scalar(PostId), Scalar(UserId), One(<<"review">>, "Review", <<PostId, UserId>>, <<PostId, author>>)>>)>>
    \o (IF d.join = "implicit" THEN <<>>
        ELSE <<Model("PostTag", PostTags, <<Scalar(PostId), Scalar(TagId), One(<<"post">>, "Post", <<PostId>>, <<key>>), One(<<"tag">>, "Tag", <<TagId>>, <<Id>>),
                                            OnBlock("id", <<Idents(<<PostId, TagId>>)>>)>>)>>)

-----------------------------------------------------------------------------
\* TypeScript.
To(class) == P("(") \o P(")") \o P("=>") \o W(class)
At(name, given) == NewLine(P("@") \o K(name)) \o P("(") \o Commas(given) \o P(")")
Field(name, type) == NewLine(W(name)) \o P(":") \o W(type)
Key1(name)   == At("PrimaryColumn", <<>>) \o Field(name, <<"number">>)
TsClass(name, table, parent, members) ==
    (IF table = Nothing THEN <<>> ELSE At("Entity", <<S(table)>>)) \o NewLine(K("export")) \o K("class") \o W(name)
    \o (IF parent = Nothing THEN <<>> ELSE K("extends") \o W(parent)) \o P("{") \o members \o NewLine(P("}"))
Base(name) == TsClass(name, Nothing, Nothing, Key1(Id) \o At("Column", <<>>) \o Field(Email, <<"string">>))
JoinBy(name, references) == Braced(<<<<"name", S(name)>>, <<"referencedColumnName", S(references)>>>>)
NotNull == Braced(<<<<"nullable", No>>>>)

\* What the parser has to pass over, between the members.
Clutter == NewLine(K("private")) \o K("count") \o P("=") \o P("{") \o K("a") \o P(":") \o P("[") \o K("one") \o P("]") \o P("}") \o P(";")
           \o NewLine(K("get")) \o K("size") \o P("(") \o P(")") \o P(":") \o K("Map") \o P("<") \o K("string") \o P(",") \o K("Tag") \o P(">")
           \o P("{") \o K("return") \o P("{") \o P("}") \o P("}")
           \o NewLine(K("abstract")) \o K("load") \o P("<") \o K("T") \o P(">") \o P("(") \o K("x") \o P(":") \o K("T") \o P(")")
           \o NewLine(P("[")) \o K("Symbol") \o P(".") \o K("iterator") \o P("]") \o P("=") \o P("(") \o P(")") \o NewLine(P("=>")) \o K("Column")
           \o NewLine(K("static")) \o P("{") \o P("@") \o K("Column") \o P("}")
           \o NewLine(P("#")) \o K("cache") \o P("?") \o P(":") \o K("Record") \o P("<") \o K("string") \o P(",") \o NewLine(K("Tag")) \o P(">")

TypeormOf(d, base, odd) ==
    LET user == <<"User">> post == <<"Post">> tag == <<"Tag">> profile == <<"Profile">> review == <<"Review">>
        unique == <<"unique", Yes>> IN
    (IF d.unique # "pair" THEN <<>>
     ELSE IF d.nullable THEN At("Unique", <<S(<<"pair">>), ListOf(<<S(Email), S(Id)>>)>>)
     ELSE At("Index", <<P("(") \o K("u") \o P(")") \o P("=>") \o ListOf(<<K("u") \o P(".") \o W(Email), K("u") \o P(".") \o W(Id)>>), Braced(<<unique>>)>>))
    \o TsClass(user, Users, base,
         (CASE d.unique = "alone"   -> At("Index", <<Braced(<<unique>>)>>)
            [] d.unique = "partial" -> At("Index", <<Braced(<<unique, <<"where", S(<<"active">>)>>>>)>>)
            [] OTHER                -> <<>>)
         \o At("Column", <<S(<<"text">>), Braced(<<<<"nullable", Yes>>>>)>>) \o NewLine(K("readonly")) \o W(Email) \o P("!") \o P(":") \o W(<<"Text">>)
         \o NewLine(P("|")) \o K("null") \o P(";")
         \o At("OneToOne", <<To(profile)>>) \o Field(<<"profile">>, profile) \o (IF d.nullable THEN Clutter ELSE <<>>))
    \o TsClass(post, Posts, Nothing,
         At("PrimaryGeneratedColumn", <<S(<<"uuid">>)>>) \o Field(Id, <<"Uuid">>)
         \o At("ManyToOne", <<To(user)>> \o IF d.nullable THEN <<>> ELSE <<NotNull>>) \o Field(<<"user">>, user)
         \o At("ManyToMany", <<To(tag), K("t") \o P("=>") \o K("t") \o P(".") \o K("posts")>>)
         \o At("JoinTable", <<Braced(<<<<"name", S(PostTags)>>, <<"joinColumn", Braced(<<<<"name", S(PostId)>>>>)>>,
                                       IF d.shared THEN <<"inverseJoinColumn", JoinBy(TagId, Id)>>
                                       ELSE <<"inverseJoinColumns", ListOf(<<JoinBy(TagId, Id)>>)>>>>)>>) \o Field(<<"tags">>, tag) \o P("[") \o P("]"))
    \o TsClass(profile, Profiles, Nothing,
         (IF d.shared THEN At("Column", <<Braced(<<<<"primary", Yes>>>>)>>) \o Field(UserId, <<"number">>) ELSE Key1(Id))
         \o At("OneToOne", <<To(user), NotNull>>) \o At("JoinColumn", <<>>) \o Field(<<"user">>, user) \o P("=") \o K("none") \o P(";"))
    \o TsClass(tag, Tags, Nothing, Key1(Id) \o At("ManyToMany", <<To(post)>>) \o Field(<<"posts">>, post) \o P("[") \o P("]"))
    \o TsClass(review, Reviews, Nothing,
         At("PrimaryColumn", <<Braced(<<<<"name", S(PostId)>>, <<"type", S(<<"int">>)>>>>)>>) \o Field(<<"post">>, <<"Post">>) \o Key1(UserId)
         \o At("ManyToOne", <<To(post)>>) \o At("JoinColumn", <<Braced(<<<<"name", S(PostId)>>>>)>>) \o Field(<<"of">>, post)
         \o At("ManyToOne", <<S(Users)>>) \o Field(<<"user">>, user))
    \o TsClass(Vote, Votes, Nothing,
         Key1(Id) \o At("ManyToOne", <<To(review), NotNull>>)
         \o At("JoinColumn", <<ListOf(<<JoinBy(PostId, <<"post">>), JoinBy(UserId, UserId)>>)>>) \o Field(<<"review">>, review) \o odd)
\* An owned one to one is unique, also as a key.
TypeormDatabase(d) ==
    [DatabaseOf(d) EXCEPT !.tables[3].indexes = @ \cup {Index({UserId}, FALSE)}]
\* Declarations that the parser does not model.
Odd == {At("VersionColumn", <<>>) \o Field(<<"version">>, <<"number">>), At("Column", <<>>) \o Field(<<"extra">>, <<"Shape">>),
        At("Column", <<To(<<"Address">>)>>) \o Field(<<"address">>, <<"Address">>), At("ManyToOne", <<To(<<"Guest">>)>>) \o Field(<<"guest">>, <<"Guest">>),
        At("ManyToOne", <<To(<<"Tag">>)>>) \o At("JoinColumn", <<JoinBy(TagId, <<"slug">>)>>) \o Field(<<"tag">>, <<"Tag">>)}

-----------------------------------------------------------------------------
Source(kind, declares, database) == [kind |-> kind, declares |-> declares, database |-> database]
\* A schema that is written by hand.
Drawn(database) == Source("manual", ReadPostgres(database), database)
MCSources ==
    {Drawn([tables |-> <<>>, foreignKeys |-> <<>>])}
      \cup {Source("psql", Partitioned(DatabaseOf(d)), DatabaseOf(d)) : d \in Designs}
      \cup {Source("rails", RailsOf(d), WithoutVotes(DatabaseOf(d))) : d \in NamedJoins}
      \cup {Source("prisma", PrismaOf(d), WithTree(d, DatabaseOf(d))) : d \in {e \in Designs : e.unique # "partial"}}
      \cup {Source("typeorm", <<TypeormOf(d, <<"Keyed">>, <<>>), Base(<<"Keyed">>)>>, TypeormDatabase(d)) : d \in NamedJoins}
      \cup {Source("typeorm", <<Base(<<"Keyed">>), TypeormOf(d, <<"Keyed">>, odd)>>, TypeormDatabase(d)) : <<d, odd>> \in {e \in NamedJoins : e.shared} \X Odd}
      \cup {Source("typeorm", <<TypeormOf(d, <<"Missing">>, <<>>)>>, TypeormDatabase(d)) : d \in {e \in NamedJoins : e.shared}}
\* The project has a class of its own under the name of TypeORM's base class.
MCOwnBase  == LET base == TsClass(ActiveRecordBase, Nothing, Nothing, At("Column", <<Braced(<<<<"nullable", Yes>>>>)>>) \o Field(Email, <<"string">>))
                  user == TsClass(<<"User">>, Users, ActiveRecordBase, Key1(Id))
              IN {Source("typeorm", <<user, base>>, [DatabaseOf(d) EXCEPT !.tables = <<@[1]>>, !.foreignKeys = <<>>]) : d \in {e \in NamedJoins : e.unique = "no"}}
MCSingular == Posts :> <<"post">> @@ Users :> <<"user">> @@ Tags :> <<"tag">>
MCRank     == [m \in {<<"Post">>, <<"PostTag">>, <<"Profile">>, <<"Review">>, <<"Tag">>, <<"User">>, Vote} |->
                 CASE m = <<"Post">> -> 1 [] m = <<"PostTag">> -> 2 [] m = <<"Profile">> -> 3 [] m = <<"Review">> -> 4
                   [] m = <<"Tag">> -> 5 [] m = <<"User">> -> 6 [] OTHER -> 7]
MCErdSpec  == SourcesInit /\ [][SourcesNext]_sourceVars
=============================================================================
