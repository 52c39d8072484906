----------------------------- MODULE ErdProofs ------------------------------
(***************************************************************************)
(* A plan of figura erd covers the schema, and its files are those of one  *)
(* plan, for any schemas, flags and files of earlier commands, and whatever *)
(* d2 fits on a page.                                                      *)
(*                                                                         *)
(* Tables wait in groups: a component, or its tables of one domain.  The   *)
(* components are a partition because relations lead both ways (Closed,    *)
(* SameComponent); every step of the search moves tables from one place to *)
(* another (OnePlace), and what it moves into a part keeps it Joined.      *)
(***************************************************************************)
EXTENDS FiguraErd, FiniteSetTheorems, WellFoundedInduction, TLAPS

-----------------------------------------------------------------------------
(* Induction, as the least element of a set of naturals.                   *)
LEMMA LeastNat ==
    ASSUME NEW W \in SUBSET Nat, W # {}
    PROVE  \E n \in W : \A m \in W : n <= m
  <1>1. \A x, y \in Nat : y < x => <<y, x>> \in OpToRel(<, Nat)
    <2> SUFFICES ASSUME NEW x \in Nat, NEW y \in Nat, y < x
                 PROVE  <<y, x>> \in {ss \in Nat \X Nat : ss[1] < ss[2]}
      BY Zenon DEF OpToRel
    <2> QED OBVIOUS
  <1>2. PICK x \in W : \A y \in W : ~ (<<y, x>> \in OpToRel(<, Nat))
    BY NatLessThanWellFounded, WFMin
  <1>3. \A y \in W : ~ (y < x)
    BY <1>1, <1>2, Zenon
  <1> QED BY <1>3

-----------------------------------------------------------------------------
(* The elements of a finite set in a total order: each has its own number  *)
(* of elements before it, and every such number is taken.                  *)
Under(S, R, x) == {y \in S \ {x} : <<y, x>> \in R}

Total(S, R) ==
  /\ \A x, y \in S : x # y => (<<x, y>> \in R <=> <<y, x>> \notin R)
  /\ \A x, y, z \in S : x # y /\ y # z /\ x # z /\ <<x, y>> \in R /\ <<y, z>> \in R => <<x, z>> \in R

LEMMA UnderIsFinite ==
  ASSUME NEW S, IsFiniteSet(S), NEW R, NEW x \in S
  PROVE  IsFiniteSet(Under(S, R, x)) /\ Cardinality(Under(S, R, x)) \in 0..(Cardinality(S) - 1)
  <1>1. Under(S, R, x) \in SUBSET (S \ {x}) /\ IsFiniteSet(S \ {x}) /\ Cardinality(S \ {x}) = Cardinality(S) - 1
    BY FS_RemoveElement DEF Under
  <1>2. IsFiniteSet(Under(S, R, x)) /\ Cardinality(Under(S, R, x)) <= Cardinality(S) - 1
    BY <1>1, FS_Subset
  <1> QED BY <1>2, FS_CardinalityType

LEMMA UnderGrows ==
  ASSUME NEW S, IsFiniteSet(S), NEW R, Total(S, R), NEW x \in S, NEW y \in S, x # y, <<x, y>> \in R
  PROVE  Cardinality(Under(S, R, x)) < Cardinality(Under(S, R, y))
  <1>1. Under(S, R, x) \in SUBSET Under(S, R, y) /\ x \in Under(S, R, y) /\ x \notin Under(S, R, x)
    BY DEF Under, Total
  <1>2. /\ Cardinality(Under(S, R, x)) <= Cardinality(Under(S, R, y))
        /\ Cardinality(Under(S, R, x)) # Cardinality(Under(S, R, y))
    BY <1>1, UnderIsFinite, FS_Subset
  <1> QED BY <1>2, UnderIsFinite

LEMMA EveryRankIsTaken ==
  ASSUME NEW S, IsFiniteSet(S), NEW R, Total(S, R)
  PROVE  /\ \A x, y \in S : Cardinality(Under(S, R, x)) = Cardinality(Under(S, R, y)) => x = y
         /\ \A n \in 0..(Cardinality(S) - 1) : \E x \in S : Cardinality(Under(S, R, x)) = n
  <1> DEFINE rank == [x \in S |-> Cardinality(Under(S, R, x))]
             last == Cardinality(S) - 1
  <1>1. Cardinality(S) \in Nat
    BY FS_CardinalityType
  <1>2. rank \in [S -> 0..last]
    BY UnderIsFinite
  <1>3. \A x, y \in S : rank[x] = rank[y] => x = y
    <2> SUFFICES ASSUME NEW x \in S, NEW y \in S, x # y PROVE rank[x] # rank[y]
      OBVIOUS
    <2>1. rank[x] < rank[y] \/ rank[y] < rank[x]
      BY UnderGrows DEF Total
    <2>2. rank[x] \in Int /\ rank[y] \in Int
      BY <1>2
    <2> HIDE DEF rank
    <2> QED BY <2>1, <2>2
  <1>4. IsFiniteSet(0..last) /\ Cardinality(0..last) = Cardinality(S)
    BY <1>1, FS_Interval
  <1> HIDE DEF rank
  <1>5. rank \in Injection(S, 0..last)
    BY <1>2, <1>3 DEF Injection, IsInjective
  <1>6. rank \in Surjection(S, 0..last)
    BY <1>4, <1>5, FS_Injection
  <1>7. \A n \in 0..last : \E x \in S : rank[x] = n
    BY <1>6 DEF Surjection
  <1> QED BY <1>3, <1>7 DEF rank

(* So a set is Ordered by any total order on it, and one element comes     *)
(* before all others.                                                      *)
Chosen(S, R, f) ==
  /\ f = [n \in 1..Cardinality(S) |-> f[n]]
  /\ \A n \in 1..Cardinality(S) : (\E x \in S : Cardinality(Under(S, R, x)) = n - 1)
                                  => f[n] \in S /\ Cardinality(Under(S, R, f[n])) = n - 1

LEMMA OrderedIsBijection ==
  ASSUME NEW S, IsFiniteSet(S), NEW R, Total(S, R), NEW f, Chosen(S, R, f)
  PROVE  /\ f \in [1..Cardinality(S) -> S] /\ Cardinality(S) \in Nat
         /\ \A m, n \in 1..Cardinality(S) : f[m] = f[n] => m = n
         /\ \A x \in S : \E n \in 1..Cardinality(S) : f[n] = x
  <1>1. Cardinality(S) \in Nat
    BY FS_CardinalityType
  <1>2. \A n \in 1..Cardinality(S) : f[n] \in S /\ Cardinality(Under(S, R, f[n])) = n - 1
    <2> SUFFICES ASSUME NEW n \in 1..Cardinality(S) PROVE f[n] \in S /\ Cardinality(Under(S, R, f[n])) = n - 1
      OBVIOUS
    <2>1. \E x \in S : Cardinality(Under(S, R, x)) = n - 1
      <3>1. n - 1 \in 0..(Cardinality(S) - 1)
        BY <1>1
      <3> QED BY <3>1, EveryRankIsTaken
    <2> QED BY <2>1 DEF Chosen
  <1>0. f = [n \in 1..Cardinality(S) |-> f[n]]
    BY DEF Chosen
  <1>3. \A m, n \in 1..Cardinality(S) : f[m] = f[n] => m = n
    BY <1>1, <1>2
  <1>4. ASSUME NEW x \in S PROVE \E n \in 1..Cardinality(S) : f[n] = x
    <2> DEFINE n == Cardinality(Under(S, R, x)) + 1
    <2>1. n \in 1..Cardinality(S) /\ n - 1 = Cardinality(Under(S, R, x))
      BY <1>1, UnderIsFinite
    <2> HIDE DEF n
    <2>2. f[n] = x
      BY <1>2, <2>1, EveryRankIsTaken
    <2> QED BY <2>1, <2>2
  <1> QED BY <1>0, <1>1, <1>2, <1>3, <1>4

First(S, R, x) == \A y \in S \ {x} : <<x, y>> \in R

LEMMA FirstOfAll ==
  ASSUME NEW S, IsFiniteSet(S), S # {}, NEW R, Total(S, R)
  PROVE  \E x \in S : First(S, R, x)
  <1>1. Cardinality(S) \in Nat /\ 0 \in 0..(Cardinality(S) - 1)
    BY FS_CardinalityType, FS_EmptySet
  <1>2. PICK x \in S : Cardinality(Under(S, R, x)) = 0
    BY <1>1, EveryRankIsTaken
  <1>3. Under(S, R, x) = {}
    BY <1>2, UnderIsFinite, FS_EmptySet
  <1> QED BY <1>3 DEF Under, Total, First

-----------------------------------------------------------------------------
(* What a model is once it was read: tables by their names, and relations  *)
(* between columns of them.                                                *)
IsModel(m) ==
  /\ m = [tables |-> m.tables, relations |-> m.relations]
  /\ IsFiniteSet(DOMAIN m.tables) /\ \A i \in DOMAIN m.tables : m.tables[i] \in ErdTables /\ IsFiniteSet(m.tables[i].columns)
  /\ \A i, j \in DOMAIN m.tables : m.tables[i].name = m.tables[j].name => i = j
  /\ IsFiniteSet(DOMAIN m.relations) /\ \A i \in DOMAIN m.relations : m.relations[i] \in ErdRelations
  /\ \A r \in Range(m.relations) : EndIsKnown(m.tables, r.from) /\ EndIsKnown(m.tables, r.to)

LEMMA NamesAreFinite ==
  ASSUME NEW m, IsModel(m)
  PROVE  /\ IsFiniteSet(TableNames(m)) /\ TableNames(m) \subseteq Nat
         /\ Cardinality(TableNames(m)) \in Nat /\ Cardinality(DOMAIN m.tables) \in Nat
         /\ Cardinality(TableNames(m)) <= Cardinality(DOMAIN m.tables)
  <1> DEFINE name == [i \in DOMAIN m.tables |-> m.tables[i].name]
  <1>1. name \in Surjection(DOMAIN m.tables, TableNames(m))
    BY DEF TableNames, Range, Surjection
  <1>2. IsFiniteSet(DOMAIN m.tables)
    BY DEF IsModel
  <1> HIDE DEF name
  <1>3. IsFiniteSet(TableNames(m)) /\ Cardinality(TableNames(m)) <= Cardinality(DOMAIN m.tables)
    BY <1>1, <1>2, FS_Surjection
  <1>4. TableNames(m) \subseteq Nat
    BY DEF IsModel, TableNames, Range, ErdTables
  <1> QED BY <1>2, <1>3, <1>4, FS_CardinalityType

LEMMA MinIsLeast == ASSUME NEW S \in SUBSET Nat, S # {} PROVE Min(S) \in S /\ \A x \in S : Min(S) <= x
  <1>1. \E x \in S : \A y \in S : x <= y
    BY LeastNat
  <1> QED BY <1>1 DEF Min

-----------------------------------------------------------------------------
(* What is read is a model: its checks and its options keep tables apart   *)
(* and relations between columns of them.                                  *)
LEMMA NamesAreApart ==
  ASSUME NEW schema \in Schemas, ~ SchemaIsInvalid(schema),
         NEW i \in DOMAIN schema.tables, NEW j \in DOMAIN schema.tables, schema.tables[i].name = schema.tables[j].name
  PROVE  i = j
  <1> DEFINE same == Named(schema.tables, schema.tables[i].name)
  <1>1. DOMAIN schema.tables = 1..Len(schema.tables) /\ Len(schema.tables) \in Nat
    BY SchemasAreTyped
  <1>2. IsFiniteSet(same) /\ Cardinality(same) \in Nat
    <2>1. IsFiniteSet(1..Len(schema.tables)) /\ same \in SUBSET (1..Len(schema.tables))
      BY <1>1, FS_Interval DEF Named
    <2> QED BY <2>1, FS_Subset, FS_CardinalityType
  <1>3. ~ (Cardinality(same) > 1)
    BY DEF SchemaIsInvalid
  <1>4. i \in same /\ j \in same
    BY DEF Named
  <1> HIDE DEF same
  <1>5. ASSUME i # j PROVE FALSE
    <2>1. Cardinality({i}) = 1 /\ IsFiniteSet({i})
      BY FS_Singleton
    <2>2. {i} \in SUBSET same /\ {i} # same
      BY <1>4, <1>5
    <2>3. Cardinality({i}) < Cardinality(same)
      BY <1>2, <2>1, <2>2, FS_Subset
    <2> QED BY <1>2, <1>3, <2>1, <2>3
  <1> QED BY <1>5

LEMMA SourceIsModel == ASSUME NEW schema \in Schemas, ~ SchemaIsInvalid(schema) PROVE IsModel(WithReferences(schema))
  <1> DEFINE m == WithReferences(schema)
             tables == schema.tables
  <1>1. /\ tables \in Seq(ErdTables) /\ schema.relations \in Seq(ErdRelations)
        /\ \A i \in DOMAIN tables : tables[i] \in ErdTables /\ IsFiniteSet(tables[i].columns)
    BY SchemasAreTyped DEF Range
  <1>2. /\ m = [tables |-> m.tables, relations |-> m.relations] /\ m.relations = schema.relations
        /\ DOMAIN m.tables = DOMAIN tables
        /\ \A i \in DOMAIN tables : m.tables[i] = [tables[i] EXCEPT !.columns = {[c EXCEPT !.references = RefersTo(schema, tables[i].name, c.name)] : c \in @}]
    BY DEF WithReferences
  <1>3. IsFiniteSet(DOMAIN m.tables) /\ IsFiniteSet(DOMAIN m.relations) /\ \A i \in DOMAIN m.relations : m.relations[i] \in ErdRelations
    <2>1. /\ DOMAIN tables = 1..Len(tables) /\ Len(tables) \in Nat
          /\ DOMAIN schema.relations = 1..Len(schema.relations) /\ Len(schema.relations) \in Nat
      BY <1>1
    <2>2. \A n \in Nat : IsFiniteSet(1..n)
      BY FS_Interval
    <2> HIDE DEF m
    <2> QED BY <1>1, <1>2, <2>1, <2>2
  <1> HIDE DEF m
  <1>4. \A i \in DOMAIN tables : m.tables[i] \in ErdTables /\ m.tables[i].name = tables[i].name
                                /\ m.tables[i].columns = {[c EXCEPT !.references = RefersTo(schema, tables[i].name, c.name)] : c \in tables[i].columns}
    <2> SUFFICES ASSUME NEW i \in DOMAIN tables
                 PROVE  /\ m.tables[i] \in ErdTables /\ m.tables[i].name = tables[i].name
                        /\ m.tables[i].columns = {[c EXCEPT !.references = RefersTo(schema, tables[i].name, c.name)] : c \in tables[i].columns}
      OBVIOUS
    <2> DEFINE changed(c) == [c EXCEPT !.references = RefersTo(schema, tables[i].name, c.name)]
    <2>1. m.tables[i] = [tables[i] EXCEPT !.columns = {changed(c) : c \in tables[i].columns}] /\ tables[i] \in ErdTables
      BY <1>1, <1>2
    <2>2. ASSUME NEW c \in tables[i].columns PROVE changed(c) \in ErdColumns
      <3>1. c \in ErdColumns
        BY <2>1 DEF ErdTables
      <3>2. RefersTo(schema, tables[i].name, c.name) \in SUBSET Nat
        <4>1. \A r \in Range(schema.relations) : r.to.table \in Nat
          <5>1. \A k \in DOMAIN schema.relations : schema.relations[k] \in ErdRelations
            BY <1>1
          <5>2. \A x \in ErdRelations : x.to.table \in Nat
            BY DEF ErdRelations, ErdEnds
          <5> QED BY <5>1, <5>2 DEF Range
        <4> QED BY <4>1 DEF RefersTo
      <3> QED BY <3>1, <3>2 DEF ErdColumns
    <2> HIDE DEF changed
    <2>3. {changed(c) : c \in tables[i].columns} \in SUBSET ErdColumns
      BY <2>2
    <2>4. m.tables[i] \in ErdTables /\ m.tables[i].name = tables[i].name /\ m.tables[i].columns = {changed(c) : c \in tables[i].columns}
      BY <2>1, <2>3 DEF ErdTables
    <2> QED BY <2>4 DEF changed
  <1>5. ASSUME NEW i \in DOMAIN tables PROVE IsFiniteSet(m.tables[i].columns)
    <2> DEFINE changed(c) == [c EXCEPT !.references = RefersTo(schema, tables[i].name, c.name)]
               f == [c \in tables[i].columns |-> changed(c)]
    <2>1. m.tables[i].columns = {changed(c) : c \in tables[i].columns}
      BY <1>4
    <2> HIDE DEF changed
    <2>2. f \in Surjection(tables[i].columns, m.tables[i].columns)
      BY <2>1 DEF Surjection
    <2>3. IsFiniteSet(tables[i].columns)
      BY <1>1
    <2> QED BY <2>2, <2>3, FS_Surjection
  <1>6. \A i, j \in DOMAIN m.tables : m.tables[i].name = m.tables[j].name => i = j
    BY <1>2, <1>4, NamesAreApart
  <1>7. ASSUME NEW end, EndIsKnown(tables, end) PROVE EndIsKnown(m.tables, end)
    <2>1. PICK i \in Named(tables, end.table) : \E c \in tables[i].columns : c.name = end.column
      BY <1>7 DEF EndIsKnown
    <2>2. PICK c \in tables[i].columns : c.name = end.column
      BY <2>1
    <2>3. i \in DOMAIN tables /\ i \in Named(m.tables, end.table)
      BY <1>2, <1>4, <2>1 DEF Named
    <2> DEFINE d == [c EXCEPT !.references = RefersTo(schema, tables[i].name, c.name)]
    <2>4. d \in m.tables[i].columns
      BY <1>4, <2>3
    <2>5. d.name = c.name
      BY <1>1, <2>3 DEF ErdTables, ErdColumns
    <2> QED BY <2>2, <2>3, <2>4, <2>5 DEF EndIsKnown
  <1>8. \A r \in Range(m.relations) : EndIsKnown(m.tables, r.from) /\ EndIsKnown(m.tables, r.to)
    BY <1>2, <1>7 DEF SchemaIsInvalid
  <1>9. IsModel(m)
    BY <1>2, <1>3, <1>4, <1>5, <1>6, <1>8 DEF IsModel
  <1> QED BY <1>9 DEF m

LEMMA SubsetIsModel == ASSUME NEW m, IsModel(m), NEW names PROVE IsModel(ModelSubset(m, names))
  <1> DEFINE s == ModelSubset(m, names)
             kept == {i \in DOMAIN m.tables : m.tables[i].name \in names}
             drawn == {i \in DOMAIN m.relations : {m.relations[i].from.table, m.relations[i].to.table} \subseteq names}
  <1>1. /\ s = [tables |-> s.tables, relations |-> s.relations]
        /\ s.tables = [i \in kept |-> m.tables[i]] /\ s.relations = [i \in drawn |-> m.relations[i]]
    BY DEF ModelSubset, Restrict
  <1> HIDE DEF s
  <1>2. IsFiniteSet(kept) /\ IsFiniteSet(drawn)
    BY FS_Subset DEF IsModel
  <1>3. ASSUME NEW r \in Range(s.relations), NEW end \in {r.from, r.to} PROVE EndIsKnown(s.tables, end)
    <2>1. r \in Range(m.relations) /\ end.table \in names /\ EndIsKnown(m.tables, end)
      BY <1>1, <1>3 DEF Range, IsModel
    <2> QED BY <1>1, <2>1 DEF EndIsKnown, Named
  <1>4. /\ IsFiniteSet(DOMAIN s.tables) /\ IsFiniteSet(DOMAIN s.relations)
        /\ \A i \in DOMAIN s.tables : i \in DOMAIN m.tables /\ s.tables[i] = m.tables[i]
        /\ \A i \in DOMAIN s.relations : i \in DOMAIN m.relations /\ s.relations[i] = m.relations[i]
    BY <1>1, <1>2
  <1>5. IsModel(s)
    <2>1. /\ \A i \in DOMAIN s.tables : s.tables[i] \in ErdTables /\ IsFiniteSet(s.tables[i].columns)
          /\ \A i, j \in DOMAIN s.tables : s.tables[i].name = s.tables[j].name => i = j
      BY <1>4 DEF IsModel
    <2>2. \A i \in DOMAIN s.relations : s.relations[i] \in ErdRelations
      BY <1>4 DEF IsModel
    <2>3. \A r \in Range(s.relations) : EndIsKnown(s.tables, r.from) /\ EndIsKnown(s.tables, r.to)
      BY <1>3
    <2>4. s = [tables |-> s.tables, relations |-> s.relations]
      BY <1>1
    <2> QED BY <1>4, <2>1, <2>2, <2>3, <2>4 DEF IsModel
  <1> QED BY <1>5 DEF s

LEMMA PlacedIsModel ==
  ASSUME NEW m, IsModel(m), NEW patterns \in Seq(SUBSET Nat)
  PROVE  IsModel(WithDomains(m, patterns))
  <1> DEFINE p == WithDomains(m, patterns)
             matching(t) == {d \in DOMAIN patterns : t.name \in patterns[d]}
             placed(t) == IF matching(t) = {} THEN t ELSE [t EXCEPT !.domain = Min(matching(t))]
  <1>1. p = [tables |-> p.tables, relations |-> m.relations] /\ p.tables = [i \in DOMAIN m.tables |-> placed(m.tables[i])]
    <2>1. m = [tables |-> m.tables, relations |-> m.relations]
      BY DEF IsModel
    <2> DEFINE now == [i \in DOMAIN m.tables |-> placed(m.tables[i])]
    <2>2. p = [m EXCEPT !.tables = now]
      BY DEF WithDomains
    <2> HIDE DEF now, p
    <2>3. p = [tables |-> now, relations |-> m.relations]
      BY <2>1, <2>2
    <2> QED BY <2>3 DEF now
  <1> HIDE DEF p
  <1>2. ASSUME NEW t \in ErdTables PROVE placed(t) \in ErdTables /\ placed(t).name = t.name /\ placed(t).columns = t.columns
    <2>1. matching(t) \in SUBSET Nat
      OBVIOUS
    <2>2. matching(t) # {} => Min(matching(t)) \in Nat
      BY <2>1, MinIsLeast
    <2> QED BY <2>2 DEF ErdTables
  <1> HIDE DEF placed
  <1>3. \A i \in DOMAIN m.tables : /\ p.tables[i] \in ErdTables
                                  /\ p.tables[i].name = m.tables[i].name /\ p.tables[i].columns = m.tables[i].columns
    BY <1>1, <1>2 DEF IsModel
  <1>4. DOMAIN p.tables = DOMAIN m.tables /\ p.relations = m.relations
    BY <1>1
  <1>5. \A end : EndIsKnown(m.tables, end) => EndIsKnown(p.tables, end)
    BY <1>3, <1>4 DEF EndIsKnown, Named
  <1>6. IsModel(p)
    BY <1>1, <1>3, <1>4, <1>5 DEF IsModel
  <1> QED BY <1>6 DEF p

-----------------------------------------------------------------------------
(* Neighbours reach the same tables from both ends: a set without          *)
(* neighbours outside is entered from within only.                         *)
Closed(m, S) == Neighbours(m, S) = S

LEMMA NeighboursAreTables ==
  ASSUME NEW m, IsModel(m), NEW S \in SUBSET TableNames(m)
  PROVE  S \subseteq Neighbours(m, S) /\ Neighbours(m, S) \subseteq TableNames(m)
  <1>1. \A r \in Range(m.relations) : {r.from.table, r.to.table} \subseteq TableNames(m)
    BY DEF IsModel, EndIsKnown, Named, TableNames, Range
  <1> QED BY <1>1 DEF Neighbours

LEMMA NeighboursStayIn ==
  ASSUME NEW m, NEW C, Closed(m, C), NEW S \in SUBSET C
  PROVE  Neighbours(m, S) \subseteq C
  <1>1. \A r \in Range(m.relations) : {r.from.table, r.to.table} \cap S # {} => {r.from.table, r.to.table} \subseteq Neighbours(m, C)
    BY DEF Neighbours
  <1> QED BY <1>1 DEF Neighbours, Closed

LEMMA NeighboursStayOut ==
  ASSUME NEW m, NEW C, Closed(m, C), NEW S, S \cap C = {}
  PROVE  Neighbours(m, S) \cap C = {}
  <1>1. ASSUME NEW r \in Range(m.relations), {r.from.table, r.to.table} \cap S # {} PROVE {r.from.table, r.to.table} \cap C = {}
    <2>1. ASSUME {r.from.table, r.to.table} \cap C # {} PROVE FALSE
      <3>1. {r.from.table, r.to.table} \subseteq Neighbours(m, C)
        BY <2>1 DEF Neighbours
      <3> QED BY <1>1, <3>1 DEF Closed
    <2> QED BY <2>1
  <1> QED BY <1>1 DEF Neighbours

(* The recursive function of Component exists.                             *)
Steps(m, t) == CHOOSE f : f = [n \in Nat |-> IF n = 0 THEN {t} ELSE Neighbours(m, f[n - 1])]
FirstSteps(m, t, n, g) == g = [i \in 0..n |-> IF i = 0 THEN {t} ELSE Neighbours(m, g[i - 1])]

LEMMA FirstStepsExist == ASSUME NEW m, NEW t, NEW n \in Nat PROVE \E g : FirstSteps(m, t, n, g)
  <1> DEFINE W == {k \in Nat : ~ \E g : FirstSteps(m, t, k, g)}
  <1>1. ASSUME NEW k \in W, \A j \in W : k <= j PROVE FALSE
    <2>1. CASE k = 0
      <3>1. FirstSteps(m, t, 0, [i \in 0..0 |-> {t}])
        BY DEF FirstSteps
      <3> QED BY <2>1, <3>1
    <2>2. CASE k # 0
      <3>1. k \in Nat /\ k - 1 \in Nat /\ k - 1 \notin W
        BY <1>1, <2>2
      <3>2. PICK h : FirstSteps(m, t, k - 1, h)
        BY <3>1
      <3> DEFINE g == [i \in 0..k |-> IF i = k THEN Neighbours(m, h[k - 1]) ELSE h[i]]
      <3>3. \A i \in 0..k : g[i] = IF i = 0 THEN {t} ELSE Neighbours(m, g[i - 1])
        <4> SUFFICES ASSUME NEW i \in 0..k PROVE g[i] = IF i = 0 THEN {t} ELSE Neighbours(m, g[i - 1])
          OBVIOUS
        <4>1. CASE i = k
          <5>1. k - 1 \in 0..k /\ k - 1 # k
            BY <3>1
          <5> QED BY <2>2, <4>1, <5>1
        <4>2. CASE i # k
          <5>1. i \in 0..(k - 1) /\ g[i] = h[i]
            BY <3>1, <4>2
          <5>2. i # 0 => i - 1 \in 0..(k - 1) /\ i - 1 # k /\ g[i - 1] = h[i - 1]
            BY <3>1, <5>1
          <5>3. h[i] = IF i = 0 THEN {t} ELSE Neighbours(m, h[i - 1])
            BY <3>2, <5>1 DEF FirstSteps
          <5> HIDE DEF g
          <5> QED BY <5>1, <5>2, <5>3
        <4> QED BY <4>1, <4>2
      <3>4. g = [i \in 0..k |-> g[i]]
        OBVIOUS
      <3> HIDE DEF g
      <3>5. FirstSteps(m, t, k, g)
        BY <3>3, <3>4 DEF FirstSteps
      <3> QED BY <3>5
    <2> QED BY <2>1, <2>2
  <1>2. W = {}
    BY <1>1, LeastNat
  <1> QED BY <1>2

LEMMA FirstStepsAgree ==
  ASSUME NEW m, NEW t, NEW n \in Nat, NEW k \in Nat, NEW g, FirstSteps(m, t, n, g), NEW h, FirstSteps(m, t, k, h)
  PROVE  \A i \in Nat : i <= n /\ i <= k => g[i] = h[i]
  <1> DEFINE W == {i \in Nat : i <= n /\ i <= k /\ g[i] # h[i]}
  <1>1. ASSUME NEW i \in W, \A j \in W : i <= j PROVE FALSE
    <2>1. i \in Nat /\ i \in 0..n /\ i \in 0..k /\ g[i] # h[i]
      OBVIOUS
    <2>2. g[i] = IF i = 0 THEN {t} ELSE Neighbours(m, g[i - 1])
      BY <2>1 DEF FirstSteps
    <2>3. h[i] = IF i = 0 THEN {t} ELSE Neighbours(m, h[i - 1])
      BY <2>1 DEF FirstSteps
    <2>4. i # 0 => i - 1 \in Nat /\ i - 1 <= n /\ i - 1 <= k /\ i - 1 \notin W
      BY <1>1, <2>1
    <2>5. i # 0 => g[i - 1] = h[i - 1]
      BY <2>4
    <2> QED BY <2>1, <2>2, <2>3, <2>5
  <1>2. W = {}
    BY <1>1, LeastNat
  <1> QED BY <1>2

LEMMA StepByStep ==
  ASSUME NEW m, NEW t
  PROVE  /\ Component(m, t) = Steps(m, t)[Cardinality(DOMAIN m.tables)]
         /\ Steps(m, t)[0] = {t}
         /\ \A n \in Nat : n # 0 => Steps(m, t)[n] = Neighbours(m, Steps(m, t)[n - 1])
  <1> DEFINE upto(n) == CHOOSE g : FirstSteps(m, t, n, g)
             f == [n \in Nat |-> upto(n)[n]]
  <1>1. \A n \in Nat : FirstSteps(m, t, n, upto(n))
    BY FirstStepsExist
  <1> HIDE DEF upto
  <1>2. \A n \in Nat : f[n] = IF n = 0 THEN {t} ELSE Neighbours(m, f[n - 1])
    <2> SUFFICES ASSUME NEW n \in Nat PROVE f[n] = IF n = 0 THEN {t} ELSE Neighbours(m, f[n - 1])
      OBVIOUS
    <2>1. upto(n)[n] = IF n = 0 THEN {t} ELSE Neighbours(m, upto(n)[n - 1])
      <3>1. FirstSteps(m, t, n, upto(n)) /\ n \in 0..n
        BY <1>1
      <3> QED BY <3>1 DEF FirstSteps
    <2>2. n # 0 => n - 1 \in Nat /\ upto(n)[n - 1] = upto(n - 1)[n - 1]
      <3> SUFFICES ASSUME n # 0 PROVE n - 1 \in Nat /\ upto(n)[n - 1] = upto(n - 1)[n - 1]
        OBVIOUS
      <3>1. n - 1 \in Nat /\ n - 1 <= n /\ n - 1 <= n - 1
        OBVIOUS
      <3>2. FirstSteps(m, t, n, upto(n)) /\ FirstSteps(m, t, n - 1, upto(n - 1))
        BY <1>1, <3>1
      <3> QED BY <3>1, <3>2, FirstStepsAgree
    <2> QED BY <2>1, <2>2
  <1>3. f = [n \in Nat |-> IF n = 0 THEN {t} ELSE Neighbours(m, f[n - 1])]
    <2>1. f = [n \in Nat |-> f[n]]
      OBVIOUS
    <2> HIDE DEF f
    <2> QED BY <1>2, <2>1
  <1> HIDE DEF f
  <1>4. Steps(m, t) = [n \in Nat |-> IF n = 0 THEN {t} ELSE Neighbours(m, Steps(m, t)[n - 1])]
    BY <1>3 DEF Steps
  <1>5. Component(m, t) = Steps(m, t)[Cardinality(DOMAIN m.tables)]
    BY DEF Component, Steps
  <1> QED BY <1>4, <1>5

(* A component is closed: each step that is not the last adds a table, and *)
(* there are as many steps as tables.                                      *)
LEMMA StepsStayIn ==
  ASSUME NEW m, NEW t, NEW C, Closed(m, C), t \in C
  PROVE  \A n \in Nat : Steps(m, t)[n] \subseteq C
  <1> DEFINE W == {n \in Nat : ~ (Steps(m, t)[n] \subseteq C)}
  <1>1. ASSUME NEW n \in W, \A k \in W : n <= k PROVE FALSE
    <2>1. CASE n = 0
      BY <2>1, StepByStep
    <2>2. CASE n # 0
      <3>1. n \in Nat /\ n - 1 \in Nat /\ ~ (n <= n - 1)
        BY <2>2
      <3>2. Steps(m, t)[n - 1] \subseteq C
        BY <1>1, <3>1
      <3> QED BY <2>2, <3>1, <3>2, StepByStep, NeighboursStayIn
    <2> QED BY <2>1, <2>2
  <1>2. W = {}
    BY <1>1, LeastNat
  <1> QED BY <1>2

LEMMA StepsStayOut ==
  ASSUME NEW m, NEW t, NEW C, Closed(m, C), t \notin C
  PROVE  \A n \in Nat : Steps(m, t)[n] \cap C = {}
  <1> DEFINE W == {n \in Nat : Steps(m, t)[n] \cap C # {}}
  <1>1. ASSUME NEW n \in W, \A k \in W : n <= k PROVE FALSE
    <2>1. CASE n = 0
      BY <2>1, StepByStep
    <2>2. CASE n # 0
      <3>1. n \in Nat /\ n - 1 \in Nat /\ ~ (n <= n - 1)
        BY <2>2
      <3>2. Steps(m, t)[n - 1] \cap C = {}
        BY <1>1, <3>1
      <3> QED BY <2>2, <3>1, <3>2, StepByStep, NeighboursStayOut
    <2> QED BY <2>1, <2>2
  <1>2. W = {}
    BY <1>1, LeastNat
  <1> QED BY <1>2

LEMMA StepsAreOfTables ==
  ASSUME NEW m, IsModel(m), NEW t \in TableNames(m)
  PROVE  \A n \in Nat : /\ t \in Steps(m, t)[n] /\ Steps(m, t)[n] \subseteq TableNames(m)
                        /\ IsFiniteSet(Steps(m, t)[n]) /\ Cardinality(Steps(m, t)[n]) \in Nat
  <1> DEFINE W == {n \in Nat : ~ (t \in Steps(m, t)[n] /\ Steps(m, t)[n] \subseteq TableNames(m))}
  <1>1. ASSUME NEW n \in W, \A k \in W : n <= k PROVE FALSE
    <2>1. CASE n = 0
      BY <2>1, StepByStep
    <2>2. CASE n # 0
      <3>1. n \in Nat /\ n - 1 \in Nat /\ ~ (n <= n - 1)
        BY <2>2
      <3>2. t \in Steps(m, t)[n - 1] /\ Steps(m, t)[n - 1] \subseteq TableNames(m)
        BY <1>1, <3>1
      <3> QED BY <2>2, <3>1, <3>2, StepByStep, NeighboursAreTables
    <2> QED BY <2>1, <2>2
  <1>2. W = {}
    BY <1>1, LeastNat
  <1> QED BY <1>2, NamesAreFinite, FS_Subset, FS_CardinalityType

LEMMA StepsGrow ==
  ASSUME NEW m, IsModel(m), NEW t \in TableNames(m)
  PROVE  \A n \in Nat : Closed(m, Steps(m, t)[n]) \/ n < Cardinality(Steps(m, t)[n])
  <1> DEFINE at(n) == Steps(m, t)[n]
             W     == {n \in Nat : ~ (Closed(m, at(n)) \/ n < Cardinality(at(n)))}
  <1>1. \A n \in Nat : t \in at(n) /\ at(n) \subseteq TableNames(m) /\ IsFiniteSet(at(n)) /\ Cardinality(at(n)) \in Nat
    BY StepsAreOfTables
  <1>2. \A n \in Nat : n # 0 => at(n) = Neighbours(m, at(n - 1))
    BY StepByStep
  <1> HIDE DEF at
  <1>3. ASSUME NEW n \in W, \A k \in W : n <= k PROVE FALSE
    <2>1. CASE n = 0
      <3>1. Cardinality(at(0)) # 0
        BY <1>1, FS_EmptySet
      <3> QED BY <1>1, <2>1, <3>1
    <2>2. CASE n # 0
      <3>1. n \in Nat /\ n - 1 \in Nat /\ ~ (n <= n - 1)
        BY <2>2
      <3>2. Closed(m, at(n - 1)) \/ n - 1 < Cardinality(at(n - 1))
        BY <1>3, <3>1
      <3>3. at(n) = Neighbours(m, at(n - 1)) /\ at(n - 1) \subseteq at(n)
        BY <1>1, <1>2, <2>2, <3>1, NeighboursAreTables
      <3>4. CASE Closed(m, at(n - 1))
        BY <3>3, <3>4 DEF Closed
      <3>5. CASE ~ Closed(m, at(n - 1)) /\ n - 1 < Cardinality(at(n - 1))
        <4>1. at(n) # at(n - 1)
          BY <3>3, <3>5 DEF Closed
        <4>2. Cardinality(at(n - 1)) < Cardinality(at(n))
          BY <1>1, <3>1, <3>3, <4>1, FS_Subset
        <4> QED BY <1>1, <3>1, <3>5, <4>2
      <3> QED BY <3>2, <3>4, <3>5
    <2> QED BY <2>1, <2>2
  <1>4. W = {}
    BY <1>3, LeastNat
  <1> QED BY <1>4 DEF at

LEMMA ComponentIsClosed ==
  ASSUME NEW m, IsModel(m), NEW t \in TableNames(m)
  PROVE  t \in Component(m, t) /\ Component(m, t) \subseteq TableNames(m) /\ Closed(m, Component(m, t))
  <1> DEFINE N == Cardinality(DOMAIN m.tables)
  <1>1. N \in Nat /\ Component(m, t) = Steps(m, t)[N]
    BY NamesAreFinite, StepByStep
  <1>2. t \in Steps(m, t)[N] /\ Steps(m, t)[N] \in SUBSET TableNames(m) /\ Cardinality(Steps(m, t)[N]) \in Nat
    BY <1>1, StepsAreOfTables
  <1>3. Cardinality(Steps(m, t)[N]) <= Cardinality(TableNames(m))
    BY <1>2, NamesAreFinite, FS_Subset
  <1>4. ~ (N < Cardinality(Steps(m, t)[N]))
    BY <1>1, <1>2, <1>3, NamesAreFinite
  <1> QED BY <1>1, <1>2, <1>4, StepsGrow

(* So the components are a partition of the tables.                        *)
LEMMA SameComponent ==
  ASSUME NEW m, IsModel(m), NEW t \in TableNames(m), NEW u \in Component(m, t)
  PROVE  u \in TableNames(m) /\ Component(m, u) = Component(m, t)
  <1>1. u \in TableNames(m) /\ Closed(m, Component(m, t)) /\ Closed(m, Component(m, u)) /\ u \in Component(m, u)
    BY ComponentIsClosed
  <1>2. /\ Component(m, t) = Steps(m, t)[Cardinality(DOMAIN m.tables)]
        /\ Component(m, u) = Steps(m, u)[Cardinality(DOMAIN m.tables)]
        /\ Cardinality(DOMAIN m.tables) \in Nat
    BY StepByStep, NamesAreFinite
  <1>3. Component(m, u) \subseteq Component(m, t)
    BY <1>1, <1>2, StepsStayIn
  <1>4. t \in Component(m, u)
    <2>1. ASSUME t \notin Component(m, u) PROVE FALSE
      <3>1. Component(m, t) \cap Component(m, u) = {}
        BY <1>1, <1>2, <2>1, StepsStayOut
      <3> QED BY <1>1, <3>1
    <2> QED BY <2>1
  <1>5. Component(m, t) \subseteq Component(m, u)
    BY <1>1, <1>2, <1>4, StepsStayIn
  <1> QED BY <1>1, <1>3, <1>5

-----------------------------------------------------------------------------
(* The components follow each other in the order of their least tables, the *)
(* domains in their own, which are total orders on them.                    *)
Components(m) == {Component(m, t) : t \in TableNames(m)}

LEMMA ComponentsAreApart ==
  ASSUME NEW m, IsModel(m), NEW C \in Components(m)
  PROVE  /\ C \in SUBSET TableNames(m) /\ C # {} /\ Min(C) \in C /\ Min(C) \in Nat
         /\ \A t \in C : Component(m, t) = C
  <1>1. PICK t \in TableNames(m) : C = Component(m, t)
    BY DEF Components
  <1>2. C \in SUBSET TableNames(m) /\ t \in C
    BY <1>1, ComponentIsClosed
  <1>3. C \in SUBSET Nat
    BY <1>2, NamesAreFinite
  <1>4. Min(C) \in C
    BY <1>2, <1>3, MinIsLeast
  <1> QED BY <1>1, <1>2, <1>3, <1>4, SameComponent

LEMMA ComponentsFollow ==
  ASSUME NEW m, IsModel(m)
  PROVE  /\ Cardinality(Components(m)) \in Nat
         /\ ConnectedComponents(m) \in [1..Cardinality(Components(m)) -> Components(m)]
         /\ \A i, j \in 1..Cardinality(Components(m)) : ConnectedComponents(m)[i] = ConnectedComponents(m)[j] => i = j
         /\ \A C \in Components(m) : \E i \in 1..Cardinality(Components(m)) : ConnectedComponents(m)[i] = C
  <1> DEFINE S == Components(m)
             R == {p \in S \X S : Min(p[1]) < Min(p[2])}
             f == ConnectedComponents(m)
             nth(n) == CHOOSE C \in S : Cardinality({D \in S \ {C} : Min(D) < Min(C)}) = n - 1
  <1>1. IsFiniteSet(S)
    <2> DEFINE g == [t \in TableNames(m) |-> Component(m, t)]
    <2>1. g \in Surjection(TableNames(m), S)
      BY DEF Surjection, Components
    <2> QED BY <2>1, NamesAreFinite, FS_Surjection
  <1>2. Total(S, R)
    <2>1. \A C \in S : Min(C) \in Nat
      BY ComponentsAreApart
    <2>2. \A C, D \in S : Min(C) = Min(D) => C = D
      BY ComponentsAreApart
    <2>3. \A C, D \in S : <<C, D>> \in R <=> Min(C) < Min(D)
      OBVIOUS
    <2> HIDE DEF S, R
    <2> QED BY <2>1, <2>2, <2>3 DEF Total
  <1>3. f = [n \in 1..Cardinality(S) |-> nth(n)]
    BY DEF ConnectedComponents, Ordered, Components
  <1>4. \A C \in S : Under(S, R, C) = {D \in S \ {C} : Min(D) < Min(C)}
    BY DEF Under
  <1> HIDE DEF S, R, f
  <1>5. \A n \in 1..Cardinality(S) : (\E C \in S : Cardinality(Under(S, R, C)) = n - 1)
                                     => f[n] \in S /\ Cardinality(Under(S, R, f[n])) = n - 1
    BY <1>3, <1>4
  <1> HIDE DEF nth
  <1>6. f = [n \in 1..Cardinality(S) |-> f[n]]
    BY <1>3
  <1>7. Chosen(S, R, f)
    BY <1>5, <1>6 DEF Chosen
  <1>8. /\ f \in [1..Cardinality(S) -> S] /\ Cardinality(S) \in Nat
        /\ \A i, j \in 1..Cardinality(S) : f[i] = f[j] => i = j
        /\ \A C \in S : \E i \in 1..Cardinality(S) : f[i] = C
    BY <1>1, <1>2, <1>7, OrderedIsBijection
  <1> QED BY <1>8 DEF S, f

LEMMA DomainsAreNaturals ==
  ASSUME NEW m, IsModel(m), NEW t \in TableNames(m)
  PROVE  DomainOf(m, t) \in Nat
  <1>1. \E x \in Range(m.tables) : x.name = t
    BY DEF TableNames
  <1>2. \A x \in Range(m.tables) : x.domain \in Nat
    <2>1. \A i \in DOMAIN m.tables : m.tables[i] \in ErdTables
      BY DEF IsModel
    <2>2. \A x \in ErdTables : x.domain \in Nat
      BY DEF ErdTables
    <2> QED BY <2>1, <2>2 DEF Range
  <1> QED BY <1>1, <1>2 DEF DomainOf

LEMMA DomainsFollow ==
  ASSUME NEW m, IsModel(m), NEW C \in SUBSET TableNames(m)
  PROVE  \E n \in Nat : \E domains \in [1..n -> {DomainOf(m, t) : t \in C}] :
           /\ DomainGroups(m, C) = [i \in 1..n |-> [whole |-> FALSE, tables |-> {t \in C : DomainOf(m, t) = domains[i]}]]
           /\ \A i, j \in 1..n : domains[i] = domains[j] => i = j
           /\ \A t \in C : \E i \in 1..n : domains[i] = DomainOf(m, t)
  <1> DEFINE S == {DomainOf(m, t) : t \in C}
             before(d, e) == e = 0 \/ (d # 0 /\ d < e)
             R == {p \in S \X S : before(p[1], p[2])}
             nth(n) == CHOOSE d \in S : Cardinality({e \in S \ {d} : before(e, d)}) = n - 1
             f == [n \in 1..Cardinality(S) |-> nth(n)]
  <1>1. IsFiniteSet(S)
    <2> DEFINE g == [t \in C |-> DomainOf(m, t)]
    <2>1. g \in Surjection(C, S)
      BY DEF Surjection
    <2> QED BY <2>1, NamesAreFinite, FS_Subset, FS_Surjection
  <1>2. S \in SUBSET Nat
    BY DomainsAreNaturals
  <1>3. DomainGroups(m, C) = [i \in DOMAIN f |-> [whole |-> FALSE, tables |-> {t \in C : DomainOf(m, t) = f[i]}]]
    BY DEF DomainGroups, Ordered
  <1>4. \A d \in S : Under(S, R, d) = {e \in S \ {d} : before(e, d)}
    BY DEF Under
  <1>5. Total(S, R)
    <2>1. \A d, e \in S : <<d, e>> \in R <=> before(d, e)
      OBVIOUS
    <2> HIDE DEF S, R
    <2> QED BY <1>2, <2>1 DEF Total
  <1> HIDE DEF S, R
  <1>6. Chosen(S, R, f)
    <2>1. \A n \in 1..Cardinality(S) : (\E d \in S : Cardinality(Under(S, R, d)) = n - 1)
                                     => f[n] \in S /\ Cardinality(Under(S, R, f[n])) = n - 1
      BY <1>4
    <2> HIDE DEF nth
    <2>2. f = [n \in 1..Cardinality(S) |-> f[n]]
      OBVIOUS
    <2> QED BY <2>1, <2>2 DEF Chosen
  <1> HIDE DEF f
  <1>7. /\ f \in [1..Cardinality(S) -> S] /\ Cardinality(S) \in Nat
        /\ \A i, j \in 1..Cardinality(S) : f[i] = f[j] => i = j
        /\ \A d \in S : \E i \in 1..Cardinality(S) : f[i] = d
    BY <1>1, <1>5, <1>6, OrderedIsBijection
  <1>8. \A t \in C : DomainOf(m, t) \in S
    BY DEF S
  <1>9. DomainGroups(m, C) = [i \in 1..Cardinality(S) |-> [whole |-> FALSE, tables |-> {t \in C : DomainOf(m, t) = f[i]}]]
    BY <1>3, <1>7
  <1>10. \A t \in C : \E i \in 1..Cardinality(S) : f[i] = DomainOf(m, t)
    BY <1>7, <1>8
  <1>11. \E n \in Nat : \E domains \in [1..n -> S] :
           /\ DomainGroups(m, C) = [i \in 1..n |-> [whole |-> FALSE, tables |-> {t \in C : DomainOf(m, t) = domains[i]}]]
           /\ \A i, j \in 1..n : domains[i] = domains[j] => i = j
           /\ \A t \in C : \E i \in 1..n : domains[i] = DomainOf(m, t)
    <2> Cardinality(S) \in Nat /\ f \in [1..Cardinality(S) -> S]
      BY <1>7
    <2> WITNESS Cardinality(S) \in Nat
    <2> WITNESS f \in [1..Cardinality(S) -> S]
    <2> QED BY <1>7, <1>9, <1>10
  <1> QED BY <1>11 DEF S

-----------------------------------------------------------------------------
(* Groups wait one after the other: a component, or what of one is of one  *)
(* domain.                                                                 *)
Kin(m, S)   == \A t, u \in S : u \in Component(m, t) /\ DomainOf(m, u) = DomainOf(m, t)
Whole(m, S) == \E t \in TableNames(m) : S = Component(m, t)
Waits(m, g) == g.tables \subseteq TableNames(m) /\ g.tables # {} /\ (IF g.whole THEN Whole(m, g.tables) ELSE Kin(m, g.tables))

Group   == [whole : BOOLEAN, tables : SUBSET Nat]
Held(g) == UNION {g[i].tables : i \in DOMAIN g}

Waiting(m, g) ==
  /\ g \in Seq(Group) /\ \A i \in DOMAIN g : Waits(m, g[i])
  /\ \A i, j \in DOMAIN g : i # j => g[i].tables \cap g[j].tables = {}

LEMMA ComponentsWait ==
  ASSUME NEW m, IsModel(m), NEW g,
         g = [i \in DOMAIN ConnectedComponents(m) |-> [whole |-> TRUE, tables |-> ConnectedComponents(m)[i]]]
  PROVE  Waiting(m, g) /\ Held(g) = TableNames(m)
  <1> DEFINE n == Cardinality(Components(m))
             cc == ConnectedComponents(m)
  <1>1. /\ n \in Nat /\ cc \in [1..n -> Components(m)]
        /\ \A i, j \in 1..n : cc[i] = cc[j] => i = j
        /\ \A C \in Components(m) : \E i \in 1..n : cc[i] = C
    BY ComponentsFollow
  <1>2. DOMAIN g = 1..n /\ \A i \in 1..n : g[i] = [whole |-> TRUE, tables |-> cc[i]]
    BY <1>1
  <1> HIDE DEF n, cc
  <1>3. \A C \in Components(m) : C \in SUBSET TableNames(m) /\ C \in SUBSET Nat /\ C # {}
    BY ComponentsAreApart, NamesAreFinite
  <1>4. ASSUME NEW i \in 1..n PROVE g[i] \in Group /\ Waits(m, g[i]) /\ g[i].tables = cc[i]
    <2>1. cc[i] \in Components(m) /\ g[i].whole = TRUE /\ g[i].tables = cc[i]
      BY <1>1, <1>2
    <2>2. Whole(m, cc[i])
      BY <2>1 DEF Whole, Components
    <2>3. g[i] \in Group
      BY <1>2, <1>3, <2>1 DEF Group
    <2> QED BY <1>3, <2>1, <2>2, <2>3 DEF Waits
  <1>5. \A C, D \in Components(m) : C \cap D # {} => C = D
    BY ComponentsAreApart
  <1>6. g \in Seq(Group)
    BY <1>1, <1>2, <1>4
  <1>7. \A i, j \in DOMAIN g : i # j => g[i].tables \cap g[j].tables = {}
    BY <1>1, <1>2, <1>4, <1>5
  <1>8. Held(g) \subseteq TableNames(m)
    BY <1>1, <1>2, <1>3, <1>4 DEF Held
  <1>9. ASSUME NEW t \in TableNames(m) PROVE t \in Held(g)
    <2>1. Component(m, t) \in Components(m) /\ t \in Component(m, t)
      BY ComponentIsClosed DEF Components
    <2>2. PICK i \in 1..n : cc[i] = Component(m, t)
      BY <1>1, <2>1
    <2> QED BY <1>2, <1>4, <2>1, <2>2 DEF Held
  <1> QED BY <1>2, <1>4, <1>6, <1>7, <1>8, <1>9 DEF Waiting

LEMMA GroupsWait ==
  ASSUME NEW m, IsModel(m), NEW C, Whole(m, C)
  PROVE  Waiting(m, DomainGroups(m, C)) /\ Held(DomainGroups(m, C)) = C
  <1> DEFINE g == DomainGroups(m, C)
  <1>1. PICK t \in TableNames(m) : C = Component(m, t)
    BY DEF Whole
  <1>2. C \in SUBSET TableNames(m) /\ C \in SUBSET Nat /\ \A u \in C : Component(m, u) = C
    BY <1>1, ComponentIsClosed, SameComponent, NamesAreFinite
  <1>3. PICK n \in Nat : \E domains \in [1..n -> {DomainOf(m, u) : u \in C}] :
           /\ g = [i \in 1..n |-> [whole |-> FALSE, tables |-> {u \in C : DomainOf(m, u) = domains[i]}]]
           /\ \A i, j \in 1..n : domains[i] = domains[j] => i = j
           /\ \A u \in C : \E i \in 1..n : domains[i] = DomainOf(m, u)
    BY <1>2, DomainsFollow
  <1>4. PICK domains \in [1..n -> {DomainOf(m, u) : u \in C}] :
           /\ g = [i \in 1..n |-> [whole |-> FALSE, tables |-> {u \in C : DomainOf(m, u) = domains[i]}]]
           /\ \A i, j \in 1..n : domains[i] = domains[j] => i = j
           /\ \A u \in C : \E i \in 1..n : domains[i] = DomainOf(m, u)
    BY <1>3
  <1> DEFINE at(i) == {u \in C : DomainOf(m, u) = domains[i]}
  <1>5. DOMAIN g = 1..n /\ g = [i \in 1..n |-> g[i]] /\ \A i \in 1..n : g[i] = [whole |-> FALSE, tables |-> at(i)]
    BY <1>4
  <1>6. \A i \in 1..n : at(i) # {} /\ at(i) \subseteq TableNames(m) /\ at(i) \in SUBSET Nat /\ Kin(m, at(i))
    <2> SUFFICES ASSUME NEW i \in 1..n
                 PROVE  at(i) # {} /\ at(i) \subseteq TableNames(m) /\ at(i) \in SUBSET Nat /\ Kin(m, at(i))
      OBVIOUS
    <2>1. domains[i] \in {DomainOf(m, u) : u \in C}
      BY <1>4
    <2>2. at(i) # {}
      BY <2>1
    <2>3. at(i) \subseteq TableNames(m) /\ at(i) \in SUBSET Nat
      BY <1>2
    <2>4. \A u \in at(i) : u \in C /\ DomainOf(m, u) = domains[i] /\ Component(m, u) = C
      BY <1>2
    <2> HIDE DEF at
    <2> QED BY <2>2, <2>3, <2>4 DEF Kin
  <1>7. \A i, j \in 1..n : i # j => at(i) \cap at(j) = {}
    BY <1>4
  <1>8. \A u \in C : \E i \in 1..n : u \in at(i)
    BY <1>4
  <1>9. \A i \in 1..n : at(i) \subseteq C
    OBVIOUS
  <1> HIDE DEF at, g
  <1>10. \A i \in 1..n : g[i] \in Group /\ Waits(m, g[i]) /\ g[i].tables = at(i)
    <2> SUFFICES ASSUME NEW i \in 1..n PROVE g[i] \in Group /\ Waits(m, g[i]) /\ g[i].tables = at(i)
      OBVIOUS
    <2>1. g[i].whole = FALSE /\ g[i].tables = at(i) /\ g[i] = [whole |-> FALSE, tables |-> at(i)]
      BY <1>5
    <2>2. g[i] \in Group
      BY <1>6, <2>1 DEF Group
    <2> QED BY <1>6, <2>1, <2>2 DEF Waits
  <1>11. g \in Seq(Group)
    BY <1>5, <1>10
  <1>12. Waiting(m, g)
    BY <1>5, <1>7, <1>10, <1>11 DEF Waiting
  <1>13. Held(g) = C
    BY <1>5, <1>8, <1>9, <1>10 DEF Held
  <1> QED BY <1>12, <1>13 DEF g

LEMMA TailWaits ==
  ASSUME NEW m, NEW g, Waiting(m, g), g # << >>
  PROVE  /\ Head(g) \in Group /\ Waits(m, Head(g)) /\ Waiting(m, Tail(g))
         /\ Held(g) = Head(g).tables \cup Held(Tail(g)) /\ Head(g).tables \cap Held(Tail(g)) = {}
  <1>1. /\ g \in Seq(Group) /\ Len(g) \in Nat /\ Len(g) # 0 /\ DOMAIN g = 1..Len(g)
        /\ Tail(g) \in Seq(Group) /\ Head(g) = g[1] /\ DOMAIN Tail(g) = 1..(Len(g) - 1)
        /\ \A i \in 1..(Len(g) - 1) : Tail(g)[i] = g[i + 1]
    BY DEF Waiting
  <1>2. \A i \in DOMAIN Tail(g) : i + 1 \in DOMAIN g /\ i + 1 # 1 /\ Tail(g)[i] = g[i + 1]
    BY <1>1
  <1>3. 1 \in DOMAIN g
    BY <1>1
  <1>4. Waits(m, Head(g)) /\ Head(g) \in Group
    BY <1>1, <1>3 DEF Waiting
  <1>5. \A i, j \in DOMAIN Tail(g) : i # j => i + 1 # j + 1
    BY <1>1
  <1>6. Waiting(m, Tail(g))
    BY <1>1, <1>2, <1>5 DEF Waiting
  <1>7. \A i \in DOMAIN g : i = 1 \/ (i - 1 \in DOMAIN Tail(g) /\ Tail(g)[i - 1] = g[i])
    BY <1>1
  <1>8. Held(g) = Head(g).tables \cup Held(Tail(g))
    <2>1. \A i \in DOMAIN g : g[i].tables \subseteq Head(g).tables \cup Held(Tail(g))
      BY <1>1, <1>7 DEF Held
    <2>2. Head(g).tables \subseteq Held(g)
      BY <1>1, <1>3 DEF Held
    <2>3. \A i \in DOMAIN Tail(g) : Tail(g)[i].tables \subseteq Held(g)
      BY <1>2 DEF Held
    <2> QED BY <2>1, <2>2, <2>3 DEF Held
  <1>9. Head(g).tables \cap Held(Tail(g)) = {}
    BY <1>1, <1>2, <1>3 DEF Held, Waiting
  <1> QED BY <1>4, <1>6, <1>8, <1>9

LEMMA BothWait ==
  ASSUME NEW m, NEW g, Waiting(m, g), NEW h, Waiting(m, h), Held(g) \cap Held(h) = {}
  PROVE  Waiting(m, g \o h) /\ Held(g \o h) = Held(g) \cup Held(h)
  <1>1. /\ g \in Seq(Group) /\ h \in Seq(Group) /\ g \o h \in Seq(Group)
        /\ Len(g) \in Nat /\ Len(h) \in Nat /\ DOMAIN g = 1..Len(g) /\ DOMAIN h = 1..Len(h)
        /\ DOMAIN (g \o h) = 1..(Len(g) + Len(h))
        /\ \A i \in 1..(Len(g) + Len(h)) : (g \o h)[i] = IF i <= Len(g) THEN g[i] ELSE h[i - Len(g)]
    BY DEF Waiting
  <1> DEFINE s == g \o h
  <1>2. \A i \in DOMAIN s : \/ i \in DOMAIN g /\ s[i] = g[i]
                            \/ i - Len(g) \in DOMAIN h /\ s[i] = h[i - Len(g)]
    BY <1>1
  <1>3. \A i \in DOMAIN g : i \in DOMAIN s /\ s[i] = g[i]
    BY <1>1
  <1>4. \A i \in DOMAIN h : i + Len(g) \in DOMAIN s /\ s[i + Len(g)] = h[i]
    BY <1>1
  <1>5. \A i, j \in DOMAIN s : i # j => i - Len(g) # j - Len(g)
    BY <1>1
  <1> HIDE DEF s
  <1>6. \A i, j \in DOMAIN s : i # j => s[i].tables \cap s[j].tables = {}
    <2> SUFFICES ASSUME NEW i \in DOMAIN s, NEW j \in DOMAIN s, i # j PROVE s[i].tables \cap s[j].tables = {}
      OBVIOUS
    <2>1. CASE i \in DOMAIN g /\ s[i] = g[i] /\ j \in DOMAIN g /\ s[j] = g[j]
      BY <2>1 DEF Waiting
    <2>2. CASE i \in DOMAIN g /\ s[i] = g[i] /\ j - Len(g) \in DOMAIN h /\ s[j] = h[j - Len(g)]
      BY <2>2 DEF Held
    <2>3. CASE i - Len(g) \in DOMAIN h /\ s[i] = h[i - Len(g)] /\ j \in DOMAIN g /\ s[j] = g[j]
      BY <2>3 DEF Held
    <2>4. CASE i - Len(g) \in DOMAIN h /\ s[i] = h[i - Len(g)] /\ j - Len(g) \in DOMAIN h /\ s[j] = h[j - Len(g)]
      BY <1>5, <2>4 DEF Waiting
    <2> QED BY <1>2, <2>1, <2>2, <2>3, <2>4
  <1>7. \A i \in DOMAIN s : Waits(m, s[i])
    BY <1>2 DEF Waiting
  <1>8. Held(s) = Held(g) \cup Held(h)
    BY <1>2, <1>3, <1>4 DEF Held
  <1>9. s \in Seq(Group)
    BY <1>1 DEF s
  <1>10. Waiting(m, s)
    BY <1>6, <1>7, <1>9 DEF Waiting
  <1> QED BY <1>8, <1>10 DEF s

-----------------------------------------------------------------------------
(* The seed and the candidate are tables that wait: one has the most       *)
(* neighbours or relations, and of those the least name.                   *)
LEMMA OneIsBest ==
  ASSUME NEW S \in SUBSET Nat, IsFiniteSet(S), S # {}, NEW score \in [S -> Nat]
  PROVE  \E t \in S : \A u \in S \ {t} : score[t] > score[u] \/ (score[t] = score[u] /\ t < u)
  <1> DEFINE before(t, u) == score[t] > score[u] \/ (score[t] = score[u] /\ t < u)
             R == {p \in S \X S : before(p[1], p[2])}
  <1>1. \A t, u \in S : <<t, u>> \in R <=> before(t, u)
    OBVIOUS
  <1>2. \A t \in S : score[t] \in Nat /\ t \in Nat
    OBVIOUS
  <1> HIDE DEF R
  <1>3. Total(S, R)
    BY <1>1, <1>2 DEF Total
  <1>4. \E t \in S : First(S, R, t)
    BY <1>3, FirstOfAll
  <1> QED BY <1>1, <1>4 DEF First

LEMMA SeedWaits ==
  ASSUME IsModel(model), unplaced \in SUBSET TableNames(model), unplaced # {}
  PROVE  MostConnectedSeed \in unplaced
  <1> DEFINE score == [t \in unplaced |-> NeighbourCount(t, unplaced)]
  <1>1. unplaced \in SUBSET Nat /\ IsFiniteSet(unplaced)
    BY NamesAreFinite, FS_Subset
  <1>2. \A t \in unplaced : NeighbourCount(t, unplaced) \in Nat
    <2> SUFFICES ASSUME NEW t \in unplaced PROVE NeighbourCount(t, unplaced) \in Nat
      OBVIOUS
    <2>1. {u \in unplaced : Joining(t, u) # {}} \in SUBSET unplaced
      OBVIOUS
    <2>2. Cardinality({u \in unplaced : Joining(t, u) # {}}) \in Nat
      BY <1>1, <2>1, FS_Subset, FS_CardinalityType
    <2> QED BY <2>2 DEF NeighbourCount
  <1>3. score \in [unplaced -> Nat] /\ \A t \in unplaced : score[t] = NeighbourCount(t, unplaced)
    BY <1>2
  <1> HIDE DEF score
  <1>4. \E t \in unplaced : \A u \in unplaced \ {t} : score[t] > score[u] \/ (score[t] = score[u] /\ t < u)
    BY <1>1, <1>3, OneIsBest
  <1>5. \E t \in unplaced : \A u \in unplaced \ {t} :
           \/ NeighbourCount(t, unplaced) > NeighbourCount(u, unplaced)
           \/ NeighbourCount(t, unplaced) = NeighbourCount(u, unplaced) /\ t < u
    BY <1>3, <1>4
  <1> QED BY <1>5 DEF MostConnectedSeed

LEMMA CandidateWaits ==
  ASSUME IsModel(model), unplaced \in SUBSET TableNames(model), unplaced # {}
  PROVE  NextCandidate \in unplaced
  <1> DEFINE score == [t \in unplaced |-> RelationsIntoPart(t)]
  <1>1. unplaced \in SUBSET Nat /\ IsFiniteSet(unplaced)
    BY NamesAreFinite, FS_Subset
  <1>2. \A t \in unplaced : RelationsIntoPart(t) \in Nat
    <2> SUFFICES ASSUME NEW t \in unplaced PROVE RelationsIntoPart(t) \in Nat
      OBVIOUS
    <2>1. UNION {Joining(t, u) : u \in part} \in SUBSET DOMAIN model.relations
      BY DEF Joining
    <2>2. Cardinality(UNION {Joining(t, u) : u \in part}) \in Nat
      BY <2>1, FS_Subset, FS_CardinalityType DEF IsModel
    <2> QED BY <2>2 DEF RelationsIntoPart
  <1>3. score \in [unplaced -> Nat] /\ \A t \in unplaced : score[t] = RelationsIntoPart(t)
    BY <1>2
  <1> HIDE DEF score
  <1>4. \E t \in unplaced : \A u \in unplaced \ {t} : score[t] > score[u] \/ (score[t] = score[u] /\ t < u)
    BY <1>1, <1>3, OneIsBest
  <1>5. \E t \in unplaced : \A u \in unplaced \ {t} :
           \/ RelationsIntoPart(t) > RelationsIntoPart(u)
           \/ RelationsIntoPart(t) = RelationsIntoPart(u) /\ t < u
    BY <1>3, <1>4
  <1> QED BY <1>5 DEF NextCandidate

-----------------------------------------------------------------------------
(* While a plan is made every table is at one place: in a part, in a group *)
(* that waits, unplaced, in the part that grows, or too large alone.       *)
Joined(m, S) == S # {} /\ (Whole(m, S) \/ Kin(m, S))
PartsOf(p)   == UNION {p[n] : n \in DOMAIN p}
Parting(m, p) ==
  /\ \A n \in DOMAIN p : Joined(m, p[n])
  /\ \A i, j \in DOMAIN p : i # j => p[i] \cap p[j] = {}

OnePlace(T, P, G, U, R, L) ==
  /\ T = P \cup G \cup U \cup R \cup L
  /\ P \cap (G \cup U \cup R \cup L) = {} /\ G \cap (U \cup R \cup L) = {}
  /\ U \cap (R \cup L) = {} /\ R \cap L = {}

Placing ==
  /\ IsModel(model) /\ Waiting(model, groups) /\ Parting(model, parts)
  /\ Kin(model, unplaced \cup part)
  /\ \A t \in tooLarge : {t} \notin fitting
  /\ erdStep = "place" => unplaced = {}
  /\ erdStep = "grow" <=> part # {}
  /\ OnePlace(TableNames(model), PartsOf(parts), Held(groups), unplaced, part, tooLarge)

CoverInv ==
  /\ flags \in Flags /\ parts \in Seq(fitting) /\ (erdStep = "grow" => part \in fitting)
  /\ erdStep = "start" => groups = << >> /\ unplaced = {} /\ part = {} /\ parts = << >> /\ tooLarge = {}
  /\ erdStep \in {"place", "seed", "grow"} => Placing

LEMMA AppendParts ==
  ASSUME NEW m, NEW F, NEW p \in Seq(F), Parting(m, p), NEW S \in F, Joined(m, S), S \cap PartsOf(p) = {}
  PROVE  Append(p, S) \in Seq(F) /\ Parting(m, Append(p, S)) /\ PartsOf(Append(p, S)) = PartsOf(p) \cup S
  <1> DEFINE q == Append(p, S)
             last == Len(p) + 1
  <1>1. /\ q \in Seq(F) /\ Len(p) \in Nat /\ DOMAIN p = 1..Len(p) /\ DOMAIN q = 1..last
        /\ q[last] = S /\ \A n \in 1..Len(p) : q[n] = p[n]
    OBVIOUS
  <1>2. DOMAIN q = DOMAIN p \cup {last} /\ last \notin DOMAIN p /\ q[last] = S /\ \A n \in DOMAIN p : q[n] = p[n]
    BY <1>1
  <1> HIDE DEF q, last
  <1>3. \A n \in DOMAIN p : q[n] \cap S = {}
    BY <1>2 DEF PartsOf
  <1>4. Parting(m, q)
    BY <1>2, <1>3 DEF Parting
  <1>5. PartsOf(q) = PartsOf(p) \cup S
    <2>1. \A n \in DOMAIN p : p[n] \subseteq PartsOf(q)
      BY <1>2 DEF PartsOf
    <2>2. S \subseteq PartsOf(q)
      BY <1>2 DEF PartsOf
    <2>3. \A n \in DOMAIN q : q[n] \subseteq PartsOf(p) \cup S
      BY <1>2 DEF PartsOf
    <2> QED BY <2>1, <2>2, <2>3 DEF PartsOf
  <1> QED BY <1>1, <1>4, <1>5 DEF q

LEMMA NothingWaits == Held(<< >>) = {} /\ PartsOf(<< >>) = {} /\ \A m : Parting(m, << >>) /\ Kin(m, {})
  <1>1. DOMAIN << >> = {}
    OBVIOUS
  <1> QED BY <1>1 DEF Held, PartsOf, Parting, Kin

LEMMA ReadIsModel ==
  ASSUME flags \in Flags, NEW schema \in Schemas, ~ SchemaIsInvalid(schema), NEW names
  PROVE  IsModel(WithDomains(ModelSubset(WithReferences(schema), names), flags.domains))
  <1>1. flags.domains \in Seq(SUBSET Nat)
    BY FlagsAreTyped
  <1> QED BY <1>1, SourceIsModel, SubsetIsModel, PlacedIsModel

LEMMA ReadKeepsCover == ASSUME CoverInv, ReadSchema PROVE CoverInv'
  <1>1. /\ flags' = flags /\ fitting' = fitting /\ parts' = parts /\ unplaced' = unplaced /\ part' = part /\ tooLarge' = tooLarge
        /\ parts = << >> /\ unplaced = {} /\ part = {} /\ tooLarge = {}
    BY DEF ReadSchema, Given, CoverInv
  <1>2. CASE erdStep' = "over"
    BY <1>1, <1>2 DEF CoverInv
  <1>3. CASE erdStep' # "over"
    <2>1. PICK schema \in Schemas :
            /\ ~ SchemaIsInvalid(schema) /\ erdStep' = "place"
            /\ \E names : model' = WithDomains(ModelSubset(WithReferences(schema), names), flags.domains)
            /\ groups' = [i \in DOMAIN ConnectedComponents(model') |->
                            [whole |-> TRUE, tables |-> ConnectedComponents(model')[i]]]
      BY <1>3 DEF ReadSchema, Leaves
    <2>2. IsModel(model')
      BY <2>1, ReadIsModel DEF CoverInv
    <2>3. Waiting(model', groups') /\ Held(groups') = TableNames(model')
      BY <2>1, <2>2, ComponentsWait
    <2>4. OnePlace(TableNames(model'), PartsOf(parts'), Held(groups'), unplaced', part', tooLarge')
      BY <1>1, <2>3, NothingWaits DEF OnePlace
    <2>5. Placing'
      BY <1>1, <2>1, <2>2, <2>3, <2>4, NothingWaits DEF Placing
    <2> QED BY <1>1, <2>1, <2>5 DEF CoverInv
  <1> QED BY <1>2, <1>3

LEMMA GroupKeepsCover == ASSUME CoverInv, PlaceWhole PROVE CoverInv'
  <1> DEFINE group == Head(groups)
             rest  == Tail(groups)
             T     == TableNames(model)
  <1>1. /\ flags' = flags /\ fitting' = fitting /\ model' = model /\ part' = part /\ tooLarge' = tooLarge
        /\ erdStep = "place" /\ groups # << >> /\ Placing /\ parts \in Seq(fitting)
    BY DEF PlaceWhole, Given, CoverInv
  <1>2. unplaced = {} /\ part = {}
    BY <1>1 DEF Placing
  <1>3. /\ Waits(model, group) /\ Waiting(model, rest) /\ group \in Group
        /\ Held(groups) = group.tables \cup Held(rest) /\ group.tables \cap Held(rest) = {}
    BY <1>1, TailWaits DEF Placing
  <1>4. OnePlace(T, PartsOf(parts), group.tables \cup Held(rest), {}, {}, tooLarge)
    BY <1>1, <1>2, <1>3 DEF Placing
  <1> HIDE DEF rest
  <1>5. CASE group.tables \in fitting
    <2>1. /\ parts' = Append(parts, group.tables) /\ groups' = rest
          /\ erdStep' = erdStep /\ unplaced' = unplaced
      BY <1>5 DEF PlaceWhole, rest
    <2>2. Joined(model, group.tables) /\ group.tables \cap PartsOf(parts) = {}
      BY <1>3, <1>4 DEF Waits, Joined, OnePlace
    <2>3. parts' \in Seq(fitting) /\ Parting(model, parts') /\ PartsOf(parts') = PartsOf(parts) \cup group.tables
      BY <1>1, <1>5, <2>1, <2>2, AppendParts DEF Placing
    <2>4. OnePlace(T, PartsOf(parts'), Held(groups'), {}, {}, tooLarge)
      BY <1>3, <1>4, <2>1, <2>3 DEF OnePlace
    <2>5. Placing'
      BY <1>1, <1>2, <1>3, <2>1, <2>3, <2>4 DEF Placing
    <2> QED BY <1>1, <2>1, <2>3, <2>5 DEF CoverInv
  <1>6. CASE group.tables \notin fitting /\ group.whole
    <2> DEFINE found == DomainGroups(model, group.tables)
    <2>1. groups' = found \o rest /\ erdStep' = erdStep /\ unplaced' = unplaced /\ parts' = parts
      BY <1>6 DEF PlaceWhole, rest
    <2>2. Waiting(model, found) /\ Held(found) = group.tables
      BY <1>1, <1>3, <1>6, GroupsWait DEF Waits, Placing
    <2> HIDE DEF found
    <2>3. Waiting(model, groups') /\ Held(groups') = group.tables \cup Held(rest)
      BY <1>3, <2>1, <2>2, BothWait
    <2>4. Placing'
      BY <1>1, <1>2, <1>4, <2>1, <2>3 DEF Placing
    <2> QED BY <1>1, <2>1, <2>4 DEF CoverInv
  <1>7. CASE group.tables \notin fitting /\ ~ group.whole
    <2>1. erdStep' = "seed" /\ unplaced' = group.tables /\ groups' = rest /\ parts' = parts
      BY <1>7 DEF PlaceWhole, rest
    <2>2. Kin(model, unplaced' \cup part')
      BY <1>1, <1>2, <1>3, <1>7, <2>1 DEF Waits
    <2>3. OnePlace(T, PartsOf(parts), Held(groups'), unplaced', {}, tooLarge)
      BY <1>3, <1>4, <2>1 DEF OnePlace
    <2>4. Placing'
      BY <1>1, <1>2, <1>3, <2>1, <2>2, <2>3 DEF Placing
    <2> QED BY <1>1, <2>1, <2>4 DEF CoverInv
  <1> QED BY <1>5, <1>6, <1>7

LEMMA SeedKeepsCover == ASSUME CoverInv, SeedPart PROVE CoverInv'
  <1>1. /\ flags' = flags /\ fitting' = fitting /\ model' = model /\ groups' = groups /\ parts' = parts
        /\ erdStep = "seed" /\ Placing /\ parts \in Seq(fitting)
    BY DEF SeedPart, Given, CoverInv
  <1>2. part = {} /\ OnePlace(TableNames(model), PartsOf(parts), Held(groups), unplaced, {}, tooLarge)
    BY <1>1 DEF Placing
  <1>3. CASE unplaced = {}
    <2>1. erdStep' = "place" /\ unplaced' = unplaced /\ part' = part /\ tooLarge' = tooLarge
      BY <1>3 DEF SeedPart
    <2>2. Placing'
      BY <1>1, <1>2, <1>3, <2>1 DEF Placing
    <2> QED BY <1>1, <2>1, <2>2 DEF CoverInv
  <1>4. CASE unplaced # {}
    <2> DEFINE seed == MostConnectedSeed
    <2>1. seed \in unplaced
      BY <1>1, <1>4, SeedWaits DEF Placing, OnePlace
    <2>2. /\ unplaced' = unplaced \ {seed}
          /\ IF {seed} \in fitting
             THEN erdStep' = "grow" /\ part' = {seed} /\ tooLarge' = tooLarge
             ELSE tooLarge' = tooLarge \cup {seed} /\ erdStep' = erdStep /\ part' = part
      BY <1>4 DEF SeedPart
    <2> HIDE DEF seed
    <2>3. Kin(model, unplaced' \cup part')
      BY <1>1, <1>2, <2>1, <2>2 DEF Placing, Kin
    <2>4. CASE {seed} \in fitting
      <3>1. OnePlace(TableNames(model), PartsOf(parts), Held(groups), unplaced', part', tooLarge')
        BY <1>2, <2>1, <2>2, <2>4 DEF OnePlace
      <3>2. Placing'
        BY <1>1, <2>2, <2>3, <2>4, <3>1 DEF Placing
      <3> QED BY <1>1, <2>2, <2>4, <3>2 DEF CoverInv
    <2>5. CASE {seed} \notin fitting
      <3>1. OnePlace(TableNames(model), PartsOf(parts), Held(groups), unplaced', part', tooLarge')
        BY <1>2, <2>1, <2>2, <2>5 DEF OnePlace
      <3>2. Placing'
        BY <1>1, <1>2, <2>2, <2>3, <2>5, <3>1 DEF Placing
      <3> QED BY <1>1, <2>2, <2>5, <3>2 DEF CoverInv
    <2> QED BY <2>4, <2>5
  <1> QED BY <1>3, <1>4

LEMMA GrowKeepsCover == ASSUME CoverInv, GrowPart PROVE CoverInv'
  <1>1. /\ flags' = flags /\ fitting' = fitting /\ model' = model /\ groups' = groups /\ tooLarge' = tooLarge
        /\ erdStep = "grow" /\ Placing /\ parts \in Seq(fitting) /\ part \in fitting
    BY DEF GrowPart, Given, CoverInv
  <1>2. part # {} /\ OnePlace(TableNames(model), PartsOf(parts), Held(groups), unplaced, part, tooLarge)
    BY <1>1 DEF Placing
  <1> DEFINE next == NextCandidate
  <1>3. CASE unplaced # {} /\ part \cup {next} \in fitting
    <2>1. next \in unplaced
      BY <1>1, <1>3, CandidateWaits DEF Placing, OnePlace
    <2>2. part' = part \cup {next} /\ unplaced' = unplaced \ {next} /\ erdStep' = erdStep /\ parts' = parts
      BY <1>3 DEF GrowPart
    <2> HIDE DEF next
    <2>3. unplaced' \cup part' = unplaced \cup part
      BY <2>1, <2>2
    <2>4. OnePlace(TableNames(model), PartsOf(parts), Held(groups), unplaced', part', tooLarge)
      BY <1>2, <2>1, <2>2 DEF OnePlace
    <2>5. Placing'
      BY <1>1, <1>2, <2>2, <2>3, <2>4 DEF Placing
    <2> QED BY <1>1, <1>3, <2>2, <2>5 DEF CoverInv
  <1>4. CASE ~ (unplaced # {} /\ part \cup {next} \in fitting)
    <2>1. parts' = Append(parts, part) /\ part' = {} /\ erdStep' = "seed" /\ unplaced' = unplaced
      BY <1>4 DEF GrowPart
    <2>2. Joined(model, part) /\ part \cap PartsOf(parts) = {}
      BY <1>1, <1>2 DEF Placing, Joined, Kin, OnePlace
    <2>3. parts' \in Seq(fitting) /\ Parting(model, parts') /\ PartsOf(parts') = PartsOf(parts) \cup part
      BY <1>1, <2>1, <2>2, AppendParts DEF Placing
    <2>4. OnePlace(TableNames(model), PartsOf(parts'), Held(groups), unplaced', part', tooLarge)
      BY <1>2, <2>1, <2>3 DEF OnePlace
    <2>5. Kin(model, unplaced' \cup part')
      BY <1>1, <2>1 DEF Placing, Kin
    <2>6. Placing'
      BY <1>1, <2>1, <2>3, <2>4, <2>5 DEF Placing
    <2> QED BY <1>1, <2>1, <2>3, <2>6 DEF CoverInv
  <1> QED BY <1>3, <1>4

LEMMA StepKeepsCover == ASSUME CoverInv, [ErdNext]_erdVars PROVE CoverInv'
  <1>1. CASE UNCHANGED erdVars
    BY <1>1 DEF erdVars, CoverInv, Placing
  <1>2. CASE ClearOut \/ WriteDiagram \/ ErdReport \/ D2Fails \/ Stopped
    <2>1. /\ flags' = flags /\ fitting' = fitting /\ parts' = parts /\ part' = part
          /\ erdStep' \in {"write", "over"}
      BY <1>2 DEF ClearOut, WriteDiagram, ErdReport, D2Fails, Stopped, Planned, Leaves, Given, Plan
    <2> QED BY <2>1 DEF CoverInv
  <1> QED BY <1>1, <1>2, ReadKeepsCover, GroupKeepsCover, SeedKeepsCover, GrowKeepsCover DEF ErdNext

-----------------------------------------------------------------------------
(* What a flag that is offered takes away, and what a part shows.          *)
LEMMA ColumnsOfTables ==
  ASSUME IsModel(model), NEW t \in Range(model.tables)
  PROVE  t \in ErdTables /\ IsFiniteSet(t.columns) /\ \A c \in t.columns : c.row \in Nat
  <1>1. t \in ErdTables /\ IsFiniteSet(t.columns)
    BY DEF IsModel, Range
  <1> QED BY <1>1 DEF ErdTables, ErdColumns

LEMMA FlagsHide ==
  ASSUME flags \in Flags, NEW t, NEW option \in {"key", "hide"}
  PROVE  VisibleColumns(model, t, With(option)) \subseteq VisibleColumns(model, t, flags)
  <1>1. flags \in [tables : Seq(SUBSET Nat), domains : Seq(SUBSET Nat), key : BOOLEAN, hide : BOOLEAN]
    BY FlagsAreTyped
  <1>2. CASE option = "key"
    <2>1. With(option).key = TRUE /\ With(option).hide = flags.hide
      BY <1>1, <1>2 DEF With
    <2> QED BY <2>1 DEF VisibleColumns
  <1>3. CASE option = "hide"
    <2>1. With(option).key = flags.key /\ With(option).hide = TRUE
      BY <1>1, <1>3 DEF With
    <2> QED BY <2>1 DEF VisibleColumns
  <1> QED BY <1>2, <1>3

LEMMA LongestIsLongest ==
  ASSUME NEW S, IsFiniteSet(S), S # {}, \A c \in S : c.row \in Nat
  PROVE  LongestRow(S) \in S /\ \A c \in S : c.row <= LongestRow(S).row
  <1> DEFINE rows == {c.row : c \in S}
  <1>1. IsFiniteSet(rows) /\ rows \in SUBSET Nat /\ rows # {}
    <2> DEFINE f == [c \in S |-> c.row]
    <2>1. f \in Surjection(S, rows)
      BY DEF Surjection
    <2>2. IsFiniteSet(rows)
      BY <2>1, FS_Surjection
    <2> QED BY <2>2
  <1> DEFINE R == {p \in rows \X rows : p[1] > p[2]}
  <1>2. \A n, k \in rows : <<n, k>> \in R <=> n > k
    OBVIOUS
  <1> HIDE DEF R
  <1>3. \A n \in rows : n \in Nat
    BY <1>1
  <1>4. \E n \in rows : First(rows, R, n)
    <2> HIDE DEF rows
    <2>1. Total(rows, R)
      BY <1>2, <1>3 DEF Total
    <2> QED BY <1>1, <2>1, FirstOfAll
  <1>5. PICK n \in rows : \A k \in rows \ {n} : n > k
    BY <1>2, <1>4 DEF First
  <1>6. PICK c \in S : c.row = n
    BY <1>5
  <1>7. \A d \in S : d.row = n \/ n > d.row
    BY <1>5
  <1>8. \A d \in S : d.row <= c.row
    BY <1>3, <1>6, <1>7
  <1> QED BY <1>6, <1>8 DEF LongestRow

LEMMA RemediesTakeAway ==
  ASSUME IsModel(model), flags \in Flags, NEW t \in Range(model.tables), NEW option \in {"key", "hide"}
  PROVE  LET Rows(asked) == VisibleColumns(model, t, asked) IN
         /\ option \in SingleTableRemedy(model, t, "DIAGRAM-TOO-WIDE") /\ RowsDiffer(t.columns) => \A c \in Rows(With(option)) : \E d \in Rows(flags) : c.row < d.row
         /\ option \in SingleTableRemedy(model, t, "DIAGRAM-TOO-TALL") => Cardinality(Rows(With(option))) < Cardinality(Rows(flags))
  <1> DEFINE shown == VisibleColumns(model, t, flags)
             left  == VisibleColumns(model, t, With(option))
  <1>1. left \subseteq shown /\ shown \subseteq t.columns
    BY FlagsHide DEF VisibleColumns
  <1>2. IsFiniteSet(shown) /\ \A c \in shown : c.row \in Nat
    BY <1>1, ColumnsOfTables, FS_Subset
  <1>3. RowsDiffer(t.columns) => \A c, d \in shown : c.row = d.row => c = d
    BY <1>1 DEF RowsDiffer
  <1>4. option \in SingleTableRemedy(model, t, "DIAGRAM-TOO-WIDE") => LongestRow(shown) \in shown \ left
    BY DEF SingleTableRemedy
  <1>5. option \in SingleTableRemedy(model, t, "DIAGRAM-TOO-TALL") => shown \ left # {}
    BY DEF SingleTableRemedy
  <1> HIDE DEF shown, left
  <1>6. ASSUME RowsDiffer(t.columns), LongestRow(shown) \in shown \ left, NEW c \in left PROVE \E d \in shown : c.row < d.row
    <2>1. c.row <= LongestRow(shown).row /\ c # LongestRow(shown) /\ c \in shown
      BY <1>1, <1>2, <1>6, LongestIsLongest
    <2>2. c.row # LongestRow(shown).row /\ c.row \in Nat /\ LongestRow(shown).row \in Nat
      BY <1>2, <1>3, <1>6, <2>1
    <2>3. c.row < LongestRow(shown).row
      BY <2>1, <2>2
    <2> QED BY <1>6, <2>3
  <1>7. ASSUME shown \ left # {} PROVE Cardinality(left) < Cardinality(shown)
    <2>1. IsFiniteSet(left) /\ Cardinality(left) <= Cardinality(shown) /\ Cardinality(left) # Cardinality(shown)
      BY <1>1, <1>2, <1>7, FS_Subset
    <2>2. Cardinality(left) \in Nat /\ Cardinality(shown) \in Nat
      BY <1>2, <2>1, FS_CardinalityType
    <2> QED BY <2>1, <2>2
  <1> QED BY <1>4, <1>5, <1>6, <1>7 DEF shown, left

LEMMA EndsAreShown ==
  ASSUME IsModel(model), NEW names, NEW r \in Range(model.relations), {r.from.table, r.to.table} \subseteq names
  PROVE  LET drawn == ErdD2(model, names) IN
         /\ r \in drawn.edges \/ r.from.table = r.to.table
         /\ \A end \in {r.from, r.to} : \E t \in drawn.tables : t.name = end.table /\ \E c \in t.rows : c.name = end.column
  <1> DEFINE drawn == ErdD2(model, names)
  <1>1. r \in drawn.edges \/ r.from.table = r.to.table
    BY DEF ErdD2
  <1>2. ASSUME NEW end \in {r.from, r.to}
        PROVE  \E t \in drawn.tables : t.name = end.table /\ \E c \in t.rows : c.name = end.column
    <2>1. EndIsKnown(model.tables, end) /\ end.table \in names
      BY DEF IsModel
    <2>2. end \in ErdEnds /\ end = [table |-> end.table, column |-> end.column]
      <3>1. r \in ErdRelations
        BY DEF IsModel, Range
      <3>2. end \in ErdEnds
        BY <3>1 DEF ErdRelations
      <3> QED BY <3>2 DEF ErdEnds
    <2>3. PICK i \in DOMAIN model.tables : model.tables[i].name = end.table /\ \E c \in model.tables[i].columns : c.name = end.column
      BY <2>1 DEF EndIsKnown, Named
    <2>4. PICK c \in model.tables[i].columns : c.name = end.column
      BY <2>3
    <2> DEFINE x == model.tables[i]
               t == [name |-> x.name, domain |-> x.domain, rows |-> VisibleColumns(model, x, flags)]
    <2>5. x \in Range(model.tables) /\ x.name \in names
      BY <2>1, <2>3 DEF Range
    <2>6. t \in drawn.tables
      BY <2>5 DEF ErdD2
    <2>7. end \in RelationEndColumns(model)
      BY DEF RelationEndColumns
    <2>8. c \in VisibleColumns(model, x, flags)
      BY <2>2, <2>3, <2>4, <2>7 DEF VisibleColumns
    <2> QED BY <2>3, <2>4, <2>6, <2>8
  <1> QED BY <1>1, <1>2

LEMMA EachTableOnce ==
  ASSUME Placing, Planned, parts \in Seq(fitting), NEW t \in TableNames(model)
  PROVE  Cardinality({n \in DOMAIN parts : t \in parts[n]}) = IF t \in tooLarge THEN 0 ELSE 1
  <1> DEFINE at == {n \in DOMAIN parts : t \in parts[n]}
  <1>1. unplaced = {} /\ part = {} /\ Held(groups) = {}
    BY NothingWaits DEF Planned, Placing
  <1>2. IF t \in tooLarge THEN t \notin PartsOf(parts) ELSE t \in PartsOf(parts)
    BY <1>1 DEF Placing, OnePlace
  <1>3. CASE t \in tooLarge
    <2>1. at = {}
      BY <1>2, <1>3 DEF PartsOf
    <2> QED BY <1>3, <2>1, FS_EmptySet
  <1>4. CASE t \notin tooLarge
    <2>1. PICK n \in DOMAIN parts : t \in parts[n]
      BY <1>2, <1>4 DEF PartsOf
    <2>2. at = {n}
      BY <2>1 DEF Placing, Parting
    <2> QED BY <1>4, <2>2, FS_Singleton
  <1> QED BY <1>3, <1>4

LEMMA PartsAreJoined ==
  ASSUME Placing, NEW n \in DOMAIN parts
  PROVE  \E t \in parts[n] : \/ parts[n] = Component(model, t)
                             \/ parts[n] \subseteq {u \in Component(model, t) : DomainOf(model, u) = DomainOf(model, t)}
  <1>1. Joined(model, parts[n]) /\ IsModel(model)
    BY DEF Placing, Parting
  <1>2. CASE Whole(model, parts[n])
    <2>1. PICK t \in TableNames(model) : parts[n] = Component(model, t)
      BY <1>2 DEF Whole
    <2>2. t \in Component(model, t)
      BY <1>1, ComponentIsClosed
    <2> QED BY <2>1, <2>2
  <1>3. CASE Kin(model, parts[n])
    <2>1. PICK t \in parts[n] : TRUE
      BY <1>1 DEF Joined
    <2> QED BY <1>3, <2>1 DEF Kin
  <1> QED BY <1>1, <1>2, <1>3 DEF Joined

(* Every plan covers the schema: splitIntoParts of erd-split.mjs, for any  *)
(* schema, any flags and whatever d2 fits on a page.                       *)
THEOREM PlansCoverTheSchema == ErdSpec => []PartsCoverTheSchema
  <1>1. ErdInit => CoverInv
    BY DEF ErdInit, CoverInv
  <1>2. CoverInv => PartsCoverTheSchema
    <2> SUFFICES ASSUME CoverInv, Planned PROVE PartsCoverTheSchema
      BY DEF PartsCoverTheSchema
    <2>1. Placing /\ IsModel(model) /\ flags \in Flags /\ parts \in Seq(fitting)
      BY DEF CoverInv, Planned, Placing
    <2>2. \A t \in TableNames(model) : Cardinality({n \in DOMAIN parts : t \in parts[n]}) = IF t \in tooLarge THEN 0 ELSE 1
      BY <2>1, EachTableOnce
    <2>3. \A t \in tooLarge : {t} \notin fitting
      BY <2>1 DEF Placing
    <2>4. \A t \in {x \in Range(model.tables) : x.name \in tooLarge} : \A option \in {"key", "hide"} :
            LET Rows(asked) == VisibleColumns(model, t, asked) IN
            /\ option \in SingleTableRemedy(model, t, "DIAGRAM-TOO-WIDE") /\ RowsDiffer(t.columns) => \A c \in Rows(With(option)) : \E d \in Rows(flags) : c.row < d.row
            /\ option \in SingleTableRemedy(model, t, "DIAGRAM-TOO-TALL") => Cardinality(Rows(With(option))) < Cardinality(Rows(flags))
      BY <2>1, RemediesTakeAway
    <2>5. \A n \in DOMAIN parts : parts[n] \in fitting
      BY <2>1
    <2>6. \A n \in DOMAIN parts : \E t \in parts[n] :
            \/ parts[n] = Component(model, t)
            \/ parts[n] \subseteq {u \in Component(model, t) : DomainOf(model, u) = DomainOf(model, t)}
      BY <2>1, PartsAreJoined
    <2>7. \A n \in DOMAIN parts : LET drawn == ErdD2(model, parts[n]) IN
            \A r \in Range(model.relations) : {r.from.table, r.to.table} \subseteq parts[n] =>
              /\ r \in drawn.edges \/ r.from.table = r.to.table
              /\ \A end \in {r.from, r.to} : \E t \in drawn.tables : t.name = end.table /\ \E c \in t.rows : c.name = end.column
      BY <2>1, EndsAreShown
    <2> QED BY <2>2, <2>3, <2>4, <2>5, <2>6, <2>7 DEF PartsCoverTheSchema
  <1> QED BY <1>1, <1>2, StepKeepsCover, PTL DEF ErdSpec

-----------------------------------------------------------------------------
(* The inductive invariant: a plan is made of sets of tables that fit, and *)
(* nothing is touched before it is made; then the files are the drawings   *)
(* of its first parts, and the status is only set by what ends the command. *)
Planning == {"start", "place", "seed", "grow"}

PlanInv ==
  /\ erdStep \in Planning \cup {"write", "over"}
  /\ parts \in Seq(fitting) /\ (erdStep = "grow" => part \in fitting)

FilesInv ==
  /\ erdStep # "over" => erdStatus = "none"
  /\ erdStep \in Planning => out \in Earlier /\ written = 0
  /\ erdStep = "write" => written \in 0..Len(parts) /\ out = [n \in 1..written |-> PlannedDiagrams[n]]
  /\ erdStep = "over" => OutIsOnePlan

LEMMA PlanInitially == ErdInit => PlanInv /\ FilesInv
  BY DEF ErdInit, PlanInv, FilesInv, Planning

LEMMA AppendKeepsType == \A S, s, e : s \in Seq(S) /\ e \in S => Append(s, e) \in Seq(S)
  OBVIOUS

(* The steps that make the plan leave the files alone.                     *)
LEMMA PlanningKeeps ==
  ASSUME PlanInv, FilesInv, ReadSchema \/ PlaceWhole \/ SeedPart \/ GrowPart
  PROVE  PlanInv' /\ FilesInv'
  <1>1. erdStep \in Planning /\ UNCHANGED <<fitting, written, out>>
    BY DEF ReadSchema, PlaceWhole, SeedPart, GrowPart, Given, PlanFiles, Planning
  <1>2. \/ erdStep' \in Planning /\ UNCHANGED erdStatus
        \/ erdStep' = "over" /\ erdStatus' = "1"
    BY <1>1 DEF ReadSchema, PlaceWhole, SeedPart, GrowPart, PlanFiles, Leaves, Planning
  <1>3. FilesInv'
    BY <1>1, <1>2 DEF FilesInv, OutIsOnePlan, Planning
  <1>4. parts' \in Seq(fitting)
    <2>1. parts' = parts \/ \E tables \in fitting : parts' = Append(parts, tables)
      BY DEF ReadSchema, PlaceWhole, SeedPart, GrowPart, PlanInv
    <2>2. QED BY <2>1, AppendKeepsType DEF PlanInv
  <1>5. erdStep' = "grow" => part' \in fitting
    BY DEF ReadSchema, PlaceWhole, SeedPart, GrowPart, PlanInv, Leaves
  <1>6. QED BY <1>1, <1>2, <1>3, <1>4, <1>5 DEF PlanInv

LEMMA ClearKeeps == ASSUME PlanInv, FilesInv, ClearOut PROVE PlanInv' /\ FilesInv'
  <1>1. /\ erdStep = "place" /\ erdStep' = "write" /\ out' = << >>
        /\ UNCHANGED <<fitting, part, parts, written, erdStatus>>
    BY DEF ClearOut, Planned, Given, Plan
  <1>2. written' = 0 /\ erdStatus' = "none" /\ Len(parts') \in Nat
    BY <1>1 DEF FilesInv, PlanInv, Planning
  <1>3. << >> = [n \in 1..0 |-> PlannedDiagrams'[n]]
    OBVIOUS
  <1>4. QED BY <1>1, <1>2, <1>3 DEF PlanInv, FilesInv, Planning

LEMMA WriteKeeps == ASSUME PlanInv, FilesInv, WriteDiagram PROVE PlanInv' /\ FilesInv'
  <1>1. /\ erdStep = "write" /\ UNCHANGED <<flags, fitting, model, part, parts>>
        /\ written \in 0..Len(parts) /\ Len(parts) \in Nat /\ DOMAIN parts = 1..Len(parts)
        /\ out = [n \in 1..written |-> PlannedDiagrams[n]] /\ erdStatus = "none"
    BY DEF WriteDiagram, Given, Plan, FilesInv, PlanInv
  <1>2. PlannedDiagrams' = PlannedDiagrams
    BY <1>1 DEF PlannedDiagrams, ErdD2, VisibleColumns
  <1>3. CASE written = Len(parts)
    <2>1. erdStep' = "over" /\ erdStatus' = "0" /\ out' = out
      BY <1>3 DEF WriteDiagram, Leaves
    <2>2. PlannedDiagrams = [n \in 1..Len(parts) |-> PlannedDiagrams[n]]
      BY <1>1 DEF PlannedDiagrams
    <2>3. out' = PlannedDiagrams'
      BY <1>1, <1>2, <1>3, <2>1, <2>2
    <2>4. QED BY <1>1, <2>1, <2>3 DEF PlanInv, FilesInv, OutIsOnePlan, Planning
  <1>4. CASE written # Len(parts)
    <2>1. /\ written' = written + 1
          /\ out' = [n \in DOMAIN out \cup {written + 1} |-> IF n = written + 1 THEN PlannedDiagrams[n] ELSE out[n]]
          /\ UNCHANGED <<erdStep, erdStatus>>
      BY <1>1, <1>4 DEF WriteDiagram
    <2>2. out' = [n \in 1..(written + 1) |-> PlannedDiagrams[n]]
      <3>1. {written + 1} \cup 1..written = 1..(written + 1)
        BY <1>1
      <3>2. QED BY <1>1, <2>1, <3>1
    <2>3. written' \in 0..Len(parts)
      <3>1. \A n, m : m \in Nat /\ n \in 0..m /\ n # m => n + 1 \in 0..m
        OBVIOUS
      <3>2. QED BY <1>1, <1>4, <2>1, <3>1
    <2>4. QED BY <1>1, <1>2, <2>1, <2>2, <2>3 DEF PlanInv, FilesInv, Planning
  <1>5. QED BY <1>3, <1>4

LEMMA EndsKeep == ASSUME PlanInv, FilesInv, ErdReport \/ D2Fails \/ Stopped PROVE PlanInv' /\ FilesInv'
  <1>1. /\ erdStep' = "over" /\ UNCHANGED <<fitting, part, parts, written, out>>
        /\ \/ erdStatus' = "1" /\ erdStep \in Planning
           \/ erdStatus' = "stopped"
    BY DEF ErdReport, D2Fails, Stopped, Planned, Leaves, Given, Plan, Planning
  <1>2. QED BY <1>1 DEF PlanInv, FilesInv, OutIsOnePlan, Planning

LEMMA StepKeepsPlan == ASSUME PlanInv, FilesInv, [ErdNext]_erdVars PROVE PlanInv' /\ FilesInv'
  <1>1. CASE UNCHANGED erdVars
    <2>1. PlannedDiagrams' = PlannedDiagrams
      BY <1>1 DEF erdVars, PlannedDiagrams, ErdD2, VisibleColumns
    <2>2. QED BY <1>1, <2>1 DEF erdVars, PlanInv, FilesInv, OutIsOnePlan
  <1>2. QED BY <1>1, PlanningKeeps, ClearKeeps, WriteKeeps, EndsKeep DEF ErdNext

(* Only a command that is stopped leaves a part of a plan: scripts/erd.mjs *)
(* clears the directory and writes the diagrams of the plan it reports.    *)
THEOREM OutHoldsOnePlan == ErdSpec => []OutIsOnePlan
  <1>1. PlanInv /\ FilesInv => OutIsOnePlan
    BY DEF PlanInv, FilesInv, OutIsOnePlan, Planning
  <1>2. QED BY <1>1, PlanInitially, StepKeepsPlan, PTL DEF ErdSpec
=============================================================================
