------------------------ MODULE SessionTokensProofs ------------------------
(* The token counter, for transcripts of any length, any number of runs and    *)
(* any damage to the cache: what a readable cache and a printed cost say is    *)
(* what a count of the same lines without cache or seen set says, and the      *)
(* denominator of the menu line is not disproved by the lines counted.         *)
(*                                                                             *)
(* Everything that speaks of counts takes the transcript as a parameter, so    *)
(* that it says the same of the transcript before and after a step.            *)
EXTENDS SessionTokens, FiniteSetTheorems, WellFoundedInduction, TLAPS

-----------------------------------------------------------------------------
(* Induction, as the least element of a set of naturals.                       *)
LEMMA LeastNat ==
    ASSUME NEW T \in SUBSET Nat, T # {}
    PROVE  \E n \in T : \A m \in T : n <= m
<1>1. IsWellFoundedOn(OpToRel(<, Nat), Nat)
  BY NatLessThanWellFounded
<1>2. \A x, y \in Nat : y < x => <<y, x>> \in OpToRel(<, Nat)
  <2> SUFFICES ASSUME NEW x \in Nat, NEW y \in Nat, y < x
               PROVE  <<y, x>> \in {ss \in Nat \X Nat : ss[1] < ss[2]}
    BY Zenon DEF OpToRel
  <2> QED
    OBVIOUS
<1>3. PICK x \in T : \A y \in T : ~ (<<y, x>> \in OpToRel(<, Nat))
  BY <1>1, WFMin
<1>4. \A y \in T : ~ (y < x)
  BY <1>2, <1>3, Zenon
<1> QED
  BY <1>4

-----------------------------------------------------------------------------
(* The direct counts over the first n lines of t.                              *)

Used(t, n)  == {i \in 1..n : t[i] \notin NoUsage}
Real(t, n)  == {i \in Used(t, n) : ModelOf[t[i]] # Synthetic}
Ids(t, S)   == {t[i] : i \in {j \in S : t[j] \notin NoId}}
Anon(t, S)  == {i \in S : t[i] \in NoId}
Count(t, S) == Cardinality(Ids(t, S)) + Cardinality(Anon(t, S))

LEMMA CountsByTranscript ==
    \A n : Messages(n) = Count(transcript, Used(transcript, n)) /\ Turns(n) = Count(transcript, Real(transcript, n))
<1> SUFFICES ASSUME NEW n PROVE Messages(n) = Count(transcript, Used(transcript, n)) /\ Turns(n) = Count(transcript, Real(transcript, n))
  OBVIOUS
<1>1. Upto(n) = Used(transcript, n)
  BY DEF Upto, Used
<1>2. Messages(n) = Count(transcript, Used(transcript, n))
  BY <1>1 DEF Messages, Count, Ids, Anon
<1>3. {j \in Upto(n) : transcript[j] \notin NoId /\ ModelOf[transcript[j]] # Synthetic}
        = {j \in Real(transcript, n) : transcript[j] \notin NoId}
  BY <1>1 DEF Real
<1>4. {i \in Upto(n) : transcript[i] \in NoId /\ ModelOf[transcript[i]] # Synthetic} = Anon(transcript, Real(transcript, n))
  BY <1>1 DEF Real, Anon
<1> QED
  BY <1>2, <1>3, <1>4 DEF Turns, Count, Ids

LEMMA FiniteCounts ==
    ASSUME NEW t, NEW n \in Nat, NEW S \in SUBSET (1..n)
    PROVE  /\ IsFiniteSet(Ids(t, S)) /\ IsFiniteSet(Anon(t, S)) /\ Count(t, S) \in Nat
<1>1. \A R \in SUBSET (1..n) : IsFiniteSet(R)
  <2>1. IsFiniteSet(1..n)
    BY FS_Interval
  <2> QED
    BY <2>1, FS_Subset
<1>2. IsFiniteSet(Anon(t, S))
  BY <1>1 DEF Anon
<1>3. IsFiniteSet(Ids(t, S))
  <2> DEFINE R == {j \in S : t[j] \notin NoId}
  <2> DEFINE f == [i \in R |-> t[i]]
  <2>1. IsFiniteSet(R)
    BY <1>1
  <2>2. f \in Surjection(R, Ids(t, S))
    BY DEF Surjection, Ids
  <2> QED
    BY <2>1, <2>2, FS_Surjection
<1> QED
  BY <1>2, <1>3, FS_CardinalityType DEF Count

(* One more index counts once, unless it repeats an id.                        *)
LEMMA CountOneMore ==
    ASSUME NEW t, NEW n \in Nat, NEW S \in SUBSET (1..n)
    PROVE  Count(t, S \cup {n + 1}) =
             IF t[n + 1] \notin NoId /\ t[n + 1] \in Ids(t, S) THEN Count(t, S) ELSE Count(t, S) + 1
<1>1. /\ IsFiniteSet(Ids(t, S)) /\ IsFiniteSet(Anon(t, S))
      /\ Cardinality(Ids(t, S)) \in Nat /\ Cardinality(Anon(t, S)) \in Nat
  BY FiniteCounts, FS_CardinalityType
<1>2. CASE t[n + 1] \in NoId
  <2>1. Ids(t, S \cup {n + 1}) = Ids(t, S)
    BY <1>2 DEF Ids
  <2>2. Anon(t, S \cup {n + 1}) = Anon(t, S) \cup {n + 1} /\ n + 1 \notin Anon(t, S)
    BY <1>2 DEF Anon
  <2>3. Cardinality(Anon(t, S) \cup {n + 1}) = Cardinality(Anon(t, S)) + 1
    BY <1>1, <2>2, FS_AddElement
  <2> QED
    BY <1>2, <1>1, <2>1, <2>2, <2>3 DEF Count
<1>3. CASE t[n + 1] \notin NoId
  <2>1. Ids(t, S \cup {n + 1}) = Ids(t, S) \cup {t[n + 1]}
    BY <1>3 DEF Ids
  <2>2. Anon(t, S \cup {n + 1}) = Anon(t, S)
    BY <1>3 DEF Anon
  <2>3. Cardinality(Ids(t, S) \cup {t[n + 1]}) =
          IF t[n + 1] \in Ids(t, S) THEN Cardinality(Ids(t, S)) ELSE Cardinality(Ids(t, S)) + 1
    BY <1>1, FS_AddElement
  <2> QED
    BY <1>3, <1>1, <2>1, <2>2, <2>3 DEF Count
<1> QED
  BY <1>2, <1>3

LEMMA CountNothing == \A t : Count(t, {}) = 0
  BY FS_EmptySet DEF Count, Ids, Anon

-----------------------------------------------------------------------------
(* The ids seen.                                                               *)

HasId(l)     == l \notin NoUsage \cup NoId
First(t, p)  == HasId(t[p]) /\ \A j \in 1..(p - 1) : t[j] # t[p]
After(t, n, p) == {q \in (p + 1)..n : First(t, q)}

(* Fewer than SeenSize messages begin between two lines of one message.        *)
Local(t) == \A n \in 1..Len(t) : \A j \in 1..(n - 1) :
                t[j] = t[n] /\ HasId(t[n]) => Cardinality(After(t, n - 1, j)) < SeenSize

(* The ids of seen are in the order in which their messages began, and all     *)
(* that began since the oldest of them are among them.                         *)
SeenOf(t, seen, n) ==
    /\ seen \in Seq(Lines) /\ Len(seen) <= SeenSize
    /\ \A i \in 1..Len(seen) : \E p \in 1..n :
           First(t, p) /\ t[p] = seen[i] /\ Cardinality(After(t, n, p)) = Len(seen) - i
    /\ \A p \in 1..n : First(t, p) =>
           (\E i \in 1..Len(seen) : seen[i] = t[p]) \/ Cardinality(After(t, n, p)) >= SeenSize

LEMMA AfterOneMore ==
    ASSUME NEW t, NEW n \in Nat, NEW p \in 1..n
    PROVE  /\ Cardinality(After(t, n, p)) \in Nat
           /\ Cardinality(After(t, n + 1, p)) =
                IF First(t, n + 1) THEN Cardinality(After(t, n, p)) + 1 ELSE Cardinality(After(t, n, p))
<1>1. IsFiniteSet(After(t, n, p))
  <2>1. IsFiniteSet((p + 1)..n) /\ After(t, n, p) \in SUBSET ((p + 1)..n)
    BY FS_Interval DEF After
  <2> QED
    BY <2>1, FS_Subset
<1>2. Cardinality(After(t, n, p)) \in Nat
  BY <1>1, FS_CardinalityType
<1>3. After(t, n + 1, p) = IF First(t, n + 1) THEN After(t, n, p) \cup {n + 1} ELSE After(t, n, p)
  BY DEF After
<1>4. n + 1 \notin After(t, n, p)
  BY DEF After
<1>5. Cardinality(After(t, n, p) \cup {n + 1}) = Cardinality(After(t, n, p)) + 1
  BY <1>1, <1>4, FS_AddElement
<1> QED
  BY <1>2, <1>3, <1>5

LEMMA NothingAfterTheLast == ASSUME NEW t, NEW n \in Nat PROVE Cardinality(After(t, n, n)) = 0
<1>1. After(t, n, n) = {}
  BY DEF After
<1> QED
  BY <1>1, FS_EmptySet

(* The first line of a message that has one.                                   *)
LEMMA FirstExists ==
    ASSUME NEW t, NEW n \in Nat, NEW j \in 1..n, HasId(t[j])
    PROVE  \E p \in 1..n : First(t, p) /\ t[p] = t[j]
<1> DEFINE T == {i \in 1..n : t[i] = t[j]}
<1>1. PICK p \in T : \A m \in T : p <= m
  <2>1. T \in SUBSET Nat /\ T # {}
    OBVIOUS
  <2> QED
    BY <2>1, LeastNat
<1>2. \A m \in 1..(p - 1) : t[m] # t[p]
  BY <1>1
<1> QED
  BY <1>1, <1>2 DEF First

(* What the seen set answers is whether the lines before had the id.           *)
LEMMA SeenMeansUsed ==
    ASSUME NEW t \in Seq(Lines), Local(t), NEW n \in 0..(Len(t) - 1), NEW seen, SeenOf(t, seen, n), HasId(t[n + 1])
    PROVE  /\ (\E i \in 1..Len(seen) : seen[i] = t[n + 1]) <=> (\E j \in 1..n : t[j] = t[n + 1])
           /\ First(t, n + 1) <=> ~ \E j \in 1..n : t[j] = t[n + 1]
<1>1. ASSUME NEW j \in 1..n, t[j] = t[n + 1] PROVE \E i \in 1..Len(seen) : seen[i] = t[n + 1]
  <2>1. PICK p \in 1..n : First(t, p) /\ t[p] = t[n + 1]
    BY <1>1, FirstExists
  <2>2. Cardinality(After(t, n, p)) < SeenSize /\ Cardinality(After(t, n, p)) \in Nat
    <3>1. n + 1 \in 1..Len(t) /\ p \in 1..((n + 1) - 1) /\ (n + 1) - 1 = n
      OBVIOUS
    <3>2. Cardinality(After(t, (n + 1) - 1, p)) < SeenSize
      BY <2>1, <3>1 DEF Local
    <3>3. n \in Nat /\ Cardinality(After(t, n, p)) < SeenSize
      BY <3>1, <3>2
    <3>4. Cardinality(After(t, n, p)) \in Nat
      BY <3>3, AfterOneMore
    <3> QED
      BY <3>3, <3>4
  <2> QED
    BY <2>1, <2>2, BoundsAreNaturals DEF SeenOf
<1>2. ASSUME NEW i \in 1..Len(seen), seen[i] = t[n + 1] PROVE \E j \in 1..n : t[j] = t[n + 1]
  BY <1>2 DEF SeenOf
<1>3. First(t, n + 1) <=> ~ \E j \in 1..n : t[j] = t[n + 1]
  BY DEF First
<1> QED
  BY <1>1, <1>2, <1>3

LEMMA SeenStays ==
    ASSUME NEW t \in Seq(Lines), NEW n \in 0..(Len(t) - 1), NEW seen, SeenOf(t, seen, n), ~First(t, n + 1)
    PROVE  SeenOf(t, seen, n + 1)
<1>1. n \in Nat
  OBVIOUS
<1>2. \A p \in 1..n : Cardinality(After(t, n + 1, p)) = Cardinality(After(t, n, p))
  BY <1>1, AfterOneMore
<1>3. \A i \in 1..Len(seen) : \E p \in 1..(n + 1) :
        First(t, p) /\ t[p] = seen[i] /\ Cardinality(After(t, n + 1, p)) = Len(seen) - i
  <2> SUFFICES ASSUME NEW i \in 1..Len(seen)
               PROVE  \E p \in 1..(n + 1) :
                        First(t, p) /\ t[p] = seen[i] /\ Cardinality(After(t, n + 1, p)) = Len(seen) - i
    OBVIOUS
  <2>1. PICK p \in 1..n : First(t, p) /\ t[p] = seen[i] /\ Cardinality(After(t, n, p)) = Len(seen) - i
    BY DEF SeenOf
  <2> QED
    BY <1>1, <1>2, <2>1
<1>4. \A p \in 1..(n + 1) : First(t, p) =>
        (\E i \in 1..Len(seen) : seen[i] = t[p]) \/ Cardinality(After(t, n + 1, p)) >= SeenSize
  <2>1. \A p \in 1..(n + 1) : First(t, p) => p \in 1..n
    BY <1>1
  <2> QED
    BY <1>2, <2>1 DEF SeenOf
<1> QED
  BY <1>3, <1>4 DEF SeenOf

(* A message that begins is appended; at the limit the oldest makes room.      *)
LEMMA SeenGrows ==
    ASSUME NEW t \in Seq(Lines), NEW n \in 0..(Len(t) - 1), NEW seen, SeenOf(t, seen, n), First(t, n + 1)
    PROVE  SeenOf(t, IF Len(seen) = SeenSize THEN Append(Tail(seen), t[n + 1]) ELSE Append(seen, t[n + 1]), n + 1)
<1> DEFINE new == IF Len(seen) = SeenSize THEN Append(Tail(seen), t[n + 1]) ELSE Append(seen, t[n + 1])
           cut == IF Len(seen) = SeenSize THEN 1 ELSE 0
<1>1. n \in Nat /\ seen \in Seq(Lines) /\ Len(seen) \in Nat /\ t[n + 1] \in Lines /\ SeenSize \in Nat \ {0}
  BY BoundsAreNaturals DEF SeenOf
<1>2. \A p \in 1..n : /\ Cardinality(After(t, n, p)) \in Nat
                      /\ Cardinality(After(t, n + 1, p)) = Cardinality(After(t, n, p)) + 1
  BY <1>1, AfterOneMore
<1>3. Cardinality(After(t, n + 1, n + 1)) = 0
  BY <1>1, NothingAfterTheLast
<1>4. /\ new \in Seq(Lines) /\ Len(new) = Len(seen) + 1 - cut /\ new[Len(new)] = t[n + 1]
      /\ \A i \in 1..(Len(new) - 1) : i + cut \in 1..Len(seen) /\ new[i] = seen[i + cut]
  BY <1>1
<1>5. Len(new) <= SeenSize
  BY <1>1, <1>4 DEF SeenOf
<1>6. ASSUME NEW i \in 1..Len(new)
      PROVE  \E p \in 1..(n + 1) : First(t, p) /\ t[p] = new[i] /\ Cardinality(After(t, n + 1, p)) = Len(new) - i
  <2>1. CASE i = Len(new)
    BY <1>1, <1>3, <1>4, <2>1
  <2>2. CASE i # Len(new)
    <3>1. i \in 1..(Len(new) - 1)
      BY <1>1, <1>4, <2>2
    <3>2. PICK p \in 1..n : First(t, p) /\ t[p] = seen[i + cut] /\ Cardinality(After(t, n, p)) = Len(seen) - (i + cut)
      BY <1>4, <3>1 DEF SeenOf
    <3>3. Cardinality(After(t, n + 1, p)) = Len(new) - i
      <4>1. /\ Cardinality(After(t, n, p)) \in Nat
            /\ Cardinality(After(t, n + 1, p)) = Cardinality(After(t, n, p)) + 1
        BY <1>2
      <4>2. Len(new) = Len(seen) + 1 - cut /\ Len(seen) \in Nat /\ cut \in {0, 1}
        BY <1>1, <1>4
      <4> HIDE DEF new, cut
      <4> QED
        BY <3>1, <3>2, <4>1, <4>2
    <3> QED
      BY <1>1, <1>4, <3>1, <3>2, <3>3
  <2> QED
    BY <2>1, <2>2
<1>7. ASSUME NEW p \in 1..(n + 1), First(t, p)
      PROVE  (\E i \in 1..Len(new) : new[i] = t[p]) \/ Cardinality(After(t, n + 1, p)) >= SeenSize
  <2>1. CASE p = n + 1
    BY <1>1, <1>4, <2>1
  <2>2. CASE p \in 1..n /\ Cardinality(After(t, n, p)) >= SeenSize
    BY <1>1, <1>2, <2>2
  <2>3. ASSUME p \in 1..n, NEW i \in 1..Len(seen), seen[i] = t[p], i > cut
        PROVE  \E j \in 1..Len(new) : new[j] = t[p]
    <3>1. i - cut \in 1..(Len(new) - 1) /\ (i - cut) + cut = i
      BY <1>1, <1>4, <2>3
    <3>2. new[i - cut] = seen[(i - cut) + cut] /\ i - cut \in 1..Len(new)
      BY <1>1, <1>4, <3>1
    <3>3. new[i - cut] = t[p] /\ i - cut \in 1..Len(new)
      BY <2>3, <3>1, <3>2
    <3> HIDE DEF new, cut
    <3> QED
      BY <3>3
  <2>4. ASSUME p \in 1..n, seen[1] = t[p], Len(seen) = SeenSize
        PROVE  Cardinality(After(t, n + 1, p)) >= SeenSize
    <3>1. PICK q \in 1..n : First(t, q) /\ t[q] = seen[1] /\ Cardinality(After(t, n, q)) = SeenSize - 1
      BY <1>1, <2>4 DEF SeenOf
    <3>2. p = q
      BY <1>1, <1>7, <2>4, <3>1 DEF First
    <3> QED
      BY <1>1, <1>2, <3>1, <3>2
  <2>5. p \in 1..n => (\E i \in 1..Len(seen) : seen[i] = t[p]) \/ Cardinality(After(t, n, p)) >= SeenSize
    BY <1>7 DEF SeenOf
  <2>6. ASSUME p \in 1..n, NEW i \in 1..Len(seen), seen[i] = t[p], ~(i > cut)
        PROVE  seen[1] = t[p] /\ Len(seen) = SeenSize
    BY <1>1, <2>6
  <2>7. p = n + 1 \/ p \in 1..n
    BY <1>1
  <2> HIDE DEF new, cut
  <2> QED
    BY <2>1, <2>2, <2>3, <2>4, <2>5, <2>6, <2>7
<1> QED
  BY <1>4, <1>5, <1>6, <1>7 DEF SeenOf

-----------------------------------------------------------------------------
(* A cache that is true of the first n lines of t.                             *)

Marks  == [output : Nat, turns : Nat, at : Nat]
Caches == [offset : Nat, output : Nat, turns : Nat, lastModel : Models \cup {None},
           last : [Models -> Nat], observed : [Models -> Nat], seen : Seq(Lines),
           marks : [Keys -> Marks \cup {None}]]

Counted(t, n, output, turns) == output = Count(t, Used(t, n)) /\ turns = Count(t, Real(t, n))

ShowsTheLast(t, n, m, window) ==
    \E i \in Real(t, n) : (\A j \in Real(t, n) : j <= i) /\ ModelOf[t[i]] = m /\ WindowOf[t[i]] = window

TrueOf(t, c, n) ==
    /\ c \in Caches /\ Counted(t, n, c.output, c.turns) /\ SeenOf(t, c.seen, n)
    /\ c.lastModel # None => ShowsTheLast(t, n, c.lastModel, c.last[c.lastModel])
    /\ \A i \in Real(t, n) : WindowOf[t[i]] <= c.observed[ModelOf[t[i]]]
    /\ \A k \in Keys : c.marks[k] # None =>
           c.marks[k].at <= n /\ Counted(t, c.marks[k].at, c.marks[k].output, c.marks[k].turns)

Good(t, c) == c.offset <= Len(t) /\ TrueOf(t, c, c.offset)

LEMMA EmptyCacheIsGood == ASSUME NEW t \in Seq(Lines) PROVE Good(t, EmptyCache)
<1>1. EmptyCache \in Caches /\ EmptyCache.seen = <<>> /\ EmptyCache.offset = 0
  BY DEF EmptyCache, Caches
<1>2. Used(t, 0) = {} /\ Real(t, 0) = {}
  BY DEF Used, Real
<1>3. Counted(t, 0, EmptyCache.output, EmptyCache.turns)
  BY <1>2, CountNothing DEF Counted, EmptyCache
<1>4. SeenOf(t, <<>>, 0)
  BY BoundsAreNaturals DEF SeenOf
<1> QED
  BY <1>1, <1>2, <1>3, <1>4 DEF Good, TrueOf, EmptyCache

(* What a usage line adds to the direct counts.                                *)
LEMMA OneMoreLine ==
    ASSUME NEW t \in Seq(Lines), NEW n \in 0..(Len(t) - 1)
    PROVE  /\ Used(t, n) \in SUBSET (1..n) /\ Real(t, n) \in SUBSET (1..n)
           /\ Used(t, n + 1) = IF t[n + 1] \in NoUsage THEN Used(t, n) ELSE Used(t, n) \cup {n + 1}
           /\ Real(t, n + 1) = IF t[n + 1] \in NoUsage \/ ModelOf[t[n + 1]] = Synthetic
                               THEN Real(t, n) ELSE Real(t, n) \cup {n + 1}
<1>1. 1..(n + 1) = (1..n) \cup {n + 1}
  OBVIOUS
<1> QED
  BY <1>1 DEF Used, Real

(* A line without usage changes nothing.                                       *)
LEMMA TrueOverOtherLines ==
    ASSUME NEW t \in Seq(Lines), NEW n \in 0..(Len(t) - 1), NEW c, TrueOf(t, c, n), t[n + 1] \in NoUsage
    PROVE  TrueOf(t, c, n + 1)
<1>1. Used(t, n + 1) = Used(t, n) /\ Real(t, n + 1) = Real(t, n)
  BY OneMoreLine
<1>2. SeenOf(t, c.seen, n + 1)
  BY SeenStays DEF TrueOf, First, HasId
<1>3. \A k \in Keys : c.marks[k] # None => c.marks[k].at <= n + 1
  BY DEF TrueOf, Caches, Marks
<1> QED
  BY <1>1, <1>2, <1>3 DEF TrueOf, Counted, ShowsTheLast

(* A usage line is counted as the direct counts count it.                      *)
LEMMA CountEntryIsTrue ==
    ASSUME NEW t \in Seq(Lines), Local(t), NEW n \in 0..(Len(t) - 1), NEW c, TrueOf(t, c, n),
           t[n + 1] \notin NoUsage
    PROVE  TrueOf(t, CountEntry(c, t[n + 1]), n + 1) /\ CountEntry(c, t[n + 1]).offset = c.offset
<1> DEFINE l == t[n + 1]
           m == ModelOf[l]
           once == IF SeenBefore(c, l) THEN 0 ELSE 1
           d == CountEntry(c, l)
<1>1. l \in Lines \ NoUsage /\ c \in Caches /\ n \in Nat /\ c.seen \in Seq(Lines)
  BY DEF TrueOf, Caches
<1>2. /\ WindowOf[l] \in Nat /\ (m # Synthetic => m \in Models)
  BY <1>1, WindowsAreNaturals DEF Models
<1>3. /\ d.seen = MarkSeen(c, l) /\ d.output = c.output + once /\ d.offset = c.offset /\ d.marks = c.marks
      /\ d.turns = IF m = Synthetic THEN c.turns ELSE c.turns + once
      /\ d.lastModel = IF m = Synthetic THEN c.lastModel ELSE m
      /\ d.last = IF m = Synthetic THEN c.last ELSE [c.last EXCEPT ![m] = WindowOf[l]]
      /\ d.observed = IF m = Synthetic THEN c.observed
                      ELSE [c.observed EXCEPT ![m] = Largest(c.observed[m], WindowOf[l])]
  BY <1>1 DEF CountEntry, Caches
<1>4. SeenBefore(c, l) <=> HasId(l) /\ \E j \in 1..n : t[j] = l
  <2>1. HasId(l) => ((\E i \in 1..Len(c.seen) : c.seen[i] = l) <=> (\E j \in 1..n : t[j] = l))
    BY SeenMeansUsed DEF TrueOf
  <2> QED
    BY <1>1, <2>1 DEF SeenBefore, HasId
<1>5. SeenOf(t, d.seen, n + 1)
  <2>1. First(t, n + 1) <=> HasId(l) /\ ~SeenBefore(c, l)
    BY <1>1, <1>4 DEF First
  <2>2. CASE First(t, n + 1)
    <3>1. d.seen = IF Len(c.seen) = SeenSize THEN Append(Tail(c.seen), l) ELSE Append(c.seen, l)
      BY <1>3, <2>1, <2>2 DEF MarkSeen, HasId
    <3> QED
      BY <2>2, <3>1, SeenGrows DEF TrueOf
  <2>3. CASE ~First(t, n + 1)
    <3>1. d.seen = c.seen
      BY <1>1, <1>3, <2>1, <2>3 DEF MarkSeen, HasId
    <3> QED
      BY <2>3, <3>1, SeenStays DEF TrueOf
  <2> QED
    BY <2>2, <2>3
<1>6. Counted(t, n + 1, d.output, d.turns)
  <2>1. IF SeenBefore(c, l) THEN l \notin NoId /\ l \in Ids(t, Used(t, n))
        ELSE ~(l \notin NoId /\ l \in Ids(t, Used(t, n)))
    BY <1>1, <1>4 DEF Ids, Used, HasId
  <2>2. m # Synthetic => (l \notin NoId /\ l \in Ids(t, Real(t, n)) <=> SeenBefore(c, l))
    BY <1>1, <1>4 DEF Ids, Real, Used, HasId
  <2>3. Count(t, Used(t, n + 1)) = Count(t, Used(t, n)) + once
    <3>1. Count(t, Used(t, n) \cup {n + 1}) =
            IF l \notin NoId /\ l \in Ids(t, Used(t, n)) THEN Count(t, Used(t, n)) ELSE Count(t, Used(t, n)) + 1
      <4>1. Used(t, n) \in SUBSET (1..n) /\ n \in Nat
        BY <1>1, OneMoreLine
      <4> QED
        BY <4>1, CountOneMore
    <3>2. Count(t, Used(t, n)) \in Nat
      BY <1>1, OneMoreLine, FiniteCounts
    <3>3. Count(t, Used(t, n + 1)) = Count(t, Used(t, n) \cup {n + 1})
      <4>1. Used(t, n + 1) = Used(t, n) \cup {n + 1}
        BY OneMoreLine
      <4> QED
        BY <4>1, Zenon
    <3> QED
      BY <2>1, <3>1, <3>2, <3>3
  <2>4. Count(t, Real(t, n + 1)) = IF m = Synthetic THEN Count(t, Real(t, n)) ELSE Count(t, Real(t, n)) + once
    <3>1. Count(t, Real(t, n) \cup {n + 1}) =
            IF l \notin NoId /\ l \in Ids(t, Real(t, n)) THEN Count(t, Real(t, n)) ELSE Count(t, Real(t, n)) + 1
      <4>1. Real(t, n) \in SUBSET (1..n) /\ n \in Nat
        BY <1>1, OneMoreLine
      <4> QED
        BY <4>1, CountOneMore
    <3>2. Count(t, Real(t, n)) \in Nat
      BY <1>1, OneMoreLine, FiniteCounts
    <3>3. Real(t, n + 1) = IF m = Synthetic THEN Real(t, n) ELSE Real(t, n) \cup {n + 1}
      BY OneMoreLine
    <3> QED
      BY <2>2, <3>1, <3>2, <3>3
  <2>5. Counted(t, n, c.output, c.turns)
    BY DEF TrueOf
  <2> HIDE DEF once, m, l, d
  <2> QED
    BY <1>3, <2>3, <2>4, <2>5 DEF Counted
<1>7. Real(t, n) \in SUBSET (1..n) /\ Real(t, n + 1) = IF m = Synthetic THEN Real(t, n) ELSE Real(t, n) \cup {n + 1}
  BY OneMoreLine
<1>8. d \in Caches
  <2>1. d.output \in Nat /\ d.turns \in Nat
    BY <1>1, <1>3 DEF Caches
  <2>2. Len(d.seen) \in Nat /\ d.seen \in Seq(Lines)
    BY <1>5 DEF SeenOf
  <2>3. d.last \in [Models -> Nat] /\ d.observed \in [Models -> Nat] /\ d.lastModel \in Models \cup {None}
    <3>1. c.last \in [Models -> Nat] /\ c.observed \in [Models -> Nat] /\ c.lastModel \in Models \cup {None}
      BY <1>1 DEF Caches
    <3> HIDE DEF d, l, m
    <3>2. CASE m = Synthetic
      BY <1>3, <3>1, <3>2
    <3>3. CASE m # Synthetic
      <4>1. m \in Models /\ c.observed[m] \in Nat
        BY <1>2, <3>1, <3>3
      <4>2. Largest(c.observed[m], WindowOf[l]) \in Nat
        BY <1>2, <4>1 DEF Largest
      <4>3. d.last \in [Models -> Nat]
        BY <1>2, <1>3, <3>1, <3>3, <4>1
      <4>4. d.observed \in [Models -> Nat]
        BY <1>3, <3>1, <3>3, <4>1, <4>2
      <4> QED
        BY <1>3, <3>3, <4>1, <4>3, <4>4
    <3> QED
      BY <3>2, <3>3
  <2>4. d = [offset |-> d.offset, output |-> d.output, turns |-> d.turns, lastModel |-> d.lastModel,
             last |-> d.last, observed |-> d.observed, seen |-> d.seen, marks |-> d.marks]
    BY <1>1 DEF CountEntry, Caches
  <2> QED
    BY <1>1, <1>3, <2>1, <2>2, <2>3, <2>4 DEF Caches
<1>9. d.lastModel # None => ShowsTheLast(t, n + 1, d.lastModel, d.last[d.lastModel])
  <2>1. CASE m = Synthetic
    BY <1>3, <1>7, <2>1 DEF TrueOf, ShowsTheLast
  <2>2. CASE m # Synthetic
    <3>1. d.lastModel = m /\ d.last[d.lastModel] = WindowOf[l]
      BY <1>1, <1>2, <1>3, <2>2 DEF Caches
    <3>2. n + 1 \in Real(t, n + 1) /\ \A j \in Real(t, n + 1) : j <= n + 1
      BY <1>1, <1>7, <2>2
    <3> QED
      BY <3>1, <3>2 DEF ShowsTheLast
  <2> QED
    BY <2>1, <2>2
<1>10. \A i \in Real(t, n + 1) : WindowOf[t[i]] <= d.observed[ModelOf[t[i]]]
  <2>1. CASE m = Synthetic
    BY <1>3, <1>7, <2>1 DEF TrueOf
  <2>2. CASE m # Synthetic
    <3>1. \A i \in Real(t, n) : /\ WindowOf[t[i]] \in Nat /\ ModelOf[t[i]] \in Models
                                /\ WindowOf[t[i]] <= c.observed[ModelOf[t[i]]]
      <4>1. \A i \in Real(t, n) : t[i] \in Lines \ NoUsage
        BY <1>1 DEF Real, Used
      <4> QED
        BY <4>1, WindowsAreNaturals DEF TrueOf, Models, Real
    <3>2. c.observed \in [Models -> Nat]
      BY <1>1 DEF Caches
    <3>3. \A x \in Models : d.observed[x] \in Nat /\ d.observed[x] >= c.observed[x]
      BY <1>2, <1>3, <2>2, <3>2 DEF Largest
    <3>4. d.observed[m] >= WindowOf[l]
      BY <1>2, <1>3, <2>2, <3>2 DEF Largest
    <3>5. \A i \in Real(t, n) : WindowOf[t[i]] <= d.observed[ModelOf[t[i]]]
      BY <3>1, <3>2, <3>3
    <3> QED
      BY <1>7, <2>2, <3>4, <3>5
  <2> QED
    BY <2>1, <2>2
<1>11. \A k \in Keys : d.marks[k] # None =>
           d.marks[k].at <= n + 1 /\ Counted(t, d.marks[k].at, d.marks[k].output, d.marks[k].turns)
  <2>1. \A k \in Keys : c.marks[k] # None => c.marks[k].at \in Nat
    BY <1>1 DEF Caches, Marks
  <2> QED
    BY <1>1, <1>3, <2>1 DEF TrueOf
<1> QED
  BY <1>3, <1>5, <1>6, <1>8, <1>9, <1>10, <1>11 DEF TrueOf

(* The loop of accumulate, from line a + 1 to line b.                          *)
Counts(c, l) == IF l \in NoUsage THEN c ELSE CountEntry(c, l)
Loop(t, c, a, b, f) == f = [i \in a..b |-> IF i = a THEN c ELSE Counts(f[i - 1], t[i])]

LEMMA LoopRuns == ASSUME NEW t, NEW c, NEW a \in Nat, NEW b \in Nat, a <= b PROVE \E f : Loop(t, c, a, b, f)
<1> DEFINE T == {n \in Nat : n >= a /\ ~ \E f : Loop(t, c, a, n, f)}
<1>1. SUFFICES T = {}
  OBVIOUS
<1>2. ASSUME NEW n \in T, \A m \in T : n <= m PROVE FALSE
  <2>1. CASE n = a
    <3>1. Loop(t, c, a, n, [i \in a..n |-> c])
      BY <2>1 DEF Loop
    <3> QED
      BY <3>1
  <2>2. CASE n > a
    <3>1. n - 1 \in Nat /\ n - 1 >= a /\ n - 1 \notin T
      BY <1>2, <2>2
    <3>2. PICK f : Loop(t, c, a, n - 1, f)
      BY <3>1
    <3> DEFINE g == [i \in a..n |-> IF i = n THEN Counts(f[i - 1], t[i]) ELSE f[i]]
    <3>3. \A i \in a..n : g[i] = IF i = a THEN c ELSE Counts(g[i - 1], t[i])
      <4>1. \A i \in a..(n - 1) : f[i] = IF i = a THEN c ELSE Counts(f[i - 1], t[i])
        BY <3>2 DEF Loop
      <4>2. \A i \in a..n : i = n \/ i \in a..(n - 1)
        OBVIOUS
      <4>3. \A i \in a..n : i # a => i - 1 \in a..n /\ i - 1 # n
        OBVIOUS
      <4>4. \A i \in a..n : i # n => g[i] = f[i]
        OBVIOUS
      <4>5. g[n] = Counts(f[n - 1], t[n])
        BY <2>2
      <4> HIDE DEF g
      <4> QED
        BY <2>2, <4>1, <4>2, <4>3, <4>4, <4>5
    <3>4. Loop(t, c, a, n, g)
      BY <3>3 DEF Loop
    <3> QED
      BY <3>4
  <2> QED
    BY <2>1, <2>2
<1> QED
  BY <1>2, LeastNat

LEMMA LoopIsTrue ==
    ASSUME NEW t \in Seq(Lines), Local(t), NEW a \in Nat, NEW b \in a..Len(t), NEW c, c.offset = a, TrueOf(t, c, a),
           NEW f, Loop(t, c, a, b, f)
    PROVE  TrueOf(t, f[b], b) /\ f[b].offset = a
<1> DEFINE T == {n \in a..b : ~(TrueOf(t, f[n], n) /\ f[n].offset = a)}
<1>1. \A i \in a..b : f[i] = IF i = a THEN c ELSE Counts(f[i - 1], t[i])
  BY DEF Loop
<1>2. ASSUME NEW n \in T, \A m \in T : n <= m PROVE FALSE
  <2>1. n # a
    BY <1>1
  <2>2. n - 1 \in a..b /\ n - 1 \in 0..(Len(t) - 1) /\ (n - 1) + 1 = n /\ n - 1 \notin T
    BY <1>2, <2>1
  <2>3. TrueOf(t, f[n - 1], n - 1) /\ f[n - 1].offset = a
    BY <2>2
  <2>4. f[n] = Counts(f[n - 1], t[n])
    BY <1>1, <2>1
  <2>5. CASE t[n] \in NoUsage
    <3>1. TrueOf(t, f[n - 1], (n - 1) + 1)
      BY <2>2, <2>3, <2>5, TrueOverOtherLines
    <3> QED
      BY <2>2, <2>3, <2>4, <2>5, <3>1 DEF Counts
  <2>6. CASE t[n] \notin NoUsage
    <3>1. TrueOf(t, CountEntry(f[n - 1], t[(n - 1) + 1]), (n - 1) + 1) /\ CountEntry(f[n - 1], t[(n - 1) + 1]).offset = a
      BY <2>2, <2>3, <2>6, CountEntryIsTrue
    <3> QED
      BY <2>2, <2>4, <2>6, <3>1 DEF Counts
  <2> QED
    BY <2>5, <2>6
<1>3. T \in SUBSET Nat
  OBVIOUS
<1>4. T = {}
  BY <1>2, <1>3, LeastNat
<1>5. b \in a..b
  OBVIOUS
<1> QED
  BY <1>4, <1>5

LEMMA AccumulateIsGood ==
    ASSUME transcript \in Seq(Lines), Local(transcript), NEW c, Good(transcript, c),
           NEW read \in Nat, read \div 2 <= Len(transcript)
    PROVE  Good(transcript, Accumulate(c, read))
<1> DEFINE a == c.offset
           b == read \div 2
<1>1. a \in Nat /\ c \in Caches /\ TrueOf(transcript, c, a)
  BY DEF Good, TrueOf, Caches
<1>2. CASE read <= 2 * c.offset
  BY <1>2 DEF Accumulate
<1>3. CASE ~(read <= 2 * c.offset)
  <2>1. b \in a..Len(transcript) /\ a <= b
    BY <1>1, <1>3
  <2> DEFINE f == CHOOSE g : g = [i \in a..b |-> IF i = a THEN c ELSE IF transcript[i] \in NoUsage THEN g[i - 1]
                                                                 ELSE CountEntry(g[i - 1], transcript[i])]
  <2>2. Accumulate(c, read) = OffsetAfter(f[b], read)
    BY <1>3 DEF Accumulate
  <2>3. \E g : g = [i \in a..b |-> IF i = a THEN c ELSE IF transcript[i] \in NoUsage THEN g[i - 1]
                                                     ELSE CountEntry(g[i - 1], transcript[i])]
    <3>1. b \in Nat
      BY <2>1
    <3>2. PICK g : Loop(transcript, c, a, b, g)
      BY <1>1, <2>1, <3>1, LoopRuns
    <3> QED
      BY <3>2, Zenon DEF Loop, Counts
  <2>4. Loop(transcript, c, a, b, f)
    BY <2>3, Zenon DEF Loop, Counts
  <2>5. TrueOf(transcript, f[b], b) /\ f[b].offset = a
    BY <1>1, <2>1, <2>4, LoopIsTrue
  <2> HIDE DEF f
  <2>6. TrueOf(transcript, OffsetAfter(f[b], read), b) /\ OffsetAfter(f[b], read).offset = b
    <3> DEFINE d == OffsetAfter(f[b], read)
    <3>1. f[b] \in Caches /\ b \in Nat
      BY <2>1, <2>5 DEF TrueOf
    <3>2. /\ d \in Caches /\ d.offset = b /\ d.output = f[b].output /\ d.turns = f[b].turns /\ d.seen = f[b].seen
          /\ d.lastModel = f[b].lastModel /\ d.last = f[b].last /\ d.observed = f[b].observed /\ d.marks = f[b].marks
      BY <3>1 DEF OffsetAfter, Caches
    <3> HIDE DEF d
    <3>3. TrueOf(transcript, d, b)
      BY <2>5, <3>2 DEF TrueOf
    <3> QED
      BY <3>2, <3>3 DEF d
  <2> QED
    BY <2>1, <2>2, <2>6 DEF Good
<1> QED
  BY <1>2, <1>3

-----------------------------------------------------------------------------
(* The runs.                                                                   *)

CostIsTrue(t, w) ==
    /\ w.to \in 0..Len(t) /\ w.from \in 0..w.to
    /\ w.output = Count(t, Used(t, w.to)) - Count(t, Used(t, w.from))
    /\ w.turns = Count(t, Real(t, w.to)) - Count(t, Real(t, w.from))

WindowIsTrue(t, w) ==
    /\ w.to \in 0..Len(t) /\ ShowsTheLast(t, w.to, w.model, w.window)
    /\ w.limit # None => \A i \in Real(t, w.to) : ModelOf[t[i]] = w.model => WindowOf[t[i]] <= w.limit

PrintsTrue(t, k, w) ==
    /\ k = "delta" => CostIsTrue(t, w)
    /\ k = "menu" /\ w.what = "window" => WindowIsTrue(t, w)

(* A line that may follow keeps the transcript local.                          *)
MayFollow(t, l) ==
    l \in Lines /\ \A j \in 1..Len(t) : t[j] = l /\ HasId(l) => Cardinality(After(t, Len(t), j)) < SeenSize

RunTypes ==
    /\ pc \in [Runs -> {"idle", "load", "open", "fill", "done"}]
    /\ kind \in [Runs -> {None, "menu", "mark", "delta"}] /\ key \in [Runs -> Keys \cup {None}]
    /\ size \in [Runs -> Nat] /\ DOMAIN local = Runs /\ DOMAIN printed = Runs
    /\ \A r \in Runs : /\ pc[r] \in {"load", "open", "fill"} => key[r] \in Keys /\ kind[r] \in {"menu", "mark", "delta"}
                       /\ size[r] \div 2 <= Len(transcript)

TokensInv ==
    /\ transcript \in Seq(Lines) /\ Local(transcript) /\ (half # None => MayFollow(transcript, half))
    /\ RunTypes
    /\ Readable(cache) => Good(transcript, cache)
    /\ \A r \in Runs : /\ pc[r] \in {"open", "fill"} => Good(transcript, local[r])
                       /\ printed[r] # None => pc[r] = "done" /\ PrintsTrue(transcript, kind[r], printed[r])

(* What holds of lines that are written keeps holding of them.                 *)
LEMMA WrittenLinesStay ==
    ASSUME NEW t \in Seq(Lines), NEW l \in Lines, NEW n \in 0..Len(t)
    PROVE  /\ Used(Append(t, l), n) = Used(t, n) /\ Real(Append(t, l), n) = Real(t, n)
           /\ Count(Append(t, l), Used(t, n)) = Count(t, Used(t, n))
           /\ Count(Append(t, l), Real(t, n)) = Count(t, Real(t, n))
           /\ \A p \in 1..n : First(Append(t, l), p) <=> First(t, p)
           /\ \A p \in 1..n : After(Append(t, l), n, p) = After(t, n, p)
<1> DEFINE u == Append(t, l)
<1>1. \A i \in 1..n : u[i] = t[i]
  OBVIOUS
<1> HIDE DEF u
<1>2. Used(u, n) = Used(t, n)
  BY <1>1 DEF Used
<1>3. Real(u, n) = Real(t, n)
  BY <1>1, <1>2 DEF Real, Used
<1>4. ASSUME NEW S \in SUBSET (1..n) PROVE Count(u, S) = Count(t, S)
  <2>1. {u[i] : i \in {j \in S : u[j] \notin NoId}} = {t[i] : i \in {j \in S : t[j] \notin NoId}}
    BY <1>1
  <2>2. {i \in S : u[i] \in NoId} = {i \in S : t[i] \in NoId}
    BY <1>1
  <2> QED
    BY <2>1, <2>2 DEF Count, Ids, Anon
<1>5. Used(t, n) \in SUBSET (1..n) /\ Real(t, n) \in SUBSET (1..n)
  BY DEF Used, Real
<1>6. \A p \in 1..n : First(u, p) <=> First(t, p)
  BY <1>1 DEF First
<1>7. \A p \in 1..n : After(u, n, p) = After(t, n, p)
  BY <1>6 DEF After
<1> QED
  BY <1>2, <1>3, <1>4, <1>5, <1>6, <1>7 DEF u

LEMMA TruthStays ==
    ASSUME NEW t \in Seq(Lines), NEW l \in Lines
    PROVE  /\ \A c : Good(t, c) => Good(Append(t, l), c)
           /\ \A k, w : PrintsTrue(t, k, w) => PrintsTrue(Append(t, l), k, w)
<1> DEFINE u == Append(t, l)
<1>1. \A n \in 0..Len(t) : \A output, turns : Counted(t, n, output, turns) => Counted(u, n, output, turns)
  BY WrittenLinesStay DEF Counted
<1>2. \A n \in 0..Len(t) : Real(u, n) = Real(t, n) /\ Used(u, n) = Used(t, n)
  BY WrittenLinesStay
<1>3. \A i \in 1..Len(t) : u[i] = t[i] /\ Len(t) \in Nat /\ Len(u) = Len(t) + 1
  OBVIOUS
<1>4. \A n \in 0..Len(t) : \A i \in Real(t, n) : i \in 1..Len(t)
  BY DEF Real, Used
<1>5. Len(t) \in Nat /\ Len(u) = Len(t) + 1
  OBVIOUS
<1>6. ASSUME NEW n \in 0..Len(t), NEW seen, SeenOf(t, seen, n) PROVE SeenOf(u, seen, n)
  <2>1. \A p \in 1..n : (First(u, p) <=> First(t, p)) /\ After(u, n, p) = After(t, n, p) /\ u[p] = t[p]
    BY <1>3, WrittenLinesStay
  <2> HIDE DEF u
  <2> QED
    BY <1>6, <2>1 DEF SeenOf
<1>7. \A n \in 0..Len(t) : \A m, window : ShowsTheLast(t, n, m, window) => ShowsTheLast(u, n, m, window)
  <2> HIDE DEF u
  <2> QED
    BY <1>2, <1>3, <1>4 DEF ShowsTheLast
<1> HIDE DEF u
<1>8. ASSUME NEW c, Good(t, c) PROVE Good(u, c)
  <2>1. c.offset \in 0..Len(t) /\ c.offset <= Len(u) /\ TrueOf(t, c, c.offset) /\ c \in Caches
    BY <1>5, <1>8 DEF Good, TrueOf, Caches
  <2>2. \A i \in Real(t, c.offset) : WindowOf[u[i]] <= c.observed[ModelOf[u[i]]]
    BY <1>3, <1>4, <2>1 DEF TrueOf
  <2>3. \A k \in Keys : c.marks[k] # None => c.marks[k].at \in 0..Len(t)
    BY <2>1 DEF TrueOf, Caches, Marks
  <2>4. TrueOf(u, c, c.offset)
    BY <1>1, <1>2, <1>6, <1>7, <2>1, <2>2, <2>3 DEF TrueOf
  <2> QED
    BY <2>1, <2>4 DEF Good
<1>9. ASSUME NEW k, NEW w, PrintsTrue(t, k, w) PROVE PrintsTrue(u, k, w)
  <2>1. ASSUME CostIsTrue(t, w) PROVE CostIsTrue(u, w)
    <3>1. w.to \in 0..Len(t) /\ w.from \in 0..Len(t) /\ w.to \in 0..Len(u)
      BY <1>5, <2>1 DEF CostIsTrue
    <3>2. \A n \in 0..Len(t) : Count(u, Used(u, n)) = Count(t, Used(t, n)) /\ Count(u, Real(u, n)) = Count(t, Real(t, n))
      BY WrittenLinesStay DEF u
    <3> QED
      BY <2>1, <3>1, <3>2 DEF CostIsTrue
  <2>2. ASSUME WindowIsTrue(t, w) PROVE WindowIsTrue(u, w)
    BY <1>2, <1>3, <1>4, <1>5, <1>7, <2>2 DEF WindowIsTrue
  <2> QED
    BY <1>9, <2>1, <2>2 DEF PrintsTrue
<1> QED
  BY <1>8, <1>9 DEF u

LEMMA LocalStays ==
    ASSUME NEW t \in Seq(Lines), NEW l, Local(t), MayFollow(t, l)
    PROVE  Local(Append(t, l))
<1> DEFINE u == Append(t, l)
<1>1. l \in Lines /\ u \in Seq(Lines) /\ Len(u) = Len(t) + 1 /\ Len(t) \in Nat /\ u[Len(t) + 1] = l
      /\ \A i \in 1..Len(t) : u[i] = t[i]
  BY DEF MayFollow
<1>2. \A n \in 0..Len(t) : \A p \in 1..n : After(u, n, p) = After(t, n, p)
  BY <1>1, WrittenLinesStay
<1> HIDE DEF u
<1>3. ASSUME NEW n \in 1..Len(u), NEW j \in 1..(n - 1), u[j] = u[n], HasId(u[n])
      PROVE  Cardinality(After(u, n - 1, j)) < SeenSize
  <2>1. n - 1 \in 0..Len(t) /\ j \in 1..Len(t) /\ u[j] = t[j]
    BY <1>1
  <2>2. After(u, n - 1, j) = After(t, n - 1, j)
    BY <1>2, <2>1
  <2>3. CASE n \in 1..Len(t)
    <3>1. t[j] = t[n] /\ HasId(t[n])
      BY <1>1, <1>3, <2>1, <2>3
    <3> QED
      BY <2>2, <2>3, <3>1 DEF Local
  <2>4. CASE n = Len(t) + 1
    <3>1. n - 1 = Len(t) /\ u[n] = l
      BY <1>1, <2>4
    <3>2. t[j] = l /\ HasId(l)
      BY <1>3, <2>1, <3>1
    <3> QED
      BY <2>1, <2>2, <3>1, <3>2 DEF MayFollow
  <2> QED
    BY <1>1, <2>3, <2>4
<1> QED
  BY <1>3 DEF Local, u

LEMMA TokensInvInitially == TokensInit => TokensInv
<1> SUFFICES ASSUME TokensInit PROVE TokensInv
  OBVIOUS
<1>1. transcript \in Seq(Lines) /\ Local(transcript)
  BY DEF TokensInit, Local
<1> QED
  BY <1>1 DEF TokensInit, TokensInv, RunTypes, Readable

(* What is printed of a good cache is true.                                    *)
LEMMA ReportsAreOfTheCache ==
    ASSUME NEW t \in Seq(Lines), NEW c, Good(t, c), NEW r \in Runs, key[r] \in Keys,
           NEW k \in {"menu", "mark", "delta"}, Report(k, r, c) # None
    PROVE  PrintsTrue(t, k, Report(k, r, c))
<1>1. c.offset \in 0..Len(t) /\ c \in Caches /\ TrueOf(t, c, c.offset) /\ Counted(t, c.offset, c.output, c.turns)
  BY DEF Good, TrueOf, Caches
<1>2. ASSUME k = "delta" PROVE CostIsTrue(t, Report(k, r, c))
  <2> DEFINE mark == c.marks[key[r]]
             w == RunCost(c, mark)
  <2>1. Report(k, r, c) = w
    BY <1>2 DEF Report
  <2>2. CASE mark = None
    <3>1. w.to = c.offset /\ w.from = 0 /\ w.output = c.output /\ w.turns = c.turns
      BY <2>2 DEF RunCost
    <3>2. Count(t, Used(t, 0)) = 0 /\ Count(t, Real(t, 0)) = 0
      <4>1. Used(t, 0) = {} /\ Real(t, 0) = {}
        BY DEF Used, Real
      <4> QED
        BY <4>1, CountNothing
    <3>3. c.output \in Nat /\ c.turns \in Nat
      BY <1>1 DEF Caches
    <3> QED
      BY <1>1, <2>1, <3>1, <3>2, <3>3 DEF CostIsTrue, Counted
  <2>3. CASE mark # None
    <3>1. w.to = c.offset /\ w.from = mark.at /\ w.output = c.output - mark.output /\ w.turns = c.turns - mark.turns
      BY <2>3 DEF RunCost
    <3>2. mark.at \in 0..c.offset /\ Counted(t, mark.at, mark.output, mark.turns)
      BY <1>1, <2>3 DEF TrueOf, Caches, Marks
    <3> QED
      BY <1>1, <2>1, <3>1, <3>2 DEF CostIsTrue, Counted
  <2> QED
    BY <2>2, <2>3
<1>3. ASSUME k = "menu", Report(k, r, c).what = "window" PROVE WindowIsTrue(t, Report(k, r, c))
  <2> DEFINE m == c.lastModel
             w == [what |-> "window", window |-> c.last[m], model |-> m, limit |-> ResolveWindowLimit(c, m), to |-> c.offset]
  <2>1. m # None /\ Report(k, r, c) = w
    <3>1. Report(k, r, c) = IF m = None THEN [what |-> "empty", to |-> c.offset] ELSE w
      BY <1>3 DEF Report
    <3>2. [what |-> "empty", to |-> c.offset].what # "window"
      OBVIOUS
    <3> QED
      BY <1>3, <3>1, <3>2
  <2>2. ShowsTheLast(t, c.offset, m, c.last[m])
    BY <1>1, <2>1 DEF TrueOf
  <2>3. ASSUME w.limit # None, NEW i \in Real(t, c.offset), ModelOf[t[i]] = m PROVE WindowOf[t[i]] <= w.limit
    <3>1. w.limit = LimitOf[m] /\ ~(c.observed[m] > LimitOf[m])
      BY <2>3 DEF ResolveWindowLimit
    <3>2. t[i] \in Lines \ NoUsage /\ m \in Models
      BY <1>1, <2>3 DEF Real, Used, Models
    <3>3. WindowOf[t[i]] \in Nat /\ LimitOf[m] \in Nat /\ c.observed[m] \in Nat /\ WindowOf[t[i]] <= c.observed[m]
      BY <1>1, <2>3, <3>2, WindowsAreNaturals DEF TrueOf, Caches
    <3> QED
      BY <3>1, <3>3
  <2> QED
    BY <1>1, <2>1, <2>2, <2>3 DEF WindowIsTrue
<1> QED
  BY <1>2, <1>3 DEF PrintsTrue

LEMMA TokensInvStep == TokensInv /\ [TokensNext]_tokenVars => TokensInv'
<1> SUFFICES ASSUME TokensInv, [TokensNext]_tokenVars PROVE TokensInv'
  OBVIOUS
<1>1. transcript \in Seq(Lines) /\ Len(transcript) \in Nat /\ Local(transcript) /\ RunTypes
  BY DEF TokensInv
<1>2. ASSUME NEW l \in Lines, WriteHalf(l) PROVE TokensInv'
  <2>1. MayFollow(transcript, l)
    <3>1. \A j : {q \in (j + 1)..Len(transcript) : Begins(q)} = After(transcript, Len(transcript), j)
      BY DEF Begins, After, First, HasId
    <3> QED
      BY <1>2, <3>1 DEF WriteHalf, TemporallyLocal, MayFollow, HasId
  <2> QED
    BY <1>2, <2>1 DEF WriteHalf, TokensInv, RunTypes
<1>3. CASE WriteRest
  <2>1. transcript' = Append(transcript, half) /\ half \in Lines /\ MayFollow(transcript, half) /\ half' = None
    BY <1>3 DEF WriteRest, TokensInv, MayFollow
  <2>2. transcript' \in Seq(Lines) /\ Len(transcript') = Len(transcript) + 1 /\ Local(transcript')
    BY <1>1, <2>1, LocalStays
  <2>3. \A c : Good(transcript, c) => Good(transcript', c)
    BY <1>1, <2>1, TruthStays
  <2>4. \A k, w : PrintsTrue(transcript, k, w) => PrintsTrue(transcript', k, w)
    BY <1>1, <2>1, TruthStays
  <2>5. RunTypes'
    BY <1>1, <1>3, <2>2 DEF WriteRest, RunTypes
  <2> QED
    BY <1>3, <2>1, <2>2, <2>3, <2>4, <2>5 DEF WriteRest, TokensInv
<1>4. ASSUME NEW r \in Runs, NEW k \in {"menu", "mark", "delta"}, NEW id \in Keys, Stat(r, k, id) PROVE TokensInv'
  <2>1. Size \in Nat /\ Size \div 2 <= Len(transcript)
    BY <1>1 DEF Size
  <2>2. RunTypes'
    <3>1. /\ pc' \in [Runs -> {"idle", "load", "open", "fill", "done"}]
          /\ kind' \in [Runs -> {None, "menu", "mark", "delta"}] /\ key' \in [Runs -> Keys \cup {None}]
          /\ DOMAIN local' = Runs /\ DOMAIN printed' = Runs
      BY <1>1, <1>4 DEF Stat, RunTypes
    <3>2. size' \in [Runs -> Nat] /\ \A q \in Runs : size'[q] \div 2 <= Len(transcript')
      <4>1. size \in [Runs -> Nat] /\ (\A q \in Runs : size[q] \div 2 <= Len(transcript)) /\ transcript' = transcript
        BY <1>1, <1>4 DEF Stat, RunTypes
      <4>2. CASE size' = size
        BY <4>1, <4>2
      <4>3. CASE size' = [size EXCEPT ![r] = Size]
        <5>1. \A q \in Runs : size'[q] = IF q = r THEN Size ELSE size[q]
          BY <4>1, <4>3
        <5>2. size' \in [Runs -> Nat]
          BY <2>1, <4>1, <4>3
        <5> QED
          BY <2>1, <4>1, <5>1, <5>2
      <4> QED
        BY <1>4, <4>2, <4>3 DEF Stat
    <3>3. ASSUME NEW q \in Runs, pc'[q] \in {"load", "open", "fill"}
          PROVE  key'[q] \in Keys /\ kind'[q] \in {"menu", "mark", "delta"}
      <4>1. CASE q = r
        BY <1>1, <1>4, <4>1 DEF Stat, RunTypes
      <4>2. CASE q # r
        <5>1. pc'[q] = pc[q] /\ key'[q] = key[q] /\ kind'[q] = kind[q]
          BY <1>1, <1>4, <4>2 DEF Stat, RunTypes
        <5> QED
          BY <1>1, <3>3, <5>1 DEF RunTypes
      <4> QED
        BY <4>1, <4>2
    <3> QED
      BY <3>1, <3>2, <3>3 DEF RunTypes
  <2>3. printed[r] = None
    BY <1>4 DEF Stat, TokensInv
  <2> QED
    BY <1>1, <1>4, <2>2, <2>3 DEF Stat, TokensInv, RunTypes
<1>5. ASSUME NEW r \in Runs, Load(r) PROVE TokensInv'
  <2> DEFINE c == Accumulate(LoadCache(cache, size[r]), size[r])
             snapshot == [output |-> c.output, turns |-> c.turns, at |-> c.offset]
             mine == IF kind[r] = "mark" THEN [c EXCEPT !.marks[key[r]] = snapshot] ELSE c
  <2>1. Good(transcript, LoadCache(cache, size[r]))
    BY <1>1, EmptyCacheIsGood DEF LoadCache, TokensInv
  <2>2. Good(transcript, c)
    <3>1. size[r] \in Nat /\ size[r] \div 2 <= Len(transcript)
      BY <1>1 DEF RunTypes
    <3> QED
      BY <1>1, <2>1, <3>1, AccumulateIsGood
  <2>3. /\ local' = [local EXCEPT ![r] = mine] /\ pc[r] = "load" /\ key[r] \in Keys
        /\ pc' = [pc EXCEPT ![r] = "open"]
        /\ UNCHANGED <<transcript, half, cache, kind, key, size, printed>>
    BY <1>1, <1>5 DEF Load, RunTypes
  <2> HIDE DEF c
  <2>4. Good(transcript, mine)
    <3>1. CASE kind[r] = "mark"
      <4> DEFINE d == [c EXCEPT !.marks[key[r]] = snapshot]
      <4>1. c \in Caches /\ TrueOf(transcript, c, c.offset) /\ c.offset <= Len(transcript)
        BY <2>2 DEF Good, TrueOf
      <4>2. snapshot \in Marks /\ snapshot.at = c.offset /\ Counted(transcript, snapshot.at, snapshot.output, snapshot.turns)
        BY <4>1 DEF Caches, Marks, TrueOf
      <4> HIDE DEF snapshot
      <4>3. /\ d \in Caches /\ d.offset = c.offset /\ d.output = c.output /\ d.turns = c.turns /\ d.seen = c.seen
            /\ d.lastModel = c.lastModel /\ d.last = c.last /\ d.observed = c.observed
            /\ \A k \in Keys : d.marks[k] = IF k = key[r] THEN snapshot ELSE c.marks[k]
        BY <2>3, <4>1, <4>2 DEF Caches
      <4> HIDE DEF d
      <4>4. c.offset \in Nat
        BY <4>1 DEF Caches
      <4>5. Good(transcript, d)
        BY <4>1, <4>2, <4>3, <4>4 DEF Good, TrueOf
      <4> QED
        BY <3>1, <4>5 DEF d, snapshot
    <3>2. CASE kind[r] # "mark"
      BY <2>2, <3>2
    <3> QED
      BY <3>1, <3>2
  <2> HIDE DEF mine
  <2>5. RunTypes'
    BY <1>1, <2>3 DEF RunTypes
  <2> QED
    BY <1>1, <2>3, <2>4, <2>5 DEF TokensInv, RunTypes
<1>6. ASSUME NEW r \in Runs, Open(r) PROVE TokensInv'
  <2>1. RunTypes' /\ ~Readable(cache')
    BY <1>1, <1>6 DEF Open, RunTypes, Opened, Readable
  <2> QED
    BY <1>1, <1>6, <2>1 DEF Open, TokensInv, RunTypes
<1>7. ASSUME NEW r \in Runs, Fill(r) PROVE TokensInv'
  <2>1. RunTypes'
    BY <1>1, <1>7 DEF Fill, Gone, RunTypes
  <2>2. pc[r] = "fill" /\ Good(transcript, local[r]) /\ key[r] \in Keys /\ kind[r] \in {"menu", "mark", "delta"}
    BY <1>1, <1>7 DEF Fill, TokensInv, RunTypes
  <2>3. Readable(cache') => Good(transcript, cache')
    BY <1>7, <2>2 DEF Fill, Filled, Readable
  <2>4. Report(kind[r], r, local[r]) # None => PrintsTrue(transcript, kind[r], Report(kind[r], r, local[r]))
    BY <1>1, <2>2, ReportsAreOfTheCache
  <2>5. \A q \in Runs : printed'[q] # None => pc'[q] = "done" /\ PrintsTrue(transcript, kind[q], printed'[q])
    BY <1>1, <1>7, <2>4 DEF Fill, Gone, TokensInv, RunTypes
  <2>6. \A q \in Runs : pc'[q] \in {"open", "fill"} => Good(transcript, local'[q])
    BY <1>1, <1>7 DEF Fill, Gone, TokensInv, RunTypes
  <2> QED
    BY <1>7, <2>1, <2>3, <2>5, <2>6 DEF Fill, TokensInv
<1>8. ASSUME NEW r \in Runs, CutShort(r) PROVE TokensInv'
  <2>1. RunTypes'
    BY <1>1, <1>8 DEF CutShort, Gone, RunTypes
  <2> QED
    BY <1>1, <1>8, <2>1 DEF CutShort, Gone, TokensInv, RunTypes
<1>9. CASE UNCHANGED tokenVars
  BY <1>9 DEF tokenVars, TokensInv, RunTypes
<1> QED
  BY <1>2, <1>3, <1>4, <1>5, <1>6, <1>7, <1>8, <1>9 DEF TokensNext

(* Whatever runs overlap, die or find half a line, a readable cache and every  *)
(* mark in it count each message of their lines once, and a cost that is       *)
(* printed is the one of exactly the lines it names.                           *)
THEOREM CountsAreTrue == TokensSpec => []CountsAreOfTheirLines
<1>1. TokensInv => CountsAreOfTheirLines
  <2> SUFFICES ASSUME TokensInv PROVE CountsAreOfTheirLines
    OBVIOUS
  <2>1. Readable(cache) =>
          /\ cache.offset <= Len(transcript)
          /\ cache.output = Messages(cache.offset) /\ cache.turns = Turns(cache.offset)
          /\ \A k \in Keys : cache.marks[k] # None => cache.marks[k].output = Messages(cache.marks[k].at)
    BY CountsByTranscript DEF TokensInv, Good, TrueOf, Counted
  <2>2. ASSUME NEW r \in Runs, printed[r] # None, kind[r] = "delta"
        PROVE  /\ printed[r].from <= printed[r].to
               /\ printed[r].output = Messages(printed[r].to) - Messages(printed[r].from)
               /\ printed[r].turns = Turns(printed[r].to) - Turns(printed[r].from)
    <3>1. CostIsTrue(transcript, printed[r])
      BY <2>2 DEF TokensInv, PrintsTrue
    <3>2. printed[r].from <= printed[r].to
      BY <3>1 DEF CostIsTrue, TokensInv
    <3> QED
      BY <3>1, <3>2, CountsByTranscript DEF CostIsTrue
  <2> QED
    BY <2>1, <2>2 DEF CountsAreOfTheirLines
<1> QED
  BY <1>1, TokensInvInitially, TokensInvStep, PTL DEF TokensSpec

(* The denominator of the menu line is at least every window of its model in   *)
(* the lines counted, by whichever run, and its model is that of the last.     *)
THEOREM DenominatorStands == TokensSpec => []DenominatorIsNotDisproved
<1>1. TokensInv => DenominatorIsNotDisproved
  <2> SUFFICES ASSUME TokensInv, NEW r \in Runs, printed[r] # None, kind[r] = "menu", printed[r].what = "window"
               PROVE  LET real == {i \in Upto(printed[r].to) : ModelOf[transcript[i]] # Synthetic}
                      IN  /\ \E i \in real : /\ \A j \in real : j <= i
                                             /\ ModelOf[transcript[i]] = printed[r].model
                                             /\ WindowOf[transcript[i]] = printed[r].window
                          /\ printed[r].limit # None =>
                               \A i \in real : ModelOf[transcript[i]] = printed[r].model
                                                  => WindowOf[transcript[i]] <= printed[r].limit
    BY DEF DenominatorIsNotDisproved
  <2>1. WindowIsTrue(transcript, printed[r])
    BY DEF TokensInv, PrintsTrue
  <2>2. {i \in Upto(printed[r].to) : ModelOf[transcript[i]] # Synthetic} = Real(transcript, printed[r].to)
    BY DEF Upto, Real, Used
  <2> QED
    BY <2>1, <2>2 DEF WindowIsTrue, ShowsTheLast
<1> QED
  BY <1>1, TokensInvInitially, TokensInvStep, PTL DEF TokensSpec
=============================================================================
