---------------------------- MODULE ProjectGraph ----------------------------
(* plugin/scripts/project-graph.mjs, the clusters of a project: seeds from its *)
(* directories, labels that spread along the edges, the merges, and the ids    *)
(* and anchors of the map sections.  A cluster's key is a directory.           *)
EXTENDS ProjectReaders, Functions, TLC

CONSTANTS GroupDirectories, MaxGroupDepth, SmallClusterFiles, SeamsToMerge, MaxRounds, MaxAnchorFiles, MaxTerms, MaxIdLength,
          Changes, \* what --changed names, or git has changed since a commit
          Names,  \* every name of a path or a symbol, in order
          SlugOf  \* the words of a name's slug

RootCluster == <<"root">>
ASSUME NamesAreAList == Len(Names) \in Nat /\ Names = [i \in 1..Len(Names) |-> Names[i]] /\ RootCluster[1] \in Range(Names)
ASSUME RoundsAreNaturals == MaxRounds \in Nat \ {0} /\ SmallClusterFiles \in Nat
\* A project lists the files of the languages that are read.
ASSUME ProjectsAreTyped ==
    \A p \in Projects : /\ IsFiniteSet(p.files) /\ p.files \subseteq Seq(Range(Names)) \ {<<>>}
                       /\ \A f \in p.files : p.language[f] \in {"ruby", "erb", "typescript", "javascript", "dart"}

VARIABLES mapStep,
          edges,
          clustering, \* the label of each file, the seeds, and each cluster's seed directories
          round,      \* the rounds that are over
          todo,       \* what the loop at work has still to visit
          sizes,      \* of the clusters, when the round began
          relabelled, \* whether the round has changed a label
          sections
mapVars == <<project, mapStep, edges, clustering, round, todo, sizes, relabelled, sections>>
loopVars == <<round, sizes, relabelled>>

Position(name) == CHOOSE i \in DOMAIN Names : Names[i] = name
Place(p, i) == IF i \in DOMAIN p THEN Position(p[i]) ELSE 0
Before(p, q) == \E i \in DOMAIN p \cup DOMAIN q : Place(p, i) < Place(q, i) /\ \A j \in 1..(i - 1) : Place(p, j) = Place(q, j)
PairBefore(p, q) == Before(p[1], q[1]) \/ (p[1] = q[1] /\ Before(p[2], q[2]))
Sorted(paths) == SetToSortSeq(paths, Before)

-----------------------------------------------------------------------------
SeedOf(f) == LET directories == Front(f)
                 group == {i \in DOMAIN directories : directories[i] \in GroupDirectories}
             IN IF \A i \in group : i > MaxGroupDepth + 1 THEN <<>>
                ELSE SubSeq(directories, 1, Min({Min(group) + 1, Len(directories)}))
TopLevelOf(f) == IF Len(f) = 1 THEN RootCluster ELSE <<f[1]>>
DirectoryOf(f) == IF Len(f) = 1 THEN RootCluster ELSE Front(f)

HasGroupLayout == \E f \in Visible : SeedOf(f) # <<>>
Seeded(f) == IF HasGroupLayout THEN SeedOf(f) ELSE TopLevelOf(f)
SeedFiles == {f \in Visible : Seeded(f) # <<>>}

Members(assign, key) == {f \in DOMAIN assign : assign[f] = key}
KeysOf(assign) == {assign[f] : f \in DOMAIN assign}

\* pickBest: the score, then the size, then the name.
ClusterSizes(assign) == [k \in KeysOf(assign) |-> Cardinality(Members(assign, k))]
SizeIn(of, k)        == IF k \in DOMAIN of THEN of[k] ELSE 0
Better(score, of, k, l) ==
    \/ score[k] > score[l]
    \/ score[k] = score[l] /\ (SizeIn(of, k) > SizeIn(of, l) \/ (SizeIn(of, k) = SizeIn(of, l) /\ Before(k, l)))
Best(score, of) == CHOOSE k \in DOMAIN score : \A l \in DOMAIN score \ {k} : Better(score, of, k, l)

\* A neighbour scores once for every edge, and a seed file twice.
Other(e, f)          == IF e.from = f THEN e.to ELSE e.from
Scoring(f, assign)   == {e \in edges : f \in {e.from, e.to} /\ Other(e, f) \in DOMAIN assign}
Score(f, assign) ==
    [k \in {assign[Other(e, f)] : e \in Scoring(f, assign)} |->
       LET voting == {e \in Scoring(f, assign) : assign[Other(e, f)] = k}
       IN Cardinality(voting) + Cardinality({e \in voting : Other(e, f) \in SeedFiles})]

\* Mutant: a file that has a label keeps it.
KeepsItsLabel(assign, f) ==
    IF DOMAIN Score(f, assign) = {} \/ f \in DOMAIN assign THEN assign
    ELSE [g \in DOMAIN assign \cup {f} |-> IF g = f THEN Best(Score(f, assign), sizes) ELSE assign[g]]

TakesTheBest(assign, f) ==
    IF DOMAIN Score(f, assign) = {} THEN assign
    ELSE [g \in DOMAIN assign \cup {f} |-> IF g = f THEN Best(Score(f, assign), sizes) ELSE assign[g]]

DirsOf(cl, key) == IF key \in DOMAIN cl.dirs THEN cl.dirs[key] ELSE {}
Reassigned(cl, from, into) == [f \in DOMAIN cl.assign |-> IF cl.assign[f] = from THEN into ELSE cl.assign[f]]
\* Mutant: the directories of a seed are dropped.
MergeKeysOnly(cl, from, into) ==
    [assign |-> Reassigned(cl, from, into), seeds |-> cl.seeds \ {from}, dirs |-> [k \in DOMAIN cl.dirs \ {from} |-> cl.dirs[k]]]
\* The directories of a seed go with its files.
MergeKeys(cl, from, into) ==
    [assign |-> Reassigned(cl, from, into), seeds |-> cl.seeds \ {from},
     dirs   |-> IF from \notin DOMAIN cl.dirs THEN cl.dirs
                ELSE [k \in (DOMAIN cl.dirs \cup {into}) \ {from} |->
                        IF k = into THEN DirsOf(cl, into) \cup cl.dirs[from] ELSE cl.dirs[k]]]

Slug(key) == SlugOf[Last(key)]

\* crossClusterCounts of the seams, by the pair of their keys.
SeamedPairs(assign) ==
    {p \in KeysOf(assign) \X KeysOf(assign) :
       /\ Before(p[1], p[2])
       /\ Cardinality({seam \in AllSeams : {assign[seam.from], assign[seam.to]} = {p[1], p[2]}}) >= SeamsToMerge}

\* The edges a cluster shares with each other one.
Crossing(key, assign) == {e \in edges : key \in {assign[e.from], assign[e.to]} /\ assign[e.from] # assign[e.to]}
Beyond(key, assign, e) == IF assign[e.from] = key THEN assign[e.to] ELSE assign[e.from]
SharedEdges(key, assign) ==
    [k \in {Beyond(key, assign, e) : e \in Crossing(key, assign)} |->
       Cardinality({e \in Crossing(key, assign) : Beyond(key, assign, e) = k})]
IsSmall(key, assign) == Cardinality(Members(assign, key)) < SmallClusterFiles

-----------------------------------------------------------------------------
\* assignIds: more of the path while the id is taken, then a number, then what a section id may be long.
IdOf(key, taken) ==
    LET OfLast(n) == FlattenSeq([i \in 1..n |-> SlugOf[key[Len(key) - n + i]]])
        free == {n \in DOMAIN key : OfLast(n) \notin taken}
        id   == IF free # {} THEN OfLast(Min(free)) ELSE Append(OfLast(Len(key)), ToString(Cardinality(taken)))
    IN SubSeq(id, 1, Min({MaxIdLength, Len(id)}))
Ids == LET keys == Sorted(KeysOf(clustering.assign))
       IN FoldLeft(LAMBDA ids, key : (key :> IdOf(key, Range(ids))) @@ ids, <<>>, keys)

LiesUnder(path, directory) == IsPrefix(directory, path)
CommonDirectories(files) == LET directories == {Front(f) : f \in files} \ {<<>>}
                            IN {d \in directories : \A other \in directories \ {d} : ~LiesUnder(d, other)}
Incoming(f) == Cardinality({e \in edges : e.to = f})
\* draftFor: the seeds' directories, or what is common, and the most used files outside.
Anchors(files, groupDirectories) ==
    LET directories == IF groupDirectories # {} THEN groupDirectories ELSE CommonDirectories(files)
        outside == SetToSortSeq({f \in files : \A d \in directories : ~LiesUnder(Front(f), d)},
                                LAMBDA f, g : Incoming(f) > Incoming(g) \/ (Incoming(f) = Incoming(g) /\ Before(f, g)))
    IN directories \cup Range(SubSeq(outside, 1, Min({MaxAnchorFiles, Len(outside)})))
\* The symbols of the most used files; of a symbol of two files the more used one counts.
Terms(files) ==
    LET symbols == UNION {SymbolsOf(f) : f \in files}
        Weight(x) == Max({Incoming(f) : f \in {g \in files : x \in SymbolsOf(g)}})
        ranked == SetToSortSeq(symbols, LAMBDA x, y : Weight(x) > Weight(y) \/ (Weight(x) = Weight(y) /\ Before(x, y)))
    IN SubSeq(ranked, 1, Min({MaxTerms, Len(ranked)}))
Section(key, ids) ==
    LET files == Members(clustering.assign, key)
    IN [key |-> key, id |-> ids[key], files |-> files, dirs |-> {Front(f) : f \in files} \ {<<>>},
        anchors |-> Anchors(files, DirsOf(clustering, key)), terms |-> Terms(files),
        out |-> {ids[clustering.assign[e.to]] : e \in {x \in edges : x.from \in files /\ x.to \notin files}}]

-----------------------------------------------------------------------------
NoProject == [files |-> {}]
NoClusters == [assign |-> <<>>, seeds |-> {}, dirs |-> <<>>]
MapInit == /\ project = NoProject /\ mapStep = "list" /\ edges = {} /\ clustering = NoClusters /\ sections = {}
           /\ round = 0 /\ todo = {} /\ sizes = <<>> /\ relabelled = FALSE
Moves(from, to) == mapStep = from /\ mapStep' = to

ListVisibleFiles == Moves("list", "read") /\ project' \in Projects /\ UNCHANGED <<edges, clustering, todo, loopVars, sections>>
ReadEdges == Moves("read", "seed") /\ edges' = AllEdges /\ UNCHANGED <<project, clustering, todo, loopVars, sections>>
AssignSeeds ==
    /\ Moves("seed", "round") /\ UNCHANGED <<project, edges, todo, loopVars, sections>>
    /\ LET seeds == IF HasGroupLayout THEN {Seeded(f) : f \in SeedFiles} ELSE {}
       IN clustering' = [assign |-> [f \in SeedFiles |-> Seeded(f)], seeds |-> seeds, dirs |-> [s \in seeds |-> {s}]]

\* A round: every file without a seed, in order, takes the best label of its neighbours.
BeginRound == /\ Moves("round", "spread") /\ UNCHANGED <<project, edges, clustering, round, sections>>
              /\ todo' = Visible \ SeedFiles /\ sizes' = ClusterSizes(clustering.assign) /\ relabelled' = FALSE
\* The loop goes on with the first of what it has still to visit.
Visits(x, Precedes(_, _)) == /\ x \in todo /\ \A y \in todo \ {x} : Precedes(x, y)
                             /\ todo' = todo \ {x} /\ UNCHANGED <<project, edges, mapStep, sections>>
Spread == \E f \in todo : /\ mapStep = "spread" /\ Visits(f, Before) /\ UNCHANGED <<round, sizes>>
                          /\ clustering' = [clustering EXCEPT !.assign = TakesTheBest(@, f)]
                          /\ relabelled' = (relabelled \/ clustering' # clustering)
EndRound == /\ mapStep = "spread" /\ todo = {} /\ round' = round + 1
            /\ mapStep' = IF relabelled /\ round + 1 < MaxRounds THEN "round" ELSE "rest"
            /\ UNCHANGED <<project, edges, clustering, todo, sizes, relabelled, sections>>
LeftToDirectories(assign) == [f \in Visible |-> IF f \in DOMAIN assign THEN assign[f] ELSE DirectoryOf(f)]
LeaveToDirectories == /\ Moves("rest", "slugs") /\ todo' = clustering.seeds /\ UNCHANGED <<project, edges, loopVars, sections>>
                      /\ clustering' = [clustering EXCEPT !.assign = LeftToDirectories(@)]

\* Of the seeds with one slug the first one stays.
MergeSameSlug == \E seed \in todo :
    /\ mapStep = "slugs" /\ Visits(seed, Before) /\ UNCHANGED loopVars
    /\ LET canonical == {x \in clustering.seeds \ todo : Slug(x) = Slug(seed)}
       IN clustering' = IF canonical = {} THEN clustering ELSE MergeKeys(clustering, seed, CHOOSE x \in canonical : TRUE)
\* The seams between two clusters are counted before the first merge.
CountSeams == /\ Moves("slugs", "seams") /\ todo = {} /\ todo' = SeamedPairs(clustering.assign)
              /\ UNCHANGED <<project, edges, clustering, loopVars, sections>>
MergeSeamed == \E p \in todo :
    /\ mapStep = "seams" /\ Visits(p, PairBefore) /\ UNCHANGED loopVars
    /\ clustering' = IF {p[1], p[2]} \subseteq clustering.seeds THEN MergeKeys(clustering, p[2], p[1]) ELSE clustering
CountSmall == /\ Moves("seams", "small") /\ todo = {}
              /\ todo' = {k \in KeysOf(clustering.assign) : IsSmall(k, clustering.assign)}
              /\ UNCHANGED <<project, edges, clustering, loopVars, sections>>
\* A small cluster joins the one it shares most edges with, unless it has grown meanwhile.
MergeSmall == \E key \in todo :
    /\ mapStep = "small" /\ Visits(key, Before) /\ UNCHANGED loopVars
    /\ LET score == SharedEdges(key, clustering.assign)
       IN clustering' = IF IsSmall(key, clustering.assign) /\ DOMAIN score # {}
                        THEN MergeKeys(clustering, key, Best(score, ClusterSizes(clustering.assign))) ELSE clustering
NameSections == /\ Moves("small", "select") /\ todo = {} /\ UNCHANGED <<project, edges, clustering, todo, loopVars>>
                /\ sections' = {Section(key, Ids) : key \in KeysOf(clustering.assign)}
\* --changed and --since print the sections that hold a changed file.
Select == /\ Moves("select", "printed") /\ UNCHANGED <<project, edges, clustering, todo, loopVars>>
          /\ sections' \in {sections} \cup {{s \in sections : s.files \cap changed # {}} : changed \in Changes}

MapNext == \/ ListVisibleFiles \/ ReadEdges \/ AssignSeeds \/ BeginRound \/ Spread \/ EndRound \/ LeaveToDirectories
           \/ MergeSameSlug \/ CountSeams \/ MergeSeamed \/ CountSmall \/ MergeSmall \/ NameSections \/ Select
MapSpec == MapInit /\ [][MapNext]_mapVars

-----------------------------------------------------------------------------
Adjacent(f, g) == \E e \in edges : {e.from, e.to} = {f, g}
\* From a file of the seeds over one edge at most in every round.
Chains == LET seedFiles == SeedFiles
          IN {chain \in [0..MaxRounds -> Visible] :
                chain[0] \in seedFiles /\ \A n \in 1..MaxRounds : chain[n] = chain[n - 1] \/ Adjacent(chain[n - 1], chain[n])}
\* What the seeds are joined to lies in every set that holds them and that no edge leaves.
Unleft  == LET seedFiles == SeedFiles
           IN {S \in SUBSET Visible : seedFiles \subseteq S /\ \A e \in edges : e.from \in S <=> e.to \in S}
Reached == LET unleft == Unleft IN {f \in Visible : \A S \in unleft : f \in S}

(* A shared file that the edges join to a seed in no more hops than there are  *)
(* rounds is in a cluster of the seeds, whatever labels its neighbours changed *)
(* meanwhile; and when the rounds end early no file prefers another label.     *)
LabelsReachTheirFiles ==
    mapStep = "slugs" /\ todo = clustering.seeds =>
      LET assign == clustering.assign
      IN /\ \A chain \in Chains : assign[chain[MaxRounds]] \in {Seeded(g) : g \in SeedFiles}
         /\ ~relabelled =>
              LET reached  == Reached
                  labelled == [f \in reached |-> assign[f]]
              IN \A f \in reached \ SeedFiles : assign[f] = Best(Score(f, labelled), ClusterSizes(labelled))

(* The merges keep files and anchors together: a file of a seed directory is   *)
(* in the section that is anchored there, no directory of the seeds anchors    *)
(* two sections, and a small cluster stays alone only without an edge to one.  *)
MergesKeepAnchors ==
    mapStep = "select" =>
      /\ HasGroupLayout => \A f \in SeedFiles : \A s \in sections : f \in s.files <=> SeedOf(f) \in DirsOf(clustering, s.key)
      /\ \A s \in sections : Cardinality(s.files) < SmallClusterFiles => s.out = {} /\ \A e \in edges : e.to \in s.files => e.from \in s.files

(* skills/map/SKILL.md: "a cluster whose `dirs` ALL lie under the `anchors` of *)
(* a stored domain ... is already in the map".                                 *)
CoveredIsDescribed ==
    \A s, t \in sections : s # t /\ s.dirs # {} => \E d \in s.dirs : \A anchor \in t.anchors : ~LiesUnder(d, anchor)
=============================================================================
