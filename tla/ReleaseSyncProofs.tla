------------------------- MODULE ReleaseSyncProofs -------------------------
(* For any bundles, engine releases and length of main: the branch keeps its  *)
(* type, no version on it goes down, what the workflows push is stamped, the  *)
(* bot's bump leaves no bundle without a version, and no change of the plugin *)
(* is left without one.  For any commits and payloads: what passed the gates  *)
(* installs.                                                                  *)
EXTENDS ReleaseSync, ReleasePin, WellFoundedInduction, TLAPS

(* What is read of a commit does not change when another one is appended.     *)
LEMMA Appending ==
    ASSUME TypeOK, NEW c \in Commits, main' = Append(main, c), Len(main) < MaxCommits
    PROVE  /\ main' \in Seq(Commits)
           /\ Len(main') = Len(main) + 1 /\ Len(main') \in 1..MaxCommits
           /\ main'[Len(main) + 1] = c
           /\ \A k \in 1..Len(main) : main'[k] = main[k]
<1> DEFINE C == Commits
<1>1. main \in Seq(C) /\ Len(main) \in 1..MaxCommits /\ c \in C
  BY DEF TypeOK
<1> HIDE DEF C
<1>2. /\ main' \in Seq(C) /\ Len(main') = Len(main) + 1
      /\ main'[Len(main) + 1] = c /\ \A k \in 1..Len(main) : main'[k] = main[k]
  BY <1>1
<1> QED BY <1>1, <1>2, SomeCommits DEF C

(* The commit a workflow makes from a commit of main is a commit, stamped if  *)
(* that one was.                                                              *)
LEMMA BumpIsACommit ==
    ASSUME NEW c \in Commits, NEW bumped \in SUBSET Bundles, NEW e \in Engines \cup {NoEngine},
           NEW author \in {"bump", "sync"}, NEW d, d = BumpCommit(c, bumped, e, author)
    PROVE  d \in Commits /\ d.by = author /\ (Valid(c) => Valid(d))
<1> DEFINE version == [b \in Bundles |-> IF b \in bumped THEN c.version[b] + 1 ELSE c.version[b]]
           stamp   == [b \in Bundles |-> IF b \in bumped THEN version[b] ELSE c.stamp[b]]
<1>1. c.version \in [Bundles -> Nat] /\ c.stamp \in [Bundles -> Nat]
  BY DEF Commits
<1>2. version \in [Bundles -> Nat]
  BY <1>1
<1>3. stamp \in [Bundles -> Nat]
  BY <1>1, <1>2
<1>4. d = [edits |-> bumped, version |-> version, stamp |-> stamp, engine |-> e, by |-> author]
  BY DEF BumpCommit
<1>5. ASSUME Valid(c) PROVE stamp = version
  BY <1>1, <1>2, <1>3, <1>5 DEF Valid
<1> HIDE DEF version, stamp
<1>6. d \in Commits
  BY <1>2, <1>3, <1>4 DEF Commits
<1> QED BY <1>4, <1>5, <1>6 DEF Valid

(* It raises the versions of the bumped bundles, and changes no other bundle. *)
LEMMA BumpRaises ==
    ASSUME NEW c \in Commits, NEW bumped \in SUBSET Bundles, NEW e \in Engines \cup {NoEngine},
           NEW author \in {"bump", "sync"}, NEW d, d = BumpCommit(c, bumped, e, author),
           NEW b \in Bundles
    PROVE  /\ c.version[b] <= d.version[b]
           /\ b \in bumped => d.version[b] # c.version[b]
           /\ b \notin bumped => b \notin d.edits
<1>1. PICK n \in Nat : n = c.version[b]
  BY DEF Commits
<1>2. d.version[b] = (IF b \in bumped THEN n + 1 ELSE n) /\ d.edits = bumped
  BY <1>1 DEF BumpCommit
<1> QED BY <1>1, <1>2

-----------------------------------------------------------------------------
(* A tested run is about a valid commit of main, and a checkout is one of its  *)
(* commits: what the two push actions start from.                             *)
RunsAreGrounded ==
    /\ \A k \in 1..MaxCommits : run[k] # "none" => k <= Len(main)
    /\ \A k \in 1..MaxCommits : run[k] = "tested" => Valid(main[k])
    /\ \A e \in Engines : sync[e].state = "checkedout" => sync[e].at \in 1..Len(main)

Inv == /\ TypeOK
       /\ RunsAreGrounded
       /\ VersionsNeverGoBack
       /\ BotCommitsAreStamped
       /\ BumpLeavesNothingUnversioned

LEMMA InitInv == Init => Inv
<1> SUFFICES ASSUME Init PROVE Inv
  OBVIOUS
<1> DEFINE first == [edits |-> Bundles, version |-> [b \in Bundles |-> 0], stamp |-> [b \in Bundles |-> 0],
                     engine |-> NoEngine, by |-> "person"]
<1>1. first \in Commits /\ first.version = first.stamp /\ first.by = "person"
  BY DEF Commits
<1>2. main = <<first>>
  BY DEF Init
<1> HIDE DEF first
<1>3. main \in Seq(Commits) /\ Len(main) = 1 /\ main[1] = first
  BY <1>1, <1>2
<1>4. TypeOK
  BY <1>3, SomeCommits DEF Init, TypeOK, RunStates, SyncStates
<1>5. RunsAreGrounded
  BY <1>3, SomeCommits DEF Init, RunsAreGrounded
<1>6. VersionsNeverGoBack /\ BotCommitsAreStamped /\ BumpLeavesNothingUnversioned
  BY <1>1, <1>3 DEF VersionsNeverGoBack, BotCommitsAreStamped, BumpLeavesNothingUnversioned
<1> QED BY <1>4, <1>5, <1>6 DEF Inv

(* A push keeps what is said of main when its commit lowers no version, is    *)
(* stamped unless a person made it, and is a bump only of all that changed.   *)
LEMMA Growth ==
    ASSUME Inv, NEW c \in Commits, main' = Append(main, c), Len(main) < MaxCommits,
           \A b \in Bundles : Tip.version[b] <= c.version[b],
           c.by # "person" => Valid(c),
           c.by = "bump" => \A b \in Bundles : IF b \in Changed(Len(main))
                                                 THEN c.version[b] # Tip.version[b]
                                                 ELSE b \notin c.edits
    PROVE  VersionsNeverGoBack' /\ BotCommitsAreStamped' /\ BumpLeavesNothingUnversioned'
<1>0. PICK n \in 1..MaxCommits : n = Len(main)
  BY DEF Inv, TypeOK
<1>1. /\ TypeOK /\ n \in 1..MaxCommits /\ n = Len(main) /\ Len(main') = n + 1
      /\ main'[n + 1] = c /\ \A k \in 1..n : main'[k] = main[k]
  BY <1>0, Appending DEF Inv
<1>2. \A k \in 1..n : main[k] \in Commits /\ \A b \in Bundles : main[k].version[b] \in Nat
  <2>1. \A k \in 1..n : main[k] \in Commits
    BY <1>1 DEF TypeOK
  <2> QED BY <2>1 DEF Commits
<1>3. \A b \in Bundles : c.version[b] \in Nat
  BY DEF Commits
<1>4. VersionsNeverGoBack'
  <2>1. \A j \in 1..n, b \in Bundles : main[j].version[b] <= Tip.version[b]
    BY <1>1, <1>2 DEF Inv, VersionsNeverGoBack, Tip
  <2>2. \A j \in 1..n, b \in Bundles : main[j].version[b] <= c.version[b]
    BY <1>1, <1>2, <1>3, <2>1 DEF Tip
  <2> SUFFICES ASSUME NEW j \in 1..(n + 1), NEW k \in 1..(n + 1), j < k, NEW b \in Bundles
               PROVE  main'[j].version[b] <= main'[k].version[b]
    BY <1>1 DEF VersionsNeverGoBack
  <2>3. CASE k = n + 1
    BY <1>1, <2>2, <2>3
  <2>4. CASE k \in 1..n
    BY <1>1, <2>4 DEF Inv, VersionsNeverGoBack
  <2> QED BY <1>1, <2>3, <2>4
<1>5. BotCommitsAreStamped'
  <2> SUFFICES ASSUME NEW k \in 1..(n + 1), main'[k].by # "person" PROVE Valid(main'[k])
    BY <1>1 DEF BotCommitsAreStamped, Valid
  <2>1. CASE k = n + 1
    BY <1>1, <2>1
  <2>2. CASE k \in 1..n
    BY <1>1, <2>2 DEF Inv, BotCommitsAreStamped
  <2> QED BY <1>1, <2>1, <2>2
<1>6. BumpLeavesNothingUnversioned'
  <2> SUFFICES ASSUME NEW k \in 1..(n + 1), main'[k].by = "bump", NEW b \in Bundles,
                      NEW j \in 2..k, b \in main'[j].edits
               PROVE  main'[k].version[b] # main'[j - 1].version[b]
    BY <1>1 DEF BumpLeavesNothingUnversioned, Versioned
  <2>1. j - 1 \in 1..n /\ main'[j - 1] = main[j - 1]
    BY <1>1
  <2>2. CASE k \in 1..n
    <3>1. main[k].by = "bump" /\ b \in main[j].edits
      BY <1>1, <2>2
    <3> QED BY <1>1, <2>1, <2>2, <3>1 DEF Inv, BumpLeavesNothingUnversioned, Versioned
  <2>3. CASE k = n + 1
    <3> DEFINE old == main[j - 1].version[b]
               tip == main[n].version[b]
               new == c.version[b]
    <3>1. old \in Nat /\ tip \in Nat /\ new \in Nat /\ old <= tip /\ tip <= new
      <4>1. old <= tip
        BY <1>1, <1>2, <2>1 DEF Inv, VersionsNeverGoBack
      <4> QED BY <1>1, <1>2, <1>3, <2>1, <4>1 DEF Tip
    <3>2. c.by = "bump" /\ tip = Tip.version[b]
      BY <1>1, <2>3 DEF Tip
    <3>3. CASE b \in Changed(n)
      <4>1. new # tip
        BY <1>1, <3>2, <3>3
      <4> HIDE DEF old, tip, new
      <4>2. new # old
        BY <3>1, <4>1
      <4> QED BY <1>1, <2>1, <2>3, <4>2 DEF old, new
    <3>4. CASE b \notin Changed(n)
      <4>1. j \in 1..n /\ b \in main[j].edits
        BY <1>1, <2>3, <3>2, <3>4
      <4>2. PICK i \in j..n : IntroducesVersion(i, b)
        BY <3>4, <4>1 DEF Changed, ChangedSinceVersionBase
      <4>3. i \in 2..n /\ i - 1 \in 1..n /\ j - 1 <= i - 1
        BY <4>2
      <4> DEFINE before == main[i - 1].version[b]
                 after  == main[i].version[b]
      <4>4. before # after /\ before \in Nat /\ after \in Nat
        BY <1>2, <4>2, <4>3 DEF IntroducesVersion
      <4>5. old <= before
        <5>1. CASE j - 1 = i - 1
          BY <1>2, <2>1, <5>1
        <5>2. CASE j - 1 < i - 1
          BY <1>1, <2>1, <4>3, <5>2 DEF Inv, VersionsNeverGoBack
        <5> QED BY <2>1, <4>3, <5>1, <5>2
      <4>6. before <= after
        BY <1>1, <4>3 DEF Inv, VersionsNeverGoBack
      <4>7. after <= tip
        BY <1>1, <1>2, <4>3 DEF Inv, VersionsNeverGoBack
      <4> HIDE DEF old, tip, new, before, after
      <4>8. new # old
        BY <3>1, <4>4, <4>5, <4>6, <4>7
      <4> QED BY <1>1, <2>1, <2>3, <4>8 DEF old, new
    <3> QED BY <3>3, <3>4
  <2> QED BY <1>1, <2>2, <2>3
<1> QED BY <1>4, <1>5, <1>6

BranchInv == VersionsNeverGoBack /\ BotCommitsAreStamped /\ BumpLeavesNothingUnversioned

LEMMA SameBranch == ASSUME main' = main, BranchInv PROVE BranchInv'
<1>1. VersionsNeverGoBack'
  BY DEF BranchInv, VersionsNeverGoBack
<1>2. BotCommitsAreStamped'
  BY DEF BranchInv, BotCommitsAreStamped, Valid
<1>3. BumpLeavesNothingUnversioned'
  BY DEF BranchInv, BumpLeavesNothingUnversioned, Versioned
<1> QED BY <1>1, <1>2, <1>3 DEF BranchInv

(* A step of one run: nothing is pushed, and a run that becomes tested is     *)
(* about a valid commit.                                                      *)
LEMMA RunStep ==
    ASSUME Inv, NEW k \in 1..MaxCommits, NEW s \in RunStates, UNCHANGED <<main, sync>>,
           run' = [run EXCEPT ![k] = s],
           s # "none" => k <= Len(main),
           s = "tested" => Valid(main[k])
    PROVE  Inv'
<1>1. TypeOK'
  BY DEF Inv, TypeOK
<1>2. RunsAreGrounded'
  BY DEF Inv, TypeOK, RunsAreGrounded, Valid
<1> QED BY <1>1, <1>2, SameBranch DEF Inv, BranchInv

(* The same of a release-sync run.                                            *)
LEMMA SyncRunStep ==
    ASSUME Inv, NEW e \in Engines, NEW s \in SyncStates, NEW at \in 0..MaxCommits,
           UNCHANGED <<main, run>>, SetSync(e, s, at),
           s = "checkedout" => at = Len(main)
    PROVE  Inv'
<1>1. TypeOK'
  BY DEF Inv, TypeOK, SetSync
<1>2. RunsAreGrounded'
  <2>1. sync'[e] = [state |-> s, at |-> at] /\ \A f \in Engines \ {e} : sync'[f] = sync[f]
    BY DEF Inv, TypeOK, SetSync
  <2> QED BY <2>1 DEF Inv, TypeOK, RunsAreGrounded, Valid
<1> QED BY <1>1, <1>2, SameBranch DEF Inv, BranchInv

(* A push of any author, with the runs it ends or starts.                     *)
LEMMA PushStep ==
    ASSUME Inv, NEW c \in Commits, main' = Append(main, c), Len(main) < MaxCommits,
           BranchInv',
           run' \in [1..MaxCommits -> RunStates],
           sync' \in [Engines -> [state : SyncStates, at : 0..MaxCommits]],
           \A k \in 1..MaxCommits : run'[k] = run[k] \/ (run'[k] = "queued" /\ k = Len(main) + 1)
                                                     \/ (run'[k] # "tested" /\ run[k] # "none"),
           \A e \in Engines : sync'[e] = sync[e] \/ sync'[e].state # "checkedout"
    PROVE  Inv'
<1>1. /\ main' \in Seq(Commits) /\ Len(main') = Len(main) + 1 /\ Len(main') \in 1..MaxCommits
      /\ \A k \in 1..Len(main) : main'[k] = main[k]
  BY Appending DEF Inv
<1>2. TypeOK'
  BY <1>1 DEF TypeOK
<1>3. RunsAreGrounded'
  <2>1. Len(main) \in Nat
    BY DEF Inv, TypeOK
  <2>2. \A k \in 1..MaxCommits : run'[k] # "none" => k <= Len(main')
    BY <1>1, <2>1 DEF Inv, RunsAreGrounded
  <2>3. \A k \in 1..MaxCommits : run'[k] = "tested" => run[k] = "tested" /\ k \in 1..Len(main)
    BY <2>1 DEF Inv, RunsAreGrounded
  <2>4. \A k \in 1..MaxCommits : run'[k] = "tested" => Valid(main'[k])
    BY <1>1, <2>3 DEF Inv, RunsAreGrounded
  <2>5. ASSUME NEW e \in Engines, sync'[e].state = "checkedout" PROVE sync'[e].at \in 1..Len(main')
    <3>1. sync'[e] = sync[e]
      BY <2>5
    <3>2. sync[e].at \in 1..Len(main)
      BY <2>5, <3>1 DEF Inv, RunsAreGrounded
    <3> QED BY <1>1, <2>1, <3>1, <3>2
  <2> QED BY <2>2, <2>4, <2>5 DEF RunsAreGrounded, Valid
<1> QED BY <1>2, <1>3 DEF Inv, BranchInv

-----------------------------------------------------------------------------
LEMMA HumanPushInv == ASSUME Inv, HumanPush PROVE Inv'
<1>1. PICK edits \in {{}} \cup {{b} : b \in Bundles}, raise \in BOOLEAN, restamp \in BOOLEAN :
        LET version == [b \in Bundles |-> IF raise /\ b \in edits THEN Tip.version[b] + 1 ELSE Tip.version[b]]
            stamp == [b \in Bundles |-> IF restamp /\ b \in edits THEN version[b] ELSE Tip.stamp[b]]
        IN  main' = Append(main, [Tip EXCEPT !.edits = edits, !.version = version, !.stamp = stamp, !.by = "person"])
  BY DEF HumanPush
<1> DEFINE version == [b \in Bundles |-> IF raise /\ b \in edits THEN Tip.version[b] + 1 ELSE Tip.version[b]]
           stamp == [b \in Bundles |-> IF restamp /\ b \in edits THEN version[b] ELSE Tip.stamp[b]]
           c == [Tip EXCEPT !.edits = edits, !.version = version, !.stamp = stamp, !.by = "person"]
<1>2. Tip \in Commits
  BY DEF Inv, TypeOK, Tip
<1>3. Tip.version \in [Bundles -> Nat] /\ Tip.stamp \in [Bundles -> Nat]
  BY <1>2 DEF Commits
<1>4. version \in [Bundles -> Nat]
  BY <1>3
<1>5. stamp \in [Bundles -> Nat]
  BY <1>3, <1>4
<1>6. \A b \in Bundles : Tip.version[b] <= version[b]
  <2> SUFFICES ASSUME NEW b \in Bundles PROVE Tip.version[b] <= version[b]
    OBVIOUS
  <2>1. PICK n \in Nat : n = Tip.version[b]
    BY <1>3
  <2>2. version[b] = n \/ version[b] = n + 1
    BY <2>1
  <2> QED BY <2>1, <2>2
<1>7. main' = Append(main, c)
  BY <1>1
<1> HIDE DEF version, stamp
<1>8. c \in Commits /\ c.version = version /\ c.by = "person"
  BY <1>2, <1>4, <1>5 DEF Commits
<1> HIDE DEF c
<1>9. Len(main) < MaxCommits /\ run' = [run EXCEPT ![Len(main) + 1] = "queued"] /\ sync' = sync
  BY DEF HumanPush
<1>10. BranchInv'
  BY <1>6, <1>7, <1>8, <1>9, Growth DEF BranchInv
<1> QED BY <1>7, <1>8, <1>9, <1>10, PushStep DEF Inv, TypeOK, RunStates

LEMMA AutoBumpInv == ASSUME Inv, NEW k \in 1..MaxCommits, AutoBump(k) PROVE Inv'
<1>1. /\ run[k] = "tested" /\ k \in 1..Len(main) /\ k <= Len(main)
      /\ Valid(main[k]) /\ sync' = sync
  BY DEF AutoBump, Inv, TypeOK, RunsAreGrounded
<1>2. CASE main' = main /\ run' = [run EXCEPT ![k] = "idle"]
  BY <1>1, <1>2, RunStep DEF RunStates
<1>3. CASE main' = main /\ run' = [run EXCEPT ![k] = "rejected"]
  BY <1>1, <1>3, RunStep DEF RunStates
<1>4. CASE /\ FastForwards(k) /\ Len(main) < MaxCommits
           /\ main' = Append(main, BumpCommit(main[k], Changed(k), main[k].engine, "bump"))
           /\ run' = [run EXCEPT ![k] = "pushed"]
  <2>1. Len(main) = k /\ main[k] = Tip /\ main[k] \in Commits
    BY <1>1, <1>4 DEF FastForwards, Tip, Inv, TypeOK
  <2>2. Changed(k) \in SUBSET Bundles /\ main[k].engine \in Engines \cup {NoEngine}
    BY <2>1 DEF Changed, Commits
  <2>3. PICK c : c = BumpCommit(main[k], Changed(k), main[k].engine, "bump")
    OBVIOUS
  <2>4. c \in Commits /\ c.by = "bump" /\ Valid(c)
    BY <1>1, <2>1, <2>2, <2>3, BumpIsACommit
  <2>9. \A b \in Bundles : /\ main[k].version[b] <= c.version[b]
                           /\ b \in Changed(k) => c.version[b] # main[k].version[b]
                           /\ b \notin Changed(k) => b \notin c.edits
    <3>1. PICK x \in Commits : x = main[k]
      BY <2>1
    <3>2. PICK bumped \in SUBSET Bundles : bumped = Changed(k)
      BY <2>2
    <3>3. PICK e \in Engines \cup {NoEngine} : e = main[k].engine
      BY <2>2
    <3>4. c = BumpCommit(x, bumped, e, "bump")
      BY <2>3, <3>1, <3>2, <3>3
    <3>5. ASSUME NEW b \in Bundles
          PROVE  /\ x.version[b] <= c.version[b]
                 /\ b \in bumped => c.version[b] # x.version[b]
                 /\ b \notin bumped => b \notin c.edits
      BY <3>4, BumpRaises
    <3> QED BY <3>1, <3>2, <3>5
  <2>5. main' = Append(main, c)
    BY <1>4, <2>3
  <2>6. \A b \in Bundles : Tip.version[b] <= c.version[b]
    BY <2>1, <2>9
  <2>7. \A b \in Bundles : IF b \in Changed(Len(main)) THEN c.version[b] # Tip.version[b] ELSE b \notin c.edits
    BY <2>1, <2>9
  <2>8. BranchInv'
    BY <1>4, <2>4, <2>5, <2>6, <2>7, Growth DEF BranchInv
  <2> QED BY <1>1, <1>4, <2>4, <2>5, <2>8, PushStep DEF Inv, TypeOK, RunStates
<1> QED BY <1>2, <1>3, <1>4 DEF AutoBump

LEMMA PushPinInv == ASSUME Inv, NEW e \in Engines, PushPin(e) PROVE Inv'
<1> DEFINE at == sync[e].at
<1>0. PICK c : c = BumpCommit(main[at], {Plugin}, e, "sync")
  OBVIOUS
<1>1. at \in 1..Len(main) /\ run' = run
  BY DEF PushPin, Inv, RunsAreGrounded
<1>2. CASE main' = main /\ SetSync(e, "red", 0)
  BY <1>1, <1>2, SyncRunStep, SomeCommits DEF SyncStates
<1>3. CASE main' = main /\ SetSync(e, "rejected", 0)
  BY <1>1, <1>3, SyncRunStep, SomeCommits DEF SyncStates
<1>4. CASE /\ Valid(c) /\ FastForwards(at) /\ Len(main) < MaxCommits
           /\ main' = Append(main, c) /\ SetSync(e, "pushed", 0)
  <2>1. Len(main) = at /\ main[at] = Tip /\ main[at] \in Commits
    BY <1>1, <1>4 DEF FastForwards, Tip, Inv, TypeOK
  <2>3. c \in Commits /\ c.by = "sync" /\ Valid(c)
    BY <1>0, <1>4, <2>1, BumpIsACommit, PluginIsABundle
  <2>4. \A b \in Bundles : Tip.version[b] <= c.version[b]
    BY <1>0, <2>1, BumpRaises, PluginIsABundle
  <2>5. BranchInv'
    BY <1>4, <2>3, <2>4, Growth DEF BranchInv
  <2>6. /\ sync' \in [Engines -> [state : SyncStates, at : 0..MaxCommits]]
        /\ \A f \in Engines : sync'[f] = sync[f] \/ sync'[f].state # "checkedout"
    BY <1>4, SomeCommits DEF SetSync, Inv, TypeOK, SyncStates
  <2> QED BY <1>1, <1>4, <2>3, <2>5, <2>6, PushStep DEF Inv, TypeOK
<1> QED BY <1>0, <1>2, <1>3, <1>4 DEF PushPin

LEMMA NextInv == Inv /\ [Next]_vars => Inv'
<1> SUFFICES ASSUME Inv, [Next]_vars PROVE Inv'
  OBVIOUS
<1>1. CASE HumanPush
  BY <1>1, HumanPushInv
<1>2. ASSUME NEW k \in 1..MaxCommits, CiStep(k) PROVE Inv'
  <2>1. CASE TestsPass(k)
    BY <2>1, RunStep DEF TestsPass, RunStates, Inv, RunsAreGrounded
  <2>2. CASE TestsFail(k)
    BY <2>2, RunStep DEF TestsFail, RunStates, Inv, RunsAreGrounded
  <2>3. CASE AutoBump(k)
    BY <2>3, AutoBumpInv
  <2>4. CASE Rerun(k)
    BY <2>4, RunStep DEF Rerun, RunStates, Inv, RunsAreGrounded
  <2> QED BY <1>2, <2>1, <2>2, <2>3, <2>4 DEF CiStep
<1>3. ASSUME NEW e \in Engines, SyncStep(e) PROVE Inv'
  <2>1. CASE Dispatch(e)
    BY <2>1, SyncRunStep, SomeCommits DEF Dispatch, SyncStates
  <2>2. CASE Checkout(e)
    BY <2>2, SyncRunStep, SomeCommits DEF Checkout, SyncStates, Inv, TypeOK
  <2>3. CASE GuardFails(e)
    BY <2>3, SyncRunStep, SomeCommits DEF GuardFails, SyncStates
  <2>4. CASE PushPin(e)
    BY <2>4, PushPinInv
  <2>5. CASE RerunSync(e)
    BY <2>5, SyncRunStep, SomeCommits DEF RerunSync, SyncStates
  <2> QED BY <1>3, <2>1, <2>2, <2>3, <2>4, <2>5 DEF SyncStep
<1>4. CASE UNCHANGED vars
  <2>1. TypeOK' /\ RunsAreGrounded'
    BY <1>4 DEF vars, Inv, TypeOK, RunsAreGrounded, Valid
  <2> QED BY <1>4, <2>1, SameBranch DEF vars, Inv, BranchInv
<1> QED BY <1>1, <1>2, <1>3, <1>4 DEF Next

-----------------------------------------------------------------------------
THEOREM InvAlways == Spec => []Inv
<1>1. Init => Inv
  BY InitInv
<1>2. Inv /\ [Next]_vars => Inv'
  BY NextInv
<1> QED BY <1>1, <1>2, PTL DEF Spec

(* main, the runs and the release-sync runs keep their types.                 *)
THEOREM TypeCorrect == Spec => []TypeOK
<1>1. Inv => TypeOK
  BY DEF Inv
<1> QED BY <1>1, InvAlways, PTL

(* No push, of a person or of a workflow, lowers a version that was on main:  *)
(* the workflows' pushes because only a fast-forward is accepted.             *)
THEOREM VersionsGrow == Spec => []VersionsNeverGoBack
<1>1. Inv => VersionsNeverGoBack
  BY DEF Inv
<1> QED BY <1>1, InvAlways, PTL

(* Every commit of a workflow carries in each pin the version of its manifest. *)
THEOREM WorkflowsStamp == Spec => []BotCommitsAreStamped
<1>1. Inv => BotCommitsAreStamped
  BY DEF Inv
<1> QED BY <1>1, InvAlways, PTL

(* After a bump commit every bundle of main has a version that none of its    *)
(* earlier contents had.                                                      *)
THEOREM BumpCoversAll == Spec => []BumpLeavesNothingUnversioned
<1>1. Inv => BumpLeavesNothingUnversioned
  BY DEF Inv
<1> QED BY <1>1, InvAlways, PTL

-----------------------------------------------------------------------------
(* A change of the plugin gets a version.  What a run left behind stays true   *)
(* while main grows: a pin raises the plugin's version, a run found nothing to *)
(* bump, or there are later commits - which only the workflows have made, when *)
(* the run is that of the last push.                                           *)
PluginInv ==
    /\ \A m \in 1..Len(main) : main[m].by = "sync" => Versioned(m, Plugin)
    /\ \A k \in 1..MaxCommits : run[k] = "idle" => Versioned(k, Plugin)
    /\ \A k \in 1..MaxCommits : run[k] \in {"pushed", "rejected"} => k < Len(main)

(* A bundle that no changed commit leaves without a version has one.           *)
LEMMA UnchangedIsVersioned ==
    ASSUME Inv, NEW k \in 1..Len(main), NEW b \in Bundles, b \notin Changed(k)
    PROVE  Versioned(k, b)
<1>1. PICK n \in 1..MaxCommits : n = Len(main)
  BY DEF Inv, TypeOK
<1>2. \A j \in 1..n : main[j].version[b] \in Nat
  <2>1. \A j \in 1..n : main[j] \in Commits
    BY <1>1 DEF Inv, TypeOK
  <2> QED BY <2>1 DEF Commits
<1> SUFFICES ASSUME NEW j \in 2..k, b \in main[j].edits PROVE main[k].version[b] # main[j - 1].version[b]
  BY DEF Versioned
<1>3. PICK i \in j..k : IntroducesVersion(i, b)
  BY <1>1 DEF Changed, ChangedSinceVersionBase
<1>4. i \in 2..n /\ i - 1 \in 1..n /\ j - 1 \in 1..n /\ j - 1 <= i - 1 /\ i <= k /\ k \in 1..n
  BY <1>1, <1>3
<1> DEFINE old    == main[j - 1].version[b]
           before == main[i - 1].version[b]
           after  == main[i].version[b]
           new    == main[k].version[b]
<1>5. old \in Nat /\ before \in Nat /\ after \in Nat /\ new \in Nat /\ before # after
  BY <1>2, <1>3, <1>4 DEF IntroducesVersion
<1>6. old <= before
  BY <1>1, <1>2, <1>4 DEF Inv, VersionsNeverGoBack
<1>7. before <= after
  BY <1>1, <1>4 DEF Inv, VersionsNeverGoBack
<1>8. after <= new
  BY <1>1, <1>2, <1>4 DEF Inv, VersionsNeverGoBack
<1> HIDE DEF old, before, after, new
<1>9. new # old
  BY <1>5, <1>6, <1>7, <1>8
<1> QED BY <1>9 DEF old, new

(* The past of main is what it was.                                            *)
LEMMA VersionedStays ==
    ASSUME Inv, NEW c \in Commits, main' = Append(main, c), Len(main) < MaxCommits,
           NEW k \in 1..Len(main), NEW b, Versioned(k, b)
    PROVE  Versioned(k, b)'
<1>1. \A j \in 1..Len(main) : main'[j] = main[j]
  BY Appending DEF Inv
<1>2. \A j \in 2..k : j \in 1..Len(main) /\ j - 1 \in 1..Len(main)
  BY DEF Inv, TypeOK
<1> QED BY <1>1, <1>2 DEF Versioned

(* A commit that raises the plugin's version names what it never was.          *)
LEMMA RaisedIsVersioned ==
    ASSUME Inv, NEW c \in Commits, main' = Append(main, c), Len(main) < MaxCommits,
           Tip.version[Plugin] <= c.version[Plugin], c.version[Plugin] # Tip.version[Plugin],
           NEW m \in Nat, m = Len(main) + 1
    PROVE  Versioned(m, Plugin)'
<1>1. PICK n \in 1..MaxCommits : n = Len(main)
  BY DEF Inv, TypeOK
<1>2. Len(main') = n + 1 /\ main'[n + 1] = c /\ \A j \in 1..n : main'[j] = main[j]
  BY <1>1, Appending DEF Inv
<1>3. \A j \in 1..n : main[j].version[Plugin] \in Nat
  <2>1. \A j \in 1..n : main[j] \in Commits
    BY <1>1 DEF Inv, TypeOK
  <2> QED BY <2>1, PluginIsABundle DEF Commits
<1>4. c.version[Plugin] \in Nat
  BY PluginIsABundle DEF Commits
<1> SUFFICES ASSUME NEW j \in 2..(n + 1) PROVE main'[n + 1].version[Plugin] # main'[j - 1].version[Plugin]
  BY <1>1 DEF Versioned
<1> DEFINE old == main[j - 1].version[Plugin]
           tip == main[n].version[Plugin]
           new == c.version[Plugin]
<1>5. j - 1 \in 1..n /\ main'[j - 1] = main[j - 1]
  BY <1>1, <1>2
<1>6. old <= tip
  <2>1. CASE j - 1 = n
    BY <1>3, <1>5, <2>1
  <2>2. CASE j - 1 < n
    BY <1>1, <1>5, <2>2, PluginIsABundle DEF Inv, VersionsNeverGoBack
  <2> QED BY <1>1, <1>5, <2>1, <2>2
<1>7. old \in Nat /\ tip \in Nat /\ new \in Nat /\ tip <= new /\ new # tip
  BY <1>1, <1>3, <1>4, <1>5 DEF Tip
<1> HIDE DEF old, tip, new
<1>8. new # old
  BY <1>6, <1>7
<1> QED BY <1>2, <1>5, <1>8 DEF old, new

(* A push keeps it, when a pin it brings is one and a run does not end idle.   *)
LEMMA PluginPush ==
    ASSUME Inv, PluginInv, NEW c \in Commits, main' = Append(main, c), Len(main) < MaxCommits,
           c.by = "sync" => /\ Tip.version[Plugin] <= c.version[Plugin]
                            /\ c.version[Plugin] # Tip.version[Plugin],
           \A k \in 1..MaxCommits : run'[k] = run[k] \/ run'[k] = "queued" \/ (run'[k] = "pushed" /\ k <= Len(main))
    PROVE  PluginInv'
<1>1. PICK n \in 1..MaxCommits : n = Len(main)
  BY DEF Inv, TypeOK
<1>2. Len(main') = n + 1 /\ main'[n + 1] = c /\ \A j \in 1..n : main'[j] = main[j]
  BY <1>1, Appending DEF Inv
<1>3. ASSUME NEW m \in 1..Len(main'), main'[m].by = "sync" PROVE Versioned(m, Plugin)'
  <2>1. CASE m = n + 1
    BY <1>1, <1>2, <1>3, <2>1, RaisedIsVersioned
  <2>2. CASE m \in 1..n
    BY <1>1, <1>2, <1>3, <2>2, VersionedStays DEF PluginInv
  <2> QED BY <1>1, <1>2, <2>1, <2>2
<1>4. ASSUME NEW k \in 1..MaxCommits, run'[k] = "idle" PROVE Versioned(k, Plugin)'
  <2>1. run[k] = "idle"
    BY <1>4
  <2>2. k \in 1..Len(main)
    BY <1>1, <2>1 DEF Inv, RunsAreGrounded
  <2> QED BY <2>1, <2>2, VersionedStays DEF PluginInv
<1>5. ASSUME NEW k \in 1..MaxCommits, run'[k] \in {"pushed", "rejected"} PROVE k < Len(main')
  BY <1>1, <1>2, <1>5 DEF PluginInv
<1> QED BY <1>3, <1>4, <1>5 DEF PluginInv

(* A step that pushes nothing ends no run but one with nothing to do, or one   *)
(* that main has left behind.                                                  *)
LEMMA PluginStays ==
    ASSUME Inv, PluginInv, main' = main,
           \A k \in 1..MaxCommits : \/ run'[k] = run[k]
                                    \/ run'[k] \in {"queued", "tested", "red"}
                                    \/ run'[k] = "idle" /\ Versioned(k, Plugin)
                                    \/ run'[k] = "rejected" /\ k < Len(main)
    PROVE  PluginInv'
BY DEF PluginInv, Versioned

LEMMA PluginNext == ASSUME Inv, PluginInv, [Next]_vars PROVE PluginInv'
<1>0. run \in [1..MaxCommits -> RunStates]
  BY DEF Inv, TypeOK
<1>1. CASE HumanPush
  <2>1. PICK c : main' = Append(main, c) /\ c.by = "person" /\ c \in Commits
    <3>1. PICK c : main' = Append(main, c) /\ c.by = "person"
      <4>1. Tip \in Commits
        BY DEF Inv, TypeOK, Tip
      <4>2. \E e, v, t : main' = Append(main, [Tip EXCEPT !.edits = e, !.version = v, !.stamp = t, !.by = "person"])
        BY <1>1, Zenon DEF HumanPush
      <4>3. PICK e, v, t : main' = Append(main, [Tip EXCEPT !.edits = e, !.version = v, !.stamp = t, !.by = "person"])
        BY <4>2, Zenon
      <4> DEFINE d == [Tip EXCEPT !.edits = e, !.version = v, !.stamp = t, !.by = "person"]
      <4>4. d.by = "person"
        BY <4>1 DEF Commits
      <4>5. main' = Append(main, d)
        BY <4>3
      <4> HIDE DEF d
      <4> QED BY <4>4, <4>5
    <3>2. Len(main) \in Nat /\ Len(main') \in Nat /\ main' \in Seq(Commits)
      BY <1>1, HumanPushInv DEF Inv, TypeOK
    <3>3. c = main'[Len(main) + 1] /\ Len(main') = Len(main) + 1
      BY <3>1 DEF Inv, TypeOK
    <3> QED BY <3>1, <3>2, <3>3
  <2>2. Len(main) < MaxCommits /\ run' = [run EXCEPT ![Len(main) + 1] = "queued"]
    BY <1>1 DEF HumanPush
  <2> QED BY <1>0, <2>1, <2>2, PluginPush
<1>2. ASSUME NEW k \in 1..MaxCommits, CiStep(k) PROVE PluginInv'
  <2>1. CASE TestsPass(k) \/ TestsFail(k) \/ Rerun(k)
    <3>1. main' = main /\ \E s \in {"queued", "tested", "red"} : run' = [run EXCEPT ![k] = s]
      BY <2>1 DEF TestsPass, TestsFail, Rerun
    <3> QED BY <1>0, <3>1, PluginStays
  <2>2. CASE AutoBump(k)
    <3>1. run[k] = "tested" /\ k \in 1..Len(main)
      BY <2>2 DEF AutoBump, Inv, TypeOK, RunsAreGrounded
    <3>2. CASE Changed(k) = {} /\ main' = main /\ run' = [run EXCEPT ![k] = "idle"]
      BY <1>0, <3>1, <3>2, UnchangedIsVersioned, PluginIsABundle, PluginStays
    <3>3. CASE ~FastForwards(k) /\ main' = main /\ run' = [run EXCEPT ![k] = "rejected"]
      <4>1. k < Len(main)
        BY <3>1, <3>3 DEF FastForwards, Inv, TypeOK
      <4> QED BY <1>0, <3>3, <4>1, PluginStays
    <3>4. CASE /\ Len(main) < MaxCommits
               /\ main' = Append(main, BumpCommit(main[k], Changed(k), main[k].engine, "bump"))
               /\ run' = [run EXCEPT ![k] = "pushed"]
      <4>1. PICK x \in Commits : x = main[k]
        BY <3>1 DEF Inv, TypeOK
      <4>2. PICK bumped \in SUBSET Bundles : bumped = Changed(k)
        BY DEF Changed
      <4>3. PICK e \in Engines \cup {NoEngine} : e = x.engine
        BY DEF Commits
      <4>4. PICK c : c = BumpCommit(x, bumped, e, "bump")
        OBVIOUS
      <4>5. c \in Commits /\ c.by = "bump" /\ main' = Append(main, c)
        BY <3>4, <4>1, <4>2, <4>3, <4>4, BumpIsACommit
      <4>6. k <= Len(main)
        BY <3>1
      <4> QED BY <1>0, <3>4, <4>5, <4>6, PluginPush
    <3> QED BY <2>2, <3>2, <3>3, <3>4 DEF AutoBump
  <2> QED BY <1>2, <2>1, <2>2 DEF CiStep
<1>3. ASSUME NEW e \in Engines, SyncStep(e) PROVE PluginInv'
  <2>1. run' = run
    BY <1>3 DEF SyncStep, Dispatch, Checkout, GuardFails, PushPin, RerunSync
  <2>2. CASE main' = main
    BY <2>1, <2>2, PluginStays
  <2>3. CASE main' # main
    <3>1. /\ PushPin(e) /\ FastForwards(sync[e].at) /\ Len(main) < MaxCommits
          /\ main' = Append(main, BumpCommit(main[sync[e].at], {Plugin}, e, "sync"))
      BY <1>3, <2>3 DEF SyncStep, Dispatch, Checkout, GuardFails, PushPin, RerunSync
    <3>2. PICK x \in Commits : x = main[sync[e].at] /\ x = Tip
      BY <3>1 DEF FastForwards, Tip, Inv, TypeOK
    <3>3. PICK c : c = BumpCommit(x, {Plugin}, e, "sync")
      OBVIOUS
    <3>4. c \in Commits /\ c.by = "sync" /\ main' = Append(main, c)
      BY <3>1, <3>2, <3>3, BumpIsACommit, PluginIsABundle
    <3>5. x.version[Plugin] <= c.version[Plugin] /\ c.version[Plugin] # x.version[Plugin]
      <4>1. {Plugin} \in SUBSET Bundles /\ Plugin \in Bundles /\ Plugin \in {Plugin}
        BY PluginIsABundle
      <4>2. e \in Engines \cup {NoEngine} /\ "sync" \in {"bump", "sync"}
        OBVIOUS
      <4>3. PICK bumped \in SUBSET Bundles : bumped = {Plugin}
        BY <4>1
      <4>4. PICK author \in {"bump", "sync"} : author = "sync"
        BY <4>2
      <4>5. c = BumpCommit(x, bumped, e, author)
        BY <3>3, <4>3, <4>4
      <4>6. x.version[Plugin] <= c.version[Plugin] /\ (Plugin \in bumped => c.version[Plugin] # x.version[Plugin])
        BY <4>1, <4>2, <4>5, BumpRaises
      <4> QED BY <4>3, <4>6
    <3> QED BY <2>1, <3>1, <3>2, <3>4, <3>5, PluginPush
  <2> QED BY <2>2, <2>3
<1>4. CASE UNCHANGED vars
  BY <1>4, PluginStays DEF vars
<1> QED BY <1>1, <1>2, <1>3, <1>4 DEF Next

(* "CI auto-bumps it when plugin/ changes land on main without a manual bump": *)
(* when the run of the last push has passed its tests and is over, also when   *)
(* its own bump was refused, every change of the plugin has a version.         *)
THEOREM PluginChangesVersioned == Spec => []PluginChangesGetAVersion
<1>1. Init => PluginInv
  <2> SUFFICES ASSUME Init PROVE PluginInv
    OBVIOUS
  <2>1. Len(main) = 1 /\ main[1].by = "person" /\ \A k \in 1..MaxCommits : run[k] \in {"queued", "none"}
    BY DEF Init
  <2> QED BY <2>1 DEF PluginInv
<1>2. PluginInv /\ Inv /\ [Next]_vars => PluginInv'
  BY PluginNext
<1>3. PluginInv /\ Inv => PluginChangesGetAVersion
  <2> SUFFICES ASSUME PluginInv, Inv, NEW k \in 1..MaxCommits, LastPush(k), run[k] \in {"idle", "pushed", "rejected"}
               PROVE  Versioned(Len(main), Plugin)
    BY DEF PluginChangesGetAVersion
  <2>1. PICK n \in 1..MaxCommits : n = Len(main)
    BY DEF Inv, TypeOK
  <2>2. CASE k = n
    BY <2>1, <2>2 DEF PluginInv
  <2>3. CASE k # n
    <3>1. n \in (k + 1)..Len(main) /\ main[n] \in Commits
      BY <2>1, <2>3 DEF LastPush, Inv, TypeOK
    <3>2. main[n].by \in {"bump", "sync"}
      BY <3>1 DEF LastPush, Commits
    <3> QED BY <2>1, <3>2, PluginIsABundle DEF PluginInv, Inv, BumpLeavesNothingUnversioned
  <2> QED BY <2>2, <2>3
<1> QED BY <1>1, <1>2, <1>3, InvAlways, PTL DEF Spec

-----------------------------------------------------------------------------
(* The gates.  What has passed one stays true of the commit in the making,    *)
(* since only the steps before npm test change it.                            *)
IsPin(pin) == pin = [is |-> pin.is, leaks |-> pin.leaks, flat |-> pin.flat, version |-> pin.version,
                     stamp |-> pin.stamp, base |-> pin.base, sums |-> pin.sums]

PluginPinned(c, p) ==
    LET pin == c.bundles.plugin.pin IN
    /\ IsPin(pin) /\ pin.version = p.version /\ pin.base = p.assets[1].base /\ pin.sums = p.sums
    /\ p.version # Lacking

GateInv ==
    /\ IsCommit(commit) /\ payload \in Payloads \cup {Lacking}
    /\ gate \in {"guard", "generate", "bump"} => payload # Lacking
    /\ gate = "integrity" => payload = Lacking
    /\ gate = "bump" => Loads(commit.bundles.plugin.manifest)
    /\ gate \in {"generate", "bump", "npm test", "shipped"} /\ payload # Lacking => PayloadIntegrity(payload) = {}
    /\ gate \in {"bump", "npm test", "shipped"} /\ payload # Lacking => PluginPinned(commit, payload)
    /\ gate \in {"integrity", "shipped"} => ValidateManifests(commit) = {}
    /\ gate = "shipped" /\ payload = Lacking =>
         \A d \in {"plugin", "figura"} : commit.bundles[d].pin # Lacking => PinIntegrity(commit.bundles[d]) = {}

LEMMA GatesInitially == PinInit => GateInv
  BY CommitsAreTyped DEF PinInit, GateInv

LEMMA GenerateKeeps == ASSUME GateInv, GeneratePin PROVE GateInv'
<1> DEFINE manifest == commit.bundles.plugin.manifest
<1>1. /\ gate = "generate" /\ payload' = payload /\ payload # Lacking /\ IsCommit(commit) /\ PayloadIntegrity(payload) = {}
      /\ gate' = IF GeneratorDies(payload, manifest) = {} THEN "bump" ELSE "refused"
      /\ commit' = IF gate' = "bump" THEN [commit EXCEPT !.bundles["plugin"].pin = GeneratedPin(payload, manifest)] ELSE commit
  BY DEF GeneratePin, Passes, GateInv
<1>2. CASE GeneratorDies(payload, manifest) # {}
  BY <1>1, <1>2 DEF GateInv
<1>3. CASE GeneratorDies(payload, manifest) = {}
  <2>1. payload.version # Lacking /\ Loads(manifest)
    BY <1>3 DEF GeneratorDies, Broken
  <2> DEFINE pin == GeneratedPin(payload, manifest)
  <2>2. gate' = "bump" /\ commit' = [commit EXCEPT !.bundles["plugin"].pin = pin]
    BY <1>1, <1>3
  <2>3. IsPin(pin) /\ pin.version = payload.version /\ pin.base = payload.assets[1].base /\ pin.sums = payload.sums
    BY DEF GeneratedPin, IsPin
  <2> HIDE DEF pin
  <2>4. IsCommit(commit') /\ commit'.bundles.plugin.pin = pin /\ commit'.bundles.plugin.manifest = manifest
    BY <1>1, <2>2 DEF IsCommit, IsBundle
  <2>5. PluginPinned(commit', payload')
    BY <1>1, <2>1, <2>3, <2>4 DEF PluginPinned
  <2> QED BY <1>1, <2>1, <2>2, <2>4, <2>5 DEF GateInv
<1> QED BY <1>2, <1>3

LEMMA BumpedManifest ==
    ASSUME NEW m, IsManifest(m), m # Lacking, NEW v
    PROVE  IsManifest([m EXCEPT !.version = v])
<1> DEFINE is == m.is  leaks == m.leaks  name == m.name  servers == m.servers  version == m.version
<1>1. m = [is |-> is, leaks |-> leaks, name |-> name, servers |-> servers, version |-> version]
  BY DEF IsManifest
<1> HIDE DEF is, leaks, name, servers, version
<1>2. [m EXCEPT !.version = v] = [is |-> is, leaks |-> leaks, name |-> name, servers |-> servers, version |-> v]
  BY <1>1
<1> QED BY <1>2 DEF IsManifest

LEMMA RestampedPin ==
    ASSUME NEW pin, IsPin(pin), NEW manifest
    PROVE  LET new == Restamp(pin, manifest) IN IsPin(new) /\ new.version = pin.version /\ new.base = pin.base /\ new.sums = pin.sums
<1> DEFINE is == pin.is  leaks == pin.leaks  flat == pin.flat  version == pin.version  stamp == pin.stamp  base == pin.base  sums == pin.sums
<1>1. pin = [is |-> is, leaks |-> leaks, flat |-> flat, version |-> version, stamp |-> stamp, base |-> base, sums |-> sums]
  BY DEF IsPin
<1>2. version = pin.version /\ base = pin.base /\ sums = pin.sums
  OBVIOUS
<1> HIDE DEF is, leaks, flat, version, stamp, base, sums
<1> DEFINE half == [pin EXCEPT !.stamp = manifest.version]
<1>3. half = [is |-> is, leaks |-> leaks, flat |-> flat, version |-> version, stamp |-> manifest.version, base |-> base, sums |-> sums]
  BY <1>1
<1>4. Restamp(pin, manifest) = [half EXCEPT !.flat = TRUE]
  BY DEF Restamp
<1> HIDE DEF half
<1>5. Restamp(pin, manifest) = [is |-> is, leaks |-> leaks, flat |-> TRUE, version |-> version, stamp |-> manifest.version, base |-> base, sums |-> sums]
  BY <1>3, <1>4
<1> QED BY <1>2, <1>5 DEF IsPin

LEMMA BumpKeeps == ASSUME GateInv, BumpPlugin PROVE GateInv'
<1> DEFINE market == commit.marketplace  plugin == commit.bundles.plugin  figura == commit.bundles.figura
           manifest == [plugin.manifest EXCEPT !.version = @ + 1]
           pin      == Restamp(plugin.pin, manifest)
           bundle   == Bumped(plugin)
<1>1. /\ gate = "bump" /\ gate' = "npm test" /\ payload' = payload /\ payload # Lacking /\ IsCommit(commit)
      /\ PayloadIntegrity(payload) = {} /\ PluginPinned(commit, payload) /\ Loads(plugin.manifest)
  BY DEF BumpPlugin, Passes, GateInv
<1>2. commit' = [commit EXCEPT !.bundles["plugin"] = bundle]
  BY DEF BumpPlugin
<1>3. /\ commit = [marketplace |-> market, bundles |-> [plugin |-> plugin, figura |-> figura]]
      /\ IsBundle(plugin) /\ IsBundle(figura)
  BY <1>1 DEF IsCommit
<1>4. IsManifest(manifest)
  BY <1>1, <1>3, BumpedManifest DEF IsBundle, Loads
<1>5. /\ IsPin(pin) /\ pin.version = payload.version /\ pin.base = payload.assets[1].base /\ pin.sums = payload.sums
      /\ payload.version # Lacking
  BY <1>1, RestampedPin DEF PluginPinned
<1>6. bundle = [plugin EXCEPT !.manifest = manifest, !.pin = pin]
  BY DEF Bumped
<1> HIDE DEF pin, manifest, bundle, plugin, market, figura
<1>7. IsBundle(bundle) /\ bundle.pin = pin
  <2> DEFINE oldManifest == plugin.manifest  oldPin == plugin.pin  skills == plugin.skills  entries == plugin.entries
  <2>1. plugin = [manifest |-> oldManifest, pin |-> oldPin, skills |-> skills, entries |-> entries]
    BY <1>3 DEF IsBundle
  <2> HIDE DEF oldManifest, oldPin, skills, entries
  <2>2. bundle = [manifest |-> manifest, pin |-> pin, skills |-> skills, entries |-> entries]
    BY <1>6, <2>1
  <2> QED BY <1>4, <2>2 DEF IsBundle
<1>8. commit' = [marketplace |-> market, bundles |-> [plugin |-> bundle, figura |-> figura]]
  BY <1>2, <1>3
<1>9. IsCommit(commit') /\ commit'.bundles.plugin = bundle
  BY <1>3, <1>7, <1>8 DEF IsCommit
<1>10. PluginPinned(commit', payload')
  BY <1>1, <1>5, <1>7, <1>9 DEF PluginPinned
<1> QED BY <1>1, <1>9, <1>10 DEF GateInv

LEMMA GatesKeep == ASSUME GateInv, [PinNext]_pinVars PROVE GateInv'
<1>1. CASE UNCHANGED pinVars
  BY <1>1 DEF pinVars, GateInv
<1>2. CASE Guard
  BY <1>2 DEF Guard, Passes, GateInv
<1>3. CASE NpmTest
  BY <1>3 DEF NpmTest, Passes, GateInv
<1>4. CASE CheckReleaseIntegrity
  <2>1. /\ gate = "integrity" /\ payload' = payload /\ payload = Lacking /\ commit' = commit
        /\ IsCommit(commit) /\ ValidateManifests(commit) = {}
        /\ \/ gate' = "refused"
           \/ /\ gate' = "shipped"
              /\ (IF commit.bundles["plugin"].pin = Lacking THEN {} ELSE PinIntegrity(commit.bundles["plugin"])) = {}
              /\ (IF commit.bundles["figura"].pin = Lacking THEN {"file not found"} ELSE PinIntegrity(commit.bundles["figura"])) = {}
    BY <1>4 DEF CheckReleaseIntegrity, Passes, GateInv
  <2> QED BY <2>1 DEF GateInv
<1>5. CASE FetchFails
  BY <1>5 DEF FetchFails, GateInv
<1> QED BY <1>1, <1>2, <1>3, <1>4, <1>5, GenerateKeeps, BumpKeeps DEF PinNext

(* What the validator says of a bundle that the marketplace lists.            *)
LEMMA ListedBundlesAreValid ==
    ASSUME ValidateManifests(commit) = {}, NEW e \in MarketplaceBundles(commit.marketplace)
    PROVE  /\ e.directory \in DOMAIN commit.bundles
           /\ LET bundle == commit.bundles[e.directory] IN
              /\ bundle.manifest.name = e.name /\ bundle.manifest.servers \in {Lacking, {}, {LauncherCommand}}
              /\ bundle.pin # Lacking => Lacking \notin {bundle.pin.version, bundle.pin.stamp, bundle.pin.base.at}
<1> DEFINE bundle   == Directory(commit, e.directory)
           manifest == Part(bundle, "manifest")
<1>1. ValidateBundle(e, bundle) = {}
  <2>1. In(e.directory, ValidateBundle(e, bundle)) \subseteq ValidateManifests(commit)
    BY DEF ValidateManifests
  <2>2. In(e.directory, ValidateBundle(e, bundle)) = {}
    BY <2>1
  <2> QED BY <2>2 DEF In
<1>2. /\ LoadFaults(manifest) = {} /\ ValidatePlugin(manifest) = {} /\ ValidateCrossReference(e, manifest) = {}
      /\ ValidateReleasePin(Part(bundle, "pin"), manifest) = {}
  BY <1>1 DEF ValidateBundle
<1>3. Loads(manifest) /\ manifest # Lacking
  BY <1>2 DEF LoadFaults, Broken
<1>4. bundle # Lacking
  BY <1>3 DEF Part
<1>5. e.directory \in DOMAIN commit.bundles /\ bundle = commit.bundles[e.directory]
  BY <1>4 DEF Directory
<1>6. manifest = bundle.manifest /\ Part(bundle, "pin") = bundle.pin
  BY <1>4 DEF Part
<1>7. manifest.name = e.name
  BY <1>2, <1>3 DEF ValidateCrossReference, Broken
<1>8. manifest.servers \in {Lacking, {}, {LauncherCommand}}
  BY <1>2, <1>3 DEF ValidatePlugin, Broken
<1>9. bundle.pin # Lacking => Lacking \notin {bundle.pin.version, bundle.pin.stamp, bundle.pin.base.at}
  BY <1>2, <1>6 DEF ValidateReleasePin, Broken
<1> QED BY <1>5, <1>6, <1>7, <1>8, <1>9

(* The gates and the launchers name an asset alike.                           *)
Target(os, machine) == <<OsSlug[os], ArchSlug[machine]>>

LEMMA NamesAgree ==
    ASSUME NEW d \in DOMAIN Program, NEW pin, NEW os \in DOMAIN OsSlug, NEW machine \in DOMAIN ArchSlug
    PROVE  ReleaseAssetUrl(Program[d], pin, Target(os, machine)) = LaunchUrl(d, pin, os, machine)
<1>1. d \in {"plugin", "figura"} /\ os \in {"Darwin", "Linux"} /\ machine \in {"arm64", "aarch64", "x86_64", "amd64"}
  BY DEF Program, OsSlug, ArchSlug
<1>2. CASE d = "plugin"
  BY <1>2 DEF Program, ReleaseAssetUrl, LaunchUrl, Target
<1>3. CASE d = "figura"
  <2> DEFINE t == Target(os, machine)
  <2>1. t \in KnownTargets
    BY <1>1 DEF Target, KnownTargets, OsSlug, ArchSlug
  <2>2. ArchivePlatform[t] = <<IF os = "Darwin" THEN "macos" ELSE "linux", IF ArchSlug[machine] = "arm64" THEN "arm64" ELSE "amd64">>
    <3>1. ArchivePlatform[t] = <<ArchiveOs[t[1]], IF t[2] = "x64" THEN "amd64" ELSE t[2]>>
      BY <2>1 DEF ArchivePlatform
    <3>2. ArchiveOs[t[1]] = IF os = "Darwin" THEN "macos" ELSE "linux"
      BY <1>1 DEF Target, ArchiveOs, OsSlug
    <3>3. (IF t[2] = "x64" THEN "amd64" ELSE t[2]) = IF ArchSlug[machine] = "arm64" THEN "arm64" ELSE "amd64"
      BY <1>1 DEF Target, ArchSlug
    <3> QED BY <3>1, <3>2, <3>3
  <2> QED BY <1>3, <2>1, <2>2 DEF Program, ReleaseAssetUrl, LaunchUrl
<1> QED BY <1>1, <1>2, <1>3

LEMMA IntegrityMatches ==
    ASSUME NEW sums, NEW urls, Integrity(sums, urls) = {}, NEW t \in DOMAIN sums
    PROVE  urls[t] # Lacking /\ Fetched(urls[t]) # Lacking /\ Fetched(urls[t]) = sums[t]
  BY DEF Integrity, Broken, Matches

(* The first asset of a target's name is one of the assets.                   *)
LEMMA AssetIsNamed ==
    ASSUME NEW p \in Payloads, NEW t, AssetFor(p.assets, t) # Lacking
    PROVE  \E u \in Range(p.assets) : AssetFor(p.assets, t) = u /\ IsUrl(u) /\ u.name = <<"mneme", t>>
<1> DEFINE named == {i \in DOMAIN p.assets : p.assets[i].name = <<"mneme", t>>}
<1>1. named # {} /\ AssetFor(p.assets, t) = p.assets[Min(named)]
  BY DEF AssetFor
<1>2. named \in SUBSET Nat
  BY PayloadsAreTyped
<1> HIDE DEF named
<1>3. \A x, y \in Nat : y < x => <<y, x>> \in OpToRel(<, Nat)
  <2> SUFFICES ASSUME NEW x \in Nat, NEW y \in Nat, y < x
               PROVE  <<y, x>> \in {ss \in Nat \X Nat : ss[1] < ss[2]}
    BY Zenon DEF OpToRel
  <2> QED OBVIOUS
<1>4. PICK i \in named : \A j \in named : ~ (<<j, i>> \in OpToRel(<, Nat))
  BY <1>1, <1>2, NatLessThanWellFounded, WFMin
<1>5. \A j \in named : i <= j
  <2>1. \A j \in named : ~ (j < i)
    BY <1>2, <1>3, <1>4, Zenon
  <2> QED BY <1>2, <2>1
<1>6. Min(named) \in named
  BY <1>4, <1>5 DEF Min
<1> QED BY <1>1, <1>6, PayloadsAreTyped DEF named, Range

(* What passed the gates installs (npm test, check-release-integrity.mjs and  *)
(* both bin/launch.sh), for any commits, payloads and published files.        *)
THEOREM PinsInstall == PinSpec => []GatedPinsInstall
<1>1. GateInv => GatedPinsInstall
  <2> SUFFICES ASSUME GateInv, gate = "shipped", NEW e \in MarketplaceBundles(commit.marketplace)
               PROVE  /\ e.directory \in DOMAIN commit.bundles
                      /\ LET bundle == commit.bundles[e.directory] IN
                         /\ bundle.manifest.servers \in {Lacking, {}, {LauncherCommand}}
                         /\ e.directory \in DOMAIN Program /\ bundle.pin # Lacking =>
                              (bundle.pin.flat /\ Vouched(e.directory) /\ e.name = Program[e.directory] =>
                                 \A os \in DOMAIN OsSlug, machine \in DOMAIN ArchSlug :
                                   Target(os, machine) \in DOMAIN bundle.pin.sums => Installs(e.directory, bundle.pin, os, machine) = "installed")
    BY DEF GatedPinsInstall, Target
  <2> DEFINE d      == e.directory
             bundle == commit.bundles[d]
             pin    == bundle.pin
  <2>1. /\ d \in DOMAIN commit.bundles /\ bundle.manifest.name = e.name /\ bundle.manifest.servers \in {Lacking, {}, {LauncherCommand}}
        /\ pin # Lacking => Lacking \notin {pin.version, pin.stamp, pin.base.at}
    BY ListedBundlesAreValid DEF GateInv
  <2>2. ASSUME d \in DOMAIN Program, pin # Lacking, pin.flat, Vouched(d), e.name = Program[d],
               NEW os \in DOMAIN OsSlug, NEW machine \in DOMAIN ArchSlug, Target(os, machine) \in DOMAIN pin.sums
        PROVE  Installs(d, pin, os, machine) = "installed"
    <3> DEFINE t   == Target(os, machine)
               url == LaunchUrl(d, pin, os, machine)
    <3>1. d \in {"plugin", "figura"}
      BY <2>2 DEF Program
    <3>2. Fetched(url) # Lacking /\ Fetched(url) = pin.sums[t]
      <4>1. CASE payload = Lacking
        <5> DEFINE urls == [x \in DOMAIN pin.sums |-> ReleaseAssetUrl(bundle.manifest.name, pin, x)]
        <5>1. PinIntegrity(bundle) = {}
          BY <2>2, <3>1, <4>1 DEF GateInv
        <5>2. Integrity(pin.sums, urls) = {}
          BY <5>1 DEF PinIntegrity
        <5>3. urls[t] = url
          BY <2>1, <2>2, NamesAgree
        <5> HIDE DEF urls, url, t
        <5>4. t \in DOMAIN pin.sums
          BY <2>2 DEF t
        <5> QED BY <5>2, <5>3, <5>4, IntegrityMatches
      <4>2. CASE payload # Lacking
        <5> DEFINE urls == [x \in DOMAIN payload.sums |-> AssetFor(payload.assets, x)]
        <5>1. d = "plugin" /\ payload \in Payloads /\ \A u \in Range(payload.assets) : u.base = payload.assets[1].base
          BY <2>2, <4>2 DEF Vouched, GateInv
        <5>2. PayloadIntegrity(payload) = {} /\ pin.base = payload.assets[1].base /\ pin.sums = payload.sums
          BY <4>2, <5>1 DEF GateInv, PluginPinned
        <5>3. Integrity(payload.sums, urls) = {} /\ t \in DOMAIN payload.sums /\ urls[t] = AssetFor(payload.assets, t)
          BY <2>2, <5>2 DEF PayloadIntegrity
        <5> HIDE DEF urls, t
        <5>4. urls[t] # Lacking /\ Fetched(urls[t]) # Lacking /\ Fetched(urls[t]) = payload.sums[t]
          BY <5>3, IntegrityMatches
        <5>5. PICK u \in Range(payload.assets) : urls[t] = u /\ IsUrl(u) /\ u.name = <<"mneme", t>>
          BY <5>1, <5>3, <5>4, AssetIsNamed
        <5>6. u = [base |-> pin.base, name |-> <<"mneme", t>>]
          BY <5>1, <5>2, <5>5 DEF IsUrl
        <5>7. url = [base |-> pin.base, name |-> <<"mneme", t>>]
          BY <5>1 DEF LaunchUrl, Target, t
        <5> QED BY <5>2, <5>4, <5>5, <5>6, <5>7
      <4> QED BY <4>1, <4>2
    <3>3. PinValue(pin, pin.version) # Lacking /\ PinValue(pin, pin.base.at) # Lacking
      BY <2>1, <2>2 DEF PinValue
    <3> QED BY <2>2, <3>2, <3>3 DEF Installs, Target
  <2> QED BY <2>1, <2>2
<1> QED BY <1>1, GatesInitially, GatesKeep, PTL DEF PinSpec
=============================================================================
