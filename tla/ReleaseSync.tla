---------------------------- MODULE ReleaseSync ----------------------------
(* How bundle versions and release pins move along the main branch: people    *)
(* push commits, CI tests each of their pushes and patch-bumps the bundles     *)
(* that changed (ci.yml, scripts/auto-bump.mjs), and the release-sync workflow *)
(* pins every engine release that is dispatched to the repository.             *)
(*                                                                             *)
(* main is linear: a push of several commits, or a merge, is the sequence of   *)
(* the commits it brings, and the runs of the inner ones are runs that end     *)
(* red.  A version is the number of its patch.  The job computes on the commit *)
(* it has checked out, so only the checkout and the push are steps of their    *)
(* own.  People may forget to restamp a pin; they never lower a version.       *)
EXTENDS Naturals, Sequences

CONSTANTS Bundles,     \* the marketplace's bundles
          Plugin,      \* the one whose pin names an engine
          Engines,     \* engine releases
          NoEngine,    \* the pin before the first release
          MaxCommits   \* bound: length of main

ASSUME PluginIsABundle == Plugin \in Bundles
ASSUME NoEngineIsNone == NoEngine \notin Engines
ASSUME SomeCommits == MaxCommits \in Nat \ {0}

VARIABLES main,   \* the commits of the branch, oldest first
          run,    \* run[k]: the ci run of the push that made main[k] the head
          sync    \* sync[e]: the release-sync run of engine e
vars == <<main, run, sync>>

RunStates  == {"none", "queued", "tested", "red", "idle", "pushed", "rejected"}
SyncStates == {"undispatched", "dispatched", "checkedout", "red", "pushed", "rejected"}

Commits == [edits   : SUBSET Bundles,       \* bundles with a changed file
            version : [Bundles -> Nat],     \* plugin.json
            stamp   : [Bundles -> Nat],     \* plugin_version of bin/release.json
            engine  : Engines \cup {NoEngine},
            by      : {"person", "bump", "sync"}]

Tip == main[Len(main)]

Init == /\ main = <<[edits |-> Bundles, version |-> [b \in Bundles |-> 0], stamp |-> [b \in Bundles |-> 0],
                     engine |-> NoEngine, by |-> "person"]>>
        /\ run = [k \in 1..MaxCommits |-> IF k = 1 THEN "queued" ELSE "none"]
        /\ sync = [e \in Engines |-> [state |-> "undispatched", at |-> 0]]

-----------------------------------------------------------------------------
(* scripts/auto-bump.mjs and generate-release-pin.mjs, on the commit at which *)
(* they are run.                                                              *)

IntroducesVersion(k, b) == k = 1 \/ main[k].version[b] # main[k - 1].version[b]

\* Mutant: a bundle counts as changed only by the commit the run is about.
ChangedByTheHead(at, b) == b \in main[at].edits /\ ~IntroducesVersion(at, b)

\* Some commit changed b, and no commit from it on gave b a new version.
ChangedSinceVersionBase(at, b) ==
    \E k \in 1..at : b \in main[k].edits /\ \A j \in k..at : ~IntroducesVersion(j, b)

Changed(at) == {b \in Bundles : ChangedSinceVersionBase(at, b)}

\* Mutant: the pin is not restamped after the bump.
BumpWithoutRestamp(c, bumped, e, author) ==
    [edits |-> bumped, version |-> [b \in Bundles |-> IF b \in bumped THEN c.version[b] + 1 ELSE c.version[b]],
     stamp |-> c.stamp, engine |-> e, by |-> author]

\* Mutant: release-sync pins the engine and leaves the plugin's version.
PinWithoutBump(c, bumped, e, author) ==
    LET version == [b \in Bundles |-> IF b \in bumped /\ author = "bump" THEN c.version[b] + 1 ELSE c.version[b]]
    IN  [edits |-> bumped, version |-> version,
         stamp |-> [b \in Bundles |-> IF b \in bumped THEN version[b] ELSE c.stamp[b]],
         engine |-> e, by |-> author]

BumpCommit(c, bumped, e, author) ==
    LET version == [b \in Bundles |-> IF b \in bumped THEN c.version[b] + 1 ELSE c.version[b]]
    IN  [edits |-> bumped, version |-> version,
         stamp |-> [b \in Bundles |-> IF b \in bumped THEN version[b] ELSE c.stamp[b]],
         engine |-> e, by |-> author]

\* npm test: validate-manifests wants every pin to carry its manifest's version.
Valid(c) == c.stamp = c.version

\* Mutant: the commit is pushed on top of whatever the head is by now.
PushedAnyway(at) == Len(main) >= at

\* git push of a commit made on top of main[at]: refused unless that is the head.
FastForwards(at) == Len(main) = at

-----------------------------------------------------------------------------
(* ci.yml: one run for each push, except those of github-actions[bot].        *)

HumanPush ==
    /\ Len(main) < MaxCommits
    /\ \E edits \in {{}} \cup {{b} : b \in Bundles}, raise, restamp \in BOOLEAN :
         LET version == [b \in Bundles |-> IF raise /\ b \in edits THEN Tip.version[b] + 1 ELSE Tip.version[b]]
             stamp == [b \in Bundles |-> IF restamp /\ b \in edits THEN version[b] ELSE Tip.stamp[b]]
         IN  main' = Append(main, [Tip EXCEPT !.edits = edits, !.version = version, !.stamp = stamp, !.by = "person"])
    /\ run' = [run EXCEPT ![Len(main) + 1] = "queued"]
    /\ UNCHANGED sync

TestsPass(k) == /\ run[k] = "queued"
                /\ Valid(main[k])
                /\ run' = [run EXCEPT ![k] = "tested"]
                /\ UNCHANGED <<main, sync>>

\* Also a network failure in the end-to-end job.
TestsFail(k) == /\ run[k] = "queued"
                /\ run' = [run EXCEPT ![k] = "red"]
                /\ UNCHANGED <<main, sync>>

AutoBump(k) ==
    /\ run[k] = "tested"
    /\ IF Changed(k) = {}
         THEN run' = [run EXCEPT ![k] = "idle"] /\ UNCHANGED main
         ELSE IF FastForwards(k)
           THEN /\ Len(main) < MaxCommits
                /\ main' = Append(main, BumpCommit(main[k], Changed(k), main[k].engine, "bump"))
                /\ run' = [run EXCEPT ![k] = "pushed"]
           ELSE run' = [run EXCEPT ![k] = "rejected"] /\ UNCHANGED main
    /\ UNCHANGED sync

\* A person re-runs a run that failed; it checks out the same commit.
Rerun(k) == /\ run[k] \in {"red", "rejected"}
            /\ run' = [run EXCEPT ![k] = "queued"]
            /\ UNCHANGED <<main, sync>>

-----------------------------------------------------------------------------
(* release-sync.yml: one run for each dispatch, with no concurrency group.    *)

SetSync(e, s, at) == sync' = [sync EXCEPT ![e] = [state |-> s, at |-> at]]

Dispatch(e) == /\ sync[e].state = "undispatched"
               /\ SetSync(e, "dispatched", 0)
               /\ UNCHANGED <<main, run>>

Checkout(e) == /\ sync[e].state = "dispatched"
               /\ SetSync(e, "checkedout", Len(main))
               /\ UNCHANGED <<main, run>>

\* The integrity guard: the assets are missing or do not hash to the digests.
GuardFails(e) == /\ sync[e].state = "checkedout"
                 /\ SetSync(e, "red", 0)
                 /\ UNCHANGED <<main, run>>

\* Pin, bump, restamp, npm test, commit and push.
PushPin(e) ==
    LET at == sync[e].at
        pinned == BumpCommit(main[at], {Plugin}, e, "sync")
    IN  /\ sync[e].state = "checkedout"
        /\ IF ~Valid(pinned)
             THEN SetSync(e, "red", 0) /\ UNCHANGED main
             ELSE IF FastForwards(at)
               THEN /\ Len(main) < MaxCommits
                    /\ main' = Append(main, pinned)
                    /\ SetSync(e, "pushed", 0)
               ELSE SetSync(e, "rejected", 0) /\ UNCHANGED main
        /\ UNCHANGED run

RerunSync(e) == /\ sync[e].state \in {"red", "rejected"}
                /\ SetSync(e, "dispatched", 0)
                /\ UNCHANGED <<main, run>>

-----------------------------------------------------------------------------
CiStep(k) == TestsPass(k) \/ TestsFail(k) \/ AutoBump(k) \/ Rerun(k)
SyncStep(e) == Dispatch(e) \/ Checkout(e) \/ GuardFails(e) \/ PushPin(e) \/ RerunSync(e)

Next == \/ HumanPush
        \/ \E k \in 1..MaxCommits : CiStep(k)
        \/ \E e \in Engines : SyncStep(e)

Spec == Init /\ [][Next]_vars

-----------------------------------------------------------------------------
TypeOK == /\ main \in Seq(Commits) /\ Len(main) \in 1..MaxCommits
          /\ run \in [1..MaxCommits -> RunStates]
          /\ sync \in [Engines -> [state : SyncStates, at : 0..MaxCommits]]

(* plugin/README.md: "The pin's plugin_version must equal plugin.json's        *)
(* version".  What a workflow pushes satisfies it for every bundle, also for   *)
(* those it did not touch and whoever pushed before it.                        *)
BotCommitsAreStamped == \A k \in 1..Len(main) : main[k].by # "person" => Valid(main[k])

(* An updater compares versions: along main none ever goes down, so a version  *)
(* that was left behind is never given to other contents.                      *)
VersionsNeverGoBack ==
    \A j, k \in 1..Len(main) : j < k => \A b \in Bundles : main[j].version[b] <= main[k].version[b]

\* No version of b at commit k names what b was before one of its changes.
Versioned(k, b) == \A j \in 2..k : b \in main[j].edits => main[k].version[b] # main[j - 1].version[b]

(* The bot's bump leaves nothing behind: whatever was pushed while its tests   *)
(* ran, and whatever earlier red runs left, every bundle of the branch it      *)
(* leaves has a version that its earlier contents never had.                   *)
BumpLeavesNothingUnversioned ==
    \A k \in 1..Len(main) : main[k].by = "bump" => \A b \in Bundles : Versioned(k, b)

Quiet == /\ \A k \in 1..MaxCommits : run[k] \notin {"queued", "tested"}
         /\ \A e \in Engines : sync[e].state \notin {"dispatched", "checkedout"}

LastPush(k) == /\ k <= Len(main) /\ main[k].by = "person"
               /\ \A j \in (k + 1)..Len(main) : main[j].by # "person"

(* plugin/README.md: "CI auto-bumps it when plugin/ changes land on main       *)
(* without a manual bump".  When nothing is running and the last push passed   *)
(* its tests, every change of the plugin has a version of its own, also when   *)
(* that run's push was refused.                                                *)
PluginChangesGetAVersion ==
    Quiet => \A k \in 1..MaxCommits :
                LastPush(k) /\ run[k] \in {"idle", "pushed", "rejected"} => Versioned(Len(main), Plugin)

(* README.md: "every engine release bumps the plugin version automatically".   *)
(* A release whose dispatch passed the integrity guard and the tests is pinned *)
(* by a commit of main when its run is over.                                   *)
EveryReleaseBumps ==
    \A e \in Engines : sync[e].state \in {"pushed", "rejected"}
                          => \E k \in 1..Len(main) : main[k].by = "sync" /\ main[k].engine = e
=============================================================================
