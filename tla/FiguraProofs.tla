--------------------------- MODULE FiguraProofs ----------------------------
(***************************************************************************)
(* What runs is the pinned d2, what preflight provided stays, the files of *)
(* a command are what its exit status says, its remedies are new, the      *)
(* diagrams of its PDF fit their page and headings stay with their blocks, *)
(* for any number of processes, commands, documents and themes.            *)
(***************************************************************************)
EXTENDS FiguraBuild, FiniteSetTheorems, WellFoundedInduction, TLAPS

-----------------------------------------------------------------------------
(* The inductive invariant.                                                *)

Places == Working \cup Over \cup {"idle", "dev", "running"}
Directories == [archive : {"partial", "good", "bad"}, d2 : {Absent, "partial", "good", "bad"}]

LauncherTypes ==
  /\ site \in {"dev", "pinned", "unusable"}
  /\ state \in [Pids -> Places]
  /\ unpack \in [Pids -> Directories \cup {Absent}]
  /\ cached \in {Absent, "good"}

(* A d2 that a launcher may hand out without downloading.                  *)
Provided == site = "dev" \/ cached = "good"

(* Each command of the launcher, and what it rests on: a d2 is unpacked    *)
(* only from an archive that was verified, and installed only when it was  *)
(* unpacked by this run.                                                   *)
LaunchPhase(p) ==
  /\ state[p] \in {"download", "verify", "unpack", "install"} => unpack[p] \in Directories
  /\ state[p] = "unpack" => unpack[p].archive = "good"
  /\ state[p] = "install" => unpack[p].d2 = "good"
  /\ state[p] \in {"clean", "ready", "running"} => cached = "good"
  /\ state[p] \in {"test", "mkdir", "download", "verify", "unpack", "install", "clean", "ready", "running"} => site = "pinned"
  /\ state[p] = "exit 0" => Provided

LauncherInv == LauncherTypes /\ (\A p \in Pids : LaunchPhase(p)) /\ (cached = "good" => site = "pinned")

(* The commands of a launcher that finds d2 where it was provided.         *)
Serving == Places \ ((Working \ {"resolve", "test", "ready"}) \cup {"failed"})

(* The stages at which no d2 need be there.                                 *)
WithoutD2 == {"over", "preflight", "preflighting", "finally"}

(* Past preflight something provides d2, and the launcher of a diagram is  *)
(* at none of the commands that download it.                               *)
CommandPhase ==
  /\ stage \in {"preflighting", "rendering"} => child \in Pids
  /\ stage \notin WithoutD2 => Provided
  /\ stage = "rendering" => state[child] \in Serving

Inv == LauncherInv /\ CommandPhase

(* What every step of any launcher keeps for all of them.                  *)
Keeps == /\ LauncherInv'
         /\ Provided => Provided'
         /\ Provided => \A q \in Pids : state[q] \in Serving => state'[q] \in Serving

-----------------------------------------------------------------------------
LEMMA InvInitially == FiguraInit => Inv
  BY AbsentIsNothing DEF FiguraInit, LauncherInit, BuildInit, Inv, LauncherInv, LauncherTypes, LaunchPhase,
     CommandPhase, Places, Working, Over, WithoutD2, Provided

(* A step of process p that says where p goes leaves the others alone.     *)
LEMMA OneMoves ==
  ASSUME LauncherInv, NEW p \in Pids, NEW to \in Places,
         state' = [state EXCEPT ![p] = to]
  PROVE  /\ state' \in [Pids -> Places] /\ state'[p] = to
         /\ \A q \in Pids \ {p} : state'[q] = state[q]
  BY DEF LauncherInv, LauncherTypes

LEMMA OneDirectory ==
  ASSUME LauncherInv, NEW p \in Pids, NEW dir \in Directories \cup {Absent}, Holds(p, dir)
  PROVE  /\ unpack' \in [Pids -> Directories \cup {Absent}] /\ unpack'[p] = dir
         /\ \A q \in Pids \ {p} : unpack'[q] = unpack[q]
  BY DEF LauncherInv, LauncherTypes, Holds

(* The steps that move one process and touch neither site nor cache: what  *)
(* is left to show is the phase of that process.                           *)
LEMMA MovesKeep ==
  ASSUME LauncherInv, NEW p \in Pids, NEW to \in Places, state' = [state EXCEPT ![p] = to],
         unpack' = unpack \/ \E dir \in Directories \cup {Absent} : Holds(p, dir),
         UNCHANGED <<site, cached>>,
         LaunchPhase(p)', Provided /\ state[p] \in Serving => to \in Serving
  PROVE  Keeps
  <1>1. /\ state' \in [Pids -> Places] /\ state'[p] = to
        /\ \A q \in Pids \ {p} : state'[q] = state[q]
    BY OneMoves
  <1>2. /\ unpack' \in [Pids -> Directories \cup {Absent}]
        /\ \A q \in Pids \ {p} : unpack'[q] = unpack[q]
    <2>1. CASE unpack' = unpack
      BY <2>1 DEF LauncherInv, LauncherTypes
    <2>2. CASE \E dir \in Directories \cup {Absent} : Holds(p, dir)
      BY <2>2, OneDirectory
    <2>3. QED BY <2>1, <2>2
  <1>3. LauncherTypes'
    BY <1>1, <1>2 DEF LauncherInv, LauncherTypes
  <1>4. \A q \in Pids : LaunchPhase(q)'
    <2>1. TAKE q \in Pids
    <2>2. CASE q = p
      BY <2>2
    <2>3. CASE q # p
      BY <2>3, <1>1, <1>2 DEF LauncherInv, LaunchPhase, Provided
    <2>4. QED BY <2>2, <2>3
  <1>5. Provided => \A q \in Pids : state[q] \in Serving => state'[q] \in Serving
    BY <1>1
  <1>6. QED BY <1>3, <1>4, <1>5 DEF Keeps, LauncherInv, Provided

LEMMA LaunchKeeps == ASSUME LauncherInv, NEW p \in Pids, NEW w \in BOOLEAN, Launch(p, w) PROVE Keeps
  <1>1. /\ state' = [state EXCEPT ![p] = "resolve"] /\ UNCHANGED <<site, unpack, cached>> /\ "resolve" \in Places
    BY DEF Launch, Step, Places, Working
  <1>2. LaunchPhase(p)'
    BY <1>1, OneMoves DEF LaunchPhase
  <1>3. "resolve" \in Serving
    BY DEF Serving, Places, Working
  <1>4. QED BY <1>1, <1>2, <1>3, MovesKeep

LEMMA ReapKeeps == ASSUME LauncherInv, NEW p \in Pids, Reaped(p) PROVE Keeps
  <1>1. /\ state' = [state EXCEPT ![p] = "idle"] /\ UNCHANGED <<site, unpack, cached>> /\ "idle" \in Places
    BY DEF Reaped, Places
  <1>2. LaunchPhase(p)'
    BY <1>1, OneMoves DEF LaunchPhase
  <1>3. "idle" \in Serving
    BY DEF Serving, Places, Working, Over
  <1>4. QED BY <1>1, <1>2, <1>3, MovesKeep

LEMMA NothingKeeps == ASSUME LauncherInv, UNCHANGED launcherVars PROVE Keeps
  BY DEF LauncherInv, LauncherTypes, LaunchPhase, launcherVars, Provided, Keeps

LEMMA ResolveKeeps == ASSUME LauncherInv, NEW p \in Pids, Resolve(p) PROVE Keeps
  <1>1. PICK to \in {"exit 0", "dev", "failed", "test"} :
          /\ state[p] = "resolve" /\ state' = [state EXCEPT ![p] = to] /\ UNCHANGED <<site, unpack, cached>>
          /\ to \in {"exit 0", "dev"} => site = "dev"
          /\ to = "test" => site = "pinned"
          /\ to = "failed" => site = "unusable"
    BY DEF Resolve, Step, LauncherInv, LauncherTypes
  <1>2. to \in Places
    BY <1>1 DEF Places, Working, Over
  <1>3. LaunchPhase(p)'
    BY <1>1, <1>2, OneMoves DEF LaunchPhase, Provided
  <1>4. Provided => to \in Serving
    BY <1>1, <1>2 DEF Serving, Provided, LauncherInv, Working
  <1>5. QED BY <1>1, <1>2, <1>3, <1>4, MovesKeep

LEMMA TestKeeps == ASSUME LauncherInv, NEW p \in Pids, TestCache(p) PROVE Keeps
  <1>1. PICK to \in {"ready", "mkdir", "failed"} :
          /\ state[p] = "test" /\ state' = [state EXCEPT ![p] = to] /\ UNCHANGED <<site, unpack, cached>>
          /\ to = "ready" <=> cached = "good"
    BY AbsentIsNothing DEF TestCache, Step, LauncherInv, LauncherTypes
  <1>2. to \in Places /\ site = "pinned"
    BY <1>1 DEF Places, Working, Over, LauncherInv, LaunchPhase
  <1>3. LaunchPhase(p)'
    BY <1>1, <1>2, OneMoves DEF LaunchPhase, Provided
  <1>4. Provided => to \in Serving
    BY <1>1, <1>2 DEF Serving, Provided, Working
  <1>5. QED BY <1>1, <1>2, <1>3, <1>4, MovesKeep

(* While a run downloads it serves nothing, so where it goes next is free. *)
LEMMA MkdirKeeps == ASSUME LauncherInv, NEW p \in Pids, MakeDirectory(p) PROVE Keeps
  <1>1. PICK dir \in Directories :
          /\ state[p] = "mkdir" /\ state' = [state EXCEPT ![p] = "download"] /\ Holds(p, dir)
          /\ UNCHANGED <<site, cached>>
    <2>1. CASE unpack[p] = Absent
      BY <2>1 DEF MakeDirectory, Step, Directories
    <2>2. CASE unpack[p] # Absent
      <3>1. unpack[p] \in Directories
        BY <2>2 DEF LauncherInv, LauncherTypes
      <3>2. [unpack[p] EXCEPT !.archive = "partial"] \in Directories
        BY <3>1 DEF Directories
      <3>3. QED BY <2>2, <3>2 DEF MakeDirectory, Step
    <2>3. QED BY <2>1, <2>2
  <1>2. "download" \in Places /\ state[p] \notin Serving
    BY <1>1 DEF Places, Serving, Working
  <1>3. state'[p] = "download" /\ unpack'[p] = dir
    BY <1>1, <1>2, OneMoves, OneDirectory
  <1>4. LaunchPhase(p)'
    BY <1>1, <1>3 DEF LaunchPhase, LauncherInv
  <1>5. QED BY <1>1, <1>2, <1>4, MovesKeep

LEMMA GiveUpKeeps ==
  ASSUME LauncherInv, NEW p \in Pids, NEW from \in {"download", "verify", "unpack"}, GiveUp(p, from),
         UNCHANGED <<site, cached>>
  PROVE  Keeps
  <1>1. state[p] = from /\ state' = [state EXCEPT ![p] = "failed"] /\ Holds(p, Absent) /\ "failed" \in Places
    BY DEF GiveUp, Step, Places, Over
  <1>2. LaunchPhase(p)'
    BY <1>1, OneMoves DEF LaunchPhase
  <1>3. state[p] \notin Serving
    BY <1>1 DEF Serving, Working
  <1>4. QED BY <1>1, <1>2, <1>3, MovesKeep

LEMMA DownloadKeeps == ASSUME LauncherInv, NEW p \in Pids, Download(p) PROVE Keeps
  <1>1. CASE GiveUp(p, "download")
    BY <1>1, GiveUpKeeps DEF Download
  <1>2. CASE ~GiveUp(p, "download")
    <2>1. PICK a \in {"good", "bad"} :
            /\ state[p] = "download" /\ state' = [state EXCEPT ![p] = "verify"]
            /\ Holds(p, [unpack[p] EXCEPT !.archive = a]) /\ UNCHANGED <<site, cached>>
      BY <1>2 DEF Download, Step
    <2>2. [unpack[p] EXCEPT !.archive = a] \in Directories
      BY <2>1 DEF LauncherInv, LaunchPhase, Directories
    <2>3. "verify" \in Places /\ state[p] \notin Serving
      BY <2>1 DEF Places, Serving, Working
    <2>4. state'[p] = "verify"
      BY <2>1, <2>3, OneMoves
    <2>5. unpack'[p] = [unpack[p] EXCEPT !.archive = a]
      BY <2>1, <2>2, OneDirectory
    <2>6. LaunchPhase(p)'
      BY <2>1, <2>2, <2>4, <2>5 DEF LaunchPhase, LauncherInv
    <2>7. QED BY <2>1, <2>2, <2>3, <2>6, MovesKeep
  <1>3. QED BY <1>1, <1>2

LEMMA VerifyKeeps == ASSUME LauncherInv, NEW p \in Pids, Verify(p) PROVE Keeps
  <1>1. CASE GiveUp(p, "verify")
    BY <1>1, GiveUpKeeps DEF Verify
  <1>2. CASE ~GiveUp(p, "verify")
    <2>1. /\ state[p] = "verify" /\ state' = [state EXCEPT ![p] = "unpack"]
          /\ unpack[p].archive = "good" /\ UNCHANGED <<site, unpack, cached>>
      BY <1>2 DEF Verify, Step, IsPinned
    <2>2. "unpack" \in Places /\ state[p] \notin Serving
      BY <2>1 DEF Places, Serving, Working
    <2>3. LaunchPhase(p)'
      BY <2>1, <2>2, OneMoves DEF LaunchPhase, LauncherInv
    <2>4. QED BY <2>1, <2>2, <2>3, MovesKeep
  <1>3. QED BY <1>1, <1>2

LEMMA UnpackKeeps == ASSUME LauncherInv, NEW p \in Pids, Unpack(p) PROVE Keeps
  <1>1. CASE GiveUp(p, "unpack")
    BY <1>1, GiveUpKeeps DEF Unpack
  <1>2. CASE ~GiveUp(p, "unpack")
    <2>1. /\ state[p] = "unpack" /\ state' = [state EXCEPT ![p] = "install"]
          /\ Holds(p, [unpack[p] EXCEPT !.d2 = unpack[p].archive]) /\ UNCHANGED <<site, cached>>
      BY <1>2 DEF Unpack, Step
    <2>2. /\ [unpack[p] EXCEPT !.d2 = unpack[p].archive] \in Directories
          /\ [unpack[p] EXCEPT !.d2 = unpack[p].archive].d2 = "good"
      BY <2>1 DEF LauncherInv, LaunchPhase, Directories
    <2>3. "install" \in Places /\ state[p] \notin Serving
      BY <2>1 DEF Places, Serving, Working
    <2>4. state'[p] = "install"
      BY <2>1, <2>3, OneMoves
    <2>5. unpack'[p] = [unpack[p] EXCEPT !.d2 = unpack[p].archive]
      BY <2>1, <2>2, OneDirectory
    <2>6. LaunchPhase(p)'
      BY <2>1, <2>2, <2>4, <2>5 DEF LaunchPhase, LauncherInv
    <2>7. QED BY <2>1, <2>2, <2>3, <2>6, MovesKeep
  <1>3. QED BY <1>1, <1>2

(* The one step that writes the cache.                                     *)
LEMMA InstallKeeps == ASSUME LauncherInv, NEW p \in Pids, Install(p) PROVE Keeps
  <1>1. /\ state[p] = "install" /\ state' = [state EXCEPT ![p] = "clean"] /\ UNCHANGED site
        /\ cached' = "good" /\ site = "pinned" /\ unpack[p] \in Directories
        /\ Holds(p, [unpack[p] EXCEPT !.d2 = Absent])
    BY DEF Install, Step, LauncherInv, LaunchPhase
  <1>2. [unpack[p] EXCEPT !.d2 = Absent] \in Directories /\ "clean" \in Places
    BY <1>1 DEF Directories, Places, Working
  <1>3. /\ state' \in [Pids -> Places] /\ state'[p] = "clean"
        /\ \A q \in Pids \ {p} : state'[q] = state[q]
    BY <1>1, <1>2, OneMoves
  <1>4. /\ unpack' \in [Pids -> Directories \cup {Absent}]
        /\ \A q \in Pids \ {p} : unpack'[q] = unpack[q]
    BY <1>1, <1>2, OneDirectory
  <1>5. LauncherTypes'
    BY <1>1, <1>3, <1>4 DEF LauncherInv, LauncherTypes
  <1>6. \A q \in Pids : LaunchPhase(q)'
    BY <1>1, <1>3, <1>4 DEF LauncherInv, LaunchPhase, Provided
  <1>7. \A q \in Pids : state[q] \in Serving => state'[q] \in Serving
    BY <1>1, <1>3 DEF Serving, Working
  <1>8. QED BY <1>1, <1>5, <1>6, <1>7 DEF Keeps, LauncherInv, Provided

LEMMA CleanKeeps == ASSUME LauncherInv, NEW p \in Pids, Clean(p) PROVE Keeps
  <1>1. /\ state[p] = "clean" /\ state' = [state EXCEPT ![p] = "ready"] /\ Holds(p, Absent) /\ UNCHANGED <<site, cached>>
    BY DEF Clean, Step
  <1>2. "ready" \in Places /\ state[p] \notin Serving
    BY <1>1 DEF Places, Serving, Working
  <1>3. LaunchPhase(p)'
    BY <1>1, <1>2, OneMoves DEF LaunchPhase, LauncherInv
  <1>4. QED BY <1>1, <1>2, <1>3, MovesKeep

LEMMA ServeKeeps == ASSUME LauncherInv, NEW p \in Pids, Serve(p) PROVE Keeps
  <1>1. PICK to \in {"exit 0", "running"} :
          state[p] = "ready" /\ state' = [state EXCEPT ![p] = to] /\ UNCHANGED <<site, unpack, cached>>
    BY DEF Serve, Step
  <1>2. to \in Places /\ to \in Serving
    BY DEF Places, Serving, Working, Over
  <1>3. LaunchPhase(p)'
    BY <1>1, <1>2, OneMoves DEF LaunchPhase, LauncherInv, Provided
  <1>4. QED BY <1>1, <1>2, <1>3, MovesKeep

LEMMA KillKeeps == ASSUME LauncherInv, NEW p \in Pids, KillRun(p) PROVE Keeps
  <1>1. state' = [state EXCEPT ![p] = "killed"] /\ UNCHANGED <<site, cached>>
    BY DEF KillRun
  <1>2. unpack' = unpack \/ \E dir \in Directories \cup {Absent} : Holds(p, dir)
    <2>1. CASE unpack[p] = Absent
      BY <2>1 DEF KillRun
    <2>2. CASE unpack[p] # Absent
      <3>1. [unpack[p] EXCEPT !.archive = "partial"] \in Directories
        BY <2>2 DEF LauncherInv, LauncherTypes, Directories
      <3>2. Holds(p, [unpack[p] EXCEPT !.archive = "partial"])
        BY <2>2 DEF KillRun, Holds
      <3>3. QED BY <3>1, <3>2
    <2>3. QED BY <2>1, <2>2
  <1>3. "killed" \in Places /\ "killed" \in Serving
    BY DEF Places, Serving, Working, Over
  <1>4. LaunchPhase(p)'
    BY <1>1, <1>3, OneMoves DEF LaunchPhase
  <1>5. QED BY <1>1, <1>2, <1>3, <1>4, MovesKeep

LEMMA LaunchersKeep == ASSUME LauncherInv, NEW p \in Pids, LauncherNext(p) PROVE Keeps
  BY ResolveKeeps, TestKeeps, MkdirKeeps, DownloadKeeps, VerifyKeeps, UnpackKeeps, InstallKeeps, CleanKeeps,
     ServeKeeps, KillKeeps DEF LauncherNext

-----------------------------------------------------------------------------
(* The command that waits for them.                                        *)

(* A step of others, or one that goes to a stage without a launcher.       *)
LEMMA StaysInPhase ==
  ASSUME Inv, Keeps,
         \/ UNCHANGED <<stage, child>>
         \/ stage' \notin {"preflighting", "rendering"} /\ (stage' \in WithoutD2 \/ stage \notin WithoutD2)
  PROVE  Inv'
  <1>1. CASE UNCHANGED <<stage, child>>
    BY <1>1 DEF Inv, Keeps, CommandPhase, WithoutD2
  <1>2. CASE stage' \notin {"preflighting", "rendering"} /\ (stage' \in WithoutD2 \/ stage \notin WithoutD2)
    BY <1>2 DEF Inv, Keeps, CommandPhase
  <1>3. QED BY <1>1, <1>2

LEMMA SpawnKeepsInv ==
  ASSUME Inv, NEW w \in BOOLEAN,
         Spawn("preflight", "preflighting", w) \/ Spawn("render", "rendering", w)
  PROVE  Inv'
  <1>1. PICK p \in Pids : /\ Launch(p, w) /\ child' = p
                          /\ \/ stage = "preflight" /\ stage' = "preflighting"
                             \/ stage = "render" /\ stage' = "rendering"
    BY DEF Spawn, Goes
  <1>2. Keeps
    BY <1>1, LaunchKeeps DEF Inv
  <1>3. state'[p] \in Serving
    BY <1>1, OneMoves DEF Inv, Launch, Step, Serving, Places, Working
  <1>4. QED BY <1>1, <1>2, <1>3 DEF Inv, Keeps, CommandPhase, WithoutD2

LEMMA PreflightKeepsInv == ASSUME Inv, Preflight PROVE Inv'
  <1>1. child \in Pids /\ Keeps
    BY ReapKeeps DEF Preflight, Inv, CommandPhase
  <1>2. CASE stage' \in WithoutD2 \ {"preflighting"}
    BY <1>1, <1>2, StaysInPhase DEF WithoutD2
  <1>3. CASE stage' \notin WithoutD2 \ {"preflighting"}
    <2>1. stage' = "read" /\ state[child] = "exit 0"
      BY <1>3 DEF Preflight, PreflightProblems, D2Problem, Exits, WithoutD2
    <2>2. Provided
      BY <1>1, <2>1 DEF Inv, LauncherInv, LaunchPhase
    <2>3. QED BY <1>1, <2>1, <2>2 DEF Inv, Keeps, CommandPhase
  <1>4. QED BY <1>2, <1>3

LEMMA RenderKeepsInv == ASSUME Inv, RenderDiagram PROVE Inv'
  <1>1. child \in Pids /\ Keeps /\ stage = "rendering" /\ stage' = "render"
    BY ReapKeeps DEF RenderDiagram, Inv, CommandPhase
  <1>2. QED BY <1>1, StaysInPhase DEF WithoutD2

(* Every other step of a command leaves the launchers alone.               *)
LEMMA AloneKeepsInv ==
  ASSUME Inv,
         \/ \E k \in {"check", "build"} : Command(k)
         \/ Read \/ Measure \/ DrawFailed \/ Inline \/ FindHeading \/ ExtendGroup \/ KeepHeading
         \/ PrintPdf \/ RasterizePages \/ Finally \/ Throw \/ KillCommand
  PROVE  Inv'
  <1>1. UNCHANGED launcherVars
    BY DEF Command, Read, Measure, DrawFailed, Inline, FindHeading, ExtendGroup, KeepHeading, PrintPdf, RasterizePages,
       Finally, Throw, KillCommand, Alone
  <1>2. stage' \notin {"preflighting", "rendering"} /\ (stage' \in WithoutD2 \/ stage \notin WithoutD2)
    <2>1. CASE \E k \in {"check", "build"} : Command(k)
      BY <2>1 DEF Command, WithoutD2
    <2>2. CASE Read \/ Inline
      BY <2>2 DEF Read, Inline, Fail, Exits, Goes, WithoutD2
    <2>3. CASE Measure
      BY <2>3 DEF Measure, Checked, Fail, Exits, WithoutD2
    <2>4. CASE DrawFailed \/ Throw
      BY <2>4 DEF DrawFailed, Throw, Exits, WithoutD2
    <2>5. CASE FindHeading \/ ExtendGroup \/ KeepHeading
      BY <2>5 DEF FindHeading, ExtendGroup, KeepHeading, Exits, Goes, WithoutD2
    <2>6. CASE PrintPdf \/ RasterizePages
      BY <2>6 DEF PrintPdf, RasterizePages, Fail, Exits, Goes, WithoutD2
    <2>7. CASE Finally \/ KillCommand
      BY <2>7 DEF Finally, KillCommand, Goes, WithoutD2
    <2>8. QED BY <2>1, <2>2, <2>3, <2>4, <2>5, <2>6, <2>7
  <1>3. QED BY <1>1, <1>2, NothingKeeps, StaysInPhase DEF Inv

LEMMA StepKeepsInv == ASSUME Inv, [FiguraNext]_figuraVars PROVE Inv'
  <1>1. CASE UNCHANGED figuraVars
    BY <1>1, NothingKeeps, StaysInPhase DEF figuraVars, buildVars, Inv
  <1>2. CASE BuildNext
    BY <1>2, SpawnKeepsInv, PreflightKeepsInv, RenderKeepsInv, AloneKeepsInv DEF BuildNext, CommandStep
  <1>3. ASSUME NEW p \in Pids, LaunchOther(p) PROVE Inv'
    BY <1>3, LaunchKeeps, StaysInPhase DEF LaunchOther, buildVars, Inv
  <1>4. ASSUME NEW p \in Pids, Launcher(p) PROVE Inv'
    BY <1>4, LaunchersKeep, ReapKeeps, StaysInPhase DEF Launcher, ReapOther, buildVars, Inv
  <1>5. QED BY <1>1, <1>2, <1>3, <1>4 DEF FiguraNext

THEOREM InvHolds == FiguraSpec => []Inv
  BY InvInitially, StepKeepsInv, PTL DEF FiguraSpec

-----------------------------------------------------------------------------
(* The d2 in the cache, which any launcher may install while others run    *)
(* it, is the pinned one, and so is every d2 that runs.                    *)
THEOREM PinnedD2Runs == FiguraSpec => []OnlyPinnedD2Runs
  <1>1. Inv => OnlyPinnedD2Runs
    BY AbsentIsNothing DEF Inv, LauncherInv, LauncherTypes, LaunchPhase, OnlyPinnedD2Runs
  <1>2. QED BY <1>1, InvHolds, PTL

(* Once preflight has passed no launcher of a diagram downloads d2 or      *)
(* fails to provide it, whatever other commands do to the cache.           *)
THEOREM PreflightIsEnough == FiguraSpec => []PreflightSuffices
  <1>1. Inv => PreflightSuffices
    BY DEF Inv, CommandPhase, Serving, PreflightSuffices
  <1>2. QED BY <1>1, InvHolds, PTL

-----------------------------------------------------------------------------
(* Positions in order: the rank of a position in a set of them.            *)
LEMMA LeastNat ==
    ASSUME NEW W \in SUBSET Nat, W # {}
    PROVE  \E n \in W : \A m \in W : n <= m
  <1>1. \A x, y \in Nat : y < x => <<y, x>> \in OpToRel(<, Nat)
    <2> SUFFICES ASSUME NEW x \in Nat, NEW y \in Nat, y < x
                 PROVE  <<y, x>> \in {ss \in Nat \X Nat : ss[1] < ss[2]}
      BY Zenon DEF OpToRel
    <2> QED OBVIOUS
  <1>2. PICK x \in W : \A y \in W : ~ (<<y, x>> \in OpToRel(<, Nat))
    BY NatLessThanWellFounded, WFMin
  <1>3. \A y \in W : ~ (y < x)
    BY <1>1, <1>2, Zenon
  <1> QED BY <1>3

LEMMA MinIsLeast == ASSUME NEW S \in SUBSET Nat, S # {} PROVE Min(S) \in S /\ \A x \in S : Min(S) <= x
  <1>1. \E x \in S : \A y \in S : x <= y
    BY LeastNat
  <1> QED BY <1>1 DEF Min

Rank(S, i) == Cardinality({j \in S : j <= i})

LEMMA Ranks ==
  ASSUME NEW S \in SUBSET Nat, IsFiniteSet(S)
  PROVE  /\ IsFiniteSet(S) /\ Cardinality(S) \in Nat
         /\ \A i \in S : Rank(S, i) \in 1..Cardinality(S)
         /\ \A i, j \in S : i < j => Rank(S, i) < Rank(S, j)
  <1>1. IsFiniteSet(S) /\ Cardinality(S) \in Nat
    BY FS_CardinalityType
  <1>2. ASSUME NEW i \in S PROVE Rank(S, i) \in 1..Cardinality(S)
    <2> DEFINE T == {j \in S : j <= i}
    <2>1. T \in SUBSET S /\ i \in T
      OBVIOUS
    <2>2. IsFiniteSet(T) /\ Cardinality(T) <= Cardinality(S) /\ Cardinality(T) \in Nat
      BY <1>1, <2>1, FS_Subset, FS_CardinalityType
    <2>3. Cardinality(T) # 0
      BY <2>1, <2>2, FS_EmptySet
    <2> QED BY <1>1, <2>2, <2>3 DEF Rank
  <1>3. ASSUME NEW i \in S, NEW j \in S, i < j PROVE Rank(S, i) < Rank(S, j)
    <2> DEFINE T == {k \in S : k <= i}
               U == {k \in S : k <= j}
    <2>5. \A k \in S : k \in Int
      OBVIOUS
    <2>6. \A k \in S : k <= i => k <= j
      BY <1>3, <2>5
    <2>7. j \in U /\ j \notin T
      BY <1>3, <2>5
    <2>1. T \in SUBSET U /\ j \in U /\ j \notin T /\ U \in SUBSET S
      BY <2>6, <2>7
    <2>2. IsFiniteSet(U)
      BY <1>1, <2>1, FS_Subset
    <2>3. Cardinality(T) <= Cardinality(U) /\ Cardinality(T) # Cardinality(U)
      BY <2>1, <2>2, FS_Subset
    <2>4. Cardinality(T) \in Nat /\ Cardinality(U) \in Nat
      BY <1>2 DEF Rank
    <2> QED BY <2>3, <2>4 DEF Rank
  <1> QED BY <1>1, <1>2, <1>3

(* The k-th position has rank k, and there is one for each k.              *)
LEMMA NthHasRank ==
  ASSUME NEW S \in SUBSET Nat, IsFiniteSet(S), NEW k \in 1..Cardinality(S)
  PROVE  Nth(S, k) \in S /\ Rank(S, Nth(S, k)) = k
  <1> DEFINE N == 1..Cardinality(S)
             f == [i \in S |-> Rank(S, i)]
  <1>1. IsFiniteSet(S) /\ Cardinality(S) \in Nat
    BY Ranks
  <1>2. f \in [S -> N] /\ \A i, j \in S : f[i] = f[j] => i = j
    <2>1. f \in [S -> N]
      BY Ranks
    <2>2. ASSUME NEW i \in S, NEW j \in S, f[i] = f[j] PROVE i = j
      <3>1. ~(i < j) /\ ~(j < i)
        BY <1>1, <2>2, Ranks
      <3> QED BY <3>1
    <2> QED BY <2>1, <2>2
  <1>3. f \in Injection(S, N)
    BY <1>2 DEF Injection, IsInjective
  <1>4. IsFiniteSet(N) /\ Cardinality(N) = Cardinality(S)
    BY <1>1, FS_Interval
  <1>5. f \in Surjection(S, N)
    BY <1>3, <1>4, FS_Injection
  <1>6. \E i \in S : Rank(S, i) = k
    BY <1>5 DEF Surjection
  <1> QED BY <1>6 DEF Nth, Rank

LEMMA NthOfRank ==
  ASSUME NEW S \in SUBSET Nat, IsFiniteSet(S), NEW i \in S
  PROVE  Rank(S, i) \in 1..Cardinality(S) /\ Nth(S, Rank(S, i)) = i
  <1>1. Rank(S, i) \in 1..Cardinality(S)
    BY Ranks
  <1>2. Nth(S, Rank(S, i)) \in S /\ Rank(S, Nth(S, Rank(S, i))) = Rank(S, i)
    BY <1>1, NthHasRank
  <1>3. \A a, b \in S : a < b => Rank(S, a) < Rank(S, b)
    BY Ranks
  <1>4. ASSUME NEW a \in S, Rank(S, a) = Rank(S, i) PROVE a = i
    <2>1. ~(a < i) /\ ~(i < a)
      BY <1>1, <1>3, <1>4
    <2>2. a \in Nat /\ i \in Nat
      OBVIOUS
    <2> QED BY <2>1, <2>2
  <1> QED BY <1>1, <1>2, <1>4

LEMMA NthAscends ==
  ASSUME NEW S \in SUBSET Nat, IsFiniteSet(S), NEW k \in 1..Cardinality(S), NEW m \in 1..Cardinality(S), k < m
  PROVE  Nth(S, k) < Nth(S, m)
  <1>1. /\ Nth(S, k) \in S /\ Rank(S, Nth(S, k)) = k
        /\ Nth(S, m) \in S /\ Rank(S, Nth(S, m)) = m
    BY NthHasRank
  <1>2. Cardinality(S) \in Nat /\ (Nth(S, m) < Nth(S, k) => m < k)
    BY <1>1, Ranks
  <1>3. Nth(S, k) \in Nat /\ Nth(S, m) \in Nat
    BY <1>1
  <1>4. Nth(S, k) # Nth(S, m)
    BY <1>1, <1>2
  <1> QED BY <1>2, <1>3, <1>4

(* Positions that correspond in order have the same ranks.                 *)
InOrder(f, S, T) == /\ f \in [S -> T] /\ \A t \in T : \E i \in S : f[i] = t
                    /\ \A i, j \in S : i < j => f[i] < f[j]

LEMMA Corresponding ==
  ASSUME NEW S \in SUBSET Nat, IsFiniteSet(S), NEW T \in SUBSET Nat, IsFiniteSet(T), NEW f, InOrder(f, S, T)
  PROVE  Cardinality(S) = Cardinality(T) /\ \A k \in 1..Cardinality(S) : Nth(T, k) = f[Nth(S, k)]
  <1>1. \A i, j \in S : f[i] <= f[j] <=> i <= j
    <2>1. \A i, j \in S : i < j => f[i] < f[j]
      BY DEF InOrder
    <2>2. \A i \in S : f[i] \in Nat /\ i \in Nat
      BY DEF InOrder
    <2> QED BY <2>1, <2>2
  <1>2. ASSUME NEW A \in SUBSET S
        PROVE  Cardinality({f[i] : i \in A}) = Cardinality(A)
    <2> DEFINE B == {f[i] : i \in A}
               g == [i \in A |-> f[i]]
    <2>1. g \in Bijection(A, B)
      <3>1. g \in [A -> B] /\ \A b \in B : \E i \in A : g[i] = b
        OBVIOUS
      <3>2. \A i, j \in A : g[i] = g[j] => i = j
        <4> SUFFICES ASSUME NEW i \in A, NEW j \in A, g[i] = g[j] PROVE i = j
          OBVIOUS
        <4>1. i <= j /\ j <= i
          BY <1>1
        <4>2. i \in Nat /\ j \in Nat
          OBVIOUS
        <4> QED BY <4>1, <4>2
      <3> QED BY <3>1, <3>2 DEF Bijection, Injection, Surjection, IsInjective
    <2>2. IsFiniteSet(A)
      BY Ranks, FS_Subset
    <2> QED BY <2>1, <2>2, FS_Bijection DEF ExistsBijection
  <1>3. Cardinality(S) = Cardinality(T)
    <2>1. T = {f[i] : i \in S}
      BY DEF InOrder
    <2> QED BY <1>2, <2>1
  <1>4. ASSUME NEW i \in S PROVE Rank(T, f[i]) = Rank(S, i)
    <2> DEFINE A == {j \in S : j <= i}
    <2>1. \A t \in T : t <= f[i] <=> \E j \in A : t = f[j]
      BY <1>1 DEF InOrder
    <2>3. {t \in T : t <= f[i]} = {f[j] : j \in A}
      BY <2>1 DEF InOrder
    <2> QED BY <1>2, <2>3 DEF Rank
  <1>5. ASSUME NEW k \in 1..Cardinality(S) PROVE Nth(T, k) = f[Nth(S, k)]
    <2>1. Nth(S, k) \in S /\ Rank(S, Nth(S, k)) = k
      BY NthHasRank
    <2>2. Rank(T, f[Nth(S, k)]) = k /\ f[Nth(S, k)] \in T
      BY <1>4, <2>1 DEF InOrder
    <2> QED BY <2>2, NthOfRank
  <1> QED BY <1>3, <1>5

LEMMA PickedAgree ==
  ASSUME NEW S \in SUBSET Nat, IsFiniteSet(S), NEW T \in SUBSET Nat, IsFiniteSet(T), NEW f, InOrder(f, S, T),
         NEW a, NEW b, \A i \in S : a[i] = b[f[i]]
  PROVE  Picked(a, S) = Picked(b, T)
  <1>1. Cardinality(S) = Cardinality(T) /\ \A k \in 1..Cardinality(S) : Nth(T, k) = f[Nth(S, k)]
    BY Corresponding, Zenon
  <1>2. \A k \in 1..Cardinality(S) : a[Nth(S, k)] = b[Nth(T, k)]
    BY <1>1, NthHasRank
  <1> QED BY <1>1, <1>2 DEF Picked

(* A sequence of picked positions: its places are their ranks.             *)
LEMMA PickedPlaces ==
  ASSUME NEW S \in SUBSET Nat, IsFiniteSet(S), NEW a
  PROVE  LET p == Picked(a, S) IN
         /\ Len(p) = Cardinality(S) /\ Len(p) \in Nat /\ DOMAIN p = 1..Len(p)
         /\ \A k \in DOMAIN p : Nth(S, k) \in S /\ p[k] = a[Nth(S, k)]
         /\ \A i \in S : Rank(S, i) \in DOMAIN p /\ Nth(S, Rank(S, i)) = i /\ p[Rank(S, i)] = a[i]
  <1> DEFINE n == Cardinality(S)
             value(k) == a[Nth(S, k)]
             p == [k \in 1..n |-> value(k)]
  <1>1. n \in Nat
    BY FS_CardinalityType
  <1>2. Picked(a, S) = p
    BY DEF Picked
  <1>3. Len(p) = n /\ DOMAIN p = 1..n
    <2> HIDE DEF n, value
    <2> QED BY <1>1
  <1>4. \A k \in 1..n : Nth(S, k) \in S /\ p[k] = a[Nth(S, k)]
    BY NthHasRank
  <1>5. ASSUME NEW i \in S PROVE Rank(S, i) \in 1..n /\ Nth(S, Rank(S, i)) = i /\ p[Rank(S, i)] = a[i]
    BY NthOfRank
  <1> QED BY <1>1, <1>2, <1>3, <1>4, <1>5

-----------------------------------------------------------------------------
(* The diagrams of a document and where they stand.                        *)
Written(content) ==
  /\ Len(content) \in Nat /\ DOMAIN content = 1..Len(content)
  /\ \A i \in DOMAIN content :
      /\ content[i][1] \notin {"svg", "style"}
      /\ content[i][1] = "d2" => content[i][2] \in DOMAIN Diagram /\ i > 1 /\ content[i - 1] = <<"open", "pre">> /\ (i < Len(content) => content[i + 1] = <<"close", "pre">>)
      /\ content[i][1] = "code" => content[i] = <<"code", content[i][2]>>
                                 /\ \A k \in DOMAIN content[i][2] : content[i][2][k] = <<content[i][2][k][1], content[i][2][k][2]>>

LEMMA ContentsAreWritten == ASSUME NEW content \in Contents PROVE Written(content)
  BY DocumentsAreFinite, DocumentsAreWritten DEF Written

LEMMA SpansOfDiagrams ==
  ASSUME NEW content \in Contents
  PROVE  LET found == ExtractDiagrams(content) IN
         /\ Len(found) \in Nat /\ DOMAIN found = 1..Len(found)
         /\ \A k \in DOMAIN found : found[k].ordinal = k
         /\ \A k \in DOMAIN found : LET i == found[k].span[1] IN
              /\ i \in 1..Len(content) /\ i + 1 \in 1..Len(content) /\ i + 2 \in 1..Len(content) /\ found[k].span[2] = i + 2
              /\ content[i] = <<"open", "pre">> /\ content[i + 2] = <<"close", "pre">>
              /\ content[i + 1][1] = "d2" /\ content[i + 1][2] = found[k].source
         /\ \A j, k \in DOMAIN found : j < k => found[j].span[1] < found[k].span[1]
  <1> DEFINE end(i) == {j \in i..Len(content) : content[j] = <<"close", "pre">>}
             pres == {i \in 1..(Len(content) - 1) : content[i] = <<"open", "pre">>}
             starts == {i \in pres : content[i + 1][1] = "d2" /\ end(i) # {} /\ \A j \in pres : j < i => \E c \in end(j) : c < i}
             n == Cardinality(starts)
             diagram(k) == LET i == Nth(starts, k) IN [ordinal |-> k, source |-> content[i + 1][2], span |-> <<i, Min(end(i))>>]
             found == [k \in 1..n |-> diagram(k)]
  <1>1. Written(content)
    BY ContentsAreWritten
  <1>2. starts \in SUBSET (1..Len(content)) /\ IsFiniteSet(1..Len(content))
    BY <1>1, FS_Interval DEF Written
  <1>3. starts \in SUBSET Nat /\ IsFiniteSet(starts) /\ n \in Nat
    BY <1>2, FS_Subset, FS_CardinalityType
  <1>4. ExtractDiagrams(content) = found
    BY DEF ExtractDiagrams
  <1>5. Len(found) = n /\ DOMAIN found = 1..n
    <2> HIDE DEF n, diagram
    <2> QED BY <1>3
  <1>6. \A k \in 1..n : Nth(starts, k) \in starts
    BY <1>3, NthHasRank
  <1>7. \A j, k \in 1..n : j < k => Nth(starts, j) < Nth(starts, k)
    BY <1>3, NthAscends
  <1>8. ASSUME NEW i \in starts
        PROVE  /\ i \in 1..Len(content) /\ i + 1 \in 1..Len(content) /\ i + 2 \in 1..Len(content) /\ Min(end(i)) = i + 2
               /\ content[i] = <<"open", "pre">> /\ content[i + 2] = <<"close", "pre">> /\ content[i + 1][1] = "d2"
    <2>1. /\ i \in 1..(Len(content) - 1) /\ content[i] = <<"open", "pre">> /\ content[i + 1][1] = "d2" /\ end(i) # {}
          /\ Len(content) \in Nat
      BY <1>1 DEF Written
    <2>2. PICK j \in i..Len(content) : content[j] = <<"close", "pre">>
      BY <2>1
    <2>3. j # i /\ j # i + 1
      BY <2>1, <2>2
    <2>4. i + 2 \in 1..Len(content) /\ content[i + 2] = <<"close", "pre">>
      <3>1. i + 1 \in 1..Len(content) /\ i + 1 < Len(content)
        BY <2>1, <2>2, <2>3
      <3> QED BY <1>1, <2>1, <3>1 DEF Written
    <2>5. i + 2 \in end(i) /\ i \notin end(i) /\ i + 1 \notin end(i) /\ end(i) \in SUBSET Nat
      BY <2>1, <2>4
    <2>6. Min(end(i)) \in end(i) /\ \A x \in end(i) : Min(end(i)) <= x
      BY <2>5, MinIsLeast
    <2>7. \A x \in end(i) : x >= i
      BY <2>1
    <2>8. Min(end(i)) = i + 2
      <3> DEFINE m == Min(end(i))
      <3> HIDE DEF end
      <3>1. m \in Nat /\ m >= i /\ m <= i + 2 /\ m # i /\ m # i + 1
        BY <2>5, <2>6, <2>7
      <3> QED BY <2>1, <3>1
    <2> QED BY <2>1, <2>4, <2>8
  <1> HIDE DEF starts, n
  <1>9. ASSUME NEW k \in 1..n PROVE /\ found[k].ordinal = k /\ found[k].span[1] = Nth(starts, k)
                                    /\ found[k].span[2] = Min(end(Nth(starts, k)))
                                    /\ found[k].source = content[Nth(starts, k) + 1][2]
    <2> HIDE DEF end
    <2> QED OBVIOUS
  <1> HIDE DEF end, found
  <1>10. ASSUME NEW k \in 1..n
         PROVE  LET i == found[k].span[1] IN
                /\ i \in 1..Len(content) /\ i + 1 \in 1..Len(content) /\ i + 2 \in 1..Len(content) /\ found[k].span[2] = i + 2
                /\ content[i] = <<"open", "pre">> /\ content[i + 2] = <<"close", "pre">>
                /\ content[i + 1][1] = "d2" /\ content[i + 1][2] = found[k].source
    BY <1>6, <1>8, <1>9
  <1>11. Len(found) \in Nat /\ DOMAIN found = 1..Len(found)
    BY <1>3, <1>5
  <1>12. \A k \in DOMAIN found : found[k].ordinal = k
    BY <1>5, <1>9
  <1>13. \A k \in DOMAIN found : LET i == found[k].span[1] IN
           /\ i \in 1..Len(content) /\ i + 1 \in 1..Len(content) /\ i + 2 \in 1..Len(content) /\ found[k].span[2] = i + 2
           /\ content[i] = <<"open", "pre">> /\ content[i + 2] = <<"close", "pre">>
           /\ content[i + 1][1] = "d2" /\ content[i + 1][2] = found[k].source
    BY <1>5, <1>10
  <1>14. \A j, k \in DOMAIN found : j < k => found[j].span[1] < found[k].span[1]
    BY <1>5, <1>7, <1>9
  <1> QED BY <1>4, <1>11, <1>12, <1>13, <1>14, Zenon

-----------------------------------------------------------------------------
(* What a command leaves behind.                                           *)

Started == {"preflight", "preflighting"}
Busy    == {"read", "render", "rendering", "draw", "inline", "search", "group", "print", "rasterize"}

(* The diagrams that d2 draws.                                             *)
Renders(k) == Diagram[Diagrams[k].source].renders
Drawable   == {Diagrams[k] : k \in {j \in DOMAIN Diagrams : Renders(j)}}

BuildTypes ==
  /\ verb \in {"check", "build"} /\ status \in {Absent, "0", "1", "uncaught", "killed"}
  /\ stage \in Started \cup Busy \cup {"finally", "over"}
  /\ DOMAIN files = {"pdf", "previews", "failed", "work"} /\ files.work \in BOOLEAN
  /\ rendered \in Seq(Drawable)

(* What the stages on the way may count on.                                *)
OnTheWay ==
  /\ stage \in Started => html = <<>> /\ ~files.work /\ status = Absent
  /\ stage \in Busy => files.work /\ files.failed = {} /\ status = Absent
  /\ stage \in Started \cup (Busy \ {"rasterize"}) /\ verb = "build" => files.pdf = Absent
  /\ stage \in {"inline", "search", "group", "print", "rasterize"} => verb = "build"
  /\ stage = "rasterize" => files.pdf = page

(* The problems of what was rendered are those of diagrams d2 draws.       *)
OfTheRendered ==
  /\ stage \in Started \cup {"over", "read"} => rendered = <<>> /\ problems = {}
  /\ stage \in {"render", "rendering"} => html \in Contents /\ index \in Nat /\ index > 0 /\ \A x \in problems : x[2] = "D2-FAILED"
  /\ stage = "rendering" => index \in DOMAIN Diagrams
  /\ stage = "draw" => \A k \in WithLayoutProblem : Renders(k)

(* What an exit status says, already when only the finally is left.        *)
AtTheEnd ==
  /\ stage = "over" /\ status \in {"0", "1", "uncaught"} => ~files.work
  /\ stage \in {"finally", "over"} =>
       /\ status = "0" => files.failed = {} /\ (verb = "build" => files.pdf = page /\ files.previews = Pages)
       /\ status = "1" /\ verb = "build" => files.pdf = Absent
       /\ status = "1" /\ html # <<>> => \A k \in files.failed : Renders(k)

OutcomeInv == BuildTypes /\ OnTheWay /\ OfTheRendered /\ AtTheEnd

LEMMA DiagramsAreNumbered ==
  ASSUME html \in Contents
  PROVE  /\ Len(Diagrams) \in Nat /\ DOMAIN Diagrams = 1..Len(Diagrams)
         /\ \A k \in DOMAIN Diagrams : Diagrams[k].ordinal = k
  BY SpansOfDiagrams DEF Diagrams

LEMMA OutcomeInitially == FiguraInit => OutcomeInv
  BY AbsentIsNoStatus DEF FiguraInit, BuildInit, NoFiles, OutcomeInv, BuildTypes, OnTheWay, OfTheRendered, AtTheEnd,
     Started, Busy

LEMMA NothingIsDrawn == \A S : <<>> \in Seq(S)
  OBVIOUS

(* The stages from which a command may end, and how it ends.               *)
LEMMA ExitIsOver ==
  ASSUME OutcomeInv, stage \in {"preflighting"} \cup Busy, NEW code \in {"0", "1", "uncaught"}, Exits(code)
  PROVE  /\ stage' \in {"finally", "over"} /\ status' = code /\ (stage' = "over" => ~files.work)
         /\ stage \in Busy => stage' = "finally"
  BY DEF OutcomeInv, BuildTypes, OnTheWay, Exits

LEMMA LaunchersLeaveOutcome ==
  ASSUME OutcomeInv, UNCHANGED buildVars
  PROVE  OutcomeInv'
  <1>1. /\ UNCHANGED <<verb, stage, html, index, rendered, problems, page, files, status>>
        /\ Diagrams' = Diagrams
    BY DEF buildVars, Diagrams
  <1>2. BuildTypes'
    BY <1>1 DEF OutcomeInv, BuildTypes, Drawable, Renders
  <1>3. OnTheWay'
    BY <1>1 DEF OutcomeInv, OnTheWay
  <1>4. OfTheRendered'
    BY <1>1 DEF OutcomeInv, OfTheRendered, WithLayoutProblem, Renders
  <1>5. AtTheEnd'
    BY <1>1 DEF OutcomeInv, AtTheEnd, Renders
  <1>6. QED BY <1>2, <1>3, <1>4, <1>5 DEF OutcomeInv

LEMMA CommandStarts == ASSUME OutcomeInv, NEW k \in {"check", "build"}, Command(k) PROVE OutcomeInv'
  <1>1. rendered = <<>> /\ problems = {}
    BY DEF OutcomeInv, OfTheRendered, Command
  <1>2. BuildTypes'
    BY <1>1, NothingIsDrawn DEF OutcomeInv, BuildTypes, Command, NoFiles, ClearPreviews, Started
  <1>3. OnTheWay'
    BY DEF OutcomeInv, BuildTypes, OnTheWay, Command, NoFiles, ClearPreviews, Started, Busy
  <1>4. OfTheRendered' /\ AtTheEnd'
    BY <1>1 DEF OfTheRendered, AtTheEnd, Command, Started
  <1>5. QED BY <1>2, <1>3, <1>4 DEF OutcomeInv

LEMMA SpawnLeavesOutcome ==
  ASSUME OutcomeInv, \/ Spawn("preflight", "preflighting", TRUE)
                     \/ index <= Len(Diagrams) /\ Spawn("render", "rendering", FALSE)
  PROVE  OutcomeInv'
  <1>1. UNCHANGED <<verb, html, index, rendered, problems, page, kept, files, status>> /\ Diagrams' = Diagrams
    BY DEF Spawn, Data, Diagrams
  <1>2. \/ stage = "preflight" /\ stage' = "preflighting"
        \/ stage = "render" /\ stage' = "rendering" /\ index <= Len(Diagrams)
    BY DEF Spawn, Goes
  <1>3. stage' = "rendering" => index \in DOMAIN Diagrams
    BY <1>2, DiagramsAreNumbered DEF OutcomeInv, OfTheRendered
  <1>4. BuildTypes'
    BY <1>1, <1>2 DEF OutcomeInv, BuildTypes, Drawable, Renders, Started, Busy
  <1>5. OnTheWay'
    BY <1>1, <1>2 DEF OutcomeInv, OnTheWay, Started, Busy
  <1>6. OfTheRendered' /\ AtTheEnd'
    BY <1>1, <1>2, <1>3 DEF OutcomeInv, OfTheRendered, AtTheEnd, Started
  <1>7. QED BY <1>4, <1>5, <1>6 DEF OutcomeInv

LEMMA PreflightOutcome == ASSUME OutcomeInv, Preflight PROVE OutcomeInv'
  <1>1. UNCHANGED <<verb, html, index, rendered, problems, page, kept>> /\ Diagrams' = Diagrams /\ stage = "preflighting"
    BY DEF Preflight, Data, Diagrams
  <1>2. \/ stage' = "read" /\ UNCHANGED status /\ files' = [ClearFailedDiagramPreviews(files) EXCEPT !.work = TRUE]
        \/ stage' = "over" /\ status' = "1" /\ UNCHANGED files /\ ~files.work
    BY DEF OutcomeInv, OnTheWay, Started, Preflight, Exits
  <1>3. BuildTypes'
    BY <1>1, <1>2 DEF ClearFailedDiagramPreviews, OutcomeInv, BuildTypes, Drawable, Renders, Started, Busy
  <1>4. OnTheWay'
    BY <1>1, <1>2 DEF ClearFailedDiagramPreviews, OutcomeInv, BuildTypes, OnTheWay, Started, Busy
  <1>5. OfTheRendered' /\ AtTheEnd'
    BY <1>1, <1>2 DEF ClearFailedDiagramPreviews, OutcomeInv, OnTheWay, OfTheRendered, AtTheEnd, Started
  <1>6. QED BY <1>3, <1>4, <1>5 DEF OutcomeInv

(* A way out of the busy stages leaves what the status says.               *)
LEMMA LeavingOutcome ==
  ASSUME OutcomeInv, stage \in Busy, UNCHANGED <<verb, html, page>>, rendered' \in Seq(Drawable),
         NEW code \in {"0", "1", "uncaught"}, stage' = "finally", status' = code,
         DOMAIN files' = {"pdf", "previews", "failed", "work"}, files'.work \in BOOLEAN,
         code = "0" => files'.failed = {} /\ (verb = "build" => files'.pdf = page /\ files'.previews = Pages),
         code = "1" /\ verb = "build" => files'.pdf = Absent,
         code = "1" => \A k \in files'.failed : Renders(k)
  PROVE  OutcomeInv'
  <1>1. Diagrams' = Diagrams /\ (code = "0" \/ code = "1" \/ code = "uncaught")
    BY DEF Diagrams
  <1>2. BuildTypes'
    BY <1>1 DEF OutcomeInv, BuildTypes, Drawable, Renders
  <1>3. OnTheWay' /\ OfTheRendered'
    BY DEF OnTheWay, OfTheRendered, Started, Busy
  <1>4. AtTheEnd'
    BY <1>1 DEF AtTheEnd, Renders
  <1>5. QED BY <1>2, <1>3, <1>4 DEF OutcomeInv

LEMMA FailingOutcome ==
  ASSUME OutcomeInv, stage \in Busy, UNCHANGED verb, NEW left, Fail(left), left.failed = {},
         DOMAIN left = {"pdf", "previews", "failed", "work"}, left.work = files.work
  PROVE  OutcomeInv'
  <1>1. stage' = "finally" /\ status' = "1" /\ UNCHANGED Data
    BY ExitIsOver DEF Fail
  <1>2. /\ DOMAIN files' = {"pdf", "previews", "failed", "work"} /\ files'.work = files.work /\ files'.failed = {}
        /\ verb = "build" => files'.pdf = Absent
    BY DEF Fail
  <1>3. rendered' \in Seq(Drawable) /\ files.work \in BOOLEAN /\ UNCHANGED <<html, page>>
    BY <1>1 DEF OutcomeInv, BuildTypes, Data
  <1>4. QED BY <1>1, <1>2, <1>3, LeavingOutcome

LEMMA ReadOutcome == ASSUME OutcomeInv, Read PROVE OutcomeInv'
  <1>1. stage = "read" /\ stage \in Busy /\ UNCHANGED verb
    BY DEF Read, Alone, Busy
  <1>2. \/ Exits("uncaught") /\ UNCHANGED <<Data, files>>
        \/ Fail(files)
        \/ \E content \in Contents : /\ Goes("read", "render") /\ html' = content /\ index' = 1
                                     /\ UNCHANGED <<rendered, problems, page, groupEnd, kept, files, status>>
    BY DEF Read
  <1>5. CASE Exits("uncaught") /\ UNCHANGED <<Data, files>>
    <2>1. stage' = "finally" /\ status' = "uncaught" /\ UNCHANGED <<html, page, rendered>>
      BY <1>1, <1>5, ExitIsOver DEF Data
    <2>2. rendered \in Seq(Drawable) /\ DOMAIN files = {"pdf", "previews", "failed", "work"} /\ files.work \in BOOLEAN
      BY DEF OutcomeInv, BuildTypes
    <2>3. QED BY <1>1, <1>5, <2>1, <2>2, LeavingOutcome
  <1>3. CASE Fail(files)
    BY <1>1, <1>3, FailingOutcome DEF OutcomeInv, BuildTypes, OnTheWay
  <1>4. CASE \E content \in Contents : /\ Goes("read", "render") /\ html' = content /\ index' = 1
                                      /\ UNCHANGED <<rendered, problems, page, groupEnd, kept, files, status>>
    <2>1. rendered = <<>> /\ problems = {}
      BY <1>1 DEF OutcomeInv, OfTheRendered
    <2>2. BuildTypes'
      BY <1>1, <1>4, <2>1, NothingIsDrawn DEF OutcomeInv, BuildTypes, Goes, Busy
    <2>3. OnTheWay'
      BY <1>1, <1>4 DEF OutcomeInv, OnTheWay, Goes, Started, Busy
    <2>4. OfTheRendered' /\ AtTheEnd'
      BY <1>4, <2>1 DEF OfTheRendered, AtTheEnd, Goes, Started
    <2>5. QED BY <2>2, <2>3, <2>4 DEF OutcomeInv
  <1>6. QED BY <1>2, <1>3, <1>4, <1>5

LEMMA RenderOutcome == ASSUME OutcomeInv, RenderDiagram PROVE OutcomeInv'
  <1>1. /\ stage = "rendering" /\ stage' = "render" /\ index' = index + 1 /\ UNCHANGED <<verb, html, page, files, status>>
        /\ Diagrams' = Diagrams
    BY DEF RenderDiagram, Diagrams
  <1>2. index \in DOMAIN Diagrams /\ index \in Nat /\ index > 0 /\ html \in Contents
    BY <1>1 DEF OutcomeInv, OfTheRendered
  <1>3. \/ /\ Diagram[Diagrams[index].source].renders
           /\ rendered' = Append(rendered, Diagrams[index]) /\ UNCHANGED problems
        \/ problems' = problems \cup {<<index, "D2-FAILED">>} /\ UNCHANGED rendered
    BY DEF RenderDiagram
  <1>4. rendered' \in Seq(Drawable) /\ Drawable' = Drawable
    <2>1. rendered \in Seq(Drawable)
      BY DEF OutcomeInv, BuildTypes
    <2>2. Diagram[Diagrams[index].source].renders => Diagrams[index] \in Drawable
      BY <1>2 DEF Drawable, Renders
    <2>3. \A S, s, e : s \in Seq(S) /\ e \in S => Append(s, e) \in Seq(S)
      OBVIOUS
    <2>4. rendered' \in Seq(Drawable)
      BY <1>3, <2>1, <2>2, <2>3
    <2>5. QED BY <1>1, <2>4 DEF Drawable, Renders
  <1>5. BuildTypes'
    BY <1>1, <1>4 DEF OutcomeInv, BuildTypes, Busy
  <1>6. OnTheWay'
    BY <1>1 DEF OutcomeInv, OnTheWay, Started, Busy
  <1>7. OfTheRendered' /\ AtTheEnd'
    BY <1>1, <1>2, <1>3 DEF OutcomeInv, OfTheRendered, AtTheEnd, Started
  <1>8. QED BY <1>5, <1>6, <1>7 DEF OutcomeInv

(* A layout problem is one of a diagram that d2 has drawn.                 *)
LEMMA ProblemsAreOfTheRendered ==
  ASSUME html \in Contents, rendered \in Seq(Drawable), NEW x \in LayoutProblems(rendered)
  PROVE  x[1] \in DOMAIN Diagrams /\ Renders(x[1])
  <1>1. PICK k \in DOMAIN rendered : \E code : x = <<rendered[k].ordinal, code>>
    BY Zenon DEF LayoutProblems
  <1>2. rendered[k] \in Drawable
    <2>1. \A S, s : s \in Seq(S) => \A j \in DOMAIN s : s[j] \in S
      OBVIOUS
    <2>2. QED BY <1>1, <2>1
  <1>3. PICK j \in DOMAIN Diagrams : Renders(j) /\ rendered[k] = Diagrams[j]
    BY <1>2 DEF Drawable
  <1>4. rendered[k].ordinal = j
    BY <1>3, DiagramsAreNumbered
  <1>5. QED BY <1>1, <1>3, <1>4

LEMMA MeasureOutcome == ASSUME OutcomeInv, Measure PROVE OutcomeInv'
  <1>1. stage = "render" /\ stage \in Busy /\ UNCHANGED verb
    BY DEF Measure, Alone, Busy
  <1>2. /\ html \in Contents /\ \A x \in problems : x[2] = "D2-FAILED"
        /\ files.failed = {} /\ files.work /\ rendered \in Seq(Drawable)
        /\ DOMAIN files = {"pdf", "previews", "failed", "work"}
    BY <1>1 DEF OutcomeInv, OfTheRendered, OnTheWay, BuildTypes
  <1>3. PICK found : /\ \A x \in found : x[2] # "D2-FAILED" => Renders(x[1])
                     /\ Checked(found) \/ Fail(files)
    <2>1. rendered = <<>> => Checked(problems)
      BY DEF Measure
    <2>2. rendered # <<>> => Checked(problems \cup LayoutProblems(rendered)) \/ Fail(files)
      BY DEF Measure
    <2>3. \A x \in problems \cup LayoutProblems(rendered) : x[2] # "D2-FAILED" => Renders(x[1])
      BY <1>2, ProblemsAreOfTheRendered
    <2>4. QED BY <1>2, <2>1, <2>2, <2>3
  <1>4. CASE Fail(files)
    BY <1>1, <1>2, <1>4, FailingOutcome
  <1>5. CASE Checked(found)
    <2>1. problems' = found /\ UNCHANGED <<html, index, rendered, page, files>> /\ Diagrams' = Diagrams
      BY <1>5 DEF Checked, Diagrams
    <2>2. CASE Exits("0") /\ verb = "check"
      <3>1. stage' = "finally" /\ status' = "0"
        BY <1>1, <2>2, ExitIsOver
      <3>2. QED BY <1>1, <1>2, <2>1, <2>2, <3>1, LeavingOutcome
    <2>3. CASE UNCHANGED status /\ (stage' = "draw" \/ (stage' = "inline" /\ verb = "build"))
      <3>1. BuildTypes'
        BY <1>1, <2>1, <2>3 DEF OutcomeInv, BuildTypes, Drawable, Renders, Busy
      <3>2. OnTheWay'
        BY <1>1, <2>1, <2>3 DEF OutcomeInv, OnTheWay, Started, Busy
      <3>3. \A k \in WithLayoutProblem' : Renders(k)'
        BY <1>3, <2>1 DEF WithLayoutProblem, Renders
      <3>4. OfTheRendered' /\ AtTheEnd'
        BY <2>3, <3>3 DEF OfTheRendered, AtTheEnd, Started
      <3>5. QED BY <3>1, <3>2, <3>4 DEF OutcomeInv
    <2>4. QED BY <1>1, <1>5, <2>2, <2>3 DEF Checked, OutcomeInv, BuildTypes
  <1>6. QED BY <1>3, <1>4, <1>5

LEMMA DrawOutcome == ASSUME OutcomeInv, DrawFailed PROVE OutcomeInv'
  <1>1. stage = "draw" /\ stage \in Busy /\ UNCHANGED <<verb, html, page, rendered>>
    BY DEF DrawFailed, Alone, Busy, Data
  <1>2. stage' = "finally" /\ status' = "1"
    BY <1>1, ExitIsOver DEF DrawFailed
  <1>3. \E drawn \in SUBSET WithLayoutProblem : files' = [files EXCEPT !.failed = @ \cup drawn]
    BY DEF DrawFailed
  <1>4. /\ rendered' \in Seq(Drawable) /\ files.failed = {} /\ files.work /\ DOMAIN files = {"pdf", "previews", "failed", "work"}
        /\ verb = "build" => files.pdf = Absent
        /\ \A k \in WithLayoutProblem : Renders(k)
    BY <1>1 DEF OutcomeInv, BuildTypes, OnTheWay, OfTheRendered
  <1>5. /\ DOMAIN files' = {"pdf", "previews", "failed", "work"} /\ files'.work \in BOOLEAN
        /\ verb = "build" => files'.pdf = Absent
        /\ \A k \in files'.failed : Renders(k)
    BY <1>3, <1>4
  <1>6. QED BY <1>1, <1>2, <1>4, <1>5, LeavingOutcome

(* The steps that put the page together move on, or are left for the finally. *)
LEMMA GoesOnOutcome ==
  ASSUME OutcomeInv, stage \in {"inline", "search", "group"}, stage' \in {"search", "group", "print"},
         UNCHANGED <<verb, html, rendered, problems, files, status>>
  PROVE  OutcomeInv'
  <1>1. Diagrams' = Diagrams
    BY DEF Diagrams
  <1>2. BuildTypes'
    BY <1>1 DEF OutcomeInv, BuildTypes, Drawable, Renders, Busy
  <1>3. OnTheWay'
    BY DEF OutcomeInv, OnTheWay, Started, Busy
  <1>4. OfTheRendered' /\ AtTheEnd'
    BY DEF OfTheRendered, AtTheEnd, Started
  <1>5. QED BY <1>2, <1>3, <1>4 DEF OutcomeInv

LEMMA PageOutcome == ASSUME OutcomeInv, Inline \/ FindHeading \/ ExtendGroup \/ KeepHeading PROVE OutcomeInv'
  <1>1. stage \in {"inline", "search", "group"} /\ stage \in Busy /\ UNCHANGED <<verb, html, rendered, problems>>
    BY DEF Inline, FindHeading, ExtendGroup, KeepHeading, Goes, Alone, Busy, Fail, Data
  <1>2. files.failed = {} /\ files.work /\ DOMAIN files = {"pdf", "previews", "failed", "work"} /\ rendered \in Seq(Drawable)
    BY <1>1 DEF OutcomeInv, BuildTypes, OnTheWay
  <1>3. CASE Inline
    <2>1. \/ Fail(files)
          \/ stage' = "search" /\ UNCHANGED <<files, status>>
      BY <1>3 DEF Inline, Goes
    <2>2. QED BY <1>1, <1>2, <2>1, FailingOutcome, GoesOnOutcome
  <1>4. CASE FindHeading
    <2>1. stage' \in {"print", "group"} /\ UNCHANGED <<files, status>>
      BY <1>4 DEF FindHeading
    <2>2. QED BY <1>1, <2>1, GoesOnOutcome
  <1>7. CASE ExtendGroup
    <2>1. stage' = "group" /\ UNCHANGED <<files, status>>
      BY <1>7 DEF ExtendGroup
    <2>2. QED BY <1>1, <2>1, GoesOnOutcome
  <1>5. CASE KeepHeading
    <2>1. UNCHANGED <<files, page>> /\ ((stage' = "search" /\ UNCHANGED status) \/ Exits("uncaught"))
      BY <1>5 DEF KeepHeading
    <2>2. Exits("uncaught") => stage' = "finally" /\ status' = "uncaught"
      BY <1>1, ExitIsOver
    <2>3. CASE Exits("uncaught")
      BY <1>1, <1>2, <2>1, <2>2, <2>3, LeavingOutcome
    <2>4. QED BY <1>1, <2>1, <2>3, GoesOnOutcome
  <1>6. QED BY <1>3, <1>4, <1>5, <1>7

LEMMA PrintOutcome == ASSUME OutcomeInv, PrintPdf PROVE OutcomeInv'
  <1>1. stage = "print" /\ stage \in Busy /\ UNCHANGED <<verb, html, page, rendered, problems>>
    BY DEF PrintPdf, Alone, Busy, Fail, Data
  <1>2. /\ files.failed = {} /\ files.work /\ DOMAIN files = {"pdf", "previews", "failed", "work"}
        /\ rendered \in Seq(Drawable) /\ verb = "build" /\ files.pdf = Absent
    BY <1>1 DEF OutcomeInv, BuildTypes, OnTheWay, Started, Busy
  <1>3. CASE Fail(files)
    BY <1>1, <1>2, <1>3, FailingOutcome
  <1>4. CASE Exits("1") /\ UNCHANGED files
    <2>1. stage' = "finally" /\ status' = "1"
      BY <1>1, <1>4, ExitIsOver
    <2>2. QED BY <1>1, <1>2, <1>4, <2>1, LeavingOutcome
  <1>5. CASE stage' = "rasterize" /\ files' = [files EXCEPT !.pdf = page] /\ UNCHANGED status
    <2>1. Diagrams' = Diagrams
      BY <1>1 DEF Diagrams
    <2>2. BuildTypes'
      <3>1. DOMAIN files' = DOMAIN files /\ files'.work = files.work
        BY <1>2, <1>5
      <3>2. rendered' = rendered /\ Drawable' = Drawable
        BY <1>1, <2>1 DEF Drawable, Renders
      <3>3. verb' = verb /\ status' = status /\ stage' \in Busy
        BY <1>1, <1>5 DEF Busy
      <3> QED BY <1>2, <3>1, <3>2, <3>3 DEF OutcomeInv, BuildTypes
    <2>3. OnTheWay'
      BY <1>1, <1>2, <1>5 DEF OutcomeInv, OnTheWay, Started, Busy
    <2>4. OfTheRendered' /\ AtTheEnd'
      BY <1>5 DEF OfTheRendered, AtTheEnd, Started
    <2>5. QED BY <2>2, <2>3, <2>4 DEF OutcomeInv
  <1>6. QED BY <1>3, <1>4, <1>5 DEF PrintPdf, Goes

LEMMA RasterizeOutcome == ASSUME OutcomeInv, RasterizePages PROVE OutcomeInv'
  <1>1. stage = "rasterize" /\ stage \in Busy /\ UNCHANGED <<verb, html, page, rendered>>
    BY DEF RasterizePages, Alone, Busy, Fail, Data
  <1>2. /\ files.failed = {} /\ files.work /\ DOMAIN files = {"pdf", "previews", "failed", "work"}
        /\ rendered \in Seq(Drawable) /\ files.pdf = page
    BY <1>1 DEF OutcomeInv, BuildTypes, OnTheWay
  <1>3. CASE Exits("0") /\ files' = [files EXCEPT !.previews = Pages, !.failed = {}]
    <2>1. stage' = "finally" /\ status' = "0"
      BY <1>1, <1>3, ExitIsOver
    <2>2. /\ DOMAIN files' = {"pdf", "previews", "failed", "work"} /\ files'.work \in BOOLEAN
          /\ files'.failed = {} /\ files'.pdf = page /\ files'.previews = Pages
      BY <1>2, <1>3
    <2>3. QED BY <1>1, <1>2, <2>1, <2>2, LeavingOutcome
  <1>4. CASE \E drawn \in 0..Pages : Fail([files EXCEPT !.previews = drawn, !.failed = {}])
    <2>1. PICK drawn \in 0..Pages : Fail([files EXCEPT !.previews = drawn, !.failed = {}])
      BY <1>4
    <2> DEFINE left == [files EXCEPT !.previews = drawn, !.failed = {}]
    <2>2. DOMAIN left = {"pdf", "previews", "failed", "work"} /\ left.failed = {} /\ left.work = files.work
      BY <1>2
    <2>3. Fail(left)
      BY <2>1
    <2> HIDE DEF left
    <2>4. QED BY <1>1, <2>2, <2>3, FailingOutcome
  <1>5. QED BY <1>3, <1>4 DEF RasterizePages

LEMMA ThrowOutcome == ASSUME OutcomeInv, Throw PROVE OutcomeInv'
  <1>1. stage \in Busy /\ UNCHANGED <<verb, html, page, rendered>>
    BY DEF Throw, Alone, Busy, Data
  <1>2. stage' = "finally" /\ status' = "uncaught"
    BY <1>1, ExitIsOver DEF Throw
  <1>3. files.work /\ DOMAIN files = {"pdf", "previews", "failed", "work"} /\ rendered \in Seq(Drawable)
    BY <1>1 DEF OutcomeInv, BuildTypes, OnTheWay
  <1>4. DOMAIN files' = {"pdf", "previews", "failed", "work"} /\ files'.work \in BOOLEAN
    <2>1. CASE stage = "print"
      BY <1>3, <2>1 DEF Throw
    <2>2. CASE stage = "rasterize"
      BY <1>3, <2>2 DEF Throw
    <2>3. CASE stage # "print" /\ stage # "rasterize"
      BY <1>3, <2>3 DEF Throw
    <2>4. QED BY <2>1, <2>2, <2>3
  <1>5. QED BY <1>1, <1>2, <1>3, <1>4, LeavingOutcome

LEMMA FinallyOutcome == ASSUME OutcomeInv, Finally PROVE OutcomeInv'
  <1>1. /\ stage = "finally" /\ stage' = "over" /\ files' = [files EXCEPT !.work = FALSE]
        /\ rendered' = <<>> /\ problems' = {} /\ UNCHANGED <<verb, html, page, status>> /\ Diagrams' = Diagrams
    BY DEF Finally, Goes, Alone, Forgotten, Diagrams
  <1>2. BuildTypes'
    BY <1>1, NothingIsDrawn DEF OutcomeInv, BuildTypes
  <1>3. OnTheWay' /\ OfTheRendered'
    BY <1>1 DEF OnTheWay, OfTheRendered, Started, Busy
  <1>4. AtTheEnd'
    BY <1>1 DEF OutcomeInv, BuildTypes, AtTheEnd, Renders
  <1>5. QED BY <1>2, <1>3, <1>4 DEF OutcomeInv

LEMMA KillOutcome == ASSUME OutcomeInv, KillCommand PROVE OutcomeInv'
  <1>1. /\ stage' = "over" /\ status' = "killed" /\ rendered' = <<>> /\ problems' = {}
        /\ UNCHANGED <<verb, files>>
    BY DEF KillCommand, Forgotten
  <1>2. BuildTypes'
    BY <1>1, NothingIsDrawn DEF OutcomeInv, BuildTypes
  <1>3. QED BY <1>1, <1>2 DEF OutcomeInv, OnTheWay, OfTheRendered, AtTheEnd, Started, Busy

LEMMA StepKeepsOutcome == ASSUME OutcomeInv, [FiguraNext]_figuraVars PROVE OutcomeInv'
  <1>1. CASE UNCHANGED figuraVars
    BY <1>1, LaunchersLeaveOutcome DEF figuraVars
  <1>2. CASE \E p \in Pids : LaunchOther(p) \/ Launcher(p)
    BY <1>2, LaunchersLeaveOutcome DEF LaunchOther, Launcher, ReapOther
  <1>3. CASE \E k \in {"check", "build"} : Command(k)
    BY <1>3, CommandStarts
  <1>4. CASE CommandStep
    BY <1>4, SpawnLeavesOutcome, PreflightOutcome, ReadOutcome, RenderOutcome, MeasureOutcome, DrawOutcome, PageOutcome,
       PrintOutcome, RasterizeOutcome, FinallyOutcome DEF CommandStep
  <1>5. QED BY <1>1, <1>2, <1>3, <1>4, ThrowOutcome, KillOutcome DEF FiguraNext, BuildNext

(* "A failed build leaves no PDF", and an exit status of 0 or 1 says truly    *)
(* what a command left beside its document: scripts/figura.mjs.               *)
THEOREM OutcomeMatches == FiguraSpec => []OutcomeMatchesFiles
  <1>1. OutcomeInv => OutcomeMatchesFiles
    BY DEF OutcomeInv, AtTheEnd, OutcomeMatchesFiles, Renders
  <1>2. QED BY <1>1, OutcomeInitially, StepKeepsOutcome, PTL DEF FiguraSpec

-----------------------------------------------------------------------------
(* The remedies.  While diagrams are rendered all of them have a layout that   *)
(* figura knows, and what is drawn after the measurement are layout problems   *)
(* of diagrams of the document.                                                *)
LayoutCodes == {"DIAGRAM-TOO-WIDE", "DIAGRAM-TOO-TALL", "LABEL-OVERLAP", "TEXT-OVERFLOW"}
Diagnosed(found) == \A x \in found : x[2] # "D2-FAILED" => x[1] \in DOMAIN Diagrams /\ x[2] \in LayoutCodes
Rendering == {"render", "rendering", "draw"}

LaidOut ==
  /\ stage \in Rendering => html \in Contents /\ ~UnknownLayout(Diagrams)
  /\ stage = "draw" => Diagnosed(problems)

LEMMA LayoutProblemsAreDiagnosed ==
  ASSUME html \in Contents, rendered \in Seq(Drawable)
  PROVE  Diagnosed(LayoutProblems(rendered))
  <1>1. SUFFICES ASSUME NEW x \in LayoutProblems(rendered) PROVE x[1] \in DOMAIN Diagrams /\ x[2] \in LayoutCodes
    BY DEF Diagnosed
  <1>2. x[1] \in DOMAIN Diagrams
    BY ProblemsAreOfTheRendered
  <1>3. PICK k, code :
               /\ k \in DOMAIN rendered /\ x = <<rendered[k].ordinal, code>>
               /\ code \in DiagramSizeProblems(Diagram[rendered[k].source], PrintScales(rendered)[k])
                           \cup GeometryProblems(Diagram[rendered[k].source])
    BY Zenon DEF LayoutProblems
  <1>4. code \in LayoutCodes
    BY <1>3 DEF DiagramSizeProblems, GeometryProblems, ProblemIf, LayoutCodes
  <1>5. QED BY <1>2, <1>3, <1>4

(* A step that does not go where diagrams are rendered has nothing to keep,    *)
(* and one that stays there on the same document keeps what its problems say.  *)
LEMMA LeavesRendering == ASSUME stage' \notin Rendering PROVE LaidOut'
  BY DEF LaidOut, Rendering

LEMMA StaysLaidOut ==
  ASSUME LaidOut, stage \in Rendering, UNCHANGED html, stage' = "draw" => Diagnosed(problems')
  PROVE  LaidOut'
  BY DEF LaidOut, Diagrams, Diagnosed, UnknownLayout

LEMMA ReadLaysOut == ASSUME OutcomeInv, Read PROVE LaidOut'
  <1>1. CASE Exits("uncaught") \/ Exits("1")
    BY <1>1, LeavesRendering DEF Exits, Rendering
  <1>2. CASE \E content \in Contents : ~UnknownLayout(ExtractDiagrams(content)) /\ html' = content /\ stage' = "render"
    BY <1>2 DEF LaidOut, Diagrams, UnknownLayout, Rendering
  <1>3. QED BY <1>1, <1>2 DEF Read, Fail, Goes

LEMMA MeasureDiagnoses == ASSUME OutcomeInv, LaidOut, Measure PROVE LaidOut'
  <1>1. /\ stage = "render" /\ html \in Contents /\ rendered \in Seq(Drawable)
        /\ Diagnosed(problems) /\ Diagnosed(problems \cup LayoutProblems(rendered))
    BY LayoutProblemsAreDiagnosed DEF Measure, OutcomeInv, OfTheRendered, BuildTypes, Diagnosed
  <1>2. PICK found : Diagnosed(found) /\ (Checked(found) \/ Fail(files))
    BY <1>1 DEF Measure
  <1>3. CASE Fail(files)
    BY <1>3, LeavesRendering DEF Fail, Exits, Rendering
  <1>4. CASE Checked(found)
    <2>1. problems' = found /\ UNCHANGED html
      BY <1>4 DEF Checked
    <2>2. QED BY <1>1, <1>2, <2>1, StaysLaidOut DEF Rendering
  <1>5. QED BY <1>2, <1>3, <1>4

LEMMA StepKeepsLayouts == ASSUME OutcomeInv, LaidOut, [FiguraNext]_figuraVars PROVE LaidOut'
  <1>1. CASE UNCHANGED figuraVars \/ \E p \in Pids : LaunchOther(p) \/ Launcher(p)
    <2>1. UNCHANGED <<stage, html, problems>>
      BY <1>1 DEF figuraVars, buildVars, LaunchOther, Launcher, ReapOther
    <2>2. QED BY <2>1 DEF LaidOut, Diagrams, Diagnosed, UnknownLayout
  <1>2. CASE \/ \E k \in {"check", "build"} : Command(k)
             \/ Spawn("preflight", "preflighting", TRUE) \/ Preflight
             \/ DrawFailed \/ Inline \/ FindHeading \/ ExtendGroup \/ KeepHeading \/ PrintPdf \/ RasterizePages
             \/ Finally \/ Throw \/ KillCommand
    <2>1. stage' \notin Rendering
      BY <1>2 DEF Command, Spawn, Preflight, DrawFailed, Inline, FindHeading, ExtendGroup, KeepHeading, PrintPdf, RasterizePages,
         Finally, Throw, KillCommand, Goes, Exits, Fail, Rendering
    <2>2. QED BY <2>1, LeavesRendering
  <1>3. CASE Spawn("render", "rendering", FALSE) \/ RenderDiagram
    BY <1>3, StaysLaidOut DEF Spawn, RenderDiagram, Goes, Data, Rendering
  <1>4. QED BY <1>1, <1>2, <1>3, ReadLaysOut, MeasureDiagnoses DEF FiguraNext, BuildNext, CommandStep

(* A remedy is one of these, and neither the layout nor the direction that is  *)
(* set.                                                                        *)
LEMMA RemediesOfADiagram ==
  ASSUME NEW m, m.layout \in {"elk", "dagre"}, m.direction \in {"down", "right", "up", "left"},
         NEW code \in LayoutCodes, NEW cause \in BOOLEAN
  PROVE  LayoutRemedy(code, m, cause) # {} /\ {m.layout, m.direction} \cap LayoutRemedy(code, m, cause) = {}
  <1>1. /\ DirectionOffer(m, "down") \subseteq {"down"} /\ DirectionOffer(m, "right") \subseteq {"right"}
        /\ m.direction \notin DirectionOffer(m, "down") \cup DirectionOffer(m, "right")
        /\ LayoutOffer(m) \subseteq {OtherLayout(m.layout)} /\ OtherLayout(m.layout) \in {"elk", "dagre"} \ {m.layout}
    BY DEF DirectionOffer, LayoutOffer, OtherLayout
  <1>2. CASE code = "DIAGRAM-TOO-WIDE"
    BY <1>1, <1>2 DEF LayoutRemedy, TooWideRemedy
  <1>3. CASE code = "DIAGRAM-TOO-TALL"
    BY <1>1, <1>3 DEF LayoutRemedy, TooTallRemedy
  <1>4. CASE code = "LABEL-OVERLAP"
    BY <1>1, <1>4 DEF LayoutRemedy, LabelOverlapRemedy
  <1>5. CASE code = "TEXT-OVERFLOW"
    BY <1>5 DEF LayoutRemedy
  <1>6. QED BY <1>2, <1>3, <1>4, <1>5 DEF LayoutCodes

(* "Each remedy follows the diagram's layout, kind and direction, and never    *)
(* offers what is already set", for any document: scripts/layout-remedies.mjs. *)
THEOREM RemediesHelp == FiguraSpec => []RemediesAreNew
  <1>1. FiguraInit => LaidOut
    BY DEF FiguraInit, BuildInit, LaidOut, Rendering
  <1>2. OutcomeInv /\ LaidOut => RemediesAreNew
    <2>1. SUFFICES ASSUME OutcomeInv, LaidOut, stage = "draw", NEW x \in problems, x[2] # "D2-FAILED", NEW cause \in BOOLEAN
                   PROVE  LET m == Diagram[Diagrams[x[1]].source]
                              offers == LayoutRemedy(x[2], m, cause)
                          IN offers # {} /\ {m.layout, m.direction} \cap offers = {}
      BY DEF RemediesAreNew
    <2>2. x[1] \in DOMAIN Diagrams /\ x[2] \in LayoutCodes /\ html \in Contents
      BY <2>1 DEF LaidOut, Diagnosed, Rendering
    <2>3. Diagram[Diagrams[x[1]].source].layout \in {"elk", "dagre"}
      BY <2>1, <2>2 DEF LaidOut, UnknownLayout, Rendering
    <2>4. Diagram[Diagrams[x[1]].source].direction \in {"down", "right", "up", "left"}
      BY <2>2, DiagramsAreDirected DEF Diagrams, Range
    <2>5. QED BY <2>2, <2>3, <2>4, RemediesOfADiagram
  <1>3. QED BY <1>1, <1>2, OutcomeInitially, StepKeepsOutcome, StepKeepsLayouts, PTL DEF FiguraSpec

-----------------------------------------------------------------------------
(* The page that is put together of a document: its tokens are those of    *)
(* the document but for the pictures, the marks and the print styles.      *)
LEMMA SkeletonsAgree ==
  ASSUME NEW s, NEW t, IsFiniteSet(DOMAIN s), DOMAIN s \in SUBSET Nat, IsFiniteSet(DOMAIN t), DOMAIN t \in SUBSET Nat,
         NEW f, InOrder(f, Standing(s), Standing(t)), \A i \in Standing(s) : Bare(s[i]) = Bare(t[f[i]])
  PROVE  Skeleton(s) = Skeleton(t)
  <1> DEFINE S == Standing(s)
             T == Standing(t)
             a == [i \in DOMAIN s |-> Bare(s[i])]
             b == [i \in DOMAIN t |-> Bare(t[i])]
  <1>1. S \in SUBSET DOMAIN s /\ T \in SUBSET DOMAIN t
    BY DEF Standing
  <1>2. S \in SUBSET Nat /\ IsFiniteSet(S) /\ T \in SUBSET Nat /\ IsFiniteSet(T)
    BY <1>1, FS_Subset
  <1>3. \A i \in S : f[i] \in T
    BY DEF InOrder
  <1>4. \A i \in S : a[i] = b[f[i]]
    BY <1>1, <1>3
  <1>5. Skeleton(s) = Picked(a, S) /\ Skeleton(t) = Picked(b, T)
    BY DEF Skeleton
  <1> HIDE DEF a, b, S, T
  <1>6. InOrder(f, S, T)
    BY DEF S, T
  <1> QED BY <1>2, <1>4, <1>5, <1>6, PickedAgree

(* The same positions, with tokens that differ only in marks.              *)
LEMMA SameSkeleton ==
  ASSUME NEW s, NEW t, IsFiniteSet(DOMAIN s), DOMAIN s \in SUBSET Nat, DOMAIN t = DOMAIN s,
         Standing(s) = Standing(t), \A i \in Standing(s) : Bare(s[i]) = Bare(t[i])
  PROVE  Skeleton(s) = Skeleton(t)
  <1> DEFINE f == [i \in Standing(s) |-> i]
  <1>1. InOrder(f, Standing(s), Standing(t)) /\ \A i \in Standing(s) : Bare(s[i]) = Bare(t[f[i]])
    BY DEF InOrder
  <1> HIDE DEF f
  <1> QED BY <1>1, SkeletonsAgree

(* What InlineDiagrams picks, and of what.                                  *)
Place(found, k)   == found[k].span[1] + 1
Gone(found)       == UNION {(found[k].span[1]..found[k].span[2]) \ {Place(found, k)} : k \in DOMAIN found}
Left(content)     == DOMAIN content \ Gone(ExtractDiagrams(content))
Picture(found, k) == <<"svg", found[k].source, PrintScales(found)[k]>>
Inlined(content)  == InlineDiagrams(content, ExtractDiagrams(content))

LEMMA Inlining ==
  ASSUME NEW content \in Contents
  PROVE  LET found == ExtractDiagrams(content) IN
         /\ Left(content) \in SUBSET (1..Len(content)) /\ Left(content) \in SUBSET Nat /\ IsFiniteSet(Left(content))
         /\ \A i \in Gone(found) : i \in 1..Len(content) /\ content[i] \in {<<"open", "pre">>, <<"close", "pre">>}
         /\ \A k \in DOMAIN found : Place(found, k) \in Left(content)
         /\ Len(Inlined(content)) \in Nat /\ DOMAIN Inlined(content) = 1..Len(Inlined(content))
         /\ \A j \in DOMAIN Inlined(content) : Nth(Left(content), j) \in Left(content)
         /\ \A i \in Left(content) : Rank(Left(content), i) \in DOMAIN Inlined(content) /\ Nth(Left(content), Rank(Left(content), i)) = i
         /\ \A j, k \in DOMAIN Inlined(content) : j < k => Nth(Left(content), j) < Nth(Left(content), k)
         /\ \A j \in DOMAIN Inlined(content) :
              LET i == Nth(Left(content), j) IN
              \/ Inlined(content)[j] = content[i] /\ \A k \in DOMAIN found : Place(found, k) # i
              \/ \E k \in DOMAIN found : Place(found, k) = i /\ Inlined(content)[j] = Picture(found, k)
  <1> DEFINE found == ExtractDiagrams(content)
             place(k) == found[k].span[1] + 1
             gone == UNION {(found[k].span[1]..found[k].span[2]) \ {place(k)} : k \in DOMAIN found}
             drawn == [i \in DOMAIN content |->
                        IF \E k \in DOMAIN found : place(k) = i
                        THEN LET k == CHOOSE n \in DOMAIN found : place(n) = i
                             IN <<"svg", found[k].source, PrintScales(found)[k]>>
                        ELSE content[i]]
             L == Left(content)
  <1>1. Written(content) /\ gone = Gone(found) /\ L = DOMAIN content \ gone
    BY ContentsAreWritten DEF Gone, Place, Left
  <1>2. Inlined(content) = Picked(drawn, L)
    BY <1>1 DEF Inlined, InlineDiagrams
  <1>3. /\ \A k \in DOMAIN found : LET i == found[k].span[1] IN
              /\ i \in 1..Len(content) /\ i + 1 \in 1..Len(content) /\ i + 2 \in 1..Len(content) /\ found[k].span[2] = i + 2
              /\ content[i] = <<"open", "pre">> /\ content[i + 2] = <<"close", "pre">>
              /\ content[i + 1][1] = "d2" /\ content[i + 1][2] = found[k].source
    BY SpansOfDiagrams
  <1>4. L \in SUBSET (1..Len(content)) /\ L \in SUBSET Nat /\ IsFiniteSet(L)
    <2>1. L \in SUBSET (1..Len(content)) /\ IsFiniteSet(1..Len(content)) /\ 1..Len(content) \in SUBSET Nat
      BY <1>1, FS_Interval DEF Written
    <2> QED BY <2>1, FS_Subset
  <1> HIDE DEF found
  <1>5. ASSUME NEW i \in gone PROVE i \in 1..Len(content) /\ content[i] \in {<<"open", "pre">>, <<"close", "pre">>}
    <2>1. PICK k \in DOMAIN found : i \in (found[k].span[1]..found[k].span[2]) \ {place(k)}
      BY <1>5
    <2>3. found[k].span[1] \in Int /\ found[k].span[2] = found[k].span[1] + 2
      BY <1>3
    <2>2. i = found[k].span[1] \/ i = found[k].span[1] + 2
      BY <2>1, <2>3
    <2> QED BY <1>3, <2>2
  <1>6. \A k \in DOMAIN found : place(k) \in L
    <2>1. \A k \in DOMAIN found : place(k) \in 1..Len(content) /\ content[place(k)][1] = "d2"
      BY <1>3
    <2>2. \A k \in DOMAIN found : place(k) \notin gone
      BY <1>5, <2>1
    <2> QED BY <1>1, <2>1, <2>2 DEF Written
  <1> HIDE DEF L, gone
  <1>7. /\ Len(Inlined(content)) \in Nat /\ DOMAIN Inlined(content) = 1..Len(Inlined(content))
        /\ Len(Inlined(content)) = Cardinality(L)
        /\ \A j \in DOMAIN Inlined(content) : Nth(L, j) \in L /\ Inlined(content)[j] = drawn[Nth(L, j)]
        /\ \A i \in L : Rank(L, i) \in DOMAIN Inlined(content) /\ Nth(L, Rank(L, i)) = i
    <2> HIDE DEF drawn
    <2> QED BY <1>2, <1>4, PickedPlaces
  <1>8. \A j, k \in DOMAIN Inlined(content) : j < k => Nth(L, j) < Nth(L, k)
    BY <1>4, <1>7, NthAscends
  <1>9. ASSUME NEW j \in DOMAIN Inlined(content)
        PROVE  LET i == Nth(L, j) IN
               \/ Inlined(content)[j] = content[i] /\ \A k \in DOMAIN found : place(k) # i
               \/ \E k \in DOMAIN found : place(k) = i /\ Inlined(content)[j] = Picture(found, k)
    <2> DEFINE i == Nth(L, j)
    <2>1. i \in DOMAIN content /\ Inlined(content)[j] = drawn[i]
      BY <1>1, <1>4, <1>7 DEF Written
    <2>2. CASE \E k \in DOMAIN found : place(k) = i
      <3> DEFINE k == CHOOSE n \in DOMAIN found : place(n) = i
      <3>1. k \in DOMAIN found /\ place(k) = i
        BY <2>2
      <3>2. drawn[i] = Picture(found, k)
        BY <2>1, <2>2 DEF Picture
      <3> QED BY <2>1, <3>1, <3>2
    <2>3. CASE ~\E k \in DOMAIN found : place(k) = i
      BY <2>1, <2>3
    <2> QED BY <2>2, <2>3
  <1> QED BY <1>1, <1>4, <1>5, <1>6, <1>7, <1>8, <1>9 DEF found, L, Place

LEMMA InlinedSkeleton == ASSUME NEW content \in Contents PROVE Skeleton(Inlined(content)) = Skeleton(content)
  <1> DEFINE found == ExtractDiagrams(content)
             A == Inlined(content)
             L == Left(content)
             S == Standing(A)
             T == Standing(content)
             f == [j \in S |-> Nth(L, j)]
  <1>1. /\ Len(A) \in Nat /\ DOMAIN A = 1..Len(A) /\ L \in SUBSET Nat
        /\ \A j \in DOMAIN A : Nth(L, j) \in L
        /\ \A i \in L : Rank(L, i) \in DOMAIN A /\ Nth(L, Rank(L, i)) = i
        /\ \A j, k \in DOMAIN A : j < k => Nth(L, j) < Nth(L, k)
    BY Inlining
  <1>2. /\ Written(content) /\ L = DOMAIN content \ Gone(found)
        /\ \A i \in Gone(found) : content[i] \in {<<"open", "pre">>, <<"close", "pre">>}
        /\ \A k \in DOMAIN found : content[Place(found, k)][1] = "d2" /\ content[Place(found, k)][2] = found[k].source
    BY ContentsAreWritten, Inlining, SpansOfDiagrams DEF Left, Place
  <1>3. ASSUME NEW j \in DOMAIN A
        PROVE  (j \in S <=> Nth(L, j) \in T) /\ (j \in S => Bare(A[j]) = Bare(content[Nth(L, j)]))
    <2> DEFINE i == Nth(L, j)
    <2>1. i \in DOMAIN content
      BY <1>1, <1>2
    <2>2. CASE A[j] = content[i]
      BY <2>1, <2>2 DEF Standing
    <2>3. ASSUME NEW k \in DOMAIN found, Place(found, k) = i, A[j] = Picture(found, k)
          PROVE  (j \in S <=> i \in T) /\ (j \in S => Bare(A[j]) = Bare(content[i]))
      <3>1. content[i][1] = "d2" /\ content[i][2] = found[k].source /\ A[j][1] = "svg" /\ A[j][2] = found[k].source
        BY <1>2, <2>3 DEF Picture
      <3>2. j \in S /\ i \in T
        BY <2>1, <3>1 DEF Standing
      <3>3. Bare(A[j]) = <<"diagram", found[k].source>> /\ Bare(content[i]) = <<"diagram", found[k].source>>
        BY <3>1 DEF Bare
      <3> QED BY <3>2, <3>3
    <2>4. \/ A[j] = content[i]
          \/ \E k \in DOMAIN found : Place(found, k) = i /\ A[j] = Picture(found, k)
      BY Inlining
    <2> QED BY <2>2, <2>3, <2>4
  <1>4. S \in SUBSET DOMAIN A /\ T \in SUBSET DOMAIN content
    BY DEF Standing
  <1>5. \A t \in T : t \in L
    BY <1>2, <1>4 DEF Standing
  <1>6. InOrder(f, S, T)
    <2>1. f \in [S -> T]
      BY <1>3, <1>4
    <2>2. ASSUME NEW t \in T PROVE \E i \in S : f[i] = t
      <3>1. Rank(L, t) \in DOMAIN A /\ Nth(L, Rank(L, t)) = t
        BY <1>1, <1>5
      <3>2. Rank(L, t) \in S
        BY <1>3, <3>1
      <3> QED BY <3>1, <3>2
    <2>3. \A i, j \in S : i < j => f[i] < f[j]
      BY <1>1, <1>4
    <2> QED BY <2>1, <2>2, <2>3 DEF InOrder
  <1>7. IsFiniteSet(DOMAIN A) /\ DOMAIN A \in SUBSET Nat /\ IsFiniteSet(DOMAIN content) /\ DOMAIN content \in SUBSET Nat
    <2>1. Len(A) \in Nat /\ Len(content) \in Nat /\ DOMAIN A = 1..Len(A) /\ DOMAIN content = 1..Len(content)
      BY <1>1, <1>2 DEF Written
    <2>2. IsFiniteSet(1..Len(A)) /\ IsFiniteSet(1..Len(content))
      BY <2>1, FS_Interval
    <2> QED BY <2>1, <2>2
  <1>8. \A i \in S : Bare(A[i]) = Bare(content[f[i]])
    BY <1>3, <1>4
  <1> HIDE DEF A, f
  <1> QED BY <1>6, <1>7, <1>8, SkeletonsAgree DEF A

Marked(content) == WithCodeBreakOpportunities(Inlined(content))

LEMMA MarksAreBare ==
  ASSUME NEW runs, \A k \in DOMAIN runs : runs[k] = <<runs[k][1], runs[k][2]>>
  PROVE  /\ DOMAIN WithBreakOpportunities(runs) = DOMAIN runs
         /\ \A k \in DOMAIN runs : WithBreakOpportunities(runs)[k][1] = runs[k][1] /\ WithBreakOpportunities(runs)[k][2] = runs[k][2]
  <1>1. DOMAIN WithBreakOpportunities(runs) = DOMAIN runs
    BY DEF WithBreakOpportunities
  <1>2. \A a, b, c : Append(<<a, b>>, c)[1] = a /\ Append(<<a, b>>, c)[2] = b
    OBVIOUS
  <1>3. ASSUME NEW k \in DOMAIN runs
        PROVE  WithBreakOpportunities(runs)[k] \in {runs[k], Append(runs[k], "break")}
    BY DEF WithBreakOpportunities
  <1>4. ASSUME NEW k \in DOMAIN runs
        PROVE  Append(runs[k], "break")[1] = runs[k][1] /\ Append(runs[k], "break")[2] = runs[k][2]
    BY <1>2
  <1> QED BY <1>1, <1>3, <1>4

(* The marks leave every other token, and of inline code what it is.       *)
LEMMA Marking ==
  ASSUME NEW content \in Contents
  PROVE  /\ DOMAIN Marked(content) = DOMAIN Inlined(content)
         /\ \A j \in DOMAIN Inlined(content) :
              /\ Marked(content)[j][1] = Inlined(content)[j][1]
              /\ Inlined(content)[j][1] # "code" => Marked(content)[j] = Inlined(content)[j]
              /\ Bare(Marked(content)[j]) = Bare(Inlined(content)[j])
  <1> DEFINE A == Inlined(content)
             B == Marked(content)
  <1>1. DOMAIN B = DOMAIN A
    BY DEF Marked, WithCodeBreakOpportunities
  <1>2. ASSUME NEW j \in DOMAIN A, B[j] # A[j]
        PROVE  A[j][1] = "code" /\ B[j] = <<"code", WithBreakOpportunities(A[j][2])>>
    BY <1>2 DEF Marked, WithCodeBreakOpportunities
  <1>3. ASSUME NEW j \in DOMAIN A, A[j][1] = "code"
        PROVE  \A k \in DOMAIN A[j][2] : A[j][2][k] = <<A[j][2][k][1], A[j][2][k][2]>>
    <2>1. A[j] = content[Nth(Left(content), j)] /\ Nth(Left(content), j) \in 1..Len(content)
      <3>1. \A k : Picture(ExtractDiagrams(content), k)[1] = "svg"
        BY DEF Picture
      <3> QED BY <1>3, <3>1, Inlining
    <2> QED BY <1>3, <2>1, ContentsAreWritten DEF Written
  <1>4. ASSUME NEW j \in DOMAIN A, B[j] # A[j] PROVE Bare(B[j]) = Bare(A[j])
    <2> DEFINE runs == A[j][2]
               w == WithBreakOpportunities(runs)
    <2>1. A[j][1] = "code" /\ B[j] = <<"code", w>>
      BY <1>2, <1>4
    <2>2. DOMAIN w = DOMAIN runs /\ \A k \in DOMAIN runs : w[k][1] = runs[k][1] /\ w[k][2] = runs[k][2]
      BY <1>3, <2>1, MarksAreBare
    <2> HIDE DEF w
    <2>3. [i \in DOMAIN w |-> <<w[i][1], w[i][2]>>] = [i \in DOMAIN runs |-> <<runs[i][1], runs[i][2]>>]
      BY <2>2
    <2>4. \A token : token[1] = "code" => Bare(token) = <<"code", [i \in DOMAIN token[2] |-> <<token[2][i][1], token[2][i][2]>>]>>
      BY DEF Bare
    <2>5. Bare(B[j]) = <<"code", [i \in DOMAIN w |-> <<w[i][1], w[i][2]>>]>>
      <3>1. B[j][1] = "code" /\ B[j][2] = w
        BY <2>1
      <3> QED BY <2>4, <3>1
    <2>6. Bare(A[j]) = <<"code", [i \in DOMAIN runs |-> <<runs[i][1], runs[i][2]>>]>>
      BY <2>1, <2>4
    <2> QED BY <2>3, <2>5, <2>6
  <1> QED BY <1>1, <1>2, <1>4

LEMMA MarkedSkeleton == ASSUME NEW content \in Contents PROVE Skeleton(Marked(content)) = Skeleton(content)
  <1> DEFINE A == Inlined(content)
             B == Marked(content)
  <1>1. DOMAIN B = DOMAIN A /\ Len(A) \in Nat /\ DOMAIN A = 1..Len(A)
    BY Inlining, Marking
  <1>2. Standing(A) = Standing(B)
    <2>1. ASSUME NEW j \in DOMAIN A PROVE j \in Standing(A) <=> j \in Standing(B)
      <3>1. B[j][1] = A[j][1] /\ (A[j][1] # "code" => B[j] = A[j])
        BY Marking
      <3> QED BY <1>1, <3>1 DEF Standing
    <2> QED BY <1>1, <2>1 DEF Standing
  <1>3. \A i \in Standing(A) : Bare(A[i]) = Bare(B[i])
    BY Marking DEF Standing
  <1>4. IsFiniteSet(DOMAIN A) /\ DOMAIN A \in SUBSET Nat
    BY <1>1, FS_Interval
  <1> HIDE DEF A, B
  <1>5. Skeleton(A) = Skeleton(B)
    BY <1>1, <1>2, <1>3, <1>4, SameSkeleton
  <1> QED BY <1>5, InlinedSkeleton DEF A, B

Inserted(t, s, n, h, e) == /\ Len(t) = n + 1 /\ DOMAIN t = 1..(n + 1) /\ t[h] = e
                           /\ \A i \in 1..(h - 1) : t[i] = s[i]
                           /\ \A i \in (h + 1)..(n + 1) : t[i] = s[i - 1]

LEMMA Inserting ==
  ASSUME NEW X, NEW n \in Nat, NEW s \in [1..n -> X], NEW h \in 1..n, NEW e \in X
  PROVE  Inserted(InsertAt(s, h, e), s, n, h, e)
  <1> DEFINE u == SubSeq(s, 1, h - 1)
             v == u \o <<e>>
             w == SubSeq(s, h, Len(s))
  <1>1. s \in Seq(X) /\ Len(s) = n
    OBVIOUS
  <1>2. u \in Seq(X) /\ Len(u) = h - 1 /\ \A i \in 1..(h - 1) : u[i] = s[i]
    BY <1>1
  <1>3. w \in Seq(X) /\ Len(w) = n - h + 1 /\ \A i \in 1..(n - h + 1) : w[i] = s[h + i - 1]
    BY <1>1
  <1> HIDE DEF u, w
  <1>5. v \in Seq(X) /\ Len(v) = h /\ v[h] = e /\ \A i \in 1..(h - 1) : v[i] = s[i]
    BY <1>2
  <1> HIDE DEF v
  <1>6. Inserted(v \o w, s, n, h, e)
    <2> DEFINE t == v \o w
    <2>1. v \in Seq(X) /\ w \in Seq(X)
      BY <1>3, <1>5
    <2>2. /\ t \in Seq(X) /\ Len(t) = Len(v) + Len(w)
          /\ \A i \in 1..Len(v) : t[i] = v[i]
          /\ \A i \in 1..Len(w) : t[Len(v) + i] = w[i]
      BY <2>1
    <2> HIDE DEF t
    <2>3. Len(v) = h /\ Len(w) = n - h + 1 /\ h \in 1..n /\ n \in Nat
      BY <1>3, <1>5
    <2>4. Len(t) = n + 1
      BY <2>2, <2>3
    <2>5. DOMAIN t = 1..(n + 1)
      BY <2>2, <2>4
    <2>6. t[h] = e /\ \A i \in 1..(h - 1) : t[i] = s[i]
      BY <1>5, <2>2, <2>3
    <2>7. ASSUME NEW i \in (h + 1)..(n + 1) PROVE t[i] = s[i - 1]
      <3>1. i - h \in 1..(n - h + 1) /\ h + (i - h) = i /\ h + (i - h) - 1 = i - 1
        BY <2>3
      <3>2. t[h + (i - h)] = w[i - h]
        BY <2>2, <2>3, <3>1
      <3>3. w[i - h] = s[h + (i - h) - 1]
        BY <1>3, <3>1
      <3> QED BY <3>1, <3>2, <3>3
    <2> QED BY <2>4, <2>5, <2>6, <2>7 DEF t, Inserted
  <1> QED BY <1>6 DEF InsertAt, u, v, w

(* The page that a build of this document prints.                          *)
PageOf(content, of) == WithPrintStyles(Marked(content), of)
HeadEnd(content)      == Min({i \in DOMAIN Marked(content) : Marked(content)[i] = <<"close", "head">>})
(* The token of the document at a position of the page past the styles.    *)
Before(content, j)  == IF j < HeadEnd(content) THEN j ELSE j - 1

LEMMA HeadStays ==
  ASSUME NEW content \in Contents, <<"close", "head">> \in Range(content)
  PROVE  HeadEnd(content) \in DOMAIN Marked(content)
  <1> DEFINE L == Left(content)
  <1>1. PICK i \in DOMAIN content : content[i] = <<"close", "head">>
    BY DEF Range
  <1>2. i \in L
    <2>1. \A g \in Gone(ExtractDiagrams(content)) : content[g] \in {<<"open", "pre">>, <<"close", "pre">>}
      BY Inlining
    <2> QED BY <1>1, <2>1 DEF Left
  <1>3. Rank(L, i) \in DOMAIN Inlined(content) /\ Nth(L, Rank(L, i)) = i
    BY <1>2, Inlining
  <1>4. Inlined(content)[Rank(L, i)] = content[i]
    <2>1. \A k \in DOMAIN ExtractDiagrams(content) : content[Place(ExtractDiagrams(content), k)][1] = "d2"
      BY SpansOfDiagrams DEF Place
    <2>2. \A k \in DOMAIN ExtractDiagrams(content) : Place(ExtractDiagrams(content), k) # i
      BY <1>1, <2>1
    <2> QED BY <1>3, <2>2, Inlining
  <1>5. Rank(L, i) \in DOMAIN Marked(content) /\ Marked(content)[Rank(L, i)] = <<"close", "head">>
    BY <1>1, <1>3, <1>4, Marking
  <1>6. DOMAIN Marked(content) \in SUBSET Nat
    BY Inlining, Marking
  <1> DEFINE heads == {j \in DOMAIN Marked(content) : Marked(content)[j] = <<"close", "head">>}
  <1>7. heads \in SUBSET Nat /\ heads # {} /\ heads \in SUBSET DOMAIN Marked(content)
    BY <1>5, <1>6
  <1> HIDE DEF heads
  <1>8. Min(heads) \in heads
    BY <1>7, MinIsLeast
  <1> QED BY <1>7, <1>8 DEF HeadEnd, heads

LEMMA Styling ==
  ASSUME NEW content \in Contents, NEW of, <<"close", "head">> \in Range(content)
  PROVE  LET page1 == PageOf(content, of)
             B == Marked(content)
             h == HeadEnd(content) IN
         /\ Len(page1) \in Nat /\ Len(page1) = Len(B) + 1 /\ DOMAIN page1 = 1..Len(page1)
         /\ Len(B) \in Nat /\ DOMAIN B = 1..Len(B)
         /\ h \in 1..Len(B) /\ page1[h] = <<"style", of>>
         /\ \A j \in DOMAIN page1 : j # h => Before(content, j) \in DOMAIN B /\ page1[j] = B[Before(content, j)]
         /\ \A i \in DOMAIN B : LET j == IF i < h THEN i ELSE i + 1 IN j \in DOMAIN page1 /\ j # h /\ Before(content, j) = i
         /\ \A i, j \in DOMAIN page1 : i # h /\ j # h /\ i < j => Before(content, i) < Before(content, j)
  <1> DEFINE B == Marked(content)
             n == Len(Inlined(content))
             h == HeadEnd(content)
             style == <<"style", of>>
             t == InsertAt(B, h, style)
  <1>1. n \in Nat /\ DOMAIN B = 1..n /\ h \in 1..n
    BY Inlining, Marking, HeadStays
  <1> DEFINE X == {B[i] : i \in 1..n} \cup {style}
  <1>2. B \in [1..n -> X]
    <2> DEFINE g == [i \in DOMAIN Inlined(content) |->
                       IF Inlined(content)[i][1] = "code" /\ i \notin Untouched(Inlined(content))
                       THEN <<"code", WithBreakOpportunities(Inlined(content)[i][2])>> ELSE Inlined(content)[i]]
    <2>1. B = g
      BY DEF Marked, WithCodeBreakOpportunities
    <2>2. g = [i \in DOMAIN g |-> g[i]]
      OBVIOUS
    <2> HIDE DEF g, n, B
    <2> QED BY <1>1, <2>1, <2>2
  <1>3. Len(B) = n
    <2> HIDE DEF B, X, n
    <2> QED BY <1>1, <1>2
  <1>4. PageOf(content, of) = t
    BY DEF PageOf, WithPrintStyles, HeadEnd
  <1>5. /\ Len(t) = n + 1 /\ DOMAIN t = 1..(n + 1) /\ t[h] = <<"style", of>>
        /\ \A i \in 1..(h - 1) : t[i] = B[i]
        /\ \A i \in (h + 1)..(n + 1) : t[i] = B[i - 1]
    <2>1. style \in X
      OBVIOUS
    <2> HIDE DEF B, n, h, X, style
    <2>2. Inserted(t, B, n, h, style)
      BY <1>1, <1>2, <2>1, Inserting
    <2> QED BY <2>2 DEF style, Inserted
  <1> HIDE DEF t, B
  <1>6. ASSUME NEW j \in 1..(n + 1), j # h
        PROVE  Before(content, j) \in 1..n /\ t[j] = B[Before(content, j)]
    <2>1. CASE j < h
      BY <1>1, <1>5, <2>1 DEF Before
    <2>2. CASE j > h
      BY <1>1, <1>5, <2>2 DEF Before
    <2> QED BY <1>1, <1>6, <2>1, <2>2
  <1>7. ASSUME NEW i \in 1..n
        PROVE  LET j == IF i < h THEN i ELSE i + 1 IN j \in 1..(n + 1) /\ j # h /\ Before(content, j) = i
    BY <1>1 DEF Before
  <1>8. ASSUME NEW i \in 1..(n + 1), NEW j \in 1..(n + 1), i # h, j # h, i < j
        PROVE  Before(content, i) < Before(content, j)
    BY <1>1, <1>8 DEF Before
  <1> HIDE DEF n, h
  <1>9. n \in Nat /\ n + 1 \in Nat
    BY <1>1
  <1> QED BY <1>1, <1>3, <1>4, <1>5, <1>6, <1>7, <1>8, <1>9 DEF B, h

LEMMA PageSkeleton ==
  ASSUME NEW content \in Contents, NEW of, <<"close", "head">> \in Range(content)
  PROVE  Skeleton(PageOf(content, of)) = Skeleton(content)
  <1> DEFINE P == PageOf(content, of)
             B == Marked(content)
             h == HeadEnd(content)
             S == Standing(P)
             T == Standing(B)
             f == [j \in S |-> Before(content, j)]
  <1>1. /\ Len(P) \in Nat /\ DOMAIN P = 1..Len(P)
        /\ Len(B) \in Nat /\ DOMAIN B = 1..Len(B) /\ P[h] = <<"style", of>>
        /\ \A j \in DOMAIN P : j # h => Before(content, j) \in DOMAIN B /\ P[j] = B[Before(content, j)]
        /\ \A i \in DOMAIN B : LET j == IF i < h THEN i ELSE i + 1 IN j \in DOMAIN P /\ j # h /\ Before(content, j) = i
        /\ \A i, j \in DOMAIN P : i # h /\ j # h /\ i < j => Before(content, i) < Before(content, j)
    BY Styling
  <1>2. S \in SUBSET (DOMAIN P \ {h}) /\ T \in SUBSET DOMAIN B
    BY <1>1 DEF Standing
  <1> HIDE DEF P, B, h
  <1>3. \A j \in DOMAIN P \ {h} : Before(content, j) \in DOMAIN B /\ P[j] = B[Before(content, j)]
    BY <1>1
  <1>4. \A j \in DOMAIN P \ {h} : j \in S <=> Before(content, j) \in T
    BY <1>3 DEF Standing
  <1>5. InOrder(f, S, T)
    <2>1. f \in [S -> T]
      BY <1>2, <1>4
    <2>2. ASSUME NEW t \in T PROVE \E j \in S : f[j] = t
      <3>1. PICK j \in DOMAIN P \ {h} : Before(content, j) = t
        BY <1>1, <1>2
      <3> QED BY <1>4, <3>1
    <2>3. \A i, j \in S : i < j => f[i] < f[j]
      BY <1>1, <1>2
    <2> QED BY <2>1, <2>2, <2>3 DEF InOrder
  <1>6. \A i \in S : Bare(P[i]) = Bare(B[f[i]])
    BY <1>2, <1>3
  <1>7. IsFiniteSet(DOMAIN P) /\ DOMAIN P \in SUBSET Nat /\ IsFiniteSet(DOMAIN B) /\ DOMAIN B \in SUBSET Nat
    <2>1. IsFiniteSet(1..Len(P)) /\ IsFiniteSet(1..Len(B))
      BY <1>1, FS_Interval
    <2> QED BY <1>1, <2>1
  <1> HIDE DEF f
  <1>8. Skeleton(P) = Skeleton(B)
    BY <1>5, <1>6, <1>7, SkeletonsAgree
  <1> QED BY <1>8, MarkedSkeleton DEF P, B

(* The pictures of a page are those of the diagrams, each once.            *)
LEMMA Pictures ==
  ASSUME NEW content \in Contents, NEW of, <<"close", "head">> \in Range(content)
  PROVE  LET P == PageOf(content, of)
             found == ExtractDiagrams(content) IN
         /\ \A j \in DOMAIN P : P[j][1] = "svg" => \E k \in DOMAIN found : P[j] = Picture(found, k)
         /\ Cardinality({j \in DOMAIN P : P[j][1] = "svg"}) = Len(found)
  <1> DEFINE P == PageOf(content, of)
             A == Inlined(content)
             B == Marked(content)
             h == HeadEnd(content)
             L == Left(content)
             found == ExtractDiagrams(content)
             svgs == {j \in DOMAIN P : P[j][1] = "svg"}
             at(k) == LET i == Rank(L, Place(found, k)) IN IF i < h THEN i ELSE i + 1
             g == [k \in DOMAIN found |-> at(k)]
  <1>1. /\ \A j \in DOMAIN P : j # h => Before(content, j) \in DOMAIN B /\ P[j] = B[Before(content, j)]
        /\ P[h] = <<"style", of>> /\ DOMAIN B = 1..Len(B) /\ Len(B) \in Nat /\ DOMAIN P = 1..Len(P)
        /\ \A i \in DOMAIN B : LET j == IF i < h THEN i ELSE i + 1 IN j \in DOMAIN P /\ j # h /\ Before(content, j) = i
        /\ \A i, j \in DOMAIN P : i # h /\ j # h /\ i < j => Before(content, i) < Before(content, j)
    BY Styling
  <1>2. /\ DOMAIN A = DOMAIN B
        /\ \A i \in DOMAIN A : B[i][1] = A[i][1] /\ (A[i][1] # "code" => B[i] = A[i])
    BY Marking
  <1>3. /\ \A i \in L : Rank(L, i) \in DOMAIN A /\ Nth(L, Rank(L, i)) = i
        /\ \A k \in DOMAIN found : Place(found, k) \in L
        /\ \A i \in DOMAIN A : Nth(L, i) \in L /\ Nth(L, i) \in 1..Len(content)
        /\ \A i \in DOMAIN A :
             \/ A[i] = content[Nth(L, i)] /\ \A k \in DOMAIN found : Place(found, k) # Nth(L, i)
             \/ \E k \in DOMAIN found : Place(found, k) = Nth(L, i) /\ A[i] = Picture(found, k)
    BY Inlining
  <1>4. /\ Len(found) \in Nat /\ DOMAIN found = 1..Len(found)
        /\ \A k \in DOMAIN found : found[k].span[1] \in 1..Len(content)
        /\ \A j, k \in DOMAIN found : j < k => found[j].span[1] < found[k].span[1]
    BY SpansOfDiagrams
  <1>5. \A i \in 1..Len(content) : content[i][1] # "svg"
    BY ContentsAreWritten DEF Written
  <1>6. \A k : Picture(found, k)[1] = "svg"
    BY DEF Picture
  <1> HIDE DEF P, A, B, h, L, found
  <1>7. ASSUME NEW i \in DOMAIN A, A[i][1] = "svg"
        PROVE  \E k \in DOMAIN found : Place(found, k) = Nth(L, i) /\ A[i] = Picture(found, k)
    BY <1>3, <1>5, <1>7
  <1>8. ASSUME NEW j \in svgs
        PROVE  \E k \in DOMAIN found : /\ P[j] = Picture(found, k) /\ j # h
                                       /\ Before(content, j) \in DOMAIN A /\ Place(found, k) = Nth(L, Before(content, j))
    <2>1. j # h /\ Before(content, j) \in DOMAIN A /\ P[j] = B[Before(content, j)] /\ P[j][1] = "svg"
      BY <1>1, <1>2
    <2>2. A[Before(content, j)] = P[j]
      BY <1>2, <2>1
    <2> QED BY <1>7, <2>1, <2>2
  <1>9. ASSUME NEW k \in DOMAIN found
        PROVE  at(k) \in svgs /\ at(k) # h /\ Before(content, at(k)) = Rank(L, Place(found, k))
    <2> DEFINE i == Rank(L, Place(found, k))
    <2>1. i \in DOMAIN A /\ Nth(L, i) = Place(found, k)
      BY <1>3
    <2>2. A[i][1] = "svg"
      BY <1>3, <1>6, <2>1
    <2>3. at(k) \in DOMAIN P /\ at(k) # h /\ Before(content, at(k)) = i
      BY <1>1, <1>2, <2>1
    <2>4. P[at(k)][1] = "svg"
      <3> HIDE DEF at
      <3> QED BY <1>1, <1>2, <2>1, <2>2, <2>3
    <2> QED BY <2>3, <2>4
  <1> HIDE DEF at
  <1>10. g \in Injection(DOMAIN found, svgs)
    <2>1. g \in [DOMAIN found -> svgs]
      BY <1>9
    <2>2. ASSUME NEW j \in DOMAIN found, NEW k \in DOMAIN found, g[j] = g[k] PROVE j = k
      <3>1. Rank(L, Place(found, j)) = Rank(L, Place(found, k))
        BY <1>9, <2>2
      <3>2. Place(found, j) = Place(found, k)
        BY <1>3, <3>1
      <3>3. found[j].span[1] = found[k].span[1]
        BY <1>4, <3>2 DEF Place
      <3>4. ~(j < k) /\ ~(k < j)
        BY <1>4, <3>3
      <3> QED BY <1>4, <3>4
    <2> QED BY <2>1, <2>2 DEF Injection, IsInjective
  <1>11. g \in Surjection(DOMAIN found, svgs)
    <2>1. ASSUME NEW j \in svgs PROVE \E k \in DOMAIN found : g[k] = j
      <3>1. PICK k \in DOMAIN found : j # h /\ Before(content, j) \in DOMAIN A /\ Place(found, k) = Nth(L, Before(content, j))
        BY <1>8
      <3>2. Before(content, at(k)) = Rank(L, Nth(L, Before(content, j)))
        BY <1>9, <3>1
      <3>3. Rank(L, Nth(L, Before(content, j))) = Before(content, j)
        <4>1. L \in SUBSET Nat /\ IsFiniteSet(L) /\ DOMAIN A = 1..Cardinality(L)
          BY Inlining, PickedPlaces DEF L, A, Inlined, InlineDiagrams, Left, Gone, Place
        <4> QED BY <3>1, <4>1, NthHasRank
      <3>4. at(k) = j
        <4>1. at(k) \in DOMAIN P /\ j \in DOMAIN P /\ at(k) # h /\ DOMAIN P \in SUBSET Nat
          BY <1>1, <1>9
        <4>2. ~(at(k) < j) /\ ~(j < at(k))
          <5>1. Before(content, at(k)) = Before(content, j) /\ Before(content, j) \in Nat
            BY <1>1, <1>2, <3>1, <3>2, <3>3
          <5> QED BY <1>1, <3>1, <4>1, <5>1
        <4> QED BY <4>1, <4>2
      <3> QED BY <3>4
    <2>2. g \in [DOMAIN found -> svgs]
      BY <1>9
    <2> QED BY <2>1, <2>2 DEF Surjection
  <1>12. Cardinality(svgs) = Len(found)
    <2>1. IsFiniteSet(DOMAIN found) /\ Cardinality(DOMAIN found) = Len(found)
      BY <1>4, FS_Interval
    <2>2. ExistsBijection(DOMAIN found, svgs)
      BY <1>10, <1>11 DEF ExistsBijection, Bijection
    <2> QED BY <2>1, <2>2, FS_Bijection
  <1> QED BY <1>8, <1>12 DEF P, found

(* The print styles of a page are those of its theme, and nothing else     *)
(* there is one.                                                           *)
LEMMA PageStyles ==
  ASSUME NEW content \in Contents, NEW of, <<"close", "head">> \in Range(content)
  PROVE  Css(PageOf(content, of)) = ThemeCss(Theme[of])
  <1> DEFINE P == PageOf(content, of)
             A == Inlined(content)
             B == Marked(content)
             h == HeadEnd(content)
             L == Left(content)
             found == ExtractDiagrams(content)
  <1>1. /\ \A j \in DOMAIN P : j # h => Before(content, j) \in DOMAIN B /\ P[j] = B[Before(content, j)]
        /\ P[h] = <<"style", of>> /\ h \in 1..Len(B) /\ DOMAIN P = 1..Len(P) /\ Len(P) = Len(B) + 1 /\ Len(B) \in Nat
    BY Styling
  <1>2. /\ DOMAIN A = DOMAIN B /\ \A i \in DOMAIN A : B[i][1] = A[i][1]
    BY Marking
  <1>3. /\ \A i \in DOMAIN A : Nth(L, i) \in 1..Len(content)
        /\ \A i \in DOMAIN A : A[i] = content[Nth(L, i)] \/ \E k \in DOMAIN found : A[i] = Picture(found, k)
    BY Inlining
  <1>4. \A i \in 1..Len(content) : content[i][1] # "style"
    BY ContentsAreWritten DEF Written
  <1>5. \A k : Picture(found, k)[1] # "style"
    BY DEF Picture
  <1> HIDE DEF P, A, B, h, L, found
  <1>6. \A j \in DOMAIN P : P[j][1] = "style" <=> j = h
    <2>1. \A i \in DOMAIN A : A[i][1] # "style"
      BY <1>3, <1>4, <1>5
    <2> QED BY <1>1, <1>2, <2>1
  <1>7. h \in DOMAIN P /\ P[h][2] = of
    BY <1>1
  <1>8. (CHOOSE i \in DOMAIN P : P[i][1] = "style") = h
    BY <1>6, <1>7
  <1> QED BY <1>7, <1>8 DEF Css, P

(* A theme that is valid: its amounts are numbers, and its page has room.  *)
Printable == PageSize \cup Margins \cup {<<"diagram", "captionGapPoints">>, <<"typography", "caption", "lineHeightPoints">>}
LEMMA ThemeAmounts ==
  ASSUME NEW of \in DOMAIN Theme, ValidateTheme(Theme[of]) = {}
  PROVE  LET t == Theme[of] IN
         /\ \A path \in Printable \cup {<<"diagram", "minimumLabelPoints">>} : Amount(t, path) \in Int
         /\ PageGeometry(t).columnWidth > 0 /\ PageGeometry(t).columnHeight > 0
         /\ Amount(t, <<"diagram", "minimumLabelPoints">>) > 0
         /\ \A path \in Printable : ThemeCss(t)[path] = t[path]
  <1> DEFINE t == Theme[of]
  <1>1. \A path, zero : RequirePoints(t, path, zero) = {} => path \in DOMAIN t /\ t[path][1] = "number" /\ (Amount(t, path) > 0 \/ (zero /\ Amount(t, path) = 0))
    BY DEF RequirePoints, ValueAt
  <1>2. \A path, zero : RequirePoints(t, path, zero) = {} => Amount(t, path) \in Int
    BY <1>1, ThemesAreInWholePoints DEF Amount
  <1>3. /\ ValidatePage(t) = {}
        /\ \A path \in PositivePaths : RequirePoints(t, path, FALSE) = {}
        /\ \A path \in NonNegativePaths : RequirePoints(t, path, TRUE) = {}
    <2> DEFINE colors      == UNION {RequireColor(t, path) : path \in ColorPaths}
               positive    == UNION {RequirePoints(t, path, FALSE) : path \in PositivePaths}
               nonNegative == UNION {RequirePoints(t, path, TRUE) : path \in NonNegativePaths}
    <2>1. ValidateTheme(t) = ValidatePage(t) \cup ValidateRoles(t) \cup ValidateFonts(t) \cup colors \cup positive \cup nonNegative
      BY DEF ValidateTheme
    <2>2. ValidatePage(t) = {} /\ positive = {} /\ nonNegative = {}
      <3> HIDE DEF colors, positive, nonNegative, t
      <3>1. ValidateTheme(t) = {}
        BY DEF t
      <3> QED BY <2>1, <3>1
    <2>3. \A path \in PositivePaths : RequirePoints(t, path, FALSE) = {}
      BY <2>2
    <2>4. \A path \in NonNegativePaths : RequirePoints(t, path, TRUE) = {}
      BY <2>2
    <2> QED BY <2>2, <2>3, <2>4
  <1>4. /\ \A path \in PageSize \cup Margins : RequirePoints(t, path, path \in Margins) = {}
        /\ PageGeometry(t).columnWidth > 0 /\ PageGeometry(t).columnHeight > 0
    <2> DEFINE wrong == UNION {RequirePoints(t, path, path \in Margins) : path \in PageSize \cup Margins}
    <2>1. wrong = {} /\ ~(PageGeometry(t).columnWidth <= 0 \/ PageGeometry(t).columnHeight <= 0)
      BY <1>3 DEF ValidatePage
    <2>2. \A path \in PageSize \cup Margins : RequirePoints(t, path, path \in Margins) = {}
      BY <2>1
    <2>3. \A path \in PageSize \cup Margins : Amount(t, path) \in Int
      BY <1>2, <2>2
    <2>4. PageGeometry(t).columnWidth \in Int /\ PageGeometry(t).columnHeight \in Int
      BY <2>3 DEF PageGeometry, PageSize, Margins
    <2> QED BY <2>1, <2>2, <2>4
  <1>5. /\ <<"diagram", "captionGapPoints">> \in NonNegativePaths
        /\ <<"typography", "caption", "lineHeightPoints">> \in PositivePaths
        /\ <<"diagram", "minimumLabelPoints">> \in PositivePaths
    BY DEF NonNegativePaths, PositivePaths, TypographyEntries
  <1>6. \A path \in Printable \cup {<<"diagram", "minimumLabelPoints">>} : Amount(t, path) \in Int
    BY <1>2, <1>3, <1>4, <1>5 DEF Printable
  <1>7. Amount(t, <<"diagram", "minimumLabelPoints">>) > 0
    BY <1>1, <1>3, <1>5
  <1>8. ASSUME NEW path \in Printable PROVE ThemeCss(t)[path] = t[path]
    <2> DEFINE relative == <<"code", "relative">>
               printed  == (PageSize \cup Margins \cup RolePaths \cup ColorPaths \cup PositivePaths \cup NonNegativePaths)
                           \ ({"diagram"} \X {"failureHighlight", "minimumLabelPoints", "padPixels"})
    <2>1. path # relative
      BY DEF Printable, PageSize, Margins, Margin
    <2>2. path \notin {"diagram"} \X {"failureHighlight", "minimumLabelPoints", "padPixels"}
      BY DEF Printable, PageSize, Margins, Margin
    <2>3. path \in printed
      BY <1>5, <2>2 DEF Printable
    <2> HIDE DEF printed
    <2> QED BY <2>1, <2>3 DEF ThemeCss, printed
  <1> QED BY <1>4, <1>6, <1>7, <1>8

LEMMA Limits ==
  ASSUME theme \in DOMAIN Theme, ValidateTheme(Theme[theme]) = {}
  PROVE  LET css == ThemeCss(Theme[theme])
             caption == css[<<"diagram", "captionGapPoints">>][2] + 2 * LineHeight(css, "caption") IN
         /\ PrintedColumn(css) = ColumnWidth /\ PrintedHeight(css) = DiagramHeight + caption
         /\ ColumnWidth \in Int /\ ColumnWidth > 0 /\ DiagramHeight \in Int /\ caption \in Int
         /\ MinimumLabel \in Int /\ MinimumLabel > 0
  <1> DEFINE t == Theme[theme]
             css == ThemeCss(t)
  <1>1. /\ \A path \in Printable \cup {<<"diagram", "minimumLabelPoints">>} : Amount(t, path) \in Int
        /\ PageGeometry(t).columnWidth > 0
        /\ Amount(t, <<"diagram", "minimumLabelPoints">>) > 0
        /\ \A path \in Printable : css[path] = t[path]
    BY ThemeAmounts
  <1>2. \A path \in Printable : Amount(css, path) = Amount(t, path)
    BY <1>1 DEF Amount
  <1>3. \A side \in {"top", "right", "bottom", "left"} : Margin(side) \in Printable
    BY DEF Printable, Margins
  <1>4. /\ <<"page", "widthPoints">> \in Printable /\ <<"page", "heightPoints">> \in Printable
        /\ <<"diagram", "captionGapPoints">> \in Printable /\ <<"typography", "caption", "lineHeightPoints">> \in Printable
    BY DEF Printable, PageSize
  <1> HIDE DEF css
  <1>5. PageGeometry(css) = PageGeometry(t)
    BY <1>2, <1>3, <1>4 DEF PageGeometry
  <1>6. PageGeometry(t).columnWidth \in Int /\ PageGeometry(t).columnHeight \in Int
    BY <1>1, <1>3, <1>4 DEF PageGeometry
  <1>7. css[<<"diagram", "captionGapPoints">>][2] + 2 * LineHeight(css, "caption") = CaptionReserve(t) /\ CaptionReserve(t) \in Int
    BY <1>1, <1>2, <1>4 DEF CaptionReserve, LineHeight, Amount
  <1> QED BY <1>1, <1>5, <1>6, <1>7 DEF PrintedColumn, PrintedHeight, ColumnWidth, DiagramHeight, MinimumLabel, css

(* The widest of the diagrams needs the smallest scale, so all print at a  *)
(* scale at which their own width fits the column.                         *)
LEMMA Widest ==
  ASSUME NEW n \in Nat, NEW E \in SUBSET (1..n), E # {}, NEW w \in [E -> Nat]
  PROVE  \E k \in E : \A j \in E : w[j] <= w[k]
  <1> DEFINE Has(m) == \E k \in E : k <= m /\ \A j \in E : j <= m => w[j] <= w[k]
             None(m) == \A k \in E : k > m
             W == {m \in 0..n : ~None(m) /\ ~Has(m)}
  <1>1. W = {}
    <2> SUFFICES ASSUME W # {} PROVE FALSE
      OBVIOUS
    <2>1. PICK m \in W : \A x \in W : m <= x
      <3>1. W \in SUBSET Nat
        OBVIOUS
      <3> HIDE DEF W
      <3> QED BY <3>1, LeastNat
    <2>2. m \in 0..n /\ ~None(m) /\ ~Has(m)
      BY <2>1
    <2>3. m # 0
      BY <2>2
    <2>4. m - 1 \in 0..n /\ m - 1 \notin W
      <3> HIDE DEF W
      <3> QED BY <2>1, <2>2, <2>3
    <2>5. CASE None(m - 1)
      <3>1. \A j \in E : j <= m => j = m
        BY <2>2, <2>5
      <3>2. m \in E
        BY <2>2, <3>1
      <3>3. Has(m)
        BY <2>2, <3>1, <3>2
      <3> QED BY <2>2, <3>3
    <2>6. CASE Has(m - 1)
      <3>1. PICK k \in E : k <= m - 1 /\ \A j \in E : j <= m - 1 => w[j] <= w[k]
        BY <2>6
      <3>2. \A j \in E : j <= m => j <= m - 1 \/ j = m
        BY <2>2
      <3>3. CASE m \in E /\ w[k] <= w[m]
        <4>1. \A j \in E : j <= m => w[j] <= w[m]
          BY <3>1, <3>2, <3>3
        <4> QED BY <2>2, <3>3, <4>1
      <3>4. CASE m \in E => w[m] <= w[k]
        <4>1. \A j \in E : j <= m => w[j] <= w[k]
          BY <3>1, <3>2, <3>4
        <4> QED BY <2>2, <3>1, <4>1
      <3>5. m \in E => w[m] \in Nat /\ w[k] \in Nat
        OBVIOUS
      <3> QED BY <3>3, <3>4, <3>5
    <2> QED BY <2>2, <2>4, <2>5, <2>6
  <1>2. n \in 0..n /\ ~None(n)
    <2>1. PICK k \in E : TRUE
      OBVIOUS
    <2> QED BY <2>1
  <1>3. Has(n)
    BY <1>1, <1>2
  <1> QED BY <1>3

LEMMA Monotone == ASSUME NEW a \in Nat, NEW b \in Nat, NEW c \in Nat, a <= b PROVE c * a <= c * b /\ a * c <= b * c
  OBVIOUS

Less(s, t) == s[1] * t[2] < t[1] * s[2]

LEMMA Scales ==
  ASSUME ColumnWidth \in Int, ColumnWidth > 0, NEW n \in Nat, NEW found, DOMAIN found = 1..n,
         \A k \in 1..n : found[k].source \in DOMAIN Diagram
  PROVE  LET Erd(k) == Diagram[found[k].source].kind = "erd"
             scale(k) == PrintScales(found)[k] IN
         /\ \A k \in 1..n : /\ scale(k)[1] \in Nat /\ scale(k)[2] \in Nat /\ scale(k)[1] > 0 /\ scale(k)[2] > 0
                            /\ Diagram[found[k].source].width * scale(k)[1] <= ColumnWidth * scale(k)[2]
         /\ \A j, k \in 1..n : Erd(j) /\ Erd(k) => scale(j) = scale(k)
  <1> DEFINE C == ColumnWidth
             width(k) == Diagram[found[k].source].width
             own(k) == DiagramScale(found[k])
             erds == {k \in DOMAIN found : Diagram[found[k].source].kind = "erd"}
             shared == CHOOSE k \in erds : \A j \in erds : ~Less(own(j), own(k))
             scale(k) == PrintScales(found)[k]
  <1>1. \A k \in 1..n : width(k) \in Nat
    BY DiagramsAreMeasured
  <1>2. \A k \in 1..n : own(k) = IF width(k) <= C THEN <<1, 1>> ELSE <<C, width(k)>>
    BY DEF DiagramScale
  <1>3. \A k \in 1..n : scale(k) = own(IF k \in erds THEN shared ELSE k)
    BY DEF PrintScales, Less
  <1> HIDE DEF own, width, scale, C
  <1>4. C \in Nat /\ C > 0
    BY DEF C
  <1>5. ASSUME NEW k \in 1..n
        PROVE  own(k)[1] \in Nat /\ own(k)[2] \in Nat /\ own(k)[1] > 0 /\ own(k)[2] > 0
    BY <1>1, <1>2, <1>4
  <1>6. ASSUME NEW j \in 1..n, NEW k \in 1..n, width(j) <= width(k)
        PROVE  ~Less(own(j), own(k))
    <2>1. /\ width(j) \in Nat /\ width(k) \in Nat
          /\ own(j)[1] = IF width(j) <= C THEN 1 ELSE C
          /\ own(j)[2] = IF width(j) <= C THEN 1 ELSE width(j)
          /\ own(k)[1] = IF width(k) <= C THEN 1 ELSE C
          /\ own(k)[2] = IF width(k) <= C THEN 1 ELSE width(k)
      BY <1>1, <1>2
    <2>2. CASE width(k) <= C
      BY <1>4, <1>6, <2>1, <2>2 DEF Less
    <2>3. CASE width(k) > C /\ width(j) <= C
      BY <1>4, <1>6, <2>1, <2>3 DEF Less
    <2>4. CASE width(k) > C /\ width(j) > C
      BY <1>4, <1>6, <2>1, <2>4, Monotone DEF Less
    <2> QED BY <1>4, <2>1, <2>2, <2>3, <2>4
  <1>7. ASSUME NEW j \in 1..n, NEW k \in 1..n, ~Less(own(j), own(k))
        PROVE  width(j) * own(k)[1] <= C * own(k)[2]
    <2>1. /\ width(j) \in Nat /\ width(k) \in Nat
          /\ own(j)[1] = IF width(j) <= C THEN 1 ELSE C
          /\ own(j)[2] = IF width(j) <= C THEN 1 ELSE width(j)
          /\ own(k)[1] = IF width(k) <= C THEN 1 ELSE C
          /\ own(k)[2] = IF width(k) <= C THEN 1 ELSE width(k)
      BY <1>1, <1>2
    <2>2. CASE width(j) > C
      BY <1>4, <1>5, <1>7, <2>1, <2>2 DEF Less
    <2>3. CASE width(j) <= C /\ width(k) <= C
      BY <1>4, <2>1, <2>3
    <2>4. CASE width(j) <= C /\ width(k) > C
      BY <1>4, <2>1, <2>4, Monotone
    <2> QED BY <1>4, <2>1, <2>2, <2>3, <2>4
  <1>8. ASSUME erds # {} PROVE shared \in erds /\ \A j \in erds : ~Less(own(j), own(shared))
    <2>1. erds \in SUBSET (1..n)
      OBVIOUS
    <2> DEFINE w == [k \in erds |-> width(k)]
    <2>2. w \in [erds -> Nat]
      BY <1>1, <2>1
    <2> HIDE DEF w
    <2>3. PICK k \in erds : \A j \in erds : w[j] <= w[k]
      BY <1>8, <2>1, <2>2, Widest
    <2>4. \A j \in erds : ~Less(own(j), own(k))
      BY <1>6, <2>1, <2>3 DEF w
    <2> HIDE DEF erds
    <2> QED BY <2>3, <2>4
  <1>9. ASSUME NEW k \in 1..n
        PROVE  /\ scale(k)[1] \in Nat /\ scale(k)[2] \in Nat /\ scale(k)[1] > 0 /\ scale(k)[2] > 0
               /\ width(k) * scale(k)[1] <= C * scale(k)[2]
    <2>1. CASE k \in erds
      <3>1. shared \in 1..n /\ ~Less(own(k), own(shared)) /\ scale(k) = own(shared)
        BY <1>3, <1>8, <2>1
      <3> HIDE DEF shared
      <3> QED BY <1>5, <1>7, <3>1
    <2>2. CASE k \notin erds
      <3>1. scale(k) = own(k)
        BY <1>3, <2>2
      <3>2. ~Less(own(k), own(k))
        <4>1. width(k) <= width(k)
          BY <1>1
        <4> QED BY <1>6, <4>1
      <3> QED BY <1>5, <1>7, <3>1, <3>2
    <2> QED BY <2>1, <2>2
  <1>10. \A j, k \in erds : scale(j) = scale(k)
    BY <1>3
  <1> QED BY <1>9, <1>10 DEF scale, width, C

(* A document without layout problems: each diagram at its scale is inside *)
(* the page, its labels are as large as the theme asks and apart.          *)
LEMMA NoProblems ==
  ASSUME NEW found, LayoutProblems(found) = {}, NEW k \in DOMAIN found
  PROVE  LET m == Diagram[found[k].source]
             scale == PrintScales(found)[k] IN
         /\ \A l \in m.labels : ~(l.font * scale[1] < MinimumLabel * scale[2])
         /\ ~(m.height * scale[1] > DiagramHeight * scale[2])
         /\ \A l, o \in m.labels : ~CrossesLabel(l, o)
  <1> DEFINE m == Diagram[found[k].source]
             scale == PrintScales(found)[k]
             codes(i) == DiagramSizeProblems(Diagram[found[i].source], PrintScales(found)[i]) \cup GeometryProblems(Diagram[found[i].source])
  <1>1. LayoutProblems(found) = UNION {{<<found[i].ordinal, code>> : code \in codes(i)} : i \in DOMAIN found}
    BY DEF LayoutProblems
  <1>2. codes(k) = {}
    <2> SUFFICES ASSUME NEW c \in codes(k) PROVE FALSE
      OBVIOUS
    <2> HIDE DEF codes
    <2> DEFINE of(i) == {<<found[i].ordinal, code>> : code \in codes(i)}
    <2>1. <<found[k].ordinal, c>> \in of(k)
      OBVIOUS
    <2>2. of(k) \in {of(i) : i \in DOMAIN found}
      OBVIOUS
    <2> HIDE DEF of
    <2>3. UNION {of(i) : i \in DOMAIN found} # {}
      BY <2>1, <2>2
    <2> QED BY <1>1, <2>3 DEF of
  <1>3. DiagramSizeProblems(m, scale) = {} /\ GeometryProblems(m) = {}
    BY <1>2
  <1> HIDE DEF m, scale
  <1>4. /\ ~\E l \in m.labels : l.font * scale[1] < MinimumLabel * scale[2]
        /\ ~(m.height * scale[1] > DiagramHeight * scale[2])
    BY <1>3 DEF DiagramSizeProblems, ProblemIf
  <1>5. ~\E l \in m.labels : (\E o \in m.objects : CrossesShape(l, o)) \/ (\E o \in m.labels : CrossesLabel(l, o))
    BY <1>3 DEF GeometryProblems, ProblemIf
  <1> QED BY <1>4, <1>5 DEF m, scale

LEMMA ApartPixels ==
  ASSUME NEW a, NEW b, \A i \in 1..4 : a[i] \in Int /\ b[i] \in Int, ~Overlapping(a, b)
  PROVE  Pixels(a) \cap Pixels(b) = {}
  <1> SUFFICES ASSUME NEW x \in a[1]..(a[1] + a[3] - 1), NEW y \in a[2]..(a[2] + a[4] - 1),
                      x \in b[1]..(b[1] + b[3] - 1), y \in b[2]..(b[2] + b[4] - 1)
               PROVE  FALSE
    BY DEF Pixels
  <1>1. a[1] \in Int /\ a[2] \in Int /\ a[3] \in Int /\ a[4] \in Int /\ b[1] \in Int /\ b[2] \in Int /\ b[3] \in Int /\ b[4] \in Int
    OBVIOUS
  <1>2. 2 * a[1] < 2 * (b[1] + b[3]) - 1 /\ 2 * b[1] < 2 * (a[1] + a[3]) - 1
    BY <1>1
  <1>3. 2 * a[2] < 2 * (b[2] + b[4]) - 1 /\ 2 * b[2] < 2 * (a[2] + a[4]) - 1
    BY <1>1
  <1>4. ASSUME NEW i \in 1..2 PROVE 2 * a[i] < 2 * (b[i] + b[i + 2]) - 1 /\ 2 * b[i] < 2 * (a[i] + a[i + 2]) - 1
    <2>1. i = 1 \/ i = 2
      OBVIOUS
    <2> QED BY <1>2, <1>3, <2>1
  <1> QED BY <1>4 DEF Overlapping

(* What a printed page promises of its diagrams.                           *)
Fits(pdf) ==
  LET svgs    == {t \in Range(pdf) : t[1] = "svg"}
      css     == Css(pdf)
      caption == css[<<"diagram", "captionGapPoints">>][2] + 2 * LineHeight(css, "caption") IN
  /\ Skeleton(pdf) = Skeleton(html) /\ Cardinality({i \in DOMAIN pdf : pdf[i][1] = "svg"}) = Len(Diagrams)
  /\ \A t \in svgs : LET m == Diagram[t[2]] IN
       /\ m.width * t[3][1] <= PrintedColumn(css) * t[3][2]
       /\ m.height * t[3][1] + caption * t[3][2] <= PrintedHeight(css) * t[3][2]
       /\ \A l \in m.labels : l.font * t[3][1] >= MinimumLabel * t[3][2]
       /\ \A k, l \in m.labels : k.owner # l.owner => Pixels(k.box) \cap Pixels(l.box) = {}
  /\ \A t, u \in svgs : Diagram[t[2]].kind = "erd" /\ Diagram[u[2]].kind = "erd" => t[3] = u[3]

LEMMA PageFits ==
  ASSUME theme \in DOMAIN Theme, ValidateTheme(Theme[theme]) = {}, html \in Contents,
         <<"close", "head">> \in Range(html), LayoutProblems(Diagrams) = {}
  PROVE  Fits(PageOf(html, theme))
  <1> DEFINE pdf == PageOf(html, theme)
             css == ThemeCss(Theme[theme])
             caption == css[<<"diagram", "captionGapPoints">>][2] + 2 * LineHeight(css, "caption")
             n == Len(Diagrams)
             svgs == {t \in Range(pdf) : t[1] = "svg"}
             m(k) == Diagram[Diagrams[k].source]
             scale(k) == PrintScales(Diagrams)[k]
  <1>1. Css(pdf) = css
    BY PageStyles
  <1>2. /\ PrintedColumn(css) = ColumnWidth /\ PrintedHeight(css) = DiagramHeight + caption
        /\ ColumnWidth \in Int /\ ColumnWidth > 0 /\ DiagramHeight \in Int /\ caption \in Int
        /\ MinimumLabel \in Int /\ MinimumLabel > 0
    BY Limits
  <1>3. Skeleton(pdf) = Skeleton(html)
    BY PageSkeleton
  <1>4. /\ \A j \in DOMAIN pdf : pdf[j][1] = "svg" => \E k \in DOMAIN Diagrams : pdf[j] = Picture(Diagrams, k)
        /\ Cardinality({j \in DOMAIN pdf : pdf[j][1] = "svg"}) = n
    BY Pictures DEF Diagrams
  <1>5. n \in Nat /\ DOMAIN Diagrams = 1..n /\ \A k \in 1..n : Diagrams[k].source \in DOMAIN Diagram
    <2> DEFINE at(k) == Diagrams[k].span[1] + 1
    <2>1. /\ n \in Nat /\ DOMAIN Diagrams = 1..n
          /\ \A k \in 1..n : at(k) \in DOMAIN html /\ html[at(k)][1] = "d2" /\ html[at(k)][2] = Diagrams[k].source
      BY SpansOfDiagrams, DocumentsAreFinite DEF Diagrams
    <2> QED BY <2>1, DocumentsAreWritten
  <1> HIDE DEF n
  <1>6. /\ \A k \in 1..n : /\ scale(k)[1] \in Nat /\ scale(k)[2] \in Nat /\ scale(k)[1] > 0 /\ scale(k)[2] > 0
                           /\ m(k).width * scale(k)[1] <= ColumnWidth * scale(k)[2]
        /\ \A j, k \in 1..n : m(j).kind = "erd" /\ m(k).kind = "erd" => scale(j) = scale(k)
    BY <1>2, <1>5, Scales
  <1>7. \A k \in 1..n : /\ \A l \in m(k).labels : ~(l.font * scale(k)[1] < MinimumLabel * scale(k)[2])
                        /\ ~(m(k).height * scale(k)[1] > DiagramHeight * scale(k)[2])
                        /\ \A l, o \in m(k).labels : ~CrossesLabel(l, o)
    BY <1>5, NoProblems
  <1>8. \A k \in 1..n : /\ m(k).height \in Nat
                        /\ \A l \in m(k).labels : l.font \in Nat /\ \A i \in 1..4 : l.box[i] \in Int
    BY <1>5, DiagramsAreMeasured
  <1>9. \A t \in svgs : \E k \in 1..n : t = Picture(Diagrams, k)
    BY <1>4, <1>5 DEF Range
  <1>10. \A t \in svgs : \E k \in 1..n : t[2] = Diagrams[k].source /\ t[3] = scale(k)
    BY <1>9 DEF Picture
  <1> HIDE DEF pdf, css, caption, svgs, scale
  <1>11. ASSUME NEW k \in 1..n
         PROVE  /\ m(k).width * scale(k)[1] <= PrintedColumn(css) * scale(k)[2]
                /\ m(k).height * scale(k)[1] + caption * scale(k)[2] <= PrintedHeight(css) * scale(k)[2]
                /\ \A l \in m(k).labels : l.font * scale(k)[1] >= MinimumLabel * scale(k)[2]
                /\ \A l, o \in m(k).labels : l.owner # o.owner => Pixels(l.box) \cap Pixels(o.box) = {}
    <2>1. m(k).width * scale(k)[1] <= PrintedColumn(css) * scale(k)[2]
      BY <1>2, <1>6
    <2>2. m(k).height * scale(k)[1] + caption * scale(k)[2] <= PrintedHeight(css) * scale(k)[2]
      <3> DEFINE a == m(k).height * scale(k)[1]
                 q == scale(k)[2]
      <3>1. a \in Int /\ q \in Int
        BY <1>6, <1>8
      <3>2. a <= DiagramHeight * q
        BY <1>2, <1>7, <3>1
      <3>3. PrintedHeight(css) * q = DiagramHeight * q + caption * q
        BY <1>2, <3>1
      <3> HIDE DEF a, q
      <3>4. a + caption * q <= DiagramHeight * q + caption * q
        BY <1>2, <3>1, <3>2
      <3> QED BY <3>3, <3>4 DEF a, q
    <2>3. ASSUME NEW l \in m(k).labels PROVE l.font * scale(k)[1] >= MinimumLabel * scale(k)[2]
      <3>1. ~(l.font * scale(k)[1] < MinimumLabel * scale(k)[2])
        BY <1>7
      <3>2. l.font \in Int /\ scale(k)[1] \in Int /\ scale(k)[2] \in Int
        BY <1>6, <1>8
      <3> QED BY <1>2, <3>1, <3>2
    <2>4. ASSUME NEW l \in m(k).labels, NEW o \in m(k).labels, l.owner # o.owner
          PROVE  Pixels(l.box) \cap Pixels(o.box) = {}
      <3>1. ~Overlapping(l.box, o.box)
        BY <1>7, <2>4 DEF CrossesLabel
      <3>2. \A i \in 1..4 : l.box[i] \in Int /\ o.box[i] \in Int
        BY <1>8
      <3> QED BY <3>1, <3>2, ApartPixels
    <2> QED BY <2>1, <2>2, <2>3, <2>4
  <1>12. ASSUME NEW t \in svgs
         PROVE  LET d == Diagram[t[2]] IN
                /\ d.width * t[3][1] <= PrintedColumn(css) * t[3][2]
                /\ d.height * t[3][1] + caption * t[3][2] <= PrintedHeight(css) * t[3][2]
                /\ \A l \in d.labels : l.font * t[3][1] >= MinimumLabel * t[3][2]
                /\ \A k, l \in d.labels : k.owner # l.owner => Pixels(k.box) \cap Pixels(l.box) = {}
    <2>1. PICK k \in 1..n : t[2] = Diagrams[k].source /\ t[3] = scale(k)
      BY <1>10
    <2> QED BY <1>11, <2>1
  <1>13. \A t, u \in svgs : Diagram[t[2]].kind = "erd" /\ Diagram[u[2]].kind = "erd" => t[3] = u[3]
    BY <1>6, <1>10
  <1> QED BY <1>1, <1>3, <1>4, <1>12, <1>13 DEF Fits, n, svgs, caption, pdf

-----------------------------------------------------------------------------
(* From the rendering on: what was rendered so far are the first diagrams  *)
(* of the document, as long as none has a problem, and from the page that  *)
(* is put together on to the PDF its diagrams fit.                         *)
Printed == \/ stage \in {"search", "group", "print", "rasterize"}
           \/ stage \in {"finally", "over"} /\ verb = "build" /\ status = "0"

FitInv ==
  /\ stage \in {"render", "rendering", "inline"} => html \in Contents /\ theme \in DOMAIN Theme /\ ValidateTheme(Theme[theme]) = {}
  /\ stage \in {"render", "rendering"} /\ problems = {} =>
       /\ Len(rendered) = index - 1 /\ index - 1 <= Len(Diagrams)
       /\ \A k \in 1..Len(rendered) : rendered[k] = Diagrams[k]
  /\ stage = "inline" => rendered = Diagrams /\ LayoutProblems(rendered) = {}
  /\ Printed => Fits(page)

LEMMA FitsStays ==
  ASSUME Fits(page), UNCHANGED <<theme, html, page>> PROVE Fits(page)'
  BY DEF Fits, Diagrams, MinimumLabel

LEMMA LayoutStays ==
  ASSUME UNCHANGED <<theme, rendered>> PROVE LayoutProblems(rendered)' = LayoutProblems(rendered)
  <1>1. PrintScales(rendered)' = PrintScales(rendered)
    BY DEF PrintScales, DiagramScale, ColumnWidth
  <1>2. MinimumLabel' = MinimumLabel /\ DiagramHeight' = DiagramHeight
    BY DEF MinimumLabel, DiagramHeight
  <1> QED BY <1>1, <1>2 DEF LayoutProblems, DiagramSizeProblems

LEMMA FitNothing == ASSUME FitInv, UNCHANGED buildVars PROVE FitInv'
  <1>1. UNCHANGED <<theme, html, page, stage, verb, status, problems, index, rendered>>
    BY DEF buildVars
  <1>2. Diagrams' = Diagrams /\ LayoutProblems(rendered)' = LayoutProblems(rendered)
    BY <1>1, LayoutStays DEF Diagrams
  <1>3. Fits(page) => Fits(page)'
    BY <1>1, FitsStays
  <1> QED BY <1>1, <1>2, <1>3 DEF FitInv, Printed

(* Where a command ends without a PDF there is nothing to keep.            *)
LEMMA FitElsewhere ==
  ASSUME \/ stage' \in {"preflight", "preflighting", "read", "draw"}
         \/ stage' \in {"finally", "over"} /\ (status' # "0" \/ verb' = "check")
  PROVE  FitInv'
  BY DEF FitInv, Printed

LEMMA FitRead == ASSUME OutcomeInv, Read PROVE FitInv'
  <1>1. CASE Exits("uncaught") \/ Exits("1")
    BY <1>1, FitElsewhere DEF Exits
  <1>2. CASE \E loaded \in DOMAIN Theme, content \in Contents :
               /\ ValidateTheme(Theme[loaded]) = {} /\ stage' = "render" /\ theme' = loaded /\ html' = content /\ index' = 1
               /\ UNCHANGED rendered
    <2>1. rendered' = <<>>
      BY <1>2 DEF Read, OutcomeInv, OfTheRendered
    <2>2. html' \in Contents /\ theme' \in DOMAIN Theme /\ ValidateTheme(Theme[theme'])  = {}
      BY <1>2
    <2>3. Len(Diagrams') \in Nat
      BY <2>2, SpansOfDiagrams DEF Diagrams
    <2> QED BY <1>2, <2>1, <2>2, <2>3 DEF FitInv, Printed
  <1> QED BY <1>1, <1>2 DEF Read, Fail, Goes

LEMMA FitRender == ASSUME OutcomeInv, FitInv, RenderDiagram PROVE FitInv'
  <1>1. /\ stage = "rendering" /\ stage' = "render" /\ index' = index + 1 /\ UNCHANGED <<verb, theme, html, page, status>>
        /\ index \in Nat /\ index \in DOMAIN Diagrams /\ html \in Contents /\ rendered \in Seq(Drawable)
    BY DEF RenderDiagram, OutcomeInv, OfTheRendered, BuildTypes
  <1>2. Diagrams' = Diagrams /\ Len(Diagrams) \in Nat /\ DOMAIN Diagrams = 1..Len(Diagrams)
    BY <1>1, DiagramsAreNumbered DEF Diagrams
  <1>3. html' \in Contents /\ theme' \in DOMAIN Theme /\ ValidateTheme(Theme[theme']) = {}
    BY <1>1 DEF FitInv
  <1>4. ASSUME problems' = {}
        PROVE  /\ Len(rendered') = index' - 1 /\ index' - 1 <= Len(Diagrams')
               /\ \A k \in 1..Len(rendered') : rendered'[k] = Diagrams'[k]
    <2>1. problems = {} /\ rendered' = Append(rendered, Diagrams[index])
      BY <1>4 DEF RenderDiagram
    <2>2. Len(rendered) = index - 1 /\ \A k \in 1..Len(rendered) : rendered[k] = Diagrams[k]
      BY <1>1, <2>1 DEF FitInv
    <2>3. /\ Len(rendered') = Len(rendered) + 1 /\ rendered'[Len(rendered) + 1] = Diagrams[index]
          /\ \A k \in 1..Len(rendered) : rendered'[k] = rendered[k]
      BY <1>1, <2>1
    <2>4. \A k \in 1..Len(rendered') : k \in 1..Len(rendered) \/ k = Len(rendered) + 1
      BY <1>1, <2>2, <2>3
    <2> QED BY <1>1, <1>2, <2>2, <2>3, <2>4
  <1> QED BY <1>1, <1>3, <1>4 DEF FitInv, Printed

LEMMA FitMeasure == ASSUME OutcomeInv, FitInv, Measure PROVE FitInv'
  <1>1. CASE Fail(files)
    BY <1>1, FitElsewhere DEF Fail, Exits
  <1>2. CASE Checked(problems \cup LayoutProblems(rendered)) \/ (rendered = <<>> /\ Checked(problems))
    <2>1. /\ stage = "render" /\ index > Len(Diagrams) /\ index \in Nat /\ html \in Contents /\ rendered \in Seq(Drawable)
          /\ UNCHANGED <<verb, theme, html, rendered>>
      BY <1>2 DEF Measure, Alone, Checked, OutcomeInv, OfTheRendered, BuildTypes
    <2>2. CASE stage' = "draw"
      BY <2>2, FitElsewhere
    <2>3. CASE stage' \in {"finally", "over"} /\ verb = "check"
      BY <2>1, <2>3, FitElsewhere
    <2>4. CASE stage' = "inline" /\ problems = {} /\ (rendered = <<>> \/ LayoutProblems(rendered) = {})
      <3>1. /\ Len(rendered) = index - 1 /\ index - 1 <= Len(Diagrams)
            /\ \A k \in 1..Len(rendered) : rendered[k] = Diagrams[k]
        BY <2>1, <2>4 DEF FitInv
      <3>2. Len(Diagrams) \in Nat /\ Len(rendered) = Len(Diagrams)
        BY <2>1, <3>1, DiagramsAreNumbered
      <3>3. rendered = Diagrams
        <4>1. Diagrams = [k \in 1..Len(Diagrams) |-> Diagrams[k]]
          BY <2>1, <3>2, DiagramsAreNumbered DEF Diagrams, ExtractDiagrams
        <4>2. rendered = [k \in 1..Len(rendered) |-> rendered[k]]
          BY <2>1
        <4> QED BY <3>1, <3>2, <4>1, <4>2
      <3>4. LayoutProblems(rendered) = {}
        <4>1. CASE rendered = <<>>
          BY <4>1 DEF LayoutProblems
        <4> QED BY <2>4, <4>1
      <3>5. Diagrams' = Diagrams /\ LayoutProblems(rendered)' = LayoutProblems(rendered)
        BY <2>1, LayoutStays DEF Diagrams
      <3>6. html \in Contents /\ theme \in DOMAIN Theme /\ ValidateTheme(Theme[theme]) = {}
        BY <2>1 DEF FitInv
      <3> QED BY <2>1, <2>4, <3>3, <3>4, <3>5, <3>6 DEF FitInv, Printed
    <2>5. \/ stage' = "draw"
          \/ stage' \in {"finally", "over"} /\ verb = "check"
          \/ stage' = "inline" /\ problems = {} /\ (rendered = <<>> \/ LayoutProblems(rendered) = {})
      BY <1>2 DEF Checked, Exits
    <2> QED BY <2>2, <2>3, <2>4, <2>5
  <1> QED BY <1>1, <1>2 DEF Measure

LEMMA FitInline == ASSUME FitInv, Inline PROVE FitInv'
  <1>1. CASE Fail(files)
    BY <1>1, FitElsewhere DEF Fail, Exits
  <1>2. CASE <<"close", "head">> \in Range(html) /\ stage' = "search" /\ UNCHANGED <<theme, html>>
             /\ page' = WithPrintStyles(WithCodeBreakOpportunities(InlineDiagrams(html, rendered)), theme)
    <2>1. /\ html \in Contents /\ theme \in DOMAIN Theme /\ ValidateTheme(Theme[theme]) = {}
          /\ rendered = Diagrams /\ LayoutProblems(Diagrams) = {}
      BY DEF Inline, FitInv
    <2>2. page' = PageOf(html, theme)
      BY <1>2, <2>1 DEF PageOf, Marked, Inlined, Diagrams
    <2>3. Fits(PageOf(html, theme))
      BY <1>2, <2>1, PageFits
    <2>4. Fits(page)'
      BY <1>2, <2>2, <2>3 DEF Fits, Diagrams, MinimumLabel
    <2> QED BY <1>2, <2>4 DEF FitInv, Printed
  <1> QED BY <1>1, <1>2 DEF Inline, Goes

LEMMA FitPrinted ==
  ASSUME OutcomeInv, FitInv, FindHeading \/ ExtendGroup \/ KeepHeading \/ PrintPdf \/ RasterizePages \/ Finally
  PROVE  FitInv'
  <1>1. CASE stage' \in {"finally", "over"} /\ (status' # "0" \/ verb' = "check")
    BY <1>1, FitElsewhere
  <1>2. CASE /\ stage' \in {"search", "group", "print", "rasterize", "finally", "over"}
             /\ Printed /\ UNCHANGED <<theme, html, page>>
    BY <1>2, FitsStays DEF FitInv, Printed
  <1>3. verb \in {"check", "build"}
    BY DEF OutcomeInv, BuildTypes
  <1>4. CASE FindHeading \/ ExtendGroup \/ KeepHeading
    BY <1>1, <1>2, <1>4 DEF FindHeading, ExtendGroup, KeepHeading, Exits, Printed
  <1>5. CASE PrintPdf \/ RasterizePages
    BY <1>1, <1>2, <1>5 DEF PrintPdf, RasterizePages, Fail, Exits, Goes, Data, Printed
  <1>6. CASE Finally
    BY <1>1, <1>2, <1>3, <1>6 DEF Finally, Goes, Alone, Printed
  <1> QED BY <1>4, <1>5, <1>6

LEMMA StepKeepsFit == ASSUME OutcomeInv, FitInv, [FiguraNext]_figuraVars PROVE FitInv'
  <1>1. CASE UNCHANGED figuraVars \/ \E p \in Pids : LaunchOther(p) \/ Launcher(p)
    BY <1>1, FitNothing DEF figuraVars, LaunchOther, Launcher, ReapOther
  <1>2. CASE \/ \E k \in {"check", "build"} : Command(k)
             \/ Spawn("preflight", "preflighting", TRUE) \/ Preflight
             \/ DrawFailed \/ Throw \/ KillCommand
    BY <1>2, FitElsewhere DEF Command, Spawn, Preflight, DrawFailed, Throw, KillCommand, Goes, Exits
  <1>3. CASE Spawn("render", "rendering", FALSE)
    <2>1. stage = "render" /\ stage' = "rendering" /\ UNCHANGED <<theme, html, index, rendered, problems, verb, status>>
      BY <1>3 DEF Spawn, Goes, Data
    <2> QED BY <2>1 DEF FitInv, Diagrams, Printed
  <1> QED BY <1>1, <1>2, <1>3, FitRead, FitRender, FitMeasure, FitInline, FitPrinted DEF FiguraNext, BuildNext, CommandStep

(* The diagrams of a PDF stand where the document has them, and as printed *)
(* each fits the page of the PDF's own styles, for any document and theme: *)
(* scripts/layout-checks.mjs, inline-diagrams.mjs and print-pdf.mjs.       *)
THEOREM DiagramsFit == FiguraSpec => []PrintedDiagramsFit
  <1>1. FiguraInit => FitInv
    BY AbsentIsNoStatus DEF FiguraInit, BuildInit, FitInv, Printed
  <1>2. OutcomeInv /\ FitInv => PrintedDiagramsFit
    <2> SUFFICES ASSUME OutcomeInv, FitInv, stage = "over", verb = "build", status = "0" PROVE Fits(files.pdf)
      BY DEF PrintedDiagramsFit, Fits
    <2>1. files.pdf = page /\ Fits(page)
      BY DEF OutcomeInv, AtTheEnd, FitInv, Printed
    <2> QED BY <2>1
  <1>3. QED BY <1>1, <1>2, OutcomeInitially, StepKeepsOutcome, StepKeepsFit, PTL DEF FiguraSpec

-----------------------------------------------------------------------------
(* Elements that nest: each opening tag has its closing tag, an element    *)
(* that opens inside another closes there, and no heading is in a heading. *)
Tags(tokens, kind) == {i \in DOMAIN tokens : tokens[i][1] = kind}
Nests(tokens, partner) ==
  /\ Len(tokens) \in Nat /\ DOMAIN tokens = 1..Len(tokens)
  /\ partner \in [Tags(tokens, "open") -> Tags(tokens, "close")]
  /\ \A c \in Tags(tokens, "close") : \E o \in Tags(tokens, "open") : partner[o] = c
  /\ \A o \in Tags(tokens, "open") : /\ o < partner[o] /\ tokens[o] = <<"open", tokens[o][2]>>
                                     /\ tokens[partner[o]] = <<"close", tokens[o][2]>>
  /\ \A o, q \in Tags(tokens, "open") : o < q /\ q < partner[o] =>
       partner[q] < partner[o] /\ (tokens[o][2] \in Headings => tokens[q][2] \notin Headings)
WellNested(tokens) == \E partner \in [Tags(tokens, "open") -> Tags(tokens, "close")] : Nests(tokens, partner)

(* Positions that hold whole elements.                                     *)
Whole(tokens, partner, start, end) ==
  /\ start \in Nat /\ end \in Nat /\ 1 <= start /\ start < end /\ end <= Len(tokens) + 1
  /\ \A o \in Tags(tokens, "open") : start <= o /\ o < end <=> start <= partner[o] /\ partner[o] < end

LEMMA Partners ==
  ASSUME NEW tokens, NEW partner, Nests(tokens, partner)
  PROVE  /\ \A o \in Tags(tokens, "open") : o \in 1..Len(tokens) /\ partner[o] \in 1..Len(tokens) /\ o < partner[o]
         /\ \A o, q \in Tags(tokens, "open") : partner[o] # q /\ (partner[o] = partner[q] => o = q)
         /\ \A o, q \in Tags(tokens, "open") : o < q /\ q < partner[o] => partner[q] < partner[o]
         /\ Len(tokens) \in Nat
  <1>1. \A o \in Tags(tokens, "open") : o \in 1..Len(tokens) /\ partner[o] \in 1..Len(tokens) /\ o < partner[o] /\ Len(tokens) \in Nat
    BY DEF Nests, Tags
  <1>2. \A o, q \in Tags(tokens, "open") : partner[o] # q
    BY DEF Nests, Tags
  <1>3. \A o, q \in Tags(tokens, "open") : o < q /\ q < partner[o] => partner[q] < partner[o]
    BY DEF Nests
  <1>4. ASSUME NEW o \in Tags(tokens, "open"), NEW q \in Tags(tokens, "open"), partner[o] = partner[q] PROVE o = q
    <2>1. ~(o < q) /\ ~(q < o)
      BY <1>1, <1>3, <1>4
    <2> QED BY <1>1, <2>1
  <1>5. Len(tokens) \in Nat
    BY DEF Nests
  <1> QED BY <1>1, <1>2, <1>3, <1>4, <1>5

LEMMA ElementIsWhole ==
  ASSUME NEW tokens, NEW partner, Nests(tokens, partner), NEW a \in Tags(tokens, "open")
  PROVE  Whole(tokens, partner, a, partner[a] + 1)
  <1>1. /\ \A o \in Tags(tokens, "open") : o \in 1..Len(tokens) /\ partner[o] \in 1..Len(tokens) /\ o < partner[o]
        /\ \A o, q \in Tags(tokens, "open") : partner[o] # q /\ (partner[o] = partner[q] => o = q)
        /\ \A o, q \in Tags(tokens, "open") : o < q /\ q < partner[o] => partner[q] < partner[o]
        /\ Len(tokens) \in Nat
    BY Partners
  <1>2. ASSUME NEW o \in Tags(tokens, "open"), a <= o, o < partner[a] + 1
        PROVE  a <= partner[o] /\ partner[o] < partner[a] + 1
    <2>1. CASE o = a
      BY <1>1, <2>1
    <2>2. CASE o # a
      <3>1. a < o /\ o < partner[a]
        BY <1>1, <1>2, <2>2
      <3> QED BY <1>1, <3>1
    <2> QED BY <2>1, <2>2
  <1>3. ASSUME NEW o \in Tags(tokens, "open"), a <= partner[o], partner[o] < partner[a] + 1
        PROVE  a <= o /\ o < partner[a] + 1
    <2>1. ~(o < a)
      BY <1>1, <1>3
    <2> QED BY <1>1, <1>3, <2>1
  <1> QED BY <1>1, <1>2, <1>3 DEF Whole

LEMMA JoinedAreWhole ==
  ASSUME NEW tokens, NEW partner, Nests(tokens, partner), NEW a, NEW b, NEW c,
         Whole(tokens, partner, a, b), Whole(tokens, partner, b, c)
  PROVE  Whole(tokens, partner, a, c)
  <1>1. \A o \in Tags(tokens, "open") : o \in Nat /\ partner[o] \in Nat
    BY Partners
  <1>2. a \in Nat /\ b \in Nat /\ c \in Nat /\ a < b /\ b < c
    BY DEF Whole
  <1>3. ASSUME NEW o \in Tags(tokens, "open") PROVE a <= o /\ o < c <=> a <= partner[o] /\ partner[o] < c
    <2>1. /\ a <= o /\ o < b <=> a <= partner[o] /\ partner[o] < b
          /\ b <= o /\ o < c <=> b <= partner[o] /\ partner[o] < c
      BY DEF Whole
    <2> QED BY <1>1, <1>2, <2>1
  <1> QED BY <1>2, <1>3 DEF Whole

(* In whole elements each tag opens as often as it closes.                 *)
Balanced(tokens, s, e, tag) ==
  Cardinality({i \in s..(e - 1) : tokens[i] = <<"open", tag>>}) = Cardinality({i \in s..(e - 1) : tokens[i] = <<"close", tag>>})

LEMMA WholeIsBalanced ==
  ASSUME NEW tokens, NEW partner, Nests(tokens, partner), NEW s, NEW e, Whole(tokens, partner, s, e), NEW tag
  PROVE  Balanced(tokens, s, e, tag)
  <1> DEFINE O == {i \in s..(e - 1) : tokens[i] = <<"open", tag>>}
             C == {i \in s..(e - 1) : tokens[i] = <<"close", tag>>}
             g == [o \in O |-> partner[o]]
  <1>1. s \in Nat /\ e \in Nat /\ 1 <= s /\ e <= Len(tokens) + 1 /\ Len(tokens) \in Nat /\ DOMAIN tokens = 1..Len(tokens)
    BY DEF Whole, Nests
  <1>2. O \in SUBSET Tags(tokens, "open") /\ C \in SUBSET Tags(tokens, "close")
    BY <1>1 DEF Tags
  <1>3. \A o \in Tags(tokens, "open") : /\ o \in Nat /\ partner[o] \in Nat /\ (s <= o /\ o < e <=> s <= partner[o] /\ partner[o] < e)
                                        /\ tokens[o] = <<"open", tokens[o][2]>> /\ tokens[partner[o]] = <<"close", tokens[o][2]>>
    <2>1. \A o \in Tags(tokens, "open") : o \in Nat /\ partner[o] \in Nat
      BY Partners
    <2>2. \A o \in Tags(tokens, "open") : s <= o /\ o < e <=> s <= partner[o] /\ partner[o] < e
      BY DEF Whole
    <2>3. \A o \in Tags(tokens, "open") : tokens[o] = <<"open", tokens[o][2]>> /\ tokens[partner[o]] = <<"close", tokens[o][2]>>
      BY DEF Nests
    <2> QED BY <2>1, <2>2, <2>3
  <1>4. ASSUME NEW o \in O PROVE partner[o] \in C
    <2>1. tokens[o] = <<"open", tag>> /\ s <= o /\ o < e /\ o \in Tags(tokens, "open")
      BY <1>1, <1>2
    <2> QED BY <1>1, <1>3, <2>1
  <1>5. ASSUME NEW c \in C PROVE \E o \in O : g[o] = c
    <2>1. PICK o \in Tags(tokens, "open") : partner[o] = c
      BY <1>2 DEF Nests
    <2>2. tokens[c] = <<"close", tag>> /\ s <= c /\ c < e
      BY <1>1
    <2>3. o \in O
      BY <1>1, <1>3, <2>1, <2>2
    <2> QED BY <2>1, <2>3
  <1>6. \A o, q \in O : g[o] = g[q] => o = q
    BY <1>2, Partners
  <1>7. g \in Bijection(O, C)
    <2> HIDE DEF O, C
    <2>1. g \in [O -> C]
      BY <1>4
    <2> QED BY <1>5, <1>6, <2>1 DEF Bijection, Injection, Surjection, IsInjective
  <1>8. IsFiniteSet(O)
    <2>1. IsFiniteSet(s..(e - 1))
      BY <1>1, FS_Interval
    <2> QED BY <2>1, FS_Subset
  <1> QED BY <1>7, <1>8, FS_Bijection DEF ExistsBijection, Balanced

(* Counting tags finds the closing tag of an element.                      *)
LEMMA ElementEnds ==
  ASSUME NEW tokens, NEW partner, Nests(tokens, partner), NEW a \in Tags(tokens, "open")
  PROVE  ElementEnd(tokens, a, tokens[a][2]) = partner[a] + 1
  <1> DEFINE tag == tokens[a][2]
             b == partner[a]
             O(i) == {j \in a..i : tokens[j] = <<"open", tag>>}
             C(i) == {j \in a..i : tokens[j] = <<"close", tag>>}
             ends == {i \in a..Len(tokens) : tokens[i] = <<"close", tag>> /\ Depth(tokens, a, tag, i) = 0}
  <1>1. /\ a \in 1..Len(tokens) /\ b \in 1..Len(tokens) /\ a < b /\ Len(tokens) \in Nat /\ DOMAIN tokens = 1..Len(tokens)
        /\ tokens[a] = <<"open", tag>> /\ tokens[b] = <<"close", tag>>
    BY Partners DEF Nests
  <1>2. Whole(tokens, partner, a, b + 1)
    BY ElementIsWhole
  <1>3. \A i \in Nat : IsFiniteSet(O(i)) /\ IsFiniteSet(C(i)) /\ Cardinality(O(i)) \in Nat /\ Cardinality(C(i)) \in Nat
    <2> SUFFICES ASSUME NEW i \in Nat PROVE IsFiniteSet(O(i)) /\ IsFiniteSet(C(i))
      BY FS_CardinalityType
    <2>1. IsFiniteSet(a..i)
      <3>1. a \in Int /\ i \in Int
        BY <1>1
      <3> QED BY <3>1, FS_Interval
    <2> QED BY <2>1, FS_Subset
  <1>4. Depth(tokens, a, tag, b) = 0
    <2> HIDE DEF tag, b
    <2>1. (b + 1) - 1 = b /\ b \in Nat
      BY <1>1
    <2>2. Balanced(tokens, a, b + 1, tag)
      BY <1>2, WholeIsBalanced
    <2>3. Cardinality(O(b)) = Cardinality(C(b)) /\ Cardinality(O(b)) \in Nat
      BY <1>3, <2>1, <2>2 DEF Balanced
    <2>4. Depth(tokens, a, tag, b) = Cardinality(O(b)) - Cardinality(C(b))
      BY DEF Depth
    <2> HIDE DEF O, C
    <2> QED BY <2>3, <2>4
  <1>5. ASSUME NEW i \in a..Len(tokens), i < b PROVE Depth(tokens, a, tag, i) # 0
    <2> DEFINE U == O(i) \ {a}
               inside == {o \in U : partner[o] \in C(i)}
               g == [c \in C(i) |-> CHOOSE o \in U : partner[o] = c]
    <2>1. ASSUME NEW c \in C(i) PROVE \E o \in U : partner[o] = c
      <3>1. c \in Tags(tokens, "close") /\ tokens[c] = <<"close", tag>> /\ c \in a..i
        BY <1>1 DEF Tags
      <3>2. PICK o \in Tags(tokens, "open") : partner[o] = c
        BY <3>1 DEF Nests
      <3>3. tokens[o] = <<"open", tokens[o][2]>> /\ tokens[c] = <<"close", tokens[o][2]>> /\ o < c /\ o \in Nat
        <4>1. tokens[o] = <<"open", tokens[o][2]>> /\ tokens[partner[o]] = <<"close", tokens[o][2]>> /\ o < partner[o]
          BY <3>2 DEF Nests
        <4>2. o \in Nat
          BY <3>2, Partners
        <4> QED BY <3>2, <4>1, <4>2
      <3>4. a <= o
        BY <1>1, <1>2, <1>5, <3>1, <3>2 DEF Whole
      <3>5. o # a
        BY <1>1, <1>5, <3>1, <3>2
      <3> QED BY <1>1, <3>1, <3>2, <3>3, <3>4, <3>5
    <2> HIDE DEF U
    <2>2. \A c \in C(i) : g[c] \in U /\ partner[g[c]] = c
      BY <2>1
    <2> HIDE DEF C
    <2>3. g \in Injection(C(i), U)
      <3>1. g \in [C(i) -> U]
        BY <2>2
      <3>2. \A c, d \in C(i) : g[c] = g[d] => c = d
        BY <2>2
      <3> HIDE DEF g
      <3> QED BY <3>1, <3>2 DEF Injection, IsInjective
    <2>4. i \in Nat /\ a \in O(i)
      BY <1>1
    <2>5. IsFiniteSet(U) /\ Cardinality(U) = Cardinality(O(i)) - 1
      <3> HIDE DEF O
      <3> QED BY <1>3, <2>4, FS_RemoveElement DEF U
    <2>6. Cardinality(C(i)) <= Cardinality(U)
      <3> HIDE DEF g
      <3> QED BY <2>3, <2>5, FS_Injection
    <2>7. Cardinality(O(i)) \in Nat /\ Cardinality(C(i)) \in Nat
      BY <1>3, <2>4
    <2> HIDE DEF O
    <2>8. Depth(tokens, a, tag, i) = Cardinality(O(i)) - Cardinality(C(i))
      BY DEF Depth, O, C
    <2> QED BY <2>5, <2>6, <2>7, <2>8
  <1> HIDE DEF tag, b
  <1>6. b \in ends /\ ends \in SUBSET Nat
    BY <1>1, <1>4
  <1>7. \A i \in ends : ~(i < b)
    BY <1>5
  <1>8. ElementEnd(tokens, a, tag) = IF ends = {} THEN 0 ELSE Min(ends) + 1
    BY DEF ElementEnd
  <1> HIDE DEF ends
  <1>9. Min(ends) = b
    <2>1. Min(ends) \in ends /\ \A x \in ends : Min(ends) <= x
      BY <1>6, MinIsLeast
    <2>2. b \in Nat /\ Min(ends) \in Nat /\ Min(ends) <= b /\ ~(Min(ends) < b)
      BY <1>6, <1>7, <2>1
    <2> QED BY <2>2
  <1> QED BY <1>6, <1>8, <1>9 DEF tag, b

-----------------------------------------------------------------------------
(* The search for headings, on a page whose elements nest: the groups hold *)
(* whole elements and end where the search goes on, every heading before   *)
(* that is with its block, and in the group that is being put together     *)
(* each heading ends where the group ends or where the next heading is.    *)
Opened(tokens) == {o \in Tags(tokens, "open") : tokens[o][2] \in Headings}
Together(partner, o) == TagNameAt(page, partner[o] + 1) \in KeptBlockTags =>
                          \E k \in DOMAIN kept : kept[k][1] < partner[o] /\ partner[o] + 1 < kept[k][2]

Groups(partner) ==
  /\ kept \in Seq(Nat \X Nat)
  /\ \A k \in DOMAIN kept : Whole(page, partner, kept[k][1], kept[k][2]) /\ (k > 1 => kept[k - 1][2] <= kept[k][1])
Searched(partner) ==
  /\ index \in Nat /\ index >= 1 /\ \A k \in DOMAIN kept : kept[k][2] <= index
  /\ \A o \in Opened(page) : o < index => Together(partner, o)
Grouping(partner) ==
  /\ index \in Opened(page) /\ Whole(page, partner, index, groupEnd)
  /\ \A o \in Opened(page) : index <= o /\ o < groupEnd => partner[o] + 1 = groupEnd \/ TagNameAt(page, partner[o] + 1) \in Headings

Loop(partner) == /\ stage \in {"search", "group", "print"} => Groups(partner)
                 /\ stage \in {"search", "group"} => Searched(partner)
                 /\ stage = "group" => Grouping(partner)
                 /\ stage = "print" => \A o \in Opened(page) : Together(partner, o)
KeepInv == /\ stage \notin {"search", "group", "print", "rasterize", "finally"} => kept = <<>>
           /\ \A partner : Nests(page, partner) => Loop(partner)

LEMMA OpenedTags ==
  ASSUME NEW tokens, NEW partner, Nests(tokens, partner)
  PROVE  /\ \A i : TagNameAt(tokens, i) # "none" => i \in Tags(tokens, "open") /\ TagNameAt(tokens, i) = tokens[i][2]
         /\ \A i : TagNameAt(tokens, i) \in Headings <=> i \in Opened(tokens)
         /\ Opened(tokens) \in SUBSET Tags(tokens, "open") /\ Opened(tokens) \in SUBSET Nat
         /\ \A o, q \in Opened(tokens) : ~(o < q /\ q < partner[o])
  <1>1. DOMAIN tokens = 1..Len(tokens)
    BY DEF Nests
  <1>2. \A o, q \in Opened(tokens) : ~(o < q /\ q < partner[o])
    BY DEF Nests, Opened
  <1> QED BY <1>1, <1>2 DEF TagNameAt, Tags, Opened, Headings

(* In an element that is a heading there is no other.                      *)
LEMMA HeadingsInHeading ==
  ASSUME NEW tokens, NEW partner, Nests(tokens, partner), NEW h \in Opened(tokens), NEW o \in Opened(tokens),
         h <= o, o < partner[h] + 1
  PROVE  o = h
  <1>1. h \in Nat /\ o \in Nat /\ partner[h] \in Nat /\ partner[h] # o
    BY Partners DEF Opened
  <1>2. ~(h < o /\ o < partner[h])
    BY OpenedTags
  <1> QED BY <1>1, <1>2

LEMMA LoopStays ==
  ASSUME KeepInv, UNCHANGED <<stage, page, kept, index, groupEnd>> PROVE KeepInv'
  BY DEF KeepInv, Loop, Groups, Searched, Grouping, Together

LEMMA LoopElsewhere ==
  ASSUME stage' \notin {"search", "group", "print"}, stage' \notin {"rasterize", "finally"} => kept' = <<>>
  PROVE  KeepInv'
  BY DEF KeepInv, Loop

LEMMA SearchStarts == ASSUME KeepInv, Inline, stage' = "search" PROVE KeepInv'
  <1>1. kept' = <<>> /\ index' = 1
    BY DEF Inline, Fail, Exits, KeepInv
  <1>2. ASSUME NEW partner, Nests(page', partner) PROVE Loop(partner)'
    <2>1. \A o \in Opened(page') : ~(o < 1)
      <3>1. \A o \in Opened(page') : o \in 1..Len(page')
        BY <1>2, Partners DEF Opened
      <3> QED BY <3>1
    <2>2. kept' \in Seq(Nat \X Nat) /\ DOMAIN kept' = {}
      BY <1>1
    <2> QED BY <1>1, <2>1, <2>2 DEF Loop, Groups, Searched
  <1> QED BY <1>2 DEF KeepInv

LEMMA FindKeeps == ASSUME KeepInv, FindHeading PROVE KeepInv'
  <1> DEFINE found == {i \in index..Len(page) : i > 0 /\ TagNameAt(page, i) \in Headings}
  <1>1. /\ stage = "search" /\ UNCHANGED <<page, kept>>
        /\ IF found = {} THEN stage' = "print" /\ UNCHANGED <<index, groupEnd>>
           ELSE /\ stage' = "group" /\ index' = Min(found)
                /\ groupEnd' = ElementEnd(page, Min(found), page[Min(found)][2])
    BY DEF FindHeading
  <1>2. ASSUME NEW partner, Nests(page, partner) PROVE Loop(partner)'
    <2>1. Groups(partner) /\ Searched(partner)
      BY <1>1, <1>2 DEF KeepInv, Loop
    <2>2. Groups(partner)'
      BY <1>1, <2>1 DEF Groups
    <2>3. /\ \A o \in Opened(page) : o \in 1..Len(page) /\ o \in Tags(page, "open") /\ Len(page) \in Nat
          /\ \A i : TagNameAt(page, i) \in Headings <=> i \in Opened(page)
      BY <1>2, OpenedTags, Partners DEF Opened
    <2>4. index \in Nat /\ index >= 1 /\ \A k \in DOMAIN kept : kept[k][2] <= index
      BY <2>1 DEF Searched
    <2>5. \A o \in Opened(page) : o < index \/ o \in found
      BY <2>3, <2>4
    <2>6. CASE found = {}
      <3>1. \A o \in Opened(page) : Together(partner, o)
        BY <2>1, <2>5, <2>6 DEF Searched
      <3> QED BY <1>1, <2>2, <2>6, <3>1 DEF Loop, Together
    <2>7. CASE found # {}
      <3> DEFINE h == Min(found)
      <3>1. found \in SUBSET Opened(page) /\ found \in SUBSET Nat
        BY <2>3, <2>4
      <3> HIDE DEF found
      <3>2. h \in found /\ \A x \in found : h <= x
        BY <2>7, <3>1, MinIsLeast
      <3>3. h \in Opened(page) /\ h \in Nat /\ h >= index /\ index' = h
        BY <1>1, <2>4, <2>7, <3>1, <3>2 DEF found
      <3> HIDE DEF h
      <3>4. groupEnd' = partner[h] + 1
        BY <1>1, <1>2, <2>7, <3>3, ElementEnds DEF h, Opened
      <3>5. Whole(page, partner, h, partner[h] + 1)
        BY <1>2, <3>3, ElementIsWhole DEF Opened
      <3>6. \A o \in Opened(page) : h <= o /\ o < partner[h] + 1 => o = h
        BY <1>2, <3>3, HeadingsInHeading
      <3>7. Grouping(partner)'
        BY <1>1, <3>3, <3>4, <3>5, <3>6 DEF Grouping
      <3>8. \A o \in Opened(page) : o < h => Together(partner, o)
        <4>1. \A o \in Opened(page) : o < h => o < index
          BY <2>3, <2>5, <3>2, <3>3
        <4> QED BY <2>1, <4>1 DEF Searched
      <3>9. \A k \in DOMAIN kept : kept[k][2] <= h
        <4>1. \A k \in DOMAIN kept : kept[k][2] \in Nat
          BY <2>1 DEF Groups, Whole
        <4> QED BY <2>4, <3>3, <4>1
      <3>10. Searched(partner)'
        BY <1>1, <2>4, <3>3, <3>8, <3>9 DEF Searched, Together
      <3>11. stage' = "group"
        BY <1>1, <2>7
      <3> QED BY <2>2, <3>7, <3>10, <3>11 DEF Loop
    <2> QED BY <2>6, <2>7
  <1> QED BY <1>1, <1>2 DEF KeepInv

LEMMA ExtendKeeps == ASSUME KeepInv, ExtendGroup PROVE KeepInv'
  <1>1. /\ stage = "group" /\ UNCHANGED <<stage, page, kept, index>> /\ HeadingFollows
        /\ groupEnd' = ElementEnd(page, NextElementStart(groupEnd), TagNameAt(page, NextElementStart(groupEnd)))
    BY DEF ExtendGroup
  <1>2. ASSUME NEW partner, Nests(page, partner) PROVE Loop(partner)'
    <2>1. Groups(partner) /\ Searched(partner) /\ Grouping(partner)
      BY <1>1, <1>2 DEF KeepInv, Loop
    <2> DEFINE q == groupEnd
    <2>2. Whole(page, partner, index, q) /\ q \in Nat /\ q # 0
      BY <2>1 DEF Grouping, Whole
    <2>3. q \in Opened(page) /\ q \in Tags(page, "open") /\ TagNameAt(page, q) = page[q][2] /\ TagNameAt(page, q) \in Headings
      <3>1. TagNameAt(page, q) \in Headings
        BY <1>1, <2>2 DEF HeadingFollows, NextElementStart
      <3> QED BY <1>2, <3>1, OpenedTags DEF Headings
    <2>4. groupEnd' = partner[q] + 1
      BY <1>1, <1>2, <2>2, <2>3, ElementEnds DEF NextElementStart
    <2>5. Whole(page, partner, index, partner[q] + 1)
      BY <1>2, <2>2, <2>3, ElementIsWhole, JoinedAreWhole
    <2>6. ASSUME NEW o \in Opened(page), index <= o, o < partner[q] + 1
          PROVE  partner[o] + 1 = partner[q] + 1 \/ TagNameAt(page, partner[o] + 1) \in Headings
      <3>1. o \in Nat
        BY <1>2, OpenedTags
      <3>2. CASE o < q
        BY <2>1, <2>3, <2>6, <3>2 DEF Grouping
      <3>3. CASE q <= o
        BY <1>2, <2>3, <2>6, <3>3, HeadingsInHeading
      <3> QED BY <2>2, <3>1, <3>2, <3>3
    <2>7. Grouping(partner)'
      BY <1>1, <2>1, <2>4, <2>5, <2>6 DEF Grouping
    <2>8. Groups(partner)' /\ Searched(partner)'
      BY <1>1, <2>1 DEF Groups, Searched, Together
    <2> QED BY <1>1, <2>7, <2>8 DEF Loop
  <1> QED BY <1>1, <1>2 DEF KeepInv

LEMMA KeepKeeps == ASSUME OutcomeInv, KeepInv, KeepHeading PROVE KeepInv'
  <1> DEFINE group == HeadingGroup(page, groupEnd)
  <1>1. /\ stage = "group" /\ ~HeadingFollows /\ UNCHANGED page
        /\ IF ~group.keeps THEN stage' = "search" /\ index' = groupEnd /\ UNCHANGED kept
           ELSE \/ stage' = "search" /\ index' = group.blockEnd /\ kept' = Append(kept, <<index, group.blockEnd>>)
                \/ stage' \in {"finally", "over"} /\ UNCHANGED kept /\ Exits("uncaught")
    BY DEF KeepHeading, Exits
  <1>2. ASSUME NEW partner, Nests(page, partner), stage' = "search" PROVE Loop(partner)'
    <2>1. Groups(partner) /\ Searched(partner) /\ Grouping(partner)
      BY <1>1, <1>2 DEF KeepInv, Loop
    <2> DEFINE b == groupEnd
    <2>2. Whole(page, partner, index, b) /\ index \in Nat /\ index >= 1 /\ b \in Nat /\ b # 0 /\ index < b
      BY <2>1 DEF Grouping, Whole, Searched
    <2>3. NextElementStart(groupEnd) = b /\ TagNameAt(page, b) \notin Headings
      BY <1>1, <2>2 DEF HeadingFollows, NextElementStart
    <2>4. \A o \in Opened(page) : o \in Nat /\ partner[o] \in Nat /\ o \in Tags(page, "open")
      BY <1>2, Partners DEF Opened
    <2>5. \A o \in Opened(page) : o < index => Together(partner, o)
      BY <2>1 DEF Searched
    <2>6. \A o \in Opened(page) : index <= o /\ o < b => partner[o] + 1 = b \/ TagNameAt(page, partner[o] + 1) \in Headings
      BY <2>1 DEF Grouping
    <2>7. \A k \in DOMAIN kept : kept[k][2] <= index /\ kept[k][2] \in Nat
      BY <2>1 DEF Searched, Groups, Whole
    <2>8. CASE ~group.keeps
      <3>1. TagNameAt(page, b) \notin KeptBlockTags
        BY <2>3, <2>8 DEF HeadingGroup
      <3>2. \A o \in Opened(page) : o < b => Together(partner, o)
        <4>1. \A o \in Opened(page) : o < index \/ index <= o
          BY <2>2, <2>4
        <4>2. Headings \cap KeptBlockTags = {}
          BY DEF Headings, KeptBlockTags
        <4> QED BY <2>5, <2>6, <3>1, <4>1, <4>2 DEF Together
      <3>3. \A k \in DOMAIN kept : kept[k][2] <= b
        BY <2>2, <2>7
      <3>4. index' = b /\ kept' = kept
        BY <1>1, <2>8
      <3>5. Groups(partner)'
        BY <1>1, <2>1, <3>4 DEF Groups
      <3>6. Searched(partner)'
        BY <1>1, <2>2, <3>2, <3>3, <3>4 DEF Searched, Together
      <3> QED BY <1>2, <3>5, <3>6 DEF Loop
    <2>9. CASE group.keeps
      <3> DEFINE e == partner[b] + 1
      <3>1. TagNameAt(page, b) \in KeptBlockTags /\ TagNameAt(page, b) # "none"
        BY <2>3, <2>9 DEF HeadingGroup, KeptBlockTags
      <3>2. b \in Tags(page, "open") /\ TagNameAt(page, b) = page[b][2]
        BY <1>2, <3>1, OpenedTags
      <3>3. group.blockEnd = e
        BY <1>2, <2>3, <3>1, <3>2, ElementEnds DEF HeadingGroup
      <3>4. Whole(page, partner, index, e) /\ e \in Nat /\ b < e /\ index < e
        <4>1. partner[b] \in Nat /\ b < partner[b]
          BY <1>2, <3>2, Partners
        <4> QED BY <1>2, <2>2, <3>2, <4>1, ElementIsWhole, JoinedAreWhole
      <3>5. index' = e /\ kept' = Append(kept, <<index, e>>)
        <4>1. stage' \notin {"finally", "over"}
          BY <1>2
        <4> QED BY <1>1, <2>9, <3>3, <4>1
      <3> HIDE DEF e
      <3>6. /\ kept' \in Seq(Nat \X Nat) /\ Len(kept) \in Nat /\ DOMAIN kept = 1..Len(kept) /\ DOMAIN kept' = 1..(Len(kept) + 1)
            /\ kept'[Len(kept) + 1] = <<index, e>> /\ \A k \in DOMAIN kept : kept'[k] = kept[k]
        <4>1. kept \in Seq(Nat \X Nat) /\ <<index, e>> \in Nat \X Nat
          BY <2>1, <2>2, <3>4 DEF Groups
        <4> QED BY <3>5, <4>1
      <3>7. Groups(partner)'
        <4>1. ASSUME NEW k \in DOMAIN kept'
              PROVE  Whole(page, partner, kept'[k][1], kept'[k][2]) /\ (k > 1 => kept'[k - 1][2] <= kept'[k][1])
          <5>1. CASE k \in DOMAIN kept
            <6>1. k > 1 => k - 1 \in DOMAIN kept
              BY <3>6, <5>1
            <6> QED BY <2>1, <3>6, <5>1, <6>1 DEF Groups
          <5>2. CASE k = Len(kept) + 1
            <6>1. k > 1 => k - 1 \in DOMAIN kept
              BY <3>6, <5>2
            <6>2. kept'[k] = <<index, e>>
              BY <3>6, <5>2
            <6>3. k > 1 => kept'[k - 1][2] <= index
              BY <2>7, <3>6, <6>1
            <6> HIDE DEF Whole
            <6> QED BY <3>4, <6>2, <6>3
          <5> QED BY <3>6, <5>1, <5>2
        <4> QED BY <1>1, <3>6, <4>1 DEF Groups
      <3>8. ASSUME NEW o \in Opened(page), o < e
            PROVE  TagNameAt(page, partner[o] + 1) \in KeptBlockTags =>
                     \E k \in DOMAIN kept' : kept'[k][1] < partner[o] /\ partner[o] + 1 < kept'[k][2]
        <4>1. CASE o < index
          BY <2>5, <3>6, <4>1 DEF Together
        <4>2. CASE index <= o
          <5>1. index < partner[o] /\ partner[o] + 1 < e
            <6>1. o < partner[o] /\ o \in Nat /\ partner[o] \in Nat
              BY <1>2, <2>4, Partners
            <6>2. CASE o < b
              <7>1. partner[o] < b
                BY <2>2, <2>4, <4>2, <6>2 DEF Whole
              <7> QED BY <2>2, <3>4, <4>2, <6>1, <7>1
            <6>3. CASE b <= o
              <7>1. o # b
                BY <2>3, <1>2, OpenedTags
              <7>2. b < o /\ o < partner[b]
                <8>1. o # partner[b] /\ partner[b] \in Nat
                  BY <1>2, <2>4, <3>2, Partners
                <8> QED BY <2>2, <3>8, <6>1, <6>3, <7>1, <8>1 DEF e
              <7>3. partner[o] < partner[b]
                BY <1>2, <2>4, <3>2, <7>2, Partners
              <7> QED BY <1>2, <2>2, <3>2, <6>1, <6>3, <7>3, Partners DEF e
            <6> QED BY <2>2, <6>1, <6>2, <6>3
          <5> DEFINE l == Len(kept) + 1
          <5>2. l \in DOMAIN kept' /\ kept'[l] = <<index, e>>
            BY <3>6
          <5> HIDE DEF l
          <5>3. kept'[l][1] = index /\ kept'[l][2] = e
            BY <5>2
          <5> QED BY <5>1, <5>2, <5>3
        <4> QED BY <2>2, <2>4, <4>1, <4>2
      <3>9. \A k \in DOMAIN kept' : kept'[k][2] <= e
        <4>1. ASSUME NEW k \in DOMAIN kept' PROVE kept'[k][2] <= e
          <5>1. CASE k \in DOMAIN kept
            <6>1. kept'[k][2] \in Nat /\ kept'[k][2] <= index
              BY <2>7, <3>6, <5>1
            <6> QED BY <2>2, <3>4, <6>1
          <5>2. CASE k = Len(kept) + 1
            <6>1. kept'[k] = <<index, e>>
              BY <3>6, <5>2
            <6> QED BY <3>4, <6>1
          <5> QED BY <3>6, <5>1, <5>2
        <4> QED BY <4>1
      <3>10. Searched(partner)'
        BY <1>1, <2>2, <3>4, <3>5, <3>8, <3>9 DEF Searched, Together
      <3> QED BY <1>2, <3>7, <3>10 DEF Loop
    <2> QED BY <2>8, <2>9
  <1>3. CASE stage' = "search"
    BY <1>1, <1>2, <1>3 DEF KeepInv
  <1>4. CASE stage' # "search"
    <2>1. files.work
      BY <1>1 DEF OutcomeInv, OnTheWay, Busy
    <2>2. stage' = "finally"
      BY <1>1, <1>4, <2>1 DEF Exits
    <2> QED BY <2>2, LoopElsewhere
  <1> QED BY <1>3, <1>4

LEMMA StepKeepsLoop == ASSUME OutcomeInv, KeepInv, [FiguraNext]_figuraVars PROVE KeepInv'
  <1>1. CASE UNCHANGED figuraVars \/ \E p \in Pids : LaunchOther(p) \/ Launcher(p)
    <2>1. UNCHANGED <<stage, page, kept, index, groupEnd>>
      BY <1>1 DEF figuraVars, buildVars, LaunchOther, Launcher, ReapOther
    <2> QED BY <2>1, LoopStays
  <1>2. CASE \/ \E k \in {"check", "build"} : Command(k)
             \/ Spawn("preflight", "preflighting", TRUE) \/ Spawn("render", "rendering", FALSE)
             \/ Preflight \/ Read \/ RenderDiagram \/ Measure \/ DrawFailed
    <2>1. stage \in {"over", "preflight", "preflighting", "read", "render", "rendering", "draw"} /\ UNCHANGED kept
      BY <1>2 DEF Command, Spawn, Preflight, Read, RenderDiagram, Measure, DrawFailed, Checked, Fail, Data, Goes
    <2>2. stage' \notin {"search", "group", "print"}
      BY <1>2 DEF Command, Spawn, Preflight, Read, RenderDiagram, Measure, DrawFailed, Checked, Fail, Exits, Goes
    <2>3. kept' = <<>>
      BY <2>1 DEF KeepInv
    <2> QED BY <2>2, <2>3, LoopElsewhere
  <1>3. CASE \/ Inline /\ stage' # "search"
             \/ PrintPdf \/ RasterizePages \/ Throw
    <2>1. stage \in Busy
      BY <1>3 DEF Inline, PrintPdf, RasterizePages, Throw, Busy
    <2>2. files.work
      BY <2>1 DEF OutcomeInv, OnTheWay
    <2>3. stage' \in {"rasterize", "finally"}
      BY <1>3, <2>2 DEF Inline, PrintPdf, RasterizePages, Throw, Fail, Exits, Goes
    <2> QED BY <2>3, LoopElsewhere
  <1>4. CASE Finally \/ KillCommand
    BY <1>4, LoopElsewhere DEF Finally, KillCommand, Goes, Forgotten
  <1> QED BY <1>1, <1>2, <1>3, <1>4, SearchStarts, FindKeeps, ExtendKeeps, KeepKeeps DEF FiguraNext, BuildNext, CommandStep

LEMMA HeadingsAreKept == ASSUME KeepInv, WellNested(page) PROVE HeadingsKeepTheirBlock
  <1> SUFFICES ASSUME stage = "print"
               PROVE  /\ \A i \in 1..(Len(page) - 1) :
                           page[i][1] = "close" /\ page[i][2] \in Headings /\ TagNameAt(page, i + 1) \in KeptBlockTags =>
                             \E k \in DOMAIN kept : kept[k][1] < i /\ i + 1 < kept[k][2]
                      /\ \A k \in DOMAIN kept : (\A t : Balanced(page, kept[k][1], kept[k][2], t)) /\ (k > 1 => kept[k - 1][2] <= kept[k][1])
    BY DEF HeadingsKeepTheirBlock, Balanced
  <1>1. PICK partner : Nests(page, partner)
    BY DEF WellNested
  <1>2. Groups(partner) /\ \A o \in Opened(page) : Together(partner, o)
    BY <1>1 DEF KeepInv, Loop
  <1>3. ASSUME NEW i \in 1..(Len(page) - 1), page[i][1] = "close", page[i][2] \in Headings, TagNameAt(page, i + 1) \in KeptBlockTags
        PROVE  \E k \in DOMAIN kept : kept[k][1] < i /\ i + 1 < kept[k][2]
    <2>1. i \in Tags(page, "close")
      BY <1>1, <1>3 DEF Nests, Tags
    <2>2. PICK o \in Tags(page, "open") : partner[o] = i
      BY <1>1, <2>1 DEF Nests
    <2>3. page[i] = <<"close", page[o][2]>>
      BY <1>1, <2>2 DEF Nests
    <2>4. o \in Opened(page)
      BY <1>3, <2>3 DEF Opened
    <2> QED BY <1>2, <1>3, <2>2, <2>4 DEF Together
  <1>4. \A k \in DOMAIN kept : (\A t : Balanced(page, kept[k][1], kept[k][2], t)) /\ (k > 1 => kept[k - 1][2] <= kept[k][1])
    <2>1. ASSUME NEW k \in DOMAIN kept, NEW t PROVE Balanced(page, kept[k][1], kept[k][2], t)
      <3>1. Whole(page, partner, kept[k][1], kept[k][2])
        BY <1>2 DEF Groups
      <3> QED BY <1>1, <3>1, WholeIsBalanced
    <2> QED BY <1>2, <2>1 DEF Groups
  <1> QED BY <1>3, <1>4

(* Tokens that are those of a document that nests, in order, and of each   *)
(* element both tags or none: they nest as well.                           *)
Kinds == {"open", "close"}
TagsOf(tokens) == {i \in DOMAIN tokens : tokens[i][1] \in Kinds}
Taken(s, q, t, f) ==
  /\ Len(t) \in Nat /\ DOMAIN t = 1..Len(t)
  /\ \A i \in TagsOf(t) : f[i] \in DOMAIN s /\ t[i] = s[f[i]]
  /\ \A i, j \in TagsOf(t) : i < j => f[i] < f[j]
  /\ \A o \in Tags(t, "open") : \E c \in Tags(t, "close") : f[c] = q[f[o]]
  /\ \A c \in Tags(t, "close") : \E o \in Tags(t, "open") : f[c] = q[f[o]]

LEMMA TakenNest ==
  ASSUME NEW s, NEW q, Nests(s, q), NEW t, NEW f, Taken(s, q, t, f)
  PROVE  WellNested(t)
  <1> DEFINE O == Tags(t, "open")
             C == Tags(t, "close")
             r == [o \in O |-> CHOOSE c \in C : f[c] = q[f[o]]]
  <1>1. O \cup C \in SUBSET TagsOf(t) /\ TagsOf(t) \in SUBSET Nat
    BY DEF Tags, TagsOf, Kinds, Taken
  <1>2. \A o \in O : r[o] \in C /\ f[r[o]] = q[f[o]]
    BY DEF Taken
  <1>3. r \in [O -> C]
    BY <1>2
  <1>4. \A o \in O : f[o] \in Tags(s, "open") /\ t[o] = s[f[o]]
    BY <1>1 DEF Taken, Tags
  <1>5. \A o \in Tags(s, "open") : o \in Nat /\ q[o] \in Nat /\ o < q[o]
    BY Partners
  <1>6. \A i, j \in TagsOf(t) : i < j => f[i] < f[j]
    BY DEF Taken
  <1>7. \A i \in TagsOf(t) : f[i] \in Nat
    BY DEF Taken, Nests
  <1>8. \A i, j \in TagsOf(t) : f[i] < f[j] <=> i < j
    <2> SUFFICES ASSUME NEW i \in TagsOf(t), NEW j \in TagsOf(t), f[i] < f[j] PROVE i < j
      BY <1>6
    <2>1. ~(j < i) /\ i # j
      BY <1>6, <1>7
    <2> QED BY <1>1, <2>1
  <1> HIDE DEF r
  <1>9. \A c \in C : \E o \in O : r[o] = c
    <2> SUFFICES ASSUME NEW c \in C PROVE \E o \in O : r[o] = c
      OBVIOUS
    <2>1. PICK o \in O : f[c] = q[f[o]]
      BY DEF Taken
    <2>2. f[r[o]] = f[c] /\ r[o] \in TagsOf(t) /\ c \in TagsOf(t)
      BY <1>1, <1>2, <2>1
    <2>3. ~(r[o] < c) /\ ~(c < r[o])
      BY <1>6, <1>7, <2>2
    <2> QED BY <1>1, <2>2, <2>3
  <1>10. ASSUME NEW o \in O
         PROVE  o < r[o] /\ t[o] = <<"open", t[o][2]>> /\ t[r[o]] = <<"close", t[o][2]>>
    <2>1. f[o] < f[r[o]]
      BY <1>2, <1>4, <1>5
    <2>2. o < r[o]
      BY <1>1, <1>2, <1>8, <2>1
    <2>3. s[f[o]] = <<"open", s[f[o]][2]>> /\ s[q[f[o]]] = <<"close", s[f[o]][2]>>
      BY <1>4 DEF Nests
    <2>4. t[r[o]] = s[f[r[o]]]
      BY <1>1, <1>2 DEF Taken
    <2> QED BY <1>2, <1>4, <2>2, <2>3, <2>4
  <1>11. ASSUME NEW o \in O, NEW p \in O, o < p, p < r[o]
         PROVE  r[p] < r[o] /\ (t[o][2] \in Headings => t[p][2] \notin Headings)
    <2>1. f[o] < f[p] /\ f[p] < q[f[o]]
      BY <1>1, <1>2, <1>6, <1>11
    <2>2. q[f[p]] < q[f[o]] /\ (s[f[o]][2] \in Headings => s[f[p]][2] \notin Headings)
      BY <1>4, <2>1 DEF Nests
    <2> QED BY <1>1, <1>2, <1>4, <1>8, <2>2
  <1>12. Len(t) \in Nat /\ DOMAIN t = 1..Len(t)
    BY DEF Taken
  <1> QED BY <1>3, <1>9, <1>10, <1>11, <1>12 DEF WellNested, Nests

LEMMA PageNests ==
  ASSUME NEW content \in Contents, NEW of, <<"close", "head">> \in Range(content), WellNested(content)
  PROVE  WellNested(PageOf(content, of))
  <1> DEFINE P == PageOf(content, of)
             A == Inlined(content)
             B == Marked(content)
             h == HeadEnd(content)
             L == Left(content)
             found == ExtractDiagrams(content)
             before(j) == Before(content, j)
             f == [j \in DOMAIN P |-> Nth(L, before(j))]
  <1>1. PICK q : Nests(content, q)
    BY DEF WellNested
  <1>2. /\ Len(P) \in Nat /\ DOMAIN P = 1..Len(P) /\ P[h] = <<"style", of>>
        /\ \A j \in DOMAIN P : j # h => before(j) \in DOMAIN B /\ P[j] = B[before(j)]
        /\ \A i \in DOMAIN B : LET j == IF i < h THEN i ELSE i + 1 IN j \in DOMAIN P /\ j # h /\ before(j) = i
        /\ \A i, j \in DOMAIN P : i # h /\ j # h /\ i < j => before(i) < before(j)
    BY Styling
  <1>3. DOMAIN B = DOMAIN A /\ \A j \in DOMAIN A : B[j][1] = A[j][1] /\ (A[j][1] # "code" => B[j] = A[j])
    BY Marking
  <1>4. /\ L = DOMAIN content \ Gone(found) /\ DOMAIN content = 1..Len(content)
        /\ \A j \in DOMAIN A : Nth(L, j) \in L
        /\ \A i \in L : Rank(L, i) \in DOMAIN A /\ Nth(L, Rank(L, i)) = i
        /\ \A j, k \in DOMAIN A : j < k => Nth(L, j) < Nth(L, k)
        /\ \A j \in DOMAIN A : \/ A[j] = content[Nth(L, j)] /\ \A k \in DOMAIN found : Place(found, k) # Nth(L, j)
                               \/ \E k \in DOMAIN found : Place(found, k) = Nth(L, j) /\ A[j] = Picture(found, k)
    BY Inlining, DocumentsAreFinite DEF Left
  <1>5. /\ \A k \in DOMAIN found : content[Place(found, k)][1] = "d2"
        /\ \A k \in DOMAIN found : Picture(found, k)[1] = "svg"
    BY SpansOfDiagrams DEF Place, Picture
  <1> HIDE DEF P, A, B, h, L, found, before
  <1>6. ASSUME NEW j \in TagsOf(P) PROVE j # h /\ f[j] \in L /\ P[j] = content[f[j]] /\ before(j) \in DOMAIN A
    <2>1. j \in DOMAIN P /\ P[j][1] \in Kinds /\ j # h
      BY <1>2 DEF TagsOf, Kinds
    <2>2. before(j) \in DOMAIN A /\ P[j] = B[before(j)] /\ f[j] = Nth(L, before(j)) /\ f[j] \in L
      BY <1>2, <1>3, <1>4, <2>1
    <2>3. A[before(j)][1] \in Kinds /\ P[j] = A[before(j)]
      BY <1>3, <2>1, <2>2 DEF Kinds
    <2>4. A[before(j)] = content[f[j]]
      BY <1>4, <1>5, <2>2, <2>3 DEF Kinds
    <2> QED BY <2>1, <2>2, <2>3, <2>4
  <1>7. ASSUME NEW i \in L, content[i][1] \in Kinds PROVE \E j \in TagsOf(P) : f[j] = i
    <2> DEFINE m == Rank(L, i)
               j == IF m < h THEN m ELSE m + 1
    <2>1. m \in DOMAIN A /\ Nth(L, m) = i
      BY <1>4
    <2> HIDE DEF m
    <2>2. A[m] = content[i]
      BY <1>4, <1>5, <1>7, <2>1 DEF Kinds
    <2>3. j \in DOMAIN P /\ j # h /\ before(j) = m
      BY <1>2, <1>3, <2>1
    <2> HIDE DEF j
    <2>4. f[j] = i /\ P[j][1] \in Kinds
      BY <1>2, <1>3, <1>7, <2>1, <2>2, <2>3
    <2> QED BY <2>3, <2>4 DEF TagsOf
  <1>8. \A i, j \in TagsOf(P) : i < j => f[i] < f[j]
    <2> SUFFICES ASSUME NEW i \in TagsOf(P), NEW j \in TagsOf(P), i < j PROVE f[i] < f[j]
      OBVIOUS
    <2>1. i \in DOMAIN P /\ j \in DOMAIN P
      BY DEF TagsOf
    <2>2. before(i) < before(j)
      BY <1>2, <1>6, <2>1
    <2> QED BY <1>4, <1>6, <2>1, <2>2
  <1>9. ASSUME NEW o \in Tags(content, "open") PROVE o \in Gone(found) <=> q[o] \in Gone(found)
    <2>1. ASSUME NEW k \in DOMAIN found
          PROVE  LET i == found[k].span[1] IN i \in Tags(content, "open") /\ q[i] = i + 2 /\ found[k].span[2] = i + 2 /\ Place(found, k) = i + 1 /\ i \in Nat
      <3> DEFINE i == found[k].span[1]
      <3>1. /\ i \in 1..Len(content) /\ i + 1 \in 1..Len(content) /\ i + 2 \in 1..Len(content) /\ found[k].span[2] = i + 2
            /\ content[i] = <<"open", "pre">> /\ content[i + 2] = <<"close", "pre">> /\ content[i + 1][1] = "d2"
        BY SpansOfDiagrams DEF found
      <3> HIDE DEF i
      <3>2. i \in Tags(content, "open") /\ i + 2 \in Tags(content, "close") /\ i + 1 \notin Tags(content, "open") /\ i + 1 \notin Tags(content, "close")
        BY <1>4, <3>1 DEF Tags
      <3>3. PICK p \in Tags(content, "open") : q[p] = i + 2
        BY <1>1, <3>2 DEF Nests
      <3>4. p \in Nat /\ p < i + 2 /\ q[i] \in Nat /\ i < q[i] /\ i \in Nat
        BY <1>1, <3>2, <3>3, Partners
      <3>5. q[i] \in Tags(content, "close")
        BY <1>1, <3>2 DEF Nests
      <3>6. ~(p < i)
        <4> SUFFICES ASSUME p < i PROVE FALSE
          OBVIOUS
        <4>1. q[i] < i + 2
          BY <1>1, <3>2, <3>3, <3>4, Partners
        <4> QED BY <3>2, <3>4, <3>5, <4>1
      <3>7. p = i
        <4>1. p # i + 1
          BY <3>2
        <4> QED BY <3>4, <3>6, <4>1
      <3> QED BY <3>1, <3>2, <3>3, <3>4, <3>7 DEF i, Place
    <2>2. \A i : i \in Gone(found) <=> \E k \in DOMAIN found : i = found[k].span[1] \/ i = q[found[k].span[1]]
      <3>1. ASSUME NEW k \in DOMAIN found, NEW i
            PROVE  i \in (found[k].span[1]..found[k].span[2]) \ {Place(found, k)} <=> i = found[k].span[1] \/ i = q[found[k].span[1]]
        <4> DEFINE a == found[k].span[1]
        <4>1. a \in Nat /\ q[a] = a + 2 /\ found[k].span[2] = a + 2 /\ Place(found, k) = a + 1
          BY <2>1
        <4> HIDE DEF a
        <4>2. (a..(a + 2)) \ {a + 1} = {a, a + 2}
          BY <4>1
        <4> QED BY <4>1, <4>2 DEF a
      <3> QED BY <3>1 DEF Gone
    <2>3. \A k \in DOMAIN found : found[k].span[1] \in Tags(content, "open")
      BY <2>1
    <2> QED BY <1>1, <2>2, <2>3, Partners
  <1>10. \A i \in Tags(content, "open") \cup Tags(content, "close") : i \in DOMAIN content /\ content[i][1] \in Kinds
    BY DEF Tags, Kinds
  <1>11. \A i \in DOMAIN content : i \in L <=> i \notin Gone(found)
    BY <1>4
  <1>12. q \in [Tags(content, "open") -> Tags(content, "close")] /\ \A c \in Tags(content, "close") : \E o \in Tags(content, "open") : q[o] = c
    BY <1>1 DEF Nests
  <1>13. \A o \in Tags(content, "open") : o \in L <=> q[o] \in L
    BY <1>9, <1>10, <1>11, <1>12
  <1>14. /\ \A j \in Tags(P, "open") : j \in TagsOf(P) /\ f[j] \in Tags(content, "open") /\ f[j] \in L
         /\ \A j \in Tags(P, "close") : j \in TagsOf(P) /\ f[j] \in Tags(content, "close") /\ f[j] \in L
         /\ \A j \in TagsOf(P) : /\ f[j] \in Tags(content, "open") => j \in Tags(P, "open")
                                 /\ f[j] \in Tags(content, "close") => j \in Tags(P, "close")
    <2>1. \A j \in DOMAIN P : j \in Tags(P, "open") \cup Tags(P, "close") <=> j \in TagsOf(P)
      BY DEF Tags, TagsOf, Kinds
    <2>2. \A j \in TagsOf(P) : j \in DOMAIN P /\ f[j] \in L /\ f[j] \in DOMAIN content /\ P[j] = content[f[j]]
      BY <1>4, <1>6 DEF TagsOf
    <2> HIDE DEF f
    <2> QED BY <2>1, <2>2 DEF Tags
  <1> HIDE DEF f
  <1>15. ASSUME NEW o \in Tags(P, "open") PROVE \E c \in Tags(P, "close") : f[c] = q[f[o]]
    <2>1. q[f[o]] \in L /\ q[f[o]] \in Tags(content, "close")
      BY <1>12, <1>13, <1>14
    <2>2. PICK c \in TagsOf(P) : f[c] = q[f[o]]
      BY <1>7, <1>10, <2>1
    <2> QED BY <1>14, <2>1, <2>2
  <1>16. ASSUME NEW c \in Tags(P, "close") PROVE \E o \in Tags(P, "open") : f[c] = q[f[o]]
    <2>1. PICK p \in Tags(content, "open") : q[p] = f[c]
      BY <1>12, <1>14
    <2>2. p \in L
      BY <1>13, <1>14, <2>1
    <2>3. PICK o \in TagsOf(P) : f[o] = p
      BY <1>7, <1>10, <2>2
    <2> QED BY <1>14, <2>1, <2>3
  <1>17. \A i \in TagsOf(P) : f[i] \in DOMAIN content /\ P[i] = content[f[i]]
    BY <1>4, <1>6
  <1>18. Taken(content, q, P, f)
    BY <1>2, <1>8, <1>15, <1>16, <1>17 DEF Taken
  <1> QED BY <1>1, <1>18, TakenNest DEF P

(* The page that is searched nests when its document does.                 *)
NestInv == stage \in {"search", "group", "print"} /\ WellNested(html) => WellNested(page)

LEMMA StepKeepsNesting == ASSUME FitInv, NestInv, [FiguraNext]_figuraVars PROVE NestInv'
  <1>1. CASE stage' \notin {"search", "group", "print"}
    BY <1>1 DEF NestInv
  <1>2. CASE stage \in {"search", "group", "print"} /\ UNCHANGED <<html, page>>
    BY <1>2 DEF NestInv
  <1>3. CASE UNCHANGED figuraVars \/ \E p \in Pids : LaunchOther(p) \/ Launcher(p)
    <2>1. UNCHANGED <<stage, html, page>>
      BY <1>3 DEF figuraVars, buildVars, LaunchOther, Launcher, ReapOther
    <2> QED BY <2>1 DEF NestInv
  <1>4. CASE \/ \E k \in {"check", "build"} : Command(k)
             \/ Spawn("preflight", "preflighting", TRUE) \/ Spawn("render", "rendering", FALSE)
             \/ Preflight \/ Read \/ RenderDiagram \/ Measure \/ DrawFailed
             \/ PrintPdf \/ RasterizePages \/ Finally \/ Throw \/ KillCommand
    <2>1. stage' \notin {"search", "group", "print"}
      BY <1>4 DEF Command, Spawn, Preflight, Read, RenderDiagram, Measure, Checked, DrawFailed, PrintPdf, RasterizePages,
         Finally, Throw, KillCommand, Fail, Exits, Goes
    <2> QED BY <1>1, <2>1
  <1>5. CASE FindHeading \/ ExtendGroup \/ KeepHeading
    BY <1>2, <1>5 DEF FindHeading, ExtendGroup, KeepHeading
  <1>6. CASE Inline
    <2>1. CASE stage' # "search"
      BY <1>1, <1>6, <2>1 DEF Inline, Fail, Exits, Goes
    <2>2. CASE stage' = "search"
      <3>1. /\ html \in Contents /\ rendered = Diagrams /\ <<"close", "head">> \in Range(html) /\ UNCHANGED html
            /\ page' = WithPrintStyles(WithCodeBreakOpportunities(InlineDiagrams(html, rendered)), theme)
        BY <1>6, <2>2 DEF Inline, Fail, Exits, FitInv
      <3>2. page' = PageOf(html, theme)
        BY <3>1 DEF PageOf, Marked, Inlined, Diagrams
      <3>3. WellNested(html) => WellNested(PageOf(html, theme))
        BY <3>1, PageNests
      <3> QED BY <3>1, <3>2, <3>3 DEF NestInv
    <2> QED BY <2>1, <2>2
  <1> QED BY <1>3, <1>4, <1>5, <1>6 DEF FiguraNext, BuildNext, CommandStep

(* "Keeps every heading on the page of the block that follows it", in      *)
(* every document whose elements nest: scripts/print-pdf.mjs.         *)
THEOREM HeadingsAreWithTheirBlock == FiguraSpec => [](WellNested(html) => HeadingsKeepTheirBlock)
  <1>1. FiguraInit => FitInv /\ KeepInv /\ NestInv
    BY AbsentIsNoStatus DEF FiguraInit, BuildInit, FitInv, Printed, KeepInv, Loop, NestInv
  <1>2. KeepInv /\ NestInv => (WellNested(html) => HeadingsKeepTheirBlock)
    BY HeadingsAreKept DEF NestInv, HeadingsKeepTheirBlock
  <1>3. QED BY <1>1, <1>2, OutcomeInitially, StepKeepsOutcome, StepKeepsFit, StepKeepsLoop, StepKeepsNesting, PTL DEF FiguraSpec
=============================================================================
