--------------------------- MODULE EngineLauncher ---------------------------
(***************************************************************************)
(* plugin/bin/launch.sh: concurrent runs of the launcher share one cache   *)
(* directory per engine version.  Each downloads into a temp file of its   *)
(* own, named after its pid, verifies it and renames it into place.  Runs  *)
(* are cut short by trapped signals and by SIGKILL, which leaves the temp  *)
(* file and possibly a curl behind; every later run sweeps such leftovers. *)
(*                                                                         *)
(* A launcher, its pid, its temp file name and the file (inode) its curl   *)
(* creates are all named by one value of Launchers: pids are not reused.   *)
(***************************************************************************)
CONSTANTS
  Launchers,  (* the runs of the launcher                        *)
  Versions,   (* the engine versions a release pin can name      *)
  VersionOf,  (* the version pinned for each run                 *)
  None        (* no file, no victim                              *)

ASSUME LauncherAssumption ==
  /\ VersionOf \in [Launchers -> Versions]
  /\ None \notin Launchers

VARIABLES
  pc,       (* the next command of each run                          *)
  curl,     (* the state of the run's curl process                   *)
  curlPid,  (* has the run stored $! in curl_pid                     *)
  tmp,      (* the temp file names present in the cache directories  *)
  content,  (* what the file created by each curl holds              *)
  xbit,     (* the files that are executable                         *)
  cache,    (* the file that each version's cache_bin names          *)
  todo,     (* the names the sweep's glob expanded to, not yet seen  *)
  victim,   (* the name the sweep found dead and is about to unlink  *)
  stale     (* history: dead runs' temp files when the sweep began   *)

process == <<curl, curlPid>>
files   == <<tmp, content, xbit, cache>>
sweeps  == <<todo, victim, stale>>
vars    == <<pc, process, files, sweeps>>

Ended == {"exit0", "failed", "killed", "interrupted", "stopped"}
(* The commands between `trap abandon_download` and `trap -`. *)
Trapped == {"spawn", "forked", "waiting", "verify", "chmod", "install", "disarm"}
States == Trapped \cup Ended \cup
  {"idle", "sweep", "orphans", "unlink", "abandon", "ready", "running", "dev"}

(* kill -0 "$pid": the engine that a run has exec'd keeps the run's pid. *)
Live(l) == pc[l] \notin {"idle"} \cup Ended

Transition(l, from, to) ==
  /\ pc[l] = from
  /\ pc' = [pc EXCEPT ![l] = to]

Init ==
  /\ pc = [l \in Launchers |-> "idle"]
  /\ curl = [l \in Launchers |-> "none"]
  /\ curlPid = [l \in Launchers |-> FALSE]
  /\ tmp = {} /\ xbit = {}
  /\ content = [l \in Launchers |-> "none"]
  /\ cache = [v \in Versions |-> None]
  /\ todo = [l \in Launchers |-> {}] /\ stale = todo
  /\ victim = [l \in Launchers |-> None]

(* Dev build, warm run without a pin, no pin or a bad one, or production.  *)
Resolve(l) ==
  /\ \E s \in {"dev", "exit0", "failed", "sweep"} : Transition(l, "idle", s)
  /\ UNCHANGED <<process, files, sweeps>>

-----------------------------------------------------------------------------
(* remove_orphan_downloads: the glob is expanded once, then each name is   *)
(* tested and unlinked, while other runs create and rename their files.    *)

SweepGlob(l) ==
  /\ Transition(l, "sweep", "orphans")
  /\ todo' = [todo EXCEPT ![l] = {n \in tmp : VersionOf[n] = VersionOf[l]}]
  /\ stale' = [stale EXCEPT ![l] = {n \in tmp : ~Live(n)}]
  /\ UNCHANGED <<process, files, victim>>

(* Mutant: every name is taken for an orphan. *)
SweepTestWithoutKill0(l) ==
  /\ \E n \in todo[l] :
       /\ todo' = [todo EXCEPT ![l] = @ \ {n}]
       /\ victim' = [victim EXCEPT ![l] = n]
  /\ Transition(l, "orphans", "unlink")
  /\ UNCHANGED <<process, files, stale>>

(* Mutant: the sweep waits for the owner of a live name to end. *)
SweepTestAwaitsOwner(l) ==
  /\ \E n \in todo[l] :
       /\ ~Live(n)
       /\ todo' = [todo EXCEPT ![l] = @ \ {n}]
       /\ victim' = [victim EXCEPT ![l] = n]
  /\ Transition(l, "orphans", "unlink")
  /\ UNCHANGED <<process, files, stale>>

SweepTest(l) ==
  /\ \E n \in todo[l] :
       /\ todo' = [todo EXCEPT ![l] = @ \ {n}]
       /\ IF Live(n)
          THEN Transition(l, "orphans", "orphans") /\ UNCHANGED victim
          ELSE Transition(l, "orphans", "unlink") /\ victim' = [victim EXCEPT ![l] = n]
  /\ UNCHANGED <<process, files, stale>>

SweepUnlink(l) ==
  /\ Transition(l, "unlink", "orphans")
  /\ tmp' = tmp \ {victim[l]}
  /\ victim' = [victim EXCEPT ![l] = None]
  /\ UNCHANGED <<process, content, xbit, cache, todo, stale>>

-----------------------------------------------------------------------------
(* The download.                                                           *)

Swept(l) == pc[l] = "orphans" /\ todo[l] = {}

(* After the sweep: a cached binary is served; otherwise curl must exist,  *)
(* the directory and the temp name are made and the trap is set.           *)
CheckCache(l) ==
  /\ Swept(l)
  /\ IF cache[VersionOf[l]] \in xbit
     THEN Transition(l, "orphans", "ready")
     ELSE Transition(l, "orphans", "spawn") \/ Transition(l, "orphans", "failed")
  /\ UNCHANGED <<process, files, sweeps>>

SpawnCurl(l) ==
  /\ Transition(l, "spawn", "forked")
  /\ curl' = [curl EXCEPT ![l] = "starting"]
  /\ UNCHANGED <<curlPid, files, sweeps>>

RecordPid(l) ==
  /\ Transition(l, "forked", "waiting")
  /\ curlPid' = [curlPid EXCEPT ![l] = TRUE]
  /\ UNCHANGED <<curl, files, sweeps>>

(* Mutant: chmod +x straight after the download. *)
WaitCurlThenChmod(l) ==
  /\ curl[l] = "ok"
  /\ Transition(l, "waiting", "verify")
  /\ xbit' = xbit \cup {l}
  /\ UNCHANGED <<process, tmp, content, cache, sweeps>>

(* Mutant: a failed download ends the run without rm. *)
WaitCurlKeepsPartial(l) ==
  /\ curl[l] = "dead"
  /\ Transition(l, "waiting", "failed")
  /\ UNCHANGED <<process, files, sweeps>>

(* wait "$curl_pid": a failed curl takes the temp file and the run with it. *)
WaitCurl(l) ==
  /\ \/ curl[l] = "ok" /\ Transition(l, "waiting", "verify") /\ UNCHANGED tmp
     \/ curl[l] = "dead" /\ Transition(l, "waiting", "failed") /\ tmp' = tmp \ {l}
  /\ UNCHANGED <<process, content, xbit, cache, sweeps>>

(* Mutant: the checksum is computed but not compared. *)
VerifyUncompared(l) ==
  /\ l \in tmp
  /\ Transition(l, "verify", "chmod")
  /\ UNCHANGED <<process, files, sweeps>>

(* The content is "good" exactly when its SHA256 is the pinned one.  The   *)
(* other exit: no sha256 tool, no file to read, or a mismatch.             *)
Verify(l) ==
  /\ \/ l \in tmp /\ content[l] = "good" /\ Transition(l, "verify", "chmod") /\ UNCHANGED tmp
     \/ Transition(l, "verify", "failed") /\ tmp' = tmp \ {l}
  /\ UNCHANGED <<process, content, xbit, cache, sweeps>>

(* chmod and mv: under set -e a command on a missing file ends the run.    *)
Chmod(l) ==
  /\ IF l \in tmp
     THEN Transition(l, "chmod", "install") /\ xbit' = xbit \cup {l}
     ELSE Transition(l, "chmod", "failed") /\ UNCHANGED xbit
  /\ UNCHANGED <<process, tmp, content, cache, sweeps>>

(* Mutant: mv with its operands swapped. *)
InstallSwapped(l) ==
  /\ Transition(l, "install", "disarm")
  /\ cache' = [cache EXCEPT ![VersionOf[l]] = VersionOf[l]]
  /\ UNCHANGED <<process, tmp, content, xbit, sweeps>>

Install(l) ==
  /\ IF l \in tmp
     THEN /\ Transition(l, "install", "disarm")
          /\ cache' = [cache EXCEPT ![VersionOf[l]] = l]
          /\ tmp' = tmp \ {l}
     ELSE Transition(l, "install", "failed") /\ UNCHANGED <<cache, tmp>>
  /\ UNCHANGED <<process, content, xbit, sweeps>>

DisarmTrap(l) ==
  /\ Transition(l, "disarm", "ready")
  /\ UNCHANGED <<process, files, sweeps>>

(* Warm mode exits; otherwise exec, which fails without an executable.     *)
Finish(l) ==
  /\ \/ Transition(l, "ready", "exit0")
     \/ Transition(l, "ready", IF cache[VersionOf[l]] \in xbit THEN "running" ELSE "failed")
  /\ UNCHANGED <<process, files, sweeps>>

-----------------------------------------------------------------------------
(* The curl process: curl -fsSL --retry 2 -o "$tmp_bin" "$url" &           *)

CurlAlive(l) == curl[l] \in {"starting", "writing"}

CurlOpen(l) ==
  /\ curl[l] = "starting"
  /\ curl' = [curl EXCEPT ![l] = "writing"]
  /\ tmp' = tmp \cup {l}
  /\ content' = [content EXCEPT ![l] = "partial"]
  /\ UNCHANGED <<pc, curlPid, xbit, cache, sweeps>>

CurlFinish(l) ==
  /\ curl[l] = "writing"
  /\ curl' = [curl EXCEPT ![l] = "ok"]
  /\ \E c \in {"good", "bad"} : content' = [content EXCEPT ![l] = c]
  /\ UNCHANGED <<pc, curlPid, tmp, xbit, cache, sweeps>>

(* No network, a missing asset, or a kill from outside.                    *)
CurlFail(l) ==
  /\ CurlAlive(l)
  /\ curl' = [curl EXCEPT ![l] = "dead"]
  /\ UNCHANGED <<pc, curlPid, files, sweeps>>

-----------------------------------------------------------------------------
(* Signals.                                                                *)

(* INT, TERM or HUP while trapped: abandon_download kills the curl whose   *)
(* pid it has and waits for it.  A signal during a command is handled when *)
(* that command ends, which is a signal between it and the next.           *)
Interrupt(l) ==
  /\ pc[l] \in Trapped
  /\ pc' = [pc EXCEPT ![l] = "abandon"]
  /\ curl' = IF curlPid[l] /\ CurlAlive(l) THEN [curl EXCEPT ![l] = "dead"] ELSE curl
  /\ UNCHANGED <<curlPid, files, sweeps>>

Abandon(l) ==
  /\ Transition(l, "abandon", "interrupted")
  /\ tmp' = tmp \ {l}
  /\ UNCHANGED <<process, content, xbit, cache, sweeps>>

(* SIGKILL at any point, or any signal while no trap is set.               *)
Kill(l) ==
  /\ Live(l) /\ pc[l] \notin {"running", "dev"}
  /\ pc' = [pc EXCEPT ![l] = "killed"]
  /\ UNCHANGED <<process, files, sweeps>>

(* The engine that replaced the launcher exits or is killed.               *)
EngineExit(l) ==
  /\ pc[l] \in {"running", "dev"}
  /\ pc' = [pc EXCEPT ![l] = "stopped"]
  /\ UNCHANGED <<process, files, sweeps>>

-----------------------------------------------------------------------------
Step(l) ==
  \/ SweepGlob(l) \/ SweepTest(l) \/ SweepUnlink(l) \/ CheckCache(l)
  \/ SpawnCurl(l) \/ RecordPid(l) \/ WaitCurl(l) \/ Verify(l) \/ Chmod(l)
  \/ Install(l) \/ DisarmTrap(l) \/ Finish(l) \/ Abandon(l)

Curl(l) == CurlOpen(l) \/ CurlFinish(l) \/ CurlFail(l)

Environment(l) == Resolve(l) \/ Interrupt(l) \/ Kill(l) \/ EngineExit(l)

Next == \E l \in Launchers : Step(l) \/ Curl(l) \/ Environment(l)

Spec == Init /\ [][Next]_vars

(* A started script keeps executing, and a transfer ends one way or the    *)
(* other; nobody has to start a run, signal it or end the engine.          *)
Fairness == \A l \in Launchers : WF_vars(Step(l)) /\ WF_vars(Curl(l))

FairSpec == Spec /\ Fairness

-----------------------------------------------------------------------------
(* The variables keep to their types.                                      *)
TypeOK ==
  /\ pc \in [Launchers -> States]
  /\ curl \in [Launchers -> {"none", "starting", "writing", "ok", "dead"}]
  /\ curlPid \in [Launchers -> BOOLEAN]
  /\ tmp \subseteq Launchers /\ xbit \subseteq Launchers
  /\ content \in [Launchers -> {"none", "partial", "good", "bad"}]
  /\ cache \in [Versions -> Launchers \cup {None}]
  /\ todo \in [Launchers -> SUBSET Launchers] /\ stale \in [Launchers -> SUBSET Launchers]
  /\ victim \in [Launchers -> Launchers \cup {None}]

(* The file that cache_bin names is complete, matches the pinned checksum  *)
(* and is executable, whatever the other runs, their leftover curls and    *)
(* their sweeps do; and "verifying its SHA256 BEFORE chmod +x": no file,   *)
(* cached, temporary or unlinked, is ever executable unverified.           *)
CacheVerified ==
  /\ \A v \in Versions : cache[v] # None => content[cache[v]] = "good" /\ cache[v] \in xbit
  /\ \A l \in xbit : content[l] = "good"

(* No sweep takes the temp file of a run that still needs it: from the end *)
(* of its download to the rename the file is there, although other runs    *)
(* test and unlink names from a listing that may be out of date.           *)
SweepSparesLiveDownload == \A l \in Launchers : pc[l] \in {"verify", "chmod", "install"} => l \in tmp

(* A run interrupted once it knew its curl leaves no curl and no temp file.*)
InterruptCleansUp ==
  \A l \in Launchers :
    pc[l] = "interrupted" /\ curlPid[l] => l \notin tmp /\ ~CurlAlive(l)

(* What lines 11-12 of the launcher say, without exception: a download cut *)
(* short by INT, TERM or HUP kills curl and removes its temp file.         *)
InterruptAlwaysCleansUp ==
  \A l \in Launchers : pc[l] = "interrupted" => l \notin tmp /\ ~CurlAlive(l)

(* A temp file on disk belongs to a run still alive, to one that SIGKILL   *)
(* took, or to one interrupted before it knew its curl: every other way to *)
(* end, success or failure, leaves nothing behind.                         *)
OnlyCutShortRunsLeaveFiles ==
  \A l \in tmp : Live(l) \/ pc[l] = "killed" \/ (pc[l] = "interrupted" /\ ~curlPid[l])

(* When its sweep ends, a run has removed every temp file of its version   *)
(* whose launcher was already dead when the sweep began.                   *)
SweepClearsItsVersion ==
  \A l \in Launchers : Swept(l) =>
    \A n \in stale[l] \cap tmp : VersionOf[n] # VersionOf[l]

(* All three: what may be left behind, by whom, and until when.            *)
LeftoversAreBounded == InterruptCleansUp /\ OnlyCutShortRunsLeaveFiles /\ SweepClearsItsVersion

(* A run that starts ends: it exits, or hands over to the engine.          *)
LaunchEnds == \A l \in Launchers : pc[l] = "sweep" ~> pc[l] \in Ended \cup {"running"}

-----------------------------------------------------------------------------
(* The launcher implements the cache it promises.                          *)

InstalledVersions == {v \in Versions : cache[v] # None /\ content[cache[v]] = "good"}

Outcome(l) ==
  IF pc[l] = "running" THEN "served"
  ELSE IF pc[l] \in Ended \cup {"dev"} THEN "over" ELSE "pending"

OutcomeOf == [l \in Launchers |-> Outcome(l)]

Promise == INSTANCE EngineCache WITH installed <- InstalledVersions, outcome <- OutcomeOf

(* Every step of every run is a step of the promised cache or invisible:   *)
(* a version appears only verified, never disappears or turns bad, and     *)
(* only an installed engine is ever run.                                   *)
ImplementsEngineCache == Promise!Spec
=============================================================================
