--------------------------- MODULE FiguraLauncher ---------------------------
(* figura/bin/launch.sh: it provides d2 from a cache that every figura command *)
(* of the user shares.  A run downloads an archive into a directory of its     *)
(* own, .unpack.<pid>, verifies it, unpacks it there and moves d2 into place.  *)
(* There is no trap and no sweep: a run cut short leaves its directory, and a  *)
(* later process with the same pid finds it.  (No pid is taken again while the *)
(* curl of its dead owner still writes.)                                       *)
CONSTANTS Pids, \* processes of the launcher
          Absent

ASSUME AbsentIsNothing == Absent \notin {"good", "bad"}

VARIABLES site,   \* what stands beside the script: "dev" (a d2), "pinned" or "unusable"
          state,     \* the next command of each process
          warm,   \* the processes started with --warm
          unpack, \* what the process's directory holds: Absent, or [archive, d2]
          cached  \* what cache_bin holds: Absent, "good" or "bad"
launcherVars == <<site, state, warm, unpack, cached>>

Working == {"resolve", "test", "mkdir", "download", "verify", "unpack", "install", "clean", "ready"}
Over    == {"exit 0", "failed", "killed"}

LauncherInit == /\ site \in {"dev", "pinned", "unusable"} /\ state = [p \in Pids |-> "idle"] /\ warm = {}
                /\ unpack = [p \in Pids |-> Absent] /\ cached = Absent

Step(p, from, to) == state[p] = from /\ state' = [state EXCEPT ![p] = to]
Holds(p, dir)     == unpack' = [unpack EXCEPT ![p] = dir]

Launch(p, isWarm) == /\ Step(p, "idle", "resolve")
                     /\ warm' = IF isWarm THEN warm \cup {p} ELSE warm \ {p}
                     /\ UNCHANGED <<site, unpack, cached>>

\* A d2 beside the script; or no pin, a malformed one, a strange platform.
Resolve(p) == /\ Step(p, "resolve", CASE site = "dev"      -> IF p \in warm THEN "exit 0" ELSE "dev"
                                       [] site = "unusable" -> "failed"
                                       [] site = "pinned"   -> "test")
              /\ UNCHANGED <<site, warm, unpack, cached>>

\* Mutant: a warm run is content with the pin.
TestCacheUnlessWarm(p) ==
    /\ IF cached # Absent \/ p \in warm THEN Step(p, "test", "ready") ELSE Step(p, "test", "mkdir") \/ Step(p, "test", "failed")
    /\ UNCHANGED <<site, warm, unpack, cached>>

TestCache(p) == /\ IF cached # Absent THEN Step(p, "test", "ready")
                   ELSE Step(p, "test", "mkdir") \/ Step(p, "test", "failed")
                /\ UNCHANGED <<site, warm, unpack, cached>>

\* mkdir -p takes the directory of a dead process as it is.
MakeDirectory(p) == /\ Step(p, "mkdir", "download")
                    /\ Holds(p, IF unpack[p] = Absent THEN [archive |-> "partial", d2 |-> Absent]
                                ELSE [unpack[p] EXCEPT !.archive = "partial"])
                    /\ UNCHANGED <<site, warm, cached>>

\* rm -rf "$unpack_dir"; fail
GiveUp(p, from) == Step(p, from, "failed") /\ Holds(p, Absent)

Download(p) == /\ \/ Step(p, "download", "verify") /\ \E a \in {"good", "bad"} : Holds(p, [unpack[p] EXCEPT !.archive = a])
                  \/ GiveUp(p, "download")
               /\ UNCHANGED <<site, warm, cached>>

\* Mutant: the checksum is computed and not compared.
ChecksumMatches(archive) == archive # "partial"

IsPinned(archive) == archive = "good"

Verify(p) == /\ \/ Step(p, "verify", "unpack") /\ IsPinned(unpack[p].archive) /\ UNCHANGED unpack
                \/ GiveUp(p, "verify")
             /\ UNCHANGED <<site, warm, cached>>

\* tar and chmod +x
Unpack(p) == /\ \/ Step(p, "unpack", "install") /\ Holds(p, [unpack[p] EXCEPT !.d2 = unpack[p].archive])
                \/ GiveUp(p, "unpack")
             /\ UNCHANGED <<site, warm, cached>>

Install(p) == /\ Step(p, "install", "clean")
              /\ cached' = unpack[p].d2
              /\ Holds(p, [unpack[p] EXCEPT !.d2 = Absent])
              /\ UNCHANGED <<site, warm>>

Clean(p) == Step(p, "clean", "ready") /\ Holds(p, Absent) /\ UNCHANGED <<site, warm, cached>>

Serve(p) == /\ Step(p, "ready", IF p \in warm THEN "exit 0" ELSE "running")
            /\ UNCHANGED <<site, warm, unpack, cached>>

\* Any signal, or a command that fails under set -e: nothing is removed.  The archive
\* that stays is overwritten before it is read again, so it counts as partial.
KillRun(p) == /\ state[p] \in Working \cup {"dev", "running"}
              /\ state' = [state EXCEPT ![p] = "killed"]
              /\ unpack' = IF unpack[p] = Absent THEN unpack ELSE [unpack EXCEPT ![p].archive = "partial"]
              /\ UNCHANGED <<site, warm, cached>>

LauncherNext(p) == \/ Resolve(p) \/ TestCache(p) \/ MakeDirectory(p) \/ Download(p) \/ Verify(p)
                   \/ Unpack(p) \/ Install(p) \/ Clean(p) \/ Serve(p) \/ KillRun(p)

-----------------------------------------------------------------------------
(* "Checks its sha256 before unpacking": d2 in the cache, which any run may    *)
(* install while others test and run it, and which may come out of a directory *)
(* that a dead run left, is the pinned one, and so is every d2 that runs.      *)
OnlyPinnedD2Runs ==
    /\ cached # "bad"
    /\ \A p \in Pids : state[p] = "running" => cached = "good"
=============================================================================
