---------------------------- MODULE EngineCache ----------------------------
(***************************************************************************)
(* What the engine launcher promises, with the download hidden: each       *)
(* engine version is either absent from the cache or present as a          *)
(* verified, executable binary; once present it stays; and a launch ends   *)
(* by running a verified binary, by leaving one cached (warm mode), or     *)
(* without having run anything.                                            *)
(***************************************************************************)
CONSTANTS
  Launchers,  (* the runs of plugin/bin/launch.sh                *)
  Versions,   (* the engine versions a release pin can name      *)
  VersionOf   (* the version pinned for each run                 *)

VARIABLES
  installed,  (* the versions with a verified binary in the cache *)
  outcome     (* how far each launch has got                      *)

vars == <<installed, outcome>>

Outcomes == {"pending", "served", "over"}

Init ==
  /\ installed = {}
  /\ outcome = [l \in Launchers |-> "pending"]

Install(l) ==
  /\ outcome[l] = "pending"
  /\ installed' = installed \cup {VersionOf[l]}
  /\ UNCHANGED outcome

(* The cached engine of the pinned version replaces the launcher process.  *)
Serve(l) ==
  /\ outcome[l] = "pending"
  /\ VersionOf[l] \in installed
  /\ outcome' = [outcome EXCEPT ![l] = "served"]
  /\ UNCHANGED installed

(* A warm run, a refused or failed launch, a killed one, an engine exit.   *)
Finish(l) ==
  /\ outcome[l] # "over"
  /\ outcome' = [outcome EXCEPT ![l] = "over"]
  /\ UNCHANGED installed

Next == \E l \in Launchers : Install(l) \/ Serve(l) \/ Finish(l)

Spec == Init /\ [][Next]_vars
=============================================================================
