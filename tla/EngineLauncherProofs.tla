------------------------ MODULE EngineLauncherProofs ------------------------
(***************************************************************************)
(* The launcher's safety for any number of runs and versions.              *)
(***************************************************************************)
EXTENDS EngineLauncher, TLAPS

-----------------------------------------------------------------------------
(* The inductive invariant.                                                *)

(* An executable file is downloaded to its end and verified, hence never   *)
(* written again, and the cache names executable files only.               *)
Sealed ==
  /\ \A l \in xbit : curl[l] = "ok" /\ content[l] = "good"
  /\ \A v \in Versions : cache[v] # None => cache[v] \in xbit
  /\ \A l \in Launchers : pc[l] \in {"chmod", "install"} => curl[l] = "ok" /\ content[l] = "good"
  /\ \A l \in Launchers : pc[l] = "install" => l \in xbit

(* What the place of a run in the script says of its curl and temp file.   *)
CurlPhase(l) ==
  /\ pc[l] \in {"idle", "sweep", "orphans", "unlink", "spawn"} => curl[l] = "none"
  /\ pc[l] \in {"forked", "waiting"} /\ curl[l] \in {"writing", "ok"} => l \in tmp
  /\ pc[l] \in {"verify", "chmod", "install"} => curl[l] = "ok" /\ l \in tmp
  /\ pc[l] \in {"disarm", "ready", "running", "dev", "exit0", "failed", "stopped"}
       => ~CurlAlive(l) /\ l \notin tmp
  /\ pc[l] \in {"abandon", "interrupted"} /\ curlPid[l] => ~CurlAlive(l)
  /\ pc[l] = "interrupted" /\ curlPid[l] => l \notin tmp
  /\ curl[l] \in {"none", "starting"} => l \notin tmp

(* What a sweep may assume of the names it still holds: they had an owner, *)
(* victims are dead, and stale files not yet unlinked are going to be.     *)
SweepPhase(l) ==
  /\ \A n \in todo[l] : pc[n] # "idle"
  /\ victim[l] # None => pc[victim[l]] \in Ended
  /\ \A n \in stale[l] : pc[n] \in Ended /\ curl[n] # "starting"
  /\ pc[l] \in {"orphans", "unlink"} =>
       \A n \in stale[l] \cap tmp : VersionOf[n] = VersionOf[l] =>
         n \in todo[l] \/ (pc[l] = "unlink" /\ n = victim[l])

IInv == TypeOK /\ Sealed /\ \A l \in Launchers : CurlPhase(l) /\ SweepPhase(l)

-----------------------------------------------------------------------------
(* The launcher's variables are well typed in every reachable state.       *)
LEMMA TypeCorrect == Spec => []TypeOK
<1> USE LauncherAssumption
<1>1. Init => TypeOK
  BY DEF Init, TypeOK, States
<1>2. TypeOK /\ [Next]_vars => TypeOK'
  <2> SUFFICES ASSUME TypeOK, [Next]_vars PROVE TypeOK'
    OBVIOUS
  <2> USE DEF TypeOK, States, Trapped, Ended, Transition, process, files, sweeps
  <2>1. ASSUME NEW l \in Launchers, Resolve(l) PROVE TypeOK'
    BY <2>1 DEF Resolve
  <2>2. ASSUME NEW l \in Launchers, SweepGlob(l) PROVE TypeOK'
    BY <2>2 DEF SweepGlob
  <2>3. ASSUME NEW l \in Launchers, SweepTest(l) PROVE TypeOK'
    BY <2>3 DEF SweepTest
  <2>4. ASSUME NEW l \in Launchers, SweepUnlink(l) PROVE TypeOK'
    BY <2>4 DEF SweepUnlink
  <2>5. ASSUME NEW l \in Launchers, CheckCache(l) PROVE TypeOK'
    BY <2>5 DEF CheckCache
  <2>6. ASSUME NEW l \in Launchers, SpawnCurl(l) PROVE TypeOK'
    BY <2>6 DEF SpawnCurl
  <2>7. ASSUME NEW l \in Launchers, RecordPid(l) PROVE TypeOK'
    BY <2>7 DEF RecordPid
  <2>8. ASSUME NEW l \in Launchers, WaitCurl(l) PROVE TypeOK'
    BY <2>8 DEF WaitCurl
  <2>9. ASSUME NEW l \in Launchers, Verify(l) PROVE TypeOK'
    BY <2>9 DEF Verify
  <2>10. ASSUME NEW l \in Launchers, Chmod(l) PROVE TypeOK'
    BY <2>10 DEF Chmod
  <2>11. ASSUME NEW l \in Launchers, Install(l) PROVE TypeOK'
    BY <2>11 DEF Install
  <2>12. ASSUME NEW l \in Launchers, DisarmTrap(l) PROVE TypeOK'
    BY <2>12 DEF DisarmTrap
  <2>13. ASSUME NEW l \in Launchers, Finish(l) PROVE TypeOK'
    BY <2>13 DEF Finish
  <2>14. ASSUME NEW l \in Launchers, Abandon(l) PROVE TypeOK'
    BY <2>14 DEF Abandon
  <2>15. ASSUME NEW l \in Launchers, CurlOpen(l) PROVE TypeOK'
    BY <2>15 DEF CurlOpen
  <2>16. ASSUME NEW l \in Launchers, CurlFinish(l) PROVE TypeOK'
    BY <2>16 DEF CurlFinish
  <2>17. ASSUME NEW l \in Launchers, CurlFail(l) PROVE TypeOK'
    BY <2>17 DEF CurlFail
  <2>18. ASSUME NEW l \in Launchers, Interrupt(l) PROVE TypeOK'
    BY <2>18 DEF Interrupt
  <2>19. ASSUME NEW l \in Launchers, Kill(l) PROVE TypeOK'
    BY <2>19 DEF Kill
  <2>20. ASSUME NEW l \in Launchers, EngineExit(l) PROVE TypeOK'
    BY <2>20 DEF EngineExit
  <2>21. ASSUME UNCHANGED vars PROVE TypeOK'
    BY <2>21 DEF vars
  <2> QED
    BY <2>1, <2>2, <2>3, <2>4, <2>5, <2>6, <2>7, <2>8, <2>9, <2>10, <2>11, <2>12, <2>13,
       <2>14, <2>15, <2>16, <2>17, <2>18, <2>19, <2>20, <2>21
       DEF Next, Step, Curl, Environment
<1> QED
  BY <1>1, <1>2, PTL DEF Spec

(* Executable files stay verified through every step of every run.         *)
LEMMA SealedStep == IInv /\ [Next]_vars => Sealed'
<1> SUFFICES ASSUME IInv, [Next]_vars PROVE Sealed'
  OBVIOUS
<1> USE LauncherAssumption
    DEF IInv, Sealed, TypeOK, CurlPhase, CurlAlive, States, Trapped, Ended, Transition, process,
        files, sweeps
<1>1. ASSUME NEW l \in Launchers, Resolve(l) PROVE Sealed'
  BY <1>1 DEF Resolve
<1>2. ASSUME NEW l \in Launchers, SweepGlob(l) PROVE Sealed'
  BY <1>2 DEF SweepGlob
<1>3. ASSUME NEW l \in Launchers, SweepTest(l) PROVE Sealed'
  BY <1>3 DEF SweepTest
<1>4. ASSUME NEW l \in Launchers, SweepUnlink(l) PROVE Sealed'
  BY <1>4 DEF SweepUnlink
<1>5. ASSUME NEW l \in Launchers, CheckCache(l) PROVE Sealed'
  BY <1>5 DEF CheckCache
<1>6. ASSUME NEW l \in Launchers, SpawnCurl(l) PROVE Sealed'
  BY <1>6 DEF SpawnCurl
<1>7. ASSUME NEW l \in Launchers, RecordPid(l) PROVE Sealed'
  BY <1>7 DEF RecordPid
<1>8. ASSUME NEW l \in Launchers, WaitCurl(l) PROVE Sealed'
  BY <1>8 DEF WaitCurl
<1>9. ASSUME NEW l \in Launchers, Verify(l) PROVE Sealed'
  BY <1>9 DEF Verify
<1>10. ASSUME NEW l \in Launchers, Chmod(l) PROVE Sealed'
  BY <1>10 DEF Chmod
<1>11. ASSUME NEW l \in Launchers, Install(l) PROVE Sealed'
  BY <1>11 DEF Install
<1>12. ASSUME NEW l \in Launchers, DisarmTrap(l) PROVE Sealed'
  BY <1>12 DEF DisarmTrap
<1>13. ASSUME NEW l \in Launchers, Finish(l) PROVE Sealed'
  BY <1>13 DEF Finish
<1>14. ASSUME NEW l \in Launchers, Abandon(l) PROVE Sealed'
  BY <1>14 DEF Abandon
<1>15. ASSUME NEW l \in Launchers, CurlOpen(l) PROVE Sealed'
  BY <1>15 DEF CurlOpen
<1>16. ASSUME NEW l \in Launchers, CurlFinish(l) PROVE Sealed'
  BY <1>16 DEF CurlFinish
<1>17. ASSUME NEW l \in Launchers, CurlFail(l) PROVE Sealed'
  BY <1>17 DEF CurlFail
<1>18. ASSUME NEW l \in Launchers, Interrupt(l) PROVE Sealed'
  BY <1>18 DEF Interrupt
<1>19. ASSUME NEW l \in Launchers, Kill(l) PROVE Sealed'
  BY <1>19 DEF Kill
<1>20. ASSUME NEW l \in Launchers, EngineExit(l) PROVE Sealed'
  BY <1>20 DEF EngineExit
<1>21. ASSUME UNCHANGED vars PROVE Sealed'
  BY <1>21 DEF vars
<1> QED
  BY <1>1, <1>2, <1>3, <1>4, <1>5, <1>6, <1>7, <1>8, <1>9, <1>10, <1>11, <1>12, <1>13,
     <1>14, <1>15, <1>16, <1>17, <1>18, <1>19, <1>20, <1>21
     DEF Next, Step, Curl, Environment

(* Each run keeps the file it is going to install, and leaves none behind. *)
LEMMA CurlPhaseStep == IInv /\ [Next]_vars => \A k \in Launchers : CurlPhase(k)'
<1> SUFFICES ASSUME IInv, [Next]_vars, NEW k \in Launchers PROVE CurlPhase(k)'
  OBVIOUS
<1> USE LauncherAssumption
    DEF IInv, TypeOK, CurlPhase, SweepPhase, CurlAlive, States, Trapped, Ended, Transition,
        Swept, process, files, sweeps
<1>1. ASSUME NEW l \in Launchers, Resolve(l) PROVE CurlPhase(k)'
  BY <1>1 DEF Resolve
<1>2. ASSUME NEW l \in Launchers, SweepGlob(l) PROVE CurlPhase(k)'
  BY <1>2 DEF SweepGlob
<1>3. ASSUME NEW l \in Launchers, SweepTest(l) PROVE CurlPhase(k)'
  BY <1>3 DEF SweepTest
<1>4. ASSUME NEW l \in Launchers, SweepUnlink(l) PROVE CurlPhase(k)'
  BY <1>4 DEF SweepUnlink
<1>5. ASSUME NEW l \in Launchers, CheckCache(l) PROVE CurlPhase(k)'
  BY <1>5 DEF CheckCache
<1>6. ASSUME NEW l \in Launchers, SpawnCurl(l) PROVE CurlPhase(k)'
  BY <1>6 DEF SpawnCurl
<1>7. ASSUME NEW l \in Launchers, RecordPid(l) PROVE CurlPhase(k)'
  BY <1>7 DEF RecordPid
<1>8. ASSUME NEW l \in Launchers, WaitCurl(l) PROVE CurlPhase(k)'
  BY <1>8 DEF WaitCurl
<1>9. ASSUME NEW l \in Launchers, Verify(l) PROVE CurlPhase(k)'
  BY <1>9 DEF Verify
<1>10. ASSUME NEW l \in Launchers, Chmod(l) PROVE CurlPhase(k)'
  BY <1>10 DEF Chmod
<1>11. ASSUME NEW l \in Launchers, Install(l) PROVE CurlPhase(k)'
  BY <1>11 DEF Install
<1>12. ASSUME NEW l \in Launchers, DisarmTrap(l) PROVE CurlPhase(k)'
  BY <1>12 DEF DisarmTrap
<1>13. ASSUME NEW l \in Launchers, Finish(l) PROVE CurlPhase(k)'
  BY <1>13 DEF Finish
<1>14. ASSUME NEW l \in Launchers, Abandon(l) PROVE CurlPhase(k)'
  BY <1>14 DEF Abandon
<1>15. ASSUME NEW l \in Launchers, CurlOpen(l) PROVE CurlPhase(k)'
  BY <1>15 DEF CurlOpen
<1>16. ASSUME NEW l \in Launchers, CurlFinish(l) PROVE CurlPhase(k)'
  BY <1>16 DEF CurlFinish
<1>17. ASSUME NEW l \in Launchers, CurlFail(l) PROVE CurlPhase(k)'
  BY <1>17 DEF CurlFail
<1>18. ASSUME NEW l \in Launchers, Interrupt(l) PROVE CurlPhase(k)'
  BY <1>18 DEF Interrupt
<1>19. ASSUME NEW l \in Launchers, Kill(l) PROVE CurlPhase(k)'
  BY <1>19 DEF Kill
<1>20. ASSUME NEW l \in Launchers, EngineExit(l) PROVE CurlPhase(k)'
  BY <1>20 DEF EngineExit
<1>21. ASSUME UNCHANGED vars PROVE CurlPhase(k)'
  BY <1>21 DEF vars
<1> QED
  BY <1>1, <1>2, <1>3, <1>4, <1>5, <1>6, <1>7, <1>8, <1>9, <1>10, <1>11, <1>12, <1>13,
     <1>14, <1>15, <1>16, <1>17, <1>18, <1>19, <1>20, <1>21
     DEF Next, Step, Curl, Environment

(* Sweeps hold names of the dead only.                                     *)
LEMMA SweepPhaseStep == IInv /\ [Next]_vars => \A k \in Launchers : SweepPhase(k)'
<1> SUFFICES ASSUME IInv, [Next]_vars, NEW k \in Launchers PROVE SweepPhase(k)'
  OBVIOUS
<1> USE LauncherAssumption
    DEF IInv, TypeOK, CurlPhase, SweepPhase, CurlAlive, States, Trapped, Ended, Transition,
        Swept, process, files, sweeps, Live
<1>1. ASSUME NEW l \in Launchers, Resolve(l) PROVE SweepPhase(k)'
  BY <1>1 DEF Resolve
<1>2. ASSUME NEW l \in Launchers, SweepGlob(l) PROVE SweepPhase(k)'
  BY <1>2 DEF SweepGlob
<1>3. ASSUME NEW l \in Launchers, SweepTest(l) PROVE SweepPhase(k)'
  BY <1>3 DEF SweepTest
<1>4. ASSUME NEW l \in Launchers, SweepUnlink(l) PROVE SweepPhase(k)'
  BY <1>4 DEF SweepUnlink
<1>5. ASSUME NEW l \in Launchers, CheckCache(l) PROVE SweepPhase(k)'
  BY <1>5 DEF CheckCache
<1>6. ASSUME NEW l \in Launchers, SpawnCurl(l) PROVE SweepPhase(k)'
  BY <1>6 DEF SpawnCurl
<1>7. ASSUME NEW l \in Launchers, RecordPid(l) PROVE SweepPhase(k)'
  BY <1>7 DEF RecordPid
<1>8. ASSUME NEW l \in Launchers, WaitCurl(l) PROVE SweepPhase(k)'
  BY <1>8 DEF WaitCurl
<1>9. ASSUME NEW l \in Launchers, Verify(l) PROVE SweepPhase(k)'
  BY <1>9 DEF Verify
<1>10. ASSUME NEW l \in Launchers, Chmod(l) PROVE SweepPhase(k)'
  BY <1>10 DEF Chmod
<1>11. ASSUME NEW l \in Launchers, Install(l) PROVE SweepPhase(k)'
  <2>1. tmp' \subseteq tmp /\ UNCHANGED <<curl, todo, victim, stale>>
    BY <1>11 DEF Install
  <2>2. pc' = [pc EXCEPT ![l] = "disarm"] \/ pc' = [pc EXCEPT ![l] = "failed"]
    BY <1>11 DEF Install
  <2>3. pc[l] = "install"
    BY <1>11 DEF Install
  <2> QED
    BY <2>1, <2>2, <2>3
<1>12. ASSUME NEW l \in Launchers, DisarmTrap(l) PROVE SweepPhase(k)'
  BY <1>12 DEF DisarmTrap
<1>13. ASSUME NEW l \in Launchers, Finish(l) PROVE SweepPhase(k)'
  BY <1>13 DEF Finish
<1>14. ASSUME NEW l \in Launchers, Abandon(l) PROVE SweepPhase(k)'
  BY <1>14 DEF Abandon
<1>15. ASSUME NEW l \in Launchers, CurlOpen(l) PROVE SweepPhase(k)'
  BY <1>15 DEF CurlOpen
<1>16. ASSUME NEW l \in Launchers, CurlFinish(l) PROVE SweepPhase(k)'
  BY <1>16 DEF CurlFinish
<1>17. ASSUME NEW l \in Launchers, CurlFail(l) PROVE SweepPhase(k)'
  BY <1>17 DEF CurlFail
<1>18. ASSUME NEW l \in Launchers, Interrupt(l) PROVE SweepPhase(k)'
  BY <1>18 DEF Interrupt
<1>19. ASSUME NEW l \in Launchers, Kill(l) PROVE SweepPhase(k)'
  BY <1>19 DEF Kill
<1>20. ASSUME NEW l \in Launchers, EngineExit(l) PROVE SweepPhase(k)'
  BY <1>20 DEF EngineExit
<1>21. ASSUME UNCHANGED vars PROVE SweepPhase(k)'
  BY <1>21 DEF vars
<1> QED
  BY <1>1, <1>2, <1>3, <1>4, <1>5, <1>6, <1>7, <1>8, <1>9, <1>10, <1>11, <1>12, <1>13,
     <1>14, <1>15, <1>16, <1>17, <1>18, <1>19, <1>20, <1>21
     DEF Next, Step, Curl, Environment

(* IInv holds in every reachable state.                                    *)
LEMMA Inductive == Spec => []IInv
<1>1. Init => Sealed
  BY DEF Init, Sealed
<1>2. Init => \A l \in Launchers : CurlPhase(l) /\ SweepPhase(l)
  BY DEF Init, CurlPhase, SweepPhase, CurlAlive
<1>3. IInv /\ [Next]_vars => Sealed' /\ \A l \in Launchers : CurlPhase(l)' /\ SweepPhase(l)'
  BY SealedStep, CurlPhaseStep, SweepPhaseStep
<1>4. Init /\ TypeOK => IInv
  BY <1>1, <1>2 DEF IInv
<1>5. IInv /\ [Next]_vars /\ TypeOK' => IInv'
  BY <1>3 DEF IInv
<1> QED
  BY <1>4, <1>5, TypeCorrect, PTL DEF Spec

(* Whatever the runs, their leftovers and their sweeps do, the cached file *)
(* of every version is complete, verified and executable.                  *)
THEOREM CacheIsVerified == Spec => []CacheVerified
<1>1. IInv => CacheVerified
  BY DEF IInv, Sealed, CacheVerified
<1> QED
  BY <1>1, Inductive, PTL

(* A sweep never takes the temp file of a run that still needs it.         *)
THEOREM SweepIsSafe == Spec => []SweepSparesLiveDownload
<1>1. IInv => SweepSparesLiveDownload
  BY DEF IInv, CurlPhase, SweepSparesLiveDownload
<1> QED
  BY <1>1, Inductive, PTL

(* What a run can leave behind, and what the next one's sweep removes.     *)
THEOREM LeftoversBounded == Spec => []LeftoversAreBounded
<1>1. IInv => InterruptCleansUp
  BY DEF IInv, CurlPhase, InterruptCleansUp
<1>2. IInv => OnlyCutShortRunsLeaveFiles
  BY DEF IInv, TypeOK, States, Trapped, Ended, CurlPhase, OnlyCutShortRunsLeaveFiles, Live
<1>3. IInv => SweepClearsItsVersion
  BY DEF IInv, SweepPhase, SweepClearsItsVersion, Swept
<1>4. IInv => LeftoversAreBounded
  BY <1>1, <1>2, <1>3 DEF LeftoversAreBounded
<1> QED
  BY <1>4, Inductive, PTL

(* A step that renames nothing leaves the promised cache as it is: the     *)
(* curls still running write to files that no cache_bin names.             *)
LEMMA CacheKept ==
  ASSUME IInv, cache' = cache,
         content' = content \/ \E l \in Launchers : CurlOpen(l) \/ CurlFinish(l)
  PROVE  InstalledVersions' = InstalledVersions
<1>1. CASE content' = content
  BY <1>1 DEF InstalledVersions
<1>2. ASSUME NEW l \in Launchers, CurlOpen(l) \/ CurlFinish(l)
      PROVE  InstalledVersions' = InstalledVersions
  <2>1. \A v \in Versions : cache[v] # l
    BY <1>2, LauncherAssumption DEF IInv, Sealed, CurlOpen, CurlFinish, TypeOK
  <2>2. \E c : content' = [content EXCEPT ![l] = c]
    BY <1>2 DEF CurlOpen, CurlFinish
  <2>3. \A v \in Versions : cache[v] # None => content'[cache[v]] = content[cache[v]]
    BY <2>1, <2>2 DEF IInv, TypeOK
  <2> QED
    BY <2>3 DEF InstalledVersions
<1> QED
  BY <1>1, <1>2

(* How a step of one run shows in the promise: not at all, or as its end.  *)
LEMMA RunStepMaps ==
  ASSUME IInv, NEW l \in Launchers, NEW s \in States, pc' = [pc EXCEPT ![l] = s]
  PROVE  /\ pc[l] \notin Ended \cup {"dev", "running"} /\ s \notin Ended \cup {"dev", "running"}
              => OutcomeOf' = OutcomeOf
         /\ s \in Ended \cup {"dev"} => OutcomeOf' = [OutcomeOf EXCEPT ![l] = "over"]
         /\ s = "running" => OutcomeOf' = [OutcomeOf EXCEPT ![l] = "served"]
<1>1. \A k \in Launchers : pc'[k] = IF k = l THEN s ELSE pc[k]
  BY DEF IInv, TypeOK
<1>2. OutcomeOf' = [k \in Launchers |-> IF k = l THEN Outcome(l)' ELSE OutcomeOf[k]]
  BY <1>1 DEF OutcomeOf, Outcome
<1>3. pc'[l] = s
  BY <1>1
<1>4. CASE pc[l] \notin Ended \cup {"dev", "running"} /\ s \notin Ended \cup {"dev", "running"}
  <2>1. Outcome(l)' = "pending" /\ OutcomeOf[l] = "pending"
    BY <1>3, <1>4 DEF Outcome, OutcomeOf
  <2>2. OutcomeOf' = OutcomeOf
    BY <1>2, <2>1 DEF OutcomeOf
  <2> QED
    BY <1>4, <2>2 DEF Ended
<1>5. CASE s \in Ended \cup {"dev"}
  <2>1. Outcome(l)' = "over"
    BY <1>3, <1>5 DEF Outcome, Ended
  <2> QED
    BY <1>2, <1>5, <2>1 DEF OutcomeOf, Ended
<1>6. CASE s = "running"
  <2>1. Outcome(l)' = "served"
    BY <1>3, <1>6 DEF Outcome
  <2> QED
    BY <1>2, <1>6, <2>1 DEF OutcomeOf, Ended
<1> QED
  BY <1>4, <1>5, <1>6

(* Every behaviour of the launcher's runs is a behaviour of the cache it   *)
(* promises: versions appear verified and stay, and only installed engines *)
(* are run.                                                                *)
THEOREM LauncherImplementsCache == Spec => ImplementsEngineCache
<1> USE LauncherAssumption
<1>1. Init => Promise!Init
  BY DEF Init, Promise!Init, Outcome, OutcomeOf, InstalledVersions, Ended
<1>2. ASSUME IInv, [Next]_vars PROVE [Promise!Next]_(Promise!vars)
  <2> DEFINE over == Ended \cup {"dev"}
             Hidden == UNCHANGED <<InstalledVersions, OutcomeOf>>
  <2> USE <1>2 DEF Ended, States, Trapped
  <2>1. ASSUME NEW l \in Launchers, Resolve(l) PROVE Promise!Finish(l) \/ Hidden
    <3>1. InstalledVersions' = InstalledVersions
      BY <2>1, CacheKept DEF Resolve, files
    <3>2. /\ OutcomeOf' = OutcomeOf \/ OutcomeOf' = [OutcomeOf EXCEPT ![l] = "over"]
          /\ pc[l] \notin over
      BY <2>1, RunStepMaps DEF Resolve, Transition
    <3> QED
      BY <3>1, <3>2 DEF Promise!Finish, OutcomeOf, Outcome
  <2>2. ASSUME NEW l \in Launchers, SweepGlob(l) PROVE Hidden
    <3>1. InstalledVersions' = InstalledVersions
      BY <2>2, CacheKept DEF SweepGlob, files
    <3>2. PICK s \in States \ (over \cup {"running"}) : pc' = [pc EXCEPT ![l] = s]
      BY <2>2 DEF SweepGlob, Transition
    <3>3. pc[l] \notin over \cup {"running"}
      BY <2>2 DEF SweepGlob, Transition
    <3> QED
      BY <3>1, <3>2, <3>3, RunStepMaps
  <2>3. ASSUME NEW l \in Launchers, SweepTest(l) PROVE Hidden
    <3>1. InstalledVersions' = InstalledVersions
      BY <2>3, CacheKept DEF SweepTest, files
    <3>2. PICK s \in States \ (over \cup {"running"}) : pc' = [pc EXCEPT ![l] = s]
      BY <2>3 DEF SweepTest, Transition
    <3>3. pc[l] \notin over \cup {"running"}
      BY <2>3 DEF SweepTest, Transition
    <3> QED
      BY <3>1, <3>2, <3>3, RunStepMaps
  <2>4. ASSUME NEW l \in Launchers, SweepUnlink(l) PROVE Hidden
    <3>1. InstalledVersions' = InstalledVersions
      BY <2>4, CacheKept DEF SweepUnlink, files
    <3>2. PICK s \in States \ (over \cup {"running"}) : pc' = [pc EXCEPT ![l] = s]
      BY <2>4 DEF SweepUnlink, Transition
    <3>3. pc[l] \notin over \cup {"running"}
      BY <2>4 DEF SweepUnlink, Transition
    <3> QED
      BY <3>1, <3>2, <3>3, RunStepMaps
  <2>5. ASSUME NEW l \in Launchers, CheckCache(l) PROVE Promise!Finish(l) \/ Hidden
    <3>1. InstalledVersions' = InstalledVersions
      BY <2>5, CacheKept DEF CheckCache, files
    <3>2. /\ OutcomeOf' = OutcomeOf \/ OutcomeOf' = [OutcomeOf EXCEPT ![l] = "over"]
          /\ pc[l] \notin over
      BY <2>5, RunStepMaps DEF CheckCache, Transition, Swept
    <3> QED
      BY <3>1, <3>2 DEF Promise!Finish, OutcomeOf, Outcome
  <2>6. ASSUME NEW l \in Launchers, SpawnCurl(l) PROVE Hidden
    <3>1. InstalledVersions' = InstalledVersions
      BY <2>6, CacheKept DEF SpawnCurl, files
    <3>2. PICK s \in States \ (over \cup {"running"}) : pc' = [pc EXCEPT ![l] = s]
      BY <2>6 DEF SpawnCurl, Transition
    <3>3. pc[l] \notin over \cup {"running"}
      BY <2>6 DEF SpawnCurl, Transition
    <3> QED
      BY <3>1, <3>2, <3>3, RunStepMaps
  <2>7. ASSUME NEW l \in Launchers, RecordPid(l) PROVE Hidden
    <3>1. InstalledVersions' = InstalledVersions
      BY <2>7, CacheKept DEF RecordPid, files
    <3>2. PICK s \in States \ (over \cup {"running"}) : pc' = [pc EXCEPT ![l] = s]
      BY <2>7 DEF RecordPid, Transition
    <3>3. pc[l] \notin over \cup {"running"}
      BY <2>7 DEF RecordPid, Transition
    <3> QED
      BY <3>1, <3>2, <3>3, RunStepMaps
  <2>8. ASSUME NEW l \in Launchers, WaitCurl(l) PROVE Promise!Finish(l) \/ Hidden
    <3>1. InstalledVersions' = InstalledVersions
      BY <2>8, CacheKept DEF WaitCurl, files
    <3>2. /\ OutcomeOf' = OutcomeOf \/ OutcomeOf' = [OutcomeOf EXCEPT ![l] = "over"]
          /\ pc[l] \notin over
      BY <2>8, RunStepMaps DEF WaitCurl, Transition
    <3> QED
      BY <3>1, <3>2 DEF Promise!Finish, OutcomeOf, Outcome
  <2>9. ASSUME NEW l \in Launchers, Verify(l) PROVE Promise!Finish(l) \/ Hidden
    <3>1. InstalledVersions' = InstalledVersions
      BY <2>9, CacheKept DEF Verify, files
    <3>2. /\ OutcomeOf' = OutcomeOf \/ OutcomeOf' = [OutcomeOf EXCEPT ![l] = "over"]
          /\ pc[l] \notin over
      BY <2>9, RunStepMaps DEF Verify, Transition
    <3> QED
      BY <3>1, <3>2 DEF Promise!Finish, OutcomeOf, Outcome
  <2>10. ASSUME NEW l \in Launchers, Chmod(l) PROVE Promise!Finish(l) \/ Hidden
    <3>1. InstalledVersions' = InstalledVersions
      BY <2>10, CacheKept DEF Chmod, files
    <3>2. /\ OutcomeOf' = OutcomeOf \/ OutcomeOf' = [OutcomeOf EXCEPT ![l] = "over"]
          /\ pc[l] \notin over
      BY <2>10, RunStepMaps DEF Chmod, Transition
    <3> QED
      BY <3>1, <3>2 DEF Promise!Finish, OutcomeOf, Outcome
  <2>11. ASSUME NEW l \in Launchers, Install(l) PROVE Promise!Install(l)
    <3>1. l \in tmp /\ content[l] = "good" /\ pc[l] = "install"
      BY <2>11 DEF IInv, Sealed, CurlPhase, Install, Transition
    <3>2. pc' = [pc EXCEPT ![l] = "disarm"] /\ cache' = [cache EXCEPT ![VersionOf[l]] = l]
          /\ content' = content
      BY <2>11, <3>1 DEF Install, Transition
    <3>3. OutcomeOf' = OutcomeOf
      <4>1. PICK s \in States \ (over \cup {"running"}) : pc' = [pc EXCEPT ![l] = s]
        BY <3>2
      <4> QED
        BY <3>1, <4>1, RunStepMaps
    <3>4. OutcomeOf[l] = "pending"
      BY <3>1 DEF OutcomeOf, Outcome
    <3>5. InstalledVersions' = InstalledVersions \cup {VersionOf[l]}
      BY <3>1, <3>2 DEF InstalledVersions, IInv, TypeOK
    <3> QED
      BY <3>3, <3>4, <3>5 DEF Promise!Install
  <2>12. ASSUME NEW l \in Launchers, DisarmTrap(l) PROVE Hidden
    <3>1. InstalledVersions' = InstalledVersions
      BY <2>12, CacheKept DEF DisarmTrap, files
    <3>2. PICK s \in States \ (over \cup {"running"}) : pc' = [pc EXCEPT ![l] = s]
      BY <2>12 DEF DisarmTrap, Transition
    <3>3. pc[l] \notin over \cup {"running"}
      BY <2>12 DEF DisarmTrap, Transition
    <3> QED
      BY <3>1, <3>2, <3>3, RunStepMaps
  <2>13. ASSUME NEW l \in Launchers, Finish(l) PROVE Promise!Serve(l) \/ Promise!Finish(l)
    <3>1. InstalledVersions' = InstalledVersions /\ pc[l] = "ready"
      BY <2>13, CacheKept DEF Finish, Transition, files
    <3>2. cache[VersionOf[l]] \in xbit => VersionOf[l] \in InstalledVersions
      BY DEF IInv, TypeOK, Sealed, InstalledVersions
    <3>3. OutcomeOf[l] = "pending"
      BY <3>1 DEF OutcomeOf, Outcome
    <3>4. \/ OutcomeOf' = [OutcomeOf EXCEPT ![l] = "over"]
          \/ OutcomeOf' = [OutcomeOf EXCEPT ![l] = "served"] /\ cache[VersionOf[l]] \in xbit
      BY <2>13, RunStepMaps DEF Finish, Transition
    <3> QED
      BY <3>1, <3>2, <3>3, <3>4 DEF Promise!Serve, Promise!Finish
  <2>14. ASSUME NEW l \in Launchers, Abandon(l) PROVE Promise!Finish(l) \/ Hidden
    <3>1. InstalledVersions' = InstalledVersions
      BY <2>14, CacheKept DEF Abandon, files
    <3>2. /\ OutcomeOf' = OutcomeOf \/ OutcomeOf' = [OutcomeOf EXCEPT ![l] = "over"]
          /\ pc[l] \notin over
      BY <2>14, RunStepMaps DEF Abandon, Transition
    <3> QED
      BY <3>1, <3>2 DEF Promise!Finish, OutcomeOf, Outcome
  <2>15. ASSUME NEW l \in Launchers, CurlOpen(l) PROVE Hidden
    BY <2>15, CacheKept DEF CurlOpen, files, OutcomeOf, Outcome
  <2>16. ASSUME NEW l \in Launchers, CurlFinish(l) PROVE Hidden
    BY <2>16, CacheKept DEF CurlFinish, files, OutcomeOf, Outcome
  <2>17. ASSUME NEW l \in Launchers, CurlFail(l) PROVE Hidden
    BY <2>17, CacheKept DEF CurlFail, files, OutcomeOf, Outcome
  <2>18. ASSUME NEW l \in Launchers, Interrupt(l) PROVE Hidden
    <3>1. InstalledVersions' = InstalledVersions
      BY <2>18, CacheKept DEF Interrupt, files
    <3>2. PICK s \in States \ (over \cup {"running"}) : pc' = [pc EXCEPT ![l] = s]
      BY <2>18 DEF Interrupt, Transition
    <3>3. pc[l] \notin over \cup {"running"}
      BY <2>18 DEF Interrupt, Transition
    <3> QED
      BY <3>1, <3>2, <3>3, RunStepMaps
  <2>19. ASSUME NEW l \in Launchers, Kill(l) PROVE Promise!Finish(l) \/ Hidden
    <3>1. InstalledVersions' = InstalledVersions
      BY <2>19, CacheKept DEF Kill, files
    <3>2. /\ OutcomeOf' = OutcomeOf \/ OutcomeOf' = [OutcomeOf EXCEPT ![l] = "over"]
          /\ pc[l] \notin over
      BY <2>19, RunStepMaps DEF Kill, Transition, Live
    <3> QED
      BY <3>1, <3>2 DEF Promise!Finish, OutcomeOf, Outcome
  <2>20. ASSUME NEW l \in Launchers, EngineExit(l) PROVE Promise!Finish(l) \/ Hidden
    <3>1. InstalledVersions' = InstalledVersions
      BY <2>20, CacheKept DEF EngineExit, files
    <3>2. OutcomeOf' = [OutcomeOf EXCEPT ![l] = "over"]
      BY <2>20, RunStepMaps DEF EngineExit
    <3>3. CASE pc[l] = "running"
      BY <3>1, <3>2, <3>3 DEF Promise!Finish, OutcomeOf, Outcome
    <3>4. CASE pc[l] = "dev"
      <4>1. OutcomeOf[l] = "over"
        BY <3>4 DEF OutcomeOf, Outcome
      <4>2. [OutcomeOf EXCEPT ![l] = "over"] = OutcomeOf
        BY <4>1 DEF OutcomeOf
      <4> QED
        BY <3>1, <3>2, <4>2
    <3> QED
      BY <2>20, <3>3, <3>4 DEF EngineExit
  <2>21. ASSUME UNCHANGED vars PROVE Hidden
    BY <2>21 DEF vars, files, InstalledVersions, OutcomeOf, Outcome
  <2> QED
    BY <2>1, <2>2, <2>3, <2>4, <2>5, <2>6, <2>7, <2>8, <2>9, <2>10, <2>11, <2>12, <2>13,
       <2>14, <2>15, <2>16, <2>17, <2>18, <2>19, <2>20, <2>21
       DEF Next, Step, Curl, Environment, Promise!Next, Promise!vars
<1> QED
  BY <1>1, <1>2, Inductive, PTL DEF Spec, ImplementsEngineCache, Promise!Spec
=============================================================================
