------------------------ MODULE DesignServerProofs ------------------------
(* Invocations of design-server.sh that run one after the other, with servers  *)
(* that write their pid within the wait of their start and obey TERM before    *)
(* the next invocation: for any number of them and any ports a project never   *)
(* has two servers, none is out of reach of `stop`, what is reported is of the *)
(* server meant, and after `stop` no server is left.  That the variables keep  *)
(* to their types needs neither.                                               *)
EXTENDS DesignServer, TLAPS

Resting(c) == pc[c] \in {"idle"} \cup Done

OneAtATime == \A c, d \in Commands : ~Resting(c) /\ ~Resting(d) => c = d

OneAlive == \A s, t \in Starts : Alive(s) /\ Alive(t) => s = t

(* A server with a process has a start that waits for its pid, or is named by  *)
(* the pid file; the banner is its own.                                        *)
Tracked(s) ==
    /\ pc[s] \in {"idle", "judge", "clean", "spawn"} => server[s] = "none"
    /\ server[s] \in {"forked", "booting"} => pc[s] \in {"poll", "ask", "check"}
    /\ server[s] \in {"registered", "listening"} => pidFile = s
    /\ pidFile = s => server[s] # "none"
    /\ server[s] = "listening" => bound[PortOf[s]] = s
    /\ Alive(s) => \/ out = "empty"
                   \/ out = PortOf[s] /\ bound[PortOf[s]] = s

(* What an invocation may count on at each step.                               *)
AtStep(c) ==
    /\ pc[c] \in {"clean", "spawn", "reap", "forget", "erase"} => \A s \in Starts : ~Alive(s)
    /\ pc[c] = "spawn" => pidFile = None
    /\ pc[c] = "drop" => \A s \in Starts : ~Up(s)
    /\ pc[c] \in {"wait", "kill"} =>
         held[c] \in Starts /\ \A s \in Starts : Alive(s) => s = held[c] /\ server[s] = "terminating"

(* A start that waits sees its own server only, and what it prints is of it.   *)
Waiting(c) ==
    /\ pc[c] \in {"poll", "ask", "check", "report"} =>
         /\ server[c] # "terminating" /\ \A s \in Starts \ {c} : ~Alive(s)
         /\ pidFile \in {None, c}
         /\ out \in {"empty", PortOf[c]} /\ url[c] \in {None, PortOf[c]}
         /\ out = PortOf[c] \/ url[c] = PortOf[c] => pidFile = c /\ server[c] \in {"listening", "dead"}
         /\ server[c] \in {"forked", "booting"} => pidFile = None
    /\ pc[c] \in {"ask", "report"} => url[c] = PortOf[c]
    /\ pc[c] = "started" => held[c] = c /\ url[c] = PortOf[c]
    /\ pc[c] \in {"idle", "judge", "clean", "spawn"} => url[c] = None

(* Who has taken its request, and that the pid file a start has seen alive     *)
(* stays as it is while it looks further.                                      *)
Asking(c) ==
    /\ pc[c] \in {"judge", "confirm"} =>
         /\ held[c] \in Starts /\ pidFile = held[c]
         /\ \A s \in Starts : server[s] # "terminating"
    /\ peer[c] # None => pc[c] \in {"ask", "confirm"}
    /\ pc[c] = "ask" /\ peer[c] # None => peer[c] = c \/ (peer[c] = Foreign /\ server[c] = "dead")
    /\ pc[c] = "confirm" /\ peer[c] # None =>
         peer[c] = held[c] \/ (peer[c] = Foreign /\ server[held[c]] = "dead")

(* A server of ours that holds a port has bound it and is alive.               *)
Bound == \A p \in Ports : bound[p] \in Starts => server[bound[p]] \in {"listening", "terminating"}

OneByOne == OneAtATime /\ OneAlive /\ Bound
            /\ (\A s \in Starts : Tracked(s) /\ Waiting(s) /\ Asking(s)) /\ \A c \in Commands : AtStep(c)

-----------------------------------------------------------------------------
LEMMA TypesInitially == Init => TypeOK
  BY DEF Init, TypeOK, States

(* An invocation only moves itself.                                            *)
LEMMA MovesItself ==
    ASSUME TypeOK, NEW c \in Commands, NEW from, NEW to \in States, Transition(c, from, to)
    PROVE  /\ pc[c] = from /\ pc'[c] = to /\ pc' \in [Commands -> States]
           /\ \A d \in Commands \ {c} : pc'[d] = pc[d]
  BY DEF TypeOK, Transition

LEMMA TypesStep == TypeOK /\ [Next]_vars => TypeOK'
<1> SUFFICES ASSUME TypeOK, [Next]_vars PROVE TypeOK'
  OBVIOUS
<1>1. ASSUME NEW c \in Starts, CheckLive(c) PROVE TypeOK'
  BY <1>1, ServerAssumption DEF TypeOK, files, process, command, CheckLive, Transition, States, Done, Commands, PidAlive
<1>2. ASSUME NEW c \in Starts, Judge(c) PROVE TypeOK'
  BY <1>2, ServerAssumption DEF TypeOK, files, process, command, Judge, Request, Transition, States, Done, Commands, Banner
<1>3. ASSUME NEW c \in Starts, Clean(c) PROVE TypeOK'
  BY <1>3, ServerAssumption DEF TypeOK, files, process, command, Clean, Transition, States, Done, Commands
<1>4. ASSUME NEW c \in Starts, Spawn(c) PROVE TypeOK'
  BY <1>4, ServerAssumption DEF TypeOK, files, process, command, Spawn, Transition, States, Done, Commands
<1>5. ASSUME NEW c \in Starts, Poll(c) PROVE TypeOK'
  BY <1>5, ServerAssumption DEF TypeOK, files, process, command, Poll, Request, Transition, States, Done, Commands, Banner
<1>6. ASSUME NEW c \in Starts, Reap(c) PROVE TypeOK'
  BY <1>6, ServerAssumption DEF TypeOK, files, process, command, Reap, Transition, States, Done, Commands
<1>7. ASSUME NEW c \in Starts, GiveUp(c) PROVE TypeOK'
  BY <1>7, ServerAssumption DEF TypeOK, files, process, command, GiveUp, Transition, States, Done, Commands, Term
<1>8. ASSUME NEW c \in Starts, Drop(c) PROVE TypeOK'
  BY <1>8, ServerAssumption DEF TypeOK, files, process, command, Drop, Transition, States, Done, Commands
<1>9. ASSUME NEW c \in Starts, Report(c) PROVE TypeOK'
  BY <1>9, ServerAssumption DEF TypeOK, files, process, command, Report, Transition, States, Done, Commands
<1>10. ASSUME NEW c \in Stops, StopTerm(c) PROVE TypeOK'
  BY <1>10, ServerAssumption DEF TypeOK, files, process, command, StopTerm, Transition, States, Done, Commands, Term, PidAlive
<1>11. ASSUME NEW c \in Stops, Forget(c) PROVE TypeOK'
  BY <1>11, ServerAssumption DEF TypeOK, files, process, command, Forget, Transition, States, Done, Commands
<1>12. ASSUME NEW c \in Stops, StopWait(c) PROVE TypeOK'
  BY <1>12, ServerAssumption DEF TypeOK, files, process, command, StopWait, Transition, States, Done, Commands
<1>13. ASSUME NEW c \in Stops, StopKill(c) PROVE TypeOK'
  BY <1>13, ServerAssumption DEF TypeOK, files, process, command, StopKill, Transition, States, Done, Commands, Release, Alive, Up
<1>14. ASSUME NEW c \in Stops, Erase(c) PROVE TypeOK'
  BY <1>14, ServerAssumption DEF TypeOK, files, process, command, Erase, Transition, States, Done, Commands
<1>15. ASSUME NEW s \in Starts, ServerBoot(s) PROVE TypeOK'
  BY <1>15, ServerAssumption DEF TypeOK, files, process, command, ServerBoot, ServerRun, command
<1>16. ASSUME NEW s \in Starts, ServerRegister(s) PROVE TypeOK'
  BY <1>16, ServerAssumption DEF TypeOK, files, process, command, ServerRegister, ServerRun, command
<1>17. ASSUME NEW s \in Starts, ServerBind(s) PROVE TypeOK'
  BY <1>17, ServerAssumption DEF TypeOK, files, process, command, ServerBind, ServerRun, command
<1>18. ASSUME NEW s \in Starts, ServerBusy(s) PROVE TypeOK'
  BY <1>18, ServerAssumption DEF TypeOK, files, process, command, ServerBusy, ServerRun, command
<1>19. ASSUME NEW s \in Starts, ServerExit(s) PROVE TypeOK'
  BY <1>19, ServerAssumption DEF TypeOK, files, process, command, ServerExit, ServerRun, command, Release
<1>20. ASSUME NEW s \in Starts, ServerCrash(s) PROVE TypeOK'
  BY <1>20, ServerAssumption DEF TypeOK, files, process, command, ServerCrash, ServerRun, command, Release
<1>21. ASSUME NEW p \in Ports, ForeignPort(p) PROVE TypeOK'
  BY <1>21, ServerAssumption DEF TypeOK, OneByOne, OneAtATime, OneAlive, Tracked, Waiting, Asking, Bound, AtStep, Resting, Alive, Up, PidAlive, files, command, ForeignPort
<1>23. ASSUME NEW c \in Starts, Confirm(c) PROVE TypeOK'
  BY <1>23, ServerAssumption DEF TypeOK, files, process, command, Confirm, Answer, Transition, States, Done, Commands
<1>24. ASSUME NEW c \in Starts, Ask(c) PROVE TypeOK'
  BY <1>24, ServerAssumption DEF TypeOK, files, process, command, Ask, Answer, Transition, States, Done, Commands
<1>25. ASSUME NEW c \in Starts, Check(c) PROVE TypeOK'
  BY <1>25, ServerAssumption DEF TypeOK, files, process, command, Check, Transition, States, Done, Commands
<1>22. CASE UNCHANGED vars
  BY <1>22 DEF TypeOK, OneByOne, OneAtATime, OneAlive, Tracked, Waiting, Asking, Bound, AtStep, Resting, Alive, Up, PidAlive, vars, files, process, command
<1> QED
  BY <1>1, <1>2, <1>3, <1>4, <1>5, <1>6, <1>7, <1>8, <1>9, <1>10, <1>11, <1>12, <1>13, <1>14, <1>15, <1>16, <1>17, <1>18, <1>19, <1>20, <1>21, <1>22, <1>23, <1>24, <1>25 DEF Next, Start, Stop, Server

(* The variables keep to their types, whatever overlaps.                       *)
THEOREM ServerTypes == Spec => []TypeOK
  BY TypesInitially, TypesStep, PTL DEF Spec
-----------------------------------------------------------------------------
LEMMA OneByOneInitially == Init => OneByOne
  BY ServerAssumption DEF Init, OneByOne, OneAtATime, OneAlive, Tracked, Waiting, Asking, Bound, AtStep, Resting, Alive, Up, Done, Commands

LEMMA OneByOneStep ==
    ASSUME ~Overlap, Prompt PROVE TypeOK /\ OneByOne /\ [Next]_vars => OneByOne'
<1> SUFFICES ASSUME TypeOK, OneByOne, [Next]_vars PROVE OneByOne'
  OBVIOUS
<1> USE ServerAssumption DEF TypeOK, OneByOne, OneAtATime, OneAlive, Tracked, Waiting, Asking, Bound, AtStep,
                             Resting, Alive, Up, PidAlive, Commands, files, process, command
<1>1. ASSUME NEW c \in Starts, CheckLive(c) PROVE OneByOne'
  <2>1. OneAtATime' /\ OneAlive' /\ Bound'
    BY <1>1 DEF CheckLive, Transition, Done, MayBegin
  <2>2. \A t \in Starts : Tracked(t)'
    BY <1>1 DEF CheckLive, Transition, Done, MayBegin
  <2>3. \A t \in Starts : Waiting(t)'
    BY <1>1 DEF CheckLive, Transition, Done, MayBegin
  <2>4. \A t \in Starts : Asking(t)'
    BY <1>1 DEF CheckLive, Transition, Done, MayBegin
  <2>5. \A e \in Commands : AtStep(e)'
    BY <1>1 DEF CheckLive, Transition, Done, MayBegin
  <2> QED
    BY <2>1, <2>2, <2>3, <2>4, <2>5
<1>2. ASSUME NEW c \in Starts, Judge(c) PROVE OneByOne'
  <2>1. OneAtATime' /\ OneAlive' /\ Bound'
    BY <1>2 DEF Judge, Request, Transition, Done, Banner
  <2>2. \A t \in Starts : Tracked(t)'
    BY <1>2 DEF Judge, Request, Transition, Done, Banner
  <2>3. \A t \in Starts : Waiting(t)'
    BY <1>2 DEF Judge, Request, Transition, Done, Banner
  <2>4. \A t \in Starts : Asking(t)'
    <3>1. ASSUME Banner, bound[out] \in Starts PROVE bound[out] = held[c]
      BY <1>2, <3>1 DEF Judge, Transition, Done, Banner
    <3>2. ASSUME Banner, bound[out] = Foreign PROVE server[held[c]] = "dead"
      BY <1>2, <3>2 DEF Judge, Transition, Done, Banner
    <3>3. peer'[c] # None => pc'[c] = "confirm" /\ Banner /\ peer'[c] = bound[out] /\ out \in Ports
      BY <1>2 DEF Judge, Request, Transition, Banner
    <3>4. ASSUME NEW s \in Starts, s # c PROVE pc'[s] = pc[s] /\ peer'[s] = peer[s]
      BY <1>2, <3>4 DEF Judge, Request, Transition
    <3> QED
      BY <1>2, <3>1, <3>2, <3>3, <3>4 DEF Judge, Transition
  <2>5. \A e \in Commands : AtStep(e)'
    BY <1>2 DEF Judge, Request, Transition, Done, Banner
  <2> QED
    BY <2>1, <2>2, <2>3, <2>4, <2>5
<1>3. ASSUME NEW c \in Starts, Clean(c) PROVE OneByOne'
  <2>1. OneAtATime' /\ OneAlive' /\ Bound'
    BY <1>3 DEF Clean, Transition, Done
  <2>2. \A t \in Starts : Tracked(t)'
    BY <1>3 DEF Clean, Transition, Done
  <2>3. \A t \in Starts : Waiting(t)'
    BY <1>3 DEF Clean, Transition, Done
  <2>4. \A t \in Starts : Asking(t)'
    BY <1>3 DEF Clean, Transition, Done
  <2>5. \A e \in Commands : AtStep(e)'
    BY <1>3 DEF Clean, Transition, Done
  <2> QED
    BY <2>1, <2>2, <2>3, <2>4, <2>5
<1>4. ASSUME NEW c \in Starts, Spawn(c) PROVE OneByOne'
  <2>1. OneAtATime' /\ OneAlive' /\ Bound'
    BY <1>4 DEF Spawn, Transition, Done
  <2>2. \A t \in Starts : Tracked(t)'
    BY <1>4 DEF Spawn, Transition, Done
  <2>3. \A t \in Starts : Waiting(t)'
    BY <1>4 DEF Spawn, Transition, Done
  <2>4. \A t \in Starts : Asking(t)'
    BY <1>4 DEF Spawn, Transition, Done
  <2>5. ASSUME NEW e \in Commands PROVE AtStep(e)'
    <3>1. CASE e = c
      BY <1>4, <3>1 DEF Spawn, Transition, Done
    <3>2. CASE e # c
      <4>1. pc'[e] = pc[e] /\ Resting(e)
        BY <1>4, <3>2 DEF Spawn, Transition, Done
      <4> QED
        BY <1>4, <3>2, <4>1 DEF Done
    <3> QED
      BY <3>1, <3>2
  <2> QED
    BY <2>1, <2>2, <2>3, <2>4, <2>5
<1>5. ASSUME NEW c \in Starts, Poll(c) PROVE OneByOne'
  <2>1. OneAtATime' /\ OneAlive' /\ Bound'
    BY <1>5 DEF Poll, Request, Transition, Done, Banner
  <2>2. \A t \in Starts : Tracked(t)'
    BY <1>5 DEF Poll, Request, Transition, Done, Banner
  <2>3. \A t \in Starts : Waiting(t)'
    BY <1>5 DEF Poll, Request, Transition, Done, Banner
  <2>4. \A t \in Starts : Asking(t)'
    BY <1>5 DEF Poll, Request, Transition, Done, Banner
  <2>5. \A e \in Commands : AtStep(e)'
    BY <1>5 DEF Poll, Request, Transition, Done, Banner
  <2> QED
    BY <2>1, <2>2, <2>3, <2>4, <2>5
<1>6. ASSUME NEW c \in Starts, Reap(c) PROVE OneByOne'
  <2>1. OneAtATime' /\ OneAlive' /\ Bound'
    BY <1>6 DEF Reap, Transition, Done
  <2>2. \A t \in Starts : Tracked(t)'
    BY <1>6 DEF Reap, Transition, Done
  <2>3. \A t \in Starts : Waiting(t)'
    BY <1>6 DEF Reap, Transition, Done
  <2>4. \A t \in Starts : Asking(t)'
    BY <1>6 DEF Reap, Transition, Done
  <2>5. \A e \in Commands : AtStep(e)'
    BY <1>6 DEF Reap, Transition, Done
  <2> QED
    BY <2>1, <2>2, <2>3, <2>4, <2>5
<1>7. ASSUME NEW c \in Starts, GiveUp(c) PROVE OneByOne'
  <2>1. OneAtATime' /\ OneAlive' /\ Bound'
    BY <1>7 DEF GiveUp, Transition, Done, Term
  <2>2. \A t \in Starts : Tracked(t)'
    BY <1>7 DEF GiveUp, Transition, Done, Term
  <2>3. \A t \in Starts : Waiting(t)'
    BY <1>7 DEF GiveUp, Transition, Done, Term
  <2>4. \A t \in Starts : Asking(t)'
    BY <1>7 DEF GiveUp, Transition, Done, Term
  <2>5. \A e \in Commands : AtStep(e)'
    BY <1>7 DEF GiveUp, Transition, Done, Term
  <2> QED
    BY <2>1, <2>2, <2>3, <2>4, <2>5
<1>8. ASSUME NEW c \in Starts, Drop(c) PROVE OneByOne'
  <2>1. OneAtATime' /\ OneAlive' /\ Bound'
    BY <1>8 DEF Drop, Transition, Done
  <2>2. \A t \in Starts : Tracked(t)'
    BY <1>8 DEF Drop, Transition, Done
  <2>3. \A t \in Starts : Waiting(t)'
    BY <1>8 DEF Drop, Transition, Done
  <2>4. \A t \in Starts : Asking(t)'
    BY <1>8 DEF Drop, Transition, Done
  <2>5. \A e \in Commands : AtStep(e)'
    BY <1>8 DEF Drop, Transition, Done
  <2> QED
    BY <2>1, <2>2, <2>3, <2>4, <2>5
<1>9. ASSUME NEW c \in Starts, Report(c) PROVE OneByOne'
  <2>1. OneAtATime' /\ OneAlive' /\ Bound'
    BY <1>9 DEF Report, Transition, Done
  <2>2. \A t \in Starts : Tracked(t)'
    BY <1>9 DEF Report, Transition, Done
  <2>3. \A t \in Starts : Waiting(t)'
    BY <1>9 DEF Report, Transition, Done
  <2>4. \A t \in Starts : Asking(t)'
    BY <1>9 DEF Report, Transition, Done
  <2>5. \A e \in Commands : AtStep(e)'
    BY <1>9 DEF Report, Transition, Done
  <2> QED
    BY <2>1, <2>2, <2>3, <2>4, <2>5
<1>10. ASSUME NEW c \in Stops, StopTerm(c) PROVE OneByOne'
  <2>1. OneAtATime' /\ OneAlive' /\ Bound'
    BY <1>10 DEF StopTerm, Transition, Done, Term, MayBegin
  <2>2. \A t \in Starts : Tracked(t)'
    BY <1>10 DEF StopTerm, Transition, Done, Term, MayBegin
  <2>3. \A t \in Starts : Waiting(t)'
    BY <1>10 DEF StopTerm, Transition, Done, Term, MayBegin
  <2>4. \A t \in Starts : Asking(t)'
    BY <1>10 DEF StopTerm, Transition, Done, Term, MayBegin
  <2>5. \A e \in Commands : AtStep(e)'
    BY <1>10 DEF StopTerm, Transition, Done, Term, MayBegin
  <2> QED
    BY <2>1, <2>2, <2>3, <2>4, <2>5
<1>11. ASSUME NEW c \in Stops, Forget(c) PROVE OneByOne'
  <2>1. OneAtATime' /\ OneAlive' /\ Bound'
    BY <1>11 DEF Forget, Transition, Done
  <2>2. \A t \in Starts : Tracked(t)'
    BY <1>11 DEF Forget, Transition, Done
  <2>3. \A t \in Starts : Waiting(t)'
    BY <1>11 DEF Forget, Transition, Done
  <2>4. \A t \in Starts : Asking(t)'
    BY <1>11 DEF Forget, Transition, Done
  <2>5. \A e \in Commands : AtStep(e)'
    BY <1>11 DEF Forget, Transition, Done
  <2> QED
    BY <2>1, <2>2, <2>3, <2>4, <2>5
<1>12. ASSUME NEW c \in Stops, StopWait(c) PROVE OneByOne'
  <2>1. OneAtATime' /\ OneAlive' /\ Bound'
    BY <1>12 DEF StopWait, Transition, Done
  <2>2. \A t \in Starts : Tracked(t)'
    BY <1>12 DEF StopWait, Transition, Done
  <2>3. \A t \in Starts : Waiting(t)'
    BY <1>12 DEF StopWait, Transition, Done
  <2>4. \A t \in Starts : Asking(t)'
    BY <1>12 DEF StopWait, Transition, Done
  <2>5. \A e \in Commands : AtStep(e)'
    BY <1>12 DEF StopWait, Transition, Done
  <2> QED
    BY <2>1, <2>2, <2>3, <2>4, <2>5
<1>13. ASSUME NEW c \in Stops, StopKill(c) PROVE OneByOne'
  <2>1. OneAtATime' /\ OneAlive' /\ Bound'
    BY <1>13 DEF StopKill, Transition, Done, Release
  <2>2. \A t \in Starts : Tracked(t)'
    BY <1>13 DEF StopKill, Transition, Done, Release
  <2>3. \A t \in Starts : Waiting(t)'
    BY <1>13 DEF StopKill, Transition, Done, Release
  <2>4. \A t \in Starts : Asking(t)'
    BY <1>13 DEF StopKill, Transition, Done, Release
  <2>5. \A e \in Commands : AtStep(e)'
    BY <1>13 DEF StopKill, Transition, Done, Release
  <2> QED
    BY <2>1, <2>2, <2>3, <2>4, <2>5
<1>14. ASSUME NEW c \in Stops, Erase(c) PROVE OneByOne'
  <2>1. OneAtATime' /\ OneAlive' /\ Bound'
    BY <1>14 DEF Erase, Transition, Done
  <2>2. \A t \in Starts : Tracked(t)'
    BY <1>14 DEF Erase, Transition, Done
  <2>3. \A t \in Starts : Waiting(t)'
    BY <1>14 DEF Erase, Transition, Done
  <2>4. \A t \in Starts : Asking(t)'
    BY <1>14 DEF Erase, Transition, Done
  <2>5. \A e \in Commands : AtStep(e)'
    BY <1>14 DEF Erase, Transition, Done
  <2> QED
    BY <2>1, <2>2, <2>3, <2>4, <2>5
<1>15. ASSUME NEW s \in Starts, ServerBoot(s) PROVE OneByOne'
  <2>1. OneAtATime' /\ OneAlive' /\ Bound'
    BY <1>15 DEF ServerBoot, ServerRun
  <2>2. \A t \in Starts : Tracked(t)'
    BY <1>15 DEF ServerBoot, ServerRun
  <2>3. \A t \in Starts : Waiting(t)'
    BY <1>15 DEF ServerBoot, ServerRun
  <2>4. \A t \in Starts : Asking(t)'
    BY <1>15 DEF ServerBoot, ServerRun
  <2>5. \A e \in Commands : AtStep(e)'
    BY <1>15 DEF ServerBoot, ServerRun
  <2> QED
    BY <2>1, <2>2, <2>3, <2>4, <2>5
<1>16. ASSUME NEW s \in Starts, ServerRegister(s) PROVE OneByOne'
  <2>1. OneAtATime' /\ OneAlive' /\ Bound'
    BY <1>16 DEF ServerRegister, ServerRun
  <2>2. \A t \in Starts : Tracked(t)'
    BY <1>16 DEF ServerRegister, ServerRun
  <2>3. \A t \in Starts : Waiting(t)'
    BY <1>16 DEF ServerRegister, ServerRun
  <2>4. \A t \in Starts : Asking(t)'
    BY <1>16 DEF ServerRegister, ServerRun
  <2>5. \A e \in Commands : AtStep(e)'
    BY <1>16 DEF ServerRegister, ServerRun
  <2> QED
    BY <2>1, <2>2, <2>3, <2>4, <2>5
<1>17. ASSUME NEW s \in Starts, ServerBind(s) PROVE OneByOne'
  <2>1. OneAtATime' /\ OneAlive' /\ Bound'
    BY <1>17 DEF ServerBind, ServerRun
  <2>2. \A t \in Starts : Tracked(t)'
    BY <1>17 DEF ServerBind, ServerRun
  <2>3. \A t \in Starts : Waiting(t)'
    BY <1>17 DEF ServerBind, ServerRun
  <2>4. \A t \in Starts : Asking(t)'
    BY <1>17 DEF ServerBind, ServerRun
  <2>5. \A e \in Commands : AtStep(e)'
    BY <1>17 DEF ServerBind, ServerRun
  <2> QED
    BY <2>1, <2>2, <2>3, <2>4, <2>5
<1>18. ASSUME NEW s \in Starts, ServerBusy(s) PROVE OneByOne'
  <2>1. OneAtATime' /\ OneAlive' /\ Bound'
    <3>1. \A p \in Ports : bound[p] # s
      BY <1>18 DEF ServerBusy, ServerRun
    <3>2. OneAtATime' /\ OneAlive'
      BY <1>18 DEF ServerBusy, ServerRun
    <3> QED
      BY <1>18, <3>1, <3>2 DEF ServerBusy, ServerRun
  <2>2. ASSUME NEW t \in Starts PROVE Tracked(t)'
    <3>1. CASE t = s
      BY <1>18, <3>1 DEF ServerBusy, ServerRun
    <3>2. CASE t # s
      <4>1. ~Alive(t) /\ server'[t] = server[t]
        BY <1>18, <3>2 DEF ServerBusy, ServerRun
      <4> QED
        BY <1>18, <3>2, <4>1 DEF ServerBusy, ServerRun
    <3> QED
      BY <3>1, <3>2
  <2>3. \A t \in Starts : Waiting(t)'
    BY <1>18 DEF ServerBusy, ServerRun
  <2>4. \A t \in Starts : Asking(t)'
    BY <1>18 DEF ServerBusy, ServerRun
  <2>5. \A e \in Commands : AtStep(e)'
    BY <1>18 DEF ServerBusy, ServerRun
  <2> QED
    BY <2>1, <2>2, <2>3, <2>4, <2>5
<1>19. ASSUME NEW s \in Starts, ServerExit(s) PROVE OneByOne'
  <2>1. OneAtATime' /\ OneAlive' /\ Bound'
    BY <1>19 DEF ServerExit, ServerRun, Release
  <2>2. \A t \in Starts : Tracked(t)'
    BY <1>19 DEF ServerExit, ServerRun, Release
  <2>3. \A t \in Starts : Waiting(t)'
    BY <1>19 DEF ServerExit, ServerRun, Release
  <2>4. \A t \in Starts : Asking(t)'
    BY <1>19 DEF ServerExit, ServerRun, Release
  <2>5. \A e \in Commands : AtStep(e)'
    BY <1>19 DEF ServerExit, ServerRun, Release
  <2> QED
    BY <2>1, <2>2, <2>3, <2>4, <2>5
<1>20. ASSUME NEW s \in Starts, ServerCrash(s) PROVE OneByOne'
  <2>1. OneAtATime' /\ OneAlive' /\ Bound'
    BY <1>20 DEF ServerCrash, ServerRun, Release
  <2>2. \A t \in Starts : Tracked(t)'
    BY <1>20 DEF ServerCrash, ServerRun, Release
  <2>3. \A t \in Starts : Waiting(t)'
    BY <1>20 DEF ServerCrash, ServerRun, Release
  <2>4. \A t \in Starts : Asking(t)'
    BY <1>20 DEF ServerCrash, ServerRun, Release
  <2>5. \A e \in Commands : AtStep(e)'
    BY <1>20 DEF ServerCrash, ServerRun, Release
  <2> QED
    BY <2>1, <2>2, <2>3, <2>4, <2>5
<1>21. ASSUME NEW p \in Ports, ForeignPort(p) PROVE OneByOne'
  <2>1. \A s \in Starts : bound[PortOf[s]] = s => bound'[PortOf[s]] = s
    BY <1>21 DEF ForeignPort
  <2> QED
    BY <1>21, <2>1 DEF ForeignPort
<1>23. ASSUME NEW c \in Starts, Confirm(c) PROVE OneByOne'
  <2>1. OneAtATime' /\ OneAlive' /\ Bound'
    BY <1>23 DEF Confirm, Answer, Transition, Done
  <2>2. \A t \in Starts : Tracked(t)'
    BY <1>23 DEF Confirm, Answer, Transition, Done
  <2>3. \A t \in Starts : Waiting(t)'
    BY <1>23 DEF Confirm, Answer, Transition, Done
  <2>4. \A t \in Starts : Asking(t)'
    BY <1>23 DEF Confirm, Answer, Transition, Done
  <2>5. \A e \in Commands : AtStep(e)'
    BY <1>23 DEF Confirm, Answer, Transition, Done
  <2> QED
    BY <2>1, <2>2, <2>3, <2>4, <2>5
<1>24. ASSUME NEW c \in Starts, Ask(c) PROVE OneByOne'
  <2>1. OneAtATime' /\ OneAlive' /\ Bound'
    BY <1>24 DEF Ask, Answer, Transition, Done
  <2>2. \A t \in Starts : Tracked(t)'
    BY <1>24 DEF Ask, Answer, Transition, Done
  <2>3. \A t \in Starts : Waiting(t)'
    BY <1>24 DEF Ask, Answer, Transition, Done
  <2>4. \A t \in Starts : Asking(t)'
    BY <1>24 DEF Ask, Answer, Transition, Done
  <2>5. \A e \in Commands : AtStep(e)'
    BY <1>24 DEF Ask, Answer, Transition, Done
  <2> QED
    BY <2>1, <2>2, <2>3, <2>4, <2>5
<1>25. ASSUME NEW c \in Starts, Check(c) PROVE OneByOne'
  <2>1. OneAtATime' /\ OneAlive' /\ Bound'
    BY <1>25 DEF Check, Transition, Done
  <2>2. \A t \in Starts : Tracked(t)'
    BY <1>25 DEF Check, Transition, Done
  <2>3. \A t \in Starts : Waiting(t)'
    BY <1>25 DEF Check, Transition, Done
  <2>4. \A t \in Starts : Asking(t)'
    BY <1>25 DEF Check, Transition, Done
  <2>5. \A e \in Commands : AtStep(e)'
    BY <1>25 DEF Check, Transition, Done
  <2> QED
    BY <2>1, <2>2, <2>3, <2>4, <2>5
<1>22. CASE UNCHANGED vars
  BY <1>22 DEF vars
<1> QED
  BY <1>1, <1>2, <1>3, <1>4, <1>5, <1>6, <1>7, <1>8, <1>9, <1>10, <1>11, <1>12, <1>13, <1>14, <1>15, <1>16, <1>17, <1>18, <1>19, <1>20, <1>21, <1>22, <1>23, <1>24, <1>25 DEF Next, Start, Stop, Server

(* Of invocations one after the other, with prompt servers.                    *)
LEMMA ServersOneByOne ==
    ASSUME ~Overlap, Prompt PROVE Spec => [](TypeOK /\ OneByOne)
<1>1. Init => TypeOK /\ OneByOne
  BY TypesInitially, OneByOneInitially
<1>2. TypeOK /\ OneByOne /\ [Next]_vars => TypeOK' /\ OneByOne'
  BY TypesStep, OneByOneStep
<1> QED
  BY <1>1, <1>2, PTL DEF Spec

(* A project never has two servers coming up or running at a time.             *)
THEOREM NeverTwoServers == ASSUME ~Overlap, Prompt PROVE Spec => []OneServer
<1>1. OneByOne => OneServer
  BY DEF OneByOne, OneAlive, OneServer, Alive
<1> QED
  BY <1>1, ServersOneByOne, PTL

(* When no invocation is at work, the pid file names the server that is up, so *)
(* `stop` and `status` reach it.                                               *)
THEOREM NoServerOutOfReach == ASSUME ~Overlap, Prompt PROVE Spec => []UpIsRegistered
<1>1. OneByOne => UpIsRegistered
  <2> SUFFICES ASSUME OneByOne, \A c \in Commands : Resting(c), NEW s \in Starts, Up(s)
               PROVE  pidFile = s
    BY DEF UpIsRegistered, Resting
  <2>1. pc[s] \notin {"poll", "ask", "check"}
    BY DEF Resting, Done, Commands
  <2> QED
    BY <2>1 DEF OneByOne, Tracked, Up
<1> QED
  BY <1>1, ServersOneByOne, PTL

(* What `status` calls running is the live process that holds the port of the  *)
(* banner.  A start is answered by the server it asks after, or by an outside  *)
(* program when that server is dead, and prints its own server's pid and port. *)
THEOREM TrueReports == ASSUME ~Overlap, Prompt PROVE Spec => []ReportsAreTrue
<1>1. TypeOK /\ OneByOne => ReportsAreTrue
  <2> SUFFICES ASSUME TypeOK, OneByOne PROVE ReportsAreTrue
    OBVIOUS
  <2>1. StatusRunning => bound[out] = pidFile
    BY DEF StatusRunning, PidAlive, Banner, TypeOK, OneByOne, Tracked
  <2>2. ASSUME NEW c \in Starts
        PROVE  /\ peer[c] # None =>
                    LET s == IF pc[c] = "ask" THEN c ELSE held[c] IN
                    peer[c] = s \/ (peer[c] = Foreign /\ server[s] = "dead")
               /\ pc[c] = "started" => held[c] = c /\ url[c] = PortOf[c]
    BY DEF OneByOne, Waiting, Asking
  <2> QED
    BY <2>1, <2>2 DEF ReportsAreTrue
<1> QED
  BY <1>1, ServersOneByOne, PTL

(* `stop` answers only when every server is dead.                              *)
THEOREM NoServerAfterStop == ASSUME ~Overlap, Prompt PROVE Spec => StopLeavesNoServer
<1>1. TypeOK /\ OneByOne /\ [Next]_vars =>
        [\A c \in Stops : pc'[c] \in Done /\ pc[c] \notin Done =>
           \A s \in Starts : server'[s] \in {"none", "dead"}]_vars
  <2> SUFFICES ASSUME TypeOK, OneByOne, Next, NEW c \in Stops, pc'[c] \in Done, pc[c] \notin Done
               PROVE  \A s \in Starts : server'[s] \in {"none", "dead"}
    BY DEF vars, command
  <2>1. Forget(c) \/ Erase(c)
    <3>1. ASSUME NEW d \in Starts, Start(d) PROVE pc'[c] = pc[c]
      BY <3>1, ServerAssumption DEF Start, Transition, TypeOK, Commands,
         CheckLive, Judge, Confirm, Answer, Clean, Spawn, Poll, Ask, Check, Reap, GiveUp, Drop, Report
    <3>2. ASSUME NEW d \in Starts, Server(d) PROVE pc' = pc
      BY <3>2 DEF Server, ServerRun, command,
         ServerBoot, ServerRegister, ServerBind, ServerBusy, ServerExit, ServerCrash
    <3>3. ASSUME NEW p \in Ports, ForeignPort(p) PROVE pc' = pc
      BY <3>3 DEF ForeignPort, command
    <3>4. ASSUME NEW d \in Stops, Stop(d), d # c PROVE pc'[c] = pc[c]
      BY <3>4 DEF Stop, Transition, TypeOK, Commands, StopTerm, Forget, StopWait, StopKill, Erase
    <3>5. ASSUME Stop(c) PROVE Forget(c) \/ Erase(c)
      BY <3>5 DEF Stop, Transition, TypeOK, Commands, Done, StopTerm, StopWait, StopKill
    <3> QED
      BY <3>1, <3>2, <3>3, <3>4, <3>5 DEF Next
  <2>2. AtStep(c) /\ pc[c] \in {"forget", "erase"} /\ server' = server
    BY <2>1 DEF OneByOne, Commands, Forget, Erase, Transition, process
  <2> QED
    BY <2>2 DEF AtStep, Alive, Up, TypeOK
<1> QED
  BY <1>1, ServersOneByOne, PTL DEF Spec, StopLeavesNoServer
=============================================================================
