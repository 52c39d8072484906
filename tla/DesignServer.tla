---------------------------- MODULE DesignServer ----------------------------
(***************************************************************************)
(* plugin/scripts/design-server.sh: invocations of `start` and `stop` and  *)
(* the Melete servers they spawn share .melete/server.pid and server.out.  *)
(* The server itself is outside the repository and follows the contract in *)
(* the script's header: it writes its pid before it binds, prints a banner *)
(* with its URL once bound, and removes the pid file when it obeys TERM.   *)
(*                                                                         *)
(* A server, its pid and the `start` that spawned it are named by one      *)
(* value of Starts: pids are not reused.  The 30 s of a start and the 10 s *)
(* of a stop are a choice to give up at any moment; a request to /health   *)
(* is a state of its own, for curl runs without --max-time.                *)
(***************************************************************************)
CONSTANTS
  Starts,   (* invocations of `start`, each with the server it may spawn *)
  Stops,    (* invocations of `stop`                                     *)
  Ports,
  PortOf,   (* the port each server is told to bind                      *)
  Overlap,  (* may invocations run at the same time                      *)
  Prompt,   (* do servers write their pid within the wait of their start *)
            (* and obey TERM before the next invocation                  *)
  Foreign,  (* whoever else on this machine may hold a port              *)
  None

Commands == Starts \cup Stops

ASSUME ServerAssumption ==
  /\ Starts \cap Stops = {}
  /\ PortOf \in [Starts -> Ports]
  /\ {None, Foreign} \cap (Commands \cup Ports) = {} /\ None # Foreign
  /\ {"absent", "empty"} \cap Ports = {}
  /\ Overlap \in BOOLEAN /\ Prompt \in BOOLEAN

VARIABLES
  pc,       (* the next step of each invocation                        *)
  held,     (* the pid an invocation has read from the pid file        *)
  url,      (* the port in the banner a start has seen                 *)
  peer,     (* who has taken the request to /health a start waits on   *)
  server,   (* the state of each server process                        *)
  bound,    (* which server holds each port                            *)
  pidFile,  (* the pid in .melete/server.pid, None without one         *)
  out       (* "absent", "empty", or the port in server.out's banner   *)

command == <<pc, held, url, peer>>
files   == <<pidFile, out>>
process == <<server, bound>>
vars    == <<command, process, files>>

Done == {"already", "refused", "started", "failed", "notrunning", "stopped"}
States == {"idle", "judge", "clean", "spawn", "poll", "ask", "check", "reap",
           "drop", "report", "confirm", "forget", "wait", "kill", "erase"} \cup Done

Up(s) == server[s] \in {"forked", "booting", "registered", "listening"}
Alive(s) == Up(s) \/ server[s] = "terminating"    \* kill -0
PidAlive == pidFile # None /\ Alive(pidFile)       \* read_pid && pid_alive
Banner == out \notin {"absent", "empty"}           \* banner_url
Health(p) == bound[p] # None                        \* GET /health, answered

Transition(c, from, to) ==
  /\ pc[c] = from
  /\ pc' = [pc EXCEPT ![c] = to]

(* A fresh project: nothing runs, .melete does not exist.                  *)
Init ==
  /\ pc = [c \in Commands |-> "idle"]
  /\ held = [c \in Commands |-> None]
  /\ url = [c \in Starts |-> None]
  /\ peer = [c \in Starts |-> None]
  /\ server = [s \in Starts |-> "none"]
  /\ bound = [p \in Ports |-> None]
  /\ pidFile = None
  /\ out = "absent"

MayBegin ==
  /\ Overlap \/ \A c \in Commands : pc[c] \in {"idle"} \cup Done
  /\ Prompt => \A s \in Starts : server[s] # "terminating"

-----------------------------------------------------------------------------
(* start                                                                   *)

(* Mutant: the pid file is taken for a dead one whatever its process does. *)
CheckLiveUnguarded(c) ==
  /\ MayBegin
  /\ Transition(c, "idle", "clean")
  /\ UNCHANGED <<held, url, peer, process, files>>

(* Mutant: the pid file is removed before its process is looked at.        *)
CheckLiveAfterRm(c) ==
  /\ MayBegin
  /\ IF PidAlive THEN Transition(c, "idle", "judge") ELSE Transition(c, "idle", "clean")
  /\ pidFile' = None
  /\ UNCHANGED <<held, url, peer, process, out>>

(* Arguments and checkout in order; is a live process registered?  A start *)
(* with bad arguments or without a checkout ends here.                     *)
CheckLive(c) ==
  /\ MayBegin
  /\ \/ Transition(c, "idle", "refused") /\ UNCHANGED held
     \/ /\ PidAlive
        /\ Transition(c, "idle", "judge")
        /\ held' = [held EXCEPT ![c] = pidFile]
     \/ ~PidAlive /\ Transition(c, "idle", "clean") /\ UNCHANGED held
  /\ UNCHANGED <<url, peer, process, files>>

(* curl connects, or is refused at once where nobody holds the port.       *)
Request(c, p) ==
  /\ url' = [url EXCEPT ![c] = p]
  /\ peer' = [peer EXCEPT ![c] = bound[p]]

(* Whoever has taken the request may answer it; without one, or with an    *)
(* error for an answer, or when the connection breaks, /health is silent.  *)
Answer(c, from, ok, silent) ==
  /\ \/ peer[c] # None /\ Transition(c, from, ok)
     \/ Transition(c, from, silent)
  /\ peer' = [peer EXCEPT ![c] = None]
  /\ UNCHANGED <<held, url, process, files>>

(* A live process without a banner is refused.                             *)
Judge(c) ==
  /\ IF Banner THEN Transition(c, "judge", "confirm") /\ Request(c, out)
     ELSE Transition(c, "judge", "refused") /\ UNCHANGED <<url, peer>>
  /\ UNCHANGED <<held, process, files>>

(* Already running, or a refusal: the process is alive, /health is silent. *)
Confirm(c) == Answer(c, "confirm", "already", "refused")

Clean(c) ==
  /\ Transition(c, "clean", "spawn")
  /\ pidFile' = None
  /\ UNCHANGED <<held, url, peer, process, out>>

(* Mutant: the banner of an earlier server is left in server.out. *)
SpawnOverBanner(c) ==
  /\ Transition(c, "spawn", "poll")
  /\ server' = [server EXCEPT ![c] = "forked"]
  /\ UNCHANGED <<held, url, peer, bound, files>>

(* .gitignore, : >server.out, and the double-forked server. *)
Spawn(c) ==
  /\ Transition(c, "spawn", "poll")
  /\ out' = "empty"
  /\ server' = [server EXCEPT ![c] = "forked"]
  /\ UNCHANGED <<held, url, peer, bound, pidFile>>

(* One round of the wait: the first banner seen is kept, its port asked.   *)
Poll(c) ==
  LET seen == IF url[c] = None /\ Banner THEN out ELSE url[c] IN
  /\ IF seen # None THEN Transition(c, "poll", "ask") /\ Request(c, seen)
     ELSE Transition(c, "poll", "check") /\ UNCHANGED <<url, peer>>
  /\ UNCHANGED <<held, process, files>>

Ask(c) == Answer(c, "ask", "report", "check")

(* A registered pid that is dead ends the wait.                            *)
Check(c) ==
  /\ IF pidFile # None /\ ~PidAlive THEN Transition(c, "check", "reap")
     ELSE Transition(c, "check", "poll")
  /\ UNCHANGED <<held, url, peer, process, files>>

(* The server exited before /health: rm -f of the pid file seen dead. *)
Reap(c) ==
  /\ Transition(c, "reap", "failed")
  /\ pidFile' = None
  /\ UNCHANGED <<held, url, peer, process, out>>

Term(s) == server' = IF Up(s) THEN [server EXCEPT ![s] = "terminating"] ELSE server

(* No answer within 30 s: TERM to whatever pid the file holds, then rm -f. *)
GiveUp(c) ==
  /\ Prompt => server[c] \notin {"forked", "booting"}
  /\ Transition(c, "poll", "drop")
  /\ held' = [held EXCEPT ![c] = pidFile]
  /\ IF pidFile = None THEN UNCHANGED server ELSE Term(pidFile)
  /\ UNCHANGED <<url, peer, bound, files>>

Drop(c) ==
  /\ Transition(c, "drop", "failed")
  /\ pidFile' = None
  /\ UNCHANGED <<held, url, peer, process, out>>

(* The pid printed is read only now, and may be missing. *)
Report(c) ==
  /\ Transition(c, "report", "started")
  /\ held' = [held EXCEPT ![c] = pidFile]
  /\ UNCHANGED <<url, peer, process, files>>

-----------------------------------------------------------------------------
(* stop                                                                    *)

StopTerm(c) ==
  /\ MayBegin
  /\ IF PidAlive
     THEN /\ Transition(c, "idle", "wait")
          /\ held' = [held EXCEPT ![c] = pidFile]
          /\ Term(pidFile)
     ELSE Transition(c, "idle", "forget") /\ UNCHANGED <<held, server>>
  /\ UNCHANGED <<url, peer, bound, files>>

Forget(c) ==
  /\ Transition(c, "forget", "notrunning")
  /\ pidFile' = None
  /\ UNCHANGED <<held, url, peer, process, out>>

(* Mutant: the wait for the server has no bound. *)
StopWaitForever(c) ==
  /\ Transition(c, "wait", "kill")
  /\ pidFile = None \/ ~Alive(held[c])
  /\ UNCHANGED <<held, url, peer, process, files>>

(* The pid file is gone, the process is dead, or 10 s are over. *)
StopWait(c) ==
  /\ Transition(c, "wait", "kill")
  /\ UNCHANGED <<held, url, peer, process, files>>

(* The ports a process holds, and the connections it has taken, go with it.*)
Release(s) ==
  /\ bound' = [p \in Ports |-> IF bound[p] = s THEN None ELSE bound[p]]
  /\ peer' = [c \in Starts |-> IF peer[c] = s THEN None ELSE peer[c]]

(* Mutant: a process that outlives TERM is left alone. *)
StopNoKill(c) ==
  /\ Transition(c, "kill", "erase")
  /\ UNCHANGED <<held, url, peer, process, files>>

StopKill(c) ==
  /\ Transition(c, "kill", "erase")
  /\ IF Alive(held[c])
     THEN server' = [server EXCEPT ![held[c]] = "dead"] /\ Release(held[c])
     ELSE UNCHANGED <<process, peer>>
  /\ UNCHANGED <<held, url, files>>

Erase(c) ==
  /\ Transition(c, "erase", "stopped")
  /\ pidFile' = None
  /\ UNCHANGED <<held, url, peer, process, out>>

-----------------------------------------------------------------------------
(* The server, as the script relies on it.                                 *)

ServerRun(s, from, to) ==
  /\ server[s] = from
  /\ server' = [server EXCEPT ![s] = to]
  /\ UNCHANGED <<pc, held, url>>

(* exec … >"$out_file": the redirection truncates once more. *)
ServerBoot(s) ==
  /\ ServerRun(s, "forked", "booting")
  /\ out' = "empty"
  /\ UNCHANGED <<peer, bound, pidFile>>

ServerRegister(s) ==
  /\ ServerRun(s, "booting", "registered")
  /\ pidFile' = s
  /\ UNCHANGED <<peer, bound, out>>

(* The banner replaces whatever another server had written at its place.   *)
ServerBind(s) ==
  /\ bound[PortOf[s]] = None
  /\ ServerRun(s, "registered", "listening")
  /\ bound' = [bound EXCEPT ![PortOf[s]] = s]
  /\ out' = PortOf[s]
  /\ UNCHANGED <<peer, pidFile>>

(* EADDRINUSE: the message may overwrite another server's banner. *)
ServerBusy(s) ==
  /\ bound[PortOf[s]] # None
  /\ ServerRun(s, "registered", "dead")
  /\ out' \in {out, "empty"}
  /\ UNCHANGED <<peer, bound, pidFile>>

(* Obeying TERM. *)
ServerExit(s) ==
  /\ ServerRun(s, "terminating", "dead")
  /\ Release(s)
  /\ pidFile' = None
  /\ UNCHANGED out

(* Another program takes a free port, or lets go of it; it may be another  *)
(* project's Melete, which answers /health like ours.                      *)
ForeignPort(p) ==
  /\ \/ bound[p] = None /\ bound' = [bound EXCEPT ![p] = Foreign] /\ UNCHANGED peer
     \/ /\ bound[p] = Foreign
        /\ bound' = [bound EXCEPT ![p] = None]
        /\ peer' = [c \in Starts |-> IF peer[c] = Foreign /\ url[c] = p THEN None ELSE peer[c]]
  /\ UNCHANGED <<pc, held, url, server, files>>

ServerCrash(s) ==
  /\ Alive(s)
  /\ ServerRun(s, server[s], "dead")
  /\ Release(s)
  /\ UNCHANGED files

-----------------------------------------------------------------------------
Start(c) ==
  \/ CheckLive(c) \/ Judge(c) \/ Confirm(c) \/ Clean(c) \/ Spawn(c)
  \/ Poll(c) \/ Ask(c) \/ Check(c) \/ Reap(c) \/ GiveUp(c) \/ Drop(c) \/ Report(c)

Stop(c) == StopTerm(c) \/ Forget(c) \/ StopWait(c) \/ StopKill(c) \/ Erase(c)

Server(s) ==
  \/ ServerBoot(s) \/ ServerRegister(s) \/ ServerBind(s) \/ ServerBusy(s)
  \/ ServerExit(s) \/ ServerCrash(s)

Next ==
  \/ \E c \in Starts : Start(c) \/ Server(c)
  \/ \E c \in Stops : Stop(c)
  \/ \E p \in Ports : ForeignPort(p)

Spec == Init /\ [][Next]_vars

(* A start that waits for an answer it may never get.                      *)
Held(c) == c \in Starts /\ peer[c] # None

(* An invocation that has begun goes on, unless a request holds it, and a  *)
(* wait of which rounds keep ending comes to its end.  Servers are fair up *)
(* to their pid file only: one may hang before it binds or after, and may  *)
(* ignore TERM; nothing makes a server or a foreign program answer.        *)
Fairness ==
  /\ \A c \in Starts :
       /\ WF_vars(pc[c] # "idle" /\ ~Held(c) /\ Start(c)) /\ SF_vars(GiveUp(c))
       /\ WF_vars(ServerBoot(c) \/ ServerRegister(c))
  /\ \A c \in Stops : WF_vars(pc[c] # "idle" /\ Stop(c))

FairSpec == Spec /\ Fairness

-----------------------------------------------------------------------------
(* The variables keep to their types.                                      *)
TypeOK ==
  /\ pc \in [Commands -> States]
  /\ held \in [Commands -> Starts \cup {None}]
  /\ url \in [Starts -> Ports \cup {None}]
  /\ peer \in [Starts -> Starts \cup {Foreign, None}]
  /\ server \in [Starts -> {"none", "forked", "booting", "registered", "listening",
                            "terminating", "dead"}]
  /\ bound \in [Ports -> Starts \cup {Foreign, None}]
  /\ pidFile \in Starts \cup {None}
  /\ out \in {"absent", "empty"} \cup Ports

(* cmd_status: `running` is a live pid, a banner and an answer from it.    *)
StatusRunning == PidAlive /\ Banner /\ Health(out)

(* A project never has two servers coming up or running at a time.         *)
OneServer == \A s, t \in Starts : Up(s) /\ Up(t) => s = t

(* When no invocation is at work, the pid file names the server that is    *)
(* up: there is none that `stop` and `status` cannot reach.                *)
UpIsRegistered ==
  (\A c \in Commands : pc[c] \in {"idle"} \cup Done) => \A s \in Starts : Up(s) => pidFile = s

(* The pid and the URL that `status` calls running belong together: that   *)
(* process holds that port.  A start is answered by the server it asks     *)
(* after, its own or the registered one, or by a program outside the       *)
(* project that has the port when that server is dead; when it reports     *)
(* success, the pid it prints is its own server's and the URL names the    *)
(* port that server was told to bind.                                      *)
ReportsAreTrue ==
  /\ StatusRunning => bound[out] = pidFile
  /\ \A c \in Starts :
       /\ peer[c] # None =>
            LET s == IF pc[c] = "ask" THEN c ELSE held[c] IN
            peer[c] = s \/ (peer[c] = Foreign /\ server[s] = "dead")
       /\ pc[c] = "started" => held[c] = c /\ url[c] = PortOf[c]

(* When `stop` has answered, no server is left: it was dead already, went  *)
(* on TERM, or was killed.                                                 *)
StopLeavesNoServer ==
  [][\A c \in Stops : pc'[c] \in Done /\ pc[c] \notin Done =>
       \A s \in Starts : server'[s] \in {"none", "dead"}]_vars

(* Every invocation answers, also when the server hangs before it binds or *)
(* ignores TERM, but for a start whose request to /health is taken and     *)
(* never answered: that start is held for ever, its 30 s notwithstanding.  *)
EveryCommandAnswers ==
  \A c \in Commands : [](pc[c] # "idle" => <>(pc[c] \in Done) \/ <>[]Held(c))

(* "A LIVE process is touched by `stop` alone": no step of a start sends a *)
(* signal to the live server of another start, or takes its pid file away. *)
StartTouchesNoLiveServer ==
  [][\A c, s \in Starts : c # s /\ pc'[c] # pc[c] /\ Up(s) =>
       server'[s] = server[s] /\ (pidFile = s => pidFile' = s)]_vars
=============================================================================
