----------------------------- MODULE BrowserJob -----------------------------
(***************************************************************************)
(* The three users of a CdpSession: measureDiagrams, captureFailedDiagrams *)
(* and printPdf.  Each opens a loopback server and a session, sends the    *)
(* same three commands, then for each page navigates, awaits the load      *)
(* event, and sends PerPage commands; a `finally` closes the session and   *)
(* the server.  They differ in Pages and PerPage only: measuring has one   *)
(* command per page, capturing three, printing four for its single page    *)
(* (three when it ends early because of layout problems).                  *)
(***************************************************************************)
EXTENDS CdpSession

CONSTANT PerPage   (* commands sent to a page that has loaded *)

ASSUME JobAssumption ==
  /\ PerPage \in Nat
  /\ MaxId = 3 + Pages * (1 + PerPage) + 1

VARIABLES
  step,      (* where the job is                                *)
  page,      (* the page it is at, 0 before the first           *)
  left,      (* the commands it has yet to send there           *)
  awaited,   (* the promises it awaits (Promise.all)            *)
  thrown,    (* has it failed                                   *)
  server,    (* the loopback server listens                     *)
  profile    (* the browser's profile directory exists          *)

job  == <<step, page, left, awaited, thrown, server, profile>>
vars == <<session, chromium, job>>

Init ==
  /\ SessionInit
  /\ step = "work" /\ page = 0 /\ left = 3
  /\ awaited = {} /\ thrown = FALSE
  /\ server = TRUE /\ profile = TRUE

-----------------------------------------------------------------------------
Kept   == \A p \in awaited : outcome[p] \in {"ok", "bad", "loaded"}
Broken == \E p \in awaited : outcome[p] \in Rejected
Good   == \A p \in awaited : outcome[p] \in {"ok", "loaded"}
Reaped == browser \in {"exited", "closed"}        \* #exited is resolved

(* A continuation is a microtask: it runs before the next callback does.   *)
Continues ==
  \/ /\ step = "work"
     /\ Kept \/ Broken
  \/ step = "close"
  \/ /\ step \in {"grace", "killed"}
     /\ Reaped

(* Mutant: one command too many. *)
CommandOneMore ==
  /\ step = "work" /\ Good /\ left >= 0
  /\ LET send == {<<"send", nextId>>} IN Open(send) /\ awaited' = send
  /\ Write(page, FALSE)
  /\ left' = left - 1
  /\ UNCHANGED <<failure, browser, owed, stream, doc, step, page, thrown, server, profile>>

Command ==
  /\ step = "work" /\ Good /\ left > 0
  /\ LET send == {<<"send", nextId>>} IN Open(send) /\ awaited' = send
  /\ Write(page, FALSE)
  /\ left' = left - 1
  /\ UNCHANGED <<failure, browser, owed, stream, doc, step, page, thrown, server, profile>>

(* Mutant: the load event is not awaited. *)
NavigateWithoutLoad ==
  /\ step = "work" /\ Good /\ left = 0 /\ page < Pages
  /\ LET send == {<<"send", nextId>>} IN Open(send) /\ awaited' = send
  /\ Write(page + 1, TRUE)
  /\ page' = page + 1
  /\ left' = PerPage
  /\ UNCHANGED <<failure, browser, owed, stream, doc, step, thrown, server, profile>>

(* Promise.all over the navigation and its load event. *)
Navigate ==
  /\ step = "work" /\ Good /\ left = 0 /\ page < Pages
  /\ LET both == {<<"send", nextId>>, <<"wait", page + 1>>} IN Open(both) /\ awaited' = both
  /\ Write(page + 1, TRUE)
  /\ page' = page + 1
  /\ left' = PerPage
  /\ UNCHANGED <<failure, browser, owed, stream, doc, step, thrown, server, profile>>

Finish ==
  /\ step = "work" /\ Good /\ left = 0 /\ page = Pages
  /\ step' = "close"
  /\ UNCHANGED <<session, chromium, page, left, awaited, thrown, server, profile>>

(* A rejection, or an answer that the job refuses. *)
Throw ==
  /\ step = "work" /\ (Broken \/ Kept) /\ ~Good
  /\ step' = "close"
  /\ thrown' = TRUE
  /\ UNCHANGED <<session, chromium, page, left, awaited, server, profile>>

(* close(): Browser.close, unless the session is over. *)
Close ==
  /\ step = "close"
  /\ step' = "grace"
  /\ Write(0, FALSE)
  /\ UNCHANGED <<failure, open, timers, outcome, browser, owed, stream, doc,
                 page, left, awaited, thrown, server, profile>>

(* Mutant: a browser that does not quit is not killed. *)
GraceOverNoKill ==
  /\ step = "grace" /\ ~Reaped
  /\ step' = "killed"
  /\ UNCHANGED <<session, chromium, page, left, awaited, thrown, server, profile>>

(* EXIT_GRACE_MILLISECONDS are over: SIGKILL. *)
GraceOver ==
  /\ step = "grace" /\ ~Reaped
  /\ step' = "killed"
  /\ browser' = IF browser = "running" THEN "dead" ELSE browser
  /\ UNCHANGED <<session, requests, owed, stream, doc, page, left, awaited, thrown, server, profile>>

(* Mutant: close() does not await the exit of a browser it has killed. *)
ExitedUnawaited ==
  /\ step = "killed" \/ (step = "grace" /\ Reaped)
  /\ FailAll
  /\ step' = "server" /\ profile' = FALSE
  /\ UNCHANGED <<nextId, chromium, page, left, awaited, thrown, server>>

(* The browser is gone, but its children may still write to the profile:   *)
(* rmSync may throw, and then nothing after close() in the finally runs.   *)
Exited ==
  /\ step \in {"grace", "killed"} /\ Reaped
  /\ FailAll
  /\ \/ step' = "server" /\ profile' = FALSE /\ UNCHANGED thrown
     \/ step' = "threw" /\ thrown' = TRUE /\ UNCHANGED profile
  /\ UNCHANGED <<nextId, chromium, page, left, awaited, server>>

ServerClosed ==
  /\ step = "server"
  /\ step' = IF thrown THEN "threw" ELSE "returned"
  /\ server' = FALSE
  /\ UNCHANGED <<session, chromium, page, left, awaited, thrown, profile>>

-----------------------------------------------------------------------------
Continue == Command \/ Navigate \/ Finish \/ Throw \/ Close \/ Exited

Next ==
  \/ Continue
  \/ ~Continues /\ (GraceOver \/ ServerClosed)
  \/ ~Continues /\ Callback /\ UNCHANGED job
  \/ Chromium /\ UNCHANGED job

Spec == Init /\ [][Next]_vars

(* Node runs what is ready, timers fire, and a process that is dead is     *)
(* reported.  Nothing is asked of the browser.                             *)
Fairness ==
  /\ WF_vars(Continue)
  /\ WF_vars(~Continues /\ (GraceOver \/ ServerClosed))
  /\ WF_vars(~Continues /\ (StartError \/ ExitEvent) /\ UNCHANGED job)
  /\ \A p \in Promises : WF_vars(~Continues /\ Timeout(p) /\ UNCHANGED job)

FairSpec == Spec /\ Fairness

-----------------------------------------------------------------------------
Ended == step \in {"returned", "threw"}

(* The variables keep to their types. *)
TypeOK ==
  /\ SessionTypeOK
  /\ step \in {"work", "close", "grace", "killed", "server", "returned", "threw"}
  /\ page \in 0..Pages
  /\ left \in 0..PerPage \cup 0..3
  /\ awaited \subseteq Promises
  /\ thrown \in BOOLEAN /\ server \in BOOLEAN /\ profile \in BOOLEAN

(* What a job asks of its n-th page reaches the browser when that page is  *)
(* open and has loaded, and a job that returns has every command of every  *)
(* page answered, and saw every page load.                                 *)
ActsOnLoadedPages ==
  /\ \A r \in ToSet(requests) :
       r.page > 0 /\ ~r.navigates => doc = [page |-> r.page, loaded |-> TRUE]
  /\ step = "returned" => /\ page = Pages
                          /\ \A id \in 1..(MaxId - 1) : outcome[<<"send", id>>] = "ok"
                          /\ \A n \in 1..Pages : outcome[<<"wait", n>>] = "loaded"

(* However a job ends, the browser is gone and no timer is armed.  The     *)
(* profile and the server outlive it together, or neither does: a server   *)
(* is left listening only by a profile that could not be removed, and the  *)
(* job that leaves them throws, also where its work was done.              *)
EndsClean ==
  Ended => /\ Reaped /\ timers = {}
           /\ (server <=> profile)
           /\ step = "returned" => ~server

(* A job whose browser could be started ends, whatever the browser does.   *)
StartedJobEnds == browser = "running" ~> Ended

(* Every job ends, also when the browser could not be started.             *)
EveryJobEnds == <>Ended
=============================================================================
