----------------------------- MODULE CdpSession -----------------------------
(***************************************************************************)
(* figura/scripts/cdp-session.mjs: one headless Chromium, driven over a    *)
(* pair of pipes.  A promise is <<"send", id>> for a command or            *)
(* <<"wait", n>> for the load event awaited by the n-th navigation; each   *)
(* has a timer of its own.  Every action is one callback of Node's event   *)
(* loop, or a step of the browser, which is outside the repository.        *)
(*                                                                         *)
(* A chunk is modelled by the messages it completes: the bytes of a        *)
(* message that is cut by a chunk boundary wait in #partialMessage.        *)
(***************************************************************************)
EXTENDS Naturals, Sequences, SequencesExt

CONSTANTS
  Pages,    (* how many pages are navigated to *)
  MaxId     (* bound on command ids            *)

ASSUME SessionAssumption == Pages \in Nat \ {0} /\ MaxId \in Nat \ {0}

Sends    == {"send"} \X (1..MaxId)
Waits    == {"wait"} \X (1..Pages)
Promises == Sends \cup Waits

Rejected == {"failed", "timeout", "exited"}
Answers  == {"ok", "bad", "failed"}  \* "bad": errorText or exceptionDetails
Outcomes == {"none", "loaded"} \cup Answers \cup Rejected

Request  == [id : 1..MaxId, page : 0..Pages, navigates : BOOLEAN]
Load(n)  == [to |-> <<"load", n>>, value |-> "loaded"]
Messages == [to : Sends, value : Answers] \cup {Load(n) : n \in 1..Pages}

VARIABLES
  failure,   (* #failure: the session is over                            *)
  nextId,    (* #nextId                                                  *)
  open,      (* #pendingCommands and #eventWaiterRejections              *)
  timers,    (* the promises whose setTimeout is armed                   *)
  outcome,   (* how each promise was settled                             *)
  browser,   (* the child process, up to its 'exit' and 'close' events   *)
  requests,  (* commands written and not yet read by the browser         *)
  owed,      (* answers and load events the browser has yet to write     *)
  stream,    (* messages written by the browser and not yet received     *)
  doc        (* the page last navigated to, and whether it has loaded    *)

session  == <<failure, nextId, open, timers, outcome>>
chromium == <<browser, requests, owed, stream, doc>>

(* openCdpSession: the child is spawned, or will turn out not to have been. *)
SessionInit ==
  /\ failure = FALSE
  /\ nextId = 1
  /\ open = {} /\ timers = {}
  /\ outcome = [p \in Promises |-> "none"]
  /\ browser \in {"running", "absent"}
  /\ requests = <<>> /\ owed = {} /\ stream = <<>>
  /\ doc = [page |-> 0, loaded |-> TRUE]

-----------------------------------------------------------------------------
(* The session's methods, called in the middle of a step of its user.      *)

(* send and waitForEvent: a promise is open until it is settled; it is     *)
(* rejected at once when the session is over.                              *)
Open(ps) ==
  IF failure
  THEN /\ outcome' = [p \in Promises |-> IF p \in ps THEN "exited" ELSE outcome[p]]
       /\ UNCHANGED <<open, timers>>
  ELSE /\ open' = open \cup ps
       /\ timers' = timers \cup ps
       /\ UNCHANGED outcome

(* #write: a command for the n-th page, 0 while none has been asked for. *)
Write(n, navigates) ==
  IF failure
  THEN UNCHANGED <<nextId, requests>>
  ELSE /\ nextId <= MaxId
       /\ nextId' = nextId + 1
       /\ requests' = Append(requests, [id |-> nextId, page |-> n, navigates |-> navigates])

Settle(ps, values) ==
  /\ open' = open \ ps
  /\ timers' = timers \ ps
  /\ outcome' = [p \in Promises |-> IF p \in ps THEN values[p] ELSE outcome[p]]

(* Mutant: only the commands are rejected, the event waiters are not. *)
FailCommands ==
  IF failure
  THEN UNCHANGED <<failure, open, timers, outcome>>
  ELSE failure' = TRUE /\ Settle(open \cap Sends, [p \in open |-> "exited"])

(* #failAll: the first failure rejects everything that is open. *)
FailAll ==
  IF failure
  THEN UNCHANGED <<failure, open, timers, outcome>>
  ELSE failure' = TRUE /\ Settle(open, [p \in open |-> "exited"])

-----------------------------------------------------------------------------
(* Callbacks of the event loop.                                            *)

IsLoad(m) == m.value = "loaded"

Hits(chunk) ==
  {m.to : m \in {n \in chunk : n.to \in open}}
    \cup (IF \E m \in chunk : IsLoad(m) THEN open \cap Waits ELSE {})

ValueIn(chunk, p) ==
  IF p \in Waits THEN "loaded" ELSE (CHOOSE m \in chunk : m.to = p).value

(* Mutant: the timer of an answered command stays armed. *)
ReceiveKeepsTimer(k) ==
  LET chunk == ToSet(SubSeq(stream, 1, k)) IN
  /\ stream' = SubSeq(stream, k + 1, Len(stream))
  /\ open' = open \ Hits(chunk)
  /\ outcome' = [p \in Promises |-> IF p \in Hits(chunk) THEN ValueIn(chunk, p) ELSE outcome[p]]
  /\ UNCHANGED <<failure, nextId, timers, browser, requests, owed, doc>>

(* Mutant: `if` in place of `while`, so that only the first message counts. *)
ReceiveFirst(k) ==
  /\ stream' = SubSeq(stream, k + 1, Len(stream))
  /\ Settle(Hits({stream[1]}), [p \in Hits({stream[1]}) |-> ValueIn({stream[1]}, p)])
  /\ UNCHANGED <<failure, nextId, browser, requests, owed, doc>>

(* #receive and #dispatch for a chunk that completes k messages: an answer *)
(* to no open command, one that came too late, is dropped.                 *)
Receive(k) ==
  LET chunk == ToSet(SubSeq(stream, 1, k)) IN
  /\ stream' = SubSeq(stream, k + 1, Len(stream))
  /\ Settle(Hits(chunk), [p \in Hits(chunk) |-> ValueIn(chunk, p)])
  /\ UNCHANGED <<failure, nextId, browser, requests, owed, doc>>

Timeout(p) ==
  /\ p \in timers
  /\ Settle({p}, [q \in {p} |-> "timeout"])
  /\ UNCHANGED <<failure, nextId, chromium>>

(* child 'error': the browser could not be started.  No 'exit' follows.    *)
StartError ==
  /\ browser = "absent"
  /\ browser' = "never"
  /\ FailAll
  /\ UNCHANGED <<nextId, requests, owed, stream, doc>>

(* An 'error' of the command pipe: the browser closed its end, or is gone. *)
PipeError ==
  /\ browser # "closed" /\ ~failure
  /\ FailAll
  /\ UNCHANGED <<nextId, chromium>>

(* child 'exit': close() waits for it. *)
ExitEvent ==
  /\ browser = "dead"
  /\ browser' = "exited"
  /\ UNCHANGED <<session, requests, owed, stream, doc>>

(* child 'close': its output has been read to the end. *)
CloseEvent ==
  /\ browser = "exited" /\ stream = <<>>
  /\ browser' = "closed"
  /\ FailAll
  /\ UNCHANGED <<nextId, requests, owed, stream, doc>>

Callback ==
  \/ \E k \in 1..Len(stream) : Receive(k)
  \/ \E p \in timers : Timeout(p)
  \/ StartError \/ PipeError \/ ExitEvent \/ CloseEvent

-----------------------------------------------------------------------------
(* Chromium.                                                               *)

(* A navigation is committed, then answered and loaded in either order.    *)
(* Any answer may be an error; a page that could not be opened may load.   *)
Handle ==
  /\ browser = "running" /\ requests # <<>>
  /\ requests' = Tail(requests)
  /\ LET r == Head(requests) IN
       /\ doc' = IF r.navigates THEN [page |-> r.page, loaded |-> FALSE] ELSE doc
       /\ \E v \in IF r.page = 0 THEN {"ok", "failed"} ELSE Answers,
            loads \in SUBSET (IF r.navigates THEN {Load(r.page)} ELSE {}) :
            /\ (r.navigates /\ v = "ok") => loads # {}
            /\ owed' = owed \cup loads \cup {[to |-> <<"send", r.id>>, value |-> v]}
  /\ UNCHANGED <<session, browser, stream>>

Emit ==
  /\ browser = "running"
  /\ \E m \in owed :
       /\ owed' = owed \ {m}
       /\ stream' = Append(stream, m)
       /\ doc' = IF IsLoad(m) THEN [doc EXCEPT !.loaded = TRUE] ELSE doc
  /\ UNCHANGED <<session, browser, requests>>

(* It quits on Browser.close, crashes, or is killed. *)
Die ==
  /\ browser = "running"
  /\ browser' = "dead"
  /\ requests' = <<>> /\ owed' = {}
  /\ UNCHANGED <<session, stream, doc>>

Chromium == Handle \/ Emit \/ Die

-----------------------------------------------------------------------------
(* The session's variables keep to their types.                            *)
SessionTypeOK ==
  /\ failure \in BOOLEAN
  /\ nextId \in 1..(MaxId + 1)
  /\ open \subseteq Promises /\ timers \subseteq Promises
  /\ outcome \in [Promises -> Outcomes]
  /\ browser \in {"running", "absent", "never", "dead", "exited", "closed"}
  /\ requests \in Seq(Request)
  /\ owed \subseteq Messages /\ stream \in Seq(Messages)
  /\ doc \in [page : 0..Pages, loaded : BOOLEAN]

(* Every open promise has a deadline, and no timer outlives its promise:   *)
(* one would keep the process from ending.                                 *)
DeadlinesAreExact == timers = open

(* Nothing waits on a session that is over: whatever was open when it      *)
(* failed is rejected, and what is asked of it later is rejected at once.  *)
FailedSessionOwesNothing == failure => open = {}

(* A wait runs into its timeout only while its load event has not been     *)
(* received: one that comes in the same chunk as the answer to the         *)
(* navigation is not missed.                                               *)
LoadIsNotMissed ==
  [][\A n \in 1..Pages :
       /\ outcome'[<<"wait", n>>] = "timeout" /\ outcome[<<"wait", n>>] # "timeout"
       /\ doc = [page |-> n, loaded |-> TRUE]
       => Load(n) \in ToSet(stream)]_<<outcome, doc, stream>>
=============================================================================
