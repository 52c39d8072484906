-------------------------- MODULE BrowserJobProofs --------------------------
(***************************************************************************)
(* A browser job leaves nothing behind, for any number of pages and of     *)
(* commands per page, short of a profile that cannot be removed: every     *)
(* open promise has its timer and no other timer is armed, a session that  *)
(* is over has nothing open, and a job that has ended has reaped its       *)
(* browser, and has closed its server if its profile is gone.  On the way  *)
(* a page is spoken to only once it has loaded, no load event goes by      *)
(* unheard, and a job that returns has had every command answered.         *)
(***************************************************************************)
EXTENDS BrowserJob, TLAPS

(* What close() has achieved by the time the server is closed. *)
SessionIsClosed ==
  /\ step \in {"server", "returned", "threw"} => Reaped /\ failure
  /\ step \in {"server", "returned"} => ~profile

(* The server is closed after the profile, or not at all. *)
ServerIsClosed ==
  /\ ~Ended => server
  /\ step \notin {"server", "returned", "threw"} => profile
  /\ Ended => (server <=> profile)

(* EndsClean alone is not inductive: it rests on the order of the finally, *)
(* session before server, and on a failed session having no timers.        *)
Clean ==
  /\ DeadlinesAreExact
  /\ FailedSessionOwesNothing
  /\ SessionIsClosed
  /\ ServerIsClosed

(* A session that fails leaves nothing open, a session that is over stays  *)
(* as it is (failAll).                                                     *)
LEMMA FailAllCloses ==
  ASSUME FailAll, DeadlinesAreExact, FailedSessionOwesNothing
  PROVE  failure' /\ open' = {} /\ timers' = {}
BY DEF FailAll, Settle, DeadlinesAreExact, FailedSessionOwesNothing

(* Opening promises arms their timers, and opens none when the session is  *)
(* over (send, waitForEvent).                                              *)
LEMMA OpenIsExact ==
  ASSUME NEW ps, Open(ps), UNCHANGED failure, DeadlinesAreExact, FailedSessionOwesNothing
  PROVE  DeadlinesAreExact' /\ FailedSessionOwesNothing'
BY DEF Open, DeadlinesAreExact, FailedSessionOwesNothing

LEMMA InitClean == Init => Clean
BY DEF Init, SessionInit, Clean, DeadlinesAreExact, FailedSessionOwesNothing,
       SessionIsClosed, ServerIsClosed, Ended

(* A callback of the event loop keeps the session exact, and takes nothing *)
(* back from a session that is closed.                                     *)
LEMMA CallbackClean ==
  ASSUME Clean, Callback, UNCHANGED job
  PROVE  Clean'
<1> USE DEF Clean
<1>1. CASE \E k \in 1..Len(stream) : Receive(k)
  <2>1. DeadlinesAreExact' /\ FailedSessionOwesNothing'
    BY <1>1 DEF Receive, Settle, DeadlinesAreExact, FailedSessionOwesNothing
  <2>2. SessionIsClosed' /\ ServerIsClosed'
    BY <1>1 DEF Receive, SessionIsClosed, ServerIsClosed, Reaped, Ended, job
  <2> QED BY <2>1, <2>2
<1>2. CASE \E p \in timers : Timeout(p)
  <2>1. DeadlinesAreExact' /\ FailedSessionOwesNothing'
    BY <1>2 DEF Timeout, Settle, DeadlinesAreExact, FailedSessionOwesNothing
  <2>2. SessionIsClosed' /\ ServerIsClosed'
    BY <1>2 DEF Timeout, Settle, SessionIsClosed, ServerIsClosed, Reaped, Ended, job, chromium
  <2> QED BY <2>1, <2>2
<1>3. CASE StartError \/ PipeError \/ CloseEvent
  <2>1. FailAll BY <1>3 DEF StartError, PipeError, CloseEvent
  <2>2. DeadlinesAreExact' /\ FailedSessionOwesNothing'
    BY <2>1, FailAllCloses DEF DeadlinesAreExact, FailedSessionOwesNothing
  <2>3. SessionIsClosed' /\ ServerIsClosed'
    BY <1>3, <2>1, FailAllCloses
    DEF StartError, PipeError, CloseEvent, SessionIsClosed, ServerIsClosed, Reaped, Ended, job, chromium
  <2> QED BY <2>2, <2>3
<1>4. CASE ExitEvent
  BY <1>4 DEF ExitEvent, session, DeadlinesAreExact, FailedSessionOwesNothing,
              SessionIsClosed, ServerIsClosed, Reaped, Ended, job
<1> QED BY <1>1, <1>2, <1>3, <1>4 DEF Callback

(* No step of Chromium touches the session or the job; a browser that has  *)
(* been reaped takes none.                                                 *)
LEMMA ChromiumClean ==
  ASSUME Clean, Chromium, UNCHANGED job
  PROVE  Clean'
BY DEF Clean, Chromium, Handle, Emit, Die, session, job, DeadlinesAreExact,
       FailedSessionOwesNothing, SessionIsClosed, ServerIsClosed, Reaped, Ended

(* The job's own steps. *)
LEMMA ContinueClean ==
  ASSUME Clean, Continue
  PROVE  Clean'
<1> USE DEF Clean
<1>1. CASE Command
  <2>1. DeadlinesAreExact' /\ FailedSessionOwesNothing'
    BY <1>1, OpenIsExact DEF Command
  <2>2. SessionIsClosed' /\ ServerIsClosed'
    BY <1>1 DEF Command, SessionIsClosed, ServerIsClosed, Reaped, Ended
  <2> QED BY <2>1, <2>2
<1>2. CASE Navigate
  <2>1. DeadlinesAreExact' /\ FailedSessionOwesNothing'
    BY <1>2, OpenIsExact DEF Navigate
  <2>2. SessionIsClosed' /\ ServerIsClosed'
    BY <1>2 DEF Navigate, SessionIsClosed, ServerIsClosed, Reaped, Ended
  <2> QED BY <2>1, <2>2
<1>3. CASE Finish \/ Throw
  BY <1>3 DEF Finish, Throw, session, chromium, DeadlinesAreExact,
              FailedSessionOwesNothing, SessionIsClosed, ServerIsClosed, Reaped, Ended
<1>4. CASE Close
  BY <1>4 DEF Close, DeadlinesAreExact, FailedSessionOwesNothing, SessionIsClosed,
              ServerIsClosed, Reaped, Ended
<1>5. CASE Exited
  <2>1. failure' /\ open' = {} /\ timers' = {}
    BY <1>5, FailAllCloses DEF Exited
  <2>2. SessionIsClosed' /\ ServerIsClosed'
    BY <1>5, <2>1 DEF Exited, chromium, SessionIsClosed, ServerIsClosed, Reaped, Ended
  <2> QED BY <2>1, <2>2 DEF DeadlinesAreExact, FailedSessionOwesNothing
<1> QED BY <1>1, <1>2, <1>3, <1>4, <1>5 DEF Continue

LEMMA StepClean == Clean /\ [Next]_vars => Clean'
<1> SUFFICES ASSUME Clean, [Next]_vars PROVE Clean'
  OBVIOUS
<1>1. CASE Continue BY <1>1, ContinueClean
<1>2. CASE GraceOver
  BY <1>2 DEF Clean, GraceOver, session, DeadlinesAreExact, FailedSessionOwesNothing,
              SessionIsClosed, ServerIsClosed, Reaped, Ended
<1>3. CASE ServerClosed
  BY <1>3 DEF Clean, ServerClosed, session, chromium, DeadlinesAreExact,
              FailedSessionOwesNothing, SessionIsClosed, ServerIsClosed, Reaped, Ended
<1>4. CASE Callback /\ UNCHANGED job BY <1>4, CallbackClean
<1>5. CASE Chromium /\ UNCHANGED job BY <1>5, ChromiumClean
<1>6. CASE UNCHANGED vars
  BY <1>6 DEF Clean, vars, session, chromium, job, DeadlinesAreExact,
              FailedSessionOwesNothing, SessionIsClosed, ServerIsClosed, Reaped, Ended
<1> QED BY <1>1, <1>2, <1>3, <1>4, <1>5, <1>6 DEF Next

THEOREM CleanIsInvariant == Spec => []Clean
BY InitClean, StepClean, PTL DEF Spec

(* cdp-session.mjs: a promise is open exactly while its timer is armed.    *)
THEOREM DeadlinesHold == Spec => []DeadlinesAreExact
<1>1. Clean => DeadlinesAreExact BY DEF Clean
<1> QED BY <1>1, CleanIsInvariant, PTL

(* cdp-session.mjs: nothing is left open in a session that has failed.     *)
THEOREM FailureSettlesAll == Spec => []FailedSessionOwesNothing
<1>1. Clean => FailedSessionOwesNothing BY DEF Clean
<1> QED BY <1>1, CleanIsInvariant, PTL

(* The finally of the three jobs: whatever was thrown and whenever, a job  *)
(* that has ended has reaped its browser and left no timer armed.  It      *)
(* leaves profile and server both or neither, and if both, it has thrown.  *)
THEOREM JobsEndClean == Spec => []EndsClean
<1>1. Clean => EndsClean
  BY DEF Clean, EndsClean, DeadlinesAreExact, FailedSessionOwesNothing,
         SessionIsClosed, ServerIsClosed, Ended
<1> QED BY <1>1, CleanIsInvariant, PTL

-----------------------------------------------------------------------------
(* What a job asks of a page reaches it loaded.  A command is sent when the *)
(* ones before it are answered, so the queue holds at most the one that is  *)
(* awaited, and after it what close() adds.                                 *)

InFlight  == owed \cup ToSet(stream)
NoLoads   == \A m \in InFlight : ~IsLoad(m)
SendOf(r) == <<"send", r.id>>

(* A promise is settled as its kind can be, and once; what has not been     *)
(* asked for is not settled, but for the exited answers of a failed session. *)
Settlements ==
  /\ \A p \in Sends : outcome[p] # "loaded"
  /\ \A p \in Waits : outcome[p] \notin Answers
  /\ \A p \in open : outcome[p] = "none"
  /\ open \subseteq ({"send"} \X (1..(nextId - 1))) \cup ({"wait"} \X (1..page))
  /\ \A id \in nextId..MaxId : /\ outcome[<<"send", id>>] \in {"none", "exited"}
                               /\ failure \/ outcome[<<"send", id>>] = "none"
  /\ \A n \in (page + 1)..Pages : outcome[<<"wait", n>>] = "none"

(* A command is in the queue or answered, and only the first one of the     *)
(* queue is about a page.                                                   *)
Queue ==
  /\ \A r \in ToSet(requests) :
       /\ r.id < nextId /\ outcome[SendOf(r)] \notin Answers
       /\ r.page <= page /\ (r.navigates => r.page > 0)
       /\ \A m \in InFlight : m.to # SendOf(r)
       /\ step = "work" => SendOf(r) \in awaited /\ r.page = page
  /\ \A m \in InFlight : \A id \in nextId..MaxId : m.to # <<"send", id>>
  /\ \A i, j \in 1..Len(requests) : i # j => requests[i].id # requests[j].id
  /\ \A k \in 2..Len(requests) : requests[k].page = 0

(* There is one load event at a time, of the page the browser is at; while  *)
(* it is awaited and the page has loaded, it is on its way.                 *)
Loads ==
  /\ \A n \in 1..Pages : Load(n) \in owed => doc = [page |-> n, loaded |-> FALSE]
  /\ \A n \in 1..Pages : Load(n) \in ToSet(stream) => doc = [page |-> n, loaded |-> TRUE]
  /\ \A i, j \in 1..Len(stream) : IsLoad(stream[i]) /\ IsLoad(stream[j]) => i = j
  /\ \A r \in ToSet(requests) : r.navigates => NoLoads
  /\ doc.page <= page
  /\ \A n \in 1..Pages :
       doc = [page |-> n, loaded |-> TRUE] /\ <<"wait", n>> \in open => Load(n) \in ToSet(stream)

(* The browser is at the page of the job once that page's load was received. *)
AtPage ==
  step = "work" =>
    /\ outcome[<<"wait", page>>] = "loaded" /\ page > 0 => doc = [page |-> page, loaded |-> TRUE] /\ NoLoads
    /\ NoLoads \/ doc.page = page
    /\ \A r \in ToSet(requests) : r.navigates => outcome[<<"wait", page>>] # "loaded"

RequestsAreAnswerable ==
  \A r \in ToSet(requests) : r.page > 0 /\ ~r.navigates => doc = [page |-> r.page, loaded |-> TRUE]

(* Each command still to be sent takes an id, unless the session is over.   *)
Due == left + (Pages - page) * (1 + PerPage)

Answered ==
  step = "work" =>
    /\ nextId + Due <= MaxId
    /\ nextId + Due < MaxId => \E p \in awaited : outcome[p] = "exited"
    /\ \A id \in 1..(nextId - 1) : outcome[<<"send", id>>] = "ok" \/ <<"send", id>> \in awaited
    /\ \A n \in 1..page : outcome[<<"wait", n>>] = "loaded" \/ <<"wait", n>> \in awaited

Complete == /\ page = Pages
            /\ \A id \in 1..(MaxId - 1) : outcome[<<"send", id>>] = "ok"
            /\ \A n \in 1..Pages : outcome[<<"wait", n>>] = "loaded"

Returning == /\ step \in {"close", "grace", "killed", "server"} /\ ~thrown => Complete
             /\ step = "returned" => Complete

PageInv == /\ TypeOK /\ Settlements /\ Queue /\ Loads /\ AtPage /\ RequestsAreAnswerable
           /\ Answered /\ Returning

LEMMA PromiseKinds ==
  /\ \A id : <<"send", id>> \in Sends <=> id \in 1..MaxId
  /\ \A n : <<"wait", n>> \in Waits <=> n \in 1..Pages
  /\ \A p \in Promises : p \in Sends \/ p \in Waits
  /\ \A p \in Sends : p \notin Waits /\ \E id \in 1..MaxId : p = <<"send", id>>
  /\ \A p \in Waits : p \notin Sends /\ \E n \in 1..Pages : p = <<"wait", n>>
  /\ \A id, n : <<"send", id>> # <<"wait", n>>
BY DEF Promises, Sends, Waits

(* The promises that there are, and those that nobody has asked for.        *)
LEMMA Ranges ==
  ASSUME TypeOK
  PROVE  /\ Pages \in Nat /\ MaxId \in Nat /\ page \in Nat /\ page <= Pages /\ nextId \in Nat /\ nextId > 0 /\ nextId <= MaxId + 1
         /\ \A id \in 1..(nextId - 1) : id \in 1..MaxId /\ <<"send", id>> \in Sends /\ <<"send", id>> \in Promises
         /\ \A id \in nextId..MaxId : id \in 1..MaxId /\ <<"send", id>> \in Sends /\ <<"send", id>> \in Promises
         /\ \A n \in 1..page : n \in 1..Pages /\ <<"wait", n>> \in Waits /\ <<"wait", n>> \in Promises
         /\ \A n \in (page + 1)..Pages : n \in 1..Pages /\ <<"wait", n>> \in Waits /\ <<"wait", n>> \in Promises
<1>1. Pages \in Nat /\ MaxId \in Nat /\ page \in Nat /\ page <= Pages /\ nextId \in Nat /\ nextId > 0 /\ nextId <= MaxId + 1
  BY SessionAssumption DEF TypeOK, SessionTypeOK
<1>2. /\ \A id \in 1..(nextId - 1) : id \in 1..MaxId
      /\ \A id \in nextId..MaxId : id \in 1..MaxId
      /\ \A n \in 1..page : n \in 1..Pages
      /\ \A n \in (page + 1)..Pages : n \in 1..Pages
  BY <1>1
<1>3. (\A p \in Sends : p \in Promises) /\ (\A p \in Waits : p \in Promises)
  BY DEF Promises
<1> QED BY <1>1, <1>2, <1>3, PromiseKinds, Zenon

LEMMA Unasked ==
  ASSUME TypeOK, Settlements
  PROVE  /\ \A id \in nextId..MaxId : <<"send", id>> \notin open
         /\ \A n \in (page + 1)..Pages : <<"wait", n>> \notin open
<1>1. Pages \in Nat /\ MaxId \in Nat /\ page \in Nat /\ nextId \in Nat
  BY Ranges
<1>2. \A p \in open : (\E id \in 1..(nextId - 1) : p = <<"send", id>>) \/ (\E n \in 1..page : p = <<"wait", n>>)
  BY DEF Settlements
<1>3. ASSUME NEW id \in nextId..MaxId, <<"send", id>> \in open PROVE FALSE
  <2>1. PICK k \in 1..(nextId - 1) : <<"send", id>> = <<"send", k>>
    BY <1>2, <1>3
  <2> QED BY <1>1, <2>1
<1>4. ASSUME NEW n \in (page + 1)..Pages, <<"wait", n>> \in open PROVE FALSE
  <2>1. PICK k \in 1..page : <<"wait", n>> = <<"wait", k>>
    BY <1>2, <1>4
  <2> QED BY <1>1, <2>1
<1> QED BY <1>3, <1>4

(* A message is an answer or a load event.                                  *)
LEMMA MessageKinds ==
  ASSUME NEW m \in Messages
  PROVE  \/ m.to \in Sends /\ m.value \in Answers /\ ~IsLoad(m)
         \/ IsLoad(m) /\ \E n \in 1..Pages : m = Load(n)
BY DEF Messages, Load, IsLoad, Answers

LEMMA LoadsAreMessages ==
  ASSUME NEW n \in 1..Pages
  PROVE  /\ Load(n) \in Messages /\ IsLoad(Load(n)) /\ Load(n).to \notin Promises
         /\ \A k : Load(k) = Load(n) => k = n
BY DEF Messages, Load, IsLoad, Promises, Sends, Waits

(* Sequences and their elements.                                            *)
LEMMA Elements ==
  ASSUME NEW S, NEW s \in Seq(S)
  PROVE  /\ ToSet(s) \subseteq S /\ \A i \in 1..Len(s) : s[i] \in ToSet(s) /\ s[i] \in S
         /\ \A e \in ToSet(s) : \E i \in 1..Len(s) : e = s[i]
         /\ Len(s) \in Nat /\ (ToSet(s) = {} => s = <<>>)
BY DEF ToSet

LEMMA Appended ==
  ASSUME NEW S, NEW s \in Seq(S), NEW e \in S
  PROVE  /\ Append(s, e) \in Seq(S) /\ ToSet(Append(s, e)) = ToSet(s) \cup {e}
         /\ Len(Append(s, e)) = Len(s) + 1 /\ Append(s, e)[Len(s) + 1] = e
         /\ \A i \in 1..Len(s) : Append(s, e)[i] = s[i]
<1>1. /\ Append(s, e) \in Seq(S) /\ Len(Append(s, e)) = Len(s) + 1 /\ Append(s, e)[Len(s) + 1] = e
      /\ \A i \in 1..Len(s) : Append(s, e)[i] = s[i]
      /\ Len(s) \in Nat /\ DOMAIN s = 1..Len(s) /\ DOMAIN Append(s, e) = 1..(Len(s) + 1)
  OBVIOUS
<1>2. \A x : x \in ToSet(Append(s, e)) <=> x \in ToSet(s) \cup {e}
  BY <1>1 DEF ToSet
<1> QED BY <1>1, <1>2

LEMMA Tails ==
  ASSUME NEW S, NEW s \in Seq(S), s # <<>>
  PROVE  /\ Tail(s) \in Seq(S) /\ Head(s) = s[1] /\ Head(s) \in S /\ Head(s) \in ToSet(s) /\ Len(s) \in Nat \ {0}
         /\ Len(Tail(s)) = Len(s) - 1 /\ \A i \in 1..Len(Tail(s)) : Tail(s)[i] = s[i + 1]
         /\ ToSet(Tail(s)) \subseteq ToSet(s)
         /\ \A e \in ToSet(Tail(s)) : \E i \in 2..Len(s) : e = s[i]
<1>1. /\ Tail(s) \in Seq(S) /\ Head(s) = s[1] /\ Head(s) \in S /\ Len(s) \in Nat \ {0} /\ DOMAIN s = 1..Len(s)
      /\ Len(Tail(s)) = Len(s) - 1 /\ \A i \in 1..Len(Tail(s)) : Tail(s)[i] = s[i + 1]
      /\ DOMAIN Tail(s) = 1..(Len(s) - 1)
  OBVIOUS
<1>2. \A e \in ToSet(Tail(s)) : \E i \in 2..Len(s) : e = s[i]
  BY <1>1 DEF ToSet
<1>3. \A i \in 1..Len(s) : s[i] \in ToSet(s)
  BY <1>1 DEF ToSet
<1> QED BY <1>1, <1>2, <1>3

LEMMA Cuts ==
  ASSUME NEW S, NEW s \in Seq(S), NEW k \in 1..Len(s)
  PROVE  LET before == SubSeq(s, 1, k)
             after  == SubSeq(s, k + 1, Len(s))
         IN  /\ after \in Seq(S) /\ Len(after) = Len(s) - k /\ \A i \in 1..Len(after) : after[i] = s[i + k]
             /\ ToSet(after) \subseteq ToSet(s) /\ ToSet(before) \subseteq ToSet(s)
             /\ \A e \in ToSet(before) : \E i \in 1..k : e = s[i]
             /\ \A e \in ToSet(after) : \E i \in (k + 1)..Len(s) : e = s[i]
             /\ \A i \in 1..k : s[i] \in ToSet(before)
             /\ \A i \in (k + 1)..Len(s) : s[i] \in ToSet(after)
<1> DEFINE before == SubSeq(s, 1, k)
           after  == SubSeq(s, k + 1, Len(s))
<1>1. PICK n \in Nat : n = Len(s) /\ DOMAIN s = 1..n
  OBVIOUS
<1>2. /\ after \in Seq(S) /\ Len(after) = n - k /\ DOMAIN after = 1..(n - k) /\ \A i \in 1..(n - k) : after[i] = s[i + k]
      /\ DOMAIN before = 1..k /\ \A i \in 1..k : before[i] = s[i]
  BY <1>1
<1> HIDE DEF before, after
<1>3. /\ \A i \in 1..(n - k) : i + k \in (k + 1)..n /\ i + k \in 1..n
      /\ \A i \in (k + 1)..n : i - k \in 1..(n - k) /\ (i - k) + k = i
      /\ \A i \in 1..k : i \in 1..n
  BY <1>1
<1>4. /\ \A i \in 1..n : s[i] \in ToSet(s)
      /\ \A i \in 1..k : s[i] \in ToSet(before)
      /\ \A e \in ToSet(before) : \E i \in 1..k : e = s[i]
  BY <1>1, <1>2 DEF ToSet
<1>5. \A e \in ToSet(after) : \E i \in (k + 1)..n : i \in 1..n /\ e = s[i]
  BY <1>2, <1>3 DEF ToSet
<1>6. \A i \in (k + 1)..n : s[i] \in ToSet(after)
  BY <1>2, <1>3 DEF ToSet
<1>7. ToSet(after) \subseteq ToSet(s) /\ ToSet(before) \subseteq ToSet(s)
  BY <1>3, <1>4, <1>5, Zenon
<1>8. /\ \A i \in 1..Len(after) : after[i] = s[i + k]
      /\ Len(after) = Len(s) - k
      /\ \A e \in ToSet(after) : \E i \in (k + 1)..Len(s) : e = s[i]
      /\ \A i \in (k + 1)..Len(s) : s[i] \in ToSet(after)
  BY <1>1, <1>2, <1>5, <1>6
<1>9. after \in Seq(S)
  BY <1>2
<1> QED BY <1>4, <1>7, <1>8, <1>9, Zenon DEF before, after

LEMMA QueuedSends ==
  ASSUME requests \in Seq(Request)
  PROVE  \A q \in ToSet(requests) : q \in Request /\ SendOf(q) \in Sends /\ SendOf(q) \in Promises
<1>1. ToSet(requests) \subseteq Request
  BY Elements
<1> QED BY <1>1, PromiseKinds DEF Request, SendOf, Promises

LEMMA InitPages == Init => PageInv
<1> SUFFICES ASSUME Init PROVE PageInv
  OBVIOUS
<1>1. TypeOK
  <2>1. requests \in Seq(Request) /\ stream \in Seq(Messages)
    BY DEF Init, SessionInit
  <2>2. outcome \in [Promises -> Outcomes]
    BY DEF Init, SessionInit, Outcomes
  <2>3. nextId \in 1..(MaxId + 1) /\ doc \in [page : 0..Pages, loaded : BOOLEAN] /\ page \in 0..Pages /\ left \in 0..3
    BY SessionAssumption DEF Init, SessionInit
  <2> QED BY <2>1, <2>2, <2>3 DEF Init, SessionInit, TypeOK, SessionTypeOK
<1>2. Settlements
  BY PromiseKinds DEF Init, SessionInit, Settlements, Promises, Answers
<1>3. ToSet(requests) = {} /\ ToSet(stream) = {} /\ Len(requests) = 0 /\ Len(stream) = 0 /\ owed = {}
  BY DEF Init, SessionInit, ToSet
<1>4. Queue /\ RequestsAreAnswerable
  BY <1>3 DEF Queue, RequestsAreAnswerable, InFlight
<1>5. Loads
  BY <1>3 DEF Loads, Init, SessionInit
<1>6. AtPage
  BY <1>3 DEF AtPage, NoLoads, InFlight, Init, SessionInit
<1>7. Answered /\ Returning
  BY SessionAssumption, JobAssumption DEF Answered, Returning, Due, Init, SessionInit
<1> QED BY <1>1, <1>2, <1>4, <1>5, <1>6, <1>7 DEF PageInv

(* Steps that leave the session and the browser's queues alone.             *)
LEMMA SamePages ==
  ASSUME PageInv, TypeOK', UNCHANGED <<session, requests, owed, stream, doc, page, left, awaited>>,
         step' = step \/ step' # "work", Returning'
  PROVE  PageInv'
<1>1. Settlements'
  BY DEF PageInv, Settlements, session
<1>2. InFlight' = InFlight /\ NoLoads' = NoLoads
  BY DEF InFlight, NoLoads
<1>3. Queue' /\ RequestsAreAnswerable'
  BY <1>2 DEF PageInv, Queue, RequestsAreAnswerable, SendOf, session
<1>4. Loads'
  BY <1>2 DEF PageInv, Loads, session
<1>5. AtPage'
  BY <1>2 DEF PageInv, AtPage, session
<1>6. Answered'
  BY DEF PageInv, Answered, Due, session
<1> QED BY <1>1, <1>3, <1>4, <1>5, <1>6 DEF PageInv

(* What has been answered stays answered.                                   *)
LEMMA CompleteStays ==
  ASSUME \A p \in Promises : outcome[p] # "none" => outcome'[p] = outcome[p], UNCHANGED page, Complete
  PROVE  Complete'
<1>1. \A id \in 1..(MaxId - 1) : id \in 1..MaxId
  BY SessionAssumption
<1>2. \A id \in 1..(MaxId - 1) : <<"send", id>> \in Promises
  BY <1>1, PromiseKinds DEF Promises
<1>3. \A n \in 1..Pages : <<"wait", n>> \in Promises
  BY PromiseKinds DEF Promises
<1> QED BY <1>2, <1>3 DEF Complete

(* A rejection of what is open, by a deadline or by the session's end.      *)
LEMMA RejectPages ==
  ASSUME PageInv, TypeOK', UNCHANGED <<nextId, requests, owed, stream, doc, page, left, awaited>>,
         failure => failure', open' \subseteq open,
         \A p \in Promises : \/ outcome'[p] = outcome[p]
                             \/ p \in open \ open' /\ outcome'[p] \in {"timeout", "exited"},
         \/ UNCHANGED <<step, thrown>>
         \/ step \in {"grace", "killed"} /\ step' = "server" /\ UNCHANGED thrown
         \/ step \in {"grace", "killed"} /\ step' = "threw" /\ thrown'
  PROVE  PageInv'
<1>1. InFlight' = InFlight /\ NoLoads' = NoLoads
  BY DEF InFlight, NoLoads
<1>2. \A p \in Promises : outcome[p] # "none" => outcome'[p] = outcome[p]
  BY DEF PageInv, Settlements
<1>3. \A p \in Promises : p \notin open => outcome'[p] = outcome[p]
  OBVIOUS
<1>4. Settlements'
  <2>1. /\ \A p \in Sends : outcome'[p] # "loaded"
        /\ \A p \in Waits : outcome'[p] \notin {"ok", "bad"}
    BY PromiseKinds DEF PageInv, Settlements, Promises, Answers
  <2>2. \A p \in Waits : outcome'[p] \notin Answers
    BY PromiseKinds DEF PageInv, Settlements, Promises, Answers
  <2>3. \A p \in open' : outcome'[p] = "none"
    BY DEF PageInv, Settlements, TypeOK, SessionTypeOK
  <2>4. \A id \in nextId..MaxId : <<"send", id>> \in Promises /\ <<"send", id>> \notin open
    BY Ranges, Unasked DEF PageInv
  <2>5. \A n \in (page + 1)..Pages : <<"wait", n>> \in Promises /\ <<"wait", n>> \notin open
    BY Ranges, Unasked DEF PageInv
  <2> QED BY <1>3, <2>1, <2>2, <2>3, <2>4, <2>5 DEF PageInv, Settlements
<1>5. Queue' /\ RequestsAreAnswerable'
  <2>1. \A r \in ToSet(requests) : SendOf(r) \in Promises
    <3>1. requests \in Seq(Request)
      BY DEF PageInv, TypeOK, SessionTypeOK
    <3>2. ToSet(requests) \subseteq Request
      BY <3>1, Elements
    <3> QED BY <3>2, PromiseKinds DEF SendOf, Promises, Request
  <2>2. \A r \in ToSet(requests) : outcome'[SendOf(r)] \notin Answers
    BY <2>1 DEF PageInv, Queue, Answers
  <2> QED BY <1>1, <2>2 DEF PageInv, Queue, RequestsAreAnswerable, SendOf
<1>6. Loads'
  BY <1>1 DEF PageInv, Loads
<1>7. AtPage'
  <2>1. page > 0 => <<"wait", page>> \in Promises
    BY Ranges DEF PageInv
  <2>2. \A r \in ToSet(requests) : r.navigates /\ step = "work" => page > 0
    BY DEF PageInv, Queue
  <2>3. page > 0 /\ outcome'[<<"wait", page>>] = "loaded" => outcome[<<"wait", page>>] = "loaded"
    BY <2>1
  <2> QED BY <1>1, <2>2, <2>3 DEF PageInv, AtPage
<1>8. Answered'
  <2>1. awaited \subseteq Promises
    BY DEF PageInv, TypeOK
  <2>2. \A id \in 1..(nextId - 1) : <<"send", id>> \in Promises
    BY Ranges DEF PageInv
  <2>3. \A n \in 1..page : <<"wait", n>> \in Promises
    BY Ranges DEF PageInv
  <2> QED BY <1>2, <2>1, <2>2, <2>3 DEF PageInv, Answered, Due
<1>9. Returning'
  BY <1>2, CompleteStays DEF PageInv, Returning
<1> QED BY <1>4, <1>5, <1>6, <1>7, <1>8, <1>9 DEF PageInv

LEMMA TimeoutPages == ASSUME PageInv, Clean, NEW p \in timers, Timeout(p), UNCHANGED job PROVE PageInv'
<1>1. p \in open /\ p \in Promises /\ TypeOK
  BY DEF Clean, DeadlinesAreExact, PageInv, TypeOK, SessionTypeOK
<1>2. /\ open' = open \ {p} /\ timers' = timers \ {p}
      /\ outcome' = [q \in Promises |-> IF q \in {p} THEN "timeout" ELSE outcome[q]]
      /\ UNCHANGED <<failure, nextId, browser, requests, owed, stream, doc, step, page, left, awaited, thrown, server, profile>>
  BY DEF Timeout, Settle, chromium, job
<1>3. outcome' \in [Promises -> Outcomes]
  BY <1>1, <1>2 DEF TypeOK, SessionTypeOK, Outcomes, Rejected
<1>4. TypeOK'
  BY <1>1, <1>2, <1>3 DEF TypeOK, SessionTypeOK
<1>5. \A q \in Promises : outcome'[q] = outcome[q] \/ (q \in open \ open' /\ outcome'[q] \in {"timeout", "exited"})
  BY <1>1, <1>2
<1> QED BY <1>2, <1>4, <1>5, RejectPages

(* What failAll leaves: an outcome of every promise that was open.          *)
LEMMA FailAllRejects ==
  ASSUME TypeOK, FailAll
  PROVE  /\ (failure => failure') /\ open' \subseteq open
         /\ failure' \in BOOLEAN /\ open' \subseteq Promises /\ timers' \subseteq Promises
         /\ outcome' \in [Promises -> Outcomes]
         /\ \A q \in Promises : outcome'[q] = outcome[q] \/ (q \in open \ open' /\ outcome'[q] \in {"timeout", "exited"})
<1>1. /\ failure \in BOOLEAN /\ open \subseteq Promises /\ timers \subseteq Promises /\ outcome \in [Promises -> Outcomes]
  BY DEF TypeOK, SessionTypeOK
<1>2. CASE failure
  BY <1>1, <1>2 DEF FailAll
<1>3. CASE ~failure
  <2>1. /\ failure' = TRUE /\ open' = open \ open /\ timers' = timers \ open
        /\ outcome' = [q \in Promises |-> IF q \in open THEN "exited" ELSE outcome[q]]
    BY <1>3 DEF FailAll, Settle
  <2>2. outcome' \in [Promises -> Outcomes]
    BY <1>1, <2>1 DEF Outcomes, Rejected
  <2> QED BY <1>1, <2>1, <2>2
<1> QED BY <1>2, <1>3

LEMMA FailPages ==
  ASSUME PageInv, FailAll, UNCHANGED <<nextId, requests, owed, stream, doc, page, left, awaited, server>>,
         \/ UNCHANGED <<step, thrown>>
         \/ step \in {"grace", "killed"} /\ step' = "server" /\ UNCHANGED thrown
         \/ step \in {"grace", "killed"} /\ step' = "threw" /\ thrown',
         browser' \in {"running", "absent", "never", "dead", "exited", "closed"}, profile' \in BOOLEAN
  PROVE  PageInv'
<1>1. TypeOK /\ step' \in {"work", "close", "grace", "killed", "server", "returned", "threw"}
  BY DEF PageInv, TypeOK
<1>2. /\ (failure => failure') /\ open' \subseteq open
      /\ failure' \in BOOLEAN /\ open' \subseteq Promises /\ timers' \subseteq Promises
      /\ outcome' \in [Promises -> Outcomes]
      /\ \A q \in Promises : outcome'[q] = outcome[q] \/ (q \in open \ open' /\ outcome'[q] \in {"timeout", "exited"})
  BY <1>1, FailAllRejects
<1>3. TypeOK'
  BY <1>1, <1>2 DEF TypeOK, SessionTypeOK
<1> QED BY <1>2, <1>3, RejectPages

LEMMA HandlePages == ASSUME PageInv, Handle, UNCHANGED job PROVE PageInv'
<1>1. /\ requests # <<>> /\ requests \in Seq(Request) /\ stream \in Seq(Messages) /\ owed \subseteq Messages
      /\ TypeOK /\ Queue /\ Loads /\ UNCHANGED <<session, browser, stream, step, page, left, awaited, thrown, server, profile>>
  BY DEF PageInv, TypeOK, SessionTypeOK, Handle, job
<1>2. PICK r : r = Head(requests)
  OBVIOUS
<1>3. /\ r \in Request /\ r \in ToSet(requests) /\ requests' = Tail(requests) /\ requests' \in Seq(Request)
      /\ ToSet(requests') \subseteq ToSet(requests)
      /\ \A q \in ToSet(requests') : q.id # r.id /\ q.page = 0
  <2>1. requests' = Tail(requests)
    BY DEF Handle
  <2>2. r = requests[1] /\ r \in Request /\ r \in ToSet(requests) /\ requests' \in Seq(Request) /\ Len(requests) \in Nat \ {0}
    BY <1>1, <1>2, <2>1, Tails
  <2>3. ToSet(requests') \subseteq ToSet(requests) /\ \A q \in ToSet(requests') : \E i \in 2..Len(requests) : q = requests[i]
    BY <1>1, <2>1, Tails
  <2>4. \A i \in 2..Len(requests) : requests[i].id # requests[1].id /\ requests[i].page = 0
    BY <1>1, <2>2 DEF Queue
  <2> QED BY <2>1, <2>2, <2>3, <2>4
<1>4. PICK v \in Answers, loads \in SUBSET (IF r.navigates THEN {Load(r.page)} ELSE {}) :
        owed' = owed \cup loads \cup {[to |-> <<"send", r.id>>, value |-> v]}
  BY <1>2 DEF Handle, Answers
<1>5. doc' = IF r.navigates THEN [page |-> r.page, loaded |-> FALSE] ELSE doc
  BY <1>2 DEF Handle
<1>6. /\ r.id \in 1..MaxId /\ r.id < nextId /\ r.page \in 0..Pages /\ r.page <= page
      /\ r.navigates => r.page \in 1..Pages
  <2>1. r.id \in 1..MaxId /\ r.page \in 0..Pages /\ Pages \in Nat
    BY <1>3, SessionAssumption DEF Request
  <2>2. r.id < nextId /\ r.page <= page /\ (r.navigates => r.page > 0)
    BY <1>1, <1>3 DEF Queue
  <2> QED BY <2>1, <2>2
<1> DEFINE answer == [to |-> <<"send", r.id>>, value |-> v]
<1>7. answer \in Messages /\ ~IsLoad(answer) /\ answer.to = SendOf(r) /\ \A n : answer # Load(n)
  BY <1>6 DEF Messages, Sends, IsLoad, Answers, SendOf, Load
<1>8. \A m \in loads : r.navigates /\ m = Load(r.page) /\ m \in Messages /\ IsLoad(m) /\ m.to \notin Promises
  BY <1>6, LoadsAreMessages
<1>9. owed' = owed \cup loads \cup {answer}
  BY <1>4
<1> HIDE DEF answer
<1>10. InFlight' = InFlight \cup loads \cup {answer}
  BY <1>1, <1>9 DEF InFlight
<1>11. TypeOK'
  <2>1. owed' \subseteq Messages
    BY <1>1, <1>7, <1>8, <1>9
  <2>2. doc' \in [page : 0..Pages, loaded : BOOLEAN]
    BY <1>1, <1>5, <1>6 DEF TypeOK, SessionTypeOK
  <2> QED BY <1>1, <1>3, <2>1, <2>2 DEF TypeOK, SessionTypeOK, session
<1>12. Settlements'
  BY <1>1 DEF PageInv, Settlements, session
<1>13. Queue'
  <2>1. \A q \in ToSet(requests) : SendOf(q) \in Promises
    BY <1>1, QueuedSends
  <2>2. ASSUME NEW q \in ToSet(requests'), NEW m \in InFlight' PROVE m.to # SendOf(q)
    <3>1. CASE m \in InFlight
      BY <1>1, <1>3, <3>1 DEF Queue
    <3>2. CASE m \in loads
      BY <1>3, <1>8, <2>1, <3>2
    <3>3. CASE m = answer
      BY <1>3, <1>7, <3>3 DEF SendOf
    <3> QED BY <1>10, <3>1, <3>2, <3>3
  <2>3. ASSUME NEW m \in InFlight', NEW id \in nextId..MaxId PROVE m.to # <<"send", id>>
    <3>1. CASE m \in InFlight
      BY <1>1, <3>1 DEF Queue
    <3>2. CASE m \in loads
      BY <1>1, <1>8, <3>2, Ranges
    <3>3. CASE m = answer
      BY <1>1, <1>6, <1>7, <3>3, Ranges DEF SendOf
    <3> QED BY <1>10, <3>1, <3>2, <3>3
  <2>4. \A i, j \in 1..Len(requests') : i # j => requests'[i].id # requests'[j].id
    <3>1. /\ Len(requests) \in Nat /\ Len(requests') = Len(requests) - 1
          /\ \A i \in 1..Len(requests') : requests'[i] = requests[i + 1]
      BY <1>1, <1>3, Tails
    <3>2. \A i, j \in 1..Len(requests) : i # j => requests[i].id # requests[j].id
      BY <1>1 DEF Queue
    <3>3. \A i \in 1..Len(requests') : i \in Nat /\ i + 1 \in 1..Len(requests)
      BY <3>1
    <3> SUFFICES ASSUME NEW i \in 1..Len(requests'), NEW j \in 1..Len(requests'), i # j
                 PROVE  requests'[i].id # requests'[j].id
      OBVIOUS
    <3>4. i + 1 # j + 1
      BY <3>3
    <3> QED BY <3>1, <3>2, <3>3, <3>4
  <2>5. \A k \in 2..Len(requests') : requests'[k].page = 0
    <3>1. \A k \in 1..Len(requests') : requests'[k] \in ToSet(requests')
      BY <1>3, Elements
    <3>2. \A k \in 2..Len(requests') : k \in 1..Len(requests')
      BY <1>3, Elements
    <3> QED BY <1>3, <3>1, <3>2
  <2>6. \A q \in ToSet(requests') : /\ q.id < nextId /\ outcome[SendOf(q)] \notin Answers
                                    /\ q.page <= page /\ (q.navigates => q.page > 0)
                                    /\ step = "work" => SendOf(q) \in awaited /\ q.page = page
    BY <1>1, <1>3 DEF Queue
  <2> QED BY <1>1, <2>2, <2>3, <2>4, <2>5, <2>6 DEF Queue, SendOf, session
<1>14. \A q \in ToSet(requests') : ~q.navigates
  <2>1. \A q \in ToSet(requests') : q.page = 0 /\ (q.navigates => q.page > 0)
    BY <1>1, <1>3 DEF Queue
  <2> QED BY <2>1
<1>15. Loads' /\ AtPage'
  <2>1. CASE r.navigates
    <3>1. NoLoads /\ doc' = [page |-> r.page, loaded |-> FALSE]
      BY <1>1, <1>3, <1>5, <2>1 DEF Loads
    <3>2. \A n \in 1..Pages : Load(n) \notin owed /\ Load(n) \notin ToSet(stream)
      BY <3>1, LoadsAreMessages DEF NoLoads, InFlight
    <3>3. \A n \in 1..Pages : Load(n) \in owed' => n = r.page
      BY <1>6, <1>7, <1>8, <1>9, <2>1, <3>2, LoadsAreMessages
    <3>4. Loads'
      BY <1>1, <1>6, <1>14, <3>1, <3>2, <3>3 DEF Loads, session
    <3>5. step = "work" => r.page = page /\ outcome[<<"wait", page>>] # "loaded"
      BY <1>1, <1>3, <2>1 DEF PageInv, AtPage, Queue
    <3> QED BY <1>1, <1>14, <3>1, <3>4, <3>5 DEF AtPage, session
  <2>2. CASE ~r.navigates
    <3>1. doc' = doc /\ loads = {}
      BY <1>4, <1>5, <2>2
    <3>2. NoLoads => NoLoads'
      BY <1>7, <1>10, <3>1 DEF NoLoads, IsLoad
    <3>3. \A n \in 1..Pages : Load(n) \in owed' => Load(n) \in owed
      BY <1>7, <1>9, <3>1
    <3> QED BY <1>1, <1>14, <3>1, <3>2, <3>3 DEF Loads, PageInv, AtPage, session
  <2> QED BY <2>1, <2>2
<1>16. RequestsAreAnswerable'
  BY <1>3 DEF RequestsAreAnswerable
<1>17. Answered' /\ Returning'
  BY <1>1 DEF PageInv, Answered, Due, Returning, Complete, session
<1> QED BY <1>11, <1>12, <1>13, <1>15, <1>16, <1>17 DEF PageInv

LEMMA EmitPages == ASSUME PageInv, Emit, UNCHANGED job PROVE PageInv'
<1>1. /\ requests \in Seq(Request) /\ stream \in Seq(Messages) /\ owed \subseteq Messages /\ TypeOK /\ Queue /\ Loads
      /\ UNCHANGED <<session, browser, requests, step, page, left, awaited, thrown, server, profile>>
  BY DEF PageInv, TypeOK, SessionTypeOK, Emit, job
<1>2. PICK m \in owed : /\ owed' = owed \ {m} /\ stream' = Append(stream, m)
                        /\ doc' = IF IsLoad(m) THEN [doc EXCEPT !.loaded = TRUE] ELSE doc
  BY DEF Emit
<1>3. /\ m \in Messages /\ stream' \in Seq(Messages) /\ ToSet(stream') = ToSet(stream) \cup {m}
      /\ Len(stream) \in Nat /\ Len(stream') = Len(stream) + 1 /\ stream'[Len(stream) + 1] = m
      /\ \A i \in 1..Len(stream) : stream'[i] = stream[i]
  BY <1>1, <1>2, Appended, Elements
<1>4. InFlight' = InFlight /\ NoLoads' = NoLoads
  BY <1>2, <1>3 DEF InFlight, NoLoads
<1>5. CASE IsLoad(m)
  <2>1. PICK n \in 1..Pages : m = Load(n)
    BY <1>3, <1>5, MessageKinds
  <2>2. doc = [page |-> n, loaded |-> FALSE] /\ doc' = [page |-> n, loaded |-> TRUE] /\ ~NoLoads
    <3>1. doc = [page |-> n, loaded |-> FALSE]
      BY <1>1, <2>1 DEF Loads
    <3>2. doc' = [doc EXCEPT !.loaded = TRUE]
      BY <1>2, <1>5
    <3>3. m \in InFlight
      BY DEF InFlight
    <3> QED BY <1>5, <3>1, <3>2, <3>3 DEF NoLoads
  <2>3. \A k \in 1..Pages : Load(k) \notin ToSet(stream)
    BY <1>1, <2>2 DEF Loads
  <2>4. \A i \in 1..Len(stream) : ~IsLoad(stream[i])
    <3> SUFFICES ASSUME NEW i \in 1..Len(stream), IsLoad(stream[i]) PROVE FALSE
      OBVIOUS
    <3>1. stream[i] \in ToSet(stream) /\ stream[i] \in Messages
      BY <1>1, Elements
    <3> QED BY <2>3, <3>1, MessageKinds
  <2>5. \A k \in 1..Pages : Load(k) \notin owed'
    BY <1>1, <1>2, <2>1, <2>2 DEF Loads
  <2>6. TypeOK'
    <3>1. doc' \in [page : 0..Pages, loaded : BOOLEAN] /\ owed' \subseteq Messages
      <4>1. owed' \subseteq Messages
        BY <1>1, <1>2
      <4>2. n \in 0..Pages
        BY SessionAssumption
      <4> QED BY <2>2, <4>1, <4>2
    <3> QED BY <1>1, <1>3, <3>1 DEF TypeOK, SessionTypeOK, session
  <2>7. Loads'
    <3>1. \A i, j \in 1..Len(stream') : IsLoad(stream'[i]) /\ IsLoad(stream'[j]) => i = j
      BY <1>3, <2>4
    <3>2. \A k \in 1..Pages : Load(k) \in ToSet(stream') => k = n
      BY <1>3, <2>1, <2>3, LoadsAreMessages
    <3>3. \A k \in 1..Pages : doc' = [page |-> k, loaded |-> TRUE] => Load(k) \in ToSet(stream')
      BY <1>3, <2>1, <2>2
    <3>4. doc'.page = doc.page
      BY <2>2
    <3> QED BY <1>1, <1>4, <2>2, <2>5, <3>1, <3>2, <3>3, <3>4 DEF Loads, session
  <2>8. AtPage'
    BY <1>1, <1>4, <2>2 DEF PageInv, AtPage, session
  <2>9. RequestsAreAnswerable'
    BY <1>1, <2>2 DEF PageInv, RequestsAreAnswerable
  <2> QED BY <1>1, <1>4, <2>6, <2>7, <2>8, <2>9
          DEF PageInv, Settlements, Queue, SendOf, Answered, Due, Returning, Complete, session
<1>6. CASE ~IsLoad(m)
  <2>1. doc' = doc /\ \A n \in 1..Pages : m # Load(n)
    BY <1>2, <1>6, LoadsAreMessages
  <2>2. TypeOK'
    <3>1. SessionTypeOK'
      <4>1. owed' \subseteq Messages /\ stream' \in Seq(Messages) /\ doc' \in [page : 0..Pages, loaded : BOOLEAN]
        BY <1>1, <1>2, <1>3, <2>1 DEF TypeOK, SessionTypeOK
      <4> QED BY <1>1, <4>1 DEF TypeOK, SessionTypeOK, session
    <3> QED BY <1>1, <3>1 DEF TypeOK
  <2>3. Loads'
    <3>1. \A i, j \in 1..Len(stream') : IsLoad(stream'[i]) /\ IsLoad(stream'[j]) => i = j
      BY <1>1, <1>3, <1>6 DEF Loads
    <3> QED BY <1>1, <1>2, <1>3, <1>4, <2>1, <3>1 DEF Loads, session
  <2> QED BY <1>1, <1>4, <2>1, <2>2, <2>3
          DEF PageInv, Settlements, Queue, AtPage, RequestsAreAnswerable, SendOf, Answered, Due, Returning, Complete, session
<1> QED BY <1>5, <1>6

LEMMA DiePages == ASSUME PageInv, Die, UNCHANGED job PROVE PageInv'
<1>1. /\ requests' = <<>> /\ owed' = {} /\ browser' = "dead" /\ stream \in Seq(Messages) /\ TypeOK /\ Loads
      /\ UNCHANGED <<session, stream, doc, step, page, left, awaited, thrown, server, profile>>
  BY DEF PageInv, TypeOK, SessionTypeOK, Die, job
<1>2. ToSet(requests') = {} /\ Len(requests') = 0 /\ requests' \in Seq(Request)
  BY <1>1 DEF ToSet
<1>3. InFlight' \subseteq InFlight /\ (NoLoads => NoLoads')
  BY <1>1 DEF InFlight, NoLoads
<1>4. TypeOK'
  BY <1>1, <1>2 DEF TypeOK, SessionTypeOK, session
<1>5. Queue' /\ RequestsAreAnswerable'
  BY <1>1, <1>2, <1>3 DEF PageInv, Queue, RequestsAreAnswerable, session
<1>6. Loads'
  BY <1>1, <1>2 DEF Loads, session
<1>7. AtPage'
  BY <1>1, <1>2, <1>3 DEF PageInv, AtPage, session
<1> QED BY <1>1, <1>4, <1>5, <1>6, <1>7 DEF PageInv, Settlements, Answered, Due, Returning, Complete, session

LEMMA ReceivePages == ASSUME PageInv, NEW k \in 1..Len(stream), Receive(k), UNCHANGED job PROVE PageInv'
<1>1. /\ requests \in Seq(Request) /\ stream \in Seq(Messages) /\ owed \subseteq Messages
      /\ open \subseteq Promises /\ timers \subseteq Promises /\ outcome \in [Promises -> Outcomes]
      /\ TypeOK /\ Settlements /\ Queue /\ Loads
      /\ UNCHANGED <<failure, nextId, browser, requests, owed, doc, step, page, left, awaited, thrown, server, profile>>
  BY DEF PageInv, TypeOK, SessionTypeOK, Receive, job
<1> DEFINE chunk == ToSet(SubSeq(stream, 1, k))
           hits  == Hits(chunk)
<1>2. /\ stream' \in Seq(Messages) /\ Len(stream') = Len(stream) - k /\ Len(stream) \in Nat
      /\ \A i \in 1..Len(stream') : stream'[i] = stream[i + k]
      /\ ToSet(stream') \subseteq ToSet(stream) /\ chunk \subseteq ToSet(stream)
      /\ \A m \in chunk : \E i \in 1..k : m = stream[i]
      /\ \A m \in ToSet(stream') : \E i \in (k + 1)..Len(stream) : m = stream[i]
      /\ \A m \in ToSet(stream) : m \in chunk \/ m \in ToSet(stream')
  <2>1. stream' = SubSeq(stream, k + 1, Len(stream))
    BY DEF Receive
  <2> DEFINE rest == SubSeq(stream, k + 1, Len(stream))
  <2>6. /\ rest \in Seq(Messages) /\ Len(rest) = Len(stream) - k
        /\ \A i \in 1..Len(rest) : rest[i] = stream[i + k]
        /\ ToSet(rest) \subseteq ToSet(stream) /\ chunk \subseteq ToSet(stream)
        /\ \A m \in chunk : \E i \in 1..k : m = stream[i]
        /\ \A m \in ToSet(rest) : \E i \in (k + 1)..Len(stream) : m = stream[i]
        /\ \A i \in 1..k : stream[i] \in chunk
        /\ \A i \in (k + 1)..Len(stream) : stream[i] \in ToSet(rest)
    <3>1. stream \in Seq(Messages) /\ k \in 1..Len(stream)
      BY <1>1
    <3> DEFINE before == SubSeq(stream, 1, k)
    <3>2. /\ rest \in Seq(Messages) /\ Len(rest) = Len(stream) - k /\ \A i \in 1..Len(rest) : rest[i] = stream[i + k]
          /\ ToSet(rest) \subseteq ToSet(stream) /\ ToSet(before) \subseteq ToSet(stream)
          /\ \A e \in ToSet(before) : \E i \in 1..k : e = stream[i]
          /\ \A e \in ToSet(rest) : \E i \in (k + 1)..Len(stream) : e = stream[i]
          /\ \A i \in 1..k : stream[i] \in ToSet(before)
          /\ \A i \in (k + 1)..Len(stream) : stream[i] \in ToSet(rest)
      BY <3>1, Cuts, Zenon
    <3> QED BY <3>2, Zenon
  <2> HIDE DEF rest
  <2>2. /\ stream' \in Seq(Messages) /\ Len(stream') = Len(stream) - k
        /\ \A i \in 1..Len(stream') : stream'[i] = stream[i + k]
        /\ ToSet(stream') \subseteq ToSet(stream) /\ chunk \subseteq ToSet(stream)
        /\ \A m \in chunk : \E i \in 1..k : m = stream[i]
        /\ \A m \in ToSet(stream') : \E i \in (k + 1)..Len(stream) : m = stream[i]
        /\ \A i \in 1..k : stream[i] \in chunk
        /\ \A i \in (k + 1)..Len(stream) : stream[i] \in ToSet(stream')
    BY <2>1, <2>6, Zenon DEF rest
  <2>3. Len(stream) \in Nat /\ \A m \in ToSet(stream) : \E i \in 1..Len(stream) : m = stream[i]
    BY <1>1, Elements
  <2>4. \A i \in 1..Len(stream) : i \in 1..k \/ i \in (k + 1)..Len(stream)
    BY <2>3
  <2>5. \A m \in ToSet(stream) : m \in chunk \/ m \in ToSet(stream')
    BY <2>2, <2>3, <2>4, Zenon
  <2> QED BY <2>2, <2>3, <2>5, Zenon
<1>3. /\ open' = open \ hits /\ timers' = timers \ hits
      /\ outcome' = [p \in Promises |-> IF p \in hits THEN [q \in hits |-> ValueIn(chunk, q)][p] ELSE outcome[p]]
  BY DEF Receive, Settle
<1> HIDE DEF chunk
<1>4. \A p \in hits : p \in open /\ p \in Promises
  BY <1>1 DEF Hits
<1>5. \A p \in hits : p \in Sends => \E m \in chunk : m.to = p
  BY PromiseKinds DEF Hits
<1>6. \A p \in Waits \cap open : p \in hits <=> \E m \in chunk : IsLoad(m)
  <2>1. \A m \in chunk : m.to \notin Waits
    <3>1. \A m \in chunk : m \in Messages
      BY <1>1, <1>2, Elements
    <3> QED BY <3>1, MessageKinds, LoadsAreMessages, PromiseKinds DEF Promises
  <2> QED BY <2>1 DEF Hits
<1>7. \A p \in Promises : IF p \in hits THEN outcome'[p] = ValueIn(chunk, p) ELSE outcome'[p] = outcome[p]
  BY <1>3
<1> HIDE DEF hits
<1>8. \A p \in hits : /\ p \in Sends => ValueIn(chunk, p) \in Answers
                      /\ p \in Waits => ValueIn(chunk, p) = "loaded"
  <2>1. ASSUME NEW p \in hits, p \in Sends PROVE ValueIn(chunk, p) \in Answers
    <3>1. PICK m \in chunk : m = (CHOOSE n \in chunk : n.to = p) /\ m.to = p
      BY <1>5, <2>1
    <3>2. m \in Messages
      BY <1>1, <1>2, Elements
    <3>3. m.value \in Answers
      BY <2>1, <3>1, <3>2, MessageKinds, LoadsAreMessages DEF Promises
    <3> QED BY <2>1, <3>1, <3>3, PromiseKinds DEF ValueIn
  <2> QED BY <2>1 DEF ValueIn
<1>9. outcome' \in [Promises -> Outcomes]
  <2>1. \A p \in Promises : outcome'[p] \in Outcomes
    BY <1>1, <1>7, <1>8, PromiseKinds DEF Outcomes
  <2>2. \E f : outcome' = [p \in Promises |-> f[p]]
    BY <1>3
  <2> QED BY <2>1, <2>2
<1>10. TypeOK'
  BY <1>1, <1>2, <1>3, <1>9 DEF TypeOK, SessionTypeOK
<1>11. InFlight' \subseteq InFlight /\ (NoLoads => NoLoads')
  BY <1>1, <1>2 DEF InFlight, NoLoads
<1>12. \A p \in Promises : p \notin open => outcome'[p] = outcome[p]
  BY <1>4, <1>7
<1>13. \A p \in Promises : outcome[p] # "none" => outcome'[p] = outcome[p]
  BY <1>1, <1>12 DEF Settlements
<1>14. Settlements'
  <2>1. \A p \in Sends : outcome'[p] # "loaded"
    BY <1>1, <1>7, <1>8 DEF Settlements, Promises, Answers
  <2>2. \A p \in Waits : outcome'[p] \notin Answers
    BY <1>1, <1>7, <1>8 DEF Settlements, Promises, Answers
  <2>3. \A p \in open' : outcome'[p] = "none"
    BY <1>1, <1>3, <1>7 DEF Settlements
  <2>4. open' \subseteq open
    BY <1>3
  <2>5. /\ \A id \in nextId..MaxId : outcome'[<<"send", id>>] = outcome[<<"send", id>>]
        /\ \A n \in (page + 1)..Pages : outcome'[<<"wait", n>>] = outcome[<<"wait", n>>]
    BY <1>1, <1>12, Ranges, Unasked
  <2> QED BY <1>1, <2>1, <2>2, <2>3, <2>4, <2>5 DEF Settlements
<1>15. Queue' /\ RequestsAreAnswerable'
  <2>1. ASSUME NEW r \in ToSet(requests) PROVE outcome'[SendOf(r)] = outcome[SendOf(r)]
    <3>1. SendOf(r) \in Sends /\ SendOf(r) \in Promises
      BY <1>1, QueuedSends
    <3>2. \A m \in chunk : m.to # SendOf(r)
      BY <1>1, <1>2 DEF Queue, InFlight
    <3> QED BY <1>5, <1>7, <3>1, <3>2
  <2> QED BY <1>1, <1>11, <2>1 DEF PageInv, Queue, RequestsAreAnswerable, SendOf
<1>16. ASSUME NEW m \in chunk, IsLoad(m)
       PROVE  \E n \in 1..Pages : m = Load(n) /\ doc = [page |-> n, loaded |-> TRUE] /\ NoLoads'
  <2>1. m \in Messages /\ m \in ToSet(stream)
    BY <1>1, <1>2, Elements
  <2>2. PICK n \in 1..Pages : m = Load(n)
    BY <1>16, <2>1, MessageKinds
  <2>3. doc = [page |-> n, loaded |-> TRUE]
    BY <1>1, <2>1, <2>2 DEF Loads
  <2>4. \A e \in owed : ~IsLoad(e)
    <3> SUFFICES ASSUME NEW e \in owed, IsLoad(e) PROVE FALSE
      OBVIOUS
    <3>1. PICK j \in 1..Pages : e = Load(j)
      BY <1>1, MessageKinds
    <3>2. doc = [page |-> j, loaded |-> FALSE]
      BY <1>1, <3>1 DEF Loads
    <3>3. doc.loaded = TRUE /\ doc.loaded = FALSE
      BY <2>3, <3>2
    <3> QED BY <3>3
  <2>5. \A e \in ToSet(stream') : ~IsLoad(e)
    <3> SUFFICES ASSUME NEW e \in ToSet(stream'), IsLoad(e) PROVE FALSE
      OBVIOUS
    <3>1. PICK i \in 1..k : m = stream[i]
      BY <1>2
    <3>2. PICK j \in (k + 1)..Len(stream) : e = stream[j]
      BY <1>2
    <3>3. i \in 1..Len(stream) /\ j \in 1..Len(stream) /\ i # j
      BY <1>2
    <3> QED BY <1>1, <1>16, <3>1, <3>2, <3>3 DEF Loads
  <2> QED BY <1>1, <2>2, <2>3, <2>4, <2>5 DEF NoLoads, InFlight
<1>17. Loads'
  <2>1. ASSUME NEW n \in 1..Pages, doc = [page |-> n, loaded |-> TRUE], <<"wait", n>> \in open'
        PROVE  Load(n) \in ToSet(stream')
    <3>1. <<"wait", n>> \in open /\ <<"wait", n>> \notin hits /\ <<"wait", n>> \in Waits
      BY <1>3, <2>1, PromiseKinds
    <3>2. Load(n) \in ToSet(stream)
      BY <1>1, <2>1, <3>1 DEF Loads
    <3>3. Load(n) \notin chunk
      BY <1>6, <3>1, LoadsAreMessages
    <3> QED BY <1>2, <3>2, <3>3
  <2>2. \A i, j \in 1..Len(stream') : IsLoad(stream'[i]) /\ IsLoad(stream'[j]) => i = j
    <3>1. \A i \in 1..Len(stream') : i \in Nat /\ i + k \in 1..Len(stream)
      BY <1>2
    <3>2. \A i, j \in 1..Len(stream) : IsLoad(stream[i]) /\ IsLoad(stream[j]) => i = j
      BY <1>1 DEF Loads
    <3> SUFFICES ASSUME NEW i \in 1..Len(stream'), NEW j \in 1..Len(stream'), IsLoad(stream'[i]), IsLoad(stream'[j])
                 PROVE  i = j
      OBVIOUS
    <3>3. i + k = j + k
      BY <1>2, <3>1, <3>2
    <3> QED BY <3>1, <3>3
  <2> QED BY <1>1, <1>2, <1>11, <2>1, <2>2 DEF Loads
<1>18. AtPage'
  <2> SUFFICES ASSUME step = "work" PROVE AtPage'
    BY <1>1 DEF AtPage
  <2>1. ASSUME page > 0, outcome'[<<"wait", page>>] = "loaded"
        PROVE  doc = [page |-> page, loaded |-> TRUE] /\ NoLoads'
    <3>1. <<"wait", page>> \in Waits /\ <<"wait", page>> \in Promises
      BY <1>1, <2>1, Ranges
    <3>2. CASE outcome[<<"wait", page>>] = "loaded"
      BY <1>11, <2>1, <3>2 DEF PageInv, AtPage
    <3>3. CASE outcome[<<"wait", page>>] # "loaded"
      <4>1. <<"wait", page>> \in hits /\ <<"wait", page>> \in open
        BY <1>4, <1>7, <2>1, <3>1, <3>3
      <4>2. PICK m \in chunk : IsLoad(m)
        BY <1>6, <3>1, <4>1
      <4>3. PICK n \in 1..Pages : m = Load(n) /\ doc = [page |-> n, loaded |-> TRUE] /\ NoLoads'
        BY <1>16, <4>2
      <4>4. doc.page = page
        <5>1. ~NoLoads
          BY <1>2, <4>2 DEF NoLoads, InFlight
        <5> QED BY <5>1 DEF PageInv, AtPage
      <4> QED BY <4>3, <4>4
    <3> QED BY <3>2, <3>3
  <2>2. \A r \in ToSet(requests) : r.navigates => outcome'[<<"wait", page>>] # "loaded"
    <3> SUFFICES ASSUME NEW r \in ToSet(requests), r.navigates, outcome'[<<"wait", page>>] = "loaded" PROVE FALSE
      OBVIOUS
    <3>1. page > 0 /\ NoLoads /\ outcome[<<"wait", page>>] # "loaded"
      BY <1>1 DEF Queue, Loads, PageInv, AtPage
    <3>2. <<"wait", page>> \in Waits /\ <<"wait", page>> \in Promises
      BY <1>1, <3>1, Ranges
    <3>3. <<"wait", page>> \in hits /\ <<"wait", page>> \in open
      BY <1>4, <1>7, <3>1, <3>2
    <3>4. PICK m \in chunk : IsLoad(m)
      BY <1>6, <3>2, <3>3
    <3> QED BY <1>2, <3>1, <3>4 DEF NoLoads, InFlight
  <2> QED BY <1>1, <1>11, <2>1, <2>2 DEF PageInv, AtPage
<1>19. Answered'
  <2>1. \A p \in awaited : outcome[p] = "exited" => outcome'[p] = "exited"
    BY <1>1, <1>13 DEF TypeOK
  <2>2. \A id \in 1..(nextId - 1) : outcome[<<"send", id>>] = "ok" => outcome'[<<"send", id>>] = "ok"
    BY <1>1, <1>13, Ranges
  <2>3. \A n \in 1..page : outcome[<<"wait", n>>] = "loaded" => outcome'[<<"wait", n>>] = "loaded"
    BY <1>1, <1>13, Ranges
  <2> QED BY <1>1, <2>1, <2>2, <2>3 DEF PageInv, Answered, Due
<1>20. Returning'
  BY <1>1, <1>13, CompleteStays DEF PageInv, Returning
<1> QED BY <1>10, <1>14, <1>15, <1>17, <1>18, <1>19, <1>20 DEF PageInv

(* A job goes on when everything it asked for has been answered: nothing is *)
(* in the queue, no load event is on its way, and no command was lost.      *)
LEMMA GoesOn ==
  ASSUME PageInv, step = "work", Good
  PROVE  /\ requests = <<>> /\ NoLoads
         /\ nextId + Due = MaxId
         /\ \A id \in 1..(nextId - 1) : outcome[<<"send", id>>] = "ok"
         /\ \A n \in 1..page : outcome[<<"wait", n>>] = "loaded"
         /\ page > 0 => doc = [page |-> page, loaded |-> TRUE]
<1>1. /\ TypeOK /\ Settlements /\ Queue /\ Loads /\ AtPage /\ Answered
      /\ requests \in Seq(Request) /\ owed \subseteq Messages /\ stream \in Seq(Messages)
      /\ doc \in [page : 0..Pages, loaded : BOOLEAN] /\ left \in Nat /\ page \in Nat
  BY SessionAssumption, JobAssumption DEF PageInv, TypeOK, SessionTypeOK
<1>2. requests = <<>>
  <2>1. ASSUME NEW r \in ToSet(requests) PROVE FALSE
    <3>1. SendOf(r) \in Sends
      BY <1>1, QueuedSends
    <3>2. SendOf(r) \in awaited /\ outcome[SendOf(r)] \notin Answers
      BY <1>1 DEF Queue
    <3>3. outcome[SendOf(r)] \in {"ok", "loaded"}
      BY <3>2 DEF Good
    <3> QED BY <1>1, <3>1, <3>2, <3>3 DEF Settlements, Answers
  <2>2. ToSet(requests) = {}
    BY <2>1
  <2> QED BY <1>1, <2>2, Elements
<1>3. \A id \in 1..(nextId - 1) : outcome[<<"send", id>>] = "ok"
  <2>1. \A id \in 1..(nextId - 1) : <<"send", id>> \in Sends
    BY <1>1, Ranges
  <2> QED BY <1>1, <2>1 DEF Good, Answered, Settlements
<1>4. \A n \in 1..page : outcome[<<"wait", n>>] = "loaded"
  <2>1. \A n \in 1..page : <<"wait", n>> \in Waits
    BY <1>1, Ranges
  <2> QED BY <1>1, <2>1 DEF Good, Answered, Settlements, Answers
<1>5. nextId + Due = MaxId
  <2>1. \A p \in awaited : outcome[p] # "exited"
    BY DEF Good
  <2>2. nextId \in Nat /\ MaxId \in Nat /\ Due \in Int
    <3>1. Pages \in Nat /\ PerPage \in Nat
      BY SessionAssumption, JobAssumption
    <3> QED BY <1>1, <3>1, Ranges DEF Due
  <2> HIDE DEF Due
  <2> QED BY <1>1, <2>1, <2>2 DEF Answered
<1>6. page > 0 => doc = [page |-> page, loaded |-> TRUE] /\ NoLoads
  <2>1. page > 0 => page \in 1..page
    BY <1>1
  <2> QED BY <1>1, <1>4, <2>1 DEF AtPage
<1>7. page = 0 => NoLoads
  <2> SUFFICES ASSUME page = 0, NEW m \in InFlight, IsLoad(m) PROVE FALSE
    BY DEF NoLoads
  <2>1. m \in Messages
    BY <1>1, Elements DEF InFlight
  <2>2. PICK n \in 1..Pages : m = Load(n)
    BY <2>1, MessageKinds
  <2>3. doc.page = n
    BY <1>1, <2>2 DEF Loads, InFlight
  <2> QED BY <1>1, <2>3 DEF Loads
<1> QED BY <1>1, <1>2, <1>3, <1>4, <1>5, <1>6, <1>7

(* A command of the job: the last one before it is answered, so it is the   *)
(* only one of the queue, and takes the next id, unless the session is over.*)
LEMMA AskPages ==
  ASSUME PageInv, step = "work", Good, NEW n \in 0..Pages, NEW navigates \in BOOLEAN,
         Open(awaited'), Write(n, navigates), page' = n, left' \in 0..PerPage \cup 0..3,
         Due > 0, Due' = Due - 1,
         IF navigates THEN n = page + 1 /\ awaited' = {<<"send", nextId>>, <<"wait", n>>}
                      ELSE n = page /\ awaited' = {<<"send", nextId>>},
         UNCHANGED <<failure, browser, owed, stream, doc, step, thrown, server, profile>>
  PROVE  PageInv'
<1> DEFINE send == <<"send", nextId>>
           wait == <<"wait", n>>
<1>1. /\ TypeOK /\ Settlements /\ Queue /\ Loads
      /\ failure \in BOOLEAN /\ open \subseteq Promises /\ timers \subseteq Promises
      /\ outcome \in [Promises -> Outcomes] /\ stream \in Seq(Messages) /\ owed \subseteq Messages
      /\ doc \in [page : 0..Pages, loaded : BOOLEAN]
  BY DEF PageInv, TypeOK, SessionTypeOK
<1>2. /\ requests = <<>> /\ NoLoads /\ nextId + Due = MaxId
      /\ \A id \in 1..(nextId - 1) : outcome[<<"send", id>>] = "ok"
      /\ \A k \in 1..page : outcome[<<"wait", k>>] = "loaded"
      /\ page > 0 => doc = [page |-> page, loaded |-> TRUE]
  BY GoesOn
<1>3. /\ Pages \in Nat /\ MaxId \in Nat /\ page \in Nat /\ n \in Nat /\ page <= Pages /\ nextId \in Nat \ {0}
      /\ page <= n /\ n <= page + 1
  BY <1>1, Ranges
<1>4. Due \in Int
  <2>1. Pages \in Nat /\ PerPage \in Nat /\ left \in Nat
    BY <1>1, JobAssumption, SessionAssumption DEF TypeOK
  <2> QED BY <1>3, <2>1 DEF Due
<1> HIDE DEF Due
<1>5. nextId < MaxId /\ nextId \in 1..MaxId /\ nextId \in nextId..MaxId
  BY <1>2, <1>3, <1>4
<1>6. /\ send \in Sends /\ send \in Promises /\ send \notin open /\ send \notin Waits
      /\ outcome[send] \in {"none", "exited"} /\ (failure \/ outcome[send] = "none")
  BY <1>1, <1>5, PromiseKinds, Unasked DEF Promises, Settlements
<1>7. /\ navigates => /\ n \in 1..Pages /\ n \in (page + 1)..Pages /\ wait \in Waits /\ wait \in Promises
                      /\ wait \notin open /\ wait \notin Sends /\ outcome[wait] = "none"
  <2>1. navigates => n \in 1..Pages /\ n \in (page + 1)..Pages
    BY <1>3
  <2> QED BY <1>1, <2>1, PromiseKinds, Unasked DEF Promises, Settlements
<1>8. awaited' \subseteq Promises /\ send \in awaited' /\ \A p \in awaited' : p = send \/ (navigates /\ p = wait)
  BY <1>6, <1>7
<1>9. InFlight' = InFlight /\ NoLoads'
  BY <1>2 DEF InFlight, NoLoads
<1>10. /\ \A id \in nextId'..MaxId : id \in nextId..MaxId
       /\ \A k \in (n + 1)..Pages : k \in (page + 1)..Pages /\ k # n
       /\ nextId' \in Nat /\ nextId' <= MaxId
  BY <1>3, <1>5 DEF Write
<1>11. CASE failure
  <2>1. /\ outcome' = [p \in Promises |-> IF p \in awaited' THEN "exited" ELSE outcome[p]]
        /\ UNCHANGED <<failure, open, timers, nextId, requests>>
    BY <1>11 DEF Open, Write
  <2>2. \A p \in Promises : IF p \in awaited' THEN outcome'[p] = "exited" ELSE outcome'[p] = outcome[p]
    BY <2>1
  <2>3. outcome' \in [Promises -> Outcomes]
    BY <1>1, <2>1 DEF Outcomes, Rejected
  <2>4. TypeOK'
    BY <1>1, <1>8, <2>1, <2>3 DEF TypeOK, SessionTypeOK
  <2>5. Settlements'
    <3>1. /\ \A p \in Sends : outcome'[p] # "loaded"
          /\ \A p \in Waits : outcome'[p] \notin Answers
      BY <1>1, <2>2 DEF Settlements, Promises, Answers
    <3>2. \A p \in open : p \in Promises /\ p \notin awaited'
      BY <1>1, <1>6, <1>7, <1>8
    <3>3. \A id \in nextId..MaxId : outcome'[<<"send", id>>] \in {"none", "exited"}
      BY <1>1, <2>2, Ranges DEF Settlements
    <3>4. \A k \in (n + 1)..Pages : <<"wait", k>> \notin awaited' /\ <<"wait", k>> \in Promises
      BY <1>1, <1>8, <1>10, Ranges
    <3>5. open \subseteq ({"send"} \X (1..(nextId - 1))) \cup ({"wait"} \X (1..n))
      BY <1>1, <1>3 DEF Settlements
    <3>6. (\A p \in open : outcome[p] = "none")'
      BY <1>1, <2>1, <2>2, <3>2 DEF Settlements
    <3>7. (\A id \in nextId..MaxId : /\ outcome[<<"send", id>>] \in {"none", "exited"}
                                     /\ failure \/ outcome[<<"send", id>>] = "none")'
      <4>1. nextId' = nextId
        BY <2>1
      <4>2. failure'
        BY <1>11, <2>1
      <4> QED BY <3>3, <4>1, <4>2
    <3>8. (\A k \in (page + 1)..Pages : outcome[<<"wait", k>>] = "none")'
      BY <1>1, <1>3, <1>10, <2>2, <3>4 DEF Settlements
    <3>9. (open \subseteq ({"send"} \X (1..(nextId - 1))) \cup ({"wait"} \X (1..page)))'
      BY <1>3, <2>1, <3>5
    <3> QED BY <3>1, <3>6, <3>7, <3>8, <3>9 DEF Settlements
  <2>6. ToSet(requests') = {} /\ Len(requests') = 0
    BY <1>2, <2>1 DEF ToSet
  <2>7. Queue' /\ RequestsAreAnswerable'
    BY <1>1, <1>9, <2>1, <2>6 DEF Queue, RequestsAreAnswerable
  <2>8. Loads'
    BY <1>1, <1>3, <1>9, <2>1, <2>6 DEF Loads
  <2>9. AtPage'
    <3>1. CASE navigates
      BY <1>7, <1>8, <1>9, <2>2, <2>6, <3>1 DEF AtPage
    <3>2. CASE ~navigates
      BY <1>2, <1>9, <2>6, <3>2 DEF AtPage
    <3> QED BY <3>1, <3>2
  <2>10. Answered'
    <3>1. nextId + Due' <= MaxId
      BY <1>2, <1>3, <1>4
    <3>2. outcome'[send] = "exited"
      BY <1>6, <1>8, <2>2
    <3>3. \A id \in 1..(nextId - 1) : <<"send", id>> \in Promises /\ <<"send", id>> \notin awaited'
      <4>1. \A id \in 1..(nextId - 1) : id # nextId
        BY <1>3
      <4> QED BY <1>1, <1>8, <4>1, Ranges
    <3>4. \A k \in 1..n : k = n \/ k \in 1..page
      BY <1>3
    <3>5. \A k \in 1..n : outcome'[<<"wait", k>>] = "loaded" \/ <<"wait", k>> \in awaited'
      <4>1. \A k \in 1..page : <<"wait", k>> \in Promises
        BY <1>1, Ranges
      <4>2. ~navigates => n = page
        OBVIOUS
      <4> QED BY <1>2, <2>2, <3>4, <4>1, <4>2
    <3> QED BY <1>2, <1>8, <2>1, <2>2, <3>1, <3>2, <3>3, <3>5 DEF Answered
  <2>11. Returning'
    BY DEF Returning
  <2> QED BY <2>4, <2>5, <2>7, <2>8, <2>9, <2>10, <2>11 DEF PageInv
<1>12. CASE ~failure
  <2> DEFINE r == [id |-> nextId, page |-> n, navigates |-> navigates]
  <2>1. /\ open' = open \cup awaited' /\ timers' = timers \cup awaited' /\ UNCHANGED <<failure, outcome>>
        /\ nextId' = nextId + 1 /\ requests' = Append(requests, r)
    BY <1>12 DEF Open, Write
  <2>2. r \in Request /\ r.id = nextId /\ r.page = n /\ r.navigates = navigates
    BY <1>5 DEF Request
  <2> HIDE DEF r
  <2>3. requests' \in Seq(Request) /\ ToSet(requests') = {r} /\ Len(requests') = 1
    <3>1. requests \in Seq(Request)
      BY <1>1 DEF TypeOK, SessionTypeOK
    <3>2. Append(requests, r) \in Seq(Request) /\ ToSet(Append(requests, r)) = ToSet(requests) \cup {r}
          /\ Len(Append(requests, r)) = Len(requests) + 1
      BY <2>2, <3>1, Appended
    <3>3. ToSet(requests) = {} /\ Len(requests) = 0
      BY <1>2 DEF ToSet
    <3> QED BY <2>1, <3>2, <3>3
  <2>4. TypeOK'
    <3>1. nextId' \in 1..(MaxId + 1)
      BY <1>3, <1>5, <2>1
    <3> QED BY <1>1, <1>8, <2>1, <2>3, <3>1 DEF TypeOK, SessionTypeOK
  <2>5. Settlements'
    <3>1. \A p \in awaited' : outcome[p] = "none"
      BY <1>6, <1>7, <1>8, <1>12
    <3>2. open' \subseteq ({"send"} \X (1..(nextId' - 1))) \cup ({"wait"} \X (1..n))
      <4>1. \A k \in 1..(nextId - 1) : k \in 1..(nextId' - 1)
        BY <1>3, <2>1
      <4>2. \A k \in 1..page : k \in 1..n
        BY <1>3
      <4>3. nextId \in 1..(nextId' - 1) /\ (navigates => n \in 1..n)
        BY <1>3, <1>7, <2>1
      <4>4. \A p \in open : (\E k \in 1..(nextId - 1) : p = <<"send", k>>) \/ (\E k \in 1..page : p = <<"wait", k>>)
        BY <1>1 DEF Settlements
      <4> QED BY <1>8, <2>1, <4>1, <4>2, <4>3, <4>4
    <3> QED BY <1>1, <1>10, <1>12, <2>1, <3>1, <3>2 DEF Settlements
  <2>6. \A m \in InFlight : m.to # send
    BY <1>1, <1>5 DEF Queue
  <2>7. Queue'
    <3>1. SendOf(r) = send
      BY <2>2 DEF SendOf
    <3>2. r.id < nextId' /\ r.page = n /\ r.page <= n /\ (navigates => n > 0)
      BY <1>3, <1>7, <2>1, <2>2
    <3>3. outcome[send] \notin Answers
      BY <1>6 DEF Answers
    <3>4. \A m \in InFlight' : \A id \in nextId'..MaxId : m.to # <<"send", id>>
      BY <1>1, <1>9, <1>10 DEF Queue
    <3>5. \A q \in ToSet(requests') : /\ q.id < nextId' /\ outcome'[<<"send", q.id>>] \notin Answers
                                      /\ q.page <= n /\ (q.navigates => q.page > 0)
                                      /\ \A m \in InFlight' : m.to # <<"send", q.id>>
                                      /\ <<"send", q.id>> \in awaited' /\ q.page = n
      BY <1>8, <1>9, <2>1, <2>2, <2>3, <2>6, <3>1, <3>2, <3>3 DEF SendOf
    <3> QED BY <2>3, <3>4, <3>5 DEF Queue, SendOf
  <2>8. Loads'
    <3>1. ASSUME NEW k \in 1..Pages, doc = [page |-> k, loaded |-> TRUE], <<"wait", k>> \in open'
          PROVE  Load(k) \in ToSet(stream)
      <4>1. <<"wait", k>> # send
        OBVIOUS
      <4>2. navigates => k # n
        <5>1. doc.page = k /\ doc.page <= page
          BY <1>1, <3>1 DEF Loads
        <5> QED BY <1>3, <5>1
      <4>3. <<"wait", k>> = wait => k = n
        OBVIOUS
      <4>4. <<"wait", k>> \in open
        BY <1>8, <2>1, <3>1, <4>1, <4>2, <4>3
      <4> QED BY <1>1, <3>1, <4>4 DEF Loads
    <3>2. doc.page <= n
      BY <1>1, <1>3 DEF Loads
    <3> QED BY <1>1, <1>9, <2>3, <3>1, <3>2 DEF Loads
  <2>9. AtPage'
    <3>1. CASE navigates
      BY <1>7, <1>9, <2>1, <2>3, <3>1 DEF AtPage
    <3>2. CASE ~navigates
      BY <1>2, <1>9, <2>2, <2>3, <3>2 DEF AtPage
    <3> QED BY <3>1, <3>2
  <2>10. RequestsAreAnswerable'
    BY <1>2, <2>2, <2>3 DEF RequestsAreAnswerable
  <2>11. Answered'
    <3>1. nextId' + Due' = MaxId
      BY <1>2, <1>3, <1>4, <2>1
    <3>2. \A id \in 1..(nextId' - 1) : id = nextId \/ id \in 1..(nextId - 1)
      BY <1>3, <2>1
    <3>3. \A k \in 1..n : k \in 1..page \/ (navigates /\ k = n)
      BY <1>3
    <3> QED BY <1>2, <1>8, <1>10, <2>1, <3>1, <3>2, <3>3 DEF Answered
  <2>12. Returning'
    BY DEF Returning
  <2> QED BY <2>4, <2>5, <2>7, <2>8, <2>9, <2>10, <2>11, <2>12 DEF PageInv
<1> QED BY <1>1, <1>11, <1>12

LEMMA CommandPages == ASSUME PageInv, Command PROVE PageInv'
<1>1. /\ step = "work" /\ Good /\ left > 0 /\ TypeOK
      /\ Open({<<"send", nextId>>}) /\ awaited' = {<<"send", nextId>>} /\ Write(page, FALSE) /\ left' = left - 1
      /\ UNCHANGED <<failure, browser, owed, stream, doc, step, page, thrown, server, profile>>
  BY DEF PageInv, Command
<1>2. /\ Pages \in Nat /\ PerPage \in Nat /\ page \in 0..Pages /\ left \in Nat /\ left' \in 0..PerPage \cup 0..3
  BY <1>1, SessionAssumption, JobAssumption DEF TypeOK
<1>3. (Pages - page) * (1 + PerPage) \in Nat
  BY <1>2
<1>4. Due > 0 /\ Due' = Due - 1
  <2> DEFINE rest == (Pages - page) * (1 + PerPage)
  <2>1. Due = left + rest /\ Due' = left' + rest
    BY <1>1 DEF Due
  <2> HIDE DEF rest
  <2> QED BY <1>1, <1>2, <1>3, <2>1 DEF rest
<1> QED BY <1>1, <1>2, <1>4, AskPages

LEMMA NavigatePages == ASSUME PageInv, Navigate PROVE PageInv'
<1> DEFINE both == {<<"send", nextId>>, <<"wait", page + 1>>}
<1>1. /\ step = "work" /\ Good /\ left = 0 /\ page < Pages /\ TypeOK
      /\ Open(both) /\ awaited' = both /\ Write(page + 1, TRUE) /\ page' = page + 1 /\ left' = PerPage
      /\ UNCHANGED <<failure, browser, owed, stream, doc, step, thrown, server, profile>>
  BY DEF PageInv, Navigate
<1>2. /\ Pages \in Nat /\ PerPage \in Nat /\ page \in Nat /\ page + 1 \in 0..Pages /\ left' \in 0..PerPage \cup 0..3
  BY <1>1, SessionAssumption, JobAssumption DEF TypeOK
<1>3. Due > 0 /\ Due' = Due - 1
  <2> DEFINE more == (Pages - (page + 1)) * (1 + PerPage)
  <2>1. more \in Nat /\ (Pages - page) * (1 + PerPage) = more + (1 + PerPage)
    BY <1>2
  <2>2. Due = 0 + (Pages - page) * (1 + PerPage) /\ Due' = PerPage + more
    BY <1>1 DEF Due
  <2> HIDE DEF more
  <2> QED BY <1>2, <2>1, <2>2
<1> QED BY <1>1, <1>2, <1>3, AskPages

(* A job that has seen its last page through has everything answered.       *)
LEMMA FinishPages == ASSUME PageInv, Finish PROVE PageInv'
<1>1. step = "work" /\ Good /\ left = 0 /\ page = Pages /\ TypeOK
  BY DEF PageInv, Finish
<1>2. /\ nextId + Due = MaxId
      /\ \A id \in 1..(nextId - 1) : outcome[<<"send", id>>] = "ok"
      /\ \A n \in 1..page : outcome[<<"wait", n>>] = "loaded"
  BY <1>1, GoesOn
<1>3. Due = 0
  <2>1. Pages - page = 0 /\ 1 + PerPage \in Nat
    BY <1>1, SessionAssumption, JobAssumption
  <2>2. 0 * (1 + PerPage) = 0
    BY <2>1
  <2> QED BY <1>1, <2>1, <2>2 DEF Due
<1>4. nextId = MaxId
  BY <1>1, <1>2, <1>3, Ranges
<1>5. Complete /\ Complete'
  BY <1>1, <1>2, <1>4 DEF Complete, Finish, session
<1>6. TypeOK' /\ Returning'
  BY <1>1, <1>5 DEF Finish, TypeOK, SessionTypeOK, Returning, session, chromium
<1> QED BY <1>6, SamePages DEF Finish, chromium

(* close() asks the browser to quit: of no page, and after the rest.        *)
LEMMA ClosePages == ASSUME PageInv, Close PROVE PageInv'
<1>1. /\ step = "close" /\ step' = "grace" /\ TypeOK /\ Settlements /\ Queue /\ Loads /\ Write(0, FALSE)
      /\ requests \in Seq(Request)
      /\ UNCHANGED <<failure, open, timers, outcome, browser, owed, stream, doc, page, left, awaited, thrown, server, profile>>
  BY DEF PageInv, TypeOK, SessionTypeOK, Close
<1>2. Returning' /\ Answered' /\ AtPage'
  BY <1>1 DEF PageInv, Returning, Answered, AtPage, Complete
<1>3. InFlight' = InFlight /\ NoLoads' = NoLoads
  BY <1>1 DEF InFlight, NoLoads
<1>4. CASE failure
  <2>1. UNCHANGED <<nextId, requests>>
    BY <1>1, <1>4 DEF Write
  <2>2. TypeOK'
    BY <1>1, <2>1 DEF TypeOK, SessionTypeOK
  <2>3. UNCHANGED session
    BY <1>1, <2>1 DEF session
  <2> QED BY <1>1, <1>2, <2>1, <2>2, <2>3, SamePages
<1>5. CASE ~failure
  <2> DEFINE r == [id |-> nextId, page |-> 0, navigates |-> FALSE]
  <2>1. nextId <= MaxId /\ nextId' = nextId + 1 /\ requests' = Append(requests, r)
    BY <1>1, <1>5 DEF Write
  <2>2. nextId \in Nat \ {0} /\ MaxId \in Nat /\ Pages \in Nat /\ page \in Nat
    BY <1>1, Ranges
  <2>3. r \in Request /\ r.id = nextId /\ r.page = 0 /\ ~r.navigates
    BY <2>1, <2>2 DEF Request
  <2> HIDE DEF r
  <2>4. /\ requests' \in Seq(Request) /\ ToSet(requests') = ToSet(requests) \cup {r}
        /\ Len(requests) \in Nat /\ Len(requests') = Len(requests) + 1 /\ requests'[Len(requests) + 1] = r
        /\ \A i \in 1..Len(requests) : requests'[i] = requests[i] /\ requests[i] \in ToSet(requests)
    BY <1>1, <2>1, <2>3, Appended, Elements
  <2>5. TypeOK'
    <3>1. nextId' \in 1..(MaxId + 1)
      BY <2>1, <2>2
    <3> QED BY <1>1, <2>4, <3>1 DEF TypeOK, SessionTypeOK
  <2>6. /\ \A id \in nextId'..MaxId : id \in nextId..MaxId /\ id # nextId
        /\ \A id \in 1..(nextId - 1) : id \in 1..(nextId' - 1)
        /\ nextId \in nextId..MaxId
    BY <2>1, <2>2
  <2>7. Settlements'
    <3>1. open \subseteq ({"send"} \X (1..(nextId' - 1))) \cup ({"wait"} \X (1..page))
      BY <1>1, <2>6 DEF Settlements
    <3> QED BY <1>1, <2>6, <3>1 DEF Settlements
  <2>8. Queue'
    <3>1. outcome[<<"send", nextId>>] \notin Answers /\ \A m \in InFlight : m.to # <<"send", nextId>>
      BY <1>1, <2>6 DEF Settlements, Queue, Answers
    <3>2. \A q \in ToSet(requests) : q.id < nextId'
      <4>1. \A q \in ToSet(requests) : q.id < nextId /\ q.id \in Nat
        BY <1>1, QueuedSends DEF Queue, Request
      <4> QED BY <2>1, <2>2, <4>1
    <3>3. \A q \in ToSet(requests') : /\ q.id < nextId' /\ outcome'[<<"send", q.id>>] \notin Answers
                                      /\ q.page <= page' /\ (q.navigates => q.page > 0)
                                      /\ \A m \in InFlight' : m.to # <<"send", q.id>>
      <4>1. \A q \in ToSet(requests) : /\ outcome[<<"send", q.id>>] \notin Answers
                                       /\ q.page <= page /\ (q.navigates => q.page > 0)
                                       /\ \A m \in InFlight : m.to # <<"send", q.id>>
        BY <1>1 DEF Queue, SendOf
      <4>2. nextId < nextId' /\ 0 <= page
        BY <2>1, <2>2
      <4> SUFFICES ASSUME NEW q \in ToSet(requests')
                   PROVE  /\ q.id < nextId' /\ outcome[<<"send", q.id>>] \notin Answers
                          /\ q.page <= page /\ (q.navigates => q.page > 0)
                          /\ \A m \in InFlight : m.to # <<"send", q.id>>
        BY <1>1, <1>3
      <4>3. CASE q \in ToSet(requests)
        BY <3>2, <4>1, <4>3
      <4>4. CASE q = r
        BY <2>3, <3>1, <4>2, <4>4
      <4> QED BY <2>4, <4>3, <4>4
    <3>4. \A m \in InFlight' : \A id \in nextId'..MaxId : m.to # <<"send", id>>
      BY <1>1, <1>3, <2>6 DEF Queue
    <3>5. \A i \in 1..Len(requests') : i \in 1..Len(requests) \/ i = Len(requests) + 1
      BY <2>4
    <3>6. \A i \in 1..Len(requests) : requests[i].id # nextId
      <4>1. \A q \in ToSet(requests) : q.id < nextId /\ q.id \in Nat
        BY <1>1, QueuedSends DEF Queue, Request
      <4> QED BY <2>2, <2>4, <4>1
    <3>7. \A i, j \in 1..Len(requests') : i # j => requests'[i].id # requests'[j].id
      BY <1>1, <2>3, <2>4, <3>5, <3>6 DEF Queue
    <3>8. \A i \in 2..Len(requests') : i \in 2..Len(requests) \/ i = Len(requests) + 1
      BY <2>4
    <3>9. \A i \in 2..Len(requests') : requests'[i].page = 0
      <4>1. \A i \in 2..Len(requests) : i \in 1..Len(requests)
        BY <2>4
      <4> QED BY <1>1, <2>3, <2>4, <3>8, <4>1 DEF Queue
    <3> QED BY <1>1, <3>3, <3>4, <3>7, <3>9 DEF Queue, SendOf
  <2>9. Loads'
    BY <1>1, <1>3, <2>3, <2>4 DEF Loads
  <2>10. RequestsAreAnswerable'
    BY <1>1, <2>3, <2>4 DEF PageInv, RequestsAreAnswerable
  <2> QED BY <1>2, <2>5, <2>7, <2>8, <2>9, <2>10 DEF PageInv
<1> QED BY <1>1, <1>4, <1>5 DEF TypeOK, SessionTypeOK

LEMMA CallbackPages == ASSUME PageInv, Clean, Callback, UNCHANGED job PROVE PageInv'
<1>1. CASE \E k \in 1..Len(stream) : Receive(k)
  BY <1>1, ReceivePages
<1>2. CASE \E p \in timers : Timeout(p)
  BY <1>2, TimeoutPages
<1>3. TypeOK
  BY DEF PageInv
<1>4. CASE StartError \/ PipeError \/ CloseEvent
  BY <1>3, <1>4, FailPages DEF StartError, PipeError, CloseEvent, chromium, job, TypeOK, SessionTypeOK
<1>5. CASE ExitEvent
  <2>1. TypeOK' /\ Returning'
    BY <1>3, <1>5 DEF ExitEvent, PageInv, Returning, Complete, TypeOK, SessionTypeOK, session, job
  <2> QED BY <1>5, <2>1, SamePages DEF ExitEvent, job
<1> QED BY <1>1, <1>2, <1>4, <1>5 DEF Callback

LEMMA ContinuePages == ASSUME PageInv, Continue PROVE PageInv'
<1>1. TypeOK
  BY DEF PageInv
<1>2. CASE Throw
  <2>1. TypeOK' /\ Returning'
    BY <1>1, <1>2 DEF Throw, Returning, TypeOK, SessionTypeOK, session, chromium
  <2> QED BY <1>2, <2>1, SamePages DEF Throw, chromium
<1>3. CASE Exited
  BY <1>1, <1>3, FailPages DEF Exited, chromium, TypeOK, SessionTypeOK
<1> QED BY <1>2, <1>3, CommandPages, NavigatePages, FinishPages, ClosePages DEF Continue

LEMMA StepPages == PageInv /\ Clean /\ [Next]_vars => PageInv'
<1> SUFFICES ASSUME PageInv, Clean, [Next]_vars PROVE PageInv'
  OBVIOUS
<1>1. TypeOK
  BY DEF PageInv
<1>2. CASE Continue
  BY <1>2, ContinuePages
<1>3. CASE GraceOver
  <2>1. TypeOK' /\ Returning'
    BY <1>1, <1>3 DEF GraceOver, PageInv, Returning, Complete, TypeOK, SessionTypeOK, session
  <2> QED BY <1>3, <2>1, SamePages DEF GraceOver
<1>4. CASE ServerClosed
  <2>1. TypeOK' /\ Returning'
    BY <1>1, <1>4 DEF ServerClosed, PageInv, Returning, Complete, TypeOK, SessionTypeOK, session, chromium
  <2> QED BY <1>4, <2>1, SamePages DEF ServerClosed, chromium
<1>5. CASE Callback /\ UNCHANGED job
  BY <1>5, CallbackPages
<1>6. CASE Chromium /\ UNCHANGED job
  BY <1>6, HandlePages, EmitPages, DiePages DEF Chromium
<1>7. CASE UNCHANGED vars
  <2>1. TypeOK' /\ Returning'
    BY <1>1, <1>7 DEF vars, job, PageInv, Returning, Complete, TypeOK, SessionTypeOK, session, chromium
  <2> QED BY <1>7, <2>1, SamePages DEF vars, job, chromium
<1> QED BY <1>2, <1>3, <1>4, <1>5, <1>6, <1>7 DEF Next

THEOREM PagesAreInvariant == Spec => [](PageInv /\ Clean)
BY InitPages, InitClean, StepPages, StepClean, PTL DEF Spec

(* The variables of a session and of its job keep to their types.           *)
THEOREM JobTypes == Spec => []TypeOK
<1>1. PageInv => TypeOK
  BY DEF PageInv
<1> QED BY <1>1, PagesAreInvariant, PTL

(* measure-diagrams.mjs, capture-diagrams.mjs, print-pdf.mjs: a command     *)
(* about a page reaches the browser when that page has loaded, and a job    *)
(* that returns has had every command answered, for any number of pages.    *)
THEOREM CommandsReachLoadedPages == Spec => []ActsOnLoadedPages
<1>1. PageInv => ActsOnLoadedPages
  BY DEF PageInv, RequestsAreAnswerable, Returning, Complete, ActsOnLoadedPages
<1> QED BY <1>1, PagesAreInvariant, PTL

-----------------------------------------------------------------------------
(* Only its own timer times a wait out, and that timer is armed while the   *)
(* wait is open: the load event of a page that has loaded is still coming.  *)
LEMMA OnlyTimersTimeOut ==
  ASSUME PageInv, Clean, [Next]_vars, NEW n \in 1..Pages,
         outcome'[<<"wait", n>>] = "timeout", outcome[<<"wait", n>>] # "timeout"
  PROVE  <<"wait", n>> \in open
<1> DEFINE p == <<"wait", n>>
<1>1. /\ p \in Promises /\ p \in Waits /\ TypeOK /\ outcome' # outcome
  BY PromiseKinds DEF PageInv, Promises
<1> HIDE DEF p
<1>2. ASSUME NEW ps, Open(ps) PROVE outcome'[p] # "timeout"
  BY <1>1, <1>2 DEF Open, p
<1>3. ASSUME FailAll PROVE outcome'[p] # "timeout"
  BY <1>1, <1>3 DEF FailAll, Settle, p
<1>4. ASSUME NEW k \in 1..Len(stream), Receive(k) PROVE outcome'[p] # "timeout"
  BY <1>1, <1>4 DEF Receive, Settle, ValueIn, p
<1>5. CASE Callback
  <2>1. CASE \E q \in timers : Timeout(q)
    BY <1>1, <2>1 DEF Timeout, Settle, Clean, DeadlinesAreExact, p
  <2> QED BY <1>1, <1>3, <1>4, <1>5, <2>1 DEF Callback, StartError, PipeError, CloseEvent, ExitEvent, session, p
<1>6. CASE Continue
  BY <1>1, <1>2, <1>3, <1>6
     DEF Continue, Command, Navigate, Finish, Throw, Close, Exited, session, p
<1>7. CASE Chromium \/ GraceOver \/ ServerClosed \/ UNCHANGED vars
  BY <1>1, <1>7 DEF Chromium, Handle, Emit, Die, GraceOver, ServerClosed, vars, session
<1> QED BY <1>5, <1>6, <1>7 DEF Next

(* cdp-session.mjs: a wait whose page has loaded does not run into its      *)
(* deadline after its load event was received.                              *)
THEOREM NoLoadIsMissed == Spec => LoadIsNotMissed
<1>1. ASSUME PageInv, Clean, [Next]_vars
      PROVE  [\A n \in 1..Pages :
                /\ outcome'[<<"wait", n>>] = "timeout" /\ outcome[<<"wait", n>>] # "timeout"
                /\ doc = [page |-> n, loaded |-> TRUE]
                => Load(n) \in ToSet(stream)]_<<outcome, doc, stream>>
  <2> SUFFICES ASSUME NEW n \in 1..Pages,
                      outcome'[<<"wait", n>>] = "timeout", outcome[<<"wait", n>>] # "timeout",
                      doc = [page |-> n, loaded |-> TRUE]
               PROVE  Load(n) \in ToSet(stream)
    OBVIOUS
  <2>1. <<"wait", n>> \in open
    BY <1>1, OnlyTimersTimeOut
  <2> QED BY <1>1, <2>1 DEF PageInv, Loads
<1> QED BY <1>1, PagesAreInvariant, PTL DEF Spec, LoadIsNotMissed
=============================================================================
