--------------------------- MODULE SessionTokens ---------------------------
(* plugin/scripts/session-tokens.mjs: runs of the token counter over one       *)
(* session's transcript, which grows while they read it, and its cache file.   *)
(*                                                                             *)
(* A line of the transcript is two writes long, so a run may find half of one. *)
(* A message has one token of output: output counts messages.  Every line of a *)
(* message repeats its usage.  The sidechain files (subagentOutput) and input  *)
(* tokens, which no line shows, are left out.                                  *)
EXTENDS Naturals, Sequences, FiniteSets, JsonStore

CONSTANTS Runs,       \* invocations of the script
          Keys,       \* run ids given to --mark and --delta
          Lines,      \* what a line of the transcript can be
          NoUsage,    \* the lines that carry no usage
          NoId,       \* the usage lines without a message id
          ModelOf,    \* the model of a usage line
          Synthetic,  \* the model that is none
          WindowOf,   \* input and cache tokens of a usage line
          LimitOf,    \* declared or confirmed limits; 0 is no limit
          SeenSize,   \* SEEN_LRU_SIZE
          MaxLines    \* bound: length of the transcript

ASSUME LinesAreLines == NoUsage \subseteq Lines /\ NoId \subseteq Lines \ NoUsage
ASSUME BoundsAreNaturals == SeenSize \in Nat \ {0} /\ MaxLines \in Nat

VARIABLES transcript,  \* its complete lines
          half,        \* the line that is written by half, or None
          cache,       \* the cache file
          pc, kind, key,
          size,        \* what a run's stat said, in half lines
          local,       \* the cache object in a run's memory
          printed      \* what a run printed
tokenVars == <<transcript, half, cache, pc, kind, key, size, local, printed>>

Models == {ModelOf[l] : l \in Lines \ NoUsage} \ {Synthetic}
ASSUME WindowsAreNaturals == WindowOf \in [Lines \ NoUsage -> Nat] /\ LimitOf \in [Models -> Nat]

Size   == 2 * Len(transcript) + (IF half = None THEN 0 ELSE 1)

-----------------------------------------------------------------------------
(* Counting.  offset is a number of lines: it always follows a newline.       *)

EmptyCache == [offset |-> 0, output |-> 0, turns |-> 0, lastModel |-> None,
               last |-> [m \in Models |-> 0], observed |-> [m \in Models |-> 0],
               seen |-> <<>>, marks |-> [k \in Keys |-> None]]

\* Mutant: the ids seen are those of this run alone.
SeenInThisRunOnly(c, l) == FALSE

SeenBefore(c, l) == l \notin NoId /\ \E i \in 1..Len(c.seen) : c.seen[i] = l

MarkSeen(c, l) ==
    IF l \in NoId \/ SeenBefore(c, l) THEN c.seen
    ELSE IF Len(c.seen) = SeenSize THEN Append(Tail(c.seen), l) ELSE Append(c.seen, l)

\* Mutant: the largest window is not kept from run to run.
LargestIsTheLast(before, window) == window

Largest(before, window) == IF window > before THEN window ELSE before

CountEntry(c, l) ==
    LET once == IF SeenBefore(c, l) THEN 0 ELSE 1
        m    == ModelOf[l]
        counted == [c EXCEPT !.seen = MarkSeen(c, l), !.output = @ + once]
    IN  IF m = Synthetic THEN counted
        ELSE [counted EXCEPT !.turns = @ + once, !.lastModel = m, !.last[m] = WindowOf[l],
                             !.observed[m] = Largest(@, WindowOf[l])]

OffsetAfter(c, read) == [c EXCEPT !.offset = read \div 2]

\* The complete lines that were there when the size was taken and that no run
\* whose cache this is has counted.
Accumulate(c, read) ==
    LET upto[i \in c.offset..(read \div 2)] ==
            IF i = c.offset THEN c
            ELSE IF transcript[i] \in NoUsage THEN upto[i - 1] ELSE CountEntry(upto[i - 1], transcript[i])
    IN  IF read <= 2 * c.offset THEN c ELSE OffsetAfter(upto[read \div 2], read)

\* Mutant: a recount keeps the marks of the cache it replaces.
RecountKeepingMarks(file, read) ==
    IF Readable(file) /\ read < 2 * file.offset THEN [EmptyCache EXCEPT !.marks = file.marks]
    ELSE IF Readable(file) THEN file ELSE EmptyCache

\* No cache, a damaged one, or one that is ahead of the size taken: a recount.
LoadCache(file, read) ==
    IF Readable(file) /\ read >= 2 * file.offset THEN file ELSE EmptyCache

ResolveWindowLimit(c, m) == IF LimitOf[m] = 0 \/ c.observed[m] > LimitOf[m] THEN None ELSE LimitOf[m]

RunCost(c, mark) ==
    IF mark = None THEN [what |-> "session", output |-> c.output, turns |-> c.turns, from |-> 0, to |-> c.offset]
    ELSE [what |-> "run", output |-> c.output - mark.output, turns |-> c.turns - mark.turns,
          from |-> mark.at, to |-> c.offset]

Report(k, r, c) ==
    CASE k = "mark"  -> None
      [] k = "delta" -> RunCost(c, c.marks[key[r]])
      [] k = "menu"  -> IF c.lastModel = None THEN [what |-> "empty", to |-> c.offset]
                        ELSE [what |-> "window", window |-> c.last[c.lastModel], model |-> c.lastModel,
                              limit |-> ResolveWindowLimit(c, c.lastModel), to |-> c.offset]

-----------------------------------------------------------------------------
TokensInit == /\ transcript = <<>> /\ half = None /\ cache = NoFile
              /\ pc = [r \in Runs |-> "idle"] /\ kind = [r \in Runs |-> None] /\ key = [r \in Runs |-> None]
              /\ size = [r \in Runs |-> 0] /\ local = [r \in Runs |-> None] /\ printed = [r \in Runs |-> None]

(* The session: it appends a line in two writes.  Lines of one message are     *)
(* near each other: fewer than SeenSize messages begin between two of them.    *)
Begins(i) == transcript[i] \notin NoUsage \cup NoId /\ \A j \in 1..(i - 1) : transcript[j] # transcript[i]
TemporallyLocal(l) ==
    \A i \in 1..Len(transcript) :
        transcript[i] = l /\ l \notin NoUsage \cup NoId
            => Cardinality({j \in (i + 1)..Len(transcript) : Begins(j)}) < SeenSize

WriteHalf(l) == /\ half = None /\ Len(transcript) < MaxLines /\ TemporallyLocal(l)
                /\ half' = l
                /\ UNCHANGED <<transcript, cache, pc, kind, key, size, local, printed>>

WriteRest == /\ half # None
             /\ transcript' = Append(transcript, half) /\ half' = None
             /\ UNCHANGED <<cache, pc, kind, key, size, local, printed>>

\* readdir and stat; no transcript, or two sessions active, end the run.
Stat(r, k, id) ==
    /\ pc[r] = "idle"
    /\ kind' = [kind EXCEPT ![r] = k] /\ key' = [key EXCEPT ![r] = id]
    /\ \/ pc' = [pc EXCEPT ![r] = "load"] /\ size' = [size EXCEPT ![r] = Size]
       \/ pc' = [pc EXCEPT ![r] = "done"] /\ UNCHANGED size
    /\ UNCHANGED <<transcript, half, cache, local, printed>>

\* loadCache, accumulate and, for --mark, the snapshot.
Load(r) ==
    LET c == Accumulate(LoadCache(cache, size[r]), size[r])
        snapshot == [output |-> c.output, turns |-> c.turns, at |-> c.offset]
    IN  /\ pc[r] = "load"
        /\ local' = [local EXCEPT ![r] = IF kind[r] = "mark" THEN [c EXCEPT !.marks[key[r]] = snapshot] ELSE c]
        /\ pc' = [pc EXCEPT ![r] = "open"]
        /\ UNCHANGED <<transcript, half, cache, kind, key, size, printed>>

Open(r) == /\ pc[r] = "open"
           /\ cache' = Opened(cache)
           /\ pc' = [pc EXCEPT ![r] = "fill"]
           /\ UNCHANGED <<transcript, half, kind, key, size, local, printed>>

\* The process ends, and its memory with it.
Gone(r) == /\ pc' = [pc EXCEPT ![r] = "done"]
           /\ local' = [local EXCEPT ![r] = None] /\ size' = [size EXCEPT ![r] = 0]

Fill(r) == /\ pc[r] = "fill"
           /\ cache' \in Filled(cache, local[r])
           /\ printed' = [printed EXCEPT ![r] = Report(kind[r], r, local[r])]
           /\ Gone(r)
           /\ UNCHANGED <<transcript, half, kind, key>>

\* The host stops the process, or a call throws: fail-open, nothing printed.
CutShort(r) == /\ pc[r] \in {"load", "open", "fill"}
               /\ Gone(r)
               /\ UNCHANGED <<transcript, half, cache, kind, key, printed>>

TokensNext == \/ \E l \in Lines : WriteHalf(l)
              \/ WriteRest
              \/ \E r \in Runs : \/ \E k \in {"menu", "mark", "delta"}, id \in Keys : Stat(r, k, id)
                                 \/ Load(r) \/ Open(r) \/ Fill(r) \/ CutShort(r)

TokensSpec == TokensInit /\ [][TokensNext]_tokenVars

-----------------------------------------------------------------------------
\* Direct counts of the first n lines, with no cache and no seen set.
Upto(n)     == {i \in 1..n : transcript[i] \notin NoUsage}
Messages(n) == Cardinality({transcript[i] : i \in {j \in Upto(n) : transcript[j] \notin NoId}})
               + Cardinality({i \in Upto(n) : transcript[i] \in NoId})
Turns(n)    == Cardinality({transcript[i] : i \in {j \in Upto(n) : /\ transcript[j] \notin NoId
                                                                    /\ ModelOf[transcript[j]] # Synthetic}})
               + Cardinality({i \in Upto(n) : transcript[i] \in NoId /\ ModelOf[transcript[i]] # Synthetic})

(* "Counters are deduped by message.id": whatever runs overlap, die or find    *)
(* half a line, a readable cache counts every message of the lines before its  *)
(* offset once, and so does every mark in it.  A cost that names a mark is the *)
(* cost of exactly the lines between the mark and the delta, so it is never    *)
(* negative; without the mark it is the session's, and says so.                *)
CountsAreOfTheirLines ==
    /\ Readable(cache) =>
        /\ cache.offset <= Len(transcript)
        /\ cache.output = Messages(cache.offset) /\ cache.turns = Turns(cache.offset)
        /\ \A k \in Keys : cache.marks[k] # None =>
               cache.marks[k].output = Messages(cache.marks[k].at)
    /\ \A r \in Runs : printed[r] # None /\ kind[r] = "delta" =>
        /\ printed[r].from <= printed[r].to
        /\ printed[r].output = Messages(printed[r].to) - Messages(printed[r].from)
        /\ printed[r].turns = Turns(printed[r].to) - Turns(printed[r].from)

(* "a limit smaller than it is disproved by observation": the denominator of   *)
(* the menu line is not smaller than any window that the counted lines show    *)
(* for the model, also those that only earlier runs read; and the model is     *)
(* that of the last usage record.                                              *)
DenominatorIsNotDisproved ==
    \A r \in Runs : printed[r] # None /\ kind[r] = "menu" /\ printed[r].what = "window" =>
        LET real == {i \in Upto(printed[r].to) : ModelOf[transcript[i]] # Synthetic}
        IN  /\ \E i \in real : /\ \A j \in real : j <= i
                               /\ ModelOf[transcript[i]] = printed[r].model
                               /\ WindowOf[transcript[i]] = printed[r].window
            /\ printed[r].limit # None =>
                 \A i \in real : ModelOf[transcript[i]] = printed[r].model
                                    => WindowOf[transcript[i]] <= printed[r].limit
=============================================================================
