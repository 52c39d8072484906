----------------------------- MODULE DesignLint -----------------------------
(* plugin/scripts/design-lint.mjs --hook with the rules of design-rules.mjs:   *)
(* the PostToolUse and Stop hooks of one session lint the design/ tree and     *)
(* share the store of the findings already shown.                              *)
(*                                                                             *)
(* The content of a file is the set of its declarations.  Comments, line       *)
(* numbers and the wording of the advice are left out: a finding is its key.   *)
(* Values that agree in their first 60 characters, which is all of a raw       *)
(* declaration that a key keeps, are one value.                                *)
EXTENDS DesignRules, FiniteSets, JsonStore

CONSTANTS Hooks,        \* hook processes of the session
          Files,        \* files under design/
          KindOf,       \* "html", "app.css", "tokens.css", "fonts.css", "skipped" or "other"
          MayHold,      \* the declarations an edit may put into a file: [prop, value, var]
          LiteralOf,    \* what is written for each color
          Generic,      \* GENERIC_FAMILIES
          Intentional   \* lint-intentional.json: [value, files], files = {} is all

ASSUME FilesHaveKinds == \A f \in Files : 
                       KindOf[f] \in {"html", "app.css", "tokens.css", "fonts.css", "skipped", "other"}
ASSUME NoStoreIsNoText == None \notin {NoFile, Torn}

VARIABLES design,   \* the declarations of each file
          store,    \* the session's store, None if its id cannot name one (storePath)
          at, job,  \* each hook's next step and what started it
          found,    \* what a hook found
          toShow,   \* what of it it shows
          keys,     \* the keys a hook is about to write
          shown,    \* every finding shown in the session so far
          again,    \* findings a Stop hook showed although they had been shown
          lapsed    \* a hook was cut short or ran beside another, or the store was
                    \* lost, not read or not written
lintVars == <<design, store, at, job, found, toShow, keys, shown, again, lapsed>>

-----------------------------------------------------------------------------
(* The rules. *)

Of(f, prop) == {d \in design[f] : d.prop = prop}

\* The project's truth: what the custom properties and the font faces declare.
Declares(kind, prop) == {d.value : d \in UNION {Of(f, prop) : f \in {g \in Files : KindOf[g] = kind}}}
ParseTokens    == [colors |-> Declares("tokens.css", "color"), fontSizes |-> Declares("tokens.css", "size")]
ParseFontFaces == Declares("fonts.css", "family")

\* A literal that parseColor does not know has to be in the palette as it is.
ColorOf(v)   == ParseColor(LiteralOf[v])
InPalette(v) == IF ColorOf(v) = NoColor THEN v \in ParseTokens.colors
                ELSE \E p \in ParseTokens.colors : ColorOf(p) # NoColor /\ ColorsMatch(ColorOf(p), ColorOf(v))

IsIntentional(f, value) == \E e \in Intentional : e.value = value /\ (e.files = {} \/ f \in e.files)

Finding(name, f, essence) == [name |-> name, file |-> f, essence |-> essence]

\* A raw hex color is raw beside a var() as well; a px value is not.
ScanRawValues(f) ==
    {Finding("RAW-HEX", f, d.value) : d \in {x \in Of(f, "color") : LiteralOf[x.value][1] = "hex"}}
    \cup {Finding("RAW-PX", f, d.value) : d \in {x \in Of(f, "px") : ~x.var}}

ForeignFamilies(f, name) ==
    {Finding(name, f, d.value) : d \in {x \in Of(f, "family") : x.value \notin ParseFontFaces \cup Generic}}

LintHtml(f) ==
    {x \in ScanRawValues(f) \cup ForeignFamilies(f, "SECOND-FAMILY") : ~IsIntentional(f, x.essence)}
    \cup {Finding("EM-DASH-OVERUSE", f, "saturation") : d \in Of(f, "dashes")}

LintAppCss(f) ==
    LET foreign == {x \in Of(f, "color") : ~InPalette(x.value)}
        offScale == {x \in Of(f, "size") : ~x.var /\ x.value \notin ParseTokens.fontSizes}
    IN  {x \in {Finding("FOREIGN-COLOR", f, d.value) : d \in foreign}
               \cup {Finding("FOREIGN-FONT-SIZE", f, d.value) : d \in offScale}
               \cup ForeignFamilies(f, "FOREIGN-FONT-FAMILY") : ~IsIntentional(f, x.essence)}

FindDuplicateTokens(f) == {Finding("DUPLICATE-TOKEN", f, d.value) : d \in Of(f, "declared twice")}

LintFile(f) == CASE KindOf[f] = "tokens.css" -> FindDuplicateTokens(f)
                 [] KindOf[f] = "app.css"    -> LintAppCss(f)
                 [] KindOf[f] = "html"       -> LintHtml(f)
                 [] OTHER                    -> {}

LintAll == UNION {LintFile(f) : f \in Files}

\* JSON null is no list of keys either.
ReadSeen(file) == IF Readable(file) /\ file # None THEN file ELSE {}

WhatIsRead    == {ReadSeen(store), {}}   \* nothing, when it cannot be read
HasRead(seen) == lapsed' = (lapsed \/ seen # ReadSeen(store))

-----------------------------------------------------------------------------
LintInit == /\ design = [f \in Files |-> {}] /\ store \in {NoFile, None}
            /\ at = [h \in Hooks |-> "idle"] /\ job = [h \in Hooks |-> None]
            /\ found = [h \in Hooks |-> {}] /\ toShow = [h \in Hooks |-> {}] /\ keys = [h \in Hooks |-> {}]
            /\ shown = {} /\ again = {} /\ lapsed = FALSE

Running(h) == at[h] \in {"subtract", "show", "record", "open", "write"}

\* A person or an agent edits a file.
Edit(f, d) == /\ design' = [design EXCEPT ![f] = IF d \in @ THEN @ \ {d} ELSE @ \cup {d}]
              /\ UNCHANGED <<store, at, job, found, toShow, keys, shown, again, lapsed>>

Begin(h, why, findings) ==
    /\ at[h] = "idle"
    /\ job' = [job EXCEPT ![h] = why] /\ found' = [found EXCEPT ![h] = findings]
    /\ toShow' = [toShow EXCEPT ![h] = findings]
    /\ at' = [at EXCEPT ![h] = IF findings = {} THEN "done"
                               ELSE IF why = "Stop" /\ store # None THEN "subtract" ELSE "show"]
    /\ lapsed' = (lapsed \/ (findings # {} /\ \E g \in Hooks : Running(g)))
    /\ UNCHANGED <<design, store, keys, shown, again>>

PostToolUse(h, f) == Begin(h, "PostToolUse", LintFile(f))
Stop(h)           == Begin(h, "Stop", LintAll)

\* Mutant: the same essence in another file counts as seen.
SubtractByEssence(findings, seen) == {x \in findings : \A y \in seen : y.essence # x.essence}

NotSeen(findings, seen) == findings \ seen

\* Stop leaves out what the store has.
Subtract(h) == \E seen \in WhatIsRead :
                 LET rest == NotSeen(found[h], seen)
                 IN  /\ at[h] = "subtract"
                     /\ HasRead(seen)
                     /\ toShow' = [toShow EXCEPT ![h] = rest]
                     /\ at' = [at EXCEPT ![h] = IF rest = {} THEN "done" ELSE "show"]
                     /\ UNCHANGED <<design, store, job, found, keys, shown, again>>

\* The process ends, and its memory with it.
Ended(h, how) == /\ at' = [at EXCEPT ![h] = how]
                 /\ toShow' = [toShow EXCEPT ![h] = {}] /\ keys' = [keys EXCEPT ![h] = {}]

\* A hook without a store ends here.
Show(h) == /\ at[h] = "show"
           /\ shown' = shown \cup toShow[h]
           /\ again' = IF job[h] = "Stop" THEN again \cup (toShow[h] \cap shown) ELSE again
           /\ IF store = None THEN Ended(h, "done")
              ELSE at' = [at EXCEPT ![h] = "record"] /\ UNCHANGED <<toShow, keys>>
           /\ UNCHANGED <<design, store, job, found, lapsed>>

\* Mutant: only what the edits showed is recorded.
RecordEditsOnly(h, seen) == IF job[h] = "Stop" THEN seen ELSE seen \cup toShow[h]

Recorded(h, seen) == seen \cup toShow[h]

\* The store is read again, and then opened for writing.
Record(h) == \E seen \in WhatIsRead :
               /\ at[h] = "record"
               /\ HasRead(seen)
               /\ keys' = [keys EXCEPT ![h] = Recorded(h, seen)]
               /\ at' = [at EXCEPT ![h] = "open"]
               /\ UNCHANGED <<design, store, job, found, toShow, shown, again>>

\* writeSeen: a write that fails, at the open or after it, goes unnoticed.
OpenStore(h) == /\ at[h] = "open"
                /\ \/ /\ store' = Opened(store)
                      /\ at' = [at EXCEPT ![h] = "write"]
                      /\ UNCHANGED <<toShow, keys, lapsed>>
                   \/ Ended(h, "done") /\ lapsed' = TRUE /\ UNCHANGED store
                /\ UNCHANGED <<design, job, found, shown, again>>

WriteSeen(h) == /\ at[h] = "write"
                /\ \/ store' \in Filled(store, keys[h]) /\ UNCHANGED lapsed
                   \/ store' \in Unfilled(store) /\ lapsed' = TRUE
                /\ Ended(h, "done")
                /\ UNCHANGED <<design, job, found, shown, again>>

\* The host's timeout for the hook.
TimeOut(h) == /\ Running(h)
              /\ Ended(h, "cut") /\ lapsed' = TRUE
              /\ UNCHANGED <<design, store, job, found, shown, again>>

\* The temp directory is swept.
Swept == /\ store \notin {None, NoFile}
         /\ store' = NoFile /\ lapsed' = TRUE
         /\ UNCHANGED <<design, at, job, found, toShow, keys, shown, again>>

LintNext == \/ Swept
            \/ \E f \in Files : \E d \in MayHold[f] : Edit(f, d)
            \/ \E h \in Hooks : \/ \E f \in Files : PostToolUse(h, f)
                                \/ Stop(h) \/ Subtract(h) \/ Show(h) \/ Record(h)
                                \/ OpenStore(h) \/ WriteSeen(h) \/ TimeOut(h)

LintSpec == LintInit /\ [][LintNext]_lintVars

-----------------------------------------------------------------------------
(* "advice may repeat, nothing breaks": whatever hooks overlap, are cut short  *)
(* or damage the store, a hook that ran to its end leaves no finding behind    *)
(* that the session has not shown: what Stop subtracts was said before.        *)
NothingIsSwallowed == \A h \in Hooks : at[h] = "done" => found[h] \subseteq shown

(* "Stop subtracts them so the deep pass never repeats what per-edit passes    *)
(* already said", but that a failed write "only means the advice may repeat    *)
(* later" and that without a usable session_id "advice repeats": a repetition  *)
(* needs one of these, a store that was lost or not read, or a hook that       *)
(* overlapped another or was cut short between showing and recording.          *)
RepeatsOnlyAfterALapse == again # {} => lapsed \/ store = None
=============================================================================
