---------------------------- MODULE ScriptProofs ----------------------------
(* Four of the scripts, for any mutations, guards, hooks, files, pages and     *)
(* projects: what the guard prover calls proven is proven and gone from the    *)
(* tree, what the design lint leaves out was said before, a page that the      *)
(* etalon checker passes is one tree, and the labels and anchors of a project  *)
(* map are with their files.                                                   *)
EXTENDS GuardProver, DesignLint, DesignEtalon, ProjectGraph, FiniteSetTheorems, WellFoundedInduction, TLAPS

-----------------------------------------------------------------------------
(* The guard prover.                                                           *)

(* The places at which a mutation is being tried.                              *)
Trying == {"guard", "restore", "read back"}

ProverTypes ==
    /\ current \in 1..(Len(Mutations) + 1)
    /\ tree \in [Places -> [mutated : SUBSET DOMAIN PlaceOf, edited : BOOLEAN]]
    /\ step \in Trying => current \in 1..Len(Mutations)

(* A mutation is in the tree alone, in its own file, between its write and its *)
(* restore, or when this did not come about.                                   *)
OneInFlight ==
    \A p \in Places : tree[p].mutated # {} =>
        step \in {"guard", "restore", "killed", "unrestored"} /\ p = PlaceOf[Flying] /\ tree[p].mutated = {Flying}

(* What was read before the mutation held none, so restoring it removes this.  *)
OriginalIsClean ==
    step \in Trying => original \in [mutated : {{}}, edited : BOOLEAN]

(* A guard names only what the tree carries; a mutation that did not fail was  *)
(* named.                                                                      *)
VerdictsAreEarned ==
    /\ step \in Trying => AnchorIsUsable(Flying)
    /\ step \in {"restore", "read back"} /\ guard = "named" => Flying \in caught
    /\ failed = {} => \A n \in 1..(current - 1) : Mutations[n] \in caught /\ AnchorIsUsable(Mutations[n])

(* The exit status is given once, and nothing moves after it.                  *)
ExitIsLast ==
    /\ step # "exited" => exitCode # 0
    /\ exitCode = 0 => failed = {} /\ current = Len(Mutations) + 1 /\ GitTreeSnapshot = before

ProverInv == ProverTypes /\ OneInFlight /\ OriginalIsClean /\ VerdictsAreEarned /\ ExitIsLast

LEMMA FlyingIsAMutation ==
    ASSUME ProverTypes, current \in 1..Len(Mutations)
    PROVE  Flying \in DOMAIN PlaceOf /\ PlaceOf[Flying] \in Places
  BY MutationsAreAList, MutationsAreOfFiles DEF Flying

LEMMA ProverInvInitially == ProverInit => ProverInv
<1>1. Len(Mutations) \in Nat
  BY MutationsAreAList
<1> QED
  BY <1>1 DEF ProverInit, ProverInv, ProverTypes, OneInFlight, OriginalIsClean, VerdictsAreEarned, ExitIsLast, Trying

(* A step that leaves the tree and the mutation in flight, and that earns what *)
(* the exit status and a new place say.                                        *)
LEMMA TreeStands ==
    ASSUME ProverInv, UNCHANGED <<caught, tree, current, failed>>,
           step' \in {"guard", "restore"} => step \in {"guard", "restore"},
           step' \in Trying => step \in Trying /\ UNCHANGED original,
           step \in {"guard", "restore", "killed", "unrestored"} => step' \in {"guard", "restore", "killed", "unrestored"},
           step' \in {"restore", "read back"} /\ guard' = "named" => Flying \in caught,
           ExitIsLast'
    PROVE  ProverInv'
<1>1. ProverTypes' /\ OriginalIsClean'
  BY DEF ProverInv, ProverTypes, OriginalIsClean, Trying
<1>2. OneInFlight'
  BY DEF ProverInv, OneInFlight, Flying
<1>3. VerdictsAreEarned'
  BY DEF ProverInv, VerdictsAreEarned, Flying, AnchorIsUsable
<1> QED
  BY <1>1, <1>2, <1>3 DEF ProverInv

LEMMA ProverInvStep == ProverInv /\ [ProverNext]_proverVars => ProverInv'
<1> SUFFICES ASSUME ProverInv, [ProverNext]_proverVars PROVE ProverInv'
  OBVIOUS
<1>len. Len(Mutations) \in Nat
  BY MutationsAreAList
<1>1. CASE MalformedCall
  <2>1. ExitIsLast'
    BY <1>1 DEF MalformedCall, Exit, ExitIsLast, ProverInv
  <2> QED
    BY <1>1, <2>1, TreeStands DEF MalformedCall, Exit, Trying
<1>2. CASE Baseline
  <2>1. step = "start" /\ UNCHANGED <<caught, current, tree, original, failed>>
    BY <1>2 DEF Baseline
  <2>2. \/ step' = "exited" /\ exitCode' \in {1, 2}
        \/ step' = "next" /\ exitCode' = exitCode
    BY <1>2 DEF Baseline, Exit
  <2>3. ExitIsLast'
    BY <2>1, <2>2 DEF ExitIsLast, ProverInv
  <2> QED
    BY <2>1, <2>2, <2>3, TreeStands DEF Trying
<1>3. CASE Skip
  <2>1. /\ step = "next" /\ current \in 1..Len(Mutations) /\ current' = current + 1 /\ failed' # {}
        /\ UNCHANGED <<caught, step, tree, original, guard, before, exitCode>>
    BY <1>3, <1>len DEF Skip, ProverInv, ProverTypes
  <2>2. ProverTypes' /\ OriginalIsClean' /\ VerdictsAreEarned'
    BY <1>len, <2>1 DEF ProverInv, ProverTypes, OriginalIsClean, VerdictsAreEarned, Trying
  <2>3. OneInFlight'
    BY <2>1 DEF ProverInv, OneInFlight
  <2>4. ExitIsLast'
    BY <2>1 DEF ProverInv, ExitIsLast
  <2> QED
    BY <2>2, <2>3, <2>4 DEF ProverInv
<1>4. CASE Mutate
  <2> DEFINE p == PlaceOf[Flying]
  <2>1. /\ step = "next" /\ current \in 1..Len(Mutations) /\ AnchorIsUsable(Flying)
        /\ original' = tree[p] /\ tree' = [tree EXCEPT ![p].mutated = @ \cup {Flying}]
        /\ UNCHANGED <<caught, current, failed, before, exitCode>>
    <3>1. current \in 1..Len(Mutations)
      <4>1. current \in 1..(Len(Mutations) + 1) /\ current <= Len(Mutations)
        BY <1>4, Zenon DEF Mutate, ProverInv, ProverTypes
      <4> QED
        BY <4>1, <1>len
    <3> QED
      BY <1>4, <3>1, Zenon DEF Mutate
  <2>2. step' = "guard" \/ (step' = "restore" /\ guard' = "write failed")
    BY <1>4 DEF Mutate
  <2>3. Flying \in DOMAIN PlaceOf /\ p \in Places
    BY <2>1, FlyingIsAMutation DEF ProverInv
  <2>4. \A q \in Places : tree[q].mutated = {}
    BY <2>1 DEF ProverInv, OneInFlight
  <2>5. /\ tree' \in [Places -> [mutated : SUBSET DOMAIN PlaceOf, edited : BOOLEAN]]
        /\ tree'[p].mutated = {Flying} /\ \A q \in Places \ {p} : tree'[q].mutated = {}
    BY <2>1, <2>3, <2>4 DEF ProverInv, ProverTypes
  <2>6. original' \in [mutated : {{}}, edited : BOOLEAN]
    BY <2>1, <2>3, <2>4 DEF ProverInv, ProverTypes
  <2>7. Flying' = Flying
    BY <2>1 DEF Flying
  <2>8. ProverTypes' /\ OriginalIsClean'
    BY <2>1, <2>2, <2>5, <2>6 DEF ProverInv, ProverTypes, OriginalIsClean, Trying
  <2>9. OneInFlight'
    BY <2>2, <2>5, <2>7 DEF OneInFlight
  <2>10. VerdictsAreEarned'
    BY <2>1, <2>2 DEF ProverInv, VerdictsAreEarned, Flying, AnchorIsUsable
  <2>11. ExitIsLast'
    BY <2>1, <2>2 DEF ProverInv, ExitIsLast
  <2> QED
    BY <2>8, <2>9, <2>10, <2>11 DEF ProverInv
<1>5. CASE RunGuard
  <2>1. /\ step = "guard" /\ step' = "restore" /\ guard' \in Answers
        /\ UNCHANGED <<caught, current, tree, original, failed, before, exitCode>>
    BY <1>5 DEF RunGuard
  <2>2. guard' = "named" => (UNION {tree[p].mutated : p \in Places}) \cap caught # {}
    <3> DEFINE carried == UNION {tree[p].mutated : p \in Places}
    <3>1. guard' \in {"interrupted", "timeout", "no start", "other", "green"}
            \cup (IF carried \cap caught # {} THEN {"named"} ELSE {})
      BY <2>1, Zenon DEF Answers
    <3> HIDE DEF carried
    <3>2. guard' = "named" => carried \cap caught # {}
      BY <3>1
    <3> QED
      BY <3>2 DEF carried
  <2>3. guard' = "named" => Flying \in caught
    <3>1. \A p \in Places : tree[p].mutated \subseteq {Flying}
      BY DEF ProverInv, OneInFlight
    <3> QED
      BY <2>2, <3>1
  <2>4. ExitIsLast'
    BY <2>1 DEF ProverInv, ExitIsLast
  <2> QED
    BY <2>1, <2>3, <2>4, TreeStands DEF Trying
<1>6. CASE Restore
  <2>1. /\ step = "restore"
        /\ UNCHANGED <<caught, current, original, guard, failed, before>>
    BY <1>6 DEF Restore
  <2>2. Flying \in DOMAIN PlaceOf /\ PlaceOf[Flying] \in Places
    BY <2>1, FlyingIsAMutation DEF ProverInv, ProverTypes, Trying
  <2>3. original \in [mutated : {{}}, edited : BOOLEAN]
    BY <2>1 DEF ProverInv, OriginalIsClean, Trying
  <2>4. \A q \in Places \ {PlaceOf[Flying]} : tree[q].mutated = {}
    BY DEF ProverInv, OneInFlight
  <2>5. VerdictsAreEarned' /\ Flying' = Flying
    BY <2>1, <1>6 DEF ProverInv, VerdictsAreEarned, Flying, AnchorIsUsable, Trying, Restore
  <2>6. CASE step' = "read back"
    <3>1. tree' = [tree EXCEPT ![PlaceOf[Flying]] = original] /\ exitCode' = exitCode
      BY <1>6, <2>6 DEF Restore, Restored
    <3>2. /\ tree' \in [Places -> [mutated : SUBSET DOMAIN PlaceOf, edited : BOOLEAN]]
          /\ \A q \in Places : tree'[q].mutated = {}
      BY <3>1, <2>2, <2>3, <2>4 DEF ProverInv, ProverTypes
    <3>3. ProverTypes' /\ OriginalIsClean' /\ OneInFlight'
      BY <2>1, <2>6, <3>2 DEF ProverInv, ProverTypes, OriginalIsClean, OneInFlight, Trying
    <3>4. ExitIsLast'
      BY <2>1, <2>6, <3>1 DEF ProverInv, ExitIsLast
    <3> QED
      BY <2>5, <3>3, <3>4 DEF ProverInv
  <2>7. CASE step' = "unrestored"
    <3>1. /\ exitCode' = 1
          /\ \E left \in {tree[PlaceOf[Flying]], [mutated |-> {}, edited |-> TRUE]} :
               tree' = [tree EXCEPT ![PlaceOf[Flying]] = left]
      BY <1>6, <2>7 DEF Restore
    <3>2. /\ tree' \in [Places -> [mutated : SUBSET DOMAIN PlaceOf, edited : BOOLEAN]]
          /\ \A q \in Places : tree'[q].mutated \in {{}, tree[q].mutated}
      <4>1. PICK left \in {tree[PlaceOf[Flying]], [mutated |-> {}, edited |-> TRUE]} :
                   tree' = [tree EXCEPT ![PlaceOf[Flying]] = left]
        BY <3>1
      <4>2. left \in [mutated : SUBSET DOMAIN PlaceOf, edited : BOOLEAN]
        <5>1. tree[PlaceOf[Flying]] \in [mutated : SUBSET DOMAIN PlaceOf, edited : BOOLEAN]
          BY <2>2 DEF ProverInv, ProverTypes
        <5>2. [mutated |-> {}, edited |-> TRUE] \in [mutated : SUBSET DOMAIN PlaceOf, edited : BOOLEAN]
          OBVIOUS
        <5> QED
          BY <4>1, <5>1, <5>2
      <4> QED
        BY <4>1, <4>2, <2>2 DEF ProverInv, ProverTypes
    <3>3. ProverTypes' /\ OriginalIsClean'
      BY <2>1, <2>7, <3>2 DEF ProverInv, ProverTypes, OriginalIsClean, Trying
    <3>4. OneInFlight'
      BY <2>5, <2>7, <3>2 DEF ProverInv, OneInFlight
    <3>5. ExitIsLast'
      BY <2>7, <3>1 DEF ExitIsLast
    <3> QED
      BY <2>5, <3>3, <3>4, <3>5 DEF ProverInv
  <2> QED
    BY <1>6, <2>6, <2>7 DEF Restore
<1>7. CASE ReadBack
  <2>1. step = "read back" /\ UNCHANGED <<caught, tree, original, guard, before>>
    BY <1>7 DEF ReadBack
  <2>2. CASE step' = "exited"
    <3>1. exitCode' \in {1, 130} /\ UNCHANGED <<current, failed>>
      BY <1>7, <2>2 DEF ReadBack, Exit
    <3>2. ExitIsLast'
      BY <2>2, <3>1 DEF ExitIsLast
    <3> QED
      BY <2>1, <2>2, <3>1, <3>2, TreeStands DEF Trying
  <2>3. CASE step' # "exited"
    <3>1. /\ step' = "next" /\ current' = current + 1 /\ exitCode' = exitCode
          /\ failed' = IF guard = "named" THEN failed ELSE failed \cup {Flying}
      BY <1>7, <2>3 DEF ReadBack, Proves, Exit
    <3>2. current \in 1..Len(Mutations)
      BY <2>1 DEF ProverInv, ProverTypes, Trying
    <3>3. failed' = {} => failed = {} /\ Flying \in caught /\ AnchorIsUsable(Flying)
      BY <2>1, <3>1 DEF ProverInv, VerdictsAreEarned, Trying
    <3>4. \A n \in 1..(current' - 1) : n \in 1..(current - 1) \/ n = current
      BY <3>1, <3>2, <1>len
    <3>5. failed' = {} => \A n \in 1..(current' - 1) : Mutations[n] \in caught /\ AnchorIsUsable(Mutations[n])
      BY <3>3, <3>4 DEF Flying, ProverInv, VerdictsAreEarned
    <3>6. ProverTypes' /\ OriginalIsClean'
      <4>1. current' \in 1..(Len(Mutations) + 1)
        BY <1>len, <3>1, <3>2
      <4> QED
        BY <2>1, <3>1, <4>1 DEF ProverInv, ProverTypes, OriginalIsClean, Trying
    <3>7. OneInFlight'
      BY <2>1, <3>1 DEF ProverInv, OneInFlight
    <3>8. VerdictsAreEarned'
      BY <2>1, <3>1, <3>5 DEF VerdictsAreEarned, Trying, AnchorIsUsable
    <3>9. ExitIsLast'
      BY <2>1, <3>1 DEF ProverInv, ExitIsLast
    <3> QED
      BY <3>6, <3>7, <3>8, <3>9 DEF ProverInv
  <2> QED
    BY <2>2, <2>3
<1>8. CASE Afterwards
  <2>1. /\ step = "next" /\ step' = "exited" /\ UNCHANGED <<caught, current, tree, original, failed, before>>
        /\ current = Len(Mutations) + 1
        /\ exitCode' = 0 => failed = {} /\ GitTreeSnapshot = before
    BY <1>8, <1>len DEF Afterwards, Exit, ProverInv, ProverTypes
  <2>2. GitTreeSnapshot' = GitTreeSnapshot
    BY <2>1 DEF GitTreeSnapshot
  <2>3. ExitIsLast'
    BY <2>1, <2>2 DEF ExitIsLast
  <2> QED
    BY <2>1, <2>3, TreeStands DEF Trying
<1>9. CASE Signal
  <2>1. ExitIsLast'
    BY <1>9 DEF Signal, ExitIsLast, ProverInv, ProverOver
  <2> QED
    BY <1>9, <2>1, TreeStands DEF Signal, ProverInv, VerdictsAreEarned
<1>10. CASE KillProver
  <2>1. ExitIsLast'
    BY <1>10 DEF KillProver, ExitIsLast, ProverInv, ProverOver
  <2> QED
    BY <1>10, <2>1, TreeStands DEF KillProver, Trying
<1>11. ASSUME NEW p \in Places, OutsideEdit(p) PROVE ProverInv'
  <2>1. step \notin ProverOver /\ UNCHANGED <<caught, step, current, original, guard, failed, before, exitCode>>
    BY <1>11 DEF OutsideEdit
  <2>2. PICK kept \in {{}, tree[p].mutated} : tree' = [tree EXCEPT ![p] = [mutated |-> kept, edited |-> TRUE]]
    BY <1>11 DEF OutsideEdit
  <2>3. /\ tree' \in [Places -> [mutated : SUBSET DOMAIN PlaceOf, edited : BOOLEAN]]
        /\ \A q \in Places : tree'[q].mutated \in {{}, tree[q].mutated}
    BY <2>2 DEF ProverInv, ProverTypes
  <2>4. ProverTypes' /\ OriginalIsClean'
    BY <2>1, <2>3 DEF ProverInv, ProverTypes, OriginalIsClean, Trying
  <2>5. OneInFlight'
    BY <2>1, <2>3 DEF ProverInv, OneInFlight, Flying
  <2>6. VerdictsAreEarned'
    BY <2>1 DEF ProverInv, VerdictsAreEarned, Flying, AnchorIsUsable, Trying
  <2>7. ExitIsLast'
    BY <2>1 DEF ProverInv, ExitIsLast, ProverOver
  <2> QED
    BY <2>4, <2>5, <2>6, <2>7 DEF ProverInv
<1>12. CASE UNCHANGED proverVars
  <2>1. ExitIsLast'
    BY <1>12 DEF proverVars, ExitIsLast, ProverInv, GitTreeSnapshot
  <2> QED
    BY <1>12, <2>1, TreeStands DEF proverVars, ProverInv, VerdictsAreEarned
<1> QED
  BY <1>1, <1>2, <1>3, <1>4, <1>5, <1>6, <1>7, <1>8, <1>9, <1>10, <1>11, <1>12 DEF ProverNext

(* Short of a kill, and of a restore that cannot be written, a mutation is in  *)
(* the tree only while it is tried, in its own file and alone; exit 0 is given *)
(* only when the guard named every one and the tree is the one before, whoever *)
(* edits it meanwhile.                                                         *)
THEOREM MutationsProvenAndGone == ProverSpec => []MutationsAreProvenAndGone
<1>1. ProverInv => MutationsAreProvenAndGone
  <2>1. Len(Mutations) \in Nat
    BY MutationsAreAList
  <2> SUFFICES ASSUME ProverInv PROVE MutationsAreProvenAndGone
    OBVIOUS
  <2>2. exitCode = 0 => \A n \in 1..Len(Mutations) : Mutations[n] \in caught /\ AnchorIsUsable(Mutations[n])
    <3>1. exitCode = 0 => failed = {} /\ current - 1 = Len(Mutations)
      BY <2>1 DEF ProverInv, ExitIsLast
    <3> QED
      BY <3>1 DEF ProverInv, VerdictsAreEarned
  <2> QED
    BY <2>2 DEF ProverInv, OneInFlight, ExitIsLast, MutationsAreProvenAndGone
<1> QED
  BY <1>1, ProverInvInitially, ProverInvStep, PTL DEF ProverSpec

-----------------------------------------------------------------------------
(* The design lint.                                                            *)

(* Every finding there can be; a store of some is a JSON text that reads back. *)
Codes    == {"RAW-HEX", "RAW-PX", "SECOND-FAMILY", "EM-DASH-OVERUSE", "FOREIGN-COLOR",
             "FOREIGN-FONT-SIZE", "FOREIGN-FONT-FAMILY", "DUPLICATE-TOKEN"}
Declarations == UNION {MayHold[f] : f \in Files}
Essences == {d.value : d \in Declarations} \cup {"saturation"}
Findings == [name : Codes, file : Files, essence : Essences]

StoresReadBack == \A seen \in SUBSET Findings : Readable(seen) /\ seen # None

LintTypes ==
    /\ design \in [Files -> SUBSET Declarations]
    /\ at \in [Hooks -> {"idle", "subtract", "show", "record", "open", "write", "done", "cut"}]
    /\ found \in [Hooks -> SUBSET Findings] /\ toShow \in [Hooks -> SUBSET Findings]
    /\ keys \in [Hooks -> SUBSET Findings] /\ shown \in SUBSET Findings
    /\ job \in [Hooks -> {None, "Stop", "PostToolUse"}]
    /\ lapsed \in BOOLEAN

(* Only what was shown is ever recorded, and what a hook does not show is in   *)
(* the store that it read.                                                     *)
Said(h) ==
    /\ at[h] = "show" => found[h] \ toShow[h] \subseteq shown
    /\ at[h] \in {"record", "open", "write", "done"} => found[h] \subseteq shown
    /\ at[h] = "record" => toShow[h] \subseteq shown
    /\ at[h] \in {"open", "write"} => keys[h] \subseteq shown
NothingUnsaid == ReadSeen(store) \subseteq shown /\ \A h \in Hooks : Said(h)

(* Without a store no hook comes to its reading or writing.                    *)
Storeless == store = None => \A h \in Hooks : at[h] \notin {"subtract", "record", "open", "write"}

(* Until a lapse, one hook at most is at work, and between two of them the     *)
(* store, if there is one, is all that was shown.                              *)
OneAtWork == ~lapsed => \A g, h \in Hooks : Running(g) /\ Running(h) => g = h
InStep(h) ==
    /\ at[h] \in {"subtract", "show"} => ReadSeen(store) = shown
    /\ at[h] = "show" /\ job[h] = "Stop" => toShow[h] \cap shown = {}
    /\ at[h] = "record" => ReadSeen(store) \cup toShow[h] = shown
    /\ at[h] \in {"open", "write"} => keys[h] = shown
    /\ at[h] = "write" => store = NoFile
InOrder == ~lapsed /\ store # None
StoreIsShown ==
    InOrder => /\ (\A h \in Hooks : ~Running(h)) => ReadSeen(store) = shown
               /\ \A h \in Hooks : InStep(h)

LintInv == LintTypes /\ NothingUnsaid
RaceInv == Storeless /\ OneAtWork /\ StoreIsShown /\ RepeatsOnlyAfterALapse

(* The rules find only findings.                                               *)
LEMMA RulesFindFindings ==
    ASSUME LintTypes, NEW f \in Files PROVE LintFile(f) \in SUBSET Findings
<1>1. \A prop : Of(f, prop) \subseteq Declarations
  BY DEF LintTypes, Of
<1>2. \A prop : \A d \in Of(f, prop) : d.value \in Essences
  BY <1>1 DEF Essences
<1>3. \A code \in Codes, e \in Essences : Finding(code, f, e) \in Findings
  BY DEF Finding, Findings
<1>4. ScanRawValues(f) \subseteq Findings
  <2>1. "RAW-HEX" \in Codes /\ "RAW-PX" \in Codes
    BY DEF Codes
  <2> QED
    BY <1>2, <1>3, <2>1 DEF ScanRawValues
<1>5. ASSUME NEW code \in Codes PROVE ForeignFamilies(f, code) \subseteq Findings
  BY <1>2, <1>3 DEF ForeignFamilies
<1>6. LintHtml(f) \subseteq Findings
  <2>1. "SECOND-FAMILY" \in Codes /\ "EM-DASH-OVERUSE" \in Codes /\ "saturation" \in Essences
    BY DEF Codes, Essences
  <2>2. ForeignFamilies(f, "SECOND-FAMILY") \subseteq Findings /\ Finding("EM-DASH-OVERUSE", f, "saturation") \in Findings
    BY <1>3, <1>5, <2>1
  <2> QED
    BY <1>4, <2>2 DEF LintHtml
<1>7. LintAppCss(f) \subseteq Findings
  <2>1. "FOREIGN-COLOR" \in Codes /\ "FOREIGN-FONT-SIZE" \in Codes /\ "FOREIGN-FONT-FAMILY" \in Codes
    BY DEF Codes
  <2>2. ForeignFamilies(f, "FOREIGN-FONT-FAMILY") \subseteq Findings
    BY <1>5, <2>1
  <2>3. \A d \in Of(f, "color") : Finding("FOREIGN-COLOR", f, d.value) \in Findings
    BY <1>2, <1>3, <2>1
  <2>4. \A d \in Of(f, "size") : Finding("FOREIGN-FONT-SIZE", f, d.value) \in Findings
    BY <1>2, <1>3, <2>1
  <2> QED
    BY <2>2, <2>3, <2>4 DEF LintAppCss
<1>8. FindDuplicateTokens(f) \subseteq Findings
  <2>1. "DUPLICATE-TOKEN" \in Codes
    BY DEF Codes
  <2> QED
    BY <1>2, <1>3, <2>1 DEF FindDuplicateTokens
<1> QED
  BY <1>6, <1>7, <1>8, Zenon DEF LintFile

LEMMA AllFindFindings == ASSUME LintTypes PROVE LintAll \in SUBSET Findings
  BY RulesFindFindings DEF LintAll

LEMMA LintInvInitially == LintInit => LintInv
  BY DEF LintInit, LintInv, LintTypes, NothingUnsaid, Said, ReadSeen, Readable

LEMMA BeginKeepsLintInv ==
    ASSUME LintInv, NEW h \in Hooks, NEW why \in {"Stop", "PostToolUse"},
           NEW findings \in SUBSET Findings, Begin(h, why, findings)
    PROVE  LintInv'
<1>1. LintTypes'
  BY DEF LintInv, LintTypes, Begin
<1>2. NothingUnsaid'
  BY DEF LintInv, LintTypes, NothingUnsaid, Said, Begin
<1> QED
  BY <1>1, <1>2 DEF LintInv

(* What a hook reads was shown.                                                *)
LEMMA ReadsAreShown ==
    ASSUME LintInv, NEW seen \in WhatIsRead PROVE seen \subseteq shown /\ seen \in SUBSET Findings
  BY DEF LintInv, LintTypes, NothingUnsaid, WhatIsRead

LEMMA LintInvStep == LintInv /\ [LintNext]_lintVars => LintInv'
<1> SUFFICES ASSUME LintInv, [LintNext]_lintVars PROVE LintInv'
  OBVIOUS
<1>1. ASSUME NEW f \in Files, NEW d \in MayHold[f], Edit(f, d) PROVE LintInv'
  <2>1. LintTypes'
    <3>1. d \in Declarations
      BY DEF Declarations
    <3> QED
      BY <1>1, <3>1 DEF LintInv, LintTypes, Edit
  <2>2. NothingUnsaid'
    BY <1>1 DEF LintInv, NothingUnsaid, Said, Edit
  <2> QED
    BY <2>1, <2>2 DEF LintInv
<1>2. ASSUME NEW h \in Hooks, NEW f \in Files, PostToolUse(h, f) PROVE LintInv'
  BY <1>2, RulesFindFindings, BeginKeepsLintInv DEF PostToolUse, LintInv
<1>3. ASSUME NEW h \in Hooks, Stop(h) PROVE LintInv'
  BY <1>3, AllFindFindings, BeginKeepsLintInv DEF Stop, LintInv
<1>4. ASSUME NEW h \in Hooks, Subtract(h) PROVE LintInv'
  <2>1. LintTypes'
    BY <1>4 DEF LintInv, LintTypes, Subtract, NotSeen, HasRead
  <2>2. NothingUnsaid'
    BY <1>4, ReadsAreShown DEF LintInv, LintTypes, NothingUnsaid, Said, Subtract, NotSeen
  <2> QED
    BY <2>1, <2>2 DEF LintInv
<1>5. ASSUME NEW h \in Hooks, Show(h) PROVE LintInv'
  <2>1. LintTypes'
    BY <1>5 DEF LintInv, LintTypes, Show, Ended
  <2>2. NothingUnsaid'
    BY <1>5 DEF LintInv, LintTypes, NothingUnsaid, Said, Show, Ended
  <2> QED
    BY <2>1, <2>2 DEF LintInv
<1>6. ASSUME NEW h \in Hooks, Record(h) PROVE LintInv'
  <2>1. LintTypes'
    BY <1>6, ReadsAreShown DEF LintInv, LintTypes, Record, Recorded, HasRead
  <2>2. NothingUnsaid'
    BY <1>6, ReadsAreShown DEF LintInv, LintTypes, NothingUnsaid, Said, Record, Recorded
  <2> QED
    BY <2>1, <2>2 DEF LintInv
<1>7. ASSUME NEW h \in Hooks, OpenStore(h) PROVE LintInv'
  <2>1. LintTypes'
    BY <1>7 DEF LintInv, LintTypes, OpenStore, Ended
  <2>2. ReadSeen(store') \subseteq shown
    BY <1>7 DEF OpenStore, Opened, ReadSeen, Readable, LintInv, NothingUnsaid
  <2>3. NothingUnsaid'
    BY <1>7, <2>2 DEF LintInv, LintTypes, NothingUnsaid, Said, OpenStore, Ended
  <2> QED
    BY <2>1, <2>3 DEF LintInv
<1>8. ASSUME NEW h \in Hooks, WriteSeen(h) PROVE LintInv'
  <2>1. LintTypes'
    BY <1>8 DEF LintInv, LintTypes, WriteSeen, Ended
  <2>2. ReadSeen(store') \subseteq shown
    BY <1>8 DEF WriteSeen, Filled, Unfilled, ReadSeen, Readable, LintInv, NothingUnsaid, Said
  <2>3. NothingUnsaid'
    BY <1>8, <2>2 DEF LintInv, LintTypes, NothingUnsaid, Said, WriteSeen, Ended
  <2> QED
    BY <2>1, <2>3 DEF LintInv
<1>9. ASSUME NEW h \in Hooks, TimeOut(h) PROVE LintInv'
  <2>1. LintTypes'
    BY <1>9 DEF LintInv, LintTypes, TimeOut, Ended
  <2>2. NothingUnsaid'
    BY <1>9 DEF LintInv, LintTypes, NothingUnsaid, Said, TimeOut, Ended
  <2> QED
    BY <2>1, <2>2 DEF LintInv
<1>10. ASSUME Swept PROVE LintInv'
  BY <1>10 DEF LintInv, LintTypes, NothingUnsaid, Said, Swept, ReadSeen, Readable
<1>11. CASE UNCHANGED lintVars
  BY <1>11 DEF lintVars, LintInv, LintTypes, NothingUnsaid, Said
<1> QED
  BY <1>1, <1>2, <1>3, <1>4, <1>5, <1>6, <1>7, <1>8, <1>9, <1>10, <1>11 DEF LintNext

(* Whatever hooks overlap, are cut short or damage the store, a hook that ran  *)
(* to its end leaves nothing behind that the session was not shown.            *)
THEOREM NothingSwallowed == LintSpec => []NothingIsSwallowed
<1>1. LintInv => NothingIsSwallowed
  BY DEF LintInv, NothingUnsaid, Said, NothingIsSwallowed
<1> QED
  BY <1>1, LintInvInitially, LintInvStep, PTL DEF LintSpec

(* Before a lapse the hook at work finds the others at rest.                   *)
LEMMA OthersRest ==
    ASSUME OneAtWork, ~lapsed, NEW h \in Hooks, Running(h), NEW g \in Hooks, g # h
    PROVE  ~Running(g)
  BY DEF OneAtWork

LEMMA RaceInvInitially == LintInit => RaceInv
  BY DEF LintInit, RaceInv, Storeless, OneAtWork, StoreIsShown, InOrder, InStep, RepeatsOnlyAfterALapse,
         ReadSeen, Readable, Running

LEMMA BeginKeepsRaceInv ==
    ASSUME LintInv, RaceInv, NEW h \in Hooks, NEW why \in {"Stop", "PostToolUse"},
           NEW findings \in SUBSET Findings, Begin(h, why, findings)
    PROVE  RaceInv'
<1>1. \A g \in Hooks \ {h} : at'[g] = at[g] /\ job'[g] = job[g] /\ toShow'[g] = toShow[g]
  BY DEF Begin, LintInv, LintTypes
<1>2. /\ at[h] = "idle" /\ at'[h] \in {"done", "subtract", "show"} /\ (at'[h] = "done" <=> findings = {})
      /\ at'[h] = "subtract" => store # None
  BY DEF Begin, LintInv, LintTypes
<1>3. at'[h] = "show" => job'[h] = "PostToolUse" \/ store = None
  BY DEF Begin, LintInv, LintTypes
<1>4. \A g \in Hooks \ {h} : Running(g)' <=> Running(g)
  BY <1>1 DEF Running
<1>5. ~Running(h) /\ (findings = {} => ~Running(h)')
  BY <1>2 DEF Running
<1>6. ~lapsed' => ~lapsed /\ (findings # {} => \A g \in Hooks : ~Running(g))
  BY DEF Begin, LintInv, LintTypes
<1>7. store' = store /\ again' = again /\ shown' = shown /\ keys' = keys
  BY DEF Begin
<1>8. OneAtWork' /\ Storeless'
  BY <1>1, <1>2, <1>4, <1>5, <1>6, <1>7 DEF OneAtWork, Storeless, RaceInv
<1>9. InOrder' => InOrder
  BY <1>6, <1>7 DEF InOrder
<1>10. ASSUME InOrder' PROVE \A g \in Hooks : InStep(g)'
  <2>1. CASE findings = {}
    BY <1>1, <1>2, <1>7, <1>9, <1>10, <2>1 DEF RaceInv, StoreIsShown, InStep
  <2>2. CASE findings # {}
    <3>1. ReadSeen(store) = shown
      BY <1>6, <1>9, <1>10, <2>2 DEF RaceInv, StoreIsShown, InOrder
    <3>2. InStep(h)'
      BY <1>2, <1>3, <1>7, <1>10, <3>1 DEF InStep, InOrder
    <3>3. \A g \in Hooks \ {h} : InStep(g)'
      BY <1>4, <1>6, <1>10, <2>2 DEF InStep, Running, InOrder
    <3> QED
      BY <3>2, <3>3
  <2> QED
    BY <2>1, <2>2
<1>11. InOrder' /\ (\A g \in Hooks : ~Running(g)') => ReadSeen(store) = shown
  BY <1>4, <1>5, <1>9 DEF RaceInv, StoreIsShown
<1>12. StoreIsShown'
  BY <1>7, <1>10, <1>11 DEF StoreIsShown
<1>13. RepeatsOnlyAfterALapse'
  BY <1>6, <1>7 DEF RaceInv, RepeatsOnlyAfterALapse
<1> QED
  BY <1>8, <1>12, <1>13 DEF RaceInv

(* So a step of that one keeps them in step, if it keeps itself.               *)
LEMMA StepAlone ==
    ASSUME RaceInv, NEW h \in Hooks, Running(h), lapsed => lapsed', Storeless',
           \A g \in Hooks \ {h} : at'[g] = at[g], InOrder' => store # None,
           InOrder' => InStep(h)' /\ again' = again,
           InOrder' /\ ~Running(h)' => ReadSeen(store') = shown'
    PROVE  RaceInv'
<1>1. ~lapsed' => \A g \in Hooks \ {h} : ~Running(g) /\ ~Running(g)'
  BY OthersRest DEF RaceInv, Running
<1>2. InOrder' => \A g \in Hooks \ {h} : InStep(g)'
  BY <1>1 DEF InStep, Running, InOrder
<1>3. OneAtWork' /\ StoreIsShown'
  BY <1>1, <1>2 DEF OneAtWork, StoreIsShown, InOrder
<1>4. RepeatsOnlyAfterALapse'
  BY DEF RaceInv, RepeatsOnlyAfterALapse, InOrder
<1> QED
  BY <1>3, <1>4 DEF RaceInv

LEMMA RaceInvStep ==
    ASSUME StoresReadBack PROVE LintInv /\ RaceInv /\ [LintNext]_lintVars => RaceInv'
<1> SUFFICES ASSUME LintInv, RaceInv, [LintNext]_lintVars PROVE RaceInv'
  OBVIOUS
<1> USE DEF LintInv, LintTypes
<1>1. ASSUME NEW f \in Files, NEW d \in MayHold[f], Edit(f, d) PROVE RaceInv'
  BY <1>1 DEF RaceInv, Storeless, OneAtWork, StoreIsShown, InOrder, InStep, RepeatsOnlyAfterALapse, Running, Edit
<1>2. ASSUME NEW h \in Hooks, NEW f \in Files, PostToolUse(h, f) PROVE RaceInv'
  BY <1>2, RulesFindFindings, BeginKeepsRaceInv DEF PostToolUse
<1>3. ASSUME NEW h \in Hooks, Stop(h) PROVE RaceInv'
  BY <1>3, AllFindFindings, BeginKeepsRaceInv DEF Stop
<1>a. ASSUME NEW h \in Hooks, Running(h), InOrder PROVE InStep(h) /\ again = {}
  BY <1>a DEF RaceInv, StoreIsShown, InOrder, RepeatsOnlyAfterALapse
<1>4. ASSUME NEW h \in Hooks, Subtract(h) PROVE RaceInv'
  <2>1. PICK seen \in WhatIsRead : /\ HasRead(seen) /\ toShow' = [toShow EXCEPT ![h] = NotSeen(found[h], seen)]
                                   /\ at' = [at EXCEPT ![h] = IF NotSeen(found[h], seen) = {} THEN "done" ELSE "show"]
    BY <1>4 DEF Subtract
  <2>2. /\ Running(h) /\ at[h] = "subtract" /\ at'[h] \in {"done", "show"}
        /\ \A g \in Hooks \ {h} : at'[g] = at[g]
        /\ store' = store /\ shown' = shown /\ again' = again
        /\ toShow'[h] = NotSeen(found[h], seen)
    BY <1>4, <2>1 DEF Subtract, Running
  <2>3. lapsed => lapsed'
    BY <2>1 DEF HasRead
  <2>4. Storeless'
    BY <2>2 DEF RaceInv, Storeless
  <2>5. ASSUME InOrder' PROVE InOrder /\ seen = shown /\ ReadSeen(store) = shown
    <3>1. InOrder /\ seen = ReadSeen(store)
      BY <2>1, <2>2, <2>5 DEF InOrder, HasRead
    <3> QED
      BY <1>a, <2>2, <3>1 DEF InStep
  <2>6. InOrder' => InStep(h)' /\ again' = again
    BY <2>2, <2>5 DEF InStep, NotSeen
  <2>7. InOrder' /\ ~Running(h)' => ReadSeen(store') = shown'
    BY <2>2, <2>5
  <2> QED
    BY <2>2, <2>3, <2>4, <2>6, <2>7, StepAlone DEF InOrder
<1>5. ASSUME NEW h \in Hooks, Show(h) PROVE RaceInv'
  <2>1. /\ Running(h) /\ at[h] = "show" /\ at'[h] = (IF store = None THEN "done" ELSE "record")
        /\ \A g \in Hooks \ {h} : at'[g] = at[g]
        /\ store' = store /\ lapsed' = lapsed
    BY <1>5 DEF Show, Running, Ended
  <2>2. Storeless'
    BY <2>1 DEF RaceInv, Storeless
  <2>3. ASSUME InOrder' PROVE InStep(h)' /\ again' = again /\ Running(h)'
    <3>1. InOrder /\ InStep(h)
      BY <1>a, <2>1, <2>3 DEF InOrder
    <3>2. toShow' = toShow /\ shown' = shown \cup toShow[h]
      BY <1>5, <3>1 DEF Show, InOrder
    <3>3. again' = again
      BY <1>5, <2>1, <3>1 DEF Show, InStep
    <3> QED
      BY <2>1, <3>1, <3>2, <3>3 DEF InStep, Running, InOrder
  <2> QED
    BY <2>1, <2>2, <2>3, StepAlone DEF InOrder
<1>6. ASSUME NEW h \in Hooks, Record(h) PROVE RaceInv'
  <2>1. PICK seen \in WhatIsRead : HasRead(seen) /\ keys' = [keys EXCEPT ![h] = Recorded(h, seen)]
    BY <1>6 DEF Record
  <2>2. /\ Running(h) /\ at[h] = "record" /\ at'[h] = "open"
        /\ \A g \in Hooks \ {h} : at'[g] = at[g]
        /\ store' = store /\ shown' = shown /\ again' = again
        /\ keys'[h] = seen \cup toShow[h]
    BY <1>6, <2>1 DEF Record, Running, Recorded
  <2>3. lapsed => lapsed'
    BY <2>1 DEF HasRead
  <2>4. Storeless'
    BY <2>2 DEF RaceInv, Storeless
  <2>5. ASSUME InOrder' PROVE InStep(h)' /\ Running(h)'
    <3>1. InOrder /\ seen = ReadSeen(store)
      BY <2>1, <2>2, <2>5 DEF InOrder, HasRead
    <3>2. keys'[h] = shown
      BY <1>a, <2>2, <3>1 DEF InStep
    <3> QED
      BY <2>2, <3>2 DEF InStep, Running
  <2> QED
    BY <2>2, <2>3, <2>4, <2>5, StepAlone DEF InOrder
<1>7. ASSUME NEW h \in Hooks, OpenStore(h) PROVE RaceInv'
  <2>1. /\ Running(h) /\ at[h] = "open" /\ store # None
        /\ \A g \in Hooks \ {h} : at'[g] = at[g]
        /\ shown' = shown /\ again' = again
    BY <1>7 DEF OpenStore, Running, Ended, RaceInv, Storeless
  <2>2. CASE lapsed'
    <3>1. Storeless'
      BY <1>7, <2>1, NoStoreIsNoText DEF OpenStore, Opened, Storeless
    <3> QED
      BY <2>1, <2>2, <3>1, StepAlone DEF InOrder
  <2>3. CASE ~lapsed'
    <3>1. store' = NoFile /\ at'[h] = "write" /\ keys' = keys /\ lapsed' = lapsed
      BY <1>7, <2>3 DEF OpenStore, Opened
    <3>2. Storeless'
      BY <3>1, NoStoreIsNoText DEF Storeless
    <3>3. InStep(h)' /\ Running(h)'
      BY <1>a, <2>1, <2>3, <3>1 DEF InStep, Running, InOrder
    <3> QED
      BY <2>1, <3>1, <3>2, <3>3, StepAlone DEF InOrder
  <2> QED
    BY <2>2, <2>3
<1>8. ASSUME NEW h \in Hooks, WriteSeen(h) PROVE RaceInv'
  <2>1. /\ Running(h) /\ at[h] = "write" /\ at'[h] = "done" /\ store # None
        /\ \A g \in Hooks \ {h} : at'[g] = at[g]
        /\ shown' = shown /\ again' = again
    BY <1>8 DEF WriteSeen, Running, Ended, RaceInv, Storeless
  <2>2. keys[h] \in SUBSET Findings /\ Readable(keys[h]) /\ keys[h] # None
    BY DEF StoresReadBack
  <2>3. store' # None
    BY <1>8, <2>1, <2>2, NoStoreIsNoText DEF WriteSeen, Filled, Unfilled
  <2>4. Storeless'
    BY <2>3 DEF Storeless
  <2>5. lapsed => lapsed'
    BY <1>8 DEF WriteSeen
  <2>6. ASSUME ~lapsed' PROVE ReadSeen(store') = shown
    <3>1. InStep(h) /\ store' \in Filled(store, keys[h])
      BY <1>8, <1>a, <2>1, <2>6 DEF WriteSeen, InOrder
    <3> QED
      BY <2>1, <2>2, <3>1 DEF InStep, Filled, ReadSeen
  <2> QED
    BY <2>1, <2>4, <2>5, <2>6, StepAlone DEF InOrder, InStep
<1>9. ASSUME NEW h \in Hooks, TimeOut(h) PROVE RaceInv'
  BY <1>9 DEF RaceInv, Storeless, OneAtWork, StoreIsShown, InOrder, RepeatsOnlyAfterALapse, TimeOut, Ended
<1>10. ASSUME Swept PROVE RaceInv'
  BY <1>10, NoStoreIsNoText DEF RaceInv, Storeless, OneAtWork, StoreIsShown, InOrder, RepeatsOnlyAfterALapse, Swept
<1>11. CASE UNCHANGED lintVars
  BY <1>11 DEF lintVars, RaceInv, Storeless, OneAtWork, StoreIsShown, InOrder, InStep, RepeatsOnlyAfterALapse, Running
<1> QED
  BY <1>1, <1>2, <1>3, <1>4, <1>5, <1>6, <1>7, <1>8, <1>9, <1>10, <1>11 DEF LintNext

(* If what a hook writes to the store reads back, a Stop hook repeats a        *)
(* finding only in a session without a store, or once hooks overlapped, one    *)
(* was cut short, or the store was lost, not read or not written.              *)
THEOREM RepeatsNeedALapse == ASSUME StoresReadBack PROVE LintSpec => []RepeatsOnlyAfterALapse
<1>1. RaceInv => RepeatsOnlyAfterALapse
  BY DEF RaceInv
<1>2. LintInit => LintInv /\ RaceInv
  BY LintInvInitially, RaceInvInitially
<1>3. LintInv /\ RaceInv /\ [LintNext]_lintVars => LintInv' /\ RaceInv'
  BY LintInvStep, RaceInvStep
<1> QED
  BY <1>1, <1>2, <1>3, PTL DEF LintSpec

-----------------------------------------------------------------------------
(* The etalon checker.  Induction is the least element of a set of naturals.   *)
LEMMA LeastNat ==
    ASSUME NEW T \in SUBSET Nat, T # {}
    PROVE  \E n \in T : \A m \in T : n <= m
<1>1. \A x, y \in Nat : y < x => <<y, x>> \in OpToRel(<, Nat)
  <2> SUFFICES ASSUME NEW x \in Nat, NEW y \in Nat, y < x
               PROVE  <<y, x>> \in {ss \in Nat \X Nat : ss[1] < ss[2]}
    BY Zenon DEF OpToRel
  <2> QED
    OBVIOUS
<1>2. PICK x \in T : \A y \in T : ~ (<<y, x>> \in OpToRel(<, Nat))
  BY NatLessThanWellFounded, WFMin
<1>3. \A y \in T : ~ (y < x)
  BY <1>1, <1>2, Zenon
<1> QED
  BY <1>3

(* Where the checker has got to: past the parser the etalon is of the schema,  *)
(* and a clean report is one of a validator that found nothing.                *)
Listed(nodes) == Len(nodes) \in Nat \ {0} /\ DOMAIN nodes = 1..Len(nodes)

Validated == \E reg, tokens : ValidateEtalon(etalon.document, reg, tokens) = {}

EtalonInv ==
    /\ etalon \in Etalons
    /\ next \in {"html", "folder", "parse"} => etalon.document # NoDoc
    /\ next = "html" => etalon.extension # "json"
    /\ next \in {"folder", "parse"} => etalon.extension = "json"
    /\ next \in {"slug", "registry", "validate"} => Listed(etalon.document.nodes)
    /\ etalon.extension = "json" /\ next = "report" /\ failures = {} => Listed(etalon.document.nodes) /\ Validated
    /\ etalon.extension = "json" /\ verdict = "passed" => next = "end" /\ Listed(etalon.document.nodes) /\ Validated

LEMMA EtalonInvStep == EtalonInv /\ [EtalonNext]_etalonVars => EtalonInv'
<1> SUFFICES ASSUME EtalonInv, [EtalonNext]_etalonVars PROVE EtalonInv'
  OBVIOUS
<1> USE DEF EtalonInv
<1>1. CASE UNCHANGED etalonVars
  BY <1>1 DEF etalonVars, Validated
<1>2. CASE ReadEtalon
  BY <1>2 DEF ReadEtalon, Then
<1>3. CASE CheckHtmlEtalon
  BY <1>3 DEF CheckHtmlEtalon, Then
<1>4. CASE CheckPageFolder
  BY <1>4 DEF CheckPageFolder, Then
<1>5. CASE ParseEtalon
  <2>1. Issues("INVALID-ETALON", {etalon.slug}) # {}
    BY DEF Issues
  <2>2. ASSUME etalon.extension = "json", etalon.document.json, ~SchemaProblem(etalon.document), etalon.document # NoDoc
        PROVE  Listed(etalon.document.nodes)
    <3> DEFINE nodes == etalon.document.nodes
    <3>1. Len(nodes) \in Nat /\ nodes = [i \in 1..Len(nodes) |-> nodes[i]] /\ nodes # <<>>
      BY <2>2, EtalonsAreTyped DEF SchemaProblem
    <3> HIDE DEF nodes
    <3>2. Len(nodes) # 0
      BY <3>1
    <3>3. QED BY <3>1, <3>2 DEF Listed, nodes
  <2>3. QED BY <1>5, <2>1, <2>2 DEF ParseEtalon, Then
<1>6. CASE CheckSlug
  BY <1>6 DEF CheckSlug, Then
<1>7. CASE ReadRegistry
  <2>1. Issues("NO-REGISTRY", {etalon.slug}) # {}
    BY DEF Issues
  <2>2. QED BY <1>7, <2>1 DEF ReadRegistry, Then
<1>8. CASE CheckJsonEtalon
  BY <1>8 DEF CheckJsonEtalon, Validated
<1>9. CASE ReportEtalon
  BY <1>9 DEF ReportEtalon, Validated
<1>10. QED BY <1>1, <1>2, <1>3, <1>4, <1>5, <1>6, <1>7, <1>8, <1>9 DEF EtalonNext

(* What a clean validator says of a list of nodes: an id has one position, a   *)
(* reference leads to a later one, and each but the first has one reference.   *)
LEMMA CleanTree ==
    ASSUME NEW nodes, Listed(nodes), DuplicateIds(nodes) = {}, CheckTree(nodes) = {}
    PROVE  /\ \A i \in DOMAIN nodes : NodeIndex(nodes, nodes[i].id) = i
           /\ \A r \in ReferencesOf(nodes) : \E i \in DOMAIN nodes : r[3] = nodes[i].id /\ r[1] < i
           /\ \A x, y \in ReferencesOf(nodes) : x[3] = y[3] => x = y
           /\ \A i \in DOMAIN nodes \ {1} : \E r \in ReferencesOf(nodes) : r[3] = nodes[i].id
<1> DEFINE all == ReferencesOf(nodes)  known == {r \in all : r[3] \in IdsOf(nodes)}
<1>1. \A code, ids : Issues(code, ids) = {} => ids = {}
  BY DEF Issues
<1>2. NodesAt(nodes, {i \in DOMAIN nodes : NodeIndex(nodes, nodes[i].id) # i}) = {}
  BY <1>1 DEF DuplicateIds
<1>3. \A i \in DOMAIN nodes : NodeIndex(nodes, nodes[i].id) = i
  BY <1>2 DEF NodesAt
<1>4. /\ {r[3] : r \in all \ known} = {}
      /\ {r[3] : r \in {x \in known : ParentAfterChild(nodes, x)}} = {}
      /\ {r[3] : r \in {x \in known : \E y \in known : y # x /\ y[3] = x[3]}} = {}
      /\ NodesAt(nodes, {i \in DOMAIN nodes : i > 1 /\ \A r \in known : r[3] # nodes[i].id}) = {}
  <2> DEFINE strays  == {r[3] : r \in all \ known}
             late    == {r[3] : r \in {x \in known : ParentAfterChild(nodes, x)}}
             shared  == {r[3] : r \in {x \in known : \E y \in known : y # x /\ y[3] = x[3]}}
             orphans == NodesAt(nodes, {i \in DOMAIN nodes : i > 1 /\ \A r \in known : r[3] # nodes[i].id})
  <2>1. CheckTree(nodes) = Issues("UNKNOWN-NODE", strays) \cup Issues("PARENT-AFTER-CHILD", late)
                           \cup Issues("MULTIPLE-PARENTS", shared) \cup Issues("ORPHAN-NODE", orphans)
    BY DEF CheckTree
  <2> HIDE DEF strays, late, shared, orphans
  <2>2. strays = {} /\ late = {} /\ shared = {} /\ orphans = {}
    BY <1>1, <2>1
  <2> QED
    BY <2>2 DEF strays, late, shared, orphans
<1> HIDE DEF all
<1>5. known = all
  BY <1>4
<1>6. \A r \in all : \E i \in DOMAIN nodes : r[3] = nodes[i].id /\ r[1] < i
  <2> SUFFICES ASSUME NEW r \in all PROVE \E i \in DOMAIN nodes : r[3] = nodes[i].id /\ r[1] < i
    OBVIOUS
  <2>1. PICK i \in DOMAIN nodes : r[3] = nodes[i].id
    BY <1>5 DEF IdsOf
  <2>2. ~ParentAfterChild(nodes, r)
    BY <1>4, <1>5
  <2>3. r[1] \in Nat
    BY DEF all, ReferencesOf, Listed
  <2>4. QED BY <1>3, <2>1, <2>2, <2>3 DEF ParentAfterChild, Listed
<1>7. \A x, y \in all : x[3] = y[3] => x = y
  BY <1>4, <1>5
<1> HIDE DEF known
<1>8. \A i \in DOMAIN nodes \ {1} : \E r \in all : r[3] = nodes[i].id
  <2> SUFFICES ASSUME NEW i \in DOMAIN nodes, i # 1, \A r \in known : r[3] # nodes[i].id PROVE FALSE
    BY <1>5
  <2>1. i > 1
    BY DEF Listed
  <2>2. QED BY <1>4, <2>1 DEF NodesAt
<1>9. QED BY <1>3, <1>6, <1>7, <1>8 DEF all

LEMMA CleanTreesRender ==
    ASSUME NEW nodes, Listed(nodes), DuplicateIds(nodes) = {}, CheckTree(nodes) = {}
    PROVE  /\ Cardinality(IdsOf(nodes)) = Len(nodes)
           /\ Within(nodes, IdsOf(nodes)) \subseteq IdsOf(nodes)
           /\ \A met \in SUBSET IdsOf(nodes) : nodes[1].id \in met /\ Within(nodes, met) \subseteq met => met = IdsOf(nodes)
           /\ Cardinality(ReferencesOf(nodes)) = Len(nodes) - 1
<1> DEFINE all == ReferencesOf(nodes)  ids == IdsOf(nodes)  n == Len(nodes)
<1>1. n \in Nat \ {0} /\ DOMAIN nodes = 1..n
  BY DEF Listed
<1>2. /\ \A i \in 1..n : NodeIndex(nodes, nodes[i].id) = i
      /\ \A r \in all : \E i \in 1..n : r[3] = nodes[i].id /\ r[1] < i
      /\ \A x, y \in all : x[3] = y[3] => x = y
      /\ \A i \in (1..n) \ {1} : \E r \in all : r[3] = nodes[i].id
  BY <1>1, CleanTree
<1>3. \A i, j \in 1..n : nodes[i].id = nodes[j].id => i = j
  BY <1>2
<1>4. ids = {nodes[i].id : i \in 1..n}
  BY <1>1 DEF IdsOf
<1>5. \A r \in all : r[1] \in 1..n /\ r[3] \in Range(ReferencedIds(nodes[r[1]]))
  BY <1>1 DEF ReferencesOf, Range
<1>6. \A S : \A x : x \in Within(nodes, S) <=> \E r \in all : x = r[3] /\ nodes[r[1]].id \in S
  <2> SUFFICES ASSUME NEW S, NEW x PROVE x \in Within(nodes, S) <=> \E r \in all : x = r[3] /\ nodes[r[1]].id \in S
    OBVIOUS
  <2>1. ASSUME x \in Within(nodes, S) PROVE \E r \in all : x = r[3] /\ nodes[r[1]].id \in S
    <3>1. PICK m \in Range(nodes) : m.id \in S /\ x \in Range(ReferencedIds(m))
      BY <2>1 DEF Within
    <3>2. PICK i \in 1..n : m = nodes[i]
      BY <1>1 DEF Range
    <3>3. PICK k \in DOMAIN ReferencedIds(m) : x = ReferencedIds(m)[k]
      BY <3>1 DEF Range
    <3>4. <<i, k, x>> \in all
      BY <1>1, <3>2, <3>3 DEF ReferencesOf
    <3>5. QED BY <3>1, <3>2, <3>4
  <2>2. ASSUME NEW r \in all, x = r[3], nodes[r[1]].id \in S PROVE x \in Within(nodes, S)
    BY <1>1, <1>5, <2>2 DEF Within, Range
  <2>3. QED BY <2>1, <2>2
<1> HIDE DEF all, ids, n
<1>7. Cardinality(ids) = n
  <2> DEFINE f == [i \in 1..n |-> nodes[i].id]
  <2>1. f \in Bijection(1..n, ids)
    BY <1>3, <1>4 DEF Bijection, Injection, Surjection, IsInjective
  <2>2. IsFiniteSet(1..n) /\ Cardinality(1..n) = n
    BY <1>1, FS_Interval
  <2>3. QED BY <2>1, <2>2, FS_Bijection DEF ExistsBijection
<1>8. Cardinality(all) = n - 1
  <2> DEFINE pointer(i) == CHOOSE r \in all : r[3] = nodes[i].id
             f == [i \in 2..n |-> pointer(i)]
  <2>1. \A i \in 2..n : pointer(i) \in all /\ pointer(i)[3] = nodes[i].id
    BY <1>1, <1>2
  <2>2. \A r \in all : \E i \in 2..n : pointer(i) = r
    <3> SUFFICES ASSUME NEW r \in all PROVE \E i \in 2..n : pointer(i) = r
      OBVIOUS
    <3>1. PICK i \in 1..n : r[3] = nodes[i].id /\ r[1] < i
      BY <1>2
    <3>2. i \in 2..n
      BY <1>1, <1>5, <3>1
    <3>3. QED BY <1>2, <2>1, <3>1, <3>2
  <2>3. \A i, j \in 2..n : pointer(i) = pointer(j) => i = j
    BY <1>1, <1>3, <2>1
  <2> HIDE DEF pointer
  <2>4. f \in Bijection(2..n, all)
    BY <2>1, <2>2, <2>3 DEF Bijection, Injection, Surjection, IsInjective
  <2>5. IsFiniteSet(2..n) /\ Cardinality(2..n) = n - 1
    BY <1>1, FS_Interval
  <2>6. QED BY <2>4, <2>5, FS_Bijection DEF ExistsBijection
<1>9. ASSUME NEW met \in SUBSET ids, nodes[1].id \in met, Within(nodes, met) \subseteq met PROVE met = ids
  <2> SUFFICES ASSUME met # ids PROVE FALSE
    OBVIOUS
  <2> DEFINE missed == {i \in 1..n : nodes[i].id \notin met}
  <2>1. missed \in SUBSET Nat /\ missed # {}
    BY <1>1, <1>4
  <2>2. PICK i \in missed : \A j \in missed : i <= j
    BY <2>1, LeastNat
  <2>3. i \in (1..n) \ {1} /\ nodes[i].id \notin met
    BY <1>9
  <2>4. PICK r \in all : r[3] = nodes[i].id
    BY <1>2, <2>3
  <2>5. r[1] \in 1..n /\ r[1] < i
    BY <1>2, <1>3, <1>5, <2>3, <2>4
  <2>6. nodes[r[1]].id \in met
    BY <1>1, <2>2, <2>3, <2>5
  <2>7. nodes[i].id \in Within(nodes, met)
    BY <1>6, <2>4, <2>6
  <2>8. QED BY <1>9, <2>3, <2>7
<1>10. Within(nodes, ids) \subseteq ids
  BY <1>2, <1>4, <1>6
<1>11. QED BY <1>7, <1>8, <1>9, <1>10 DEF all, ids, n

(* The codes of the checker are local rules; together they mean that a page    *)
(* that passed is a tree that can be rendered with every fixture, for any page *)
(* (plugin/scripts/check-design-etalon.mjs).                                   *)
THEOREM PassedPagesAreTrees == EtalonSpec => []PassedPagesRender
<1>1. EtalonInit => EtalonInv
  BY DEF EtalonInit, EtalonInv
<1>2. EtalonInv => PassedPagesRender
  <2> SUFFICES ASSUME EtalonInv, verdict = "passed", etalon.extension = "json" PROVE PassedPagesRender
    BY DEF PassedPagesRender
  <2> DEFINE page == etalon.document
  <2>1. PICK reg, tokens : ValidateEtalon(page, reg, tokens) = {} /\ Listed(page.nodes)
    BY DEF EtalonInv, Validated
  <2>2. DuplicateIds(page.nodes) = {} /\ CheckTree(page.nodes) = {} /\ CheckFixtures(page) = {}
    BY <2>1 DEF ValidateEtalon
  <2>3. \A m \in Range(page.nodes), f \in DOMAIN page.data : \A path \in BoundPaths(m) : HasPath(page.data[f], path)
    <3>1. {f \in DOMAIN page.data : \E path \in Binders(page.nodes) : ~HasPath(page.data[f], path)} = {}
      BY <2>2 DEF CheckFixtures, Issues
    <3>2. QED BY <3>1 DEF Binders
  <2>4. QED BY <2>1, <2>2, <2>3, CleanTreesRender DEF PassedPagesRender
<1>3. QED BY <1>1, <1>2, EtalonInvStep, PTL DEF EtalonSpec

-----------------------------------------------------------------------------
(* The project map.                                                            *)

(* A finite set has a first element under a strict total order.                *)
LEMMA FirstExists ==
    ASSUME NEW S, IsFiniteSet(S), S # {}, NEW R,
           \A x \in S : <<x, x>> \notin R,
           \A x, y \in S : x # y => <<x, y>> \in R \/ <<y, x>> \in R,
           \A x, y, z \in S : <<x, y>> \in R /\ <<y, z>> \in R => <<x, z>> \in R
    PROVE  \E x \in S : \A y \in S \ {x} : <<x, y>> \in R
<1> DEFINE Under(x) == {y \in S : <<y, x>> \in R}
           count    == [x \in S |-> Cardinality(Under(x))]
           counts   == {count[x] : x \in S}
<1>1. \A x \in S : IsFiniteSet(Under(x)) /\ Cardinality(Under(x)) \in Nat /\ count[x] = Cardinality(Under(x))
  BY FS_Subset, FS_CardinalityType
<1> HIDE DEF count, Under
<1>2. PICK n \in counts : \A m \in counts : n <= m
  <2>1. counts \in SUBSET Nat /\ counts # {}
    BY <1>1
  <2> HIDE DEF counts
  <2> QED
    BY <2>1, LeastNat
<1>3. PICK x \in S : n = count[x]
  OBVIOUS
<1>4. ASSUME NEW y \in S, <<y, x>> \in R PROVE FALSE
  <2>1. Under(y) \in SUBSET Under(x) /\ y \in Under(x) /\ y \notin Under(y)
    BY <1>4 DEF Under
  <2>2. Cardinality(Under(y)) <= Cardinality(Under(x)) /\ Cardinality(Under(y)) # Cardinality(Under(x))
    BY <1>1, <2>1, FS_Subset
  <2>3. Cardinality(Under(x)) <= Cardinality(Under(y))
    BY <1>1, <1>2, <1>3
  <2>4. Cardinality(Under(x)) \in Nat /\ Cardinality(Under(y)) \in Nat
    BY <1>1
  <2> QED
    BY <2>2, <2>3, <2>4
<1> QED
  BY <1>4

(* Paths are compared name by name: a strict total order.                      *)
Paths == Seq(Range(Names))

LEMMA PlacesOfNames ==
    ASSUME NEW p \in Paths
    PROVE  /\ Len(p) \in Nat /\ DOMAIN p = 1..Len(p) /\ DOMAIN p \subseteq Nat \ {0}
           /\ \A i \in Nat \ {0} : Place(p, i) \in Nat /\ (Place(p, i) = 0 <=> i \notin DOMAIN p)
           /\ \A i \in DOMAIN p : Names[Place(p, i)] = p[i]
<1>1. Len(p) \in Nat /\ DOMAIN p = 1..Len(p) /\ \A i \in DOMAIN p : p[i] \in Range(Names)
  BY DEF Paths
<1>2. DOMAIN Names = 1..Len(Names) /\ Len(Names) \in Nat
  BY NamesAreAList
<1>3. \A name \in Range(Names) : Position(name) \in 1..Len(Names) /\ Names[Position(name)] = name
  BY <1>2 DEF Range, Position
<1> QED
  BY <1>1, <1>2, <1>3 DEF Place

LEMMA BeforeIsIrreflexive == \A p \in Paths : ~Before(p, p)
  BY PlacesOfNames DEF Before

LEMMA BeforeIsTransitive ==
    ASSUME NEW p \in Paths, NEW q \in Paths, NEW r \in Paths, Before(p, q), Before(q, r)
    PROVE  Before(p, r)
<1>1. PICK i \in DOMAIN p \cup DOMAIN q : Place(p, i) < Place(q, i) /\ \A j \in 1..(i - 1) : Place(p, j) = Place(q, j)
  BY DEF Before
<1>2. PICK k \in DOMAIN q \cup DOMAIN r : Place(q, k) < Place(r, k) /\ \A j \in 1..(k - 1) : Place(q, j) = Place(r, j)
  BY DEF Before
<1>3. i \in Nat \ {0} /\ k \in Nat \ {0}
  <2>1. DOMAIN p \subseteq Nat \ {0} /\ DOMAIN q \subseteq Nat \ {0} /\ DOMAIN r \subseteq Nat \ {0}
    BY PlacesOfNames, Zenon
  <2> QED
    BY <2>1
<1> DEFINE m == IF i < k THEN i ELSE k
<1>4. m \in Nat \ {0} /\ m <= i /\ m <= k
  BY <1>3
<1>5. \A x \in {p, q, r} : Place(x, i) \in Nat /\ Place(x, k) \in Nat /\ Place(x, m) \in Nat
  BY <1>3, <1>4, PlacesOfNames
<1>6. Place(p, m) < Place(r, m)
  <2>1. CASE i < k
    <3>1. i \in 1..(k - 1) /\ m = i
      BY <1>3, <2>1
    <3> QED
      BY <1>1, <1>2, <1>5, <3>1
  <2>2. CASE i = k
    BY <1>1, <1>2, <1>3, <1>5, <2>2
  <2>3. CASE k < i
    <3>1. k \in 1..(i - 1) /\ m = k
      BY <1>3, <2>3
    <3> QED
      BY <1>1, <1>2, <1>5, <3>1
  <2> QED
    BY <1>3, <2>1, <2>2, <2>3
<1>7. \A j \in 1..(m - 1) : Place(p, j) = Place(r, j)
  <2> SUFFICES ASSUME NEW j \in 1..(m - 1) PROVE Place(p, j) = Place(r, j)
    OBVIOUS
  <2>1. j \in 1..(i - 1) /\ j \in 1..(k - 1)
    BY <1>3, <1>4
  <2> QED
    BY <1>1, <1>2, <2>1
<1>8. m \in DOMAIN r
  <2> HIDE DEF m
  <2>1. Place(r, m) # 0
    BY <1>5, <1>6
  <2> QED
    BY <1>4, <2>1, PlacesOfNames
<1> HIDE DEF m
<1> QED
  BY <1>6, <1>7, <1>8 DEF Before

LEMMA BeforeIsTotal ==
    ASSUME NEW p \in Paths, NEW q \in Paths, p # q
    PROVE  Before(p, q) \/ Before(q, p)
<1> DEFINE differs == {i \in Nat \ {0} : Place(p, i) # Place(q, i)}
<1>1. differs # {}
  <2> SUFFICES ASSUME \A i \in Nat \ {0} : Place(p, i) = Place(q, i) PROVE p = q
    OBVIOUS
  <2>1. \A i \in Nat \ {0} : i \in DOMAIN p <=> i \in DOMAIN q
    BY PlacesOfNames
  <2>2. Len(p) = Len(q)
    <3>1. Len(p) \in Nat /\ Len(q) \in Nat /\ DOMAIN p = 1..Len(p) /\ DOMAIN q = 1..Len(q)
      BY PlacesOfNames
    <3>2. ~(Len(p) < Len(q)) /\ ~(Len(q) < Len(p))
      BY <2>1, <3>1
    <3>3. \A a, b \in Nat : ~(a < b) /\ ~(b < a) => a = b
      OBVIOUS
    <3> QED
      BY <3>1, <3>2, <3>3
  <2>3. \A i \in 1..Len(p) : p[i] = q[i]
    <3> SUFFICES ASSUME NEW i \in 1..Len(p) PROVE p[i] = q[i]
      OBVIOUS
    <3>1. i \in DOMAIN p /\ i \in DOMAIN q /\ i \in Nat \ {0}
      BY <2>2, PlacesOfNames
    <3>2. Names[Place(p, i)] = p[i] /\ Names[Place(q, i)] = q[i]
      BY <3>1, PlacesOfNames
    <3> QED
      BY <3>1, <3>2
  <2> QED
    BY <2>2, <2>3 DEF Paths
<1>2. PICK i \in differs : \A j \in differs : i <= j
  <2>1. differs \in SUBSET Nat
    OBVIOUS
  <2> HIDE DEF differs
  <2> QED
    BY <1>1, <2>1, LeastNat
<1>3. i \in Nat \ {0} /\ Place(p, i) # Place(q, i) /\ \A j \in 1..(i - 1) : Place(p, j) = Place(q, j)
  <2>1. ASSUME NEW j \in 1..(i - 1) PROVE Place(p, j) = Place(q, j)
    <3>1. j \in Nat \ {0} /\ ~(i <= j)
      OBVIOUS
    <3> QED
      BY <1>2, <3>1
  <2> QED
    BY <2>1
<1>4. Place(p, i) \in Nat /\ Place(q, i) \in Nat
  BY <1>3, PlacesOfNames
<1>5. i \in DOMAIN p \cup DOMAIN q
  BY <1>3, <1>4, PlacesOfNames
<1>6. Place(p, i) < Place(q, i) \/ Place(q, i) < Place(p, i)
  BY <1>3, <1>4
<1> QED
  BY <1>3, <1>5, <1>6 DEF Before

LEMMA ImageIsFinite ==
    ASSUME NEW S, IsFiniteSet(S), NEW f
    PROVE  IsFiniteSet({f[x] : x \in S})
<1> DEFINE g == [x \in S |-> f[x]]
<1>1. g \in Surjection(S, {f[x] : x \in S})
  BY DEF Surjection
<1> QED
  BY <1>1, FS_Surjection

(* A finite set of clusters has a best one, whatever the scores and sizes are. *)
Numbers(of) == \A k \in DOMAIN of : of[k] \in Nat

LEMMA BestExists ==
    ASSUME NEW score, IsFiniteSet(DOMAIN score), DOMAIN score # {}, DOMAIN score \subseteq Paths, Numbers(score),
           NEW of, Numbers(of)
    PROVE  Best(score, of) \in DOMAIN score
<1> DEFINE candidates == DOMAIN score
           R          == {p \in candidates \X candidates : Better(score, of, p[1], p[2])}
<1>1. \A k \in candidates : score[k] \in Nat /\ SizeIn(of, k) \in Nat /\ k \in Paths
  BY DEF Numbers, SizeIn
<1>2. \A k, l \in candidates : <<k, l>> \in R <=> Better(score, of, k, l)
  OBVIOUS
<1>3. ASSUME NEW k \in candidates PROVE ~Better(score, of, k, k)
  BY <1>1, BeforeIsIrreflexive DEF Better
<1>4. ASSUME NEW k \in candidates, NEW l \in candidates, k # l PROVE Better(score, of, k, l) \/ Better(score, of, l, k)
  <2>1. Before(k, l) \/ Before(l, k)
    BY <1>1, <1>4, BeforeIsTotal
  <2> QED
    BY <1>1, <2>1 DEF Better
<1>5. ASSUME NEW k \in candidates, NEW l \in candidates, NEW m \in candidates, Better(score, of, k, l), Better(score, of, l, m)
      PROVE  Better(score, of, k, m)
  <2>1. Before(k, l) /\ Before(l, m) => Before(k, m)
    BY <1>1, BeforeIsTransitive
  <2>2. \A x \in {k, l, m} : score[x] \in Nat /\ SizeIn(of, x) \in Nat
    BY <1>1
  <2> QED
    BY <1>5, <2>1, <2>2 DEF Better
<1> HIDE DEF R
<1>6. PICK k \in candidates : \A l \in candidates \ {k} : <<k, l>> \in R
  <2>1. /\ \A x \in candidates : <<x, x>> \notin R
        /\ \A x, y \in candidates : x # y => <<x, y>> \in R \/ <<y, x>> \in R
        /\ \A x, y, z \in candidates : <<x, y>> \in R /\ <<y, z>> \in R => <<x, z>> \in R
    BY <1>2, <1>3, <1>4, <1>5
  <2> QED
    BY <2>1, FirstExists
<1>7. \A l \in candidates \ {k} : Better(score, of, k, l)
  BY <1>2, <1>6
<1> QED
  BY <1>7 DEF Best

-----------------------------------------------------------------------------
(* What the readers find are edges between files of the project.               *)
Kinds   == {"constant", "association", "require", "import", "seam", "route"}
EdgesIn == [from : Visible, to : Visible, kind : Kinds]

LEMMA EdgesOfAFile ==
    ASSUME project \in Projects, NEW f \in Visible, NEW e \in EdgesOf(f)
    PROVE  e = [from |-> f, to |-> e.to, kind |-> e.kind] /\ e.kind \in Kinds
<1>1. LanguageOf(f) \in {"ruby", "erb", "typescript", "javascript", "dart"}
  BY ProjectsAreTyped DEF Visible, LanguageOf
<1>2. CASE e \in RubyEdges(f)
  BY <1>2 DEF RubyEdges, ConstantEdges, Edge, Kinds
<1>3. CASE e \in ScriptEdges(f)
  BY <1>3 DEF ScriptEdges, Edge, Kinds
<1>4. CASE e \in DartEdges(f)
  BY <1>4 DEF DartEdges, Edge, Kinds
<1> QED
  BY <1>1, <1>2, <1>3, <1>4 DEF EdgesOf

LEMMA EdgesStayInside ==
    ASSUME project \in Projects
    PROVE  IsFiniteSet(Visible) /\ AllEdges \subseteq EdgesIn
<1>1. IsFiniteSet(Visible)
  BY ProjectsAreTyped DEF Visible
<1>2. ASSUME NEW e \in AllEdges PROVE e \in EdgesIn
  <2>1. e.to \in Visible /\ (e \in UNION {EdgesOf(f) : f \in Visible} \/ e \in {Edge(RoutesFile, r.controller, "route") : r \in Range(Routes)})
    BY <1>2 DEF AllEdges, DedupeEdges
  <2>2. CASE e \in UNION {EdgesOf(f) : f \in Visible}
    <3>1. PICK f \in Visible : e \in EdgesOf(f)
      BY <2>2
    <3> QED
      BY <2>1, <3>1, EdgesOfAFile DEF EdgesIn
  <2>3. CASE e \in {Edge(RoutesFile, r.controller, "route") : r \in Range(Routes)}
    <3>1. Routes # <<>>
      BY <2>3 DEF Range
    <3>2. RoutesFile \in Visible
      BY <3>1 DEF Routes
    <3> QED
      BY <2>1, <2>3, <3>2 DEF EdgesIn, Edge, Kinds
  <2> QED
    BY <2>1, <2>2, <2>3
<1> QED
  BY <1>1, <1>2

LEMMA EdgesAreFinite == ASSUME IsFiniteSet(Visible) PROVE IsFiniteSet(EdgesIn)
<1> DEFINE triples == (Visible \X Visible) \X Kinds
           edge    == [t \in triples |-> [from |-> t[1][1], to |-> t[1][2], kind |-> t[2]]]
<1>1. IsFiniteSet(Kinds)
  <2>1. Kinds = (((({"constant"} \cup {"association"}) \cup {"require"}) \cup {"import"}) \cup {"seam"}) \cup {"route"}
    BY DEF Kinds
  <2>2. \A x : IsFiniteSet({x})
    BY FS_Singleton
  <2> QED
    BY <2>1, <2>2, FS_AddElement
<1>2. IsFiniteSet(triples)
  BY <1>1, FS_Product
<1>3. IsFiniteSet({edge[t] : t \in triples})
  <2> HIDE DEF edge, triples
  <2> QED
    BY <1>2, ImageIsFinite
<1>4. EdgesIn \subseteq {edge[t] : t \in triples}
  <2> SUFFICES ASSUME NEW e \in EdgesIn PROVE e \in {edge[t] : t \in triples}
    OBVIOUS
  <2>1. e.from \in Visible /\ e.to \in Visible /\ e.kind \in Kinds /\ e = [from |-> e.from, to |-> e.to, kind |-> e.kind]
    BY DEF EdgesIn
  <2>2. <<<<e.from, e.to>>, e.kind>> \in triples
    BY <2>1
  <2>3. edge[<<<<e.from, e.to>>, e.kind>>] = e
    BY <2>1, <2>2
  <2> QED
    BY <2>2, <2>3
<1> QED
  BY <1>3, <1>4, FS_Subset

-----------------------------------------------------------------------------
(* Every label is a path.                                                      *)
LEMMA SeedsArePaths ==
    ASSUME project \in Projects, NEW f \in Visible
    PROVE  f \in Paths /\ SeedOf(f) \in Paths /\ Seeded(f) \in Paths /\ DirectoryOf(f) \in Paths
<1> DEFINE directories == Front(f)
           group       == {i \in DOMAIN directories : directories[i] \in GroupDirectories}
<1>1. f \in Seq(Range(Names)) /\ Len(f) \in Nat \ {0}
  BY ProjectsAreTyped DEF Visible
<1>2. directories \in Seq(Range(Names)) /\ Len(directories) \in Nat /\ DOMAIN directories = 1..Len(directories)
  BY <1>1 DEF Front
<1>3. RootCluster \in Paths /\ TopLevelOf(f) \in Paths /\ DirectoryOf(f) \in Paths
  BY <1>1, <1>2, NamesAreAList DEF RootCluster, TopLevelOf, DirectoryOf, Paths
<1>4. SeedOf(f) \in Paths
  <2>1. CASE \A i \in group : i > MaxGroupDepth + 1
    BY <2>1 DEF SeedOf, Paths
  <2>2. CASE ~\A i \in group : i > MaxGroupDepth + 1
    <3>1. group # {} /\ group \in SUBSET Nat
      BY <1>2, <2>2
    <3> DEFINE first == Min(group)
               end   == Min({first + 1, Len(directories)})
    <3>2. first \in group
      <4> HIDE DEF group
      <4>1. \E x \in group : \A y \in group : x =< y
        BY <3>1, LeastNat
      <4> QED
        BY <4>1 DEF Min
    <3>3. end \in {first + 1, Len(directories)} /\ end <= Len(directories)
      <4>1. first + 1 \in Nat
        BY <1>2, <3>2
      <4> HIDE DEF first
      <4>2. \E x \in {first + 1, Len(directories)} : \A y \in {first + 1, Len(directories)} : x =< y
        BY <1>2, <4>1
      <4>3. end \in {first + 1, Len(directories)} /\ \A y \in {first + 1, Len(directories)} : end =< y
        BY <4>2 DEF Min
      <4> QED
        BY <4>3
    <3>4. end \in Nat
      BY <1>2, <3>2, <3>3
    <3> HIDE DEF end
    <3>5. SubSeq(directories, 1, end) \in Seq(Range(Names))
      <4>1. \A S, d : d \in Seq(S) /\ end <= Len(d) => SubSeq(d, 1, end) \in Seq(S)
        BY <3>4
      <4> QED
        BY <1>2, <3>3, <4>1
    <3>6. SeedOf(f) = SubSeq(directories, 1, end)
      BY <2>2 DEF SeedOf, end
    <3> QED
      BY <3>5, <3>6 DEF Paths
  <2> QED
    BY <2>1, <2>2
<1>5. Seeded(f) \in Paths
  BY <1>3, <1>4 DEF Seeded
<1> QED
  BY <1>1, <1>3, <1>4, <1>5 DEF Paths

(* What a file without a seed takes: nothing, or the label of a neighbour.     *)
LEMMA TakesANeighboursLabel ==
    ASSUME IsFiniteSet(Visible), edges \subseteq EdgesIn, Numbers(sizes),
           NEW assign, DOMAIN assign \subseteq Visible, assign \in [DOMAIN assign -> Paths], NEW f
    PROVE  /\ DOMAIN Score(f, assign) = {} <=> \A g \in DOMAIN assign : ~Adjacent(g, f)
           /\ DOMAIN Score(f, assign) = {} => TakesTheBest(assign, f) = assign
           /\ DOMAIN Score(f, assign) # {} =>
                 /\ DOMAIN TakesTheBest(assign, f) = DOMAIN assign \cup {f}
                 /\ \A g \in DOMAIN assign \ {f} : TakesTheBest(assign, f)[g] = assign[g]
                 /\ TakesTheBest(assign, f)[f] = Best(Score(f, assign), sizes)
                 /\ \E g \in DOMAIN assign : Adjacent(g, f) /\ TakesTheBest(assign, f)[f] = assign[g]
<1> DEFINE score == Score(f, assign)
<1>1. DOMAIN score = {assign[Other(e, f)] : e \in Scoring(f, assign)}
  BY DEF Score
<1>2. ASSUME NEW e \in Scoring(f, assign) PROVE Other(e, f) \in DOMAIN assign /\ Adjacent(Other(e, f), f)
  BY DEF Scoring, Adjacent, Other
<1>3. ASSUME NEW g \in DOMAIN assign, Adjacent(g, f) PROVE \E e \in Scoring(f, assign) : TRUE
  <2>1. PICK e \in edges : {e.from, e.to} = {g, f}
    BY <1>3 DEF Adjacent
  <2>2. f \in {e.from, e.to} /\ Other(e, f) = g
    BY <2>1 DEF Other
  <2> QED
    BY <2>1, <2>2 DEF Scoring
<1>4. DOMAIN score \subseteq {assign[g] : g \in DOMAIN assign} /\ DOMAIN score \subseteq Paths
  BY <1>1, <1>2
<1>5. IsFiniteSet(DOMAIN score)
  <2>1. IsFiniteSet({assign[g] : g \in DOMAIN assign})
    BY FS_Subset, ImageIsFinite
  <2> HIDE DEF score
  <2> QED
    BY <1>4, <2>1, FS_Subset
<1>6. Numbers(score)
  <2> SUFFICES ASSUME NEW k \in DOMAIN score PROVE score[k] \in Nat
    BY DEF Numbers
  <2> DEFINE voting == {e \in Scoring(f, assign) : assign[Other(e, f)] = k}
             seeded == {e \in voting : Other(e, f) \in SeedFiles}
  <2>1. IsFiniteSet(edges)
    BY EdgesAreFinite, FS_Subset
  <2>2. voting \in SUBSET edges /\ seeded \in SUBSET edges
    BY DEF Scoring
  <2>3. score[k] = Cardinality(voting) + Cardinality(seeded)
    BY DEF Score
  <2> HIDE DEF voting, seeded
  <2>4. Cardinality(voting) \in Nat /\ Cardinality(seeded) \in Nat
    BY <2>1, <2>2, FS_Subset, FS_CardinalityType
  <2> QED
    BY <2>3, <2>4
<1>7. DOMAIN score # {} => Best(score, sizes) \in DOMAIN score
  BY <1>4, <1>5, <1>6, BestExists
<1> HIDE DEF score
<1>8. DOMAIN score = {} <=> \A g \in DOMAIN assign : ~Adjacent(g, f)
  BY <1>1, <1>2, <1>3
<1>9. ASSUME DOMAIN score # {} PROVE \E g \in DOMAIN assign : Adjacent(g, f) /\ Best(score, sizes) = assign[g]
  BY <1>1, <1>2, <1>7, <1>9
<1> QED
  BY <1>8, <1>9 DEF score, TakesTheBest

-----------------------------------------------------------------------------
(* What is read, and the clustering from the seeds to the last merge.          *)
Reading   == {"list", "read", "seed"}
Spreading == {"round", "spread", "rest"}
Merging   == {"slugs", "seams", "small", "select", "printed"}

ClusterTypes(cl) ==
    /\ cl = [assign |-> cl.assign, seeds |-> cl.seeds, dirs |-> cl.dirs]
    /\ DOMAIN cl.assign \subseteq Visible /\ cl.assign \in [DOMAIN cl.assign -> Paths]
    /\ cl.seeds \subseteq Paths

(* Where there are seeds, a file is where the directory of its seed is.        *)
AnchoredBy(cl) ==
    HasGroupLayout => \A f \in SeedFiles :
        /\ f \in DOMAIN cl.assign /\ SeedOf(f) \in DirsOf(cl, cl.assign[f])
        /\ \A k \in DOMAIN cl.dirs : SeedOf(f) \in cl.dirs[k] => cl.assign[f] = k

Lonely(key, assign) == ~IsSmall(key, assign) \/ Crossing(key, assign) = {}

(* A section has the files of its cluster, and what they use lies behind edges.*)
SectionOf(s, assign) ==
    /\ s.key \in KeysOf(assign) /\ s.files = Members(assign, s.key)
    /\ Crossing(s.key, assign) = {} => s.out = {}

MapInv ==
    /\ mapStep \in Reading \cup Spreading \cup Merging
    /\ mapStep = "list" \/ project \in Projects
    /\ edges \subseteq EdgesIn /\ (mapStep \in {"list", "read"} => edges = {})
    /\ Numbers(sizes) /\ (mapStep \in Reading => round = 0)
    /\ mapStep \notin Reading => ClusterTypes(clustering) /\ AnchoredBy(clustering)
    /\ mapStep \in Merging => DOMAIN clustering.assign = Visible
    /\ mapStep = "spread" => todo \subseteq Visible \ SeedFiles
    /\ mapStep = "slugs" => todo \subseteq clustering.seeds
    /\ mapStep = "seams" => \A p \in todo : p \in Paths \X Paths /\ p[1] # p[2]
    /\ mapStep = "small" => \A k \in KeysOf(clustering.assign) \ todo : Lonely(k, clustering.assign)
    /\ mapStep = "select" => /\ \A k \in KeysOf(clustering.assign) : Lonely(k, clustering.assign)
                             /\ \A s \in sections : SectionOf(s, clustering.assign)

LEMMA MapInvInitially == MapInit => MapInv
  BY DEF MapInit, MapInv, Reading, Spreading, Merging, Numbers, NoProject, EdgesIn

LEMMA ProjectStands ==
    ASSUME project' = project, edges' = edges
    PROVE  /\ Visible' = Visible /\ HasGroupLayout' = HasGroupLayout /\ SeedFiles' = SeedFiles /\ EdgesIn' = EdgesIn
           /\ \A f : Seeded(f)' = Seeded(f)
  BY DEF Visible, HasGroupLayout, SeedFiles, Seeded, EdgesIn

LEMMA SizesAreNumbers ==
    ASSUME IsFiniteSet(Visible), NEW assign, DOMAIN assign \subseteq Visible
    PROVE  Numbers(ClusterSizes(assign)) /\ \A k : IsFiniteSet(Members(assign, k)) /\ Cardinality(Members(assign, k)) \in Nat
<1>1. \A k : IsFiniteSet(Members(assign, k)) /\ Cardinality(Members(assign, k)) \in Nat
  <2> TAKE k
  <2>1. Members(assign, k) \in SUBSET Visible
    BY DEF Members
  <2> QED
    BY <2>1, FS_Subset, FS_CardinalityType
<1> QED
  BY <1>1 DEF Numbers, ClusterSizes

LEMMA MergeKeepsClusters ==
    ASSUME NEW cl, ClusterTypes(cl), NEW from, NEW into \in Paths, from # into
    PROVE  /\ ClusterTypes(MergeKeys(cl, from, into)) /\ DOMAIN MergeKeys(cl, from, into).assign = DOMAIN cl.assign
           /\ MergeKeys(cl, from, into).seeds = cl.seeds \ {from}
           /\ AnchoredBy(cl) => AnchoredBy(MergeKeys(cl, from, into))
<1> DEFINE new == MergeKeys(cl, from, into)
<1>1. /\ new = [assign |-> new.assign, seeds |-> new.seeds, dirs |-> new.dirs]
      /\ new.assign = [f \in DOMAIN cl.assign |-> IF cl.assign[f] = from THEN into ELSE cl.assign[f]]
      /\ new.seeds = cl.seeds \ {from}
      /\ from \notin DOMAIN cl.dirs => new.dirs = cl.dirs
      /\ from \in DOMAIN cl.dirs =>
            new.dirs = [k \in (DOMAIN cl.dirs \cup {into}) \ {from} |->
                          IF k = into THEN DirsOf(cl, into) \cup cl.dirs[from] ELSE cl.dirs[k]]
  BY DEF MergeKeys, Reassigned
<1> HIDE DEF new
<1>2. ClusterTypes(new) /\ DOMAIN new.assign = DOMAIN cl.assign
  BY <1>1 DEF ClusterTypes
<1>3. ASSUME AnchoredBy(cl), HasGroupLayout, NEW f \in SeedFiles
      PROVE  /\ f \in DOMAIN new.assign /\ SeedOf(f) \in DirsOf(new, new.assign[f])
             /\ \A k \in DOMAIN new.dirs : SeedOf(f) \in new.dirs[k] => new.assign[f] = k
  <2>1. /\ f \in DOMAIN cl.assign /\ cl.assign[f] \in DOMAIN cl.dirs /\ SeedOf(f) \in cl.dirs[cl.assign[f]]
        /\ \A k \in DOMAIN cl.dirs : SeedOf(f) \in cl.dirs[k] => cl.assign[f] = k
    BY <1>3 DEF AnchoredBy, DirsOf
  <2>2. CASE from \notin DOMAIN cl.dirs
    BY <1>1, <2>1, <2>2 DEF DirsOf
  <2>3. CASE from \in DOMAIN cl.dirs
    <3>1. /\ DOMAIN new.dirs = (DOMAIN cl.dirs \cup {into}) \ {from}
          /\ new.dirs[into] = DirsOf(cl, into) \cup cl.dirs[from]
          /\ \A k \in DOMAIN cl.dirs \ {into, from} : new.dirs[k] = cl.dirs[k]
      BY <1>1, <2>3
    <3>2. CASE cl.assign[f] = from
      <4>1. new.assign[f] = into
        BY <1>1, <2>1, <3>2
      <4> QED
        BY <1>1, <2>1, <3>1, <3>2, <4>1 DEF DirsOf
    <3>3. CASE cl.assign[f] = into
      <4>1. new.assign[f] = into
        BY <1>1, <2>1, <3>3
      <4> QED
        BY <1>1, <2>1, <3>1, <3>3, <4>1 DEF DirsOf
    <3>4. CASE cl.assign[f] \notin {from, into}
      <4>1. new.assign[f] = cl.assign[f] /\ SeedOf(f) \notin cl.dirs[from] /\ SeedOf(f) \notin DirsOf(cl, into)
        BY <1>1, <2>1, <2>3, <3>4 DEF DirsOf
      <4> QED
        BY <1>1, <2>1, <3>1, <3>4, <4>1 DEF DirsOf
    <3> QED
      BY <3>2, <3>3, <3>4
  <2> QED
    BY <2>2, <2>3
<1>4. AnchoredBy(cl) => AnchoredBy(new)
  BY <1>3 DEF AnchoredBy
<1> QED
  BY <1>1, <1>2, <1>4 DEF new

(* A small cluster that joins another leaves no third one small and joined.    *)
LEMMA MergeKeepsLonely ==
    ASSUME IsFiniteSet(Visible), edges \subseteq EdgesIn, NEW cl, DOMAIN cl.assign = Visible,
           NEW from, NEW into \in DOMAIN SharedEdges(from, cl.assign), NEW k, k # from, Lonely(k, cl.assign)
    PROVE  Lonely(k, Reassigned(cl, from, into))
<1> DEFINE assign == cl.assign
           new    == Reassigned(cl, from, into)
<1>1. DOMAIN new = Visible /\ \A f \in Visible : new[f] = IF assign[f] = from THEN into ELSE assign[f]
  BY DEF Reassigned
<1>2. \A e \in edges : e.from \in Visible /\ e.to \in Visible
  BY DEF EdgesIn
<1>3. PICK e \in Crossing(from, assign) : into = Beyond(from, assign, e)
  BY DEF SharedEdges
<1>4. into # from /\ e \in edges /\ e \in Crossing(into, assign)
  BY <1>3 DEF Crossing, Beyond
<1> HIDE DEF new, assign
<1>5. CASE k = into
  <2>1. ~IsSmall(into, assign)
    BY <1>4, <1>5 DEF Lonely, assign
  <2>2. Members(assign, into) \in SUBSET Members(new, into)
    BY <1>1, <1>4 DEF Members, assign
  <2>3. IsFiniteSet(Members(new, into)) /\ Cardinality(Members(new, into)) \in Nat /\ Cardinality(Members(assign, into)) \in Nat
    BY <1>1, SizesAreNumbers DEF assign
  <2>4. Cardinality(Members(assign, into)) <= Cardinality(Members(new, into))
    BY <2>2, <2>3, FS_Subset
  <2>5. ~IsSmall(into, new)
    BY <2>1, <2>3, <2>4, RoundsAreNaturals DEF IsSmall
  <2> QED
    BY <1>5, <2>5 DEF Lonely, new
<1>6. CASE k # into
  <2>1. \A f \in Visible : new[f] = k <=> assign[f] = k
    BY <1>1, <1>4, <1>6
  <2>2. Members(new, k) = Members(assign, k)
    BY <1>1, <2>1 DEF Members, assign
  <2>3. ASSUME NEW d \in edges, d \in Crossing(k, new) PROVE d \in Crossing(k, assign)
    <3>1. d.from \in Visible /\ d.to \in Visible /\ k \in {new[d.from], new[d.to]} /\ new[d.from] # new[d.to]
      BY <1>2, <2>3 DEF Crossing
    <3>2. k \in {assign[d.from], assign[d.to]} /\ assign[d.from] # assign[d.to]
      BY <1>1, <2>1, <3>1
    <3> QED
      BY <3>2 DEF Crossing
  <2>4. Crossing(k, assign) = {} => Crossing(k, new) = {}
    BY <2>3 DEF Crossing
  <2> QED
    BY <2>2, <2>4 DEF Lonely, IsSmall, new, assign
<1> QED
  BY <1>5, <1>6

(* The best of the clusters that share an edge with a small one is another.    *)
LEMMA SharedEdgesScore ==
    ASSUME IsFiniteSet(Visible), edges \subseteq EdgesIn, NEW cl, ClusterTypes(cl), DOMAIN cl.assign = Visible, NEW key
    PROVE  LET score == SharedEdges(key, cl.assign)
               into  == Best(score, ClusterSizes(cl.assign))
           IN /\ DOMAIN score = {} => Crossing(key, cl.assign) = {}
              /\ DOMAIN score # {} => into \in DOMAIN score /\ into \in Paths /\ into # key
<1> DEFINE assign == cl.assign
           score  == SharedEdges(key, assign)
<1>1. DOMAIN score = {Beyond(key, assign, e) : e \in Crossing(key, assign)}
  BY DEF SharedEdges
<1>2. ASSUME NEW e \in Crossing(key, assign)
      PROVE  Beyond(key, assign, e) # key /\ Beyond(key, assign, e) \in {assign[g] : g \in Visible} /\ Beyond(key, assign, e) \in Paths
  <2>1. e.from \in Visible /\ e.to \in Visible
    BY DEF Crossing, EdgesIn
  <2> QED
    BY <1>2, <2>1 DEF Crossing, Beyond, ClusterTypes
<1>3. IsFiniteSet(DOMAIN score)
  <2>1. IsFiniteSet({assign[g] : g \in Visible})
    BY ImageIsFinite
  <2>2. DOMAIN score \in SUBSET {assign[g] : g \in Visible}
    BY <1>1, <1>2
  <2> QED
    BY <2>1, <2>2, FS_Subset
<1>4. Numbers(score)
  <2> SUFFICES ASSUME NEW k \in DOMAIN score PROVE score[k] \in Nat
    BY DEF Numbers
  <2> DEFINE shared == {e \in Crossing(key, assign) : Beyond(key, assign, e) = k}
  <2>1. IsFiniteSet(edges) /\ shared \in SUBSET edges
    BY EdgesAreFinite, FS_Subset DEF Crossing
  <2>2. score[k] = Cardinality(shared)
    BY DEF SharedEdges
  <2> HIDE DEF shared
  <2> QED
    BY <2>1, <2>2, FS_Subset, FS_CardinalityType
<1>5. Numbers(ClusterSizes(assign))
  BY SizesAreNumbers
<1>6. DOMAIN score \subseteq Paths
  BY <1>1, <1>2
<1>7. DOMAIN score # {} => Best(score, ClusterSizes(assign)) \in DOMAIN score
  <2> HIDE DEF score
  <2> QED
    BY <1>3, <1>4, <1>5, <1>6, BestExists
<1> HIDE DEF score
<1> QED
  BY <1>1, <1>2, <1>7 DEF score

LEMMA MapInvStep == MapInv /\ [MapNext]_mapVars => MapInv'
<1> SUFFICES ASSUME MapInv, [MapNext]_mapVars PROVE MapInv'
  OBVIOUS
<1> USE DEF Reading, Spreading, Merging
<1>0. mapStep # "list" => project \in Projects /\ IsFiniteSet(Visible)
  BY EdgesStayInside DEF MapInv
<1>1. CASE ListVisibleFiles
  BY <1>1 DEF ListVisibleFiles, Moves, loopVars, MapInv, EdgesIn, Numbers
<1>2. CASE ReadEdges
  <2>1. Visible' = Visible /\ EdgesIn' = EdgesIn /\ AllEdges \subseteq EdgesIn
    BY <1>2, EdgesStayInside DEF ReadEdges, Moves, MapInv, Visible, EdgesIn
  <2> QED
    BY <1>2, <2>1 DEF ReadEdges, Moves, loopVars, MapInv, Numbers
<1>3. CASE AssignSeeds
  <2> DEFINE seeds == IF HasGroupLayout THEN {Seeded(f) : f \in SeedFiles} ELSE {}
             new   == [assign |-> [f \in SeedFiles |-> Seeded(f)], seeds |-> seeds, dirs |-> [s \in seeds |-> {s}]]
  <2>1. clustering' = new /\ project' = project /\ edges' = edges /\ project \in Projects
    BY <1>3 DEF AssignSeeds, Moves, MapInv
  <2>2. \A f \in SeedFiles : f \in Visible /\ Seeded(f) \in Paths
    BY <2>1, SeedsArePaths DEF SeedFiles
  <2>3. ClusterTypes(new)
    BY <2>2 DEF ClusterTypes
  <2>4. AnchoredBy(new)
    <3> SUFFICES ASSUME HasGroupLayout, NEW f \in SeedFiles
                 PROVE  /\ f \in DOMAIN new.assign /\ SeedOf(f) \in DirsOf(new, new.assign[f])
                        /\ \A k \in DOMAIN new.dirs : SeedOf(f) \in new.dirs[k] => new.assign[f] = k
      BY DEF AnchoredBy
    <3>1. SeedOf(f) = Seeded(f) /\ Seeded(f) \in seeds
      BY DEF Seeded
    <3> HIDE DEF seeds
    <3> QED
      BY <3>1 DEF DirsOf
  <2> HIDE DEF new
  <2>5. ClusterTypes(clustering)' /\ AnchoredBy(clustering)'
    BY <2>1, <2>3, <2>4, ProjectStands DEF ClusterTypes, AnchoredBy, DirsOf
  <2> QED
    BY <1>3, <2>1, <2>5, ProjectStands DEF AssignSeeds, Moves, loopVars, MapInv, Numbers
<1>4. CASE BeginRound
  <2>1. project' = project /\ edges' = edges /\ clustering' = clustering
    BY <1>4 DEF BeginRound, Moves
  <2>2. ClusterTypes(clustering)' /\ AnchoredBy(clustering)'
    BY <1>4, <2>1, ProjectStands DEF BeginRound, Moves, MapInv, ClusterTypes, AnchoredBy, DirsOf
  <2>3. Numbers(ClusterSizes(clustering.assign))
    BY <1>0, <1>4, SizesAreNumbers DEF BeginRound, Moves, MapInv, ClusterTypes
  <2>4. Numbers(sizes)'
    BY <1>4, <2>3 DEF BeginRound, Numbers
  <2> QED
    BY <1>4, <2>1, <2>2, <2>4, ProjectStands DEF BeginRound, Moves, MapInv
<1>5. CASE Spread
  <2>1. PICK f \in todo : /\ mapStep = "spread" /\ Visits(f, Before) /\ UNCHANGED <<round, sizes>>
                          /\ clustering' = [clustering EXCEPT !.assign = TakesTheBest(@, f)]
    BY <1>5 DEF Spread
  <2> DEFINE assign == clustering.assign
             new    == TakesTheBest(assign, f)
  <2>2. /\ project' = project /\ edges' = edges /\ project \in Projects /\ IsFiniteSet(Visible) /\ edges \subseteq EdgesIn
        /\ mapStep' = "spread" /\ todo' \subseteq Visible \ SeedFiles /\ f \in Visible \ SeedFiles /\ sizes' = sizes /\ Numbers(sizes)
        /\ ClusterTypes(clustering) /\ AnchoredBy(clustering)
    BY <1>0, <2>1 DEF Visits, MapInv
  <2>3. /\ DOMAIN new \subseteq Visible /\ new \in [DOMAIN new -> Paths]
        /\ \A g \in SeedFiles \cap DOMAIN assign : g \in DOMAIN new /\ new[g] = assign[g]
    <3>1. DOMAIN assign \subseteq Visible /\ assign \in [DOMAIN assign -> Paths]
      BY <2>2 DEF ClusterTypes
    <3>2. CASE DOMAIN Score(f, assign) = {}
      <4>1. new = assign
        BY <2>2, <3>1, <3>2, TakesANeighboursLabel
      <4> QED
        BY <3>1, <4>1
    <3>3. CASE DOMAIN Score(f, assign) # {}
      <4>1. /\ DOMAIN new = DOMAIN assign \cup {f} /\ \A g \in DOMAIN assign \ {f} : new[g] = assign[g]
            /\ \E g \in DOMAIN assign : new[f] = assign[g]
        BY <2>2, <3>1, <3>3, TakesANeighboursLabel
      <4>2. new = [g \in DOMAIN new |-> new[g]]
        BY <3>3 DEF TakesTheBest
      <4> HIDE DEF new
      <4> QED
        BY <2>2, <3>1, <4>1, <4>2
    <3> QED
      BY <3>2, <3>3
  <2> HIDE DEF new
  <2>4. /\ clustering'.assign = new /\ clustering'.seeds = clustering.seeds /\ clustering'.dirs = clustering.dirs
        /\ clustering' = [assign |-> clustering'.assign, seeds |-> clustering'.seeds, dirs |-> clustering'.dirs]
    BY <2>1, <2>2 DEF ClusterTypes, new
  <2>5. ClusterTypes(clustering)'
    BY <2>2, <2>3, <2>4, ProjectStands DEF ClusterTypes
  <2>6. AnchoredBy(clustering)'
    BY <2>2, <2>3, <2>4, ProjectStands DEF AnchoredBy, DirsOf
  <2> QED
    BY <2>2, <2>5, <2>6, ProjectStands DEF MapInv, Numbers
<1>6. CASE EndRound
  <2>1. project' = project /\ edges' = edges /\ clustering' = clustering /\ mapStep' \in {"round", "rest"} /\ sizes' = sizes
    BY <1>6 DEF EndRound
  <2>2. ClusterTypes(clustering)' /\ AnchoredBy(clustering)'
    BY <1>6, <2>1, ProjectStands DEF EndRound, MapInv, ClusterTypes, AnchoredBy, DirsOf
  <2> QED
    BY <1>6, <2>1, <2>2, ProjectStands DEF EndRound, MapInv, Numbers
<1>7. CASE LeaveToDirectories
  <2> DEFINE assign == clustering.assign
             new    == LeftToDirectories(assign)
  <2>1. /\ project' = project /\ edges' = edges /\ project \in Projects /\ sizes' = sizes /\ mapStep' = "slugs" /\ round' = round
        /\ ClusterTypes(clustering) /\ AnchoredBy(clustering)
        /\ clustering' = [clustering EXCEPT !.assign = new] /\ todo' = clustering.seeds
    BY <1>7 DEF LeaveToDirectories, Moves, loopVars, MapInv
  <2>2. /\ DOMAIN new = Visible /\ new \in [Visible -> Paths]
        /\ \A g \in DOMAIN assign : g \in DOMAIN new /\ new[g] = assign[g]
    BY <2>1, SeedsArePaths DEF LeftToDirectories, ClusterTypes
  <2> HIDE DEF new
  <2>3. /\ clustering'.assign = new /\ clustering'.seeds = clustering.seeds /\ clustering'.dirs = clustering.dirs
        /\ clustering' = [assign |-> clustering'.assign, seeds |-> clustering'.seeds, dirs |-> clustering'.dirs]
    BY <2>1 DEF ClusterTypes
  <2>4. ClusterTypes(clustering)'
    BY <2>1, <2>2, <2>3, ProjectStands DEF ClusterTypes
  <2>5. AnchoredBy(clustering)'
    <3>1. /\ clustering'.dirs = clustering.dirs /\ SeedFiles' = SeedFiles /\ HasGroupLayout' = HasGroupLayout
          /\ \A g \in DOMAIN assign : g \in DOMAIN clustering'.assign /\ clustering'.assign[g] = assign[g]
      BY <2>1, <2>2, <2>3, ProjectStands
    <3> QED
      BY <2>1, <3>1 DEF AnchoredBy, DirsOf
  <2> QED
    BY <2>1, <2>2, <2>3, <2>4, <2>5, ProjectStands DEF MapInv, Numbers
<1>8. ASSUME NEW from, NEW into \in Paths, from # into, clustering' = MergeKeys(clustering, from, into),
             project' = project, ClusterTypes(clustering), AnchoredBy(clustering), DOMAIN clustering.assign = Visible
      PROVE  /\ ClusterTypes(clustering)' /\ AnchoredBy(clustering)' /\ DOMAIN clustering'.assign = Visible'
             /\ clustering'.seeds = clustering.seeds \ {from}
  <2> DEFINE new == MergeKeys(clustering, from, into)
  <2>1. ClusterTypes(new) /\ DOMAIN new.assign = Visible /\ AnchoredBy(new) /\ new.seeds = clustering.seeds \ {from}
    BY <1>8, MergeKeepsClusters
  <2> HIDE DEF new
  <2>2. clustering' = new
    BY <1>8 DEF new
  <2>3. Visible' = Visible /\ HasGroupLayout' = HasGroupLayout /\ SeedFiles' = SeedFiles
    BY <1>8 DEF Visible, HasGroupLayout, SeedFiles, Seeded
  <2> QED
    BY <2>1, <2>2, <2>3 DEF ClusterTypes, AnchoredBy, DirsOf
<1>9. ASSUME clustering' = clustering, project' = project, edges' = edges, mapStep \in Merging
      PROVE  ClusterTypes(clustering)' /\ AnchoredBy(clustering)' /\ DOMAIN clustering'.assign = Visible'
  BY <1>9, ProjectStands DEF MapInv, ClusterTypes, AnchoredBy, DirsOf
<1>10. CASE MergeSameSlug
  <2>1. PICK seed \in todo :
           /\ mapStep = "slugs" /\ Visits(seed, Before) /\ UNCHANGED loopVars
           /\ LET canonical == {x \in clustering.seeds \ todo : Slug(x) = Slug(seed)}
              IN clustering' = IF canonical = {} THEN clustering ELSE MergeKeys(clustering, seed, CHOOSE x \in canonical : TRUE)
    BY <1>10 DEF MergeSameSlug
  <2>2. /\ project' = project /\ project \in Projects /\ edges' = edges /\ mapStep' = "slugs" /\ sizes' = sizes /\ todo' = todo \ {seed}
        /\ todo \subseteq clustering.seeds /\ ClusterTypes(clustering) /\ AnchoredBy(clustering) /\ DOMAIN clustering.assign = Visible
    BY <2>1 DEF Visits, loopVars, MapInv
  <2>3. ClusterTypes(clustering)' /\ AnchoredBy(clustering)' /\ DOMAIN clustering'.assign = Visible' /\ todo' \subseteq clustering'.seeds
    <3> DEFINE canonical == {x \in clustering.seeds \ todo : Slug(x) = Slug(seed)}
    <3>1. CASE canonical = {}
      <4>1. clustering' = clustering
        BY <2>1, <3>1
      <4> QED
        BY <1>9, <2>1, <2>2, <4>1
    <3>2. CASE canonical # {}
      <4>1. PICK x \in canonical : clustering' = MergeKeys(clustering, seed, x)
        BY <2>1, <3>2
      <4>2. x \in Paths /\ x # seed
        BY <2>2 DEF ClusterTypes
      <4> QED
        BY <1>8, <2>2, <4>1, <4>2
    <3> QED
      BY <3>1, <3>2
  <2> QED
    BY <2>2, <2>3, ProjectStands DEF MapInv, Numbers
<1>11. CASE CountSeams
  <2>1. /\ project' = project /\ edges' = edges /\ clustering' = clustering /\ mapStep = "slugs" /\ mapStep' = "seams" /\ sizes' = sizes
        /\ todo' = SeamedPairs(clustering.assign)
    BY <1>11 DEF CountSeams, Moves, loopVars
  <2>2. \A p \in SeamedPairs(clustering.assign) : p \in Paths \X Paths /\ p[1] # p[2]
    <3>1. KeysOf(clustering.assign) \subseteq Paths
      BY <2>1 DEF MapInv, ClusterTypes, KeysOf
    <3> QED
      BY <3>1, BeforeIsIrreflexive DEF SeamedPairs
  <2> QED
    BY <1>9, <2>1, <2>2, ProjectStands DEF MapInv, Numbers
<1>12. CASE MergeSeamed
  <2>1. PICK p \in todo :
           /\ mapStep = "seams" /\ Visits(p, PairBefore) /\ UNCHANGED loopVars
           /\ clustering' = IF {p[1], p[2]} \subseteq clustering.seeds THEN MergeKeys(clustering, p[2], p[1]) ELSE clustering
    BY <1>12 DEF MergeSeamed
  <2>2. /\ project' = project /\ edges' = edges /\ mapStep' = "seams" /\ sizes' = sizes /\ todo' = todo \ {p}
        /\ p[1] \in Paths /\ p[1] # p[2] /\ ClusterTypes(clustering) /\ AnchoredBy(clustering) /\ DOMAIN clustering.assign = Visible
    BY <2>1 DEF Visits, loopVars, MapInv
  <2>3. ClusterTypes(clustering)' /\ AnchoredBy(clustering)' /\ DOMAIN clustering'.assign = Visible'
    BY <1>8, <1>9, <2>1, <2>2
  <2> QED
    BY <2>1, <2>2, <2>3, ProjectStands DEF MapInv, Numbers
<1>13. CASE CountSmall
  <2>1. /\ project' = project /\ edges' = edges /\ clustering' = clustering /\ mapStep = "seams" /\ mapStep' = "small" /\ sizes' = sizes
        /\ todo' = {k \in KeysOf(clustering.assign) : IsSmall(k, clustering.assign)}
    BY <1>13 DEF CountSmall, Moves, loopVars
  <2> QED
    BY <1>9, <2>1, ProjectStands DEF MapInv, Numbers, Lonely, KeysOf, IsSmall, Members
<1>14. CASE MergeSmall
  <2>1. PICK key \in todo :
           /\ mapStep = "small" /\ Visits(key, Before) /\ UNCHANGED loopVars
           /\ LET score == SharedEdges(key, clustering.assign)
              IN clustering' = IF IsSmall(key, clustering.assign) /\ DOMAIN score # {}
                               THEN MergeKeys(clustering, key, Best(score, ClusterSizes(clustering.assign))) ELSE clustering
    BY <1>14 DEF MergeSmall
  <2> DEFINE assign == clustering.assign
             score  == SharedEdges(key, assign)
             into   == Best(score, ClusterSizes(assign))
  <2>2. /\ project' = project /\ edges' = edges /\ mapStep' = "small" /\ sizes' = sizes /\ todo' = todo \ {key}
        /\ ClusterTypes(clustering) /\ AnchoredBy(clustering) /\ DOMAIN assign = Visible
        /\ edges \subseteq EdgesIn /\ IsFiniteSet(Visible)
        /\ \A k \in KeysOf(assign) \ todo : Lonely(k, assign)
    BY <1>0, <2>1 DEF Visits, loopVars, MapInv
  <2>3. /\ DOMAIN score = {} => Crossing(key, assign) = {}
        /\ DOMAIN score # {} => into \in DOMAIN score /\ into \in Paths /\ into # key
    BY <2>2, SharedEdgesScore
  <2>4. CASE IsSmall(key, assign) /\ DOMAIN score # {}
    <3>1. clustering' = MergeKeys(clustering, key, into)
      BY <2>1, <2>4
    <3> DEFINE new == Reassigned(clustering, key, into)
    <3>2. clustering'.assign = new
      BY <3>1 DEF MergeKeys
    <3>3. DOMAIN new = Visible /\ \A f \in Visible : new[f] = IF assign[f] = key THEN into ELSE assign[f]
      BY <2>2 DEF Reassigned
    <3> HIDE DEF new, into, score
    <3>4. into \in KeysOf(assign)
      <4>1. PICK e \in edges : e \in Crossing(key, assign) /\ into = Beyond(key, assign, e)
        BY <2>3, <2>4 DEF score, SharedEdges, Crossing
      <4>2. e.from \in Visible /\ e.to \in Visible
        BY <2>2 DEF EdgesIn
      <4> QED
        BY <2>2, <4>1, <4>2 DEF Beyond, KeysOf
    <3>5. ASSUME NEW k \in KeysOf(new) \ todo' PROVE Lonely(k, new)
      <4>1. PICK f \in Visible : k = new[f]
        BY <3>3 DEF KeysOf
      <4>2. k # key /\ k \in KeysOf(assign)
        BY <2>2, <2>3, <2>4, <3>3, <3>4, <4>1 DEF KeysOf
      <4>3. Lonely(k, assign)
        BY <2>2, <3>5, <4>2
      <4>4. into \in DOMAIN SharedEdges(key, assign)
        BY <2>3, <2>4 DEF score
      <4> QED
        BY <2>2, <4>2, <4>3, <4>4, MergeKeepsLonely DEF new
    <3>6. \A k \in KeysOf(clustering'.assign) \ todo' : Lonely(k, clustering.assign)'
      BY <2>2, <3>2, <3>5 DEF Lonely, IsSmall, Members, Crossing
    <3>7. ClusterTypes(clustering)' /\ AnchoredBy(clustering)' /\ DOMAIN clustering'.assign = Visible'
      BY <1>8, <2>2, <2>3, <2>4, <3>1
    <3>8. \A k \in (KeysOf(clustering.assign) \ todo)' : Lonely(k, clustering.assign)'
      BY <3>6 DEF KeysOf
    <3> QED
      BY <2>1, <2>2, <3>7, <3>8, ProjectStands DEF MapInv, Numbers
  <2>5. CASE ~(IsSmall(key, assign) /\ DOMAIN score # {})
    <3>1. clustering' = clustering
      BY <2>1, <2>5
    <3>2. Lonely(key, assign)
      BY <2>3, <2>5 DEF Lonely
    <3>3. \A k \in KeysOf(assign) \ todo' : Lonely(k, assign)
      BY <2>2, <3>2
    <3>4. \A k \in (KeysOf(clustering.assign) \ todo)' : Lonely(k, clustering.assign)'
      BY <2>2, <3>1, <3>3 DEF KeysOf, Lonely, IsSmall, Members, Crossing
    <3>5. ClusterTypes(clustering)' /\ AnchoredBy(clustering)' /\ DOMAIN clustering'.assign = Visible'
      BY <1>9, <2>1, <2>2, <3>1
    <3> QED
      BY <2>1, <2>2, <3>4, <3>5, ProjectStands DEF MapInv, Numbers
  <2> QED
    BY <2>4, <2>5
<1>15. CASE NameSections
  <2>1. /\ project' = project /\ edges' = edges /\ clustering' = clustering /\ mapStep = "small" /\ mapStep' = "select" /\ sizes' = sizes
        /\ todo = {} /\ sections' = {Section(key, Ids) : key \in KeysOf(clustering.assign)}
    BY <1>15 DEF NameSections, Moves, loopVars
  <2>2. \A k \in KeysOf(clustering.assign) : Lonely(k, clustering.assign)
    BY <2>1 DEF MapInv
  <2>3. \A k \in KeysOf(clustering'.assign) : Lonely(k, clustering.assign)'
    BY <2>1, <2>2 DEF Lonely, IsSmall, Members, Crossing
  <2>4. ASSUME NEW key \in KeysOf(clustering.assign) PROVE SectionOf(Section(key, Ids), clustering.assign)
    <3> DEFINE s == Section(key, Ids)
    <3>1. /\ s.key = key /\ s.files = Members(clustering.assign, key)
          /\ s.out = {Ids[clustering.assign[e.to]] : e \in {x \in edges : x.from \in s.files /\ x.to \notin s.files}}
      BY DEF Section
    <3>2. ASSUME NEW e \in edges, e.from \in s.files, e.to \notin s.files PROVE e \in Crossing(key, clustering.assign)
      <4>1. DOMAIN clustering.assign = Visible /\ e.to \in Visible
        BY <2>1 DEF MapInv, EdgesIn
      <4> QED
        BY <3>1, <3>2, <4>1 DEF Members, Crossing
    <3> HIDE DEF s
    <3>3. Crossing(key, clustering.assign) = {} => s.out = {}
      BY <3>1, <3>2
    <3> QED
      BY <3>1, <3>3 DEF SectionOf, s
  <2>5. \A s \in sections' : SectionOf(s, clustering.assign)'
    BY <2>1, <2>4 DEF SectionOf, KeysOf, Members, Crossing
  <2> QED
    BY <1>9, <2>1, <2>3, <2>5, ProjectStands DEF MapInv, Numbers, KeysOf
<1>16. CASE Select
  <2>1. project' = project /\ edges' = edges /\ clustering' = clustering /\ mapStep = "select" /\ mapStep' = "printed" /\ sizes' = sizes
    BY <1>16 DEF Select, Moves, loopVars
  <2> QED
    BY <1>9, <2>1, ProjectStands DEF MapInv, Numbers
<1>17. CASE UNCHANGED mapVars
  <2>1. /\ project' = project /\ edges' = edges /\ clustering' = clustering /\ mapStep' = mapStep /\ sizes' = sizes
        /\ round' = round /\ todo' = todo /\ sections' = sections
    BY <1>17 DEF mapVars
  <2>2. \A k : Lonely(k, clustering.assign)' <=> Lonely(k, clustering.assign)
    BY <2>1 DEF Lonely, IsSmall, Members, Crossing
  <2>3. \A s : SectionOf(s, clustering.assign)' <=> SectionOf(s, clustering.assign)
    BY <2>1 DEF SectionOf, KeysOf, Members, Crossing
  <2>4. mapStep \notin Reading => ClusterTypes(clustering)' /\ AnchoredBy(clustering)'
    BY <2>1, ProjectStands DEF MapInv, ClusterTypes, AnchoredBy, DirsOf
  <2> QED
    BY <2>1, <2>2, <2>3, <2>4, ProjectStands DEF MapInv, Numbers, KeysOf
<1> QED
  BY <1>1, <1>2, <1>3, <1>4, <1>5, <1>6, <1>7, <1>10, <1>11, <1>12, <1>13, <1>14, <1>15, <1>16, <1>17 DEF MapNext

(* When the sections are named, a file of a seed directory is in the section    *)
(* anchored there and in no other, and a small section has no edge to others.   *)
THEOREM MergesKeepTheirAnchors == MapSpec => []MergesKeepAnchors
<1>1. ASSUME MapInv PROVE MergesKeepAnchors
  <2> SUFFICES ASSUME mapStep = "select", NEW s \in sections
               PROVE  /\ HasGroupLayout => \A f \in SeedFiles : f \in s.files <=> SeedOf(f) \in DirsOf(clustering, s.key)
                      /\ Cardinality(s.files) < SmallClusterFiles =>
                            s.out = {} /\ \A e \in edges : e.to \in s.files => e.from \in s.files
    BY DEF MergesKeepAnchors
  <2> DEFINE assign == clustering.assign
  <2>1. /\ s.key \in KeysOf(assign) /\ s.files = Members(assign, s.key) /\ (Crossing(s.key, assign) = {} => s.out = {})
        /\ Lonely(s.key, assign) /\ AnchoredBy(clustering) /\ DOMAIN assign = Visible /\ edges \subseteq EdgesIn
    BY <1>1 DEF MapInv, SectionOf, Reading, Merging
  <2>2. ASSUME HasGroupLayout, NEW f \in SeedFiles PROVE f \in s.files <=> SeedOf(f) \in DirsOf(clustering, s.key)
    BY <2>1, <2>2 DEF AnchoredBy, Members, DirsOf
  <2>3. ASSUME Cardinality(s.files) < SmallClusterFiles
        PROVE  s.out = {} /\ \A e \in edges : e.to \in s.files => e.from \in s.files
    <3>1. Crossing(s.key, assign) = {}
      BY <2>1, <2>3 DEF Lonely, IsSmall
    <3>2. ASSUME NEW e \in edges, e.to \in s.files PROVE e.from \in s.files
      <4>1. e.from \in Visible
        BY <2>1 DEF EdgesIn
      <4> QED
        BY <2>1, <3>1, <3>2, <4>1 DEF Members, Crossing
    <3> QED
      BY <2>1, <3>1, <3>2
  <2> QED
    BY <2>2, <2>3
<1> QED
  BY <1>1, MapInvInitially, MapInvStep, PTL DEF MapSpec

-----------------------------------------------------------------------------
(* How far the labels have come: by the end of a round over one more edge, and  *)
(* a round without a change leaves every file with what it would take again.    *)
SeedLabels == {Seeded(g) : g \in SeedFiles}

Settled(files) == sizes = ClusterSizes(clustering.assign)
                  /\ \A f \in files : TakesTheBest(clustering.assign, f) = clustering.assign

LabelsStand ==
    LET assign == clustering.assign IN
    /\ SeedFiles \subseteq DOMAIN assign /\ DOMAIN assign \subseteq Reached
    /\ \A f \in SeedFiles : assign[f] = Seeded(f)
    /\ \A f \in DOMAIN assign : assign[f] \in SeedLabels
    /\ round \in Nat /\ \A chain \in Chains : \A n \in 0..MaxRounds : n <= round => chain[n] \in DOMAIN assign

LabelInv ==
    /\ mapStep \in Spreading => LabelsStand /\ (mapStep # "rest" => round < MaxRounds)
    /\ mapStep = "spread" =>
          /\ \A chain \in Chains : chain[round + 1] \in DOMAIN clustering.assign \cup todo
          /\ ~relabelled => Settled((Visible \ SeedFiles) \ todo)
    /\ mapStep = "rest" => IF relabelled THEN round = MaxRounds ELSE Settled(Visible \ SeedFiles)
    /\ LabelsReachTheirFiles

LEMMA GraphStands ==
    ASSUME project' = project, edges' = edges
    PROVE  /\ Chains' = Chains /\ Reached' = Reached /\ SeedLabels' = SeedLabels /\ Visible' = Visible /\ SeedFiles' = SeedFiles
           /\ \A f : Seeded(f)' = Seeded(f)
           /\ \A f, assign : Score(f, assign)' = Score(f, assign)
<1>1. Visible' = Visible /\ SeedFiles' = SeedFiles /\ \A f : Seeded(f)' = Seeded(f)
  BY ProjectStands
<1>2. \A f, g : Adjacent(f, g)' <=> Adjacent(f, g)
  BY DEF Adjacent
<1> QED
  BY <1>1, <1>2 DEF Chains, Reached, Unleft, SeedLabels, Score, Scoring, Adjacent

(* Nothing but a neighbour's label is ever taken, so no file is out of reach.   *)
LEMMA NeighboursAreReached ==
    ASSUME edges \subseteq EdgesIn, NEW g \in Reached, NEW f \in Visible, Adjacent(g, f)
    PROVE  f \in Reached
  BY DEF Reached, Unleft, Adjacent

LEMMA SeedsAreReached == SeedFiles \subseteq Reached
  BY DEF Reached, Unleft, SeedFiles

(* When no file prefers another label, the labelled files are those in reach.   *)
LEMMA SettledFilesAreReached ==
    ASSUME IsFiniteSet(Visible), edges \subseteq EdgesIn, Numbers(sizes),
           NEW assign, DOMAIN assign \subseteq Visible, assign \in [DOMAIN assign -> Paths],
           SeedFiles \subseteq DOMAIN assign, DOMAIN assign \subseteq Reached,
           \A f \in Visible \ SeedFiles : TakesTheBest(assign, f) = assign
    PROVE  /\ DOMAIN assign = Reached
           /\ \A chain \in Chains : chain[MaxRounds] \in DOMAIN assign
           /\ \A f \in Reached \ SeedFiles : assign[f] = Best(Score(f, assign), sizes)
<1>1. ASSUME NEW f \in Visible, NEW g \in DOMAIN assign, Adjacent(g, f) PROVE f \in DOMAIN assign
  <2>1. CASE f \in SeedFiles
    BY <2>1
  <2>2. CASE f \notin SeedFiles
    <3>1. DOMAIN TakesTheBest(assign, f) = DOMAIN assign \cup {f}
      BY <1>1, TakesANeighboursLabel
    <3>2. TakesTheBest(assign, f) = assign
      BY <2>2
    <3> QED
      BY <3>1, <3>2
  <2> QED
    BY <2>1, <2>2
<1>2. \A e \in edges : e.from \in Visible /\ e.to \in Visible /\ Adjacent(e.from, e.to) /\ Adjacent(e.to, e.from)
  BY DEF EdgesIn, Adjacent
<1>3. DOMAIN assign = Reached
  <2>1. DOMAIN assign \in Unleft
    BY <1>1, <1>2 DEF Unleft
  <2> QED
    BY <2>1 DEF Reached
<1>4. ASSUME NEW chain \in Chains PROVE chain[MaxRounds] \in DOMAIN assign
  <2> DEFINE out == {n \in 0..MaxRounds : chain[n] \notin DOMAIN assign}
  <2>1. /\ chain \in [0..MaxRounds -> Visible] /\ chain[0] \in SeedFiles /\ MaxRounds \in Nat
        /\ \A n \in 1..MaxRounds : chain[n] = chain[n - 1] \/ Adjacent(chain[n - 1], chain[n])
    BY RoundsAreNaturals DEF Chains
  <2>2. ASSUME out # {} PROVE FALSE
    <3>1. out \in SUBSET Nat
      BY <2>1
    <3>2. PICK n \in out : \A m \in out : n <= m
      <4> HIDE DEF out
      <4> QED
        BY <2>2, <3>1, LeastNat
    <3>3. n # 0 /\ n \in 1..MaxRounds /\ n - 1 \in 0..MaxRounds /\ n - 1 \notin out
      <4>1. n # 0
        BY <2>1
      <4>2. n \in Nat /\ n <= MaxRounds
        BY <2>1
      <4>3. n - 1 \in Nat /\ ~(n <= n - 1)
        BY <4>1, <4>2
      <4>4. n - 1 \notin out
        BY <3>2, <4>3
      <4> QED
        BY <2>1, <4>1, <4>2, <4>3, <4>4
    <3>4. chain[n - 1] \in DOMAIN assign /\ chain[n] \in Visible
      BY <2>1, <3>3
    <3> QED
      BY <1>1, <2>1, <3>3, <3>4
  <2>3. MaxRounds \in 0..MaxRounds
    BY <2>1
  <2> QED
    BY <2>2, <2>3
<1>5. ASSUME NEW f \in Reached \ SeedFiles PROVE assign[f] = Best(Score(f, assign), sizes)
  <2>1. f \in DOMAIN assign /\ f \in Visible /\ TakesTheBest(assign, f) = assign
    BY <1>3, <1>5
  <2>2. DOMAIN Score(f, assign) # {}
    <3>1. SUFFICES ASSUME \A g \in DOMAIN assign : ~Adjacent(g, f) PROVE FALSE
      BY TakesANeighboursLabel
    <3>2. ASSUME NEW e \in edges PROVE e.from \in DOMAIN assign \ {f} <=> e.to \in DOMAIN assign \ {f}
      BY <1>1, <1>2, <3>1
    <3>3. DOMAIN assign \ {f} \in Unleft
      BY <1>5, <3>2 DEF Unleft
    <3> QED
      BY <1>5, <3>3 DEF Reached
  <2> QED
    BY <2>1, <2>2, TakesANeighboursLabel
<1> QED
  BY <1>3, <1>4, <1>5

LEMMA LabelsStandStill ==
    ASSUME LabelsStand, project' = project, edges' = edges, clustering' = clustering, round' = round
    PROVE  LabelsStand'
  BY GraphStands DEF LabelsStand

LEMMA LabelInvInitially == MapInit => LabelInv
  BY DEF MapInit, LabelInv, Spreading, LabelsReachTheirFiles

LEMMA SettledStands ==
    ASSUME project' = project, edges' = edges, clustering' = clustering, sizes' = sizes
    PROVE  /\ Settled(Visible \ SeedFiles) => Settled(Visible \ SeedFiles)'
           /\ todo' = todo /\ Settled((Visible \ SeedFiles) \ todo) => Settled((Visible \ SeedFiles) \ todo)'
<1> DEFINE assign == clustering.assign
<1>1. \A f : TakesTheBest(assign, f)' = TakesTheBest(assign, f)
  BY GraphStands DEF TakesTheBest
<1>2. (sizes = ClusterSizes(assign))' <=> sizes = ClusterSizes(assign)
  OBVIOUS
<1>3. \A f : (TakesTheBest(assign, f) = assign)' <=> TakesTheBest(assign, f) = assign
  BY <1>1
<1>4. Visible' = Visible /\ SeedFiles' = SeedFiles
  BY GraphStands
<1> QED
  BY <1>2, <1>3, <1>4 DEF Settled

LEMMA SpreadKeepsLabels ==
    ASSUME MapInv, LabelInv, NEW f \in todo, mapStep = "spread", Visits(f, Before), UNCHANGED <<round, sizes>>,
           clustering' = [clustering EXCEPT !.assign = TakesTheBest(@, f)],
           relabelled' = (relabelled \/ clustering' # clustering)
    PROVE  LabelInv'
<1> DEFINE assign == clustering.assign
           new    == TakesTheBest(assign, f)
<1>1. /\ project' = project /\ edges' = edges /\ mapStep' = "spread" /\ todo' = todo \ {f} /\ round' = round /\ sizes' = sizes
      /\ project \in Projects /\ edges \subseteq EdgesIn /\ Numbers(sizes) /\ f \in Visible \ SeedFiles
      /\ ClusterTypes(clustering) /\ LabelsStand /\ round < MaxRounds
      /\ DOMAIN assign \subseteq Visible /\ assign \in [DOMAIN assign -> Paths]
      /\ \A chain \in Chains : chain[round + 1] \in DOMAIN assign \cup todo
      /\ ~relabelled => Settled((Visible \ SeedFiles) \ todo)
  BY DEF Visits, MapInv, LabelInv, Reading, Spreading, ClusterTypes
<1>2. IsFiniteSet(Visible) /\ round \in Nat /\ MaxRounds \in Nat
  BY <1>1, EdgesStayInside, RoundsAreNaturals DEF LabelsStand
<1>3. /\ \A g \in DOMAIN assign : g \in DOMAIN new /\ (g # f => new[g] = assign[g])
      /\ \A g \in DOMAIN new : new[g] \in SeedLabels
      /\ DOMAIN new \subseteq Reached
      /\ \A g \in DOMAIN assign : Adjacent(g, f) => f \in DOMAIN new
  <2>1. CASE DOMAIN Score(f, assign) = {}
    <3>1. new = assign /\ \A g \in DOMAIN assign : ~Adjacent(g, f)
      BY <1>1, <1>2, <2>1, TakesANeighboursLabel
    <3> HIDE DEF new
    <3> QED
      BY <1>1, <3>1 DEF LabelsStand
  <2>2. CASE DOMAIN Score(f, assign) # {}
    <3>1. /\ DOMAIN new = DOMAIN assign \cup {f} /\ \A g \in DOMAIN assign \ {f} : new[g] = assign[g]
          /\ \E g \in DOMAIN assign : Adjacent(g, f) /\ new[f] = assign[g]
      BY <1>1, <1>2, <2>2, TakesANeighboursLabel
    <3>2. f \in Reached
      BY <1>1, <3>1, NeighboursAreReached DEF LabelsStand
    <3> HIDE DEF new
    <3> QED
      BY <1>1, <3>1, <3>2 DEF LabelsStand
  <2> QED
    BY <2>1, <2>2
<1> HIDE DEF new
<1>4. clustering'.assign = new /\ (clustering' = clustering <=> new = assign)
  BY <1>1 DEF ClusterTypes, new
<1>5. LabelsStand'
  <2>1. /\ SeedFiles \subseteq DOMAIN new /\ \A g \in SeedFiles : new[g] = Seeded(g)
        /\ \A chain \in Chains : \A n \in 0..MaxRounds : n <= round => chain[n] \in DOMAIN new
    BY <1>1, <1>3 DEF LabelsStand
  <2> QED
    BY <1>1, <1>2, <1>3, <1>4, <2>1, GraphStands DEF LabelsStand
<1>6. ASSUME NEW chain \in Chains PROVE chain[round + 1] \in DOMAIN new \cup todo'
  <2>1. round + 1 \in 1..MaxRounds /\ round \in 0..MaxRounds /\ (round + 1) - 1 = round
    BY <1>1, <1>2
  <2>2. chain[round] \in DOMAIN assign /\ (chain[round + 1] = chain[round] \/ Adjacent(chain[round], chain[round + 1]))
    <3>1. chain[round] \in DOMAIN assign
      BY <1>1, <2>1 DEF LabelsStand
    <3>2. \A n \in 1..MaxRounds : chain[n] = chain[n - 1] \/ Adjacent(chain[n - 1], chain[n])
      BY DEF Chains
    <3> QED
      BY <2>1, <3>1, <3>2
  <2> QED
    BY <1>1, <1>3, <2>2
<1>7. ~relabelled' => Settled((Visible \ SeedFiles) \ todo)'
  <2> SUFFICES ASSUME ~relabelled' PROVE Settled((Visible \ SeedFiles) \ todo)'
    OBVIOUS
  <2>1. clustering' = clustering /\ new = assign /\ ~relabelled
    BY <1>4
  <2>2. \A g \in (Visible \ SeedFiles) \ todo' : TakesTheBest(assign, g) = assign
    BY <1>1, <2>1 DEF Settled, new
  <2>3. sizes = ClusterSizes(assign)
    BY <1>1, <2>1 DEF Settled
  <2>4. \A g : TakesTheBest(assign, g)' = TakesTheBest(assign, g)
    BY <1>1, <2>1, GraphStands DEF TakesTheBest
  <2>5. (\A g \in (Visible \ SeedFiles) \ todo : TakesTheBest(assign, g) = assign)'
    BY <1>1, <2>1, <2>2, <2>4, GraphStands
  <2>6. (sizes = ClusterSizes(assign))'
    BY <1>1, <2>1, <2>3
  <2> QED
    BY <2>5, <2>6 DEF Settled
<1>8. LabelsReachTheirFiles'
  BY <1>1 DEF LabelsReachTheirFiles
<1> QED
  BY <1>1, <1>4, <1>5, <1>6, <1>7, <1>8, GraphStands DEF LabelInv

(* What LabelsReachTheirFiles says of the clusters, before the step that ends   *)
(* the rounds and after it.                                                     *)
Placed(assign) ==
    /\ \A chain \in Chains : assign[chain[MaxRounds]] \in SeedLabels
    /\ ~relabelled => LET labelled == [f \in Reached |-> assign[f]]
                      IN \A f \in Reached \ SeedFiles : assign[f] = Best(Score(f, labelled), ClusterSizes(labelled))

LEMMA PlacedAfter ==
    ASSUME project' = project, edges' = edges, relabelled' = relabelled,
           NEW assign, clustering'.assign = assign, Placed(assign)
    PROVE  LabelsReachTheirFiles'
<1>1. \A chain \in Chains' : clustering'.assign[chain[MaxRounds]] \in SeedLabels'
  BY GraphStands DEF Placed
<1>2. ASSUME ~relabelled'
      PROVE  (LET labelled == [f \in Reached |-> clustering.assign[f]]
              IN \A f \in Reached \ SeedFiles : clustering.assign[f] = Best(Score(f, labelled), ClusterSizes(labelled)))'
  <2> DEFINE labelled == [f \in Reached |-> assign[f]]
  <2>1. \A f \in Reached \ SeedFiles : assign[f] = Best(Score(f, labelled), ClusterSizes(labelled))
    BY <1>2 DEF Placed
  <2>2. [f \in Reached |-> clustering.assign[f]]' = labelled /\ (Reached \ SeedFiles)' = Reached \ SeedFiles
    BY GraphStands
  <2>3. ASSUME NEW f PROVE Score(f, [g \in Reached |-> clustering.assign[g]])' = Score(f, labelled)
    BY <2>2, GraphStands DEF Score, Scoring
  <2>4. ClusterSizes([g \in Reached |-> clustering.assign[g]])' = ClusterSizes(labelled)
    BY <2>2
  <2> HIDE DEF labelled
  <2> QED
    BY <2>1, <2>2, <2>3, <2>4
<1> QED
  BY <1>1, <1>2 DEF LabelsReachTheirFiles, SeedLabels

(* Where the rounds end, the labels are where they should be.                   *)
LEMMA LabelsHaveCome ==
    ASSUME MapInv, LabelInv, LeaveToDirectories
    PROVE  LabelsReachTheirFiles'
<1> DEFINE assign == clustering.assign
           new    == LeftToDirectories(assign)
<1>1. /\ project' = project /\ edges' = edges /\ relabelled' = relabelled /\ mapStep = "rest"
      /\ clustering' = [clustering EXCEPT !.assign = new]
      /\ project \in Projects /\ edges \subseteq EdgesIn /\ Numbers(sizes) /\ LabelsStand /\ ClusterTypes(clustering)
      /\ DOMAIN assign \subseteq Visible /\ assign \in [DOMAIN assign -> Paths]
      /\ IF relabelled THEN round = MaxRounds ELSE Settled(Visible \ SeedFiles)
  BY DEF LeaveToDirectories, Moves, loopVars, MapInv, LabelInv, Reading, Spreading, ClusterTypes
<1>2. IsFiniteSet(Visible) /\ MaxRounds \in Nat
  BY <1>1, EdgesStayInside, RoundsAreNaturals
<1>3. clustering'.assign = new /\ \A g \in DOMAIN assign : new[g] = assign[g]
  BY <1>1 DEF ClusterTypes, LeftToDirectories
<1>4. ~relabelled =>
        /\ DOMAIN assign = Reached
        /\ \A chain \in Chains : chain[MaxRounds] \in DOMAIN assign
        /\ \A f \in Reached \ SeedFiles : assign[f] = Best(Score(f, assign), sizes)
        /\ sizes = ClusterSizes(assign)
  BY <1>1, <1>2, SettledFilesAreReached DEF LabelsStand, Settled
<1>5. ASSUME NEW chain \in Chains PROVE new[chain[MaxRounds]] \in SeedLabels
  <2>1. chain[MaxRounds] \in DOMAIN assign
    BY <1>1, <1>2, <1>4 DEF LabelsStand
  <2> QED
    BY <1>1, <1>3, <2>1 DEF LabelsStand
<1>6. ASSUME ~relabelled
      PROVE  LET labelled == [f \in Reached |-> new[f]]
             IN \A f \in Reached \ SeedFiles : new[f] = Best(Score(f, labelled), ClusterSizes(labelled))
  <2>1. [f \in Reached |-> new[f]] = assign
    <3> HIDE DEF new
    <3> QED
      BY <1>1, <1>3, <1>4, <1>6
  <2> HIDE DEF new
  <2> QED
    BY <1>3, <1>4, <1>6, <2>1
<1> HIDE DEF new
<1>7. Placed(new)
  BY <1>5, <1>6 DEF Placed
<1> QED
  BY <1>1, <1>3, <1>7, PlacedAfter

LEMMA LabelInvStep == MapInv /\ LabelInv /\ [MapNext]_mapVars => LabelInv'
<1> SUFFICES ASSUME MapInv, LabelInv, [MapNext]_mapVars PROVE LabelInv'
  OBVIOUS
<1> USE DEF Spreading
<1>0. MaxRounds \in Nat \ {0}
  BY RoundsAreNaturals
<1>1. CASE ListVisibleFiles \/ ReadEdges
  BY <1>1 DEF ListVisibleFiles, ReadEdges, Moves, LabelInv, LabelsReachTheirFiles
<1>2. CASE AssignSeeds
  <2> DEFINE assign == [f \in SeedFiles |-> Seeded(f)]
  <2>1. /\ project' = project /\ edges' = edges /\ clustering'.assign = assign /\ mapStep' = "round" /\ round' = 0
    BY <1>2 DEF AssignSeeds, Moves, loopVars, MapInv, Reading
  <2>2. /\ SeedFiles \subseteq DOMAIN assign /\ DOMAIN assign \subseteq Reached
        /\ \A f \in SeedFiles : assign[f] = Seeded(f)
        /\ \A f \in DOMAIN assign : assign[f] \in SeedLabels
        /\ \A chain \in Chains : \A n \in 0..MaxRounds : n <= 0 => chain[n] \in DOMAIN assign
    BY SeedsAreReached DEF SeedLabels, Chains
  <2> HIDE DEF assign
  <2>3. LabelsStand'
    BY <2>1, <2>2, GraphStands DEF LabelsStand
  <2> QED
    BY <1>0, <2>1, <2>3 DEF LabelInv, LabelsReachTheirFiles
<1>3. CASE BeginRound
  <2>1. /\ project' = project /\ edges' = edges /\ clustering' = clustering /\ mapStep = "round" /\ mapStep' = "spread" /\ round' = round
        /\ todo' = Visible \ SeedFiles /\ sizes' = ClusterSizes(clustering.assign)
    BY <1>3 DEF BeginRound, Moves
  <2>2. LabelsStand /\ round < MaxRounds
    BY <2>1 DEF LabelInv
  <2>3. LabelsStand'
    BY <2>1, <2>2, LabelsStandStill
  <2>4. ASSUME NEW chain \in Chains PROVE chain[round + 1] \in DOMAIN clustering.assign \cup todo'
    <3>1. round + 1 \in 0..MaxRounds
      BY <1>0, <2>2 DEF LabelsStand
    <3>2. chain[round + 1] \in Visible
      BY <3>1 DEF Chains
    <3> QED
      BY <2>1, <2>2, <3>2 DEF LabelsStand
  <2>5. (Settled((Visible \ SeedFiles) \ todo))'
    BY <2>1, GraphStands DEF Settled
  <2> QED
    BY <2>1, <2>2, <2>3, <2>4, <2>5, GraphStands DEF LabelInv, LabelsReachTheirFiles
<1>4. CASE Spread
  BY <1>4, SpreadKeepsLabels DEF Spread
<1>5. CASE EndRound
  <2>1. /\ project' = project /\ edges' = edges /\ clustering' = clustering /\ sizes' = sizes /\ relabelled' = relabelled
        /\ mapStep = "spread" /\ todo = {} /\ round' = round + 1
        /\ mapStep' = IF relabelled /\ round + 1 < MaxRounds THEN "round" ELSE "rest"
    BY <1>5 DEF EndRound
  <2>2. /\ LabelsStand /\ round < MaxRounds /\ \A chain \in Chains : chain[round + 1] \in DOMAIN clustering.assign
        /\ ~relabelled => Settled(Visible \ SeedFiles)
    <3>1. (Visible \ SeedFiles) \ todo = Visible \ SeedFiles
      BY <2>1
    <3> QED
      BY <2>1, <3>1 DEF LabelInv
  <2>3. LabelsStand'
    <3>1. round \in Nat
      BY <2>2 DEF LabelsStand
    <3>2. ASSUME NEW chain \in Chains, NEW n \in 0..MaxRounds, n <= round + 1 PROVE chain[n] \in DOMAIN clustering.assign
      <4>1. n <= round \/ n = round + 1
        BY <3>1, <3>2
      <4> QED
        BY <2>2, <4>1 DEF LabelsStand
    <3> QED
      BY <2>1, <2>2, <3>1, <3>2, GraphStands DEF LabelsStand
  <2>4. mapStep' = "rest" => IF relabelled THEN round' = MaxRounds ELSE Settled(Visible \ SeedFiles)'
    <3>1. ~relabelled => Settled(Visible \ SeedFiles)'
      BY <2>1, <2>2, SettledStands
    <3>2. relabelled /\ mapStep' = "rest" => round' = MaxRounds
      BY <1>0, <2>1, <2>2 DEF LabelsStand
    <3> QED
      BY <3>1, <3>2
  <2>5. mapStep' = "round" => round' < MaxRounds
    BY <2>1
  <2> QED
    BY <2>1, <2>3, <2>4, <2>5 DEF LabelInv, LabelsReachTheirFiles
<1>6. CASE LeaveToDirectories
  BY <1>6, LabelsHaveCome DEF LeaveToDirectories, Moves, LabelInv
<1>7. CASE MergeSameSlug
  <2>1. PICK seed \in todo :
           /\ mapStep = "slugs" /\ Visits(seed, Before)
           /\ LET canonical == {x \in clustering.seeds \ todo : Slug(x) = Slug(seed)}
              IN clustering' = IF canonical = {} THEN clustering ELSE MergeKeys(clustering, seed, CHOOSE x \in canonical : TRUE)
    BY <1>7 DEF MergeSameSlug
  <2>2. mapStep' = "slugs" /\ todo' = todo \ {seed} /\ todo \subseteq clustering.seeds
    BY <2>1 DEF Visits, MapInv
  <2>3. todo' # clustering'.seeds
    <3> DEFINE canonical == {x \in clustering.seeds \ todo : Slug(x) = Slug(seed)}
    <3>1. CASE canonical = {}
      BY <2>1, <2>2, <3>1
    <3>2. CASE canonical # {}
      <4>1. PICK x \in canonical : clustering' = MergeKeys(clustering, seed, x)
        BY <2>1, <3>2
      <4>2. clustering'.seeds = clustering.seeds \ {seed}
        BY <4>1 DEF MergeKeys
      <4>3. x \in clustering'.seeds /\ x \notin todo'
        BY <2>2, <4>2
      <4> QED
        BY <4>3
    <3> QED
      BY <3>1, <3>2
  <2> QED
    BY <2>2, <2>3 DEF LabelInv, LabelsReachTheirFiles
<1>8. CASE CountSeams \/ MergeSeamed \/ CountSmall \/ MergeSmall \/ NameSections \/ Select
  <2>1. mapStep' \in {"seams", "small", "select", "printed"}
    BY <1>8 DEF CountSeams, MergeSeamed, CountSmall, MergeSmall, NameSections, Select, Moves, Visits
  <2> QED
    BY <2>1 DEF LabelInv, LabelsReachTheirFiles
<1>9. CASE UNCHANGED mapVars
  <2>1. /\ project' = project /\ edges' = edges /\ clustering' = clustering /\ mapStep' = mapStep /\ sizes' = sizes
        /\ round' = round /\ todo' = todo /\ relabelled' = relabelled
    BY <1>9 DEF mapVars
  <2>2. LabelsStand => LabelsStand'
    BY <2>1, LabelsStandStill
  <2>3. /\ Settled((Visible \ SeedFiles) \ todo) => Settled((Visible \ SeedFiles) \ todo)'
        /\ Settled(Visible \ SeedFiles) => Settled(Visible \ SeedFiles)'
    BY <2>1, SettledStands
  <2>4. LabelsReachTheirFiles'
    <3>1. SUFFICES ASSUME mapStep = "slugs", todo = clustering.seeds PROVE LabelsReachTheirFiles'
      BY <2>1 DEF LabelsReachTheirFiles
    <3>2. Placed(clustering.assign)
      BY <3>1 DEF LabelInv, LabelsReachTheirFiles, Placed, SeedLabels
    <3> QED
      BY <2>1, <3>2, PlacedAfter
  <2> QED
    BY <2>1, <2>2, <2>3, <2>4, GraphStands DEF LabelInv
<1> QED
  BY <1>1, <1>2, <1>3, <1>4, <1>5, <1>6, <1>7, <1>8, <1>9 DEF MapNext

(* When the rounds are over, a file within their reach has a label of the seeds, *)
(* and after a round without a change no file prefers another.                   *)
THEOREM EveryLabelReachesItsFiles == MapSpec => []LabelsReachTheirFiles
<1>1. MapInit => MapInv /\ LabelInv
  BY MapInvInitially, LabelInvInitially
<1>2. MapInv /\ LabelInv /\ [MapNext]_mapVars => MapInv' /\ LabelInv'
  BY MapInvStep, LabelInvStep
<1>3. LabelInv => LabelsReachTheirFiles
  BY DEF LabelInv
<1> QED
  BY <1>1, <1>2, <1>3, PTL DEF MapSpec
=============================================================================
