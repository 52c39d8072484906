---------------------------- MODULE GuardProver ----------------------------
(* scripts/prove-guard-mutations.mjs: it writes one mutation after another     *)
(* into the files of the working tree, runs the guard on each, restores the    *)
(* file, and says whether the guard is proven.  The guard is a child process   *)
(* that may be interrupted, overrun its time or not start; the prover is       *)
(* synchronous, so a signal to it alone is noticed only when it has ended; it  *)
(* may be killed; and other programs edit the tree meanwhile.                  *)
EXTENDS Integers, Sequences, FiniteSets

CONSTANTS Mutations,   \* the list: a sequence of mutations
          Places,      \* the files of the tree
          PlaceOf,     \* the file of a mutation
          Occurrences, \* how often a mutation's anchor occurs in its scope
          AllOf,       \* the mutations with all: true
          Guards,      \* guards: the mutations each of them names
          Noticed      \* those a guard that does not name them is red on all the same

ASSUME MutationsAreAList == Mutations \in Seq(DOMAIN PlaceOf) /\ Mutations # <<>>
ASSUME MutationsAreOfFiles == PlaceOf \in [DOMAIN PlaceOf -> Places]

VARIABLES caught,    \* what the guard of this run names
          step,      \* the prover's next step
          current,   \* the mutation in flight
          tree,      \* file -> [mutated, edited]
          original,  \* the text read before the mutation
          guard,     \* how the guard ended
          failed,    \* the mutations with a FAILED verdict
          problem,   \* a file did not read back
          before,    \* the git snapshot before the mutations
          signalled, exitCode
proverVars == <<caught, step, current, tree, original, guard, failed, problem, before, signalled, exitCode>>

Flying == Mutations[current]

\* git status --porcelain and git diff --stat, at their coarsest.
GitTreeSnapshot == {p \in Places : tree[p].mutated # {} \/ tree[p].edited}

\* Green, the named line (exit 1), red for another reason; or no answer.
Answers ==
    LET carried == UNION {tree[p].mutated : p \in Places}
        edited  == \E p \in Places : tree[p].edited
    IN  {"interrupted", "timeout", "no start"} \cup (IF edited THEN {"other"} ELSE {})
        \cup IF carried \cap caught # {} THEN {"named"}
             ELSE IF carried \cap Noticed # {} THEN {"other"} ELSE {"green"}

ProverInit == /\ caught \in Guards
              /\ step = "start" /\ current = 1 /\ original = {} /\ guard = "none"
              /\ tree = [p \in Places |-> [mutated |-> {}, edited |-> FALSE]]
              /\ failed = {} /\ problem = FALSE /\ before = {} /\ signalled = FALSE /\ exitCode = -1

ProverOver == {"exited", "killed", "unrestored"}

Exit(code) == step' = "exited" /\ exitCode' = code

MalformedCall == /\ step = "start" /\ Exit(2)
                 /\ UNCHANGED <<caught, current, tree, original, guard, failed, problem, before, signalled>>

\* An interrupted baseline is a red one.
Baseline == /\ step = "start"
            /\ guard' \in Answers
            /\ CASE guard' = "no start" -> Exit(2) /\ UNCHANGED before
                 [] guard' = "green"    -> step' = "next" /\ before' = GitTreeSnapshot /\ UNCHANGED exitCode
                 [] OTHER               -> Exit(1) /\ UNCHANGED before
            /\ UNCHANGED <<caught, current, tree, original, failed, problem, signalled>>

\* mutatedText: the problem with the anchor, if there is one.
AnchorIsUsable(m) == Occurrences[m] = 1 \/ (Occurrences[m] > 1 /\ m \in AllOf)

\* A file that cannot be read or has no usable anchor is a FAILED verdict.
Skip == /\ step = "next" /\ current <= Len(Mutations)
        /\ failed' = failed \cup {Flying} /\ current' = current + 1
        /\ UNCHANGED <<caught, step, tree, original, guard, problem, before, signalled, exitCode>>

\* The mutation is written, or the write fails; then the finally block is next.
Mutate == /\ step = "next" /\ current <= Len(Mutations) /\ AnchorIsUsable(Flying)
          /\ original' = tree[PlaceOf[Flying]]
          /\ tree' = [tree EXCEPT ![PlaceOf[Flying]].mutated = @ \cup {Flying}]
          /\ \/ step' = "guard" /\ UNCHANGED guard
             \/ step' = "restore" /\ guard' = "write failed"
          /\ UNCHANGED <<caught, current, failed, problem, before, signalled, exitCode>>

RunGuard == /\ step = "guard"
            /\ guard' \in Answers /\ step' = "restore"
            /\ UNCHANGED <<caught, current, tree, original, failed, problem, before, signalled, exitCode>>

\* Mutant: no finally, the file comes back when the guard has given an answer.
RestoredAfterAnAnswer(text) == IF guard \in {"green", "named", "other", "timeout"} THEN original ELSE text

Restored(text) == original

\* The write of the finally block may fail too, and with it the prover: the file
\* is as the mutation left it, or cut short.
Restore ==
    LET p == PlaceOf[Flying]
    IN  /\ step = "restore"
        /\ \/ /\ tree' = [tree EXCEPT ![p] = Restored(@)]
              /\ step' = "read back" /\ UNCHANGED exitCode
           \/ /\ \E left \in {tree[p], [mutated |-> {}, edited |-> TRUE]} : tree' = [tree EXCEPT ![p] = left]
              /\ step' = "unrestored" /\ exitCode' = 1
        /\ UNCHANGED <<caught, current, original, guard, failed, problem, before, signalled>>

\* verdictOf
Proves(answer) == answer = "named"

\* The exception of the write, of reading the output of a guard that did not
\* start, or of reading the file back ends the prover.
ReadBack ==
    /\ step = "read back"
    /\ \/ Exit(1) /\ UNCHANGED <<current, failed, problem>>
       \/ /\ problem' = (problem \/ tree[PlaceOf[Flying]] # original)
          /\ CASE guard = "interrupted" -> Exit(130) /\ UNCHANGED <<current, failed>>
               [] guard \in {"write failed", "no start"} -> Exit(1) /\ UNCHANGED <<current, failed>>
               [] OTHER -> /\ step' = "next" /\ current' = current + 1
                           /\ failed' = IF Proves(guard) THEN failed ELSE failed \cup {Flying}
                           /\ UNCHANGED exitCode
    /\ UNCHANGED <<caught, tree, original, guard, before, signalled>>

Afterwards ==
    /\ step = "next" /\ current > Len(Mutations)
    /\ guard' \in Answers
    /\ Exit(IF failed # {} \/ problem \/ guard' # "green" \/ GitTreeSnapshot # before THEN 1
            ELSE IF signalled THEN 130 ELSE 0)
    /\ UNCHANGED <<caught, current, tree, original, failed, problem, before, signalled>>

\* SIGINT or SIGTERM to the prover, and not to the guard.
Signal == /\ step \notin ProverOver /\ ~signalled
          /\ signalled' = TRUE
          /\ UNCHANGED <<caught, step, current, tree, original, guard, failed, problem, before, exitCode>>

KillProver == /\ step \notin ProverOver
              /\ step' = "killed"
              /\ UNCHANGED <<caught, current, tree, original, guard, failed, problem, before, signalled, exitCode>>

\* Another program saves a file over whatever it holds.
OutsideEdit(p) == /\ ~tree[p].edited /\ step \notin ProverOver
                  /\ \E kept \in {{}, tree[p].mutated} : tree' = [tree EXCEPT ![p] = [mutated |-> kept, edited |-> TRUE]]
                  /\ UNCHANGED <<caught, step, current, original, guard, failed, problem, before, signalled, exitCode>>

ProverNext == \/ MalformedCall \/ Baseline \/ Skip \/ Mutate \/ RunGuard \/ Restore \/ ReadBack \/ Afterwards
              \/ Signal \/ KillProver \/ \E p \in Places : OutsideEdit(p)
ProverSpec == ProverInit /\ [][ProverNext]_proverVars

-----------------------------------------------------------------------------
(* "An interrupt ... or a guard past GUARD_TIMEOUT_MS still restores the file  *)
(* in flight before anything else happens": short of a kill, and of a restore  *)
(* that cannot be written, a mutation is in the tree only between its write    *)
(* and its restore, and in any case in its own file, alone.                    *)
(* "Exit 0 - every mutation PROVEN": whatever the tree's other editors do, the *)
(* guard named every mutation of the list, each by a usable anchor, and the    *)
(* tree is the one before.                                                     *)
MutationsAreProvenAndGone ==
    /\ \A p \in Places : tree[p].mutated # {} =>
        step \in {"guard", "restore", "killed", "unrestored"} /\ p = PlaceOf[Flying] /\ tree[p].mutated = {Flying}
    /\ exitCode = 0 => /\ \A n \in 1..Len(Mutations) : Mutations[n] \in caught /\ AnchorIsUsable(Mutations[n])
                       /\ GitTreeSnapshot = before
=============================================================================
