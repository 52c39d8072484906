-------------------------- MODULE FiguraPreflight ---------------------------
(* What check and build need of a machine, and the browser they find on it.    *)
(* A file is <<directory, name>>.  A machine has the file that FIGURA_CHROME   *)
(* names (<<>> when unset or empty), the directories of PATH ("" for an empty  *)
(* entry), its executable files, the major version that the --version of each  *)
(* prints (0 when it prints no Chromium version, or cannot be asked in time),  *)
(* and whether pdftoppm -v "runs".                                             *)
EXTENDS Naturals, Sequences, SequencesExt

CONSTANT Machines

MinimumChromiumMajor == 131
PathCommands      == <<"google-chrome", "google-chrome-stable", "chromium", "chromium-browser">>
MacosApplications == <<<<"/Applications", "Google Chrome">>, <<"/Applications", "Chromium">>>>

\* Where a command is looked for: in each directory of PATH that has a name.
OnPath(machine, name) == LET directories == SelectSeq(machine.path, LAMBDA d : d # "")
                         IN [i \in DOMAIN directories |-> <<directories[i], name>>]

\* The first executable: one command in all of PATH before the next.  FIGURA_CHROME stands alone.
FirstCandidate(machine) ==
    LET named    == FlattenSeq([k \in DOMAIN PathCommands |-> OnPath(machine, PathCommands[k])]) \o MacosApplications
        searched == IF machine.chrome = <<>> THEN named ELSE <<machine.chrome>>
        found    == SelectSeq(searched, LAMBDA file : file \in machine.executable)
    IN IF found = <<>> THEN <<>> ELSE Head(found)

ChromiumMajor(machine, file) == IF file = <<>> THEN 0 ELSE machine.major[file]

LocateChromium(machine) ==
    LET major == ChromiumMajor(machine, FirstCandidate(machine))
    IN IF major = 0 THEN {"CHROMIUM-NOT-FOUND"} ELSE IF major < MinimumChromiumMajor THEN {"CHROMIUM-TOO-OLD"} ELSE {}

ToolProblem(machine)  == IF machine.pdftoppm = "runs" THEN {} ELSE {"PDFTOPPM-NOT-FOUND"}
D2Problem(warmStatus) == IF warmStatus = "exit 0" THEN {} ELSE {"D2-UNAVAILABLE"}

\* Every prerequisite is probed, and all the missing ones are named at once.
PreflightProblems(command, machine, warmStatus) ==
    D2Problem(warmStatus) \cup LocateChromium(machine) \cup (IF command = "build" THEN ToolProblem(machine) ELSE {})
=============================================================================
