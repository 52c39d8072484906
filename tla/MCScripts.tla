----------------------------- MODULE MCScripts -----------------------------
(* The plugin's scripts, the guard prover and the figura commands, one at a    *)
(* time: a behaviour chooses one of them and then is one of that script's.     *)
EXTENDS SessionTokens, DesignLint, GuardProver, MCProjectMap, MCFigura, MCDesignEtalon

VARIABLE script
scriptVars == <<script, tokenVars, lintVars, proverVars, mapVars, sumVars, etalonVars>>

MCModelOf  == [a |-> "m", b |-> "m", c |-> "n", syn |-> "synthetic"]
MCWindowOf == [a |-> 3, b |-> 1, c |-> 1, syn |-> 9]
MCLimitOf  == [m |-> 2, n |-> 2]

Declared(p, v) == [prop |-> p, value |-> v, var |-> FALSE]
MCKindOf  == [page |-> "html", app |-> "app.css", draft |-> "skipped",
              tokens |-> "tokens.css", fonts |-> "fonts.css"]
\* hsl(0, 0%, 40%) is 102 in each channel; #6a6a6afa is 106, with an alpha of 0.98.
MCLiteralOf == [paper |-> <<"hsl", <<<<0>>, <<0>>, <<40>>>>>>, near |-> <<"hex", <<6, 10, 6, 10, 6, 10, 15, 10>>>>]
MCMayHold == [page |-> {Declared("color", "near")}, app |-> {Declared("color", "near")},
              tokens |-> {Declared("color", "paper")}, draft |-> {}, fonts |-> {}]
MCIntentional == {[value |-> "near", files |-> {"draft"}]}

MCMutations   == <<"one", "two", "three">>
MCGuards      == {{"one", "two", "three"}, {"one", "two"}, {"two", "three"}}
MCPlaceOf     == [one |-> "p", two |-> "p", three |-> "q"]
MCOccurrences == [one |-> 1, two |-> 2, three |-> 1]

Interchangeable == Permutations(Runs) \cup Permutations(Hooks) \cup Permutations(Pids)

ScriptInit == /\ script \in {"tokens", "lint", "prover", "map", "figura", "etalon"}
              /\ IF script = "lint" THEN TRUE ELSE store = NoFile
              /\ IF script = "prover" THEN TRUE ELSE caught = CHOOSE g \in Guards : TRUE  \* it makes no difference to the others
              /\ IF script = "figura" THEN TRUE ELSE command = "page" /\ site = "dev"
              /\ IF script = "etalon" THEN TRUE ELSE etalon = PlainPage
              /\ TokensInit /\ LintInit /\ ProverInit /\ MapInit /\ SumInit /\ EtalonInit
ScriptNext == \/ script = "tokens" /\ TokensNext /\ UNCHANGED <<script, lintVars, proverVars, mapVars, sumVars, etalonVars>>
              \/ script = "lint" /\ LintNext /\ UNCHANGED <<script, tokenVars, proverVars, mapVars, sumVars, etalonVars>>
              \/ script = "prover" /\ ProverNext /\ UNCHANGED <<script, tokenVars, lintVars, mapVars, sumVars, etalonVars>>
              \/ script = "map" /\ MapNext /\ UNCHANGED <<script, tokenVars, lintVars, proverVars, sumVars, etalonVars>>
              \/ script = "figura" /\ SumNext /\ UNCHANGED <<script, tokenVars, lintVars, proverVars, mapVars, etalonVars>>
              \/ script = "etalon" /\ EtalonNext /\ UNCHANGED <<script, tokenVars, lintVars, proverVars, mapVars, sumVars>>
ScriptSpec == ScriptInit /\ [][ScriptNext]_scriptVars
=============================================================================
