-------------------------- MODULE MCEngineLauncher --------------------------
(* Small instances of EngineLauncher for TLC.                              *)
EXTENDS EngineLauncher

CONSTANTS l1, l2, v1

TwoRuns   == {l1, l2}

OneVersion == {v1}

(* Every run has the same pin. *)
SamePin == [l \in Launchers |-> v1]
=============================================================================
