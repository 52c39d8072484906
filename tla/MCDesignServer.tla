--------------------------- MODULE MCDesignServer ---------------------------
(* Small instances of DesignServer for TLC.                                *)
EXTENDS DesignServer

CONSTANTS s1, s2, s3, t1, p1, p2

TwoStarts   == {s1, s2}
ThreeStarts == {s1, s2, s3}
NoStop      == {}
OneStop     == {t1}
BothPorts   == {p1, p2}

(* s1 is started with --port, the others bind the default port. *)
OneOther == [s \in Starts |-> IF s = s1 THEN p1 ELSE p2]
=============================================================================
