----------------------------- MODULE MCRelease ------------------------------
(* The release from two sides that share no state here: the pushes of the bots *)
(* and of people to main, or one release and what the gates say of its files.  *)
EXTENDS MCReleaseSync, MCReleasePin

VARIABLE side
releaseVars == <<side, vars, pinVars>>

ReleaseInit == /\ side \in {"pushes", "gates"}
               /\ IF side = "gates" THEN TRUE ELSE commit = Good /\ payload = Lacking
               /\ Init /\ PinInit
ReleaseNext == \/ side = "pushes" /\ Next /\ UNCHANGED <<side, pinVars>>
               \/ side = "gates" /\ PinNext /\ UNCHANGED <<side, vars>>
ReleaseSpec == ReleaseInit /\ [][ReleaseNext]_releaseVars
=============================================================================
