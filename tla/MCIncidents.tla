---------------------------- MODULE MCIncidents ----------------------------
(* Small instances of Incidents: a healthy finding, one that may be recovered *)
(* and one, a second event of the same incident, that may not: no evidence    *)
(* named a session.                                                           *)
EXTENDS Incidents, TLC

Finding(cause, severity, exact) ==
    [cause |-> cause, severity |-> severity, exact |-> exact]

MCFindings == {Finding("working", "yellow", TRUE),
               Finding("crashed", "yellow", TRUE),
               Finding("crashed", "red", FALSE)}

CommandSymmetry == Permutations(Commands)
=============================================================================
