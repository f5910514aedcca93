----------------------------- MODULE MCPresence -----------------------------
(* Small instances of Presence.  One unit of time is one step of the alert  *)
(* ladder; the two protocols differ in the red step, as in protocols.py.    *)
EXTENDS Presence

MCThresholds == [p \in Protocols |->
                    IF p = "protocol1" THEN <<1, 2, 4>> ELSE <<1, 2, 3>>]

\* Red falls due one step before the clock's bound.
MCLateThresholds == [p \in Protocols |-> <<1, 2, 4>>]
=============================================================================
