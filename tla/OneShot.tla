------------------------------ MODULE OneShot ------------------------------
(***************************************************************************)
(* What a ledger of the store promises: an outside effect -- a Discord     *)
(* post, a message queued to Codex -- happens at most once per slot, only  *)
(* after the slot was reserved and never after its result was recorded.    *)
(* A slot whose holder dies stays reserved: nothing ever tries it again.   *)
(***************************************************************************)
EXTENDS Naturals

CONSTANTS
    Slots,    \* the effects, each with a row of its own
    Results   \* what may have become of one

VARIABLES stage, sent

vars == <<stage, sent>>

Init ==
    /\ stage = [s \in Slots |-> "free"]
    /\ sent = [s \in Slots |-> 0]

Reserve(s) ==
    /\ stage[s] = "free"
    /\ stage' = [stage EXCEPT ![s] = "pending"]
    /\ UNCHANGED sent

Send(s) ==
    /\ stage[s] = "pending"
    /\ sent[s] = 0
    /\ sent' = [sent EXCEPT ![s] = 1]
    /\ UNCHANGED stage

Close(s) ==
    /\ stage[s] = "pending"
    /\ \E r \in Results : stage' = [stage EXCEPT ![s] = r]
    /\ UNCHANGED sent

Next == \E s \in Slots : Reserve(s) \/ Send(s) \/ Close(s)

Spec == Init /\ [][Next]_vars
=============================================================================
