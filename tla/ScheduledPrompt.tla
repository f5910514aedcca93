--------------------------- MODULE ScheduledPrompt ---------------------------
(* The single scheduled prompt that versions before the prompt rules left in  *)
(* a profile of control.json. The tray's timer goes on dispatching it         *)
(* (scheduled_prompt.py) until Preferences are saved, which turns it into a   *)
(* rule; the timer then dispatches the rule. Both are claimed in the file     *)
(* before the transport and completed after it, and both are held here as     *)
(* slots of the profile. Other processes replace the file meanwhile: those    *)
(* that save this profile put back all of it as they had read it, and so do   *)
(* those that save another profile. The rules' conditions, gates and          *)
(* repetitions are in module PromptRules. Native input stays enabled.         *)
EXTENDS Naturals

CONSTANTS Writers,       \* other processes that save the control file
          MaxArmings,    \* bound on the times the user arms the schedule
          MaxSends       \* bound on transports

ASSUME ScheduleAssumption == MaxArmings \in Nat \ {0} /\ MaxSends \in Nat

VARIABLES profile,       \* the profile in control.json
          reached,       \* its time has come, and the worker is red if it must be
          cycle,         \* the tray's timer, with the settings it holds
          editor,        \* the Preferences dialog, with the settings it shows
          writer,        \* writer[w]: another process, with the settings it read
          armings,       \* times the schedule was armed (history)
          sends,         \* transports begun (history)
          overwritten    \* a save put back a slot that had moved (history)

scheduleVars == <<profile, reached, cycle, editor, writer, armings, sends, overwritten>>

SlotStates == {"none", "armed", "dispatching", "dispatch_started",
               "failed_or_uncertain", "disabled"}
Slots   == {"legacy", "rule"}
Profile == [automation : BOOLEAN, slot : [Slots -> SlotStates]]

\* As an earlier version left it.
Legacy == [automation |-> TRUE,
           slot |-> [s \in Slots |-> IF s = "legacy" THEN "armed" ELSE "none"]]

Timer  == [phase : {"idle", "rules", "claiming", "sending", "sent", "completing"},
           slot : Slots, held : Profile,
           result : {"dispatch_started", "failed_or_uncertain"}]
Rested == [phase |-> "idle", slot |-> "legacy", held |-> Legacy,
           result |-> "dispatch_started"]

Editor == [open : BOOLEAN, held : Profile]
Closed == [open |-> FALSE, held |-> Legacy]

Writer == [saves : {"nothing", "another profile", "automation off", "rules off"},
           held : Profile]
Away   == [saves |-> "nothing", held |-> Legacy]

ScheduleInit ==
    /\ profile = Legacy /\ reached = FALSE
    /\ cycle = Rested /\ editor = Closed /\ writer = [w \in Writers |-> Away]
    /\ armings = 1 /\ sends = 0 /\ overwritten = FALSE

\* ControlStore.save of settings that were loaded as base.
Replace(settings, base) ==
    /\ profile' = settings
    /\ overwritten' = (overwritten \/ profile.slot # base.slot)

KeepsFile == UNCHANGED <<profile, overwritten>>

-----------------------------------------------------------------------------
\* Time passes, and the worker reports and falls silent again.
ConditionChanges ==
    /\ reached' = ~reached
    /\ KeepsFile /\ UNCHANGED <<cycle, editor, writer, armings, sends>>

\* process_due_scheduled_prompt, and process_prompt_rules when there was nothing
\* to dispatch, up to their claim.
LooksAt(s) ==
    /\ cycle.phase = IF s = "legacy" THEN "idle" ELSE "rules"
    /\ IF profile.slot[s] = "armed" /\ profile.automation /\ reached
       THEN /\ sends < MaxSends
            /\ cycle' = [cycle EXCEPT !.phase = "claiming", !.slot = s, !.held = profile]
       ELSE cycle' = [Rested EXCEPT !.phase = IF s = "legacy" THEN "rules" ELSE "idle"]
    /\ KeepsFile /\ UNCHANGED <<reached, editor, writer, armings, sends>>

Held(state) == [cycle.held EXCEPT !.slot[cycle.slot] = state]

\* Saved before the transport: a tray that dies does not send it again.
ClaimSchedule ==
    /\ cycle.phase = "claiming"
    /\ Replace(Held("dispatching"), cycle.held)
    /\ cycle' = [cycle EXCEPT !.phase = "sending"]
    /\ UNCHANGED <<reached, editor, writer, armings, sends>>

\* send_native_message; a failed one may have arrived.
SendScheduled ==
    /\ cycle.phase = "sending"
    /\ sends' = sends + 1
    /\ \E result \in {"dispatch_started", "failed_or_uncertain"} :
          cycle' = [cycle EXCEPT !.phase = "sent", !.result = result]
    /\ KeepsFile /\ UNCHANGED <<reached, editor, writer, armings>>

\* _complete_claim and _complete_dispatch look again: the result belongs to a
\* slot that is still dispatching.
ReadClaim ==
    /\ cycle.phase = "sent"
    /\ cycle' = IF profile.slot[cycle.slot] = "dispatching"
                THEN [cycle EXCEPT !.phase = "completing", !.held = profile]
                ELSE Rested
    /\ KeepsFile /\ UNCHANGED <<reached, editor, writer, armings, sends>>

CompleteClaim ==
    /\ cycle.phase = "completing"
    /\ Replace(Held(cycle.result), cycle.held)
    /\ cycle' = Rested
    /\ UNCHANGED <<reached, editor, writer, armings, sends>>

\* An error in the file ends the profile's turn; a tray that dies takes the
\* dialog with it.
CycleEnds ==
    /\ cycle.phase # "idle" \/ editor.open
    /\ cycle' = Rested
    /\ editor' \in {editor, Closed}
    /\ KeepsFile /\ UNCHANGED <<reached, writer, armings, sends>>

-----------------------------------------------------------------------------
\* The dialog has an event loop of its own, in which the timer goes on firing.
OpenEditor ==
    /\ cycle.phase = "idle" /\ ~editor.open
    /\ editor' = [open |-> TRUE, held |-> profile]
    /\ KeepsFile /\ UNCHANGED <<reached, cycle, writer, armings, sends>>

\* _rules_for_settings: the legacy schedule is shown where there is no rule.
Shown(p) == IF p.slot["rule"] = "none" /\ p.slot["legacy"] # "disabled"
            THEN p.slot["legacy"] ELSE p.slot["rule"]

\* configure_prompt_rule keeps a rule that was not changed, and arms or disables
\* one that was; the user may also remove it.
Edited(shown) == {shown, "armed", "disabled", "none"}

\* Faulty variant: the legacy schedule stays beside the rule made of it.
KeepsLegacy(rule, automation) ==
    /\ cycle.phase = "idle" /\ editor.open
    /\ rule = "armed" /\ Shown(editor.held) # "armed" => armings < MaxArmings
    /\ armings' = IF rule = "armed" /\ Shown(editor.held) # "armed"
                  THEN armings + 1 ELSE armings
    /\ Replace([automation |-> automation, slot |-> [editor.held.slot EXCEPT !["rule"] = rule]],
               editor.held)
    /\ editor' = Closed
    /\ UNCHANGED <<reached, cycle, writer, sends>>

\* result_settings disables the legacy schedule; the rule is the one shown,
\* edited or removed.
SavesEditor(rule, automation) ==
    /\ cycle.phase = "idle" /\ editor.open
    /\ rule = "armed" /\ Shown(editor.held) # "armed" => armings < MaxArmings
    /\ armings' = IF rule = "armed" /\ Shown(editor.held) # "armed"
                  THEN armings + 1 ELSE armings
    /\ Replace([automation |-> automation,
                slot |-> [s \in Slots |-> IF s = "rule" THEN rule ELSE "disabled"]],
               editor.held)
    /\ editor' = Closed
    /\ UNCHANGED <<reached, cycle, writer, sends>>

SavePreferences ==
    \E automation \in BOOLEAN :
       \E rule \in Edited(Shown(editor.held)) : SavesEditor(rule, automation)

-----------------------------------------------------------------------------
\* disable-current-automation, disable-current-prompt-rules, and whoever saves
\* another profile of the same file.
WriterLoads(w) ==
    /\ writer[w] = Away
    /\ \E saves \in {"another profile", "automation off", "rules off"} :
          writer' = [writer EXCEPT ![w] = [saves |-> saves, held |-> profile]]
    /\ KeepsFile /\ UNCHANGED <<reached, cycle, editor, armings, sends>>

\* disable_all_prompt_rules does not reach the legacy schedule.
LeftBy(w) ==
    LET held == writer[w].held IN
    CASE writer[w].saves = "automation off" -> [held EXCEPT !.automation = FALSE]
      [] writer[w].saves = "rules off" ->
            [held EXCEPT !.slot["rule"] = IF @ = "none" THEN @ ELSE "disabled"]
      [] OTHER -> held

WriterSaves(w) ==
    /\ writer[w] # Away
    /\ Replace(LeftBy(w), writer[w].held)
    /\ writer' = [writer EXCEPT ![w] = Away]
    /\ UNCHANGED <<reached, cycle, editor, armings, sends>>

WriterEnds(w) ==
    /\ writer[w] # Away
    /\ writer' = [writer EXCEPT ![w] = Away]
    /\ KeepsFile /\ UNCHANGED <<reached, cycle, editor, armings, sends>>

ScheduleNext ==
    \/ ConditionChanges
    \/ \E s \in Slots : LooksAt(s)
    \/ ClaimSchedule \/ SendScheduled \/ ReadClaim \/ CompleteClaim \/ CycleEnds
    \/ OpenEditor \/ SavePreferences
    \/ \E w \in Writers : WriterLoads(w) \/ WriterSaves(w) \/ WriterEnds(w)

ScheduleSpec == ScheduleInit /\ [][ScheduleNext]_scheduleVars

-----------------------------------------------------------------------------
ScheduleTypeOK ==
    /\ profile \in Profile /\ reached \in BOOLEAN
    /\ cycle \in Timer /\ editor \in Editor /\ writer \in [Writers -> Writer]
    /\ armings \in 1..MaxArmings /\ sends \in 0..MaxSends
    /\ overwritten \in BOOLEAN

\* The prompt is one-shot: it is sent at most once for each time it was armed,
\* through its conversion to a rule, failures, restarts and commands that
\* disable it, unless a save put an older state of it back into the file.
ScheduleIsOneShot == ~overwritten => sends <= armings
=============================================================================
