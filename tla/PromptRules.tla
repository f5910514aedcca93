---------------------------- MODULE PromptRules ----------------------------
(***************************************************************************)
(* Prompt rules of one worker's profile in control.json.  The tray's timer *)
(* dispatches the rules without a usage gate, the prompt-rule observer the *)
(* gated ones; the Preferences dialog edits them while the timer goes on,  *)
(* and commands of the running session disable them.                       *)
(*                                                                         *)
(* ControlStore.save replaces the profile by the settings its caller read  *)
(* some time before, without a lock or a version.  What a process read is  *)
(* kept here in "held"; saving it is a step of its own.                    *)
(*                                                                         *)
(* A rule's last_state tells enabled and awaiting_confirmation apart, so   *)
(* the row keeps it alone.  Each rule addresses a session of its own.  A   *)
(* removed rule is a disabled one that nobody enables.                     *)
(***************************************************************************)
EXTENDS Integers, FiniteSets

CONSTANTS
    NumRules,       \* rules of the profile, in the order of the file
    Red,            \* rules with trigger "red_inactivity"; the others "after_delay"
    Gated,          \* rules with require_usage_available
    Repeating,      \* rules with repeat_enabled
    MaxOccurrences, \* max_occurrences of every rule
    Delay,          \* delay_minutes of every rule
    Interval,       \* repeat_interval_minutes of every rule
    RedAfter,       \* silence after which the worker is red
    EvidenceTtl,    \* how long an observation of the account's limits is valid
    Tray,           \* the tray process
    RuleObservers,  \* observe-prompt-rules processes: the service, and --once
    Disablers,      \* disable-current-automation and disable-current-prompt-rules
    MaxMinutes,     \* bound: the clock stops here
    MaxEdits,       \* bound: times Preferences is saved
    MaxArmings,     \* bound: times a rule is armed
    MaxAttempts     \* bound: transports begun for a rule before no more are claimed

ASSUME RuleConstants ==
    /\ NumRules \in Nat
    /\ Red \subseteq 1 .. NumRules /\ Gated \subseteq 1 .. NumRules
    /\ Repeating \subseteq 1 .. NumRules
    /\ MaxOccurrences \in Nat \ {0} /\ Delay \in Nat /\ Interval \in Nat
    /\ RedAfter \in Nat /\ EvidenceTtl \in Nat \ {0}
    /\ Tray \notin RuleObservers /\ IsFiniteSet(RuleObservers)
    /\ MaxMinutes \in Nat /\ MaxEdits \in Nat
    /\ MaxArmings \in Nat /\ MaxAttempts \in Nat

Rules     == 1 .. NumRules
Processes == {Tray} \cup RuleObservers
Minutes   == 0 .. MaxMinutes
Unset     == -1
Later(a, b) == IF a > b THEN a ELSE b

VARIABLES
    minute,    \* wall clock
    file,      \* the profile's settings in control.json
    proc,      \* process -> its cycle under way
    dialog,    \* the Preferences dialog: the settings it was opened with
    command,   \* command -> the settings it read
    observed,  \* rule -> latest hook of the rule's session
    redAt,     \* when the worker turns red, if it stays silent
    usage,     \* rule -> newest account-limit evidence for its session
    arms,      \* rule -> times it was armed
    attempts,  \* rule -> transports begun
    lost       \* rules a save put back from settings out of date

ruleVars == <<minute, file, proc, dialog, command, observed, redAt, usage, arms,
              attempts, lost>>

-----------------------------------------------------------------------------
Ready    == {"armed", "waiting_for_event", "waiting_for_usage"}
Enabled  == Ready \cup {"waiting_for_confirmation"}
Resting  == {"disabled", "dispatch_started", "failed_or_uncertain"}
States   == Enabled \cup Resting \cup {"dispatching"}
Switch   == {"on", "off"}

RuleRow == [state : States, due : Nat \cup {Unset}, armed : Minutes \cup {Unset},
            count : 0 .. MaxOccurrences, attempt : Minutes \cup {Unset}]

\* configure_prompt_rule of a rule that is not enabled, and of one that is.
DisabledRow == [state |-> "disabled", due |-> Unset, armed |-> Unset, count |-> 0,
                attempt |-> Unset]

ArmedRow(r, now) ==
    [DisabledRow EXCEPT
       !.state = IF r \in Red THEN "waiting_for_event" ELSE "armed",
       !.due   = IF r \in Red THEN Unset ELSE now + Delay,
       !.armed = now]

Settings == [automation : Switch, native : Switch, rules : [Rules -> RuleRow]]

NewProfile == [automation |-> "on", native |-> "on",
               rules |-> [r \in Rules |-> ArmedRow(r, 0)]]

Cycle == [phase : {"idle", "recording", "loading", "rules", "due", "saving",
                   "sending", "sent", "failed"},
          now : Minutes, held : Settings, rule : Nat, row : RuleRow,
          next : {"rules", "due", "skip", "sending", "finish"},
          targets : SUBSET Rules, limits : {"available", "other"}]

NoCycle == [phase |-> "idle", now |-> 0, held |-> NewProfile, rule |-> 1,
            row |-> DisabledRow, next |-> "finish", targets |-> {},
            limits |-> "other"]

Evidence == [at : Minutes \cup {Unset}, limits : {"available", "other"}]

RulesInit ==
    /\ minute = 0
    /\ file = NewProfile
    /\ proc = [p \in Processes |-> NoCycle]
    /\ dialog = [open |-> "no", held |-> NewProfile, edits |-> 0]
    /\ command = [c \in Disablers |-> [kind |-> "none", held |-> NewProfile]]
    /\ observed = [r \in Rules |-> Unset]
    /\ redAt = Unset
    /\ usage = [r \in Rules |-> [at |-> Unset, limits |-> "other"]]
    /\ arms = [r \in Rules |-> 1]
    /\ attempts = [r \in Rules |-> 0]
    /\ lost = {}

-----------------------------------------------------------------------------
(* The world around the profile.                                           *)

WorldFrame == UNCHANGED <<file, proc, dialog, command, arms, attempts, lost>>

MinutePasses ==
    /\ minute < MaxMinutes
    /\ minute' = minute + 1
    /\ UNCHANGED <<observed, redAt, usage>>
    /\ WorldFrame

\* A hook of a repeating rule's session, which counts as the worker's activity.
\* What other hooks do is WorkerReports.
HookArrives(r) ==
    /\ observed' = [observed EXCEPT ![r] = minute]
    /\ redAt' = minute + RedAfter
    /\ UNCHANGED <<minute, usage>>
    /\ WorldFrame

\* The worker reports, or finishes; an idle worker never turns red.  Without red
\* rules nobody reads when it does.
WorkerReports ==
    /\ Red # {}
    /\ redAt' \in {minute + RedAfter, Unset}
    /\ UNCHANGED <<minute, observed, usage>>
    /\ WorldFrame

\* list_evidence gives the newest observation first.
Recorded(r, at, limits) ==
    IF at >= usage[r].at THEN [usage EXCEPT ![r] = [at |-> at, limits |-> limits]]
    ELSE usage

\* observe-codex-limits, for the same session.
LimitsObserved(r, limits) ==
    /\ usage' = Recorded(r, minute, limits)
    /\ UNCHANGED <<minute, observed, redAt>>
    /\ WorldFrame

-----------------------------------------------------------------------------
(* observe_prompt_rules_once.                                              *)

Becomes(p, cycle) == proc' = [proc EXCEPT ![p] = cycle]

ReadFrame == UNCHANGED <<minute, file, dialog, command, observed, redAt, arms,
                         attempts, lost>>

\* due_usage_rule_targets.
Targets == {r \in Gated : /\ file.automation = "on"
                          /\ file.rules[r].state \in Enabled
                          /\ file.rules[r].due \in 0 .. minute}

\* One answer of the App Server, which comes later, serves all targets.
FindTargets(o, limits) ==
    /\ proc[o].phase = "idle"
    /\ Targets # {}
    /\ Becomes(o, [NoCycle EXCEPT !.phase = "recording", !.now = minute,
                                  !.targets = Targets, !.limits = limits])
    /\ UNCHANGED usage
    /\ ReadFrame

RecordLimits(o, r) ==
    /\ proc[o].phase = "recording"
    /\ r \in proc[o].targets
    /\ usage' = Recorded(r, proc[o].now, proc[o].limits)
    /\ Becomes(o, [proc[o] EXCEPT !.phase = "loading", !.targets = @ \ {r}])
    /\ ReadFrame

-----------------------------------------------------------------------------
(* process_prompt_rules, for the tray and for an observer.                 *)

RuleFrame == UNCHANGED <<minute, dialog, command, observed, redAt, usage>>
LoopFrame == RuleFrame /\ UNCHANGED <<file, arms, attempts, lost>>

\* usage_gated_only.
Turn(p) == IF p = Tray THEN Rules \ Gated ELSE Gated

\* The observer goes on with its next target.
Finished(p) == IF proc[p].targets = {} THEN NoCycle
               ELSE [NoCycle EXCEPT !.phase = "recording", !.now = proc[p].now,
                                    !.targets = proc[p].targets,
                                    !.limits = proc[p].limits]

LoadSettings(p) ==
    /\ \/ p = Tray /\ proc[p].phase = "idle"
       \/ p # Tray /\ proc[p].phase = "loading"
    /\ Becomes(p, IF file.automation = "off" THEN Finished(p)
                  ELSE [proc[p] EXCEPT !.phase = "rules", !.held = file, !.rule = 1,
                                       !.now = IF p = Tray THEN minute ELSE @])
    /\ LoopFrame

Row(p) == proc[p].held.rules[proc[p].rule]

Considers(p) == proc[p].phase = "rules" /\ proc[p].rule \in Turn(p)

\* _save_rule, decided: row is written in the place of the rule's.
Saves(p, row, next) ==
    Becomes(p, [proc[p] EXCEPT !.phase = "saving", !.row = row, !.next = next])

GoesOn(p) == Becomes(p, [proc[p] EXCEPT !.phase = "rules", !.rule = @ + 1])

SkipRule(p) ==
    /\ proc[p].phase = "rules" /\ proc[p].rule \in Rules
    /\ proc[p].rule \notin Turn(p) \/ Row(p).state \notin Enabled
    /\ GoesOn(p)
    /\ LoopFrame

EndCycle(p) ==
    /\ proc[p].phase = "rules" /\ proc[p].rule > NumRules
    /\ Becomes(p, Finished(p))
    /\ LoopFrame

\* Faulty variant: a hook of the attempt's own instant confirms it.
ConfirmsWithOldHook(p) ==
    LET r == proc[p].rule
    IN  /\ Considers(p)
        /\ Row(p).state = "waiting_for_confirmation"
        /\ IF observed[r] >= Row(p).attempt
           THEN /\ arms[r] < MaxArmings
                /\ Saves(p, [Row(p) EXCEPT !.state = "armed",
                                           !.due = observed[r] + Interval], "rules")
           ELSE GoesOn(p)
        /\ LoopFrame

\* A repeated rule waits for a hook of its session after the last attempt.
AwaitConfirmation(p) ==
    LET r == proc[p].rule
    IN  /\ Considers(p)
        /\ Row(p).state = "waiting_for_confirmation"
        /\ IF observed[r] > Row(p).attempt
           THEN /\ arms[r] < MaxArmings
                /\ Saves(p, [Row(p) EXCEPT !.state = "armed",
                                           !.due = observed[r] + Interval], "rules")
           ELSE GoesOn(p)
        /\ LoopFrame

\* The first occurrence of a red rule waits for the worker to be red.
WaitsForRed(p) == proc[p].rule \in Red /\ Row(p).count = 0

IsRed(p) == redAt \in 0 .. proc[p].now

AwaitRed(p) ==
    /\ Considers(p)
    /\ Row(p).state \in Ready /\ WaitsForRed(p) /\ ~IsRed(p)
    /\ IF Row(p).due # Unset \/ Row(p).state # "waiting_for_event"
       THEN Saves(p, [Row(p) EXCEPT !.state = "waiting_for_event", !.due = Unset], "skip")
       ELSE GoesOn(p)
    /\ LoopFrame

SetDue(p) ==
    /\ Considers(p)
    /\ Row(p).state \in Ready /\ WaitsForRed(p) /\ IsRed(p)
    /\ Row(p).due = Unset
    /\ Saves(p, [Row(p) EXCEPT !.state = "armed",
                               !.due = Later(redAt, Row(p).armed) + Delay], "due")
    /\ LoopFrame

AtDueCheck(p) ==
    \/ proc[p].phase = "due"
    \/ /\ Considers(p) /\ Row(p).state \in Ready
       /\ WaitsForRed(p) => IsRed(p) /\ Row(p).due # Unset

IsDue(p) == Row(p).due \in 0 .. proc[p].now

NotYetDue(p) ==
    /\ AtDueCheck(p) /\ ~IsDue(p)
    /\ GoesOn(p)
    /\ LoopFrame

\* _usage_available_after_due.
UsageAvailable(p) ==
    LET u == usage[proc[p].rule]
    IN  /\ u.at >= Row(p).due /\ u.at + EvidenceTtl > proc[p].now
        /\ u.limits = "available"

MayDispatch(p) == proc[p].rule \in Gated => UsageAvailable(p)

AwaitUsage(p) ==
    /\ AtDueCheck(p) /\ IsDue(p) /\ ~MayDispatch(p)
    /\ IF Row(p).state # "waiting_for_usage"
       THEN Saves(p, [Row(p) EXCEPT !.state = "waiting_for_usage"], "skip")
       ELSE GoesOn(p)
    /\ LoopFrame

\* Faulty variant: the transport begins before the claim is in the file.
ClaimsInMemory(p) ==
    /\ AtDueCheck(p) /\ IsDue(p) /\ MayDispatch(p)
    /\ attempts[proc[p].rule] < MaxAttempts
    /\ Becomes(p, [proc[p] EXCEPT !.phase = "sending"])
    /\ LoopFrame

Claim(p) ==
    /\ AtDueCheck(p) /\ IsDue(p) /\ MayDispatch(p)
    /\ attempts[proc[p].rule] < MaxAttempts
    /\ Saves(p, [Row(p) EXCEPT !.state = "dispatching", !.due = Unset,
                               !.attempt = proc[p].now], "sending")
    /\ LoopFrame

\* Rules of the file that are no longer as base has them.
Changed(base) == {r \in Rules : file.rules[r] # base.rules[r]}

\* ControlStore.save.
SaveRule(p) ==
    LET c     == proc[p]
        r     == c.rule
        saved == [c.held EXCEPT !.rules[r] = c.row]
    IN  /\ c.phase = "saving"
        /\ file' = saved
        /\ lost' = lost \cup Changed(c.held)
        /\ arms' = IF Row(p).state = "waiting_for_confirmation" /\ c.row.state = "armed"
                   THEN [arms EXCEPT ![r] = @ + 1] ELSE arms
        /\ Becomes(p, IF c.next = "finish" THEN Finished(p)
                      ELSE [c EXCEPT !.held = saved, !.row = DisabledRow, !.next = "finish",
                                     !.phase = IF c.next = "skip" THEN "rules" ELSE c.next,
                                     !.rule = IF c.next = "skip" THEN @ + 1 ELSE @])
        /\ UNCHANGED attempts
        /\ RuleFrame

\* send_native_message, detached: started or not.
Send(p, ok) ==
    /\ proc[p].phase = "sending"
    /\ attempts' = [attempts EXCEPT ![proc[p].rule] = @ + 1]
    /\ Becomes(p, [proc[p] EXCEPT !.phase = IF ok THEN "sent" ELSE "failed"])
    /\ UNCHANGED <<file, arms, lost>>
    /\ RuleFrame

\* Faulty variant: the transport's outcome is stored as it is.
StoresOutcome(p) ==
    /\ proc[p].phase \in {"sent", "failed"}
    /\ Becomes(p, [proc[p] EXCEPT
                     !.phase = "saving", !.held = file, !.next = "finish",
                     !.row = [file.rules[proc[p].rule] EXCEPT !.state = proc[p].phase]])
    /\ LoopFrame

\* Faulty variant: nobody looks what has become of the rule meanwhile.
CompletesAnyRow(p) ==
    /\ proc[p].phase \in {"sent", "failed"}
    /\ Becomes(p, [proc[p] EXCEPT
                     !.phase = "saving", !.held = file, !.next = "finish",
                     !.row = [file.rules[proc[p].rule] EXCEPT
                                !.count = 1, !.state = "waiting_for_confirmation"]])
    /\ LoopFrame

\* _complete_dispatch reads the file again.  A rule cannot be enabled while
\* native input is off: save raises and the row stays as it is.
CompleteDispatch(p) ==
    LET r      == proc[p].rule
        count  == Row(p).count + (IF proc[p].phase = "sent" THEN 1 ELSE 0)
        repeat == proc[p].phase = "sent" /\ r \in Repeating /\ count < MaxOccurrences
    IN  /\ proc[p].phase \in {"sent", "failed"}
        /\ \/ /\ file.rules[r].state # "dispatching" \/ (repeat /\ file.native = "off")
              /\ Becomes(p, Finished(p))
           \/ /\ file.rules[r].state = "dispatching"
              /\ repeat => file.native = "on"
              /\ Becomes(p, [proc[p] EXCEPT
                               !.phase = "saving", !.held = file, !.next = "finish",
                               !.row = [file.rules[r] EXCEPT
                                          !.count = count,
                                          !.state = IF repeat THEN "waiting_for_confirmation"
                                                    ELSE IF proc[p].phase = "sent"
                                                         THEN "dispatch_started"
                                                         ELSE "failed_or_uncertain"]])
        /\ LoopFrame

\* An error in a file or the database, or a kill.
ProcessEnds(p) ==
    /\ proc[p].phase # "idle"
    /\ Becomes(p, NoCycle)
    /\ LoopFrame

Works(p) ==
    \/ LoadSettings(p) \/ SkipRule(p) \/ EndCycle(p)
    \/ AwaitConfirmation(p) \/ AwaitRed(p) \/ SetDue(p)
    \/ NotYetDue(p) \/ AwaitUsage(p) \/ Claim(p)
    \/ SaveRule(p)
    \/ \E ok \in BOOLEAN : Send(p, ok)
    \/ CompleteDispatch(p)

ObserveLimits(o) ==
    \/ \E limits \in {"available", "other"} : FindTargets(o, limits)
    \/ \E r \in Rules : RecordLimits(o, r)

-----------------------------------------------------------------------------
(* The Preferences dialog.  Timer and dialog share the tray's thread.      *)

EditFrame == UNCHANGED <<minute, proc, observed, redAt, usage, attempts>>

OpenPreferences ==
    /\ proc[Tray].phase = "idle" /\ dialog.open = "no"
    /\ dialog.edits < MaxEdits
    /\ dialog' = [dialog EXCEPT !.open = "yes", !.held = file]
    /\ UNCHANGED <<file, command, arms, lost>>
    /\ EditFrame

\* Cancel, another profile, or the end of the tray.
ClosePreferences ==
    /\ proc[Tray].phase = "idle" /\ dialog.open = "yes"
    /\ dialog' = [dialog EXCEPT !.open = "no", !.held = NewProfile]
    /\ UNCHANGED <<file, command, arms, lost>>
    /\ EditFrame

\* result_settings: an unchanged rule keeps the row the dialog was opened with,
\* a changed one begins anew.
SavePreferences(automation, native, edit) ==
    /\ proc[Tray].phase = "idle" /\ dialog.open = "yes"
    /\ file' = [automation |-> automation, native |-> native,
                rules |-> [r \in Rules |->
                             CASE edit[r] = "keep"    -> dialog.held.rules[r]
                               [] edit[r] = "disable" -> DisabledRow
                               [] edit[r] = "arm"     -> ArmedRow(r, minute)]]
    /\ native = "off" => \A r \in Rules : file'.rules[r].state \notin Enabled
    /\ \A r \in Rules : edit[r] = "arm" => arms[r] < MaxArmings
    /\ arms' = [r \in Rules |-> IF edit[r] = "arm" THEN arms[r] + 1 ELSE arms[r]]
    /\ lost' = lost \cup {r \in Changed(dialog.held) : edit[r] = "keep"}
    /\ dialog' = [open |-> "no", held |-> NewProfile, edits |-> dialog.edits + 1]
    /\ UNCHANGED command
    /\ EditFrame

-----------------------------------------------------------------------------
(* disable-current-automation and disable-current-prompt-rules.            *)

ReadProfile(c, kind) ==
    /\ command[c].kind = "none"
    /\ command' = [command EXCEPT ![c] = [kind |-> kind, held |-> file]]
    /\ UNCHANGED <<file, dialog, arms, lost>>
    /\ EditFrame

SaveDisabled(c) ==
    /\ command[c].kind # "none"
    /\ \/ /\ command[c].kind = "automation"
          /\ file' = [command[c].held EXCEPT !.automation = "off"]
          /\ lost' = lost \cup Changed(command[c].held)
       \/ /\ command[c].kind = "rules"
          /\ file' = [command[c].held EXCEPT !.rules = [r \in Rules |-> DisabledRow]]
          /\ UNCHANGED lost
    /\ command' = [command EXCEPT ![c] = [kind |-> "none", held |-> NewProfile]]
    /\ UNCHANGED <<dialog, arms>>
    /\ EditFrame

-----------------------------------------------------------------------------
RulesNext ==
    \/ MinutePasses
    \/ \E r \in Repeating : HookArrives(r)
    \/ WorkerReports
    \/ \E r \in Gated, limits \in {"available", "other"} : LimitsObserved(r, limits)
    \/ \E o \in RuleObservers : ObserveLimits(o)
    \/ \E p \in Processes : Works(p) \/ ProcessEnds(p)
    \/ OpenPreferences \/ ClosePreferences
    \/ \E automation, native \in Switch, edit \in [Rules -> {"keep", "disable", "arm"}] :
          SavePreferences(automation, native, edit)
    \/ \E c \in Disablers, kind \in {"automation", "rules"} : ReadProfile(c, kind)
    \/ \E c \in Disablers : SaveDisabled(c)

RulesSpec == RulesInit /\ [][RulesNext]_ruleVars

\* The tray's timer fires every second and the observer polls for ever; a cycle
\* that began goes on.
FairRulesSpec ==
    /\ RulesSpec
    /\ \A p \in Processes : WF_ruleVars(Works(p))
    /\ \A o \in RuleObservers : WF_ruleVars(ObserveLimits(o))

-----------------------------------------------------------------------------
RulesTypeOK ==
    /\ minute \in Minutes
    /\ file \in Settings
    /\ proc \in [Processes -> Cycle]
    /\ dialog \in [open : {"no", "yes"}, held : Settings, edits : Nat]
    /\ command \in [Disablers -> [kind : {"none", "automation", "rules"}, held : Settings]]
    /\ observed \in [Rules -> Minutes \cup {Unset}]
    /\ redAt \in Nat \cup {Unset}
    /\ usage \in [Rules -> Evidence]
    /\ arms \in [Rules -> Nat] /\ attempts \in [Rules -> Nat]
    /\ lost \subseteq Rules

-----------------------------------------------------------------------------
(* Safety.                                                                 *)

\* The claim before the transport holds what it is for: whoever races, dies or
\* fails, a rule is dispatched once for each time it was armed, unless a save
\* has put back a row its writer did not see change.
SentOncePerArming == \A r \in DOMAIN attempts \ lost : attempts[r] <= arms[r]

\* What the tray guide says without that excuse.
NeverSentAgain == \A r \in DOMAIN attempts : attempts[r] <= arms[r]

\* A rule that fired is due again only an interval after a hook of its session
\* that came after the attempt, and fires at most max_occurrences times in all.
RepeatsFollowTheSession ==
    \A r \in DOMAIN file.rules :
        LET row == file.rules[r]
        IN  row.state \in Enabled /\ row.count > 0 =>
               /\ r \in Repeating /\ row.count < MaxOccurrences
               /\ row.state \in Ready =>
                     row.attempt < row.due - Interval /\ row.due - Interval <= observed[r]

\* README: a repeating rule pauses only until a later hook of its session.
ConfirmedRulesAreRearmed ==
    \A r \in Rules :
        /\ file.rules[r].state = "waiting_for_confirmation"
        /\ observed[r] > file.rules[r].attempt
        /\ file.automation = "on"
        ~> file.rules[r].state # "waiting_for_confirmation"

\* A rule that was disabled, or rests after an attempt that went out, failed or
\* was uncertain, works again only when someone arms it.
RestIsKept ==
    [][\A r \in DOMAIN file.rules :
          file.rules[r].state \in Resting /\ file'.rules[r].state \in Enabled =>
             arms'[r] > arms[r] \/ r \in lost']_ruleVars
=============================================================================
