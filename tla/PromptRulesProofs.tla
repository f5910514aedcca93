-------------------------- MODULE PromptRulesProofs --------------------------
(***************************************************************************)
(* Proofs about PromptRules.  Every row that is anywhere, in the file or   *)
(* in what a process, the dialog or a command has read, is a row the rules *)
(* may have (RowStands); a cycle that is about to save or to send knows    *)
(* what it replaces (CycleStands); and each arming is one token that lies  *)
(* in the file, with one process about to send, or has been spent (Spent). *)
(***************************************************************************)
EXTENDS PromptRules, FiniteSetTheorems, TLAPS

-----------------------------------------------------------------------------
(* The inductive invariant.                                                *)

RowStands(r, row) ==
    /\ row.state \in Ready \cup {"dispatching"} => row.count < MaxOccurrences
    /\ row.state = "waiting_for_confirmation" =>
          row.count > 0 /\ row.count < MaxOccurrences /\ r \in Repeating
    /\ row.state \in Ready /\ row.count > 0 =>
          /\ r \in Repeating
          /\ row.attempt < row.due - Interval
          /\ row.due - Interval <= observed[r]

SettingsStand(settings) == \A r \in Rules : RowStands(r, settings.rules[r])

HeldState(c) == c.held.rules[c.rule].state

SaveStands(c) ==
    /\ RowStands(c.rule, c.row)
    /\ c.next = "rules" => HeldState(c) = "waiting_for_confirmation" /\ c.row.state = "armed"
    /\ c.next \in {"due", "skip"} => HeldState(c) \in Ready /\ c.row.state \in Ready
    /\ c.next = "sending" => HeldState(c) \in Ready /\ c.row.state = "dispatching"
    /\ c.next = "finish" =>
          /\ HeldState(c) = "dispatching"
          /\ c.row.state \in {"waiting_for_confirmation", "dispatch_started",
                              "failed_or_uncertain"}

CycleStands(c) ==
    /\ SettingsStand(c.held)
    /\ c.phase \in {"due", "saving", "sending", "sent", "failed"} => c.rule \in Rules
    /\ c.phase = "due" => HeldState(c) \in Ready
    /\ c.phase = "saving" => SaveStands(c)
    /\ c.phase \in {"sending", "sent", "failed"} => HeldState(c) = "dispatching"

RowsStand ==
    /\ SettingsStand(file)
    /\ SettingsStand(dialog.held)
    /\ \A c \in Disablers : SettingsStand(command[c].held)
    /\ \A p \in Processes : CycleStands(proc[p])

ObservedPast == \A r \in Rules : observed[r] <= minute

Senders(r) == {p \in Processes : proc[p].phase = "sending" /\ proc[p].rule = r}

Waiting(r) == IF file.rules[r].state \in Ready THEN 1 ELSE 0

Spent == \A r \in Rules \ lost :
            attempts[r] + Waiting(r) + Cardinality(Senders(r)) <= arms[r]

Inv == RulesTypeOK /\ ObservedPast /\ RowsStand /\ Spent

-----------------------------------------------------------------------------
(* Records.                                                                *)

LEMMA SettingsFields ==
    \A s \in Settings : /\ s.automation \in Switch /\ s.native \in Switch
                        /\ s.rules \in [Rules -> RuleRow]
                        /\ \A r \in Rules : s.rules[r] \in RuleRow
BY DEF Settings

LEMMA RowFields ==
    \A row \in RuleRow :
        /\ row.state \in States /\ row.due \in Nat \cup {Unset}
        /\ row.armed \in Minutes \cup {Unset} /\ row.count \in 0 .. MaxOccurrences
        /\ row.attempt \in Minutes \cup {Unset}
BY DEF RuleRow

LEMMA RowUpdates ==
    \A row \in RuleRow :
        /\ \A x \in States : [row EXCEPT !.state = x] \in RuleRow
        /\ \A x \in States, due \in Nat \cup {Unset} :
              [row EXCEPT !.state = x, !.due = due] \in RuleRow
        /\ \A now \in Minutes :
              [row EXCEPT !.state = "dispatching", !.due = Unset, !.attempt = now] \in RuleRow
        /\ \A x \in States, n \in 0 .. MaxOccurrences :
              [row EXCEPT !.count = n, !.state = x] \in RuleRow
BY DEF RuleRow, States

LEMMA FreshRows ==
    /\ DisabledRow \in RuleRow
    /\ \A r \in Rules, now \in Minutes : ArmedRow(r, now) \in RuleRow
    /\ NewProfile \in Settings
<1>0. 0 \in Minutes /\ 0 \in 0 .. MaxOccurrences
    BY RuleConstants DEF Minutes
<1>1. DisabledRow \in RuleRow
    BY <1>0 DEF DisabledRow, RuleRow, States, Resting
<1>2. \A r \in Rules, now \in Minutes : ArmedRow(r, now) \in RuleRow
    <2> SUFFICES ASSUME NEW r \in Rules, NEW now \in Minutes
                 PROVE  ArmedRow(r, now) \in RuleRow
        OBVIOUS
    <2>1. now + Delay \in Nat
        BY RuleConstants DEF Minutes
    <2> QED
        BY <1>0, <2>1 DEF ArmedRow, DisabledRow, RuleRow, States, Enabled, Ready
<1>3. NewProfile \in Settings
    BY <1>0, <1>2 DEF NewProfile, Settings, Switch
<1> QED
    BY <1>1, <1>2, <1>3

LEMMA FreshRowsStand ==
    /\ \A r \in Rules : RowStands(r, DisabledRow)
    /\ \A r \in Rules, now \in Minutes : RowStands(r, ArmedRow(r, now))
    /\ SettingsStand(NewProfile)
<1>1. DisabledRow.state = "disabled" /\ DisabledRow.count = 0
    BY DEF DisabledRow
<1>2. \A r \in Rules, now \in Minutes :
         /\ ArmedRow(r, now).state \in Ready /\ ArmedRow(r, now).count = 0
    BY DEF ArmedRow, DisabledRow, Ready
<1>3. \A r \in Rules : RowStands(r, DisabledRow)
    BY <1>1 DEF RowStands, Ready
<1>4. \A r \in Rules, now \in Minutes : RowStands(r, ArmedRow(r, now))
    BY <1>2, RuleConstants DEF RowStands, Ready
<1>5. 0 \in Minutes
    BY RuleConstants DEF Minutes
<1> QED
    BY <1>3, <1>4, <1>5 DEF SettingsStand, NewProfile

LEMMA CycleFields ==
    \A c \in Cycle :
        /\ c.now \in Minutes /\ c.held \in Settings /\ c.rule \in Nat
        /\ c.row \in RuleRow /\ c.targets \subseteq Rules
        /\ c.limits \in {"available", "other"}
        /\ c.phase \in {"idle", "recording", "loading", "rules", "due", "saving",
                        "sending", "sent", "failed"}
        /\ c.next \in {"rules", "due", "skip", "sending", "finish"}
BY DEF Cycle

LEMMA CycleUpdates ==
    ASSUME NEW c \in Cycle
    PROVE
        /\ \A row \in RuleRow, next \in {"rules", "due", "skip", "sending", "finish"} :
              [c EXCEPT !.phase = "saving", !.row = row, !.next = next] \in Cycle
        /\ \A n \in Nat : [c EXCEPT !.phase = "rules", !.rule = n] \in Cycle
        /\ \A x \in {"sending", "sent", "failed"} : [c EXCEPT !.phase = x] \in Cycle
        /\ \A held \in Settings, row \in RuleRow :
              [c EXCEPT !.phase = "saving", !.held = held, !.next = "finish",
                        !.row = row] \in Cycle
        /\ \A held \in Settings, now \in Minutes :
              [c EXCEPT !.phase = "rules", !.held = held, !.rule = 1, !.now = now] \in Cycle
        /\ \A held \in Settings, x \in {"rules", "due", "sending"}, n \in Nat :
              [c EXCEPT !.held = held, !.row = DisabledRow, !.next = "finish",
                        !.phase = x, !.rule = n] \in Cycle
        /\ \A targets \in SUBSET Rules :
              [c EXCEPT !.phase = "loading", !.targets = targets] \in Cycle
<1>1. \A row \in RuleRow, next \in {"rules", "due", "skip", "sending", "finish"} :
         [c EXCEPT !.phase = "saving", !.row = row, !.next = next] \in Cycle
    BY DEF Cycle
<1>2. \A n \in Nat : [c EXCEPT !.phase = "rules", !.rule = n] \in Cycle
    BY DEF Cycle
<1>3. \A x \in {"sending", "sent", "failed"} : [c EXCEPT !.phase = x] \in Cycle
    BY DEF Cycle
<1>4. \A held \in Settings, row \in RuleRow :
         [c EXCEPT !.phase = "saving", !.held = held, !.next = "finish",
                   !.row = row] \in Cycle
    BY DEF Cycle
<1>5. \A held \in Settings, now \in Minutes :
         [c EXCEPT !.phase = "rules", !.held = held, !.rule = 1, !.now = now] \in Cycle
    BY DEF Cycle
<1>6. DisabledRow \in RuleRow
    BY FreshRows
<1>7. \A held \in Settings, x \in {"rules", "due", "sending"}, n \in Nat :
         [c EXCEPT !.held = held, !.row = DisabledRow, !.next = "finish",
                   !.phase = x, !.rule = n] \in Cycle
    BY <1>6 DEF Cycle
<1>8. \A targets \in SUBSET Rules :
         [c EXCEPT !.phase = "loading", !.targets = targets] \in Cycle
    BY DEF Cycle
<1> QED
    BY <1>1, <1>2, <1>3, <1>4, <1>5, <1>7, <1>8

LEMMA FreshCycles ==
    /\ NoCycle \in Cycle
    /\ \A now \in Minutes, targets \in SUBSET Rules, limits \in {"available", "other"} :
          [NoCycle EXCEPT !.phase = "recording", !.now = now,
                          !.targets = targets, !.limits = limits] \in Cycle
<1>1. 0 \in Minutes
    BY RuleConstants DEF Minutes
<1> QED
    BY <1>1, FreshRows DEF Cycle, NoCycle

-----------------------------------------------------------------------------
(* Rows and cycles over a step.                                            *)

\* A later hook refutes no row.
LEMMA StandsLater ==
    ASSUME RulesTypeOK, RulesTypeOK', \A r \in Rules : observed[r] <= observed'[r]
    PROVE  /\ \A s \in Settings : SettingsStand(s) => SettingsStand(s)'
           /\ \A c \in Cycle : CycleStands(c) => CycleStands(c)'
<1>1. \A r \in Rules : observed[r] \in Int /\ observed'[r] \in Int
    BY RuleConstants DEF RulesTypeOK, Minutes, Unset
<1>2. ASSUME NEW r \in Rules, NEW row \in RuleRow, RowStands(r, row)
      PROVE  RowStands(r, row)'
    <2>1. row.due - Interval \in Int
        BY RowFields, RuleConstants DEF Unset
    <2>2. row.due - Interval <= observed[r] => row.due - Interval <= observed'[r]
        BY <1>1, <2>1
    <2> QED
        BY <1>2, <2>2 DEF RowStands
<1>3. \A s \in Settings : SettingsStand(s) => SettingsStand(s)'
    BY <1>2, SettingsFields DEF SettingsStand
<1>4. ASSUME NEW c \in Cycle, CycleStands(c)
      PROVE  CycleStands(c)'
    <2>1. SettingsStand(c.held)'
        BY <1>3, <1>4, CycleFields DEF CycleStands
    <2>2. c.phase = "saving" => RowStands(c.rule, c.row)'
        BY <1>2, <1>4, CycleFields DEF CycleStands, SaveStands
    <2> QED
        BY <1>4, <2>1, <2>2 DEF CycleStands, SaveStands, HeldState
<1> QED
    BY <1>3, <1>4

LEMMA IdleStands ==
    /\ CycleStands(NoCycle)
    /\ \A now, targets, limits :
          CycleStands([NoCycle EXCEPT !.phase = "recording", !.now = now,
                                      !.targets = targets, !.limits = limits])
BY FreshRowsStand DEF NoCycle, CycleStands

LEMMA EndOfCycle ==
    ASSUME RulesTypeOK, NEW p \in Processes
    PROVE  /\ Finished(p) \in Cycle /\ CycleStands(Finished(p))
           /\ Finished(p).phase # "sending"
<1>1. proc[p] \in Cycle
    BY DEF RulesTypeOK
<1>2. CASE proc[p].targets = {}
    <2>1. Finished(p) = NoCycle
        BY <1>2 DEF Finished
    <2>2. NoCycle.phase = "idle"
        BY DEF NoCycle
    <2> QED
        BY <2>1, <2>2, FreshCycles, IdleStands
<1>3. CASE proc[p].targets # {}
    <2> DEFINE d == [NoCycle EXCEPT !.phase = "recording", !.now = proc[p].now,
                                    !.targets = proc[p].targets,
                                    !.limits = proc[p].limits]
    <2>1. Finished(p) = d
        BY <1>3 DEF Finished
    <2>2. d.phase = "recording"
        BY DEF NoCycle
    <2>3. d \in Cycle
        BY <1>1, CycleFields, FreshCycles
    <2>4. CycleStands(d)
        BY IdleStands
    <2> QED
        BY <2>1, <2>2, <2>3, <2>4
<1> QED
    BY <1>2, <1>3

\* A decision of _save_rule stands when the new row and what it replaces fit.
LEMMA DecisionStands ==
    ASSUME NEW c \in Cycle, SettingsStand(c.held), c.rule \in Rules,
           NEW row \in RuleRow, RowStands(c.rule, row),
           NEW next \in {"rules", "due", "skip", "sending"},
           next = "rules" => HeldState(c) = "waiting_for_confirmation" /\ row.state = "armed",
           next \in {"due", "skip"} => HeldState(c) \in Ready /\ row.state \in Ready,
           next = "sending" => HeldState(c) \in Ready /\ row.state = "dispatching"
    PROVE  /\ [c EXCEPT !.phase = "saving", !.row = row, !.next = next] \in Cycle
           /\ CycleStands([c EXCEPT !.phase = "saving", !.row = row, !.next = next])
           /\ [c EXCEPT !.phase = "saving", !.row = row, !.next = next].phase # "sending"
<1> DEFINE d == [c EXCEPT !.phase = "saving", !.row = row, !.next = next]
<1>1. d \in Cycle
    BY CycleUpdates
<1>2. /\ d.phase = "saving" /\ d.row = row /\ d.next = next
      /\ d.held = c.held /\ d.rule = c.rule
    BY DEF Cycle
<1>3. HeldState(d) = HeldState(c)
    BY <1>2 DEF HeldState
<1> HIDE DEF d
<1>4. SaveStands(d)
    BY <1>2, <1>3 DEF SaveStands
<1>5. CycleStands(d)
    BY <1>2, <1>4 DEF CycleStands
<1> QED
    BY <1>1, <1>2, <1>5 DEF d

\* The next rule of a cycle.
LEMMA NextRuleStands ==
    ASSUME NEW c \in Cycle, SettingsStand(c.held)
    PROVE  /\ [c EXCEPT !.phase = "rules", !.rule = @ + 1] \in Cycle
           /\ CycleStands([c EXCEPT !.phase = "rules", !.rule = @ + 1])
           /\ [c EXCEPT !.phase = "rules", !.rule = @ + 1].phase # "sending"
<1>1. c.rule + 1 \in Nat
    BY CycleFields
<1> DEFINE d == [c EXCEPT !.phase = "rules", !.rule = @ + 1]
<1>2. d \in Cycle
    BY <1>1, CycleUpdates
<1>3. d.phase = "rules" /\ d.held = c.held
    BY DEF Cycle
<1> HIDE DEF d
<1>4. CycleStands(d)
    BY <1>3 DEF CycleStands
<1> QED
    BY <1>2, <1>3, <1>4 DEF d

-----------------------------------------------------------------------------
(* Steps of one cycle that leave the file alone.                           *)

LEMMA FiniteSenders ==
    \A r \in Rules : IsFiniteSet(Senders(r)) /\ Cardinality(Senders(r)) \in Nat
<1>1. IsFiniteSet(Processes)
    BY RuleConstants, FS_AddElement DEF Processes
<1>2. \A r \in Rules : Senders(r) \subseteq Processes
    BY DEF Senders
<1> QED
    BY <1>1, <1>2, FS_Subset, FS_CardinalityType

LEMMA FewerSenders ==
    ASSUME NEW r \in Rules, Senders(r)' \subseteq Senders(r)
    PROVE  /\ IsFiniteSet(Senders(r)')
           /\ Cardinality(Senders(r)') \in Nat
           /\ Cardinality(Senders(r)') <= Cardinality(Senders(r))
BY FiniteSenders, FS_Subset, FS_CardinalityType

LEMMA ReplacedSenders ==
    ASSUME RulesTypeOK, NEW p \in Processes, NEW d \in Cycle, proc' = [proc EXCEPT ![p] = d]
    PROVE  \A r \in Rules :
              /\ d.phase # "sending" \/ d.rule # r => Senders(r)' = Senders(r) \ {p}
              /\ d.phase = "sending" /\ d.rule = r => Senders(r)' = Senders(r) \cup {p}
<1>1. proc'[p] = d /\ \A q \in Processes : q # p => proc'[q] = proc[q]
    BY DEF RulesTypeOK
<1>2. TAKE r \in Rules
<1>3. \A q \in Processes : q \in Senders(r)' <=> proc'[q].phase = "sending" /\ proc'[q].rule = r
    BY DEF Senders
<1>4. \A q \in Processes : q \in Senders(r) <=> proc[q].phase = "sending" /\ proc[q].rule = r
    BY DEF Senders
<1>5. Senders(r)' \subseteq Processes /\ Senders(r) \subseteq Processes
    BY DEF Senders
<1>6. ASSUME d.phase # "sending" \/ d.rule # r
      PROVE  Senders(r)' = Senders(r) \ {p}
    BY <1>1, <1>3, <1>4, <1>5, <1>6
<1>7. ASSUME d.phase = "sending" /\ d.rule = r
      PROVE  Senders(r)' = Senders(r) \cup {p}
    BY <1>1, <1>3, <1>4, <1>5, <1>7
<1> QED
    BY <1>6, <1>7

LEMMA SpentStays ==
    ASSUME Inv, RulesTypeOK', UNCHANGED <<file, arms, attempts, lost>>,
           \A r \in Rules : Senders(r)' \subseteq Senders(r)
    PROVE  Spent'
<1> SUFFICES ASSUME NEW r \in Rules \ lost
             PROVE  attempts[r] + Waiting(r) + Cardinality(Senders(r)') <= arms[r]
    BY DEF Spent, Waiting
<1>1. attempts[r] + Waiting(r) + Cardinality(Senders(r)) <= arms[r]
    BY DEF Inv, Spent
<1>2. attempts[r] \in Nat /\ arms[r] \in Nat /\ Waiting(r) \in Nat
    BY DEF Inv, RulesTypeOK, Waiting
<1> QED
    BY <1>1, <1>2, FewerSenders, FiniteSenders

LEMMA ReplacedStands ==
    ASSUME RulesTypeOK, RulesTypeOK', RowsStand, UNCHANGED observed,
           NEW p \in Processes, NEW d \in Cycle, proc' = [proc EXCEPT ![p] = d],
           CycleStands(d)
    PROVE  /\ \A q \in Processes : CycleStands(proc[q])'
           /\ \A s \in Settings : SettingsStand(s) => SettingsStand(s)'
<1>1. \A r \in Rules : observed[r] <= observed'[r]
    BY RuleConstants DEF RulesTypeOK, Minutes, Unset
<1>2. CycleStands(d)'
    BY <1>1, StandsLater
<1>3. ASSUME NEW q \in Processes
      PROVE  CycleStands(proc[q])'
    <2>1. CASE q = p
        <3>1. proc'[q] = d
            BY <2>1 DEF RulesTypeOK
        <3> QED
            BY <1>2, <3>1 DEF CycleStands, SettingsStand, SaveStands, RowStands, HeldState
    <2>2. CASE q # p
        <3>1. proc'[q] = proc[q] /\ CycleStands(proc[q])
            BY <2>2 DEF RulesTypeOK, RowsStand
        <3> QED
            BY <3>1 DEF CycleStands, SettingsStand, SaveStands, RowStands, HeldState
    <2> QED
        BY <2>1, <2>2
<1> QED
    BY <1>1, <1>3, StandsLater

LEMMA CycleReplaced ==
    ASSUME Inv, NEW p \in Processes, NEW d \in Cycle, proc' = [proc EXCEPT ![p] = d],
           CycleStands(d), d.phase # "sending", usage' \in [Rules -> Evidence],
           UNCHANGED <<minute, file, dialog, command, observed, redAt, arms, attempts, lost>>
    PROVE  Inv'
<1>0. RulesTypeOK /\ ObservedPast /\ RowsStand
    BY DEF Inv
<1>1. proc' \in [Processes -> Cycle]
    BY <1>0 DEF RulesTypeOK
<1>2. RulesTypeOK'
    BY <1>0, <1>1 DEF RulesTypeOK
<1>4. ObservedPast'
    BY <1>0 DEF ObservedPast
<1>6. \A q \in Processes : CycleStands(proc[q])'
    BY <1>0, <1>2, ReplacedStands
<1>7. SettingsStand(file)' /\ SettingsStand(dialog.held)'
      /\ \A c \in Disablers : SettingsStand(command[c].held)'
    BY <1>0 DEF RowsStand, SettingsStand, RowStands
<1>8. \A r \in Rules : Senders(r)' \subseteq Senders(r)
    BY <1>0, ReplacedSenders
<1>9. Spent'
    BY <1>2, <1>8, SpentStays
<1> QED
    BY <1>2, <1>4, <1>6, <1>7, <1>9 DEF Inv, RowsStand

LEMMA LoopReplaced ==
    ASSUME Inv, LoopFrame, NEW p \in Processes, NEW d \in Cycle, Becomes(p, d),
           CycleStands(d), d.phase # "sending"
    PROVE  Inv'
<1>1. usage' \in [Rules -> Evidence]
    BY DEF Inv, RulesTypeOK, LoopFrame, RuleFrame
<1>2. proc' = [proc EXCEPT ![p] = d]
    BY DEF Becomes
<1> QED
    BY <1>1, <1>2, CycleReplaced DEF LoopFrame, RuleFrame

\* What a process holds and looks at.
LEMMA AtRule ==
    ASSUME Inv, NEW p \in Processes
    PROVE  /\ proc[p] \in Cycle /\ CycleStands(proc[p])
           /\ SettingsStand(proc[p].held)
           /\ proc[p].phase = "due" => HeldState(proc[p]) \in Ready
           /\ proc[p].phase = "due" \/ proc[p].rule \in Turn(p) => proc[p].rule \in Rules
           /\ HeldState(proc[p]) = Row(p).state
           /\ proc[p].rule \in Rules =>
                 /\ Row(p) \in RuleRow /\ RowStands(proc[p].rule, Row(p))
                 /\ observed[proc[p].rule] \in Minutes \cup {Unset}
<1>1. proc[p] \in Cycle /\ CycleStands(proc[p])
    BY DEF Inv, RulesTypeOK, RowsStand
<1>2. SettingsStand(proc[p].held)
    BY <1>1 DEF CycleStands
<1>3. Turn(p) \subseteq Rules
    BY RuleConstants DEF Turn, Rules
<1>4. proc[p].rule \in Rules => Row(p) \in RuleRow /\ RowStands(proc[p].rule, Row(p))
    BY <1>1, <1>2, CycleFields, SettingsFields DEF Row, SettingsStand
<1>5. observed \in [Rules -> Minutes \cup {Unset}]
    BY DEF Inv, RulesTypeOK
<1> QED
    BY <1>1, <1>2, <1>3, <1>4, <1>5 DEF CycleStands, HeldState, Row

LEMMA LoadSettingsKeeps ==
    ASSUME Inv, NEW p \in Processes, LoadSettings(p)
    PROVE  Inv'
<1>1. RulesTypeOK /\ proc[p] \in Cycle
    BY AtRule DEF Inv
<1>2. file \in Settings /\ minute \in Minutes /\ SettingsStand(file)
    BY DEF Inv, RulesTypeOK, RowsStand
<1>3. LoopFrame
    BY DEF LoadSettings
<1>4. CASE file.automation = "off"
    <2>1. Becomes(p, Finished(p))
        BY <1>4 DEF LoadSettings
    <2> QED
        BY <1>1, <1>3, <2>1, EndOfCycle, LoopReplaced
<1>5. CASE file.automation # "off"
    <2> DEFINE now == IF p = Tray THEN minute ELSE proc[p].now
               d   == [proc[p] EXCEPT !.phase = "rules", !.held = file, !.rule = 1,
                                      !.now = now]
    <2>1. now \in Minutes
        BY <1>1, <1>2, CycleFields
    <2>2. Becomes(p, d)
        BY <1>5 DEF LoadSettings
    <2>3. d.phase = "rules" /\ d.held = file
        BY <1>1 DEF Cycle
    <2>4. d \in Cycle
        BY <1>1, <1>2, <2>1, CycleUpdates
    <2> HIDE DEF d
    <2>5. CycleStands(d)
        BY <1>2, <2>3 DEF CycleStands
    <2> QED
        BY <1>3, <2>2, <2>3, <2>4, <2>5, LoopReplaced
<1> QED
    BY <1>4, <1>5

LEMMA GoesOnKeeps ==
    ASSUME Inv, LoopFrame, NEW p \in Processes, GoesOn(p)
    PROVE  Inv'
<1>1. Becomes(p, [proc[p] EXCEPT !.phase = "rules", !.rule = @ + 1])
    BY DEF GoesOn
<1>2. proc[p] \in Cycle /\ SettingsStand(proc[p].held)
    BY AtRule
<1> QED
    BY <1>1, <1>2, NextRuleStands, LoopReplaced

LEMMA SavesKeeps ==
    ASSUME Inv, LoopFrame, NEW p \in Processes,
           NEW row \in RuleRow, NEW next \in {"rules", "due", "skip", "sending"},
           Saves(p, row, next),
           proc[p].rule \in Rules, RowStands(proc[p].rule, row),
           next = "rules" => Row(p).state = "waiting_for_confirmation" /\ row.state = "armed",
           next \in {"due", "skip"} => Row(p).state \in Ready /\ row.state \in Ready,
           next = "sending" => Row(p).state \in Ready /\ row.state = "dispatching"
    PROVE  Inv'
<1> DEFINE d == [proc[p] EXCEPT !.phase = "saving", !.row = row, !.next = next]
<1>1. Becomes(p, d)
    BY DEF Saves
<1>2. /\ proc[p] \in Cycle /\ SettingsStand(proc[p].held)
      /\ HeldState(proc[p]) = Row(p).state
    BY AtRule
<1>3. d \in Cycle /\ CycleStands(d) /\ d.phase # "sending"
    BY <1>2, DecisionStands
<1> HIDE DEF d
<1> QED
    BY <1>1, <1>3, LoopReplaced

LEMMA EndCycleKeeps ==
    ASSUME Inv, NEW p \in Processes, EndCycle(p)
    PROVE  Inv'
BY EndOfCycle, LoopReplaced DEF EndCycle, Inv

LEMMA ProcessEndsKeeps ==
    ASSUME Inv, NEW p \in Processes, ProcessEnds(p)
    PROVE  Inv'
<1>1. NoCycle.phase # "sending"
    BY DEF NoCycle
<1> QED
    BY <1>1, FreshCycles, IdleStands, LoopReplaced DEF ProcessEnds

-----------------------------------------------------------------------------
(* process_prompt_rules, action by action.                                 *)

LEMMA SkipRuleKeeps ==
    ASSUME Inv, NEW p \in Processes, SkipRule(p)
    PROVE  Inv'
BY GoesOnKeeps DEF SkipRule

LEMMA AwaitConfirmationKeeps ==
    ASSUME Inv, NEW p \in Processes, AwaitConfirmation(p)
    PROVE  Inv'
<1> DEFINE r   == proc[p].rule
           row == [Row(p) EXCEPT !.state = "armed", !.due = observed[r] + Interval]
<1>1. Considers(p) /\ Row(p).state = "waiting_for_confirmation" /\ LoopFrame
    BY DEF AwaitConfirmation
<1>2. /\ r \in Rules /\ Row(p) \in RuleRow /\ RowStands(r, Row(p))
      /\ observed[r] \in Minutes \cup {Unset}
    BY <1>1, AtRule DEF Considers
<1>3. CASE observed[r] > Row(p).attempt
    <2>1. Saves(p, row, "rules")
        BY <1>3 DEF AwaitConfirmation
    <2>2. observed[r] \in Nat /\ observed[r] + Interval - Interval = observed[r]
        BY <1>2, <1>3, RowFields, RuleConstants DEF Minutes, Unset
    <2>3. row \in RuleRow
        <3>1. observed[r] + Interval \in Nat
            BY <2>2, RuleConstants
        <3> QED
            BY <1>2, <3>1, RowUpdates DEF States, Enabled, Ready
    <2>4. /\ row.state = "armed" /\ row.due = observed[r] + Interval
          /\ row.count = Row(p).count /\ row.attempt = Row(p).attempt
        BY <1>2 DEF RuleRow
    <2>5. r \in Repeating /\ Row(p).count < MaxOccurrences
        BY <1>1, <1>2 DEF RowStands
    <2> HIDE DEF row
    <2>6. RowStands(r, row)
        BY <1>2, <1>3, <2>2, <2>4, <2>5, RowFields, RuleConstants DEF RowStands, Ready, Unset, Minutes
    <2> QED
        BY <1>1, <1>2, <2>1, <2>3, <2>4, <2>6, SavesKeeps
<1>4. CASE ~(observed[r] > Row(p).attempt)
    BY <1>1, <1>4, GoesOnKeeps DEF AwaitConfirmation
<1> QED
    BY <1>3, <1>4

LEMMA AwaitRedKeeps ==
    ASSUME Inv, NEW p \in Processes, AwaitRed(p)
    PROVE  Inv'
<1> DEFINE row == [Row(p) EXCEPT !.state = "waiting_for_event", !.due = Unset]
<1>1. Considers(p) /\ Row(p).state \in Ready /\ WaitsForRed(p) /\ LoopFrame
    BY DEF AwaitRed
<1>2. proc[p].rule \in Rules /\ Row(p) \in RuleRow
    BY <1>1, AtRule DEF Considers
<1>3. CASE Saves(p, row, "skip")
    <2>1. row \in RuleRow
        BY <1>2, RowUpdates DEF States, Enabled, Ready
    <2>2. row.state = "waiting_for_event" /\ row.count = 0
        BY <1>1, <1>2 DEF RuleRow, WaitsForRed
    <2> HIDE DEF row
    <2>3. RowStands(proc[p].rule, row)
        BY <2>2, RuleConstants DEF RowStands, Ready
    <2> QED
        BY <1>1, <1>2, <1>3, <2>1, <2>2, <2>3, SavesKeeps DEF Ready
<1>4. CASE GoesOn(p)
    BY <1>1, <1>4, GoesOnKeeps
<1> QED
    BY <1>3, <1>4 DEF AwaitRed

LEMMA SetDueKeeps ==
    ASSUME Inv, NEW p \in Processes, SetDue(p)
    PROVE  Inv'
<1> DEFINE due == Later(redAt, Row(p).armed) + Delay
           row == [Row(p) EXCEPT !.state = "armed", !.due = due]
<1>1. /\ Considers(p) /\ Row(p).state \in Ready /\ WaitsForRed(p) /\ LoopFrame
      /\ IsRed(p) /\ Saves(p, row, "due")
    BY DEF SetDue
<1>2. proc[p].rule \in Rules /\ Row(p) \in RuleRow
    BY <1>1, AtRule DEF Considers
<1>3. redAt \in Nat
    BY <1>1 DEF IsRed
<1>4. due \in Nat
    BY <1>2, <1>3, RowFields, RuleConstants DEF Later, Minutes, Unset
<1>5. row \in RuleRow
    BY <1>2, <1>4, RowUpdates DEF States, Enabled, Ready
<1>6. row.state = "armed" /\ row.count = 0
    BY <1>1, <1>2 DEF RuleRow, WaitsForRed
<1> HIDE DEF row
<1>7. RowStands(proc[p].rule, row)
    BY <1>6, RuleConstants DEF RowStands, Ready
<1> QED
    BY <1>1, <1>2, <1>5, <1>6, <1>7, SavesKeeps DEF Ready

LEMMA ReadyAtDueCheck ==
    ASSUME Inv, NEW p \in Processes, AtDueCheck(p)
    PROVE  /\ proc[p].rule \in Rules /\ Row(p).state \in Ready
           /\ Row(p) \in RuleRow /\ RowStands(proc[p].rule, Row(p))
BY AtRule DEF AtDueCheck, Considers

LEMMA NotYetDueKeeps ==
    ASSUME Inv, NEW p \in Processes, NotYetDue(p)
    PROVE  Inv'
BY GoesOnKeeps DEF NotYetDue

LEMMA AwaitUsageKeeps ==
    ASSUME Inv, NEW p \in Processes, AwaitUsage(p)
    PROVE  Inv'
<1> DEFINE row == [Row(p) EXCEPT !.state = "waiting_for_usage"]
<1>1. AtDueCheck(p) /\ LoopFrame
    BY DEF AwaitUsage
<1>2. /\ proc[p].rule \in Rules /\ Row(p).state \in Ready
      /\ Row(p) \in RuleRow /\ RowStands(proc[p].rule, Row(p))
    BY <1>1, ReadyAtDueCheck
<1>3. CASE Saves(p, row, "skip")
    <2>1. row \in RuleRow
        BY <1>2, RowUpdates DEF States, Enabled, Ready
    <2>2. /\ row.state = "waiting_for_usage" /\ row.due = Row(p).due
          /\ row.count = Row(p).count /\ row.attempt = Row(p).attempt
        BY <1>2 DEF RuleRow
    <2> HIDE DEF row
    <2>3. RowStands(proc[p].rule, row)
        BY <1>2, <2>2 DEF RowStands, Ready
    <2> QED
        BY <1>1, <1>2, <1>3, <2>1, <2>2, <2>3, SavesKeeps DEF Ready
<1>4. CASE GoesOn(p)
    BY <1>1, <1>4, GoesOnKeeps
<1> QED
    BY <1>3, <1>4 DEF AwaitUsage

LEMMA ClaimKeeps ==
    ASSUME Inv, NEW p \in Processes, Claim(p)
    PROVE  Inv'
<1> DEFINE row == [Row(p) EXCEPT !.state = "dispatching", !.due = Unset,
                                 !.attempt = proc[p].now]
<1>1. AtDueCheck(p) /\ LoopFrame /\ Saves(p, row, "sending")
    BY DEF Claim
<1>2. /\ proc[p].rule \in Rules /\ Row(p).state \in Ready
      /\ Row(p) \in RuleRow /\ RowStands(proc[p].rule, Row(p))
    BY <1>1, ReadyAtDueCheck
<1>3. proc[p].now \in Minutes
    BY AtRule, CycleFields
<1>4. row \in RuleRow
    BY <1>2, <1>3, RowUpdates
<1>5. row.state = "dispatching" /\ row.count = Row(p).count
    BY <1>2 DEF RuleRow
<1> HIDE DEF row
<1>6. RowStands(proc[p].rule, row)
    BY <1>2, <1>5 DEF RowStands, Ready
<1> QED
    BY <1>1, <1>2, <1>4, <1>5, <1>6, SavesKeeps

LEMMA CompleteDispatchKeeps ==
    ASSUME Inv, NEW p \in Processes, CompleteDispatch(p)
    PROVE  Inv'
<1> DEFINE r      == proc[p].rule
           count  == Row(p).count + (IF proc[p].phase = "sent" THEN 1 ELSE 0)
           repeat == proc[p].phase = "sent" /\ r \in Repeating /\ count < MaxOccurrences
           state  == IF repeat THEN "waiting_for_confirmation"
                     ELSE IF proc[p].phase = "sent" THEN "dispatch_started"
                     ELSE "failed_or_uncertain"
           row    == [file.rules[r] EXCEPT !.count = count, !.state = state]
           d      == [proc[p] EXCEPT !.phase = "saving", !.held = file,
                                     !.next = "finish", !.row = row]
<1>1. LoopFrame /\ proc[p].phase \in {"sent", "failed"}
    BY DEF CompleteDispatch
<1>2. /\ proc[p] \in Cycle /\ CycleStands(proc[p]) /\ r \in Rules
      /\ Row(p).state = "dispatching"
    BY <1>1, AtRule DEF CycleStands
<1>3. Row(p) \in RuleRow /\ Row(p).count < MaxOccurrences
    BY <1>2, AtRule DEF RowStands
<1>4. count \in 0 .. MaxOccurrences
    BY <1>3, RowFields, RuleConstants
<1>5. file \in Settings /\ SettingsStand(file) /\ file.rules[r] \in RuleRow
    BY <1>2, SettingsFields DEF Inv, RulesTypeOK, RowsStand
<1>6. CASE Becomes(p, Finished(p))
    BY <1>1, <1>6, EndOfCycle, LoopReplaced DEF Inv
<1>7. CASE file.rules[r].state = "dispatching" /\ Becomes(p, d)
    <2>1. state \in {"waiting_for_confirmation", "dispatch_started", "failed_or_uncertain"}
        OBVIOUS
    <2>2. state \in States
        BY <2>1 DEF States, Enabled, Resting
    <2>3. state = "waiting_for_confirmation" =>
             count > 0 /\ count < MaxOccurrences /\ r \in Repeating
        BY <1>3, RowFields
    <2> HIDE DEF count, state
    <2>4. row \in RuleRow
        BY <1>4, <1>5, <2>2, RowUpdates
    <2>5. row.state = state /\ row.count = count
        BY <1>5 DEF RuleRow
    <2> HIDE DEF row
    <2>6. RowStands(r, row)
        BY <2>1, <2>3, <2>5 DEF RowStands, Ready
    <2>7. d \in Cycle
        BY <1>2, <1>5, <2>4, CycleUpdates
    <2>8. /\ d.phase = "saving" /\ d.held = file /\ d.next = "finish"
          /\ d.row = row /\ d.rule = r
        BY <1>2 DEF Cycle
    <2> HIDE DEF d
    <2>9. HeldState(d) = "dispatching"
        BY <1>7, <2>8 DEF HeldState
    <2>10. SaveStands(d)
        BY <2>1, <2>5, <2>6, <2>8, <2>9 DEF SaveStands
    <2>11. CycleStands(d)
        BY <1>2, <1>5, <2>8, <2>10 DEF CycleStands
    <2> QED
        BY <1>1, <1>7, <2>7, <2>8, <2>11, LoopReplaced
<1> QED
    BY <1>6, <1>7 DEF CompleteDispatch

-----------------------------------------------------------------------------
(* The observer's evidence.                                                *)

LEMMA RecordedType ==
    ASSUME RulesTypeOK, NEW r \in Rules, NEW at \in Minutes, NEW limits \in {"available", "other"}
    PROVE  Recorded(r, at, limits) \in [Rules -> Evidence]
<1>1. [at |-> at, limits |-> limits] \in Evidence
    BY DEF Evidence
<1>2. usage \in [Rules -> Evidence]
    BY DEF RulesTypeOK
<1> QED
    BY <1>1, <1>2 DEF Recorded

LEMMA FindTargetsKeeps ==
    ASSUME Inv, NEW o \in RuleObservers, NEW limits \in {"available", "other"},
           FindTargets(o, limits)
    PROVE  Inv'
<1> DEFINE d == [NoCycle EXCEPT !.phase = "recording", !.now = minute,
                                !.targets = Targets, !.limits = limits]
<1>1. o \in Processes
    BY DEF Processes
<1>2. minute \in Minutes /\ usage \in [Rules -> Evidence]
    BY DEF Inv, RulesTypeOK
<1>3. Targets \in SUBSET Rules
    BY RuleConstants DEF Targets, Rules
<1>4. d \in Cycle /\ CycleStands(d)
    BY <1>2, <1>3, FreshCycles, IdleStands
<1>5. d.phase # "sending"
    BY DEF NoCycle
<1>6. proc' = [proc EXCEPT ![o] = d]
    BY DEF FindTargets, Becomes
<1> HIDE DEF d
<1> QED
    BY <1>1, <1>2, <1>4, <1>5, <1>6, CycleReplaced DEF FindTargets, ReadFrame

LEMMA RecordLimitsKeeps ==
    ASSUME Inv, NEW o \in RuleObservers, NEW r \in Rules, RecordLimits(o, r)
    PROVE  Inv'
<1> DEFINE d == [proc[o] EXCEPT !.phase = "loading", !.targets = @ \ {r}]
<1>1. o \in Processes /\ proc[o] \in Cycle /\ SettingsStand(proc[o].held)
    BY AtRule DEF Processes
<1>2. proc[o].targets \ {r} \in SUBSET Rules
    BY <1>1, CycleFields
<1>3. d \in Cycle
    BY <1>1, <1>2, CycleUpdates
<1>4. d.phase = "loading" /\ d.held = proc[o].held
    BY <1>1 DEF Cycle
<1>5. proc' = [proc EXCEPT ![o] = d]
    BY DEF RecordLimits, Becomes
<1>6. usage' \in [Rules -> Evidence]
    BY <1>1, RecordedType, CycleFields DEF RecordLimits, Inv
<1> HIDE DEF d
<1>7. CycleStands(d)
    BY <1>1, <1>4 DEF CycleStands
<1> QED
    BY <1>1, <1>3, <1>4, <1>5, <1>6, <1>7, CycleReplaced DEF RecordLimits, ReadFrame

-----------------------------------------------------------------------------
(* The transport.                                                          *)

LEMMA SendKeeps ==
    ASSUME Inv, NEW p \in Processes, NEW ok \in BOOLEAN, Send(p, ok)
    PROVE  Inv'
<1> DEFINE r == proc[p].rule
           d == [proc[p] EXCEPT !.phase = IF ok THEN "sent" ELSE "failed"]
<1>0. RulesTypeOK /\ ObservedPast /\ RowsStand /\ Spent
    BY DEF Inv
<1>1. /\ proc[p].phase = "sending"
      /\ attempts' = [attempts EXCEPT ![r] = @ + 1]
      /\ proc' = [proc EXCEPT ![p] = d]
      /\ UNCHANGED <<minute, file, dialog, command, observed, redAt, usage, arms, lost>>
    BY DEF Send, Becomes, RuleFrame
<1>2. /\ proc[p] \in Cycle /\ r \in Rules
      /\ HeldState(proc[p]) = "dispatching" /\ SettingsStand(proc[p].held)
    BY <1>1, AtRule DEF CycleStands
<1>3. d \in Cycle
    BY <1>2, CycleUpdates
<1>4. d.phase \in {"sent", "failed"} /\ d.held = proc[p].held /\ d.rule = r
    BY <1>2 DEF Cycle
<1> HIDE DEF d
<1>5. CycleStands(d)
    BY <1>2, <1>4 DEF CycleStands, HeldState
<1>6. attempts \in [Rules -> Nat] /\ arms \in [Rules -> Nat]
    BY <1>0 DEF RulesTypeOK
<1>7. proc' \in [Processes -> Cycle] /\ attempts' \in [Rules -> Nat]
    BY <1>0, <1>1, <1>2, <1>3, <1>6 DEF RulesTypeOK
<1>8. RulesTypeOK'
    BY <1>0, <1>1, <1>7 DEF RulesTypeOK
<1>9. \A q \in Processes : CycleStands(proc[q])'
    BY <1>0, <1>1, <1>3, <1>5, <1>8, ReplacedStands
<1>10. RowsStand'
    <2>1. SettingsStand(file)' /\ SettingsStand(dialog.held)'
          /\ \A c \in Disablers : SettingsStand(command[c].held)'
        BY <1>0, <1>1 DEF RowsStand, SettingsStand, RowStands
    <2> QED
        BY <1>9, <2>1 DEF RowsStand
<1>11. Spent'
    <2> SUFFICES ASSUME NEW r1 \in Rules \ lost
                 PROVE  attempts'[r1] + Waiting(r1) + Cardinality(Senders(r1)') <= arms[r1]
        BY <1>1 DEF Spent, Waiting
    <2>1. attempts[r1] + Waiting(r1) + Cardinality(Senders(r1)) <= arms[r1]
        BY <1>0 DEF Spent
    <2>2. attempts[r1] \in Nat /\ arms[r1] \in Nat /\ Waiting(r1) \in Nat
        BY <1>6 DEF Waiting
    <2>3. IsFiniteSet(Senders(r1)) /\ Cardinality(Senders(r1)) \in Nat
        BY FiniteSenders
    <2>4. Senders(r1)' = Senders(r1) \ {p}
        BY <1>0, <1>1, <1>3, <1>4, ReplacedSenders
    <2>5. CASE r1 = r
        <3>1. p \in Senders(r1)
            BY <1>1, <2>5 DEF Senders
        <3>2. Cardinality(Senders(r1)') = Cardinality(Senders(r1)) - 1
            BY <2>3, <2>4, <3>1, FS_RemoveElement
        <3>3. attempts'[r1] = attempts[r1] + 1
            BY <1>1, <1>6, <2>5
        <3> QED
            BY <2>1, <2>2, <2>3, <3>2, <3>3
    <2>6. CASE r1 # r
        <3>1. attempts'[r1] = attempts[r1]
            BY <1>1, <1>6, <2>6
        <3>2. Senders(r1)' \subseteq Senders(r1)
            BY <2>4
        <3> QED
            BY <2>1, <2>2, <2>3, <3>1, <3>2, FewerSenders
    <2> QED
        BY <2>5, <2>6
<1> QED
    BY <1>0, <1>1, <1>8, <1>10, <1>11 DEF Inv, ObservedPast

-----------------------------------------------------------------------------
(* ControlStore.save of a cycle.                                           *)

\* What the save writes, and what it gives back to the cycle.
LEMMA SavedSettings ==
    ASSUME NEW s \in Settings, NEW r \in Rules, NEW row \in RuleRow
    PROVE  /\ [s EXCEPT !.rules[r] = row] \in Settings
           /\ [s EXCEPT !.rules[r] = row].rules[r] = row
           /\ \A x \in Rules : x # r => [s EXCEPT !.rules[r] = row].rules[x] = s.rules[x]
BY DEF Settings

LEMMA SaveRuleEffect ==
    ASSUME Inv, NEW p \in Processes, SaveRule(p)
    PROVE  \E d \in Cycle :
              /\ proc' = [proc EXCEPT ![p] = d]
              /\ CycleStands(d)
              /\ d.phase = "sending" =>
                    proc[p].next = "sending" /\ d.rule = proc[p].rule
<1> DEFINE c     == proc[p]
           r     == c.rule
           saved == [c.held EXCEPT !.rules[r] = c.row]
           x     == IF c.next = "skip" THEN "rules" ELSE c.next
           n     == IF c.next = "skip" THEN c.rule + 1 ELSE c.rule
           e     == [c EXCEPT !.held = saved, !.row = DisabledRow, !.next = "finish",
                              !.phase = x, !.rule = n]
<1>1. c.phase = "saving" /\ c \in Cycle /\ CycleStands(c)
    BY AtRule DEF SaveRule
<1>2. r \in Rules /\ SaveStands(c) /\ SettingsStand(c.held)
    BY <1>1 DEF CycleStands
<1>3. c.held \in Settings /\ c.row \in RuleRow /\ c.rule \in Nat
      /\ c.next \in {"rules", "due", "skip", "sending", "finish"}
    BY <1>1, CycleFields
<1>4. /\ saved \in Settings /\ saved.rules[r] = c.row
      /\ \A y \in Rules : y # r => saved.rules[y] = c.held.rules[y]
    BY <1>2, <1>3, SavedSettings
<1>5. SettingsStand(saved)
    <2> HIDE DEF saved
    <2> QED
        BY <1>2, <1>4 DEF SettingsStand, SaveStands
<1>6. CASE c.next = "finish"
    <2>1. proc' = [proc EXCEPT ![p] = Finished(p)]
        BY <1>6 DEF SaveRule, Becomes
    <2> QED
        BY <2>1, EndOfCycle DEF Inv
<1>7. CASE c.next # "finish"
    <2>1. proc' = [proc EXCEPT ![p] = e]
        BY <1>7 DEF SaveRule, Becomes
    <2>2. x \in {"rules", "due", "sending"} /\ n \in Nat
        BY <1>3, <1>7
    <2>3. x # "rules" => n = c.rule /\ x = c.next
        OBVIOUS
    <2> HIDE DEF x, n, saved
    <2>4. e \in Cycle
        BY <1>1, <1>4, <2>2, CycleUpdates
    <2>5. e.phase = x /\ e.rule = n /\ e.held = saved
        BY <1>1 DEF Cycle
    <2> HIDE DEF e
    <2>6. x # "rules" => HeldState(e) = c.row.state
        BY <1>4, <2>3, <2>5 DEF HeldState
    <2>7. x = "due" => c.row.state \in Ready
        BY <1>2, <2>3 DEF SaveStands
    <2>8. x = "sending" => c.row.state = "dispatching"
        BY <1>2, <2>3 DEF SaveStands
    <2>9. CycleStands(e)
        BY <1>2, <1>5, <2>2, <2>3, <2>5, <2>6, <2>7, <2>8 DEF CycleStands
    <2> QED
        BY <2>1, <2>3, <2>4, <2>5, <2>9
<1> QED
    BY <1>6, <1>7

\* The file after the save: the rule's row is the new one, every other row that
\* is not lost stays, and only a confirmed repeat arms.
LEMMA SaveRuleRows ==
    ASSUME Inv, NEW p \in Processes, SaveRule(p)
    PROVE  /\ proc[p].rule \in Rules /\ SaveStands(proc[p])
           /\ file' \in Settings /\ SettingsStand(file')
           /\ lost' = lost \cup Changed(proc[p].held) /\ lost' \subseteq Rules
           /\ arms' \in [Rules -> Nat] /\ \A r \in Rules : arms'[r] >= arms[r]
           /\ proc[p].next = "rules" => arms'[proc[p].rule] = arms[proc[p].rule] + 1
           /\ file'.rules[proc[p].rule] = proc[p].row
           /\ \A r \in Rules \ lost' :
                 /\ file.rules[r] = proc[p].held.rules[r]
                 /\ r # proc[p].rule => file'.rules[r] = file.rules[r]
<1> DEFINE c     == proc[p]
           saved == [c.held EXCEPT !.rules[c.rule] = c.row]
<1>1. c.phase = "saving" /\ c \in Cycle /\ CycleStands(c)
    BY AtRule DEF SaveRule
<1>2. c.rule \in Rules /\ SaveStands(c) /\ SettingsStand(c.held)
    BY <1>1 DEF CycleStands
<1>3. c.held \in Settings /\ c.row \in RuleRow
    BY <1>1, CycleFields
<1>4. /\ saved \in Settings /\ saved.rules[c.rule] = c.row
      /\ \A y \in Rules : y # c.rule => saved.rules[y] = c.held.rules[y]
    BY <1>2, <1>3, SavedSettings
<1>5. file' = saved /\ lost' = lost \cup Changed(c.held)
      /\ arms' = IF Row(p).state = "waiting_for_confirmation" /\ c.row.state = "armed"
                 THEN [arms EXCEPT ![c.rule] = @ + 1] ELSE arms
    BY DEF SaveRule
<1> HIDE DEF saved
<1>6. SettingsStand(file')
    BY <1>2, <1>4, <1>5 DEF SettingsStand, SaveStands
<1>7. arms \in [Rules -> Nat] /\ lost \subseteq Rules
    BY DEF Inv, RulesTypeOK
<1>8. arms' \in [Rules -> Nat] /\ \A r \in Rules : arms'[r] >= arms[r]
    BY <1>2, <1>5, <1>7
<1>9. c.next = "rules" => arms'[c.rule] = arms[c.rule] + 1
    <2> SUFFICES ASSUME c.next = "rules"
                 PROVE  arms'[c.rule] = arms[c.rule] + 1
        OBVIOUS
    <2>1. Row(p).state = "waiting_for_confirmation" /\ c.row.state = "armed"
        BY <1>2 DEF SaveStands, HeldState, Row
    <2> QED
        BY <1>2, <1>5, <1>7, <2>1
<1>10. lost' \subseteq Rules
    BY <1>5, <1>7 DEF Changed
<1>11. \A r \in Rules \ lost' : file.rules[r] = c.held.rules[r]
    BY <1>5 DEF Changed
<1>12. \A r \in Rules \ lost' : r # c.rule => file'.rules[r] = file.rules[r]
    BY <1>4, <1>5, <1>11
<1> QED
    BY <1>2, <1>4, <1>5, <1>6, <1>8, <1>9, <1>10, <1>11, <1>12

LEMMA SaveRuleKeeps ==
    ASSUME Inv, NEW p \in Processes, SaveRule(p)
    PROVE  Inv'
<1> DEFINE r == proc[p].rule
<1>0. RulesTypeOK /\ ObservedPast /\ RowsStand /\ Spent
    BY DEF Inv
<1>1. PICK d \in Cycle : /\ proc' = [proc EXCEPT ![p] = d]
                         /\ CycleStands(d)
                         /\ d.phase = "sending" => proc[p].next = "sending" /\ d.rule = r
    BY SaveRuleEffect
<1>2. /\ r \in Rules /\ SaveStands(proc[p])
      /\ file' \in Settings /\ SettingsStand(file')
      /\ lost' = lost \cup Changed(proc[p].held) /\ lost' \subseteq Rules
      /\ arms' \in [Rules -> Nat] /\ \A r1 \in Rules : arms'[r1] >= arms[r1]
      /\ proc[p].next = "rules" => arms'[r] = arms[r] + 1
      /\ file'.rules[r] = proc[p].row
      /\ \A r1 \in Rules \ lost' :
            /\ file.rules[r1] = proc[p].held.rules[r1]
            /\ r1 # r => file'.rules[r1] = file.rules[r1]
    BY SaveRuleRows
<1>3. /\ UNCHANGED <<minute, dialog, command, observed, redAt, usage, attempts>>
      /\ proc[p].phase = "saving"
    BY DEF SaveRule, RuleFrame
<1>4. proc' \in [Processes -> Cycle]
    BY <1>0, <1>1 DEF RulesTypeOK
<1>5. RulesTypeOK'
    BY <1>0, <1>2, <1>3, <1>4 DEF RulesTypeOK
<1>6. \A q \in Processes : CycleStands(proc[q])'
    BY <1>0, <1>1, <1>3, <1>5, ReplacedStands
<1>7. SettingsStand(file)' /\ SettingsStand(dialog.held)'
      /\ \A c \in Disablers : SettingsStand(command[c].held)'
    BY <1>0, <1>2, <1>3 DEF RowsStand, SettingsStand, RowStands
<1>8. Spent'
    <2> SUFFICES ASSUME NEW r1 \in Rules \ lost'
                 PROVE  attempts[r1] + Waiting(r1)' + Cardinality(Senders(r1)') <= arms'[r1]
        BY <1>3 DEF Spent, Waiting
    <2>1. r1 \in Rules \ lost
        BY <1>2
    <2>2. attempts[r1] + Waiting(r1) + Cardinality(Senders(r1)) <= arms[r1]
        BY <1>0, <2>1 DEF Spent
    <2>3. attempts[r1] \in Nat /\ arms[r1] \in Nat /\ arms'[r1] \in Nat
          /\ arms'[r1] >= arms[r1]
        BY <1>0, <1>2 DEF RulesTypeOK
    <2>4. IsFiniteSet(Senders(r1)) /\ Cardinality(Senders(r1)) \in Nat
        BY FiniteSenders
    <2>5. file.rules[r1] = proc[p].held.rules[r1]
        BY <1>2
    <2>6. p \notin Senders(r1)
        BY <1>3 DEF Senders
    <2>7. CASE r1 # r
        <3>1. Waiting(r1)' = Waiting(r1) /\ Waiting(r1) \in Nat
            BY <1>2, <2>7 DEF Waiting
        <3>2. Senders(r1)' = Senders(r1) \ {p}
            BY <1>0, <1>1, <2>7, ReplacedSenders
        <3> QED
            BY <2>2, <2>3, <2>4, <3>1, <3>2, FewerSenders
    <2>8. CASE r1 = r /\ proc[p].next = "sending"
        <3>1. Waiting(r1) = 1 /\ Waiting(r1)' = 0
            BY <1>2, <2>5, <2>8 DEF Waiting, SaveStands, HeldState, Ready
        <3>2. Senders(r1)' = Senders(r1) \cup {p} \/ Senders(r1)' = Senders(r1) \ {p}
            BY <1>0, <1>1, <2>8, ReplacedSenders
        <3>3. Cardinality(Senders(r1)') <= Cardinality(Senders(r1)) + 1
              /\ Cardinality(Senders(r1)') \in Nat
            <4>1. CASE Senders(r1)' = Senders(r1) \cup {p}
                <5>1. Cardinality(Senders(r1) \cup {p}) = Cardinality(Senders(r1)) + 1
                    BY <2>4, <2>6, FS_AddElement
                <5>2. Cardinality(Senders(r1)') = Cardinality(Senders(r1)) + 1
                    BY <4>1, <5>1
                <5> QED
                    BY <2>4, <5>2
            <4>2. CASE Senders(r1)' = Senders(r1) \ {p}
                BY <2>4, <4>2, FewerSenders
            <4> QED
                BY <3>2, <4>1, <4>2
        <3> QED
            BY <2>2, <2>3, <2>4, <3>1, <3>3
    <2>9. CASE r1 = r /\ proc[p].next # "sending"
        <3>1. Senders(r1)' = Senders(r1) \ {p}
            BY <1>0, <1>1, <2>9, ReplacedSenders
        <3>2. Waiting(r1) \in Nat /\ Waiting(r1)' \in {0, 1}
            BY DEF Waiting
        <3>3. Cardinality(Senders(r1)') <= Cardinality(Senders(r1))
              /\ Cardinality(Senders(r1)') \in Nat
            BY <3>1, FewerSenders
        <3>4. proc[p].next \in {"due", "skip"} => Waiting(r1) = 1
            BY <1>2, <2>5, <2>9 DEF Waiting, SaveStands, HeldState
        <3>5. proc[p].next = "rules" => arms'[r1] = arms[r1] + 1
            BY <1>2, <2>9
        <3>6. proc[p].next = "finish" => Waiting(r1)' = 0
            BY <1>2, <2>9 DEF Waiting, SaveStands, Ready
        <3>7. proc[p].next \in {"rules", "due", "skip", "finish"}
            BY <2>9, AtRule, CycleFields
        <3> QED
            BY <2>2, <2>3, <2>4, <3>2, <3>3, <3>4, <3>5, <3>6, <3>7
    <2> QED
        BY <2>7, <2>8, <2>9
<1> QED
    BY <1>0, <1>3, <1>5, <1>6, <1>7, <1>8 DEF Inv, RowsStand, ObservedPast

-----------------------------------------------------------------------------
(* The world around the profile.                                           *)

LEMMA WorldKeeps ==
    ASSUME Inv, WorldFrame, RulesTypeOK', ObservedPast',
           \A r \in Rules : observed[r] <= observed'[r]
    PROVE  Inv'
<1>0. RulesTypeOK /\ RowsStand /\ Spent
    BY DEF Inv
<1>1. UNCHANGED <<file, proc, dialog, command, arms, attempts, lost>>
    BY DEF WorldFrame
<1>2. /\ \A s \in Settings : SettingsStand(s) => SettingsStand(s)'
      /\ \A c \in Cycle : CycleStands(c) => CycleStands(c)'
    BY <1>0, StandsLater
<1>3. SettingsStand(file)'
    <2>1. file \in Settings /\ SettingsStand(file)
        BY <1>0 DEF RulesTypeOK, RowsStand
    <2> QED
        BY <1>1, <1>2, <2>1 DEF SettingsStand, RowStands
<1>4. SettingsStand(dialog.held)'
    <2>1. dialog.held \in Settings /\ SettingsStand(dialog.held)
        BY <1>0 DEF RulesTypeOK, RowsStand
    <2> QED
        BY <1>1, <1>2, <2>1 DEF SettingsStand, RowStands
<1>5. ASSUME NEW c \in Disablers
      PROVE  SettingsStand(command[c].held)'
    <2>1. command[c].held \in Settings /\ SettingsStand(command[c].held)
        BY <1>0 DEF RulesTypeOK, RowsStand
    <2> QED
        BY <1>1, <1>2, <2>1 DEF SettingsStand, RowStands
<1>6. ASSUME NEW p \in Processes
      PROVE  CycleStands(proc[p])'
    <2>1. proc[p] \in Cycle /\ CycleStands(proc[p])
        BY <1>0 DEF RulesTypeOK, RowsStand
    <2> QED
        BY <1>1, <1>2, <2>1 DEF CycleStands, SettingsStand, SaveStands, RowStands, HeldState
<1>7. Spent'
    BY <1>0, <1>1 DEF Spent, Waiting, Senders
<1> QED
    BY <1>3, <1>4, <1>5, <1>6, <1>7 DEF Inv, RowsStand

LEMMA TickKeeps ==
    ASSUME Inv, MinutePasses
    PROVE  Inv'
<1>1. minute \in Minutes /\ minute < MaxMinutes /\ minute' = minute + 1
    BY DEF Inv, RulesTypeOK, MinutePasses
<1>2. UNCHANGED <<observed, redAt, usage>> /\ WorldFrame
    BY DEF MinutePasses
<1>3. minute' \in Minutes
    BY <1>1, RuleConstants DEF Minutes
<1>4. RulesTypeOK'
    BY <1>2, <1>3 DEF Inv, RulesTypeOK, WorldFrame
<1>5. \A r \in Rules : observed[r] \in Int
    BY RuleConstants DEF Inv, RulesTypeOK, Minutes, Unset
<1>6. ObservedPast'
    BY <1>1, <1>2, <1>5, RuleConstants DEF Inv, ObservedPast, Minutes
<1>7. \A r \in Rules : observed[r] <= observed'[r]
    BY <1>2, <1>5
<1> QED
    BY <1>2, <1>4, <1>6, <1>7, WorldKeeps

LEMMA HookArrivesKeeps ==
    ASSUME Inv, NEW r \in Repeating, HookArrives(r)
    PROVE  Inv'
<1>1. minute \in Minutes /\ r \in Rules /\ observed \in [Rules -> Minutes \cup {Unset}]
    BY RuleConstants DEF Inv, RulesTypeOK, Rules
<1>2. /\ observed' = [observed EXCEPT ![r] = minute] /\ redAt' = minute + RedAfter
      /\ UNCHANGED <<minute, usage>> /\ WorldFrame
    BY DEF HookArrives
<1>3. observed' \in [Rules -> Minutes \cup {Unset}] /\ redAt' \in Nat
    BY <1>1, <1>2, RuleConstants DEF Minutes
<1>4. RulesTypeOK'
    BY <1>2, <1>3 DEF Inv, RulesTypeOK, WorldFrame
<1>5. minute \in Int /\ \A x \in Rules : observed[x] \in Int /\ observed[x] <= minute
    BY <1>1, RuleConstants DEF Inv, ObservedPast, Minutes, Unset
<1>6. \A x \in Rules : observed'[x] = (IF x = r THEN minute ELSE observed[x])
    BY <1>1, <1>2
<1>7. ObservedPast'
    BY <1>2, <1>5, <1>6 DEF ObservedPast
<1>8. \A x \in Rules : observed[x] <= observed'[x]
    BY <1>5, <1>6
<1> QED
    BY <1>2, <1>4, <1>7, <1>8, WorldKeeps

LEMMA UnhookedKeeps ==
    ASSUME Inv, WorldFrame, UNCHANGED <<minute, observed>>,
           redAt' \in Nat \cup {Unset}, usage' \in [Rules -> Evidence]
    PROVE  Inv'
<1>1. RulesTypeOK'
    BY DEF Inv, RulesTypeOK, WorldFrame
<1>2. \A r \in Rules : observed[r] <= observed'[r]
    BY RuleConstants DEF Inv, RulesTypeOK, Minutes, Unset
<1>3. ObservedPast'
    BY DEF Inv, ObservedPast
<1> QED
    BY <1>1, <1>2, <1>3, WorldKeeps

LEMMA WorkerReportsKeeps ==
    ASSUME Inv, WorkerReports
    PROVE  Inv'
<1>1. minute + RedAfter \in Nat
    BY RuleConstants DEF Inv, RulesTypeOK, Minutes
<1>2. redAt' \in Nat \cup {Unset} /\ usage' \in [Rules -> Evidence]
    BY <1>1 DEF WorkerReports, Inv, RulesTypeOK
<1> QED
    BY <1>2, UnhookedKeeps DEF WorkerReports

LEMMA LimitsObservedKeeps ==
    ASSUME Inv, NEW r \in Gated, NEW limits \in {"available", "other"},
           LimitsObserved(r, limits)
    PROVE  Inv'
<1>1. RulesTypeOK /\ r \in Rules /\ minute \in Minutes
    BY RuleConstants DEF Inv, RulesTypeOK, Rules
<1>2. usage' = Recorded(r, minute, limits) /\ UNCHANGED <<minute, observed, redAt>>
      /\ WorldFrame
    BY DEF LimitsObserved
<1>3. usage' \in [Rules -> Evidence] /\ redAt' \in Nat \cup {Unset}
    BY <1>1, <1>2, RecordedType DEF RulesTypeOK
<1> QED
    BY <1>2, <1>3, UnhookedKeeps

-----------------------------------------------------------------------------
(* Edits.                                                                  *)

LEMMA EditKeeps ==
    ASSUME Inv, EditFrame, RulesTypeOK', Spent',
           SettingsStand(file'), SettingsStand(dialog'.held),
           \A c \in Disablers : SettingsStand(command'[c].held)
    PROVE  Inv'
<1>1. UNCHANGED <<minute, proc, observed, redAt, usage, attempts>>
    BY DEF EditFrame
<1>2. SettingsStand(file)' /\ SettingsStand(dialog.held)'
      /\ \A c \in Disablers : SettingsStand(command[c].held)'
    BY <1>1 DEF SettingsStand, RowStands
<1>3. \A p \in Processes : CycleStands(proc[p])'
    BY <1>1 DEF Inv, RowsStand, CycleStands, SettingsStand, SaveStands, RowStands, HeldState
<1> QED
    BY <1>1, <1>2, <1>3 DEF Inv, RowsStand, ObservedPast

LEMMA EditSpent ==
    ASSUME Inv, EditFrame, lost \subseteq lost',
           \A r \in Rules \ lost' :
              /\ arms'[r] \in Nat
              /\ Waiting(r)' - arms'[r] <= Waiting(r) - arms[r]
    PROVE  Spent'
<1> SUFFICES ASSUME NEW r \in Rules \ lost'
             PROVE  attempts'[r] + Waiting(r)' + Cardinality(Senders(r)') <= arms'[r]
    BY DEF Spent
<1>1. attempts' = attempts /\ Senders(r)' = Senders(r)
    BY DEF EditFrame, Senders
<1>2. attempts[r] + Waiting(r) + Cardinality(Senders(r)) <= arms[r]
    BY DEF Inv, Spent
<1>3. attempts[r] \in Nat /\ arms[r] \in Nat
    BY DEF Inv, RulesTypeOK
<1>4. Waiting(r) \in Nat /\ Waiting(r)' \in Nat
    BY DEF Waiting
<1>5. Cardinality(Senders(r)) \in Nat
    BY FiniteSenders
<1>6. /\ arms'[r] \in Nat
      /\ Waiting(r)' - arms'[r] <= Waiting(r) - arms[r]
    OBVIOUS
<1> QED
    BY <1>1, <1>2, <1>3, <1>4, <1>5, <1>6

\* The dialog or a command begins or ends: the file is as it was.
LEMMA ReadKeeps ==
    ASSUME Inv, EditFrame, UNCHANGED <<file, arms, lost>>, RulesTypeOK',
           SettingsStand(dialog'.held),
           \A c \in Disablers : SettingsStand(command'[c].held)
    PROVE  Inv'
<1>1. SettingsStand(file')
    BY DEF Inv, RowsStand, SettingsStand
<1>2. \A r \in Rules : /\ arms'[r] \in Nat
                       /\ Waiting(r)' - arms'[r] <= Waiting(r) - arms[r]
    BY DEF Inv, RulesTypeOK, Waiting
<1>3. Spent'
    BY <1>2, EditSpent
<1> QED
    BY <1>1, <1>3, EditKeeps

LEMMA PreferencesReadKeeps ==
    ASSUME Inv, OpenPreferences \/ ClosePreferences
    PROVE  Inv'
<1>1. EditFrame /\ UNCHANGED <<file, command, arms, lost>>
    BY DEF OpenPreferences, ClosePreferences
<1>2. dialog \in [open : {"no", "yes"}, held : Settings, edits : Nat]
    BY DEF Inv, RulesTypeOK
<1>3. PICK x \in {"no", "yes"}, s \in {file, NewProfile} :
         dialog' = [dialog EXCEPT !.open = x, !.held = s]
    BY DEF OpenPreferences, ClosePreferences
<1>4. s \in Settings /\ SettingsStand(s)
    BY FreshRows, FreshRowsStand DEF Inv, RulesTypeOK, RowsStand
<1>5. dialog' \in [open : {"no", "yes"}, held : Settings, edits : Nat]
      /\ dialog'.held = s
    BY <1>2, <1>3, <1>4
<1>6. RulesTypeOK'
    BY <1>1, <1>5 DEF Inv, RulesTypeOK, EditFrame
<1>7. \A c \in Disablers : SettingsStand(command'[c].held)
    BY <1>1 DEF Inv, RowsStand
<1> QED
    BY <1>1, <1>4, <1>5, <1>6, <1>7, ReadKeeps

LEMMA ReadProfileKeeps ==
    ASSUME Inv, NEW c \in Disablers, NEW kind \in {"automation", "rules"},
           ReadProfile(c, kind)
    PROVE  Inv'
<1> DEFINE read == [kind |-> kind, held |-> file]
<1>1. EditFrame /\ UNCHANGED <<file, dialog, arms, lost>>
      /\ command' = [command EXCEPT ![c] = read]
    BY DEF ReadProfile
<1>2. file \in Settings /\ SettingsStand(file)
    BY DEF Inv, RulesTypeOK, RowsStand
<1>3. read \in [kind : {"none", "automation", "rules"}, held : Settings]
    BY <1>2
<1>4. command' \in [Disablers -> [kind : {"none", "automation", "rules"}, held : Settings]]
    BY <1>1, <1>3 DEF Inv, RulesTypeOK
<1>5. RulesTypeOK'
    BY <1>1, <1>4 DEF Inv, RulesTypeOK, EditFrame
<1>6. \A x \in Disablers : SettingsStand(command'[x].held)
    <2> SUFFICES ASSUME NEW x \in Disablers
                 PROVE  SettingsStand(command'[x].held)
        OBVIOUS
    <2>1. CASE x = c
        <3>1. command'[x].held = file
            BY <1>1, <2>1 DEF Inv, RulesTypeOK
        <3> QED
            BY <1>2, <3>1
    <2>2. CASE x # c
        <3>1. command'[x] = command[x]
            BY <1>1, <2>2 DEF Inv, RulesTypeOK
        <3> QED
            BY <3>1 DEF Inv, RowsStand
    <2> QED
        BY <2>1, <2>2
<1>7. SettingsStand(dialog'.held)
    BY <1>1 DEF Inv, RowsStand
<1> QED
    BY <1>1, <1>5, <1>6, <1>7, ReadKeeps

LEMMA SavePreferencesRows ==
    ASSUME Inv, NEW automation \in Switch, NEW native \in Switch,
           NEW edit \in [Rules -> {"keep", "disable", "arm"}],
           SavePreferences(automation, native, edit)
    PROVE  /\ file' \in Settings /\ SettingsStand(file')
           /\ \A r \in Rules \ lost' :
                 \/ edit[r] = "keep" /\ file'.rules[r] = file.rules[r]
                 \/ edit[r] = "disable" /\ file'.rules[r] = DisabledRow
                 \/ edit[r] = "arm"
           /\ \A r \in Rules : arms'[r] = IF edit[r] = "arm" THEN arms[r] + 1 ELSE arms[r]
           /\ lost \subseteq lost' /\ lost' \subseteq Rules
<1> DEFINE new == [r \in Rules |->
                     CASE edit[r] = "keep"    -> dialog.held.rules[r]
                       [] edit[r] = "disable" -> DisabledRow
                       [] edit[r] = "arm"     -> ArmedRow(r, minute)]
<1>1. /\ file' = [automation |-> automation, native |-> native, rules |-> new]
      /\ arms' = [r \in Rules |-> IF edit[r] = "arm" THEN arms[r] + 1 ELSE arms[r]]
      /\ lost' = lost \cup {r \in Changed(dialog.held) : edit[r] = "keep"}
    BY DEF SavePreferences
<1>2. /\ dialog.held \in Settings /\ SettingsStand(dialog.held)
      /\ minute \in Minutes /\ lost \subseteq Rules
    BY DEF Inv, RulesTypeOK, RowsStand
<1>3. ASSUME NEW r \in Rules
      PROVE  /\ edit[r] = "keep" => new[r] = dialog.held.rules[r]
             /\ edit[r] = "disable" => new[r] = DisabledRow
             /\ edit[r] = "arm" => new[r] = ArmedRow(r, minute)
             /\ edit[r] \in {"keep", "disable", "arm"}
    OBVIOUS
<1>4. DOMAIN new = Rules /\ new = [r \in Rules |-> new[r]]
    OBVIOUS
<1> HIDE DEF new
<1>5. \A r \in Rules : new[r] \in RuleRow /\ RowStands(r, new[r])
    BY <1>2, <1>3, FreshRows, FreshRowsStand, SettingsFields DEF SettingsStand
<1>6. new \in [Rules -> RuleRow]
    BY <1>4, <1>5
<1>7. file' \in Settings /\ file'.rules = new
    BY <1>1, <1>6 DEF Settings
<1>8. SettingsStand(file')
    BY <1>5, <1>7 DEF SettingsStand
<1>9. \A r \in Rules \ lost' :
         \/ edit[r] = "keep" /\ file'.rules[r] = file.rules[r]
         \/ edit[r] = "disable" /\ file'.rules[r] = DisabledRow
         \/ edit[r] = "arm"
    BY <1>1, <1>3, <1>7 DEF Changed
<1>10. lost \subseteq lost' /\ lost' \subseteq Rules
    BY <1>1, <1>2 DEF Changed
<1> QED
    BY <1>1, <1>7, <1>8, <1>9, <1>10

LEMMA SavePreferencesKeeps ==
    ASSUME Inv, NEW automation \in Switch, NEW native \in Switch,
           NEW edit \in [Rules -> {"keep", "disable", "arm"}],
           SavePreferences(automation, native, edit)
    PROVE  Inv'
<1>1. /\ EditFrame /\ UNCHANGED command
      /\ dialog' = [open |-> "no", held |-> NewProfile, edits |-> dialog.edits + 1]
      /\ arms' = [r \in Rules |-> IF edit[r] = "arm" THEN arms[r] + 1 ELSE arms[r]]
    BY DEF SavePreferences
<1>2. /\ file' \in Settings /\ SettingsStand(file')
      /\ \A r \in Rules \ lost' :
            \/ edit[r] = "keep" /\ file'.rules[r] = file.rules[r]
            \/ edit[r] = "disable" /\ file'.rules[r] = DisabledRow
            \/ edit[r] = "arm"
      /\ \A r \in Rules : arms'[r] = IF edit[r] = "arm" THEN arms[r] + 1 ELSE arms[r]
      /\ lost \subseteq lost' /\ lost' \subseteq Rules
    BY SavePreferencesRows
<1>3. arms \in [Rules -> Nat] /\ dialog.edits \in Nat
    BY DEF Inv, RulesTypeOK
<1>4. arms' \in [Rules -> Nat]
    BY <1>1, <1>3
<1>5. /\ dialog' \in [open : {"no", "yes"}, held : Settings, edits : Nat]
      /\ dialog'.held = NewProfile
    BY <1>1, <1>3, FreshRows
<1>6. RulesTypeOK'
    BY <1>1, <1>2, <1>4, <1>5 DEF Inv, RulesTypeOK, EditFrame
<1>7. SettingsStand(dialog'.held) /\ \A c \in Disablers : SettingsStand(command'[c].held)
    BY <1>1, <1>5, FreshRowsStand DEF Inv, RowsStand
<1>8. ASSUME NEW r \in Rules \ lost'
      PROVE  /\ arms'[r] \in Nat
             /\ Waiting(r)' - arms'[r] <= Waiting(r) - arms[r]
    <2>1. arms[r] \in Nat /\ arms'[r] \in Nat
        BY <1>3, <1>4
    <2>2. Waiting(r) \in {0, 1} /\ Waiting(r)' \in {0, 1}
        BY DEF Waiting
    <2>3. CASE edit[r] = "keep" /\ file'.rules[r] = file.rules[r]
        <3>1. Waiting(r)' = Waiting(r) /\ arms'[r] = arms[r]
            BY <1>2, <2>3 DEF Waiting
        <3> QED
            BY <2>1, <2>2, <3>1
    <2>4. CASE edit[r] = "disable" /\ file'.rules[r] = DisabledRow
        <3>1. Waiting(r)' = 0 /\ arms'[r] = arms[r]
            BY <1>2, <2>4 DEF Waiting, DisabledRow, Ready
        <3> QED
            BY <2>1, <2>2, <3>1
    <2>5. CASE edit[r] = "arm"
        <3>1. arms'[r] = arms[r] + 1
            BY <1>2, <2>5
        <3> QED
            BY <2>1, <2>2, <3>1
    <2> QED
        BY <1>2, <2>3, <2>4, <2>5
<1>9. Spent'
    BY <1>1, <1>2, <1>8, EditSpent
<1> QED
    BY <1>1, <1>2, <1>6, <1>7, <1>9, EditKeeps

LEMMA SaveDisabledRows ==
    ASSUME Inv, NEW c \in Disablers, SaveDisabled(c)
    PROVE  /\ file' \in Settings /\ SettingsStand(file')
           /\ \A r \in Rules \ lost' :
                 file'.rules[r] = file.rules[r] \/ file'.rules[r] = DisabledRow
           /\ lost \subseteq lost' /\ lost' \subseteq Rules
<1> DEFINE held == command[c].held
<1>1. held \in Settings /\ SettingsStand(held) /\ lost \subseteq Rules
    BY DEF Inv, RulesTypeOK, RowsStand
<1> HIDE DEF held
<1>2. CASE /\ file' = [held EXCEPT !.automation = "off"]
           /\ lost' = lost \cup Changed(held)
    <2>1. file' \in Settings /\ file'.rules = held.rules
        BY <1>1, <1>2 DEF Settings, Switch
    <2>2. SettingsStand(file')
        BY <1>1, <2>1 DEF SettingsStand
    <2>3. \A r \in Rules \ lost' : file'.rules[r] = file.rules[r]
        BY <1>2, <2>1 DEF Changed
    <2>4. lost \subseteq lost' /\ lost' \subseteq Rules
        BY <1>1, <1>2 DEF Changed
    <2> QED
        BY <2>1, <2>2, <2>3, <2>4
<1>3. CASE /\ file' = [held EXCEPT !.rules = [r \in Rules |-> DisabledRow]]
           /\ lost' = lost
    <2>1. [r \in Rules |-> DisabledRow] \in [Rules -> RuleRow]
        BY FreshRows
    <2>2. file' \in Settings /\ \A r \in Rules : file'.rules[r] = DisabledRow
        BY <1>1, <1>3, <2>1 DEF Settings
    <2>3. SettingsStand(file')
        BY <2>2, FreshRowsStand DEF SettingsStand
    <2> QED
        BY <1>1, <1>3, <2>2, <2>3
<1> QED
    BY <1>2, <1>3 DEF SaveDisabled, held

LEMMA SaveDisabledKeeps ==
    ASSUME Inv, NEW c \in Disablers, SaveDisabled(c)
    PROVE  Inv'
<1> DEFINE none == [kind |-> "none", held |-> NewProfile]
<1>1. EditFrame /\ UNCHANGED <<dialog, arms>> /\ command' = [command EXCEPT ![c] = none]
    BY DEF SaveDisabled
<1>2. /\ file' \in Settings /\ SettingsStand(file')
      /\ \A r \in Rules \ lost' :
            file'.rules[r] = file.rules[r] \/ file'.rules[r] = DisabledRow
      /\ lost \subseteq lost' /\ lost' \subseteq Rules
    BY SaveDisabledRows
<1>3. none \in [kind : {"none", "automation", "rules"}, held : Settings]
    BY FreshRows
<1>4. /\ command \in [Disablers -> [kind : {"none", "automation", "rules"}, held : Settings]]
      /\ \A x \in Disablers : SettingsStand(command[x].held)
      /\ SettingsStand(dialog.held)
    BY DEF Inv, RulesTypeOK, RowsStand
<1>5. command' \in [Disablers -> [kind : {"none", "automation", "rules"}, held : Settings]]
    BY <1>1, <1>3, <1>4
<1>6. RulesTypeOK'
    BY <1>1, <1>2, <1>5 DEF Inv, RulesTypeOK, EditFrame
<1>7. \A x \in Disablers : command'[x] = IF x = c THEN none ELSE command[x]
    BY <1>1, <1>4
<1>8. \A x \in Disablers : SettingsStand(command'[x].held)
    <2>1. none.held = NewProfile
        OBVIOUS
    <2> HIDE DEF none
    <2> QED
        BY <1>4, <1>7, <2>1, FreshRowsStand
<1>9. \A r \in Rules \ lost' : /\ arms'[r] \in Nat
                               /\ Waiting(r)' - arms'[r] <= Waiting(r) - arms[r]
    <2> SUFFICES ASSUME NEW r \in Rules \ lost'
                 PROVE  /\ arms'[r] \in Nat
                        /\ Waiting(r)' - arms'[r] <= Waiting(r) - arms[r]
        OBVIOUS
    <2>1. arms'[r] = arms[r] /\ arms[r] \in Nat
        BY <1>1 DEF Inv, RulesTypeOK
    <2>2. Waiting(r) \in {0, 1} /\ (Waiting(r)' = Waiting(r) \/ Waiting(r)' = 0)
        BY <1>2 DEF Waiting, DisabledRow, Ready
    <2> QED
        BY <2>1, <2>2
<1>10. Spent'
    BY <1>1, <1>2, <1>9, EditSpent
<1> QED
    BY <1>1, <1>2, <1>4, <1>6, <1>8, <1>10, EditKeeps

-----------------------------------------------------------------------------
(* The theorems.                                                           *)

LEMMA InitInv == RulesInit => Inv
<1> SUFFICES ASSUME RulesInit
             PROVE  Inv
    OBVIOUS
<1>0. 0 \in Minutes /\ NoCycle.phase = "idle"
    BY RuleConstants DEF Minutes, NoCycle
<1>1. file \in Settings /\ minute \in Minutes
    BY <1>0, FreshRows DEF RulesInit
<1>2. proc \in [Processes -> Cycle]
    BY FreshCycles DEF RulesInit
<1>3. dialog \in [open : {"no", "yes"}, held : Settings, edits : Nat]
    BY FreshRows DEF RulesInit
<1>4. command \in [Disablers -> [kind : {"none", "automation", "rules"}, held : Settings]]
    BY FreshRows DEF RulesInit
<1>5. usage \in [Rules -> Evidence]
    BY DEF RulesInit, Evidence
<1>6. RulesTypeOK
    BY <1>1, <1>2, <1>3, <1>4, <1>5 DEF RulesInit, RulesTypeOK
<1>7. ObservedPast
    BY DEF RulesInit, ObservedPast, Unset
<1>8. RowsStand
    <2>1. SettingsStand(file) /\ SettingsStand(dialog.held)
        BY FreshRowsStand DEF RulesInit
    <2>2. \A c \in Disablers : SettingsStand(command[c].held)
        BY FreshRowsStand DEF RulesInit
    <2>3. \A p \in Processes : CycleStands(proc[p])
        BY IdleStands DEF RulesInit
    <2> QED
        BY <2>1, <2>2, <2>3 DEF RowsStand
<1>9. Spent
    <2> SUFFICES ASSUME NEW r \in Rules \ lost
                 PROVE  attempts[r] + Waiting(r) + Cardinality(Senders(r)) <= arms[r]
        BY DEF Spent
    <2>1. Senders(r) = {}
        BY <1>0 DEF RulesInit, Senders
    <2>2. Cardinality(Senders(r)) = 0
        BY <2>1, FS_EmptySet
    <2>3. attempts[r] = 0 /\ arms[r] = 1 /\ Waiting(r) \in {0, 1}
        BY DEF RulesInit, Waiting
    <2> QED
        BY <2>2, <2>3
<1> QED
    BY <1>6, <1>7, <1>8, <1>9 DEF Inv

LEMMA StutterInv == Inv /\ UNCHANGED ruleVars => Inv'
<1> SUFFICES ASSUME Inv, UNCHANGED ruleVars
             PROVE  Inv'
    OBVIOUS
<1>1. usage' \in [Rules -> Evidence] /\ redAt' \in Nat \cup {Unset}
    BY DEF ruleVars, Inv, RulesTypeOK
<1> QED
    BY <1>1, UnhookedKeeps DEF ruleVars, WorldFrame

LEMMA WorksInv ==
    ASSUME Inv, NEW p \in Processes, Works(p)
    PROVE  Inv'
BY LoadSettingsKeeps, SkipRuleKeeps, EndCycleKeeps, AwaitConfirmationKeeps, AwaitRedKeeps,
   SetDueKeeps, NotYetDueKeeps, AwaitUsageKeeps, ClaimKeeps, SaveRuleKeeps, SendKeeps,
   CompleteDispatchKeeps
   DEF Works

LEMMA NextInv == Inv /\ RulesNext => Inv'
<1> SUFFICES ASSUME Inv, RulesNext
             PROVE  Inv'
    OBVIOUS
<1>1. CASE MinutePasses \/ WorkerReports
    BY <1>1, TickKeeps, WorkerReportsKeeps
<1>2. CASE \E r \in Repeating : HookArrives(r)
    BY <1>2, HookArrivesKeeps
<1>3. CASE \E r \in Gated, limits \in {"available", "other"} : LimitsObserved(r, limits)
    BY <1>3, LimitsObservedKeeps
<1>4. CASE \E o \in RuleObservers : ObserveLimits(o)
    BY <1>4, FindTargetsKeeps, RecordLimitsKeeps DEF ObserveLimits
<1>5. CASE \E p \in Processes : Works(p) \/ ProcessEnds(p)
    BY <1>5, WorksInv, ProcessEndsKeeps
<1>6. CASE OpenPreferences \/ ClosePreferences
    BY <1>6, PreferencesReadKeeps
<1>7. CASE \E automation, native \in Switch, edit \in [Rules -> {"keep", "disable", "arm"}] :
              SavePreferences(automation, native, edit)
    BY <1>7, SavePreferencesKeeps
<1>8. CASE \E c \in Disablers, kind \in {"automation", "rules"} : ReadProfile(c, kind)
    BY <1>8, ReadProfileKeeps
<1>9. CASE \E c \in Disablers : SaveDisabled(c)
    BY <1>9, SaveDisabledKeeps
<1> QED
    BY <1>1, <1>2, <1>3, <1>4, <1>5, <1>6, <1>7, <1>8, <1>9 DEF RulesNext

LEMMA Invariance == RulesSpec => []Inv
<1>1. Inv /\ [RulesNext]_ruleVars => Inv'
    BY NextInv, StutterInv
<1> QED
    BY InitInv, <1>1, PTL DEF RulesSpec

LEMMA RulesOfTheFile ==
    ASSUME Inv
    PROVE  DOMAIN file.rules = Rules /\ DOMAIN attempts = Rules
BY DEF Inv, RulesTypeOK, Settings

\* Every profile, every cycle and every counter has the type it is declared with.
THEOREM TypeCorrect == RulesSpec => []RulesTypeOK
<1>1. Inv => RulesTypeOK
    BY DEF Inv
<1> QED
    BY Invariance, <1>1, PTL

\* claim before transport (prompt_rules.py): whoever races, dies or fails, a rule
\* no save has put back goes out once for each time it was armed.
THEOREM OncePerArming == RulesSpec => []SentOncePerArming
<1>1. Inv => SentOncePerArming
    <2> SUFFICES ASSUME Inv, NEW r \in Rules \ lost
                 PROVE  attempts[r] <= arms[r]
        BY RulesOfTheFile DEF SentOncePerArming
    <2>1. attempts[r] + Waiting(r) + Cardinality(Senders(r)) <= arms[r]
        BY DEF Inv, Spent
    <2>2. /\ attempts[r] \in Nat /\ arms[r] \in Nat /\ Waiting(r) \in Nat
          /\ Cardinality(Senders(r)) \in Nat
        BY FiniteSenders DEF Inv, RulesTypeOK, Waiting
    <2> QED
        BY <2>1, <2>2
<1> QED
    BY Invariance, <1>1, PTL

\* _later_session_observation and max_occurrences: a rule that fired is due again
\* only an interval after a later hook of its session, and not for ever.
THEOREM RepeatsFollow == RulesSpec => []RepeatsFollowTheSession
<1>1. Inv => RepeatsFollowTheSession
    <2> SUFFICES ASSUME Inv, NEW r \in Rules, file.rules[r].state \in Enabled,
                        file.rules[r].count > 0
                 PROVE  /\ r \in Repeating /\ file.rules[r].count < MaxOccurrences
                        /\ file.rules[r].state \in Ready =>
                              /\ file.rules[r].attempt < file.rules[r].due - Interval
                              /\ file.rules[r].due - Interval <= observed[r]
        BY RulesOfTheFile DEF RepeatsFollowTheSession
    <2>1. RowStands(r, file.rules[r])
        BY DEF Inv, RowsStand, SettingsStand
    <2> QED
        BY <2>1 DEF RowStands, Enabled
<1> QED
    BY Invariance, <1>1, PTL

\* _complete_dispatch, configure_prompt_rule and the disabling commands: a rule at
\* rest works again only by being armed, or by a save that put its row back.
THEOREM RestKept == RulesSpec => RestIsKept
<1> DEFINE Step == \A r \in DOMAIN file.rules :
              file.rules[r].state \in Resting /\ file'.rules[r].state \in Enabled =>
                 arms'[r] > arms[r] \/ r \in lost'
<1>1. Inv /\ [RulesNext]_ruleVars => Step
    <2> SUFFICES ASSUME Inv, [RulesNext]_ruleVars, NEW r \in Rules, r \notin lost',
                        file.rules[r].state \in Resting,
                        file'.rules[r].state \in Enabled
                 PROVE  arms'[r] > arms[r]
        BY RulesOfTheFile
    <2>1. file.rules[r].state \notin Enabled \cup {"dispatching"}
        BY DEF Resting, Enabled, Ready
    <2>2. CASE UNCHANGED file
        BY <2>1, <2>2
    <2>3. ASSUME NEW p \in Processes, SaveRule(p)
          PROVE  FALSE
        <3>1. /\ SaveStands(proc[p]) /\ file.rules[r] = proc[p].held.rules[r]
              /\ r # proc[p].rule => file'.rules[r] = file.rules[r]
            BY <2>3, SaveRuleRows
        <3>2. r = proc[p].rule
            BY <2>1, <3>1
        <3>3. HeldState(proc[p]) \in Enabled \cup {"dispatching"}
            <4>1. proc[p].next \in {"rules", "due", "skip", "sending", "finish"}
                BY AtRule, CycleFields
            <4> QED
                BY <3>1, <4>1 DEF SaveStands, Enabled
        <3> QED
            BY <2>1, <3>1, <3>2, <3>3 DEF HeldState
    <2>4. ASSUME NEW automation \in Switch, NEW native \in Switch,
                 NEW edit \in [Rules -> {"keep", "disable", "arm"}],
                 SavePreferences(automation, native, edit)
          PROVE  arms'[r] > arms[r]
        <3>1. /\ \/ edit[r] = "keep" /\ file'.rules[r] = file.rules[r]
                 \/ edit[r] = "disable" /\ file'.rules[r] = DisabledRow
                 \/ edit[r] = "arm"
              /\ arms'[r] = IF edit[r] = "arm" THEN arms[r] + 1 ELSE arms[r]
            BY <2>4, SavePreferencesRows
        <3>2. DisabledRow.state \notin Enabled
            BY DEF DisabledRow, Enabled, Ready
        <3>3. edit[r] = "arm"
            BY <2>1, <3>1, <3>2
        <3>4. arms[r] \in Nat
            BY DEF Inv, RulesTypeOK
        <3> QED
            BY <3>1, <3>3, <3>4
    <2>5. ASSUME NEW c \in Disablers, SaveDisabled(c)
          PROVE  FALSE
        <3>1. file'.rules[r] = file.rules[r] \/ file'.rules[r] = DisabledRow
            BY <2>5, SaveDisabledRows
        <3>2. DisabledRow.state \notin Enabled
            BY DEF DisabledRow, Enabled, Ready
        <3> QED
            BY <2>1, <3>1, <3>2
    <2>6. ASSUME NEW p \in Processes, Works(p) \/ ProcessEnds(p), ~SaveRule(p)
          PROVE  UNCHANGED file
        BY <2>6 DEF Works, ProcessEnds, LoadSettings, SkipRule, EndCycle, AwaitConfirmation,
                    AwaitRed, SetDue, NotYetDue, AwaitUsage, Claim, Send, CompleteDispatch,
                    LoopFrame
    <2>7. ASSUME \/ MinutePasses \/ WorkerReports \/ OpenPreferences \/ ClosePreferences
                 \/ UNCHANGED ruleVars
                 \/ \E x \in Repeating : HookArrives(x)
                 \/ \E x \in Gated, limits \in {"available", "other"} :
                       LimitsObserved(x, limits)
                 \/ \E o \in RuleObservers : ObserveLimits(o)
                 \/ \E c \in Disablers, kind \in {"automation", "rules"} :
                       ReadProfile(c, kind)
          PROVE  UNCHANGED file
        BY <2>7 DEF MinutePasses, WorkerReports, HookArrives, LimitsObserved, WorldFrame, ObserveLimits,
                    FindTargets, RecordLimits, ReadFrame, OpenPreferences, ClosePreferences,
                    ReadProfile, ruleVars
    <2> QED
        BY <2>2, <2>3, <2>4, <2>5, <2>6, <2>7 DEF RulesNext
<1> QED
    BY Invariance, <1>1, PTL DEF RulesSpec, RestIsKept

=============================================================================
