-------------------------- MODULE IncidentsProofs --------------------------
(***************************************************************************)
(* Proofs about Incidents, for any commands, findings and bounds.          *)
(*                                                                         *)
(* The ledgers work because a pending row has at most one command that may *)
(* still act on it.  That is not visible in the promises themselves, so    *)
(* the inductive invariant adds who holds which slot, what a held slot     *)
(* looks like, and what a command has made sure of at each phase.          *)
(***************************************************************************)
EXTENDS Incidents, TLAPS

\* The phases in which a command owns a row it has reserved.
HoldsNotice(c)   == cmd[c].phase \in {"posting", "closing notice"}
HoldsRecovery(c) == cmd[c].phase \in {"dispatching", "closing recovery"}

\* The phases in which a command works on an incident, and on a diagnosis.
IncidentPhases == {"resolving", "updating"} \cup (NotifyPhases \ {"notifying"})
                                            \cup (RecoverPhases \ {"recovering"})
DiagnosisPhases == {"selecting", "inserting", "updating"}
                      \cup (NotifyPhases \ {"notifying"})
                      \cup (RecoverPhases \ {"recovering"})
HasIncident(c)  == cmd[c].phase \in IncidentPhases
HasDiagnosis(c) == cmd[c].phase \in DiagnosisPhases
HasDelivery(c)  == cmd[c].phase \in RecoverPhases \ {"recovering", "finding delivery"}

\* Incidents are numbered in the order they were opened and point, like the
\* commands and the recoveries, at diagnoses that were recorded.
RowNumbered(i) ==
    /\ incident[i].status # "none" <=> i <= opened
    /\ incident[i].status # "none" => incident[i].diag \in 1 .. diagnosed
    /\ recovery[i].status # "free" => recovery[i].diag \in 1 .. diagnosed
CommandNumbered(c) ==
    /\ HasIncident(c) => cmd[c].incident \in 1 .. opened
    /\ HasDiagnosis(c) => cmd[c].diag \in 1 .. diagnosed
Numbered ==
    /\ \A i \in IncidentIds : RowNumbered(i)
    /\ \A c \in Commands : CommandNumbered(c)

\* A slot of the notification ledger and the command that holds it.
NoticeHeld(c) ==
    HoldsNotice(c) =>
       /\ notice[Slot(c)] = "pending"
       /\ cmd[c].phase = "posting" => posts[Slot(c)] = 0
       /\ cmd[c].phase = "closing notice" =>
             /\ cmd[c].result \in NoticeResults
             /\ cmd[c].result = "delivered" => posts[Slot(c)] = 1
NoticeRow(s) ==
    /\ notice[s] = "free" => posts[s] = 0
    /\ notice[s] = "delivered" => posts[s] = 1
NoticesHeld ==
    /\ \A c \in Commands : NoticeHeld(c)
    /\ \A c, d \in Commands :
          HoldsNotice(c) /\ HoldsNotice(d) /\ Slot(c) = Slot(d) => c = d
    /\ \A s \in Notices : NoticeRow(s)

\* The same for the recovery ledger, and what a recovery has made sure of.
RecoveryHeld(c) ==
    HoldsRecovery(c) =>
       /\ recovery[cmd[c].incident] = [status |-> "pending", diag |-> cmd[c].diag]
       /\ cmd[c].phase = "dispatching" => inputs[cmd[c].incident] = 0
       /\ cmd[c].phase = "closing recovery" => cmd[c].result \in RecoveryResults
RecoveryGrounded(c) ==
    /\ cmd[c].phase \in RecoverPhases \ {"recovering"} =>
          /\ diagnosis[cmd[c].diag].cause \in Recoverable
          /\ diagnosis[cmd[c].diag].exact
    /\ HasDelivery(c) => notice[Slot(c)] = "delivered"
RecoveriesHeld ==
    /\ \A c \in Commands : RecoveryHeld(c) /\ RecoveryGrounded(c)
    /\ \A c, d \in Commands :
          HoldsRecovery(c) /\ HoldsRecovery(d) /\ cmd[c].incident = cmd[d].incident => c = d
    /\ \A i \in IncidentIds : recovery[i].status = "free" => inputs[i] = 0

Inv == TypeOK /\ Numbered /\ NoticesHeld /\ RecoveriesHeld /\ RecoveryFollowsDelivery

-----------------------------------------------------------------------------
LEMMA SomeFindingType == SomeFinding \in Findings
  BY IncidentConstants DEF SomeFinding

\* What the SELECT of the open incident returns.
LEMMA OpenIncidentType ==
    /\ OpenIncident \in IncidentIds \cup {None}
    /\ OpenIncident # None => IsOpen(OpenIncident)
    /\ OpenIncident = None => \A i \in IncidentIds : ~IsOpen(i)
<1>1. CASE \E i \in IncidentIds : IsOpen(i)
  <2>1. OpenIncident \in IncidentIds /\ IsOpen(OpenIncident)
    BY <1>1 DEF OpenIncident
  <2> QED  BY <2>1 DEF IncidentIds, None
<1>2. CASE ~\E i \in IncidentIds : IsOpen(i)
  BY <1>2 DEF OpenIncident
<1> QED  BY <1>1, <1>2

LEMMA IdleType == Idle \in Command
  BY DEF Idle, Command, Phases

LEMMA EventKeyType ==
    ASSUME NEW f \in Findings
    PROVE  EventKey(f) \in EventKeys
  BY DEF EventKeys

\* A command that has an incident and a diagnosis names a slot of the ledger.
LEMMA SlotType ==
    ASSUME TypeOK, Numbered, NEW c \in Commands, HasIncident(c), HasDiagnosis(c)
    PROVE  Slot(c) \in Notices
<1>1. cmd[c].incident \in IncidentIds /\ cmd[c].diag \in DiagnosisIds
  BY IncidentConstants DEF Numbered, CommandNumbered, TypeOK, IncidentIds, DiagnosisIds
<1>2. diagnosis[cmd[c].diag] \in Findings
  BY <1>1 DEF TypeOK
<1> QED  BY <1>1, <1>2, EventKeyType DEF Slot, Notices

\* A command that ends or moves on keeps the type of the commands.
LEMMA MoveType ==
    ASSUME cmd \in [Commands -> Command], NEW c \in Commands, NEW phase \in Phases,
           Stop(c) \/ Go(c, phase)
    PROVE  cmd' \in [Commands -> Command]
<1>1. CASE Stop(c)
  BY <1>1, IdleType DEF Stop
<1>2. CASE Go(c, phase)
  BY <1>2 DEF Go, Command
<1> QED  BY <1>1, <1>2

-----------------------------------------------------------------------------
LEMMA InitInv == Init => Inv
<1> SUFFICES ASSUME Init PROVE Inv
  OBVIOUS
<1> USE DEF Init
<1>1. TypeOK
  BY SomeFindingType, IdleType, IncidentConstants DEF TypeOK, IncidentRow, RecoveryRow
<1>2. \A c \in Commands : cmd[c].phase = "idle"
  BY DEF Idle
<1>3. Numbered
  <2>1. \A c \in Commands : ~HasIncident(c) /\ ~HasDiagnosis(c)
    BY <1>2 DEF HasIncident, HasDiagnosis, IncidentPhases, DiagnosisPhases, NotifyPhases,
                RecoverPhases
  <2>2. \A i \in IncidentIds : incident[i].status # "none" <=> i <= opened
    BY IncidentConstants DEF IncidentIds
  <2> QED  BY <2>1, <2>2 DEF Numbered, RowNumbered, CommandNumbered
<1>4. NoticesHeld
  BY <1>2 DEF NoticesHeld, NoticeHeld, NoticeRow, HoldsNotice
<1>5. RecoveriesHeld
  BY <1>2 DEF RecoveriesHeld, RecoveryHeld, RecoveryGrounded, HoldsRecovery, HasDelivery,
              RecoverPhases
<1>6. RecoveryFollowsDelivery
  BY DEF RecoveryFollowsDelivery
<1> QED  BY <1>1, <1>3, <1>4, <1>5, <1>6 DEF Inv

\* No action writes a value its column does not know.
LEMMA TypeStep == Inv /\ [Next]_vars => TypeOK'
<1> SUFFICES ASSUME Inv, [Next]_vars PROVE TypeOK'
  OBVIOUS
<1> USE DEF TypeOK, tables, outside
<1>0. TypeOK
  BY DEF Inv
<1>1. CASE WorkerStartsOrFinishes
  BY <1>0, <1>1 DEF WorkerStartsOrFinishes
<1>2. ASSUME NEW d \in DiagnosisIds, Expire(d) PROVE TypeOK'
  BY <1>0, <1>2 DEF Expire, DiagnosisIds
<1>3. ASSUME NEW c \in Commands, Step(c) PROVE TypeOK'
  <2>0. /\ cmd \in [Commands -> Command] /\ cmd[c] \in Command
        /\ Idle \in Command /\ [cmd EXCEPT ![c] = Idle] \in [Commands -> Command]
    BY <1>0, IdleType
  <2>1. ASSUME NEW p \in {"diagnosing", "notifying", "recovering"}, StartCommand(c, p)
        PROVE  TypeOK'
    <3>1. expired \subseteq DiagnosisIds
      BY <1>0, IncidentConstants DEF DiagnosisIds
    <3>2. [Idle EXCEPT !.phase = p,
             !.stale = IF p = "recovering" THEN expired ELSE {}] \in Command
      BY <3>1 DEF Idle, Command, Phases, DiagnosePhases, NotifyPhases, RecoverPhases
    <3> QED  BY <1>0, <2>1, <3>2, IncidentConstants DEF StartCommand
  <2>2. CASE Abandon(c)
    BY <1>0, <2>0, <2>2 DEF Abandon, Stop
  <2>3. ASSUME NEW f \in Findings, Assess(c, f) PROVE TypeOK'
    <3>1. diagnosed + 1 \in DiagnosisIds
      BY <1>0, <2>3, IncidentConstants DEF Assess, DiagnosisIds
    <3>2. cmd' \in [Commands -> Command]
      BY <2>0, <2>3, <3>1, OpenIncidentType
         DEF Assess, Stop, Command, Phases, DiagnosePhases
    <3>3. expired' \subseteq 1 .. diagnosed'
      BY <1>0, <2>3 DEF Assess
    <3> QED  BY <1>0, <2>3, <3>1, <3>2, <3>3 DEF Assess, DiagnosisIds
  <2>4. CASE Resolve(c)
    <3>1. incident' \in [IncidentIds -> IncidentRow]
      BY <1>0, <2>4 DEF Resolve, IsOpen, IncidentRow
    <3> QED  BY <1>0, <2>0, <2>4, <3>1 DEF Resolve, Stop
  <2>5. CASE SelectIncident(c)
    <3>1. cmd' \in [Commands -> Command]
      BY <2>0, <2>5, OpenIncidentType
         DEF SelectIncident, Command, Phases, DiagnosePhases
    <3> QED  BY <1>0, <2>5, <3>1 DEF SelectIncident
  <2>6. CASE InsertIncident(c)
    <3>0. cmd[c].diag \in DiagnosisIds \cup {None}
      BY <2>0 DEF Command
    <3>1. incident' \in [IncidentIds -> IncidentRow] /\ opened' \in 0 .. MaxIncidents
      <4>1. \/ incident' = incident /\ opened' = opened
            \/ /\ opened < MaxIncidents /\ opened' = opened + 1
               /\ incident' = [incident EXCEPT ![opened + 1] =
                     [status |-> "open", diag |-> cmd[c].diag, notified |-> FALSE]]
        BY <2>6 DEF InsertIncident
      <4>2. [status |-> "open", diag |-> cmd[c].diag, notified |-> FALSE] \in IncidentRow
        BY <3>0 DEF IncidentRow
      <4> QED  BY <1>0, <4>1, <4>2, IncidentConstants
    <3> QED  BY <1>0, <2>0, <2>6, <3>1 DEF InsertIncident, Stop
  <2>7. CASE UpdateIncident(c)
    <3>0. cmd[c].diag \in DiagnosisIds \cup {None}
      BY <2>0 DEF Command
    <3>1. incident' \in [IncidentIds -> IncidentRow]
      BY <1>0, <2>7, <3>0 DEF UpdateIncident, IsOpen, IncidentRow
    <3> QED  BY <1>0, <2>0, <2>7, <3>1 DEF UpdateIncident, Stop
  <2>8. CASE ReadForNotice(c)
    <3>1. OpenIncident # None => incident[OpenIncident].diag \in DiagnosisIds \cup {None}
      BY <1>0, OpenIncidentType DEF IncidentRow
    <3>2. cmd' \in [Commands -> Command]
      <4>1. CASE Stop(c)
        BY <2>0, <4>1 DEF Stop
      <4>2. CASE ~Stop(c)
        <5>1. /\ OpenIncident # None
              /\ cmd' = [cmd EXCEPT ![c].phase = "finding notice",
                           ![c].incident = OpenIncident,
                           ![c].diag = incident[OpenIncident].diag]
          BY <2>8, <4>2 DEF ReadForNotice
        <5> QED  BY <2>0, <3>1, <5>1, OpenIncidentType DEF Command, Phases, NotifyPhases
      <4> QED  BY <4>1, <4>2
    <3> QED  BY <1>0, <2>8, <3>2 DEF ReadForNotice
  <2>9. CASE FindNotice(c) \/ CheckNotice(c)
    <3>1. cmd' \in [Commands -> Command]
      BY <2>0, <2>9, MoveType DEF FindNotice, CheckNotice, Phases, NotifyPhases
    <3> QED  BY <1>0, <2>9, <3>1 DEF FindNotice, CheckNotice
  <2>10. CASE ReserveNotice(c)
    <3>1. cmd' \in [Commands -> Command]
      BY <2>0, <2>10, MoveType DEF ReserveNotice, Phases, NotifyPhases
    <3> QED  BY <1>0, <2>10, <3>1 DEF ReserveNotice
  <2>11. ASSUME NEW r \in NoticeResults, NEW a \in BOOLEAN, PostNotice(c, r, a)
         PROVE  TypeOK'
    <3>1. cmd' \in [Commands -> Command]
      BY <2>0, <2>11 DEF PostNotice, Command, Phases, NotifyPhases
    <3>2. posts' \in [Notices -> Nat]
      <4>1. posts' = posts \/ posts' = [posts EXCEPT ![Slot(c)] = @ + 1]
        BY <2>11 DEF PostNotice
      <4> QED  BY <1>0, <4>1
    <3> QED  BY <1>0, <2>11, <3>1, <3>2 DEF PostNotice
  <2>12. CASE CompleteNotice(c)
    <3>1. cmd[c].result \in NoticeResults
      BY <2>12 DEF Inv, NoticesHeld, NoticeHeld, HoldsNotice, CompleteNotice
    <3>2. incident' \in [IncidentIds -> IncidentRow]
      BY <1>0, <2>12 DEF CompleteNotice, IncidentRow
    <3> QED  BY <1>0, <2>0, <2>12, <3>1, <3>2 DEF CompleteNotice, Stop
  <2>13. CASE ReadForRecovery(c)
    <3>1. OpenIncident # None => incident[OpenIncident].diag \in DiagnosisIds \cup {None}
      BY <1>0, OpenIncidentType DEF IncidentRow
    <3>2. cmd' \in [Commands -> Command]
      <4>1. CASE Stop(c)
        BY <2>0, <4>1 DEF Stop
      <4>2. CASE ~Stop(c)
        <5>1. /\ OpenIncident # None
              /\ cmd' = [cmd EXCEPT ![c].phase = "finding delivery",
                           ![c].incident = OpenIncident,
                           ![c].diag = incident[OpenIncident].diag, ![c].stale = {}]
          BY <2>13, <4>2 DEF ReadForRecovery
        <5> QED  BY <2>0, <3>1, <5>1, OpenIncidentType DEF Command, Phases, RecoverPhases
      <4> QED  BY <4>1, <4>2
    <3> QED  BY <1>0, <2>13, <3>2 DEF ReadForRecovery
  <2>14. CASE FindDelivery(c) \/ FindRecovery(c) \/ CheckRecovery(c)
    <3>1. cmd' \in [Commands -> Command]
      BY <2>0, <2>14, MoveType
         DEF FindDelivery, FindRecovery, CheckRecovery, Phases, RecoverPhases
    <3> QED  BY <1>0, <2>14, <3>1 DEF FindDelivery, FindRecovery, CheckRecovery
  <2>15. CASE ReserveRecovery(c)
    <3>1. cmd[c].diag \in DiagnosisIds \cup {None}
      BY <2>0 DEF Command
    <3>2. recovery' \in [IncidentIds -> RecoveryRow]
      <4>1. \/ recovery' = recovery
            \/ recovery' = [recovery EXCEPT ![cmd[c].incident] =
                               [status |-> "pending", diag |-> cmd[c].diag]]
        BY <2>15 DEF ReserveRecovery
      <4> QED  BY <1>0, <3>1, <4>1 DEF RecoveryRow
    <3>3. cmd' \in [Commands -> Command]
      BY <2>0, <2>15, MoveType DEF ReserveRecovery, Phases, RecoverPhases
    <3> QED  BY <1>0, <2>15, <3>2, <3>3 DEF ReserveRecovery
  <2>16. ASSUME NEW r \in RecoveryResults, NEW a \in BOOLEAN, Dispatch(c, r, a)
         PROVE  TypeOK'
    <3>1. cmd' \in [Commands -> Command]
      BY <2>0, <2>16 DEF Dispatch, Command, Phases, RecoverPhases
    <3>2. inputs' \in [IncidentIds -> Nat]
      <4>1. inputs' = inputs \/ inputs' = [inputs EXCEPT ![cmd[c].incident] = @ + 1]
        BY <2>16 DEF Dispatch
      <4> QED  BY <1>0, <4>1
    <3> QED  BY <1>0, <2>16, <3>1, <3>2 DEF Dispatch
  <2>17. CASE CompleteRecovery(c)
    <3>1. cmd[c].result \in RecoveryResults
      BY <2>17 DEF Inv, RecoveriesHeld, RecoveryHeld, HoldsRecovery, CompleteRecovery
    <3>2. recovery' \in [IncidentIds -> RecoveryRow]
      BY <1>0, <2>17, <3>1 DEF CompleteRecovery, RecoveryRow
    <3> QED  BY <1>0, <2>0, <2>17, <3>2 DEF CompleteRecovery, Stop
  <2> QED  BY <1>3, <2>1, <2>2, <2>3, <2>4, <2>5, <2>6, <2>7, <2>8, <2>9, <2>10, <2>11,
              <2>12, <2>13, <2>14, <2>15, <2>16, <2>17 DEF Step
<1>4. CASE UNCHANGED vars
  BY <1>0, <1>4 DEF vars
<1> QED  BY <1>1, <1>2, <1>3, <1>4 DEF Next

-----------------------------------------------------------------------------
\* What each way of moving does to the commands.
LEMMA StopEffect ==
    ASSUME TypeOK, NEW c \in Commands, Stop(c)
    PROVE  cmd'[c] = Idle /\ \A d \in Commands \ {c} : cmd'[d] = cmd[d]
  BY DEF TypeOK, Stop

LEMMA GoEffect ==
    ASSUME TypeOK, NEW c \in Commands, NEW phase, Go(c, phase)
    PROVE  /\ cmd'[c].phase = phase
           /\ cmd'[c].incident = cmd[c].incident /\ cmd'[c].diag = cmd[c].diag
           /\ cmd'[c].result = cmd[c].result
           /\ \A d \in Commands \ {c} : cmd'[d] = cmd[d]
  BY DEF TypeOK, Go, Command

\* What a step of a command can do at all: it touches no other command, and
\* recorded diagnoses and opened incidents stay what they are.
LEMMA StepFrame ==
    ASSUME TypeOK, NEW c \in Commands, Step(c)
    PROVE  /\ \A d \in Commands \ {c} : cmd'[d] = cmd[d]
           /\ diagnosed' \in {diagnosed, diagnosed + 1}
           /\ \A d \in 1 .. diagnosed : diagnosis'[d] = diagnosis[d]
           /\ opened' \in {opened, opened + 1}
<1>1. \A d \in Commands \ {c} : cmd'[d] = cmd[d]
  BY DEF Step, TypeOK, StartCommand, Abandon, Assess, Resolve, SelectIncident,
         InsertIncident, UpdateIncident, ReadForNotice, FindNotice, CheckNotice,
         ReserveNotice, PostNotice, CompleteNotice, ReadForRecovery, FindDelivery,
         FindRecovery, CheckRecovery, ReserveRecovery, Dispatch, CompleteRecovery, Go, Stop
<1>2. CASE \E f \in Findings : Assess(c, f)
  BY <1>1, <1>2 DEF Assess, TypeOK
<1>3. CASE ~\E f \in Findings : Assess(c, f)
  <2>1. UNCHANGED <<diagnosed, diagnosis>>
    BY <1>3 DEF Step, StartCommand, Abandon, Resolve, SelectIncident, tables,
         InsertIncident, UpdateIncident, ReadForNotice, FindNotice, CheckNotice,
         ReserveNotice, PostNotice, CompleteNotice, ReadForRecovery, FindDelivery,
         FindRecovery, CheckRecovery, ReserveRecovery, Dispatch, CompleteRecovery
  <2>2. opened' \in {opened, opened + 1}
    BY <1>3 DEF Step, StartCommand, Abandon, Resolve, SelectIncident, tables,
         InsertIncident, UpdateIncident, ReadForNotice, FindNotice, CheckNotice,
         ReserveNotice, PostNotice, CompleteNotice, ReadForRecovery, FindDelivery,
         FindRecovery, CheckRecovery, ReserveRecovery, Dispatch, CompleteRecovery
  <2> QED  BY <1>1, <2>1, <2>2
<1> QED  BY <1>2, <1>3

-----------------------------------------------------------------------------
\* Whatever a command goes on to work on exists.
LEMMA CommandNumberedStep ==
    ASSUME TypeOK, Numbered, NEW c \in Commands, Step(c)
    PROVE  CommandNumbered(c)'
<1> USE DEF IncidentPhases, DiagnosisPhases, NotifyPhases, RecoverPhases
<1>0. cmd[c] \in Command /\ CommandNumbered(c) /\ Idle.phase = "idle"
  BY DEF TypeOK, Numbered, Idle
<1>1. CASE Stop(c)
  <2>1. cmd'[c].phase = "idle"
    BY <1>0, <1>1, StopEffect
  <2> QED  BY <2>1 DEF CommandNumbered, HasIncident, HasDiagnosis
<1>2. ASSUME NEW p \in {"diagnosing", "notifying", "recovering"}, StartCommand(c, p)
      PROVE  CommandNumbered(c)'
  <2>1. cmd'[c].phase = p
    BY <1>2 DEF StartCommand, TypeOK, Idle
  <2> QED  BY <2>1 DEF CommandNumbered, HasIncident, HasDiagnosis
<1>3. OpenIncident # None =>
         /\ OpenIncident \in 1 .. opened
         /\ incident[OpenIncident].diag \in 1 .. diagnosed
  BY OpenIncidentType, IncidentConstants
     DEF Numbered, RowNumbered, IsOpen, TypeOK, IncidentIds, None
<1>4. ASSUME NEW f \in Findings, Assess(c, f), ~Stop(c)
      PROVE  CommandNumbered(c)'
  <2>1. CASE cmd' = [cmd EXCEPT ![c].phase = "resolving", ![c].incident = OpenIncident]
    <3>1. OpenIncident # None
      BY <1>4, <2>1 DEF Assess, TypeOK, Command
    <3>2. cmd'[c].phase = "resolving" /\ cmd'[c].incident = OpenIncident
      BY <1>0, <2>1 DEF Command, TypeOK
    <3> QED  BY <1>3, <1>4, <3>1, <3>2
                DEF CommandNumbered, HasIncident, HasDiagnosis, Assess
  <2>2. CASE cmd' = [cmd EXCEPT ![c].phase = "selecting", ![c].diag = diagnosed + 1]
    <3>1. cmd'[c].phase = "selecting" /\ cmd'[c].diag = diagnosed + 1
      BY <1>0, <2>2 DEF Command, TypeOK
    <3>2. diagnosed' = diagnosed + 1 /\ diagnosed \in Nat
      BY <1>4, IncidentConstants DEF Assess, TypeOK
    <3> QED  BY <3>1, <3>2 DEF CommandNumbered, HasIncident, HasDiagnosis
  <2> QED  BY <1>4, <2>1, <2>2 DEF Assess
<1>5. CASE SelectIncident(c)
  <2>1. /\ cmd'[c].incident = OpenIncident /\ cmd'[c].diag = cmd[c].diag
        /\ cmd'[c].phase = IF OpenIncident = None THEN "inserting" ELSE "updating"
    BY <1>0, <1>5 DEF SelectIncident, TypeOK, Command
  <2>2. cmd[c].phase = "selecting" /\ UNCHANGED <<opened, diagnosed>>
    BY <1>5 DEF SelectIncident, tables
  <2> QED  BY <1>0, <1>3, <2>1, <2>2 DEF CommandNumbered, HasIncident, HasDiagnosis
<1>6. CASE ReadForNotice(c) /\ ~Stop(c)
  <2>1. /\ OpenIncident # None
        /\ cmd' = [cmd EXCEPT ![c].phase = "finding notice", ![c].incident = OpenIncident,
                              ![c].diag = incident[OpenIncident].diag]
        /\ UNCHANGED <<opened, diagnosed>>
    BY <1>6 DEF ReadForNotice, tables
  <2>2. cmd'[c].incident = OpenIncident /\ cmd'[c].diag = incident[OpenIncident].diag
    BY <1>0, <2>1 DEF Command, TypeOK
  <2> QED  BY <1>3, <2>1, <2>2 DEF CommandNumbered
<1>7. CASE ReadForRecovery(c) /\ ~Stop(c)
  <2>1. /\ OpenIncident # None
        /\ cmd' = [cmd EXCEPT ![c].phase = "finding delivery", ![c].incident = OpenIncident,
                              ![c].diag = incident[OpenIncident].diag, ![c].stale = {}]
        /\ UNCHANGED <<opened, diagnosed>>
    BY <1>7 DEF ReadForRecovery, tables
  <2>2. cmd'[c].incident = OpenIncident /\ cmd'[c].diag = incident[OpenIncident].diag
    BY <1>0, <2>1 DEF Command, TypeOK
  <2> QED  BY <1>3, <2>1, <2>2 DEF CommandNumbered
<1>8. ASSUME HasIncident(c), HasDiagnosis(c), UNCHANGED <<opened, diagnosed>>,
             cmd'[c].incident = cmd[c].incident, cmd'[c].diag = cmd[c].diag
      PROVE  CommandNumbered(c)'
  BY <1>0, <1>8 DEF CommandNumbered
<1>9. ASSUME NEW p, Go(c, p), HasIncident(c), HasDiagnosis(c), UNCHANGED <<opened, diagnosed>>
      PROVE  CommandNumbered(c)'
  BY <1>8, <1>9, GoEffect
<1>10. CASE ~Stop(c) /\ (FindNotice(c) \/ CheckNotice(c) \/ ReserveNotice(c))
  <2>1. /\ \E p \in Phases : Go(c, p)
        /\ UNCHANGED <<opened, diagnosed>>
        /\ cmd[c].phase \in {"finding notice", "checking notice", "reserving notice"}
    BY <1>10 DEF FindNotice, CheckNotice, ReserveNotice, tables, Phases
  <2> QED  BY <1>9, <2>1 DEF HasIncident, HasDiagnosis
<1>11. CASE ~Stop(c) /\ (FindDelivery(c) \/ FindRecovery(c) \/ CheckRecovery(c)
                         \/ ReserveRecovery(c))
  <2>1. /\ \E p \in Phases : Go(c, p)
        /\ UNCHANGED <<opened, diagnosed>>
        /\ cmd[c].phase \in {"finding delivery", "finding recovery", "checking recovery",
                             "reserving recovery"}
    BY <1>11 DEF FindDelivery, FindRecovery, CheckRecovery, ReserveRecovery, tables, Phases
  <2> QED  BY <1>9, <2>1 DEF HasIncident, HasDiagnosis
<1>12. ASSUME NEW r \in NoticeResults, NEW a \in BOOLEAN, PostNotice(c, r, a)
       PROVE  CommandNumbered(c)'
  <2>1. /\ cmd[c].phase = "posting" /\ UNCHANGED <<opened, diagnosed>>
        /\ cmd' = [cmd EXCEPT ![c].phase = "closing notice", ![c].result = r]
    BY <1>12 DEF PostNotice, tables
  <2>2. cmd'[c].incident = cmd[c].incident /\ cmd'[c].diag = cmd[c].diag
    BY <1>0, <2>1 DEF Command, TypeOK
  <2> QED  BY <1>8, <2>1, <2>2 DEF HasIncident, HasDiagnosis
<1>13. ASSUME NEW r \in RecoveryResults, NEW a \in BOOLEAN, Dispatch(c, r, a)
       PROVE  CommandNumbered(c)'
  <2>1. /\ cmd[c].phase = "dispatching" /\ UNCHANGED <<opened, diagnosed>>
        /\ cmd' = [cmd EXCEPT ![c].phase = "closing recovery", ![c].result = r]
    BY <1>13 DEF Dispatch, tables
  <2>2. cmd'[c].incident = cmd[c].incident /\ cmd'[c].diag = cmd[c].diag
    BY <1>0, <2>1 DEF Command, TypeOK
  <2> QED  BY <1>8, <2>1, <2>2 DEF HasIncident, HasDiagnosis
<1> QED
  BY <1>1, <1>2, <1>4, <1>5, <1>6, <1>7, <1>10, <1>11, <1>12, <1>13
     DEF Step, Abandon, Resolve, InsertIncident, UpdateIncident, CompleteNotice,
         CompleteRecovery

LEMMA NumberedStep == Inv /\ [Next]_vars => Numbered'
<1> SUFFICES ASSUME Inv, [Next]_vars PROVE Numbered'
  OBVIOUS
<1>0. TypeOK /\ Numbered
  BY DEF Inv
<1>1. CASE UNCHANGED <<tables, cmd>>
  BY <1>0, <1>1 DEF tables, Numbered, RowNumbered, CommandNumbered, HasIncident, HasDiagnosis
<1>2. ASSUME NEW c \in Commands, Step(c) PROVE Numbered'
  <2>0. /\ diagnosed \in Nat /\ opened \in Nat
        /\ diagnosed' \in {diagnosed, diagnosed + 1} /\ opened' \in {opened, opened + 1}
    BY <1>0, <1>2, StepFrame, IncidentConstants DEF TypeOK
  <2>1. ASSUME NEW d \in Commands PROVE CommandNumbered(d)'
    <3>1. CASE d = c
      BY <1>0, <1>2, <3>1, CommandNumberedStep
    <3>2. CASE d # c
      <4>1. cmd'[d] = cmd[d] /\ CommandNumbered(d)
        BY <1>0, <1>2, <3>2, StepFrame DEF Numbered
      <4> QED  BY <2>0, <4>1 DEF CommandNumbered, HasIncident, HasDiagnosis
    <3> QED  BY <3>1, <3>2
  <2>2. ASSUME NEW i \in IncidentIds PROVE RowNumbered(i)'
    <3>0. RowNumbered(i) /\ CommandNumbered(c) /\ i \in Nat
      BY <1>0, IncidentConstants DEF Numbered, IncidentIds
    <3>1. CASE UNCHANGED <<incident, opened, recovery>>
      BY <2>0, <3>0, <3>1 DEF RowNumbered
    <3>2. CASE Resolve(c)
      <4>1. incident'[i].diag = incident[i].diag
        BY <1>0, <3>2 DEF Resolve, TypeOK, IncidentRow
      <4>2. incident'[i].status = "none" <=> incident[i].status = "none"
        BY <1>0, <3>2 DEF Resolve, TypeOK, IncidentRow, IsOpen
      <4> QED  BY <3>0, <3>2, <4>1, <4>2 DEF Resolve, RowNumbered
    <3>3. CASE InsertIncident(c) /\ ~UNCHANGED <<incident, opened>>
      <4>1. /\ cmd[c].phase = "inserting" /\ opened' = opened + 1
            /\ incident' = [incident EXCEPT ![opened + 1] =
                   [status |-> "open", diag |-> cmd[c].diag, notified |-> FALSE]]
            /\ UNCHANGED <<recovery, diagnosed>>
        BY <3>3 DEF InsertIncident
      <4>2. cmd[c].diag \in 1 .. diagnosed
        BY <3>0, <4>1 DEF CommandNumbered, HasDiagnosis, DiagnosisPhases
      <4>3. CASE i = opened + 1
        <5>1. incident'[i].status = "open" /\ incident'[i].diag = cmd[c].diag
          BY <1>0, <4>1, <4>3 DEF TypeOK
        <5> QED  BY <2>0, <3>0, <4>1, <4>2, <4>3, <5>1 DEF RowNumbered
      <4>4. CASE i # opened + 1
        <5>1. incident'[i] = incident[i]
          BY <1>0, <4>1, <4>4 DEF TypeOK
        <5> QED  BY <2>0, <3>0, <4>1, <4>4, <5>1 DEF RowNumbered
      <4> QED  BY <4>3, <4>4
    <3>4. CASE UpdateIncident(c)
      <4>1. cmd[c].diag \in 1 .. diagnosed
        BY <3>0, <3>4 DEF CommandNumbered, HasDiagnosis, DiagnosisPhases, UpdateIncident
      <4>2. incident'[i].status = incident[i].status
        BY <1>0, <3>4 DEF UpdateIncident, TypeOK, IncidentRow
      <4>3. incident'[i].diag \in {incident[i].diag, cmd[c].diag}
        BY <1>0, <3>4 DEF UpdateIncident, TypeOK, IncidentRow
      <4> QED  BY <3>0, <3>4, <4>1, <4>2, <4>3 DEF UpdateIncident, RowNumbered
    <3>5. CASE CompleteNotice(c)
      <4>1. incident'[i].status = incident[i].status /\ incident'[i].diag = incident[i].diag
        BY <1>0, <3>5 DEF CompleteNotice, TypeOK, IncidentRow
      <4> QED  BY <3>0, <3>5, <4>1 DEF CompleteNotice, RowNumbered
    <3>6. CASE ReserveRecovery(c) /\ ~UNCHANGED recovery
      <4>1. /\ cmd[c].phase = "reserving recovery"
            /\ recovery' = [recovery EXCEPT ![cmd[c].incident] =
                   [status |-> "pending", diag |-> cmd[c].diag]]
            /\ UNCHANGED <<incident, opened, diagnosed>>
        BY <3>6 DEF ReserveRecovery
      <4>2. cmd[c].diag \in 1 .. diagnosed
        BY <3>0, <4>1 DEF CommandNumbered, HasDiagnosis, DiagnosisPhases, RecoverPhases
      <4>3. recovery'[i] = recovery[i] \/ recovery'[i].diag = cmd[c].diag
        BY <1>0, <4>1 DEF TypeOK
      <4> QED  BY <3>0, <4>1, <4>2, <4>3 DEF RowNumbered
    <3>7. CASE CompleteRecovery(c)
      <4>1. /\ cmd[c].phase = "closing recovery" /\ cmd[c].incident \in IncidentIds
            /\ recovery[cmd[c].incident].status = "pending"
        <5>1. HoldsRecovery(c)
          BY <3>7 DEF HoldsRecovery, CompleteRecovery
        <5>2. cmd[c].incident \in 1 .. opened
          BY <3>0, <3>7 DEF CommandNumbered, HasIncident, IncidentPhases, RecoverPhases,
                            CompleteRecovery
        <5>3. cmd[c].incident \in IncidentIds
          BY <1>0, <5>2, IncidentConstants DEF TypeOK, IncidentIds
        <5>4. recovery[cmd[c].incident] = [status |-> "pending", diag |-> cmd[c].diag]
          BY <5>1 DEF Inv, RecoveriesHeld, RecoveryHeld
        <5>5. recovery[cmd[c].incident].status = "pending"
          BY <5>4
        <5> QED  BY <3>7, <5>3, <5>5 DEF CompleteRecovery
      <4>2. recovery'[i].diag = recovery[i].diag
        BY <1>0, <3>7 DEF CompleteRecovery, TypeOK, RecoveryRow
      <4>3. recovery[i].status = "free" => recovery'[i].status = "free"
        BY <1>0, <3>7, <4>1 DEF CompleteRecovery, TypeOK, RecoveryRow
      <4> QED  BY <3>0, <3>7, <4>2, <4>3 DEF CompleteRecovery, RowNumbered
    <3> QED
      BY <1>2, <3>1, <3>2, <3>3, <3>4, <3>5, <3>6, <3>7
         DEF Step, StartCommand, Abandon, Assess, SelectIncident, InsertIncident,
             ReadForNotice, FindNotice, CheckNotice, ReserveNotice, PostNotice,
             ReadForRecovery, FindDelivery, FindRecovery, CheckRecovery, ReserveRecovery,
             Dispatch, tables
  <2> QED  BY <2>1, <2>2 DEF Numbered
<1> QED  BY <1>1, <1>2 DEF Next, WorkerStartsOrFinishes, Expire, vars

-----------------------------------------------------------------------------
LEMMA HolderHas ==
    ASSUME NEW c \in Commands, HoldsNotice(c) \/ HoldsRecovery(c)
    PROVE  HasIncident(c) /\ HasDiagnosis(c)
  BY DEF HoldsNotice, HoldsRecovery, HasIncident, HasDiagnosis, IncidentPhases,
         DiagnosisPhases, NotifyPhases, RecoverPhases

\* A command that keeps its incident and its diagnosis keeps its slot.
LEMMA SlotKept ==
    ASSUME TypeOK, Numbered, NEW c \in Commands, Step(c), NEW d \in Commands,
           HasDiagnosis(d),
           cmd'[d].incident = cmd[d].incident, cmd'[d].diag = cmd[d].diag
    PROVE  Slot(d)' = Slot(d)
<1>1. cmd[d].diag \in 1 .. diagnosed
  BY DEF Numbered, CommandNumbered
<1>2. diagnosis'[cmd[d].diag] = diagnosis[cmd[d].diag]
  BY <1>1, StepFrame
<1> QED  BY <1>2 DEF Slot

\* A command other than the one that moves keeps its slot and its hold on it.
LEMMA OthersKept ==
    ASSUME TypeOK, Numbered, NEW c \in Commands, Step(c), NEW d \in Commands \ {c}
    PROVE  /\ HoldsNotice(d)' <=> HoldsNotice(d)
           /\ HoldsRecovery(d)' <=> HoldsRecovery(d)
           /\ cmd'[d] = cmd[d]
           /\ HasDiagnosis(d) => Slot(d)' = Slot(d)
<1>1. cmd'[d] = cmd[d]
  BY StepFrame
<1>2. HasDiagnosis(d) => Slot(d)' = Slot(d)
  BY <1>1, SlotKept
<1> QED  BY <1>1, <1>2 DEF HoldsNotice, HoldsRecovery

\* A step that leaves the ledger alone and ends with no new holder.
LEMMA NoticesKept ==
    ASSUME TypeOK, Numbered, NoticesHeld, NEW c \in Commands, Step(c),
           UNCHANGED <<notice, posts>>, ~HoldsNotice(c)'
    PROVE  NoticesHeld'
<1>1. ASSUME NEW d \in Commands, HoldsNotice(d)'
      PROVE  /\ HoldsNotice(d) /\ cmd'[d] = cmd[d] /\ Slot(d)' = Slot(d)
  <2>1. d \in Commands \ {c}
    BY <1>1
  <2> QED  BY <1>1, <2>1, OthersKept, HolderHas
<1>2. ASSUME NEW d \in Commands PROVE NoticeHeld(d)'
  BY <1>1 DEF NoticesHeld, NoticeHeld
<1>3. ASSUME NEW d \in Commands, NEW e \in Commands,
             HoldsNotice(d)', HoldsNotice(e)', Slot(d)' = Slot(e)'
      PROVE  d = e
  BY <1>1, <1>3 DEF NoticesHeld
<1>4. ASSUME NEW s \in Notices PROVE NoticeRow(s)'
  BY DEF NoticesHeld, NoticeRow
<1> QED  BY <1>2, <1>3, <1>4 DEF NoticesHeld

\* The three steps that act on the ledger.
LEMMA ReserveNoticeStep ==
    ASSUME TypeOK, Numbered, NoticesHeld, NEW c \in Commands, ReserveNotice(c), ~Stop(c)
    PROVE  NoticesHeld'
<1>0. Step(c)
  BY DEF Step
<1>1. /\ cmd[c].phase = "reserving notice" /\ notice[Slot(c)] = "free"
      /\ notice' = [notice EXCEPT ![Slot(c)] = "pending"]
      /\ Go(c, "posting") /\ posts' = posts
  BY DEF ReserveNotice, outside
<1>2. HasIncident(c) /\ HasDiagnosis(c)
  BY <1>1 DEF HasIncident, HasDiagnosis, IncidentPhases, DiagnosisPhases, NotifyPhases
<1>3. Slot(c) \in Notices /\ posts[Slot(c)] = 0
  BY <1>1, <1>2, SlotType DEF NoticesHeld, NoticeRow
<1>4. cmd'[c].phase = "posting" /\ Slot(c)' = Slot(c)
  BY <1>0, <1>1, <1>2, GoEffect, SlotKept
<1>5. notice \in [Notices -> {"free", "pending"} \cup NoticeResults]
  BY DEF TypeOK
<1>6. ASSUME NEW d \in Commands, d # c, HoldsNotice(d)'
      PROVE  /\ HoldsNotice(d) /\ cmd'[d] = cmd[d] /\ Slot(d)' = Slot(d)
             /\ Slot(d) # Slot(c) /\ Slot(d) \in Notices
  <2>1. HoldsNotice(d) /\ cmd'[d] = cmd[d] /\ Slot(d)' = Slot(d)
    BY <1>0, <1>6, OthersKept, HolderHas
  <2> QED  BY <1>1, <2>1, HolderHas, SlotType DEF NoticesHeld, NoticeHeld
<1>7. ASSUME NEW d \in Commands PROVE NoticeHeld(d)'
  <2>1. CASE d = c
    BY <1>1, <1>3, <1>4, <1>5, <2>1 DEF NoticeHeld
  <2>2. CASE d # c
    <3>1. HoldsNotice(d)' => notice'[Slot(d)] = notice[Slot(d)] /\ posts' = posts
      BY <1>1, <1>5, <1>6, <2>2
    <3> QED  BY <1>6, <2>2, <3>1 DEF NoticesHeld, NoticeHeld
  <2> QED  BY <2>1, <2>2
<1>8. ASSUME NEW d \in Commands, NEW e \in Commands,
             HoldsNotice(d)', HoldsNotice(e)', Slot(d)' = Slot(e)'
      PROVE  d = e
  BY <1>4, <1>6, <1>8 DEF NoticesHeld
<1>9. ASSUME NEW s \in Notices PROVE NoticeRow(s)'
  BY <1>1, <1>3, <1>5 DEF NoticesHeld, NoticeRow
<1> QED  BY <1>7, <1>8, <1>9 DEF NoticesHeld

LEMMA PostNoticeStep ==
    ASSUME TypeOK, Numbered, NoticesHeld, NEW c \in Commands,
           NEW r \in NoticeResults, NEW a \in BOOLEAN, PostNotice(c, r, a)
    PROVE  NoticesHeld'
<1>0. Step(c) /\ cmd[c] \in Command
  BY DEF Step, TypeOK
<1>1. /\ cmd[c].phase = "posting" /\ notice' = notice
      /\ posts' = posts \/ posts' = [posts EXCEPT ![Slot(c)] = @ + 1]
      /\ r = "delivered" => posts' = [posts EXCEPT ![Slot(c)] = @ + 1]
      /\ cmd' = [cmd EXCEPT ![c].phase = "closing notice", ![c].result = r]
  BY DEF PostNotice, tables
<1>2. HoldsNotice(c) /\ HasIncident(c) /\ HasDiagnosis(c)
  BY <1>1, HolderHas DEF HoldsNotice
<1>3. Slot(c) \in Notices /\ posts[Slot(c)] = 0 /\ notice[Slot(c)] = "pending"
  BY <1>1, <1>2, SlotType DEF NoticesHeld, NoticeHeld
<1>4. /\ cmd'[c].phase = "closing notice" /\ cmd'[c].result = r
      /\ cmd'[c].incident = cmd[c].incident /\ cmd'[c].diag = cmd[c].diag
  BY <1>0, <1>1 DEF Command, TypeOK
<1>5. Slot(c)' = Slot(c)
  BY <1>0, <1>2, <1>4, SlotKept
<1>6. posts \in [Notices -> Nat]
  BY DEF TypeOK
<1>7. ASSUME NEW d \in Commands, d # c, HoldsNotice(d)'
      PROVE  /\ HoldsNotice(d) /\ cmd'[d] = cmd[d] /\ Slot(d)' = Slot(d)
             /\ Slot(d) # Slot(c) /\ Slot(d) \in Notices
  <2>1. HoldsNotice(d) /\ cmd'[d] = cmd[d] /\ Slot(d)' = Slot(d)
    BY <1>0, <1>7, OthersKept, HolderHas
  <2> QED  BY <1>2, <1>7, <2>1, HolderHas, SlotType DEF NoticesHeld
<1>8. ASSUME NEW d \in Commands PROVE NoticeHeld(d)'
  <2>1. CASE d = c
    <3>1. r = "delivered" => posts'[Slot(c)] = 1
      <4>1. r = "delivered" => posts' = [posts EXCEPT ![Slot(c)] = 0 + 1]
        BY <1>1, <1>3
      <4> QED  BY <1>3, <1>6, <4>1
    <3> QED  BY <1>1, <1>3, <1>4, <1>5, <2>1, <3>1 DEF NoticeHeld
  <2>2. CASE d # c
    <3>1. HoldsNotice(d)' => notice' = notice /\ posts'[Slot(d)] = posts[Slot(d)]
      BY <1>1, <1>6, <1>7, <2>2
    <3> QED  BY <1>7, <2>2, <3>1 DEF NoticesHeld, NoticeHeld
  <2> QED  BY <2>1, <2>2
<1>9. ASSUME NEW d \in Commands, NEW e \in Commands,
             HoldsNotice(d)', HoldsNotice(e)', Slot(d)' = Slot(e)'
      PROVE  d = e
  BY <1>5, <1>7, <1>9 DEF NoticesHeld
<1>10. ASSUME NEW s \in Notices PROVE NoticeRow(s)'
  BY <1>1, <1>3, <1>6 DEF NoticesHeld, NoticeRow
<1> QED  BY <1>8, <1>9, <1>10 DEF NoticesHeld

LEMMA CompleteNoticeStep ==
    ASSUME TypeOK, Numbered, NoticesHeld, NEW c \in Commands, CompleteNotice(c)
    PROVE  NoticesHeld'
<1>0. Step(c)
  BY DEF Step
<1>1. /\ cmd[c].phase = "closing notice" /\ Stop(c) /\ posts' = posts
      /\ notice' = [notice EXCEPT ![Slot(c)] = cmd[c].result]
  BY DEF CompleteNotice, outside
<1>2. HoldsNotice(c) /\ HasIncident(c) /\ HasDiagnosis(c)
  BY <1>1, HolderHas DEF HoldsNotice
<1>3. /\ Slot(c) \in Notices /\ cmd[c].result \in NoticeResults
      /\ cmd[c].result = "delivered" => posts[Slot(c)] = 1
  BY <1>1, <1>2, SlotType DEF NoticesHeld, NoticeHeld
<1>4. ~HoldsNotice(c)'
  <2>1. cmd'[c] = Idle
    BY <1>1, StopEffect
  <2> QED  BY <2>1 DEF HoldsNotice, Idle
<1>5. notice \in [Notices -> {"free", "pending"} \cup NoticeResults]
  BY DEF TypeOK
<1>6. ASSUME NEW d \in Commands, HoldsNotice(d)'
      PROVE  /\ HoldsNotice(d) /\ cmd'[d] = cmd[d] /\ Slot(d)' = Slot(d)
             /\ Slot(d) # Slot(c) /\ Slot(d) \in Notices
  <2>1. d # c
    BY <1>4, <1>6
  <2>2. HoldsNotice(d) /\ cmd'[d] = cmd[d] /\ Slot(d)' = Slot(d)
    BY <1>0, <1>6, <2>1, OthersKept, HolderHas
  <2> QED  BY <1>2, <2>1, <2>2, HolderHas, SlotType DEF NoticesHeld
<1>7. ASSUME NEW d \in Commands PROVE NoticeHeld(d)'
  <2>1. HoldsNotice(d)' => notice'[Slot(d)] = notice[Slot(d)] /\ posts' = posts
    BY <1>1, <1>5, <1>6
  <2> QED  BY <1>6, <2>1 DEF NoticesHeld, NoticeHeld
<1>8. ASSUME NEW d \in Commands, NEW e \in Commands,
             HoldsNotice(d)', HoldsNotice(e)', Slot(d)' = Slot(e)'
      PROVE  d = e
  BY <1>6, <1>8 DEF NoticesHeld
<1>9. ASSUME NEW s \in Notices PROVE NoticeRow(s)'
  BY <1>1, <1>3, <1>5 DEF NoticesHeld, NoticeRow, NoticeResults
<1> QED  BY <1>7, <1>8, <1>9 DEF NoticesHeld

LEMMA NoticesStep == Inv /\ [Next]_vars => NoticesHeld'
<1> SUFFICES ASSUME Inv, [Next]_vars PROVE NoticesHeld'
  OBVIOUS
<1>0. TypeOK /\ Numbered /\ NoticesHeld
  BY DEF Inv
<1>1. CASE UNCHANGED <<tables, outside, cmd>>
  BY <1>0, <1>1 DEF tables, outside, NoticesHeld, NoticeHeld, NoticeRow, HoldsNotice, Slot
<1>2. ASSUME NEW c \in Commands, Step(c) PROVE NoticesHeld'
  <2>1. CASE ReserveNotice(c) /\ ~Stop(c)
    BY <1>0, <2>1, ReserveNoticeStep
  <2>2. CASE \E r \in NoticeResults, a \in BOOLEAN : PostNotice(c, r, a)
    BY <1>0, <2>2, PostNoticeStep
  <2>3. CASE CompleteNotice(c)
    BY <1>0, <2>3, CompleteNoticeStep
  <2>4. CASE /\ ~(ReserveNotice(c) /\ ~Stop(c)) /\ ~CompleteNotice(c)
             /\ ~\E r \in NoticeResults, a \in BOOLEAN : PostNotice(c, r, a)
    <3>1. UNCHANGED <<notice, posts>>
      <4>1. CASE ReserveNotice(c)
        <5>1. cmd'[c] = Idle
          BY <1>0, <2>4, <4>1, StopEffect
        <5>2. ~Go(c, "posting")
          <6>1. Idle.phase # "posting"
            BY DEF Idle
          <6> QED  BY <1>0, <5>1, <6>1, GoEffect
        <5> QED  BY <4>1, <5>2 DEF ReserveNotice, outside
      <4>2. CASE ~ReserveNotice(c)
        BY <1>2, <2>4, <4>2
           DEF Step, StartCommand, Abandon, Assess, Resolve, SelectIncident, InsertIncident,
               UpdateIncident, ReadForNotice, FindNotice, CheckNotice, ReadForRecovery,
               FindDelivery, FindRecovery, CheckRecovery, ReserveRecovery, Dispatch,
               CompleteRecovery, tables, outside
      <4> QED  BY <4>1, <4>2
    <3>2. ~HoldsNotice(c)'
      <4>1. CASE Stop(c)
        <5>1. cmd'[c] = Idle
          BY <1>0, <4>1, StopEffect
        <5> QED  BY <5>1 DEF HoldsNotice, Idle
      <4>2. CASE ~Stop(c)
        <5>1. cmd[c] \in Command
          BY <1>0 DEF TypeOK
        <5>2. ASSUME NEW p, Go(c, p), p \notin {"posting", "closing notice"}
              PROVE  ~HoldsNotice(c)'
          BY <1>0, <5>2, GoEffect DEF HoldsNotice
        <5>3. CASE \/ FindNotice(c) \/ CheckNotice(c) \/ FindDelivery(c)
                   \/ FindRecovery(c) \/ CheckRecovery(c) \/ ReserveRecovery(c)
          BY <4>2, <5>2, <5>3
             DEF FindNotice, CheckNotice, FindDelivery, FindRecovery, CheckRecovery,
                 ReserveRecovery
        <5>4. CASE \E p \in {"diagnosing", "notifying", "recovering"} : StartCommand(c, p)
          BY <1>0, <5>4 DEF StartCommand, TypeOK, Idle, HoldsNotice
        <5>5. CASE \E f \in Findings : Assess(c, f)
          <6>1. cmd'[c].phase \in {"resolving", "selecting"}
            BY <1>0, <4>2, <5>1, <5>5 DEF Assess, TypeOK, Command
          <6> QED  BY <6>1 DEF HoldsNotice
        <5>6. CASE SelectIncident(c)
          <6>1. cmd'[c].phase \in {"inserting", "updating"}
            BY <1>0, <5>1, <5>6 DEF SelectIncident, TypeOK, Command
          <6> QED  BY <6>1 DEF HoldsNotice
        <5>7. CASE ReadForNotice(c)
          <6>1. cmd' = [cmd EXCEPT ![c].phase = "finding notice", ![c].incident = OpenIncident,
                                   ![c].diag = incident[OpenIncident].diag]
            BY <4>2, <5>7 DEF ReadForNotice
          <6>2. cmd'[c].phase = "finding notice"
            BY <1>0, <5>1, <6>1 DEF TypeOK, Command
          <6> QED  BY <6>2 DEF HoldsNotice
        <5>9. CASE ReadForRecovery(c)
          <6>1. cmd' = [cmd EXCEPT ![c].phase = "finding delivery",
                                   ![c].incident = OpenIncident,
                                   ![c].diag = incident[OpenIncident].diag, ![c].stale = {}]
            BY <4>2, <5>9 DEF ReadForRecovery
          <6>2. cmd'[c].phase = "finding delivery"
            BY <1>0, <5>1, <6>1 DEF TypeOK, Command
          <6> QED  BY <6>2 DEF HoldsNotice
        <5>8. CASE \E r \in RecoveryResults, a \in BOOLEAN : Dispatch(c, r, a)
          <6>1. cmd'[c].phase = "closing recovery"
            <7>1. PICK r \in RecoveryResults :
                     cmd' = [cmd EXCEPT ![c].phase = "closing recovery", ![c].result = r]
              BY <5>8 DEF Dispatch
            <7> QED  BY <1>0, <5>1, <7>1 DEF TypeOK, Command
          <6> QED  BY <6>1 DEF HoldsNotice
        <5> QED
          BY <1>2, <2>4, <4>2, <5>3, <5>4, <5>5, <5>6, <5>7, <5>8, <5>9
             DEF Step, Abandon, Resolve, InsertIncident, UpdateIncident, CompleteRecovery
      <4> QED  BY <4>1, <4>2
    <3> QED  BY <1>0, <1>2, <3>1, <3>2, NoticesKept
  <2> QED  BY <2>1, <2>2, <2>3, <2>4
<1> QED  BY <1>1, <1>2 DEF Next, WorkerStartsOrFinishes, Expire, vars

\* A confirmed delivery is never forgotten.
LEMMA DeliveredStays ==
    ASSUME TypeOK, Numbered, NoticesHeld, NEW c \in Commands, Step(c),
           NEW s \in Notices, notice[s] = "delivered"
    PROVE  notice'[s] = "delivered"
<1>1. CASE ReserveNotice(c)
  BY <1>1 DEF ReserveNotice, TypeOK
<1>2. CASE CompleteNotice(c)
  <2>1. HoldsNotice(c) /\ notice' = [notice EXCEPT ![Slot(c)] = cmd[c].result]
    BY <1>2 DEF HoldsNotice, CompleteNotice
  <2>2. notice[Slot(c)] = "pending"
    BY <2>1 DEF NoticesHeld, NoticeHeld
  <2> QED  BY <2>1, <2>2 DEF TypeOK
<1>3. CASE ~ReserveNotice(c) /\ ~CompleteNotice(c)
  <2>1. notice' = notice
    BY <1>3
       DEF Step, StartCommand, Abandon, Assess, Resolve, SelectIncident, InsertIncident,
           UpdateIncident, ReadForNotice, FindNotice, CheckNotice, PostNotice,
           ReadForRecovery, FindDelivery, FindRecovery, CheckRecovery, ReserveRecovery,
           Dispatch, CompleteRecovery, tables
  <2> QED  BY <2>1
<1> QED  BY <1>1, <1>2, <1>3

-----------------------------------------------------------------------------
\* What a recovery has made sure of stays true under it: its diagnosis is
\* immutable and a confirmed delivery is final.
LEMMA GroundedStep ==
    ASSUME TypeOK, Numbered, NoticesHeld, RecoveriesHeld, NEW c \in Commands, Step(c),
           NEW d \in Commands
    PROVE  RecoveryGrounded(d)'
<1>0. cmd[d] \in Command /\ RecoveryGrounded(d)
  BY DEF TypeOK, RecoveriesHeld
<1>1. ASSUME cmd[d].phase \in RecoverPhases \ {"recovering"},
             cmd'[d].incident = cmd[d].incident, cmd'[d].diag = cmd[d].diag,
             HasDelivery(d)' => HasDelivery(d) \/ notice[Slot(d)] = "delivered"
      PROVE  RecoveryGrounded(d)'
  <2>1. HasIncident(d) /\ HasDiagnosis(d)
    BY <1>1 DEF HasIncident, HasDiagnosis, IncidentPhases, DiagnosisPhases
  <2>2. cmd[d].diag \in 1 .. diagnosed /\ Slot(d)' = Slot(d) /\ Slot(d) \in Notices
    BY <1>1, <2>1, SlotKept, SlotType DEF Numbered, CommandNumbered
  <2>3. diagnosis'[cmd[d].diag] = diagnosis[cmd[d].diag]
    BY <2>2, StepFrame
  <2>4. HasDelivery(d)' => notice'[Slot(d)] = "delivered"
    BY <1>0, <1>1, <2>2, DeliveredStays DEF RecoveryGrounded
  <2> QED  BY <1>0, <1>1, <2>2, <2>3, <2>4 DEF RecoveryGrounded
<1>2. ASSUME cmd'[d].phase \notin RecoverPhases \ {"recovering"} PROVE RecoveryGrounded(d)'
  BY <1>2 DEF RecoveryGrounded, HasDelivery
<1>3. CASE d # c
  <2>1. cmd'[d] = cmd[d]
    BY <1>3, StepFrame
  <2> QED  BY <1>1, <1>2, <2>1 DEF HasDelivery
<1>4. CASE d = c
  <2>0. Step(d)
    BY <1>4
  <2>1. CASE Stop(d)
    <3>1. cmd'[d].phase = "idle"
      BY <2>1, StopEffect DEF Idle
    <3> QED  BY <1>2, <3>1 DEF RecoverPhases
  <2>2. CASE ReadForRecovery(d) /\ ~Stop(d)
    <3>1. /\ OpenIncident # None /\ Eligible(d, incident[OpenIncident].diag)
          /\ cmd' = [cmd EXCEPT ![d].phase = "finding delivery", ![d].incident = OpenIncident,
                                ![d].diag = incident[OpenIncident].diag, ![d].stale = {}]
          /\ diagnosis' = diagnosis
      BY <2>2 DEF ReadForRecovery, tables
    <3>2. cmd'[d].phase = "finding delivery" /\ cmd'[d].diag = incident[OpenIncident].diag
      BY <1>0, <3>1 DEF TypeOK, Command
    <3> QED  BY <3>1, <3>2 DEF RecoveryGrounded, HasDelivery, Eligible
  <2>3. CASE (FindDelivery(d) \/ FindRecovery(d) \/ CheckRecovery(d) \/ ReserveRecovery(d))
             /\ ~Stop(d)
    <3>1. /\ cmd[d].phase \in {"finding delivery", "finding recovery", "checking recovery",
                               "reserving recovery"}
          /\ cmd[d].phase = "finding delivery" => notice[Slot(d)] = "delivered"
      BY <2>3 DEF FindDelivery, FindRecovery, CheckRecovery, ReserveRecovery
    <3>2. \E p \in Phases : Go(d, p)
      BY <2>3 DEF FindDelivery, FindRecovery, CheckRecovery, ReserveRecovery, Phases,
                  RecoverPhases
    <3>3. cmd'[d].incident = cmd[d].incident /\ cmd'[d].diag = cmd[d].diag
      BY <3>2, GoEffect
    <3> QED  BY <1>1, <3>1, <3>3 DEF HasDelivery, RecoverPhases
  <2>4. CASE \E r \in RecoveryResults, a \in BOOLEAN : Dispatch(d, r, a)
    <3>1. PICK r \in RecoveryResults :
             /\ cmd[d].phase = "dispatching"
             /\ cmd' = [cmd EXCEPT ![d].phase = "closing recovery", ![d].result = r]
      BY <2>4 DEF Dispatch
    <3>2. cmd'[d].incident = cmd[d].incident /\ cmd'[d].diag = cmd[d].diag
      BY <1>0, <3>1 DEF TypeOK, Command
    <3> QED  BY <1>1, <3>1, <3>2 DEF HasDelivery, RecoverPhases
  <2>5. ASSUME NEW p, Go(d, p), p \notin RecoverPhases PROVE RecoveryGrounded(d)'
    BY <1>2, <2>5, GoEffect
  <2>6. CASE (FindNotice(d) \/ CheckNotice(d) \/ ReserveNotice(d)) /\ ~Stop(d)
    BY <2>5, <2>6 DEF FindNotice, CheckNotice, ReserveNotice, RecoverPhases
  <2>7. CASE \E p \in {"diagnosing", "notifying", "recovering"} : StartCommand(d, p)
    <3>1. cmd'[d].phase \in {"diagnosing", "notifying", "recovering"}
      BY <2>7 DEF StartCommand, TypeOK, Idle
    <3> QED  BY <1>2, <3>1 DEF RecoverPhases
  <2>8. CASE \E f \in Findings : Assess(d, f) /\ ~Stop(d)
    <3>1. cmd'[d].phase \in {"resolving", "selecting"}
      BY <1>0, <2>8 DEF Assess, TypeOK, Command
    <3> QED  BY <1>2, <3>1 DEF RecoverPhases
  <2>9. CASE SelectIncident(d)
    <3>1. cmd'[d].phase \in {"inserting", "updating"}
      BY <1>0, <2>9 DEF SelectIncident, TypeOK, Command
    <3> QED  BY <1>2, <3>1 DEF RecoverPhases
  <2>10. CASE ReadForNotice(d) /\ ~Stop(d)
    <3>1. cmd' = [cmd EXCEPT ![d].phase = "finding notice", ![d].incident = OpenIncident,
                             ![d].diag = incident[OpenIncident].diag]
      BY <2>10 DEF ReadForNotice
    <3>2. cmd'[d].phase = "finding notice"
      BY <1>0, <3>1 DEF TypeOK, Command
    <3> QED  BY <1>2, <3>2 DEF RecoverPhases
  <2>11. CASE \E r \in NoticeResults, a \in BOOLEAN : PostNotice(d, r, a)
    <3>1. PICK r \in NoticeResults :
             cmd' = [cmd EXCEPT ![d].phase = "closing notice", ![d].result = r]
      BY <2>11 DEF PostNotice
    <3>2. cmd'[d].phase = "closing notice"
      BY <1>0, <3>1 DEF TypeOK, Command
    <3> QED  BY <1>2, <3>2 DEF RecoverPhases
  <2> QED
    BY <2>0, <2>1, <2>2, <2>3, <2>4, <2>6, <2>7, <2>8, <2>9, <2>10, <2>11
       DEF Step, Abandon, Resolve, InsertIncident, UpdateIncident, CompleteNotice,
           CompleteRecovery
<1> QED  BY <1>3, <1>4

\* What a command that holds a recovery holds.
LEMMA RecoveryHolder ==
    ASSUME TypeOK, Numbered, RecoveriesHeld, NEW c \in Commands, HoldsRecovery(c)
    PROVE  /\ cmd[c].incident \in IncidentIds
           /\ recovery[cmd[c].incident].status = "pending"
<1>1. cmd[c].incident \in 1 .. opened
  BY HolderHas DEF Numbered, CommandNumbered
<1>2. cmd[c].incident \in IncidentIds
  BY <1>1, IncidentConstants DEF TypeOK, IncidentIds
<1>3. recovery[cmd[c].incident] = [status |-> "pending", diag |-> cmd[c].diag]
  BY DEF RecoveriesHeld, RecoveryHeld
<1>4. recovery[cmd[c].incident].status = "pending"
  BY <1>3
<1> QED  BY <1>2, <1>4

\* Steps that leave the recovery ledger alone and end with no new holder.
LEMMA RecoveriesKept ==
    ASSUME TypeOK, Numbered, NoticesHeld, RecoveriesHeld, NEW c \in Commands, Step(c),
           UNCHANGED <<recovery, inputs>>, ~HoldsRecovery(c)'
    PROVE  RecoveriesHeld'
<1>1. ASSUME NEW d \in Commands, HoldsRecovery(d)'
      PROVE  HoldsRecovery(d) /\ cmd'[d] = cmd[d]
  <2>1. d \in Commands \ {c}
    BY <1>1
  <2> QED  BY <1>1, <2>1, OthersKept
<1>2. ASSUME NEW d \in Commands PROVE RecoveryHeld(d)' /\ RecoveryGrounded(d)'
  BY <1>1, GroundedStep DEF RecoveriesHeld, RecoveryHeld
<1>3. ASSUME NEW d \in Commands, NEW e \in Commands, HoldsRecovery(d)', HoldsRecovery(e)',
             cmd'[d].incident = cmd'[e].incident
      PROVE  d = e
  BY <1>1, <1>3 DEF RecoveriesHeld
<1>4. ASSUME NEW i \in IncidentIds PROVE (recovery[i].status = "free" => inputs[i] = 0)'
  BY DEF RecoveriesHeld
<1> QED  BY <1>2, <1>3, <1>4 DEF RecoveriesHeld

LEMMA ReserveRecoveryStep ==
    ASSUME TypeOK, Numbered, NoticesHeld, RecoveriesHeld, NEW c \in Commands,
           ReserveRecovery(c), ~Stop(c)
    PROVE  RecoveriesHeld'
<1>0. Step(c)
  BY DEF Step
<1>1. /\ cmd[c].phase = "reserving recovery" /\ recovery[cmd[c].incident].status = "free"
      /\ recovery' = [recovery EXCEPT ![cmd[c].incident] =
                         [status |-> "pending", diag |-> cmd[c].diag]]
      /\ Go(c, "dispatching") /\ inputs' = inputs
  BY DEF ReserveRecovery, outside
<1>2. cmd[c].incident \in IncidentIds
  <2>1. cmd[c].incident \in 1 .. opened
    BY <1>1 DEF Numbered, CommandNumbered, HasIncident, IncidentPhases, RecoverPhases
  <2> QED  BY <2>1, IncidentConstants DEF TypeOK, IncidentIds
<1>3. inputs[cmd[c].incident] = 0
  BY <1>1, <1>2 DEF RecoveriesHeld
<1>4. /\ cmd'[c].phase = "dispatching" /\ cmd'[c].incident = cmd[c].incident
      /\ cmd'[c].diag = cmd[c].diag
  BY <1>1, GoEffect
<1>5. ASSUME NEW d \in Commands, d # c, HoldsRecovery(d)'
      PROVE  /\ HoldsRecovery(d) /\ cmd'[d] = cmd[d]
             /\ cmd[d].incident # cmd[c].incident /\ cmd[d].incident \in IncidentIds
  <2>1. HoldsRecovery(d) /\ cmd'[d] = cmd[d]
    BY <1>0, <1>5, OthersKept
  <2> QED  BY <1>1, <2>1, RecoveryHolder
<1>6. ASSUME NEW d \in Commands PROVE RecoveryHeld(d)'
  <2>1. CASE d = c
    <3>1. recovery'[cmd[c].incident] = [status |-> "pending", diag |-> cmd[c].diag]
      BY <1>1, <1>2 DEF TypeOK
    <3> QED  BY <1>1, <1>3, <1>4, <2>1, <3>1 DEF RecoveryHeld
  <2>2. CASE d # c
    <3>1. HoldsRecovery(d)' => recovery'[cmd[d].incident] = recovery[cmd[d].incident]
      BY <1>1, <1>5, <2>2 DEF TypeOK
    <3> QED  BY <1>1, <1>5, <2>2, <3>1 DEF RecoveriesHeld, RecoveryHeld
  <2> QED  BY <2>1, <2>2
<1>7. ASSUME NEW d \in Commands, NEW e \in Commands, HoldsRecovery(d)', HoldsRecovery(e)',
             cmd'[d].incident = cmd'[e].incident
      PROVE  d = e
  BY <1>4, <1>5, <1>7 DEF RecoveriesHeld
<1>8. ASSUME NEW i \in IncidentIds, recovery'[i].status = "free" PROVE inputs'[i] = 0
  BY <1>1, <1>3, <1>8 DEF RecoveriesHeld, TypeOK
<1> QED  BY <1>0, <1>6, <1>7, <1>8, GroundedStep DEF RecoveriesHeld

LEMMA DispatchStep ==
    ASSUME TypeOK, Numbered, NoticesHeld, RecoveriesHeld, NEW c \in Commands,
           NEW r \in RecoveryResults, NEW a \in BOOLEAN, Dispatch(c, r, a)
    PROVE  RecoveriesHeld'
<1>0. Step(c) /\ cmd[c] \in Command
  BY DEF Step, TypeOK
<1>1. /\ cmd[c].phase = "dispatching" /\ recovery' = recovery
      /\ inputs' = inputs \/ inputs' = [inputs EXCEPT ![cmd[c].incident] = @ + 1]
      /\ cmd' = [cmd EXCEPT ![c].phase = "closing recovery", ![c].result = r]
  BY DEF Dispatch, tables
<1>2. /\ HoldsRecovery(c)
      /\ recovery[cmd[c].incident] = [status |-> "pending", diag |-> cmd[c].diag]
  BY <1>1 DEF HoldsRecovery, RecoveriesHeld, RecoveryHeld
<1>3. /\ cmd'[c].phase = "closing recovery" /\ cmd'[c].result = r
      /\ cmd'[c].incident = cmd[c].incident /\ cmd'[c].diag = cmd[c].diag
  BY <1>0, <1>1 DEF Command, TypeOK
<1>4. ASSUME NEW d \in Commands, d # c, HoldsRecovery(d)'
      PROVE  /\ HoldsRecovery(d) /\ cmd'[d] = cmd[d]
             /\ cmd[d].incident # cmd[c].incident /\ cmd[d].incident \in IncidentIds
  <2>1. HoldsRecovery(d) /\ cmd'[d] = cmd[d]
    BY <1>0, <1>4, OthersKept
  <2> QED  BY <1>2, <1>4, <2>1, RecoveryHolder DEF RecoveriesHeld
<1>5. ASSUME NEW d \in Commands PROVE RecoveryHeld(d)'
  <2>1. CASE d = c
    BY <1>1, <1>2, <1>3, <2>1 DEF RecoveryHeld
  <2>2. CASE d # c
    <3>1. HoldsRecovery(d)' => inputs'[cmd[d].incident] = inputs[cmd[d].incident]
      BY <1>1, <1>4, <2>2 DEF TypeOK
    <3> QED  BY <1>1, <1>4, <2>2, <3>1 DEF RecoveriesHeld, RecoveryHeld
  <2> QED  BY <2>1, <2>2
<1>6. ASSUME NEW d \in Commands, NEW e \in Commands, HoldsRecovery(d)', HoldsRecovery(e)',
             cmd'[d].incident = cmd'[e].incident
      PROVE  d = e
  BY <1>2, <1>3, <1>4, <1>6 DEF RecoveriesHeld
<1>7. ASSUME NEW i \in IncidentIds, recovery'[i].status = "free" PROVE inputs'[i] = 0
  <2>1. i # cmd[c].incident
    BY <1>1, <1>2, <1>7, RecoveryHolder
  <2> QED  BY <1>1, <1>7, <2>1 DEF RecoveriesHeld, TypeOK
<1> QED  BY <1>0, <1>5, <1>6, <1>7, GroundedStep DEF RecoveriesHeld

LEMMA CompleteRecoveryStep ==
    ASSUME TypeOK, Numbered, NoticesHeld, RecoveriesHeld, NEW c \in Commands,
           CompleteRecovery(c)
    PROVE  RecoveriesHeld'
<1>0. Step(c)
  BY DEF Step
<1>1. /\ cmd[c].phase = "closing recovery" /\ Stop(c) /\ inputs' = inputs
      /\ recovery' = [recovery EXCEPT ![cmd[c].incident].status = cmd[c].result]
  BY DEF CompleteRecovery, outside
<1>2. HoldsRecovery(c) /\ cmd[c].result \in RecoveryResults
  BY <1>1 DEF HoldsRecovery, RecoveriesHeld, RecoveryHeld
<1>3. ~HoldsRecovery(c)'
  <2>1. cmd'[c] = Idle
    BY <1>1, StopEffect
  <2> QED  BY <2>1 DEF HoldsRecovery, Idle
<1>4. ASSUME NEW d \in Commands, HoldsRecovery(d)'
      PROVE  /\ HoldsRecovery(d) /\ cmd'[d] = cmd[d]
             /\ cmd[d].incident # cmd[c].incident /\ cmd[d].incident \in IncidentIds
  <2>1. d # c
    BY <1>3, <1>4
  <2>2. HoldsRecovery(d) /\ cmd'[d] = cmd[d]
    BY <1>0, <1>4, <2>1, OthersKept
  <2> QED  BY <1>2, <2>1, <2>2, RecoveryHolder DEF RecoveriesHeld
<1>5. ASSUME NEW d \in Commands PROVE RecoveryHeld(d)'
  <2>1. HoldsRecovery(d)' => recovery'[cmd[d].incident] = recovery[cmd[d].incident]
    BY <1>1, <1>4 DEF TypeOK
  <2> QED  BY <1>1, <1>4, <2>1 DEF RecoveriesHeld, RecoveryHeld
<1>6. ASSUME NEW d \in Commands, NEW e \in Commands, HoldsRecovery(d)', HoldsRecovery(e)',
             cmd'[d].incident = cmd'[e].incident
      PROVE  d = e
  BY <1>4, <1>6 DEF RecoveriesHeld
<1>7. ASSUME NEW i \in IncidentIds, recovery'[i].status = "free" PROVE inputs'[i] = 0
  <2>1. CASE i = cmd[c].incident
    <3>1. recovery'[i].status = cmd[c].result
      BY <1>1, <2>1 DEF TypeOK, RecoveryRow
    <3> QED  BY <1>2, <1>7, <3>1 DEF RecoveryResults
  <2>2. CASE i # cmd[c].incident
    BY <1>1, <1>7, <2>2 DEF RecoveriesHeld, TypeOK
  <2> QED  BY <2>1, <2>2
<1> QED  BY <1>0, <1>5, <1>6, <1>7, GroundedStep DEF RecoveriesHeld

LEMMA RecoveriesStep == Inv /\ [Next]_vars => RecoveriesHeld'
<1> SUFFICES ASSUME Inv, [Next]_vars PROVE RecoveriesHeld'
  OBVIOUS
<1>0. TypeOK /\ Numbered /\ NoticesHeld /\ RecoveriesHeld
  BY DEF Inv
<1>1. CASE UNCHANGED <<tables, outside, cmd>>
  BY <1>0, <1>1 DEF tables, outside, RecoveriesHeld, RecoveryHeld, RecoveryGrounded,
                    HoldsRecovery, HasDelivery, Slot
<1>2. ASSUME NEW c \in Commands, Step(c) PROVE RecoveriesHeld'
  <2>0. cmd[c] \in Command
    BY <1>0 DEF TypeOK
  <2>1. CASE ReserveRecovery(c) /\ ~Stop(c)
    BY <1>0, <2>1, ReserveRecoveryStep
  <2>2. CASE \E r \in RecoveryResults, a \in BOOLEAN : Dispatch(c, r, a)
    BY <1>0, <2>2, DispatchStep
  <2>3. CASE CompleteRecovery(c)
    BY <1>0, <2>3, CompleteRecoveryStep
  <2> DEFINE Quiet == UNCHANGED <<recovery, inputs>> /\ ~HoldsRecovery(c)'
  <2>4. ASSUME Quiet PROVE RecoveriesHeld'
    BY <1>0, <1>2, <2>4, RecoveriesKept
  <2>5. ASSUME Stop(c) PROVE ~HoldsRecovery(c)'
    <3>1. cmd'[c] = Idle
      BY <1>0, <2>5, StopEffect
    <3> QED  BY <3>1 DEF HoldsRecovery, Idle
  <2>6. CASE /\ Stop(c)
             /\ ~CompleteRecovery(c)
             /\ ~\E r \in RecoveryResults, a \in BOOLEAN : Dispatch(c, r, a)
    <3>1. UNCHANGED <<recovery, inputs>>
      <4>1. CASE ReserveRecovery(c)
        <5>1. Idle.phase # "dispatching" /\ cmd'[c] = Idle
          BY <1>0, <2>6, StopEffect DEF Idle
        <5>2. ~Go(c, "dispatching")
          BY <1>0, <5>1, GoEffect
        <5> QED  BY <4>1, <5>2 DEF ReserveRecovery, outside
      <4>2. CASE ~ReserveRecovery(c)
        BY <1>2, <2>6, <4>2
           DEF Step, StartCommand, Abandon, Assess, Resolve, SelectIncident, InsertIncident,
               UpdateIncident, ReadForNotice, FindNotice, CheckNotice, ReserveNotice,
               PostNotice, CompleteNotice, ReadForRecovery, FindDelivery, FindRecovery,
               CheckRecovery, tables, outside
      <4> QED  BY <4>1, <4>2
    <3> QED  BY <2>4, <2>5, <2>6, <3>1
  <2>7. ASSUME NEW p, Go(c, p), p \notin {"dispatching", "closing recovery"}
        PROVE  ~HoldsRecovery(c)'
    BY <1>0, <2>7, GoEffect DEF HoldsRecovery
  <2>8. CASE ~Stop(c) /\ (\/ FindNotice(c) \/ CheckNotice(c) \/ ReserveNotice(c)
                          \/ FindDelivery(c) \/ FindRecovery(c) \/ CheckRecovery(c))
    <3>1. UNCHANGED <<recovery, inputs>>
      BY <2>8 DEF FindNotice, CheckNotice, ReserveNotice, FindDelivery, FindRecovery,
                  CheckRecovery, tables, outside
    <3>2. ~HoldsRecovery(c)'
      BY <2>7, <2>8 DEF FindNotice, CheckNotice, ReserveNotice, FindDelivery, FindRecovery,
                        CheckRecovery
    <3> QED  BY <2>4, <3>1, <3>2
  <2>9. CASE \E p \in {"diagnosing", "notifying", "recovering"} : StartCommand(c, p)
    <3>1. cmd'[c].phase \in {"diagnosing", "notifying", "recovering"}
      BY <1>0, <2>9 DEF StartCommand, TypeOK, Idle
    <3> QED  BY <2>4, <2>9, <3>1 DEF HoldsRecovery, StartCommand, tables, outside
  <2>10. CASE \E f \in Findings : Assess(c, f) /\ ~Stop(c)
    <3>1. cmd'[c].phase \in {"resolving", "selecting"}
      BY <1>0, <2>0, <2>10 DEF Assess, TypeOK, Command
    <3> QED  BY <2>4, <2>10, <3>1 DEF HoldsRecovery, Assess, outside
  <2>11. CASE SelectIncident(c)
    <3>1. cmd'[c].phase \in {"inserting", "updating"}
      BY <1>0, <2>0, <2>11 DEF SelectIncident, TypeOK, Command
    <3> QED  BY <2>4, <2>11, <3>1 DEF HoldsRecovery, SelectIncident, tables, outside
  <2>12. CASE ReadForNotice(c) /\ ~Stop(c)
    <3>1. cmd' = [cmd EXCEPT ![c].phase = "finding notice", ![c].incident = OpenIncident,
                             ![c].diag = incident[OpenIncident].diag]
      BY <2>12 DEF ReadForNotice
    <3>2. cmd'[c].phase = "finding notice"
      BY <1>0, <2>0, <3>1 DEF TypeOK, Command
    <3> QED  BY <2>4, <2>12, <3>2 DEF HoldsRecovery, ReadForNotice, tables, outside
  <2>13. CASE ReadForRecovery(c) /\ ~Stop(c)
    <3>1. cmd' = [cmd EXCEPT ![c].phase = "finding delivery", ![c].incident = OpenIncident,
                             ![c].diag = incident[OpenIncident].diag, ![c].stale = {}]
      BY <2>13 DEF ReadForRecovery
    <3>2. cmd'[c].phase = "finding delivery"
      BY <1>0, <2>0, <3>1 DEF TypeOK, Command
    <3> QED  BY <2>4, <2>13, <3>2 DEF HoldsRecovery, ReadForRecovery, tables, outside
  <2>14. CASE \E r \in NoticeResults, a \in BOOLEAN : PostNotice(c, r, a)
    <3>1. PICK r \in NoticeResults :
             /\ cmd' = [cmd EXCEPT ![c].phase = "closing notice", ![c].result = r]
             /\ UNCHANGED <<recovery, inputs>>
      BY <2>14 DEF PostNotice, tables
    <3>2. cmd'[c].phase = "closing notice"
      BY <1>0, <2>0, <3>1 DEF TypeOK, Command
    <3> QED  BY <2>4, <3>1, <3>2 DEF HoldsRecovery
  <2> HIDE DEF Quiet
  <2> QED
    BY <1>2, <2>1, <2>2, <2>3, <2>6, <2>8, <2>9, <2>10, <2>11, <2>12, <2>13, <2>14
       DEF Step, Abandon, Resolve, InsertIncident, UpdateIncident, CompleteNotice
<1> QED  BY <1>1, <1>2 DEF Next, WorkerStartsOrFinishes, Expire, vars

\* How the row of a recovery may change in a step.
LEMMA RecoveryRowStep ==
    ASSUME TypeOK, Numbered, RecoveriesHeld, NEW c \in Commands, Step(c),
           NEW i \in IncidentIds
    PROVE  \/ recovery'[i] = recovery[i]
           \/ /\ recovery[i].status = "free" /\ i = cmd[c].incident
              /\ ReserveRecovery(c) /\ cmd[c].phase = "reserving recovery"
              /\ recovery'[i] = [status |-> "pending", diag |-> cmd[c].diag]
           \/ /\ CompleteRecovery(c) /\ i = cmd[c].incident
              /\ recovery[i].status = "pending"
              /\ recovery'[i].diag = recovery[i].diag
              /\ recovery'[i].status \in RecoveryResults
<1>1. CASE ReserveRecovery(c)
  <2>1. CASE recovery' = recovery
    BY <2>1
  <2>2. CASE /\ recovery[cmd[c].incident].status = "free"
             /\ recovery' = [recovery EXCEPT ![cmd[c].incident] =
                               [status |-> "pending", diag |-> cmd[c].diag]]
    BY <1>1, <2>2 DEF TypeOK, ReserveRecovery
  <2> QED  BY <1>1, <2>1, <2>2 DEF ReserveRecovery
<1>2. CASE CompleteRecovery(c)
  <2>1. /\ HoldsRecovery(c) /\ cmd[c].result \in RecoveryResults
        /\ recovery' = [recovery EXCEPT ![cmd[c].incident].status = cmd[c].result]
    BY <1>2 DEF HoldsRecovery, CompleteRecovery, RecoveriesHeld, RecoveryHeld
  <2>2. recovery[cmd[c].incident].status = "pending"
    BY <2>1, RecoveryHolder
  <2>3. CASE i = cmd[c].incident
    <3>1. recovery'[i].status = cmd[c].result /\ recovery'[i].diag = recovery[i].diag
      BY <2>1, <2>3 DEF TypeOK, RecoveryRow
    <3> QED  BY <1>2, <2>1, <2>2, <2>3, <3>1
  <2>4. CASE i # cmd[c].incident
    BY <2>1, <2>4 DEF TypeOK
  <2> QED  BY <2>3, <2>4
<1>3. CASE ~ReserveRecovery(c) /\ ~CompleteRecovery(c)
  <2>1. recovery' = recovery
    BY <1>3
       DEF Step, StartCommand, Abandon, Assess, Resolve, SelectIncident, InsertIncident,
           UpdateIncident, ReadForNotice, FindNotice, CheckNotice, ReserveNotice, PostNotice,
           CompleteNotice, ReadForRecovery, FindDelivery, FindRecovery, CheckRecovery,
           Dispatch, tables
  <2> QED  BY <2>1
<1> QED  BY <1>1, <1>2, <1>3

LEMMA FollowsStep == Inv /\ [Next]_vars => RecoveryFollowsDelivery'
<1> SUFFICES ASSUME Inv, [Next]_vars PROVE RecoveryFollowsDelivery'
  OBVIOUS
<1>0. TypeOK /\ Numbered /\ NoticesHeld /\ RecoveriesHeld /\ RecoveryFollowsDelivery
  BY DEF Inv
<1>1. CASE UNCHANGED <<tables, outside, cmd>>
  BY <1>0, <1>1 DEF tables, outside, RecoveryFollowsDelivery
<1>2. ASSUME NEW c \in Commands, Step(c) PROVE RecoveryFollowsDelivery'
  <2>0. NoticesHeld' /\ RecoveriesHeld'
    BY NoticesStep, RecoveriesStep
  <2> DEFINE Grounded(i, d) ==
        /\ diagnosis[d].cause \in Recoverable /\ diagnosis[d].exact
        /\ notice[<<i, EventKey(diagnosis[d])>>] = "delivered"
  <2>1. ASSUME NEW i \in IncidentIds, NEW d \in 1 .. diagnosed, Grounded(i, d)
        PROVE  Grounded(i, d)' /\ d \in DiagnosisIds
               /\ posts'[<<i, EventKey(diagnosis'[d])>>] = 1
    <3>1. d \in DiagnosisIds /\ diagnosis'[d] = diagnosis[d] /\ diagnosis[d] \in Findings
      BY <1>0, <1>2, StepFrame, IncidentConstants DEF TypeOK, DiagnosisIds
    <3>2. <<i, EventKey(diagnosis[d])>> \in Notices
      BY <3>1, EventKeyType DEF Notices
    <3>3. notice'[<<i, EventKey(diagnosis[d])>>] = "delivered"
      BY <1>0, <1>2, <2>1, <3>2, DeliveredStays
    <3>4. posts'[<<i, EventKey(diagnosis[d])>>] = 1
      BY <2>0, <3>2, <3>3 DEF NoticesHeld, NoticeRow
    <3>5. EventKey(diagnosis[d])' = EventKey(diagnosis[d])
      BY <3>1 DEF EventKey
    <3> QED  BY <2>1, <3>1, <3>3, <3>4, <3>5
  <2>2. ASSUME NEW i \in IncidentIds, recovery'[i].status # "free"
        PROVE  \E d \in 1 .. diagnosed : recovery'[i].diag = d /\ Grounded(i, d)
    <3>1. CASE recovery[i].status # "free" /\ recovery'[i].diag = recovery[i].diag
      BY <1>0, <3>1 DEF Numbered, RowNumbered, RecoveryFollowsDelivery
    <3>2. CASE /\ i = cmd[c].incident /\ cmd[c].phase = "reserving recovery"
               /\ recovery'[i] = [status |-> "pending", diag |-> cmd[c].diag]
      <4>1. HasDiagnosis(c) /\ HasDelivery(c) /\ cmd[c].phase \in RecoverPhases \ {"recovering"}
        BY <3>2 DEF HasDiagnosis, HasDelivery, DiagnosisPhases, RecoverPhases
      <4>2. cmd[c].diag \in 1 .. diagnosed
        BY <1>0, <4>1 DEF Numbered, CommandNumbered
      <4>3. Grounded(i, cmd[c].diag)
        BY <1>0, <3>2, <4>1 DEF RecoveriesHeld, RecoveryGrounded, Slot
      <4>4. recovery'[i].diag = cmd[c].diag
        <5>1. recovery'[i] = [status |-> "pending", diag |-> cmd[c].diag]
          BY <3>2
        <5> QED  BY <5>1
      <4> QED  BY <4>2, <4>3, <4>4
    <3> QED  BY <1>0, <1>2, <2>2, <3>1, <3>2, RecoveryRowStep
  <2>3. ASSUME NEW i \in IncidentIds, recovery'[i].status # "free" \/ inputs'[i] > 0
        PROVE  recovery'[i].status # "free"
    BY <2>0, <2>3 DEF RecoveriesHeld
  <2> QED
    <3>1. ASSUME NEW i \in IncidentIds, recovery'[i].status # "free" \/ inputs'[i] > 0
          PROVE  LET f == diagnosis'[recovery'[i].diag]
                 IN  /\ recovery'[i].diag \in DiagnosisIds
                     /\ f.cause \in Recoverable /\ f.exact
                     /\ notice'[<<i, EventKey(f)>>] = "delivered"
                     /\ posts'[<<i, EventKey(f)>>] = 1
      <4>1. PICK d \in 1 .. diagnosed : recovery'[i].diag = d /\ Grounded(i, d)
        BY <2>2, <2>3, <3>1
      <4>2. Grounded(i, d)' /\ d \in DiagnosisIds
            /\ posts'[<<i, EventKey(diagnosis'[d])>>] = 1
        BY <2>1, <4>1
      <4> QED  BY <4>1, <4>2 DEF EventKey
    <3> QED  BY <3>1 DEF RecoveryFollowsDelivery, EventKey
<1> QED  BY <1>1, <1>2 DEF Next, WorkerStartsOrFinishes, Expire, vars

\* Init establishes the invariant and every step keeps it.
LEMMA Invariant == Spec => []Inv
<1>1. Inv /\ [Next]_vars => Inv'
  BY TypeStep, NumberedStep, NoticesStep, RecoveriesStep, FollowsStep DEF Inv
<1> QED  BY InitInv, <1>1, PTL DEF Spec

-----------------------------------------------------------------------------
\* Every column keeps to what the schema and the enums of diagnostics.py allow,
\* and no command writes a result it does not have.
THEOREM TypeCorrect == Spec => []TypeOK
<1>1. Inv => TypeOK
  BY DEF Inv
<1> QED  BY Invariant, <1>1, PTL

\* No message is queued to Codex before its operator was told: the diagnosis a
\* recovery was reserved for is eligible and was delivered to Discord.
THEOREM RecoveryAfterDelivery == Spec => []RecoveryFollowsDelivery
<1>1. Inv => RecoveryFollowsDelivery
  BY DEF Inv
<1> QED  BY Invariant, <1>1, PTL

\* The notification ledger is a OneShot: whatever interleaving of commands and
\* wherever one dies, an event of an incident is posted at most once, after its
\* row was reserved and before its result is recorded.
THEOREM NoticesOnce == Spec => NoticesAreOneShot
<1>1. Init => NoticeLedger!Init
  BY DEF Init, NoticeLedger!Init
<1>2. Inv /\ [Next]_vars => [NoticeLedger!Next]_NoticeLedger!vars
  <2> SUFFICES ASSUME Inv, [Next]_vars PROVE [NoticeLedger!Next]_NoticeLedger!vars
    OBVIOUS
  <2>0. TypeOK /\ Numbered /\ NoticesHeld
    BY DEF Inv
  <2>1. CASE UNCHANGED <<notice, posts>>
    BY <2>1 DEF NoticeLedger!vars
  <2>2. ASSUME NEW c \in Commands, Step(c), ~UNCHANGED <<notice, posts>>
        PROVE  NoticeLedger!Next
    <3>1. CASE ReserveNotice(c)
      <4>1. /\ cmd[c].phase = "reserving notice" /\ notice[Slot(c)] = "free"
            /\ notice' = [notice EXCEPT ![Slot(c)] = "pending"] /\ posts' = posts
        BY <2>2, <3>1 DEF ReserveNotice, outside
      <4>2. Slot(c) \in Notices
        BY <2>0, <4>1, SlotType
           DEF HasIncident, HasDiagnosis, IncidentPhases, DiagnosisPhases, NotifyPhases
      <4>3. NoticeLedger!Reserve(Slot(c))
        BY <4>1 DEF NoticeLedger!Reserve
      <4> QED  BY <4>2, <4>3 DEF NoticeLedger!Next
    <3>2. CASE \E r \in NoticeResults, a \in BOOLEAN : PostNotice(c, r, a)
      <4>1. /\ cmd[c].phase = "posting" /\ notice' = notice
            /\ posts' = [posts EXCEPT ![Slot(c)] = @ + 1]
        BY <2>2, <3>2 DEF PostNotice, tables
      <4>2. HoldsNotice(c) /\ Slot(c) \in Notices
        BY <2>0, <4>1, SlotType, HolderHas DEF HoldsNotice
      <4>3. notice[Slot(c)] = "pending" /\ posts[Slot(c)] = 0
        BY <2>0, <4>1, <4>2 DEF NoticesHeld, NoticeHeld
      <4>4. posts' = [posts EXCEPT ![Slot(c)] = 1]
        BY <2>0, <4>1, <4>2, <4>3 DEF TypeOK
      <4>5. NoticeLedger!Send(Slot(c))
        BY <4>1, <4>3, <4>4 DEF NoticeLedger!Send
      <4> QED  BY <4>2, <4>5 DEF NoticeLedger!Next
    <3>3. CASE CompleteNotice(c)
      <4>1. /\ cmd[c].phase = "closing notice" /\ posts' = posts
            /\ notice' = [notice EXCEPT ![Slot(c)] = cmd[c].result]
        BY <3>3 DEF CompleteNotice, outside
      <4>2. HoldsNotice(c) /\ Slot(c) \in Notices
        BY <2>0, <4>1, SlotType, HolderHas DEF HoldsNotice
      <4>3. notice[Slot(c)] = "pending" /\ cmd[c].result \in NoticeResults
        BY <2>0, <4>1, <4>2 DEF NoticesHeld, NoticeHeld
      <4>4. NoticeLedger!Close(Slot(c))
        BY <4>1, <4>3 DEF NoticeLedger!Close
      <4> QED  BY <4>2, <4>4 DEF NoticeLedger!Next
    <3>4. CASE /\ ~ReserveNotice(c) /\ ~CompleteNotice(c)
               /\ ~\E r \in NoticeResults, a \in BOOLEAN : PostNotice(c, r, a)
      BY <2>2, <3>4
         DEF Step, StartCommand, Abandon, Assess, Resolve, SelectIncident, InsertIncident,
             UpdateIncident, ReadForNotice, FindNotice, CheckNotice, ReadForRecovery,
             FindDelivery, FindRecovery, CheckRecovery, ReserveRecovery, Dispatch,
             CompleteRecovery, tables, outside
    <3> QED  BY <3>1, <3>2, <3>3, <3>4
  <2> QED
    BY <2>1, <2>2 DEF Next, WorkerStartsOrFinishes, Expire, vars, tables, outside
<1> QED  BY Invariant, <1>1, <1>2, PTL DEF Spec, NoticesAreOneShot, NoticeLedger!Spec

\* The recovery ledger is a OneShot: an incident is given at most one message,
\* after its row was reserved and before its result is recorded.
THEOREM RecoveriesOnce == Spec => RecoveriesAreOneShot
<1> DEFINE S == [i \in IncidentIds |-> recovery[i].status]
<1>1. Init => RecoveryLedger!Init
  BY DEF Init, RecoveryLedger!Init
<1>2. Inv /\ [Next]_vars => [RecoveryLedger!Next]_RecoveryLedger!vars
  <2> SUFFICES ASSUME Inv, [Next]_vars PROVE [RecoveryLedger!Next]_RecoveryLedger!vars
    OBVIOUS
  <2>0. TypeOK /\ Numbered /\ RecoveriesHeld
    BY DEF Inv
  <2>1. CASE UNCHANGED <<recovery, inputs>>
    BY <2>1 DEF RecoveryLedger!vars
  <2>2. ASSUME NEW c \in Commands, Step(c), ~UNCHANGED <<recovery, inputs>>
        PROVE  RecoveryLedger!Next
    <3>1. CASE ReserveRecovery(c)
      <4>1. /\ cmd[c].phase = "reserving recovery"
            /\ recovery[cmd[c].incident].status = "free" /\ inputs' = inputs
            /\ recovery' = [recovery EXCEPT ![cmd[c].incident] =
                              [status |-> "pending", diag |-> cmd[c].diag]]
        BY <2>2, <3>1 DEF ReserveRecovery, outside
      <4>2. cmd[c].incident \in IncidentIds
        <5>1. cmd[c].incident \in 1 .. opened
          BY <2>0, <4>1 DEF Numbered, CommandNumbered, HasIncident, IncidentPhases,
                            RecoverPhases
        <5> QED  BY <2>0, <5>1, IncidentConstants DEF TypeOK, IncidentIds
      <4>3. S[cmd[c].incident] = "free"
        BY <4>1, <4>2
      <4>4. S' = [S EXCEPT ![cmd[c].incident] = "pending"]
        BY <2>0, <4>1, <4>2 DEF TypeOK
      <4> QED
        BY <4>1, <4>2, <4>3, <4>4 DEF RecoveryLedger!Next, RecoveryLedger!Reserve
    <3>2. CASE \E r \in RecoveryResults, a \in BOOLEAN : Dispatch(c, r, a)
      <4>1. /\ cmd[c].phase = "dispatching" /\ recovery' = recovery
            /\ inputs' = [inputs EXCEPT ![cmd[c].incident] = @ + 1]
        BY <2>2, <3>2 DEF Dispatch, tables
      <4>2. /\ HoldsRecovery(c) /\ cmd[c].incident \in IncidentIds
            /\ recovery[cmd[c].incident].status = "pending"
        BY <2>0, <4>1, RecoveryHolder DEF HoldsRecovery
      <4>3. inputs[cmd[c].incident] = 0
        BY <2>0, <4>1, <4>2 DEF RecoveriesHeld, RecoveryHeld
      <4>4. /\ S[cmd[c].incident] = "pending" /\ S' = S
            /\ inputs' = [inputs EXCEPT ![cmd[c].incident] = 1]
        BY <2>0, <4>1, <4>2, <4>3 DEF TypeOK
      <4>5. RecoveryLedger!Send(cmd[c].incident)
        BY <4>3, <4>4 DEF RecoveryLedger!Send
      <4> QED  BY <4>2, <4>5 DEF RecoveryLedger!Next
    <3>3. CASE CompleteRecovery(c)
      <4>1. /\ cmd[c].phase = "closing recovery" /\ inputs' = inputs
            /\ recovery' = [recovery EXCEPT ![cmd[c].incident].status = cmd[c].result]
        BY <3>3 DEF CompleteRecovery, outside
      <4>2. /\ HoldsRecovery(c) /\ cmd[c].incident \in IncidentIds
            /\ recovery[cmd[c].incident].status = "pending"
        BY <2>0, <4>1, RecoveryHolder DEF HoldsRecovery
      <4>3. cmd[c].result \in RecoveryResults
        BY <2>0, <4>1, <4>2 DEF RecoveriesHeld, RecoveryHeld
      <4>4. S[cmd[c].incident] = "pending"
        BY <4>2
      <4>5. S' = [S EXCEPT ![cmd[c].incident] = cmd[c].result]
        BY <2>0, <4>1, <4>2, <4>3 DEF TypeOK, RecoveryRow
      <4> QED
        BY <4>1, <4>2, <4>3, <4>4, <4>5 DEF RecoveryLedger!Next, RecoveryLedger!Close
    <3>4. CASE /\ ~ReserveRecovery(c) /\ ~CompleteRecovery(c)
               /\ ~\E r \in RecoveryResults, a \in BOOLEAN : Dispatch(c, r, a)
      BY <2>2, <3>4
         DEF Step, StartCommand, Abandon, Assess, Resolve, SelectIncident, InsertIncident,
             UpdateIncident, ReadForNotice, FindNotice, CheckNotice, ReserveNotice,
             PostNotice, CompleteNotice, ReadForRecovery, FindDelivery, FindRecovery,
             CheckRecovery, tables, outside
    <3> QED  BY <3>1, <3>2, <3>3, <3>4
  <2> QED
    BY <2>1, <2>2 DEF Next, WorkerStartsOrFinishes, Expire, vars, tables, outside
<1> QED  BY Invariant, <1>1, <1>2, PTL DEF Spec, RecoveriesAreOneShot, RecoveryLedger!Spec

-----------------------------------------------------------------------------
\* How the row of an incident may change in a step.
LEMMA IncidentStep ==
    ASSUME TypeOK, Numbered, NEW c \in Commands, Step(c), NEW i \in IncidentIds
    PROVE  \/ /\ incident'[i].status = incident[i].status
              /\ incident'[i].diag = incident[i].diag
           \/ /\ incident[i].status = "open" /\ incident'[i].status = "resolved"
              /\ Resolve(c)
           \/ /\ incident[i].status = "open" /\ incident'[i].status = "open"
              /\ UpdateIncident(c)
           \/ /\ incident[i].status = "none" /\ incident'[i].status = "open"
              /\ InsertIncident(c) /\ OpenIncident = None /\ i = opened + 1
<1>1. CASE Resolve(c)
  BY <1>1 DEF Resolve, TypeOK, IncidentRow, IsOpen
<1>2. CASE UpdateIncident(c)
  BY <1>2 DEF UpdateIncident, TypeOK, IncidentRow, IsOpen
<1>3. CASE CompleteNotice(c)
  BY <1>3 DEF CompleteNotice, TypeOK, IncidentRow
<1>4. CASE InsertIncident(c)
  <2>1. CASE incident' = incident
    BY <2>1
  <2>2. CASE /\ OpenIncident = None
             /\ incident' = [incident EXCEPT ![opened + 1] =
                    [status |-> "open", diag |-> cmd[c].diag, notified |-> FALSE]]
    <3>1. CASE i = opened + 1
      <4>1. incident[i].status = "none"
        <5>1. ~(i <= opened)
          BY <3>1, IncidentConstants DEF TypeOK
        <5> QED  BY <5>1 DEF Numbered, RowNumbered
      <4>2. incident'[i].status = "open"
        BY <2>2, <3>1 DEF TypeOK
      <4> QED  BY <1>4, <2>2, <3>1, <4>1, <4>2
    <3>2. CASE i # opened + 1
      BY <2>2, <3>2 DEF TypeOK
    <3> QED  BY <3>1, <3>2
  <2> QED  BY <1>4, <2>1, <2>2 DEF InsertIncident
<1>5. CASE ~Resolve(c) /\ ~UpdateIncident(c) /\ ~CompleteNotice(c) /\ ~InsertIncident(c)
  <2>1. incident' = incident
    BY <1>5
       DEF Step, StartCommand, Abandon, Assess, SelectIncident, ReadForNotice, FindNotice,
           CheckNotice, ReserveNotice, PostNotice, ReadForRecovery, FindDelivery,
           FindRecovery, CheckRecovery, ReserveRecovery, Dispatch, CompleteRecovery, tables
  <2> QED  BY <2>1
<1> QED  BY <1>1, <1>2, <1>3, <1>4, <1>5

\* A worker never has two open incidents, however many diagnoses race.
THEOREM AtMostOneOpen == Spec => []OneOpenIncident
<1>1. Init => OneOpenIncident
  BY DEF Init, OneOpenIncident, IsOpen
<1>2. Inv /\ OneOpenIncident /\ [Next]_vars => OneOpenIncident'
  <2> SUFFICES ASSUME Inv, OneOpenIncident, [Next]_vars PROVE OneOpenIncident'
    OBVIOUS
  <2>0. TypeOK /\ Numbered
    BY DEF Inv
  <2>1. CASE incident' = incident
    BY <2>1 DEF OneOpenIncident, IsOpen
  <2>2. ASSUME NEW c \in Commands, Step(c), NEW i \in IncidentIds, NEW j \in IncidentIds,
               incident'[i].status = "open", incident'[j].status = "open"
        PROVE  i = j
    <3>1. ASSUME NEW k \in IncidentIds, incident'[k].status = "open"
          PROVE  IsOpen(k) \/ (OpenIncident = None /\ k = opened + 1)
      BY <2>0, <2>2, <3>1, IncidentStep DEF IsOpen
    <3>2. OpenIncident = None => ~IsOpen(i) /\ ~IsOpen(j)
      BY OpenIncidentType
    <3> QED  BY <2>2, <3>1, <3>2 DEF OneOpenIncident
  <2> QED
    BY <2>1, <2>2
       DEF Next, WorkerStartsOrFinishes, Expire, vars, tables, OneOpenIncident, IsOpen
<1> QED  BY Invariant, <1>1, <1>2, PTL DEF Spec

\* A resolved incident keeps its status and its diagnosis in every later state,
\* also under an update that was decided while it was still open.
THEOREM ResolvedStays == Spec => ResolvedIsFinal
<1>1. Inv /\ [Next]_vars =>
        [\A i \in IncidentIds : incident[i].status = "resolved" =>
           /\ incident'[i].status = "resolved"
           /\ incident'[i].diag = incident[i].diag]_vars
  <2> SUFFICES ASSUME Inv, [Next]_vars, NEW i \in IncidentIds,
                      incident[i].status = "resolved"
               PROVE  \/ /\ incident'[i].status = "resolved"
                         /\ incident'[i].diag = incident[i].diag
                      \/ UNCHANGED vars
    OBVIOUS
  <2>0. TypeOK /\ Numbered
    BY DEF Inv
  <2>1. CASE incident' = incident
    BY <2>1
  <2>2. CASE \E c \in Commands : Step(c)
    BY <2>0, <2>2, IncidentStep
  <2> QED  BY <2>1, <2>2 DEF Next, WorkerStartsOrFinishes, Expire, vars, tables
<1> QED  BY Invariant, <1>1, PTL DEF Spec, ResolvedIsFinal

-----------------------------------------------------------------------------
\* The notification ledger has rows of incidents that were opened only.
Reported(i) == \E k \in EventKeys : notice[<<i, k>>] = "delivered"
LedgerNumbered == \A i \in IncidentIds : Reported(i) => i <= opened

\* One step of the ledger: a slot becomes delivered only when its command closes it.
LEMMA ReportedStep ==
    ASSUME Inv, NEW c \in Commands, Step(c), NEW i \in IncidentIds
    PROVE  \/ Reported(i)' <=> Reported(i)
           \/ CompleteNotice(c) /\ cmd[c].result = "delivered" /\ i = cmd[c].incident
<1>0. TypeOK /\ Numbered /\ NoticesHeld
  BY DEF Inv
<1>t. notice \in [Notices -> {"free", "pending"} \cup NoticeResults]
  BY <1>0 DEF TypeOK
<1>1. CASE notice' = notice
  BY <1>1 DEF Reported
<1>2. CASE ReserveNotice(c)
  <2>1. HasIncident(c) /\ HasDiagnosis(c)
    BY <1>2 DEF ReserveNotice, HasIncident, HasDiagnosis, IncidentPhases,
                DiagnosisPhases, NotifyPhases
  <2>2. Slot(c) \in Notices
    BY <1>0, <2>1, SlotType
  <2>3. \A s \in Notices : notice'[s] = "delivered" <=> notice[s] = "delivered"
    BY <1>t, <1>2, <2>2 DEF ReserveNotice
  <2> QED  BY <2>3 DEF Reported, Notices
<1>3. CASE CompleteNotice(c)
  <2>1. HoldsNotice(c)
    BY <1>3 DEF CompleteNotice, HoldsNotice
  <2>2. Slot(c) \in Notices
    BY <1>0, <2>1, HolderHas, SlotType
  <2>3. notice[Slot(c)] = "pending"
    BY <1>0, <2>1 DEF NoticesHeld, NoticeHeld
  <2>4. \A s \in Notices : s # Slot(c) => notice'[s] = notice[s]
    BY <1>t, <1>3 DEF CompleteNotice
  <2>5. CASE i # cmd[c].incident
    <3>1. \A k \in EventKeys : <<i, k>> \in Notices /\ <<i, k>> # Slot(c)
      BY <2>5 DEF Slot, Notices
    <3> QED  BY <2>4, <3>1 DEF Reported
  <2>6. CASE cmd[c].result # "delivered"
    <3>1. notice'[Slot(c)] = cmd[c].result
      BY <1>t, <1>3, <2>2 DEF CompleteNotice
    <3>2. \A s \in Notices : notice'[s] = "delivered" <=> notice[s] = "delivered"
      BY <2>3, <2>4, <2>6, <3>1
    <3> QED  BY <3>2 DEF Reported, Notices
  <2> QED  BY <1>3, <2>5, <2>6
<1>4. CASE ~ReserveNotice(c) /\ ~CompleteNotice(c)
  <2>1. notice' = notice
    BY <1>4
       DEF Step, StartCommand, Abandon, Assess, Resolve, SelectIncident, InsertIncident,
           UpdateIncident, ReadForNotice, FindNotice, CheckNotice, PostNotice,
           ReadForRecovery, FindDelivery, FindRecovery, CheckRecovery, ReserveRecovery,
           Dispatch, CompleteRecovery, tables
  <2> QED  BY <1>1, <2>1
<1> QED  BY <1>2, <1>3, <1>4

\* last_notified_at over one step: set by a delivery, absent on a new incident.
LEMMA NotifiedStep ==
    ASSUME Inv, NEW c \in Commands, Step(c), NEW i \in IncidentIds
    PROVE  \/ /\ incident'[i].notified = incident[i].notified
              /\ ~(CompleteNotice(c) /\ cmd[c].result = "delivered" /\ i = cmd[c].incident)
           \/ /\ CompleteNotice(c) /\ cmd[c].result = "delivered" /\ i = cmd[c].incident
              /\ incident'[i].notified = TRUE
           \/ /\ InsertIncident(c) /\ i = opened + 1
              /\ incident'[i].notified = FALSE
<1>0. TypeOK
  BY DEF Inv
<1>1. CASE Resolve(c)
  BY <1>0, <1>1 DEF Resolve, CompleteNotice, TypeOK, IncidentRow
<1>2. CASE UpdateIncident(c)
  BY <1>0, <1>2 DEF UpdateIncident, CompleteNotice, TypeOK, IncidentRow
<1>3. CASE CompleteNotice(c)
  BY <1>0, <1>3 DEF CompleteNotice, TypeOK, IncidentRow
<1>4. CASE InsertIncident(c)
  BY <1>0, <1>4 DEF InsertIncident, CompleteNotice, TypeOK, IncidentRow
<1>5. CASE ~Resolve(c) /\ ~UpdateIncident(c) /\ ~CompleteNotice(c) /\ ~InsertIncident(c)
  <2>1. incident' = incident
    BY <1>5
       DEF Step, StartCommand, Abandon, Assess, SelectIncident, ReadForNotice, FindNotice,
           CheckNotice, ReserveNotice, PostNotice, ReadForRecovery, FindDelivery,
           FindRecovery, CheckRecovery, ReserveRecovery, Dispatch, CompleteRecovery, tables
  <2> QED  BY <1>5, <2>1
<1> QED  BY <1>1, <1>2, <1>3, <1>4, <1>5

\* What CompleteNotice leaves behind when the post was delivered.
LEMMA CompletedIsReported ==
    ASSUME Inv, NEW c \in Commands, CompleteNotice(c), cmd[c].result = "delivered"
    PROVE  /\ \E k \in EventKeys : notice'[<<cmd[c].incident, k>>] = "delivered"
           /\ cmd[c].incident <= opened
<1>1. HoldsNotice(c) /\ HasIncident(c) /\ HasDiagnosis(c)
  BY HolderHas DEF CompleteNotice, HoldsNotice
<1>2. Slot(c) \in Notices /\ notice \in [Notices -> {"free", "pending"} \cup NoticeResults]
  BY <1>1, SlotType DEF Inv, TypeOK
<1>3. notice'[Slot(c)] = "delivered"
  BY <1>2 DEF CompleteNotice
<1>4. PICK k \in EventKeys : Slot(c) = <<cmd[c].incident, k>>
  BY <1>2 DEF Slot, Notices
<1>5. cmd[c].incident <= opened
  BY <1>1 DEF Inv, Numbered, CommandNumbered
<1> QED  BY <1>3, <1>4, <1>5

\* last_notified_at and the ledger agree in every state (complete_notification
\* of diagnostics.py), also for an incident resolved while its notice was posted.
THEOREM NotifiedMatches == Spec => []NotifiedMatchesLedger
<1>1. Init => LedgerNumbered /\ NotifiedMatchesLedger
  <2> SUFFICES ASSUME Init, NEW i \in IncidentIds
               PROVE  incident[i].notified = FALSE /\ ~Reported(i)
    BY DEF LedgerNumbered, Reported, NotifiedMatchesLedger
  <2>1. \A k \in EventKeys : notice[<<i, k>>] = "free"
    BY DEF Init, Notices
  <2> QED  BY <2>1 DEF Init, Reported
<1>2. Inv /\ LedgerNumbered /\ NotifiedMatchesLedger /\ [Next]_vars
         => LedgerNumbered' /\ NotifiedMatchesLedger'
  <2> SUFFICES ASSUME Inv, LedgerNumbered, NotifiedMatchesLedger, [Next]_vars
               PROVE  LedgerNumbered' /\ NotifiedMatchesLedger'
    OBVIOUS
  <2>1. CASE UNCHANGED tables
    BY <2>1 DEF tables, LedgerNumbered, NotifiedMatchesLedger, Reported
  <2>2. ASSUME NEW c \in Commands, Step(c)
        PROVE  LedgerNumbered' /\ NotifiedMatchesLedger'
    <3>1. ASSUME NEW i \in IncidentIds
          PROVE  /\ Reported(i)' => i <= opened'
                 /\ incident'[i].notified <=> Reported(i)'
      <4>1. /\ opened <= opened' /\ opened \in Nat /\ opened' \in Nat
            /\ i \in Nat
        <5>1. opened \in Nat /\ TypeOK
          BY IncidentConstants DEF Inv, TypeOK
        <5>2. opened' = opened \/ opened' = opened + 1
          BY <2>2, <5>1, StepFrame
        <5>3. i \in Nat
          BY IncidentConstants DEF IncidentIds
        <5> QED  BY <5>1, <5>2, <5>3
      <4>2. /\ Reported(i) => i <= opened
            /\ incident[i].notified <=> Reported(i)
        BY DEF LedgerNumbered, NotifiedMatchesLedger, Reported
      <4>3. CASE CompleteNotice(c) /\ cmd[c].result = "delivered" /\ i = cmd[c].incident
        <5>1. Reported(i)' /\ i <= opened
          BY <4>3, CompletedIsReported DEF Reported
        <5>2. incident'[i].notified = TRUE
          BY <4>3 DEF CompleteNotice, Inv, TypeOK, IncidentRow
        <5> QED  BY <4>1, <5>1, <5>2
      <4>4. CASE ~(CompleteNotice(c) /\ cmd[c].result = "delivered" /\ i = cmd[c].incident)
        <5>1. Reported(i)' <=> Reported(i)
          BY <2>2, <4>4, ReportedStep
        <5>2. \/ incident'[i].notified = incident[i].notified
              \/ i = opened + 1 /\ incident'[i].notified = FALSE
          BY <2>2, <4>4, NotifiedStep
        <5>3. i = opened + 1 => ~Reported(i)
          BY <4>1, <4>2
        <5>4. Reported(i)' => i <= opened'
          BY <4>1, <4>2, <5>1
        <5> QED  BY <4>2, <5>1, <5>2, <5>3, <5>4
      <4> QED  BY <4>3, <4>4
    <3> QED  BY <3>1 DEF LedgerNumbered, NotifiedMatchesLedger, Reported
  <2> QED  BY <2>1, <2>2 DEF Next, WorkerStartsOrFinishes, Expire, vars
<1> QED  BY Invariant, <1>1, <1>2, PTL DEF Spec
=============================================================================
