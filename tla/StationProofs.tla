---------------------------- MODULE StationProofs ----------------------------
(* Proofs about the composition of the components that have no state in       *)
(* common. In a station each of them behaves as it does alone, so that what   *)
(* is proved of each holds there, for every number of processes, units,       *)
(* messages and rows. The fairness of a component in the station is that of   *)
(* the behaviours in which it is the one that moves; liveness is not proved.  *)
EXTENDS MCStation, TrayProofs, CommandProofs, CodexProofs

\* What is said of a step of the station, per component: it is a step of that
\* component, or it leaves the component's variables as they were.
LEMMA StationStep ==
    [StationNext]_stationVars =>
       /\ [UpgradeNext]_upgradeVars /\ [AlarmNext]_alarmVars
       /\ [NoticesNext]_noticeVars /\ [ChatNext]_chatVars
       /\ [ProbeNext]_probeVars /\ [DiagnosisNext]_diagnosisVars
       /\ [ScheduleNext]_scheduleVars
       /\ focus' = focus
<1> SUFFICES ASSUME [StationNext]_stationVars
             PROVE  /\ [UpgradeNext]_upgradeVars /\ [AlarmNext]_alarmVars
                    /\ [NoticesNext]_noticeVars /\ [ChatNext]_chatVars
                    /\ [ProbeNext]_probeVars /\ [DiagnosisNext]_diagnosisVars
                    /\ [ScheduleNext]_scheduleVars
                    /\ focus' = focus
  OBVIOUS
<1>1. CASE StationNext
  BY <1>1 DEF StationNext
<1>2. CASE UNCHANGED stationVars
  BY <1>2 DEF stationVars
<1> QED  BY <1>1, <1>2

\* In a station every component keeps to its own specification (of the tray's two
\* threads the part without their fairness).
THEOREM ComponentsKeepToTheirSpecs ==
    StationSpec =>
       /\ UpgradeSpec /\ AlarmSpec /\ ProbeSpec /\ DiagnosisSpec /\ ScheduleSpec
       /\ NoticesInit /\ [][NoticesNext]_noticeVars
       /\ ChatInit /\ [][ChatNext]_chatVars
<1>1. StationInit => /\ UpgradeInit /\ AlarmInit /\ NoticesInit /\ ChatInit
                     /\ ProbeInit /\ DiagnosisInit /\ ScheduleInit
  BY DEF StationInit
<1> QED
  BY <1>1, StationStep, PTL
     DEF StationSpec, UpgradeSpec, AlarmSpec, ProbeSpec, DiagnosisSpec, ScheduleSpec

\* The variables of every component keep their types, of the one that moves as of
\* those that rest.
THEOREM StationTypeCorrect == StationSpec => []StationTypeOK
<1>1. /\ UpgradeTypeOK /\ AlarmTypeOK /\ NoticesTypeOK /\ ChatTypeOK
      /\ ProbeTypeOK /\ DiagnosisTypeOK /\ ScheduleTypeOK /\ focus \in Components
      => StationTypeOK
  BY DEF StationTypeOK, Components
<1>2. StationInit => focus \in Components
  BY DEF StationInit
<1>3. focus \in Components /\ [StationNext]_stationVars => (focus \in Components)'
  BY StationStep
<1>4. StationSpec => [](focus \in Components)
  BY <1>2, <1>3, PTL DEF StationSpec
<1>5. NoticesInv => NoticesTypeOK
  BY DEF NoticesInv
<1>6. ChatInv => ChatTypeOK
  BY DEF ChatInv
<1> QED
  BY <1>1, <1>4, <1>5, <1>6, ComponentsKeepToTheirSpecs, UpgradeTypeCorrect, AlarmTypeCorrect,
     NoticesInvariant, ChatInvariant, ProbeTypeCorrect, DiagnosisTypeCorrect,
     ScheduleTypeCorrect, PTL

\* Every safety property of the components holds of the station that is checked on
\* a small instance, for every value of its constants.
THEOREM StationIsSafe ==
    StationSpec =>
       /\ [](StoppedHasEnded /\ NoticesAreNew)
       /\ [](ConfirmedAfterDispatch /\ NotSentIsNowhere)
       /\ [](EventsAreComplete /\ LeavesNothingBehind)
       /\ [](RestsOnCurrentEvidence /\ ScheduleIsOneShot)
       /\ RecordedSuccessIsReal /\ ReplacedUnderStoppedUnits /\ AbortReturnsUnits
       /\ SparesOtherProcesses /\ ConfirmationStands /\ RecoveryIsJustified
       /\ NoBacklog
<1>1. NoticesInv => NoticesAreNew
  BY NoticesAnswer
<1>2. ChatInv => ConfirmedAfterDispatch /\ NotSentIsNowhere
  BY DEF ChatInv, CallAndRow, DispatchedRow, ConfirmedAfterDispatch, NotSentIsNowhere
<1> QED
  BY <1>1, <1>2, ComponentsKeepToTheirSpecs, RemovedAlarmHasEnded, NoticesInvariant,
     ChatInvariant, OffStaysOff, ChatConfirmations, ProbeIsComplete, ProbeLeavesNothing,
     DiagnosisIsCurrent, OnceUntilOverwritten, SuccessIsReal, PackageIsReplacedAlone,
     AbortGivesUnitsBack, StopAlarmSparesOthers, RecoveryIsAlwaysJustified, PTL
=============================================================================
