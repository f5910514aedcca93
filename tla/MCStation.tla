------------------------------ MODULE MCStation ------------------------------
(* Small instances of the components of a workstation that have no state in  *)
(* common: the upgrade command, the local alarm, the tray's notifications,   *)
(* the agent chat, the app-server client, the diagnosis and the schedule of  *)
(* earlier versions. A behaviour is one of the component that "focus" names; *)
(* the others stay as they began, so that the states are the sum of the      *)
(* components' and not the product.                                          *)
EXTENDS Updater, Alarm, DesktopNotices, AgentChat, AppServerProbe, Diagnosis,
        ScheduledPrompt

VARIABLE focus

Components == {"updater", "alarm", "notices", "chat", "probe", "diagnosis",
               "schedule"}

stationVars == <<upgradeVars, alarmVars, noticeVars, chatVars, probeVars,
                 diagnosisVars, scheduleVars, focus>>

StationInit ==
    /\ UpgradeInit /\ AlarmInit /\ NoticesInit /\ ChatInit /\ ProbeInit
    /\ DiagnosisInit /\ ScheduleInit
    /\ focus \in Components

StationNext ==
    /\ focus' = focus
    /\ \/ /\ focus = "updater" /\ UpgradeNext
          /\ UNCHANGED <<alarmVars, noticeVars, chatVars, probeVars, diagnosisVars,
                         scheduleVars>>
       \/ /\ focus = "alarm" /\ AlarmNext
          /\ UNCHANGED <<upgradeVars, noticeVars, chatVars, probeVars, diagnosisVars,
                         scheduleVars>>
       \/ /\ focus = "notices" /\ NoticesNext
          /\ UNCHANGED <<upgradeVars, alarmVars, chatVars, probeVars, diagnosisVars,
                         scheduleVars>>
       \/ /\ focus = "chat" /\ ChatNext
          /\ UNCHANGED <<upgradeVars, alarmVars, noticeVars, probeVars, diagnosisVars,
                         scheduleVars>>
       \/ /\ focus = "probe" /\ ProbeNext
          /\ UNCHANGED <<upgradeVars, alarmVars, noticeVars, chatVars, diagnosisVars,
                         scheduleVars>>
       \/ /\ focus = "diagnosis" /\ DiagnosisNext
          /\ UNCHANGED <<upgradeVars, alarmVars, noticeVars, chatVars, probeVars,
                         scheduleVars>>
       \/ /\ focus = "schedule" /\ ScheduleNext
          /\ UNCHANGED <<upgradeVars, alarmVars, noticeVars, chatVars, probeVars,
                         diagnosisVars>>

\* NoticesFairness and ChatFairness, each of the behaviours of its component.
StationFairness ==
    /\ WF_noticeVars(focus = "notices" /\ TrayCycle)
    /\ WF_chatVars(focus = "chat" /\ TrayThread)

StationSpec == StationInit /\ [][StationNext]_stationVars /\ StationFairness

StationTypeOK ==
    /\ focus \in Components
    /\ CASE focus = "updater"   -> UpgradeTypeOK
         [] focus = "alarm"     -> AlarmTypeOK
         [] focus = "notices"   -> NoticesTypeOK
         [] focus = "chat"      -> ChatTypeOK
         [] focus = "probe"     -> ProbeTypeOK
         [] focus = "diagnosis" -> DiagnosisTypeOK
         [] focus = "schedule"  -> ScheduleTypeOK

-----------------------------------------------------------------------------
MCMaxTableRows == [events |-> 1, alerts |-> 2]

\* A limit that is reached, a process that is gone, and the hooks of a session
\* that ended and started again and of another one.
MCSightings ==
    LET In(set, state) == CHOOSE what \in set : what.state = state IN
    { <<In(LimitEvidence, "rate_limit_reached"), None>>,
      <<In(ProcessEvidence, "missing"), None>>,
      <<In(HookEvidence, "session_started"), "s1">>,
      <<In(HookEvidence, "session_ended"), "s1">>,
      <<In(HookEvidence, "tool_started"), "s2">> }
=============================================================================
