SPECIFICATION StationSpec
\* Commands end, and the bounds on what others record are used up.
CHECK_DEADLOCK FALSE
CONSTANTS
    Services = {u1, u2, u3}
    MaxFaults = 4
    MaxCommands = 3
    Pids = {1, 2}
    Stops = {k1}
    MaxProcesses = 3
    MaxTableRows <- MCMaxTableRows
    PollLimit = 1
    MaxFailures = 1
    MaxToggles = 3
    Chats = {m1}
    Window = 0
    MaxTime = 1
    MaxDeaths = 1
    MaxLines = 2
    Sightings <- MCSightings
    HookTtl = 2
    LinuxTtl = 1
    LimitTtl = 2
    PresenceTtl = 1
    Overdue = 1
    ListLimit = 2
    MaxMoment = 3
    MaxEvidence = 2
    MaxDiagnoses = 1
    Writers = {w1}
    MaxArmings = 2
    MaxSends = 2
INVARIANTS
    StationTypeOK
    StoppedHasEnded
    NoticesAreNew
    ConfirmedAfterDispatch
    NotSentIsNowhere
    EventsAreComplete
    LeavesNothingBehind
    RestsOnCurrentEvidence
    ScheduleIsOneShot
PROPERTIES
    RecordedSuccessIsReal
    ReplacedUnderStoppedUnits
    AbortReturnsUnits
    SparesOtherProcesses
    ConfirmationStands
    RecoveryIsJustified
    NoBacklog
    RowsAreAnnounced
    AnswerIsShownConfirmed
