SPECIFICATION StationSpec
\* Commands end, and the bounds on what others record are used up.
CHECK_DEADLOCK FALSE
CONSTANTS
    Services = {u1, u2}
    MaxFaults = 2
    MaxCommands = 2
    Pids = {1}
    Stops = {k1}
    MaxProcesses = 1
    MaxTableRows <- MCMaxTableRows
    PollLimit = 1
    MaxFailures = 0
    MaxToggles = 0
    Chats = {m1}
    Window = 0
    MaxTime = 0
    MaxDeaths = 0
    MaxLines = 0
    Sightings <- MCSightings
    HookTtl = 2
    LinuxTtl = 1
    LimitTtl = 2
    PresenceTtl = 1
    Overdue = 1
    ListLimit = 2
    MaxMoment = 1
    MaxEvidence = 0
    MaxDiagnoses = 0
    Writers = {w1}
    MaxArmings = 1
    MaxSends = 1
PROPERTIES
    OneUndoIsClean
