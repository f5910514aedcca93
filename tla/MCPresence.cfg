SPECIFICATION FairSpec
CONSTANTS
    Workers = {w1}
    Reporters = {r1, r2}
    Monitors = {m1}
    MaxTime = 5
    MaxReports = 2
    MaxFaults = 1
    Thresholds <- MCLateThresholds
    OpenTimes = {2, 3, 5}
    RepeatLevels = {1, 2}
    RepeatAfter = 1
    AutoStart = {TRUE, FALSE}
    ReportProtocols = {"protocol1", "protocol2"}
INVARIANTS
    TypeOK
    RedOncePerEpisode
PROPERTIES
    LevelsOnlyRise
    RecordedOnlyWhenDelivered
    SilenceIsEscalated
