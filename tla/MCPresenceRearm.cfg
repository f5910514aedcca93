SPECIFICATION Spec
CONSTANTS
    Workers = {w1}
    Reporters = {r1}
    Monitors = {m1}
    MaxTime = 4
    MaxReports = 3
    MaxFaults = 1
    Thresholds <- MCThresholds
    OpenTimes = {0, 1, 2, 3, 4}
    RepeatLevels = {1, 2}
    RepeatAfter = 1
    AutoStart = {FALSE}
    ReportProtocols = {"protocol2"}

INVARIANT
    AlertBelongsToEpisode
