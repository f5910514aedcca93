SPECIFICATION Spec
CONSTANTS
    Workers = {w1}
    Reporters = {r1}
    Monitors = {m1}
    MaxTime = 3
    MaxReports = 1
    MaxFaults = 1
    Thresholds <- MCThresholds
    OpenTimes = {0, 1, 2, 3}
    RepeatLevels = {}
    RepeatAfter = 1
    AutoStart = {FALSE}
    ReportProtocols = {"protocol2"}
INVARIANT
    RedMessageOnce
