SPECIFICATION Spec
CONSTANTS
    Commands = {c1, c2}
    Findings <- MCFindings
    Healthy = {"working"}
    Recoverable = {"crashed"}
    MaxCommands = 3
    MaxIncidents = 1
    MaxDiagnoses = 3
    MaxExpired = 0
PROPERTIES
    UnhealthyLeavesOpenIncident
