SPECIFICATION FairRulesSpec
CONSTANTS
    NumRules = 1
    Red = {}
    Gated = {1}
    Repeating = {1}
    MaxOccurrences = 2
    Delay = 1
    Interval = 1
    RedAfter = 0
    EvidenceTtl = 1
    Tray = tray
    RuleObservers = {o1}
    Disablers = {}
    MaxMinutes = 3
    MaxEdits = 0
    MaxArmings = 2
    MaxAttempts = 2
PROPERTIES
    ConfirmedRulesAreRearmed
