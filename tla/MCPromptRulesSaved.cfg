SPECIFICATION RulesSpec
CONSTANTS
    NumRules = 1
    Red = {}
    Gated = {}
    Repeating = {}
    MaxOccurrences = 1
    Delay = 1
    Interval = 0
    RedAfter = 0
    EvidenceTtl = 1
    Tray = tray
    RuleObservers = {}
    Disablers = {}
    MaxMinutes = 1
    MaxEdits = 1
    MaxArmings = 2
    MaxAttempts = 2
INVARIANTS
    NeverSentAgain
