SPECIFICATION InputsSpec
CONSTANTS
    Commands = {c1, c2}
    Findings <- MCFindings
    Healthy = {"working"}
    Recoverable = {"crashed"}
    MaxCommands = 4
    MaxIncidents = 2
    MaxDiagnoses = 3
    MaxExpired = 1
    Questions = {q1}
    Loose = loose
    StoreOnly = {}
    Observers = {o1, o2}
    Retriers = {}
    Timeout = 1
    ConfirmWithin = 1
    MaxTime = 1
    MaxMessages = 3
    NumRules = 1
    Red = {}
    Gated = {}
    Repeating = {1}
    MaxOccurrences = 2
    Delay = 0
    Interval = 1
    RedAfter = 0
    EvidenceTtl = 1
    Tray = tray
    RuleObservers = {}
    Disablers = {d1}
    MaxMinutes = 2
    MaxEdits = 1
    MaxArmings = 3
    MaxAttempts = 3
    Retrier = r1
    Service = s1
SYMMETRY ObserverSymmetry
INVARIANTS
    InputsTypeOK
    RecoveryFollowsDelivery
    NotifiedMatchesLedger
    OneOpenIncident
    DispatchedOnce
    InputFollowsAnswer
    SentOncePerArming
    RepeatsFollowTheSession
PROPERTIES
    NoticesAreOneShot
    RecoveriesAreOneShot
    ResolvedIsFinal
    ClosedStaysClosed
    ListedRepliesAreTaken
    RestIsKept
