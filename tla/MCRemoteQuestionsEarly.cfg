SPECIFICATION QuestionsSpec
CONSTANTS
    Questions = {q1, q2}
    Loose = loose
    StoreOnly = {q2}
    Observers = {o1}
    Retriers = {}
    Timeout = 1
    ConfirmWithin = 1
    MaxTime = 0
    MaxMessages = 3
PROPERTIES
    GuidedOnlyWhenUnmatched
