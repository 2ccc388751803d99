SPECIFICATION FairSpec
CONSTANTS
    h1 = h1
    h2 = h2
    e1 = e1
    e2 = e2
    t1 = t1
    w1 = w1
    Hooks <- OneHook
    Events <- OneEvent
    TypeOf <- OneType
    Tags = {t1}
    Configs <- ModeConfigs
    Workers <- OneWorker
    MaxAttempts = 3
    DeliveryEnabled = TRUE
    MaxEdits = 1
    MaxFaults = 2
INVARIANTS AttemptsInOrder RepeatedByFaultsOnly LogAccurate RetriesAsConfigured
PROPERTIES ImplementsContract JobsEnd
CHECK_DEADLOCK FALSE
