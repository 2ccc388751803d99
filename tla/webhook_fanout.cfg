SPECIFICATION FairSpec
CONSTANTS
    h1 = h1
    h2 = h2
    e1 = e1
    e2 = e2
    t1 = t1
    w1 = w1
    Hooks <- TwoHooks
    Events <- TwoEvents
    TypeOf <- TwoTypes
    Tags = {t1}
    Configs <- FilterConfigs
    Workers <- OneWorker
    MaxAttempts = 1
    DeliveryEnabled = TRUE
    MaxEdits = 2
    MaxFaults = 0
PROPERTIES FanOut
CHECK_DEADLOCK FALSE
