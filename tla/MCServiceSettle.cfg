SPECIFICATION LiveSpec
CONSTANTS
    Workers = {w1}
    Claimer = claimer
    Handlers = {h1}
    JobIds = {j1, j2}
    QueueSize = 2
    ClaimCount = 2
    MaxRetries = 0
    Requests <- MixedRequests
    NoJob = NoJob
    NoOne = NoOne
    Events <- SettleEvents
PROPERTIES
    EveryJobSettles
    AudioIsReleased
