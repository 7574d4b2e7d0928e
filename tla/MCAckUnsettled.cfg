SPECIFICATION Spec
CONSTANTS
    Workers = {w1}
    Claimer = claimer
    Handlers = {h1}
    JobIds = {j1}
    QueueSize = 1
    ClaimCount = 1
    MaxRetries = 0
    Requests <- AllRequests
    NoJob = NoJob
    NoOne = NoOne
    Events <- OnlyErrors
PROPERTY AckOnlySettled
