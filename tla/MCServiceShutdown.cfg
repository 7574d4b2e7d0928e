SPECIFICATION StopSpec
CONSTANTS
    Workers = {w1}
    Claimer = claimer
    Handlers = {h1}
    JobIds = {j1, j2}
    QueueSize = 2
    ClaimCount = 2
    MaxRetries = 1
    Requests <- AllRequests
    NoJob = NoJob
    NoOne = NoOne
    Events <- StopEvents
PROPERTIES
    ShutdownCompletes
    HandlingEnds
    ShutdownDrains
