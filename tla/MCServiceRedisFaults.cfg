SPECIFICATION Spec
CONSTANTS
    Workers = {w1}
    Claimer = claimer
    Handlers = {h1, h2}
    JobIds = {j1, j2}
    QueueSize = 1
    ClaimCount = 2
    MaxRetries = 0
    Requests <- AllRequests
    NoJob = NoJob
    NoOne = NoOne
    Events <- RedisFaults
SYMMETRY Symmetry
INVARIANTS
    EntriesReachable
    SingleHandler
    ViewShowsOneOutcome
PROPERTIES
    TerminalIsFinal
    ImplementsLifecycle
    ImplementsQueue
