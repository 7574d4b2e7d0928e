SPECIFICATION Spec
CONSTANTS
    Workers = {w1, w2}
    Claimer = claimer
    Handlers = {h1}
    JobIds = {j1, j2}
    QueueSize = 1
    ClaimCount = 1
    MaxRetries = 0
    Requests <- MixedRequests
    NoJob = NoJob
    NoOne = NoOne
    Events <- SlowEvents
SYMMETRY WorkerSymmetry
INVARIANTS
    WorkersNeverShare
    NoAudioLeak
