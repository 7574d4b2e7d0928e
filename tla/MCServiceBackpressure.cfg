SPECIFICATION HealthSpec
CONSTANTS
    Workers = {w1}
    Claimer = claimer
    Handlers = {h1, h2}
    JobIds = {j1, j2, j3}
    QueueSize = 1
    ClaimCount = 1
    MaxRetries = 0
    Requests <- AllRequests
    NoJob = NoJob
    NoOne = NoOne
    Events <- UploadEvents
SYMMETRY Symmetry
INVARIANTS
    QueueBound
    AudioBound
    HealthAccountsForAudio
