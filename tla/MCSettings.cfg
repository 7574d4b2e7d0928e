SPECIFICATION WindowSpec
CONSTANTS
    Unset = Unset
    Malformed = Malformed
    MaxInt64 = 7
    DayMinutes = 6
    DefaultAudioBytes = 3
    MinuteUnits = 3
    ReadBlock = 2
    RetryDelay = 1
    Overhead = 2
    Environments <- MCEnvironments
    Sizes <- MCSizes
INVARIANTS
    WindowTypeOK
    AcceptedSettings
    OpenBetweenBounds
    NextOpenIsExact
    OpeningNoticed
    UploadLimitIsExact
    DownloadLimitIsExact
PROPERTY
    StartsNearWindow
