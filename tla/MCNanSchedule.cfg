CONSTANTS
    UsecPerTu = 2
    DwLengthTu = 1
    DwIntervalTu = 6
    BeaconIntervalTu = 2
    AverageSize = 2
    IntRange = 64
    Boot = 1
    Latency = 1
    MaxSend = 2
    Offsets <- MCOffsets
    MaxBeacons = 2
    MaxTime = 33
SPECIFICATION MCSpec
INVARIANT TypeOK
INVARIANT WindowsResume
INVARIANT MasterBeacons
INVARIANT CorrectionWithinErrors
PROPERTY OpensEveryWindowOnce
PROPERTY EndsBeforeNext
PROPERTY TimersMoveOn
