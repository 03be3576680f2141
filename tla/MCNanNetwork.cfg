SPECIFICATION Spec
CONSTANTS
    ByteMod = 4
    Addr <- MCDevice
    DwTicks = 4
    FreshTicks = 0
    AmbttMod = 100
    RfUpdateMinDw = 1
    MpUpdateMinDw = 2
    MasterPreference = 2
    ClusterId = {"c1", "c2"}
    PeerTimeout = 8
    Device <- MCDevice
    Start <- MCStart
    InitialCluster <- MCInitialCluster
    Preferences = {0}
    Settings = {2}
    RandomFactors = {1}
    Signal = "close"
    MayLose = TRUE
    MayRestart = {1}
    MaxDiscovery = 1
    MaxQueue = 1
    Boot = 13
    MaxTime = 17
INVARIANT TypeOK
INVARIANT AnchorsAreIssued
INVARIANT PeersAnnounceNoLowerAnchor
INVARIANT PeersHadTheirRanks
PROPERTY ImplementsMembership
PROPERTY OneTimePerCluster
CHECK_DEADLOCK FALSE
