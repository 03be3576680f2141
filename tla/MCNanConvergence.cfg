SPECIFICATION CSpec
CONSTANTS
    ByteMod = 4
    Addr <- MCDevice
    DwTicks = 4
    FreshTicks = 0
    AmbttMod = 100
    RfUpdateMinDw = 1
    MpUpdateMinDw = 2
    MasterPreference = 2
    ClusterId = {"c1", "c2"}
    PeerTimeout = 8
    Device <- MCDevice
    Start <- MCStart
    InitialCluster <- MCInitialCluster
    Preferences = {0, 2}
    Settings = {}
    RandomFactors = {0, 1}
    Signal = "close"
    MayLose = FALSE
    MayRestart = {}
    MaxDiscovery = 1
    MaxQueue = 1
    Boot = 13
    MaxTime = 41
 
 
PROPERTY OneClusterIsKept
CHECK_DEADLOCK FALSE
