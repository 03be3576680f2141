SPECIFICATION Spec
CONSTANTS
    ByteMod = 4
    Addr <- MCAddr
    DwTicks = 1
    FreshTicks = 0
    AmbttMod = 4
    RfUpdateMinDw = 0
    MpUpdateMinDw = 1
    MasterPreference = 2
    ClusterId = {"c1", "c2"}
    PeerTimeout = 1
    Self = 2
    Neighbours <- MCNeighbours
    Beacons <- MCBeacons
    Signals = {"close"}
    Settings = {0, 2}
    Boot = 1
    MaxTime = 2
INVARIANT TypeOK
INVARIANT RankReflectsSettings
INVARIANT AnchorNotBelowSelf
PROPERTY AnchorFallsOnlyForCause
PROPERTY TimeJumpsWithAnchor
