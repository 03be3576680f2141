SPECIFICATION WSpec
CONSTANTS
    ByteMod = 4
    Addr <- MCAddr
    DwTicks = 1
    FreshTicks = 0
    AmbttMod = 4
    RfUpdateMinDw = 120
    MpUpdateMinDw = 240
    MasterPreference = 2
    ClusterId = {"c1"}
    PeerTimeout = 1
    Self = 2
    Neighbours <- MCNeighbours
    Beacons <- MCBeacons
    Signals = {"close"}
    Settings = {0, 2}
    Boot = 1
    MaxTime = 3
INVARIANT QuietAnchorExpires
