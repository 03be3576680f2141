CONSTANTS
    Self = Self
    Peer = Peer
    Broadcast = Broadcast
    Cluster = Cluster
    Name = Name
    Unread = Unread
    Info = Info
    Fcs = Fcs
    InfoLimit = 5
    RadiotapLength = 2
    Messages <- MCMessages
    Garbage <- MCGarbage
SPECIFICATION Spec
INVARIANT TypeOK
INVARIANT HandedOnAsSent
INVARIANT WholeFramesAreRead
INVARIANT NoneCutWithinContents
