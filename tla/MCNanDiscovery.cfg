SPECIFICATION Spec
CONSTANTS
    Device = {p, s}
    NAN_NETWORK_ID = NAN_NETWORK_ID
    Name = {"print", "Print", "printer"}
    ServiceId = {"print", "printer"}
    IdOf <- MCIdOf
    StartsWith <- MCStartsWith
    IdMod = 3
    BufferSize = 1
    Offers <- MCOffers
    Wants <- MCWants
    MayLose = TRUE
    MaxServices = 2
    MaxQueue = 2
INVARIANT TypeOK
INVARIANT IteratorIsLive
INVARIANT OneListenerPerService
INVARIANT AnnouncedAsAllowed
INVARIANT FollowUpsAreAddressed
PROPERTY EndsOnlyWhenAddressed
SYMMETRY MCSymmetry
