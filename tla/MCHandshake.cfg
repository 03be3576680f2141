SPECIFICATION FairSpec
CONSTANTS
    Device = {p, s}
    NAN_NETWORK_ID = NAN_NETWORK_ID
    Name = {"print"}
    ServiceId = {"print"}
    IdOf <- MCIdOf
    StartsWith <- MCStartsWith
    IdMod = 256
    BufferSize = 1
    Offers <- MCOffer
    Wants <- MCEitherWant
    MayLose = FALSE
    MaxServices = 2
    MaxQueue = 2
PROPERTY Discovered
