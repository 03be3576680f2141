SPECIFICATION Spec
CONSTANTS
    Device = {p, s}
    NAN_NETWORK_ID = NAN_NETWORK_ID
    Name = {"print", "printer"}
    ServiceId = {"print", "printer"}
    IdOf <- MCIdOf
    StartsWith <- MCStartsWith
    IdMod = 256
    BufferSize = 16
    Offers <- MCOffer
    Wants <- MCWant
    MayLose = FALSE
    MaxServices = 2
    MaxQueue = 3
INVARIANT CalledForOwnService
