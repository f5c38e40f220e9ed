SPECIFICATION LibSpec
CONSTANTS
    VTime = 2
    MaxClock = 3
    Offers = {"none", "md5", "MD5-sess", "SHA-512-256-sess", "AKAv1"}
    Qops <- QopLists
    MaxTime = 3
    MaxRecords = 4
    WallOffset = 50
    RtpParams <- MediaParams
    Families <- Lookups
    Chunks <- Sounds
    Packets = {2}
    OutChunk = 3
    OtherUsers = 1
    MaxUpdates = 2
    MaxChunks = 2
    MaxPackets = 3
    MaxShutdowns = 2
INVARIANTS RegistrationSound BillingSound MessagesSound DescriptionsSound EndpointSound
PROPERTIES KeepsGoing
CHECK_DEADLOCK FALSE
