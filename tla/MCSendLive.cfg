SPECIFICATION FairSpec
CONSTANTS
    c1 = c1
    k1 = k1
    k2 = k2
    Conv = {c1}
    Key = {k1, k2}
    ConvOf <- OneConversation
    Req = {r1, r2}
    MaxSendRetries = 2
    MaxFaults = 3
    AofLag = TRUE
PROPERTY CallsEnd
