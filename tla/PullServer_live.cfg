SPECIFICATION FairSpec
CONSTANTS
    N = 1
    Clients = {c1, c2}
    Packets = 2
    Msgs = 2
    NULL = NULL
    MaxPackets = 2
    MaxOthers = 1
    MaxFails = 1
PROPERTIES WorkersStop RestartCompletes
