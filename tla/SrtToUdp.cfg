SPECIFICATION FairSpec
CONSTANTS
    Msgs = 5
    Packets = 2
    Videos = 2
    Audios = 1
    MaxPackets = 4
    MaxFails = 2
INVARIANTS TypeOK BuffersConserved VideoBuffersLive
PROPERTIES NoStaleOutput RestartCompletes
CHECK_DEADLOCK FALSE
