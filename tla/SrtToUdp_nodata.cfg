SPECIFICATION FairSpec
CONSTANTS
    Msgs = 2
    Packets = 2
    Videos = 1
    Audios = 1
    MaxPackets = 1
    MaxFails = 1
PROPERTIES NoDataReported
CHECK_DEADLOCK FALSE
