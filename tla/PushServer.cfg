SPECIFICATION Spec
CONSTANTS
    Packets = 4
    Msgs = 3
    NULL = NULL
    MaxPackets = 5
    MaxOthers = 1
INVARIANT Inv
PROPERTIES NoStaleOutput RestartCompletes
CHECK_DEADLOCK FALSE
