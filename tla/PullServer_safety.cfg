SPECIFICATION Spec
CONSTANTS
    N = 2
    Clients = {c1, c2, c3}
    Packets = 2
    Msgs = 3
    NULL = NULL
    MaxPackets = 2
    MaxOthers = 1
    MaxFails = 1
SYMMETRY ClientSymmetry
INVARIANTS TypeOK OneOwnerPerSlot BuffersConserved
PROPERTIES SlotTableSpec
