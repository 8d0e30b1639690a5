SPECIFICATION Spec
CONSTANTS
    Count = 4
    Addr = {a1, a2, a3, a4, a5}
    NULL = NULL
    ACCEPTED = ACCEPTED
INVARIANTS Inv Conserved ReturnFindsOwner
PROPERTIES PoolSpec
