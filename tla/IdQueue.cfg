CONSTANTS
    NumIds = 4
    Modulus = 8
SPECIFICATION Spec
INVARIANT RingHoldsFreeIds
PROPERTY PoolSpec
CHECK_DEADLOCK FALSE
