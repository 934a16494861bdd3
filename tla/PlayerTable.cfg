SPECIFICATION Spec
CONSTANTS
    Ids = {i1, i2, i3, i4, i5}
    NoId = NoId
    NumStructs = 6
    MaxTanks = 3
    Options <- AllOptions
SYMMETRY Symmetry
INVARIANTS TypeOK TableSound CountersRight OwnersPresent WalkMeetsAll
CHECK_DEADLOCK FALSE
