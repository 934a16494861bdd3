SPECIFICATION Spec
CONSTANTS
    Ids = {i1, i2, i3}
    NO_ID = NO_ID
    AllianceIds <- TwoAlliances
    NOT_SET = NOT_SET
    Games <- AllGames
SYMMETRY Symmetry
INVARIANT StaysUp
CHECK_DEADLOCK FALSE
