SPECIFICATION Spec
CONSTANTS
    Ids = {i1, i2, i3, i4}
    NO_ID = NO_ID
    AllianceIds <- TwoAlliances
    NOT_SET = NOT_SET
    Games <- AllGames
SYMMETRY Symmetry
INVARIANTS CountsRight NoCrossedInvitations TagSound SearchFindsPlayer
PROPERTY AlliesByAgreement
CHECK_DEADLOCK FALSE
