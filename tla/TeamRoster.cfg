SPECIFICATION Spec
CONSTANTS
    Players = {p1, p2, p3, p4, p5}
    NoId = NoId
    NumTeams = 3
    Options <- AllOptions
SYMMETRY Symmetry
INVARIANTS KeepsRunning MembersCounted ActiveHaveBase QueueSound
PROPERTY MovedByWill
CHECK_DEADLOCK FALSE
