SPECIFICATION Spec
CONSTANTS
    h1 = h1
    h2 = h2
    r1 = r1
    r2 = r2
    r3 = r3
    b1 = b1
    b2 = b2
    e1 = e1
    Humans = {h1, h2}
    Robots = {r1, r2, r3}
    Treasures = {b1, b2, e1}
    NO_ID = NO_ID
    NO_BALL = NO_BALL
    Team <- TeamOf
    Servers <- AllServers
SYMMETRY Symmetry
INVARIANTS TypeOK BallsSound NoLossUncounted
PROPERTIES OutStaysOut TimeRunsDown NobodyLeftOut
