CONSTANTS
    MaxPacket = 3
    AckUnit = 2
    QueueSize = 5
    MaxStream = 9
    MaxMessage = 5
    MaxFrame = 1
    NetCapacity = 2
    SetupSize = 5
    SetupFill = 4
    Copies = {FALSE, TRUE}
SPECIFICATION ConnSpec
INVARIANTS DrainHasData ClientNeverConfused Agreement
CHECK_DEADLOCK FALSE
