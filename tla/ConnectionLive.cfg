CONSTANTS
    MaxPacket = 1
    AckUnit = 1
    QueueSize = 4
    MaxStream = 6
    MaxMessage = 3
    MaxFrame = 0
    NetCapacity = 2
    SetupSize = 3
    SetupFill = 3
    Copies = {FALSE}
SPECIFICATION LoginSpec
PROPERTY LoginCompletes
