CONSTANTS
    MaxPacket = 3
    AckUnit = 2
    QueueSize = 4
    MaxStream = 5
    MaxMessage = 3
    MaxFrame = 1
    NetCapacity = 2
SPECIFICATION FairSpec
INVARIANTS NoBadAck Positions
PROPERTIES StreamSafe StreamLive BufferEmpties
