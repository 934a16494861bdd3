CONSTANTS
    Targets <- OneTarget
    Cannons <- OneCannon
    Polygons <- TwoPolygons
    Traffics <- AllTraffics
    MaxAge = 2
    MaxPacket = 1
    MaxAcks = 1
    WindowSize = 3
    TALK_RETRY = 2
    KeepAlive = 2
    MaxTalkAcks = 1
SPECIFICATION Spec
INVARIANTS KnownIsTrue AcksTrue
PROPERTIES ClientCatchesUp InputArrives
