CONSTANTS
    ann = ann
    bob = bob
    cat = cat
    dan = dan
    Clients <- FourClients
    Host <- TwoHosts
    MaxQueuedPlayers = 2
    Limit = 2
    CheckDelay = 0
    AckDelay = 1
    WaitDelay = 1
    ListenTimeout = 1
    RecvTimeout = 2
    MaxAdvances = 1
SPECIFICATION Spec
INVARIANT QueueSound
PROPERTIES OffersListen FirstComesFirst QueueMoves
