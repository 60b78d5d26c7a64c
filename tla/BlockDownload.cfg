SPECIFICATION FairSpec
CHECK_DEADLOCK FALSE
CONSTANTS
    Block = {"g", "a1", "a2", "x3"}
    Genesis = "g"
    NoBlock = NoBlock
    Parent <- MCParent
    Peer = {"p", "q"}
    NoPeer = NoPeer
    Has <- MCHas
    Announces <- MCAnnounces
    Pushes <- MCPushes
    Relays <- MCRelays
    Garbles <- MCGarbles
    Honest = {"p"}
    Prompt = {"p"}
    Preferred = {"p"}
    Outbound = {"p", "q"}
    Bad = {"x3"}
    Submitted = {"a2"}
    Window = 1
    MaxInTransit = 1
    MinBlocksToKeep = 2
INVARIANTS InFlightRight
PROPERTIES  BlocksArrive
