SPECIFICATION Spec
CONSTANTS
    Block = {"g", "a1", "a2", "a3"}
    Genesis = "g"
    NoBlock = "none"
    Parent <- MCParent
    Thread = {"t1", "t2"}
    Work <- MCWork
    Addr <- MCAddr
    BadContext = {}
    BadScripts = {}
    Manual = {}
    Precious = {}
    MinBlocksAhead = 2
    MinSequenceId <- MCMinSequenceId
    Overlap = TRUE
    AnyReconsider = FALSE
INVARIANTS
    BestChainActivated
