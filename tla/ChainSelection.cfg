SPECIFICATION FairSpec
CONSTANTS
    Block = {"g", "a1", "a2", "a3", "b1", "b2", "b3", "c2"}
    Genesis = "g"
    NoBlock = "none"
    Parent <- MCParent
    Thread = {"t1", "t2"}
    Work <- MCWork
    Addr <- MCAddr
    BadContext = {"c2"}
    BadScripts = {"a1"}
    Manual = {"b2"}
    Precious = {"a1"}
    MinBlocksAhead = 2
    MinSequenceId <- MCMinSequenceId
    Overlap = FALSE
    AnyReconsider = FALSE
INVARIANTS
    TypeOK
    NoAssertFails
    ActiveChainValid
    LinksRight
    CandidatesRight
    BestChainActivated
PROPERTIES
    ActivationEnds
