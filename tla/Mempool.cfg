SPECIFICATION Spec
CONSTANTS
    Block = {"g", "a1", "a2", "b1", "b2"}
    Genesis = "g"
    NoBlock = NoBlock
    Parent <- MCParent
    Vtx <- MCVtx
    Tx = {"G", "k", "l", "m", "n", "A", "B", "C", "D", "E", "F", "H"}
    NoTx = NoTx
    Coinbase = {"G", "k", "l", "m", "n"}
    Vin <- MCVin
    NOut <- MCNOut
    Fee <- MCFee
    Size <- MCSize
    LockHeight <- MCLockHeight
    NonStandard = {"F"}
    Replaceable = {"A", "B"}
    Maturity = 2
    AncestorLimit = 3
    AncestorSizeLimit = 6
    DescendantLimit = 3
    DescendantSizeLimit = 6
    MaxReplaced = 4
    IncrementalFee = 1
    MaxSize = 5
    MaxDisconnected = 5
    Deltas = {0, 2}
INVARIANTS TotalsFollowLinks IndexesRight InputsAvailable
PROPERTIES ReplacementPays NothingLost
