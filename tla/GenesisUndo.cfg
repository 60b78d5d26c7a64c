SPECIFICATION Spec
CONSTANTS
    Block = {"g", "p", "q"}
    Genesis = "g"
    NoBlock = "none"
    Parent <- GenesisParent
    Vtx <- GenesisVtx
    Vin <- GenesisVin
    NOut <- GenesisNOut
    Maturity = 2
    CheckBlocks = 2
    FirstRun = FALSE
INVARIANTS
    TipDisconnectable
