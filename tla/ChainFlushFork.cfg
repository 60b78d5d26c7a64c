SPECIFICATION Spec
CONSTANTS
    Block = {"g", "p", "a1", "a2", "b1", "b2"}
    Genesis = "g"
    NoBlock = "none"
    Parent <- ForkParent
    Vtx <- ForkVtx
    Vin <- ForkVin
    NOut <- ForkNOut
    Maturity = 1
    CheckBlocks = 2
    FirstRun = FALSE
INVARIANTS
    TypeOK
    UtxoCorrect
    DbConsistent
    TornDbBetweenHeads
    DiskOrdering
    NeverStuck
    TipDisconnectable
