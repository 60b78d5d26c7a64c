SPECIFICATION Spec
CONSTANTS
    Outpoints = {o1, o2}
    Coins = {c1, c2, cData}
    Unspendable = {cData}
    Spent = Spent
    Blocks = {b1, b2}
    NullHash = NullHash
INVARIANTS
    TypeOK
    FlagsSound
    NoLogicError
PROPERTIES
    CallsTakeEffect
    ImplementsUtxoSet
