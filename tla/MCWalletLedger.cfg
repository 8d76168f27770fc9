SPECIFICATION LedgerSpec
CONSTANTS
    Users = {alice, bob}
    Opening <- MCOpening
    Calls = {c1, c2, c3, c4}
    CallAmounts = {1, 2, 3}
    ReinvestFeePercent = 30
    Serialised = {bob}
SYMMETRY CallSymmetry
CHECK_DEADLOCK FALSE
INVARIANTS
    LedgerTypeOK
    BooksBalance
    SerialisedBooksExact
