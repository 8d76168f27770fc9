SPECIFICATION Spec
CONSTANTS
    ann = ann  bob = bob  t1 = t1  t2 = t2  o1 = o1  x1 = x1
    Users = {ann, bob}
    Opening <- MCOpening
    Codes = {t1, t2, o1}
    TransferCodes = {t1, t2}
    From <- MCFrom
    To <- MCTo
    CodeAmount <- MCAmount
    MaxAttempts = 1
    PendingGross <- MCPending
    RejectedGross <- MCRejected
    ReleaseAmounts = {2}
    Accounts = {x1}
    Source <- MCSource
    Destination <- MCDestination
    Workers = {w1, w2}
    Mortal = {w1, w2}
    Rows = {t1, t2, o1, ann, bob, "reserve"}
    MaxStarts = 5
SYMMETRY MCSymmetry
CHECK_DEADLOCK FALSE
INVARIANTS
    TypeOK
    MoneyConserved
    AccountsFollow
PROPERTIES
    PromiseKept
