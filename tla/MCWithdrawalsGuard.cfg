SPECIFICATION Spec
CONSTANTS
    alice = alice
    Users = {alice}
    Opening <- MCOpening
    Rows = {p1}
    Owner <- MCOwner
    Workers = {w1, w2}
    Mortal = {w1, w2}
    Agents = {g1, g2}
    NoAgent = NoAgent
    Amounts = {1, 2}
    Routes = {"trc20", "momo"}
    Solo = FALSE
    MomoChannels = {"flutterwave", "hand"}
    Handlers = {"approve", "request", "ipn", "agents", "complete", "crash", "lostReply", "refund"}
    MaxSends = 2
SYMMETRY MCSymmetry
CHECK_DEADLOCK FALSE
INVARIANTS
    StatusTellsMoney
    SettledOnce
    OneAgentPerPayout
PROPERTIES
    SettledIsFinal
