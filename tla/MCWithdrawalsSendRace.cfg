SPECIFICATION Spec
CONSTANTS
    alice = alice
    Users = {alice}
    Opening <- MCOpening
    Rows = {p1}
    Owner <- MCOwner
    Workers = {w1, w2}
    Mortal = {w1, w2}
    Agents = {}
    NoAgent = NoAgent
    Amounts = {1, 2}
    Routes = {"bep20"}
    Solo = TRUE
    MomoChannels = {}
    Handlers = {"flush"}
    MaxSends = 2
SYMMETRY MCSymmetry
CHECK_DEADLOCK FALSE
INVARIANTS
    NeverSentTwice
