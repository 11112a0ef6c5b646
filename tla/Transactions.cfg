\* Three groups of two statements on two connections.
SPECIFICATION TransactionsSpec
CONSTANTS
    Groups = {g1, g2, g3}
    Size = 2
    PoolSize = 2
    Calls = {}
    Untracked = {}
    Conns = {}
    None = None
INVARIANTS
    AllOrNothing
PROPERTIES
    EveryGroupAnswered
    AtomicSpec
CHECK_DEADLOCK FALSE
