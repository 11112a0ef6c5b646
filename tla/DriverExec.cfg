\* Two calls that may be cancelled and one without an ExecCtx, two connections.
SPECIFICATION ExecSpec
CONSTANTS
    Calls = {c1, c2, c3}
    Untracked = {c3}
    Conns = {k1, k2}
    None = None
    Groups = {}
    Size = 1
    PoolSize = 1
INVARIANTS
    ConnectionsAccounted
    OwnSession
    OnlyNonceInterrupted
PROPERTIES
    EveryCancelLands
CHECK_DEADLOCK FALSE
