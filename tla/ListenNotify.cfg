\* Two watches of one channel, one of them filtered; two notifications.
\* Or a polled table that changes three times and is empty once.
SPECIFICATION MCSpec
CONSTANTS
    w1 = w1
    w2 = w2
    None = None
    Watches = {w1, w2}
    Filtered <- MCFiltered
    Payloads <- MCPayloads
    Buffer = 1
    MaxNotify = 2
    MaxOutage = 1
    MaxChanges = 3
    Empty = {2}
INVARIANTS
    OneConnection
    NothingPassedOver
PROPERTIES
    NotificationsReported
    ConsumerCatchesUp
CHECK_DEADLOCK FALSE
