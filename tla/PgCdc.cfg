\* Two transactions whose changes may alternate in the WAL, one failure.
SPECIFICATION FairSpec
CONSTANTS
  Tx = {t1, t2}
  MaxLsn = 5
  MaxInFlight = 2
  MaxPeekRows = 4
  MaxFaults = 1
INVARIANTS
  SlotBehindStored
  FirstDeliveryInCommitOrder
PROPERTIES
  ImplementsQueue
  SerialChangesStored
  SlotCatchesUp
