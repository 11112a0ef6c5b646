\* Two transactions whose changes alternate in the WAL.
SPECIFICATION FairSpec
CONSTANTS
  Tx = {t1, t2}
  MaxLsn = 5
  MaxInFlight = 2
  MaxPeekRows = 8
  MaxFaults = 0
PROPERTY
  EveryChangeStored
