\* Two concurrent calls, more users than pools; or two callers of a breaker
\* that trips at two failures; or a text of up to four bytes.
SPECIFICATION MCSpec
CONSTANTS
  Caller = {c1, c2}
  User = {u1, u2}
  PoolMaxEntries = 1
  IdleEviction = 1
  MaxVersion = 2
  MaxEvictions = 1
  FailureThreshold = 2
  MaxLen = 4
INVARIANTS
  PoolMatchesCaller
  ProbeSlotHeld
  OneStatement
  OnlyPlaceholdersRewritten
PROPERTIES
  RevokedPoolsGo
  RecoversWhenHealthy
CHECK_DEADLOCK FALSE
