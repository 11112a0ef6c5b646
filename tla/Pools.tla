------------------------------- MODULE Pools -------------------------------
(* What stands between a binding's SQL and a connection: the two scans of   *)
(* the SQL (Placeholders), the circuit breaker of the binding               *)
(* (CircuitBreaker) and the registry of per-credential pools                *)
(* (PoolRegistry).  The three share nothing.                                *)
EXTENDS PoolRegistry

CONSTANTS
  FailureThreshold,   \* of CircuitBreaker
  MaxLen              \* of Placeholders

ASSUME BreakerAssumption == FailureThreshold \in Nat \ {0}
ASSUME TextAssumption == MaxLen \in Nat

VARIABLES
  state, consecutive_failures, opened_at, probe_in_flight, bpc, probe, streak,
  healthy, sinceOpen,
  sql, numbered, scan, i, in_single, in_double, last_semi, out, order

bvars == <<state, consecutive_failures, opened_at, probe_in_flight, bpc, probe,
           streak, healthy, sinceOpen>>
svars == <<sql, numbered, scan, i, in_single, in_double, last_semi, out, order>>

Breaker == INSTANCE CircuitBreaker WITH pc <- bpc
Text == INSTANCE Placeholders

TextOver ==
  /\ sql = << >> /\ numbered = FALSE /\ scan = "done" /\ i = 1
  /\ in_single = FALSE /\ in_double = FALSE /\ last_semi = 0
  /\ out = << >> /\ order = << >>

----------------------------------------------------------------------------
\* The scans of the SQL find one statement and exactly its placeholders.
OneStatement == Text!OneStatement
OnlyPlaceholdersRewritten == Text!OnlyPlaceholdersRewritten

\* The probe slot of a half-open breaker is never leaked.
ProbeSlotHeld == Breaker!ProbeSlotHeld

\* A breaker closes again once the database stays healthy.
RecoversWhenHealthy == Breaker!RecoversWhenHealthy
============================================================================
