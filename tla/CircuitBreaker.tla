--------------------------- MODULE CircuitBreaker ---------------------------
(***************************************************************************)
(* The per-binding circuit breaker (src/src/breaker.rs) as its callers     *)
(* share it: every atomic operation of try_admit, record_success and       *)
(* record_failure is a step of its own, since nothing but the atomics and  *)
(* the `opened_at` mutex orders the callers.                               *)
(*                                                                         *)
(* Time is abstracted to whether the cooldown has run since an instant: a  *)
(* new timestamp is "cooling" and becomes "elapsed" later.                 *)
(***************************************************************************)
EXTENDS Integers

CONSTANTS Caller,            \* concurrent calls of one profile
          FailureThreshold   \* failure_threshold

VARIABLES
  state, consecutive_failures, opened_at, probe_in_flight,
  pc,        \* where each caller is
  probe,     \* AdmitGuard.probe of each caller
  streak,    \* the failure count each caller got from fetch_add
  healthy,   \* the database answers
  sinceOpen  \* whether the cooldown has run since the state became Open

vars == <<state, consecutive_failures, opened_at, probe_in_flight, pc, probe,
          streak, healthy, sinceOpen>>

Goto(c, label) == pc' = [pc EXCEPT ![c] = label]

Init ==
  /\ state = "Closed"
  /\ consecutive_failures = 0
  /\ opened_at = "none"
  /\ probe_in_flight = FALSE
  /\ pc = [c \in Caller |-> "idle"]
  /\ probe = [c \in Caller |-> FALSE]
  /\ streak = [c \in Caller |-> 0]
  /\ healthy = TRUE
  /\ sinceOpen = "elapsed"

----------------------------------------------------------------------------
(* try_admit                                                                *)

\* state.load(), and admission in the Closed state.
LoadState(c) ==
  /\ pc[c] = "idle"
  /\ Goto(c, CASE state = "Closed"   -> "call"
               [] state = "Open"     -> "check"
               [] state = "HalfOpen" -> "claim")
  /\ UNCHANGED <<state, consecutive_failures, opened_at, probe_in_flight,
                 probe, streak, healthy, sinceOpen>>

\* Mutant of CooldownElapsed: a missing timestamp is still cooling.
CooldownElapsedSome == opened_at = "elapsed"

\* cooldown_elapsed(): a missing timestamp counts as elapsed.
CooldownElapsed == opened_at \in {"none", "elapsed"}

CheckCooldown(c) ==
  /\ pc[c] = "check"
  /\ Goto(c, IF CooldownElapsed THEN "half_open" ELSE "idle")
  /\ UNCHANGED <<state, consecutive_failures, opened_at, probe_in_flight,
                 probe, streak, healthy, sinceOpen>>

StoreHalfOpen(c) ==
  /\ pc[c] = "half_open"
  /\ state' = "HalfOpen"
  /\ Goto(c, "take_probe")
  /\ UNCHANGED <<consecutive_failures, opened_at, probe_in_flight, probe,
                 streak, healthy, sinceOpen>>

StoreProbe(c) ==
  /\ pc[c] = "take_probe"
  /\ probe_in_flight' = TRUE
  /\ probe' = [probe EXCEPT ![c] = TRUE]
  /\ Goto(c, "call")
  /\ UNCHANGED <<state, consecutive_failures, opened_at, streak, healthy,
                 sinceOpen>>

\* compare_exchange on probe_in_flight in the HalfOpen state.
ClaimProbe(c) ==
  /\ pc[c] = "claim"
  /\ IF probe_in_flight
     THEN Goto(c, "idle") /\ UNCHANGED <<probe_in_flight, probe>>
     ELSE /\ probe_in_flight' = TRUE
          /\ probe' = [probe EXCEPT ![c] = TRUE]
          /\ Goto(c, "call")
  /\ UNCHANGED <<state, consecutive_failures, opened_at, streak, healthy,
                 sinceOpen>>

----------------------------------------------------------------------------
(* The call, and AdmitGuard::record                                         *)

\* execute_inner_impl returns: Timeout and Transport are failures.
CallReturns(c) ==
  /\ pc[c] = "call"
  /\ Goto(c, IF healthy THEN "success" ELSE "failure")
  /\ UNCHANGED <<state, consecutive_failures, opened_at, probe_in_flight,
                 probe, streak, healthy, sinceOpen>>

\* Mutant of CallDropped: no Drop impl.
CallForgotten(c) ==
  /\ pc[c] = "call"
  /\ Goto(c, "idle")
  /\ probe' = [probe EXCEPT ![c] = FALSE]
  /\ UNCHANGED <<state, consecutive_failures, opened_at, probe_in_flight,
                 streak, healthy, sinceOpen>>

\* The call's future is dropped before it returns: Drop records a success.
CallDropped(c) ==
  /\ pc[c] = "call"
  /\ Goto(c, "success")
  /\ UNCHANGED <<state, consecutive_failures, opened_at, probe_in_flight,
                 probe, streak, healthy, sinceOpen>>

\* record_success: the four stores, in order; the last three for a probe.
ResetFailures(c) ==
  /\ pc[c] = "success"
  /\ consecutive_failures' = 0
  /\ Goto(c, IF probe[c] THEN "s_release" ELSE "idle")
  /\ UNCHANGED <<state, opened_at, probe_in_flight, probe, streak, healthy,
                 sinceOpen>>

\* Either record clears the probe flag first.
ReleaseProbe(c) ==
  /\ pc[c] = "s_release" \/ (pc[c] = "failure" /\ probe[c])
  /\ probe_in_flight' = FALSE
  /\ probe' = [probe EXCEPT ![c] = FALSE]
  /\ Goto(c, IF pc[c] = "failure" THEN "f_open" ELSE "s_close")
  /\ UNCHANGED <<state, consecutive_failures, opened_at, streak, healthy,
                 sinceOpen>>

StoreClosed(c) ==
  /\ pc[c] = "s_close"
  /\ state' = "Closed"
  /\ Goto(c, "s_clear")
  /\ UNCHANGED <<consecutive_failures, opened_at, probe_in_flight, probe,
                 streak, healthy, sinceOpen>>

ClearOpenedAt(c) ==
  /\ pc[c] = "s_clear"
  /\ opened_at' = "none"
  /\ Goto(c, "idle")
  /\ UNCHANGED <<state, consecutive_failures, probe_in_flight, probe, streak,
                 healthy, sinceOpen>>

\* record_failure of a probe: back to Open.
StoreOpen(c) ==
  /\ pc[c] = "f_open"
  /\ state' = "Open"
  /\ sinceOpen' = "cooling"
  /\ Goto(c, "stamp")
  /\ UNCHANGED <<consecutive_failures, opened_at, probe_in_flight, probe,
                 streak, healthy>>

\* record_failure of any other call: count it.
CountFailure(c) ==
  /\ pc[c] = "failure"
  /\ ~probe[c]
  /\ consecutive_failures' = consecutive_failures + 1
  /\ streak' = [streak EXCEPT ![c] = consecutive_failures + 1]
  /\ Goto(c, "count")
  /\ UNCHANGED <<state, opened_at, probe_in_flight, probe, healthy, sinceOpen>>

\* Trip at the threshold, by a compare_exchange from Closed to Open.
Trip(c) ==
  /\ pc[c] = "count"
  /\ LET trips == streak[c] >= FailureThreshold /\ state = "Closed" IN
       /\ state' = IF trips THEN "Open" ELSE state
       /\ sinceOpen' = IF trips THEN "cooling" ELSE sinceOpen
       /\ Goto(c, IF trips THEN "stamp" ELSE "idle")
  /\ streak' = [streak EXCEPT ![c] = 0]
  /\ UNCHANGED <<consecutive_failures, opened_at, probe_in_flight, probe,
                 healthy>>

\* *opened_at = Some(now), after the state is Open already.
StampOpenedAt(c) ==
  /\ pc[c] = "stamp"
  /\ opened_at' = "cooling"
  /\ Goto(c, "idle")
  /\ UNCHANGED <<state, consecutive_failures, probe_in_flight, probe, streak,
                 healthy, sinceOpen>>

----------------------------------------------------------------------------
(* Environment                                                              *)

\* The cooldown runs out, for the timestamp and for the state alike.
CooldownRuns ==
  /\ opened_at = "cooling" \/ sinceOpen = "cooling"
  /\ opened_at' = IF opened_at = "cooling" THEN "elapsed" ELSE opened_at
  /\ sinceOpen' = "elapsed"
  /\ UNCHANGED <<state, consecutive_failures, probe_in_flight, pc, probe,
                 streak, healthy>>

DatabaseChanges ==
  /\ healthy' = ~healthy
  /\ UNCHANGED <<state, consecutive_failures, opened_at, probe_in_flight, pc,
                 probe, streak, sinceOpen>>

Step(c) ==
  \/ LoadState(c)
  \/ CheckCooldown(c)
  \/ StoreHalfOpen(c)
  \/ StoreProbe(c)
  \/ ClaimProbe(c)
  \/ CallReturns(c)
  \/ CallDropped(c)
  \/ ResetFailures(c)
  \/ ReleaseProbe(c)
  \/ StoreClosed(c)
  \/ ClearOpenedAt(c)
  \/ StoreOpen(c)
  \/ CountFailure(c)
  \/ Trip(c)
  \/ StampOpenedAt(c)

Next == (\E c \in Caller : Step(c)) \/ CooldownRuns \/ DatabaseChanges

Spec == Init /\ [][Next]_vars

\* Calls keep coming and return, and time passes.
Fairness == (\A c \in Caller : WF_vars(Step(c))) /\ WF_vars(CooldownRuns)

FairSpec == Spec /\ Fairness

----------------------------------------------------------------------------
TypeOK ==
  /\ state \in {"Closed", "Open", "HalfOpen"}
  /\ consecutive_failures \in Nat
  /\ opened_at \in {"none", "cooling", "elapsed"}
  /\ probe_in_flight \in BOOLEAN
  /\ pc \in [Caller -> {"idle", "call", "check", "claim", "half_open",
                        "take_probe", "success", "s_release", "s_close",
                        "s_clear", "failure", "f_open", "count", "stamp"}]
  /\ probe \in [Caller -> BOOLEAN]
  /\ streak \in [Caller -> Nat]
  /\ healthy \in BOOLEAN
  /\ sinceOpen \in {"cooling", "elapsed"}

\* The probe slot is never leaked: while the flag is set some caller holds a
\* probe whose record or Drop will clear it (Drop: "so an accidental panic
\* path doesn't leave the probe slot pinned").
ProbeSlotHeld ==
  probe_in_flight =>
    \E c \in Caller :
      probe[c] /\ pc[c] \in {"call", "success", "s_release", "failure"}

\* Once the database stays healthy the breaker closes for good, whatever late
\* failures, stale successes and timestamps the callers left behind.
RecoversWhenHealthy == <>[]healthy => <>[](state = "Closed")

Probing(c) == pc[c] = "call" /\ probe[c]

\* One probe at a time (module doc: "One probe in flight at a time - excess
\* callers short-circuit as if the breaker were still Open").
OneProbeAtATime == \A c, d \in Caller : Probing(c) /\ Probing(d) => c = d

\* An Open breaker admits nothing before its cooldown has run (try_admit:
\* "Open and still cooling -> reject").
CooldownHonoured ==
  [][state = "Open" /\ state' = "HalfOpen" => sinceOpen = "elapsed"]_vars
=============================================================================
