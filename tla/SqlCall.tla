------------------------------- MODULE SqlCall -------------------------------
(***************************************************************************)
(* One call of execute from the profile lookup to its metrics: the cache   *)
(* hit, the attempts with their heartbeat tasks and timeout, the single    *)
(* retry of a stale statement, shaping, billing and recording              *)
(* (execute, execute_inner, execute_inner_impl in src/src/lib.rs,          *)
(* src/src/cost.rs, src/src/errors.rs), against a database that may apply  *)
(* a statement after the plugin has given up on it.                        *)
(*                                                                         *)
(* The binding has a `cost:` block and, when `beating`, a heartbeat.  The  *)
(* drain check, the pool and the cache key are in Lifecycle, PoolRegistry  *)
(* and ResponseCache.                                                      *)
(***************************************************************************)
EXTENDS Integers

CONSTANTS MaxRows,  \* max_rows of the binding
          MaxBatch  \* bound: rows a statement returns

ASSUME SqlCallAssumption ==
  MaxRows \in Nat \ {0} /\ MaxBatch \in Nat /\ MaxBatch >= MaxRows

\* Row modes, by the branch of execute_inner_impl they take.
Mode == {"rows", "affected", "result_sets"}
Unbilled == -1

VARIABLES
  pc,
  mode, beating,  \* the binding's row mode, and whether it has a heartbeat
  procedure,      \* the statement is the CALL of a procedure
  profile,        \* the binding is in the map
  attempt,        \* the retry loop's counter
  statement,      \* at the database: "none", "running", "applied"
  applied,        \* times the database applied the statement, or part of it
  rows,           \* rows of the batch
  served,         \* rows of the response
  beats,          \* heartbeat tasks running
  charged,        \* rows emit_charge was given, or Unbilled
  refunds,        \* calls of emit_refund
  outcome,        \* "pending", "hit", "ok", "error" or "dropped"
  recorded        \* metrics and audit have been emitted

vars == <<pc, mode, beating, procedure, profile, attempt, statement, applied, rows, served,
          beats, charged, refunds, outcome, recorded>>
config == <<mode, beating, procedure>>

Finish(o) == pc' = "recording" /\ outcome' = o
Refund == refunds' = refunds + 1

----------------------------------------------------------------------------
(* Before the database                                                      *)

\* shutdown clears the map under the calls it did not wait for.
ShutdownClears ==
  /\ profile
  /\ profile' = FALSE
  /\ UNCHANGED <<pc, config, attempt, statement, applied, rows, served, beats,
                 charged, refunds, outcome, recorded>>

Lookup ==
  /\ pc = "new"
  /\ IF profile THEN pc' = "preparing" /\ UNCHANGED outcome ELSE Finish("error")
  /\ UNCHANGED <<config, profile, attempt, statement, applied, rows, served,
                 beats, charged, refunds, recorded>>

\* The breaker is open, the credentials do not resolve, or the arguments,
\* the computed parameters or the cursor are refused: all before any refund.
Refuse ==
  /\ pc = "preparing"
  /\ Finish("error")
  /\ UNCHANGED <<config, profile, attempt, statement, applied, rows, served,
                 beats, charged, refunds, recorded>>

\* A response from the cache is free.  A procedure is never cached.
CacheHit ==
  /\ pc = "preparing"
  /\ mode = "rows" /\ ~procedure
  /\ Finish("hit")
  /\ UNCHANGED <<config, profile, attempt, statement, applied, rows, served,
                 beats, charged, refunds, recorded>>

CacheMiss ==
  /\ pc = "preparing"
  /\ pc' = "sending"
  /\ attempt' = 1
  /\ UNCHANGED <<config, profile, statement, applied, rows, served, beats,
                 charged, refunds, outcome, recorded>>

----------------------------------------------------------------------------
(* The attempts                                                             *)

\* with_heartbeat spawns its task; the statement goes to the driver.
Send ==
  /\ pc = "sending"
  /\ pc' = "executing"
  /\ statement' = "running"
  /\ beats' = IF beating THEN beats + 1 ELSE beats
  /\ UNCHANGED <<config, profile, attempt, applied, rows, served, charged,
                 refunds, outcome, recorded>>

\* The database commits the statement, whether or not anyone still waits.
DatabaseApplies ==
  /\ statement = "running"
  /\ statement' = "applied"
  /\ applied' = applied + 1
  /\ UNCHANGED <<pc, config, profile, attempt, rows, served, beats, charged,
                 refunds, outcome, recorded>>

\* The statement's future has resolved: the heartbeat task is aborted.
StopBeat == beats' = IF beating THEN beats - 1 ELSE beats

Succeed ==
  /\ pc = "executing"
  /\ statement = "applied"
  /\ StopBeat
  /\ rows' \in 0..MaxBatch
  /\ pc' = "shaping"
  /\ UNCHANGED <<config, profile, attempt, statement, applied, served, charged,
                 refunds, outcome, recorded>>

\* A statement that ends in an error has no effect; what a procedure did before
\* it may stay, when it commits by itself or its engine is MySQL.
EndsInError ==
  /\ statement = "running"
  /\ statement' = "none"
  /\ applied' \in IF procedure THEN {applied, applied + 1} ELSE {applied}

\* The driver's error: a refused statement, a row that does not decode, or a
\* connection lost with the statement still running.  A refund.
Fail ==
  /\ pc = "executing"
  /\ EndsInError \/ UNCHANGED <<statement, applied>>
  /\ StopBeat
  /\ Refund
  /\ Finish("error")
  /\ UNCHANGED <<config, profile, attempt, rows, served, charged, recorded>>

\* for attempt in 0..2u8; execute_multi_result is never retried.
MayRetry == mode # "result_sets" /\ attempt = 1

\* is_stale_statement_error: the server's error carries one of the four codes
\* of a prepared statement that is out of date.  It is sent once more.
FailStale ==
  /\ pc = "executing"
  /\ MayRetry
  /\ EndsInError
  /\ attempt' = 2
  /\ StopBeat
  /\ pc' = "sending"
  /\ UNCHANGED <<config, profile, rows, served, charged, refunds, outcome, recorded>>

\* Mutant of TimeOut: a timeout is retried like a stale statement.
TimeOutRetried ==
  /\ pc = "executing"
  /\ StopBeat
  /\ IF MayRetry
     THEN pc' = "sending" /\ attempt' = 2 /\ UNCHANGED <<outcome, refunds>>
     ELSE Refund /\ Finish("error") /\ UNCHANGED attempt
  /\ UNCHANGED <<config, profile, statement, applied, rows, served, charged,
                 recorded>>

\* The timeout drops the future in the middle of with_heartbeat: nobody
\* aborts the task, and the statement may still be running.
TimeOut ==
  /\ pc = "executing"
  /\ Refund
  /\ Finish("error")
  /\ UNCHANGED <<config, profile, attempt, statement, applied, rows, served,
                 beats, charged, recorded>>

----------------------------------------------------------------------------
(* Shaping, billing and recording                                           *)

\* shape_response and the truncation of result sets: max_rows at most.
Shape ==
  /\ pc = "shaping"
  /\ served' = IF mode # "affected" /\ rows > MaxRows THEN MaxRows ELSE rows
  /\ pc' = "billing"
  /\ UNCHANGED <<config, profile, attempt, statement, applied, rows, beats,
                 charged, refunds, outcome, recorded>>

\* A resource row without its columns: shape_response fails.
ShapeFails ==
  /\ pc = "shaping"
  /\ mode = "rows"
  /\ rows > 0
  /\ Finish("error")
  /\ UNCHANGED <<config, profile, attempt, statement, applied, rows, served,
                 beats, charged, refunds, recorded>>

\* Mutant of Charge: billed first, refunded when the charge is refused.
ChargeAnyway ==
  /\ pc = "billing"
  /\ charged' = rows
  /\ \/ pc' = "storing" /\ UNCHANGED <<outcome, refunds>>
     \/ Finish("error") /\ Refund
  /\ UNCHANGED <<config, profile, attempt, statement, applied, rows, served,
                 beats, recorded>>

\* try_emit_charge, given the rows of the batch.
Charge ==
  /\ pc = "billing"
  /\ charged' = rows
  /\ pc' = "storing"
  /\ UNCHANGED <<config, profile, attempt, statement, applied, rows, served,
                 beats, refunds, outcome, recorded>>

\* cache_put, whose failure is ignored, and the response.
CachePut ==
  /\ pc = "storing"
  /\ Finish("ok")
  /\ UNCHANGED <<config, profile, attempt, statement, applied, rows, served,
                 beats, charged, refunds, recorded>>

\* The charge is over max_per_call or not a number: the call is refused.
ChargeRefused ==
  /\ pc = "billing"
  /\ Finish("error")
  /\ UNCHANGED <<config, profile, attempt, statement, applied, rows, served,
                 beats, charged, refunds, recorded>>

\* execute emits metrics and audit for a binding that is still registered.
Record ==
  /\ pc = "recording"
  /\ pc' = "done"
  /\ recorded' = profile
  /\ UNCHANGED <<config, profile, attempt, statement, applied, rows, served,
                 beats, charged, refunds, outcome>>

\* The caller goes away: the future is dropped where it waits, for the
\* credentials or the cache, the database, or the cache again.
Drop ==
  /\ pc \in {"preparing", "executing", "storing"}
  /\ pc' = "done"
  /\ outcome' = "dropped"
  /\ UNCHANGED <<config, profile, attempt, statement, applied, rows, served,
                 beats, charged, refunds, recorded>>

----------------------------------------------------------------------------
Init ==
  /\ pc = "new"
  /\ mode \in Mode
  /\ beating \in BOOLEAN
  /\ procedure \in BOOLEAN /\ (mode = "result_sets" => procedure)
  /\ profile \in BOOLEAN
  /\ attempt = 0
  /\ statement = "none"
  /\ applied = 0
  /\ rows = 0
  /\ served = 0
  /\ beats = 0
  /\ charged = Unbilled
  /\ refunds = 0
  /\ outcome = "pending"
  /\ recorded = FALSE

Step ==
  \/ Lookup \/ Refuse \/ CacheHit \/ CacheMiss
  \/ Send \/ Succeed \/ Fail \/ FailStale \/ TimeOut
  \/ Shape \/ ShapeFails \/ Charge \/ ChargeRefused \/ CachePut \/ Record

Next == Step \/ Drop \/ ShutdownClears \/ DatabaseApplies

Spec == Init /\ [][Next]_vars

----------------------------------------------------------------------------
(* Properties                                                               *)

\* A call has at most one heartbeat, also across the retry.
TypeOK ==
  /\ pc \in {"new", "preparing", "sending", "executing", "shaping", "billing",
             "storing", "recording", "done"}
  /\ mode \in Mode
  /\ beating \in BOOLEAN
  /\ procedure \in BOOLEAN
  /\ profile \in BOOLEAN
  /\ attempt \in 0..2
  /\ statement \in {"none", "running", "applied"}
  /\ applied \in Nat
  /\ rows \in 0..MaxBatch
  /\ served \in 0..MaxBatch
  /\ beats \in 0..1
  /\ charged \in Nat \cup {Unbilled}
  /\ refunds \in Nat
  /\ outcome \in {"pending", "hit", "ok", "error", "dropped"}
  /\ recorded \in BOOLEAN

\* The retry never makes the database apply a statement twice.  A procedure
\* may have done some of its work before the error that is taken for stale.
AppliedAtMostOnce == ~procedure => applied <= 1

\* No call is both charged and refunded, none is refunded twice, a charge is
\* for a statement the database applied, a response is charged, and a call
\* that was sent and failed with nothing applied is refunded.
BilledOnce ==
  /\ refunds <= 1
  /\ charged # Unbilled => refunds = 0 /\ applied > 0
  /\ outcome = "ok" => charged # Unbilled
  /\ outcome = "error" /\ attempt > 0 /\ applied = 0 => refunds = 1

\* "The driver safely retries the statement once" (errors.rs:76): whatever the
\* statement is.
RetriedSafely == applied <= 1

\* A long-running query emits heartbeats "while it waits on the driver": a
\* call that has failed has none.
HeartbeatStops == outcome = "error" => beats = 0

\* The refund counter increments "on every error path": here, of the calls
\* whose statement was applied.
EveryErrorRefunded == outcome = "error" /\ applied > 0 => refunds = 1

\* per_row is "pay per returned row (think 1 cent per record served)".
ChargedRowsServed == charged # Unbilled => charged = served

\* "Emit metrics regardless of outcome."
EveryCallRecorded == pc = "done" /\ outcome # "dropped" => recorded
=============================================================================
