------------------------------ MODULE Lifecycle ------------------------------
(***************************************************************************)
(* Calls, registrations and shutdown of the plugin (src/src/lib.rs):       *)
(* execute with its drain check and in-flight guard, the fire-and-wait     *)
(* loop, transactions on a held connection, register_profile, and the      *)
(* shutdown sequence, each interleaved at its awaits and atomics.          *)
(*                                                                         *)
(* One binding is modelled.  Each registration of it builds a runtime with *)
(* a pool of its own, numbered 1, 2, ...; `profile` is the one in the map. *)
(* The query itself, its pool checkout included, is one step to start and  *)
(* one to end.                                                             *)
(***************************************************************************)
EXTENDS Naturals, FiniteSets

CONSTANTS Query,        \* calls of execute on the normal path
          Await,        \* calls of execute on the fire-and-wait path
          Transaction,  \* execute_transaction / begin_transaction callers
          MaxRuntimes   \* bound: registrations

ASSUME LifecycleAssumption ==
  /\ MaxRuntimes \in Nat \ {0}
  /\ Query \cap Await = {} /\ Query \cap Transaction = {}
  /\ Await \cap Transaction = {}

Call == Query \cup Await
Actor == Call \cup Transaction
Runtime == 1..MaxRuntimes

VARIABLES
  draining,
  entries,      \* InFlightRegistry.entries
  profile,      \* the runtime in `profiles`, 0 when there is none
  built,        \* runtimes built so far
  closed,       \* runtimes whose pool is closed
  registering,  \* register_profile: "idle" or "building"
  pc, runtime,  \* of each actor
  expired,      \* await loops whose deadline has passed
  woken,        \* sleeping await loops that notify_waiters has woken
  shutdown,     \* where shutdown() is
  capElapsed,   \* SHUTDOWN_INTERNAL_CAP has elapsed
  early         \* calls in flight when `draining` was set

vars == <<draining, entries, profile, built, closed, registering, pc, runtime,
          expired, woken, shutdown, capElapsed, early>>
\* What the steps of calls and transactions leave alone.
pluginVars == <<draining, shutdown, capElapsed, early, profile, built, closed,
                registering>>

Goto(a, label) == pc' = [pc EXCEPT ![a] = label]
Ended == {"refused", "done"}

\* Actors that hold a connection.
Holding == {a \in Actor : pc[a] \in {"querying", "triggering", "checking", "in_tx"}}
PoolOpen(r) == r \notin closed

----------------------------------------------------------------------------
(* execute                                                                  *)

\* The drain check.
Execute(c) ==
  /\ pc[c] = "new"
  /\ Goto(c, IF draining THEN "refused" ELSE "admitted")
  /\ UNCHANGED <<pluginVars, entries, runtime, expired, woken>>

\* execute_inner: the runtime is cloned out of the map.
Lookup(a) ==
  /\ IF a \in Transaction THEN pc[a] = "new" ELSE pc[a] = "admitted"
  /\ IF profile = 0 THEN Goto(a, "done") /\ UNCHANGED runtime
     ELSE Goto(a, "found") /\ runtime' = [runtime EXCEPT ![a] = profile]
  /\ UNCHANGED <<pluginVars, entries, expired, woken>>

\* Mutant of Register: the fire-and-wait path without an InFlightGuard.
RegisterQueriesOnly(c) ==
  /\ pc[c] = "found"
  /\ entries' = IF c \in Query THEN entries \cup {c} ELSE entries
  /\ Goto(c, "registered")
  /\ UNCHANGED <<pluginVars, runtime, expired, woken>>

\* InFlightGuard::register, the first thing both paths do.
Register(c) ==
  /\ pc[c] = "found"
  /\ entries' = entries \cup {c}
  /\ Goto(c, "registered")
  /\ UNCHANGED <<pluginVars, runtime, expired, woken>>

\* The call returns; the guard's Drop removes its entry.
Leave(c) ==
  /\ Goto(c, "done")
  /\ entries' = entries \ {c}

\* The next statement of a call gets a connection, or is refused by a closed
\* pool and ends the call.
Acquire(c, label) ==
  IF PoolOpen(runtime[c]) THEN Goto(c, label) /\ UNCHANGED entries
  ELSE Leave(c)

StartQuery(c) ==
  /\ c \in Query
  /\ pc[c] = "registered"
  /\ Acquire(c, "querying")
  /\ UNCHANGED <<pluginVars, runtime, expired, woken>>

\* It answers, fails or times out, and the call with it.
EndQuery(c) ==
  /\ pc[c] = "querying"
  /\ Leave(c)
  /\ UNCHANGED <<pluginVars, runtime, expired, woken>>

----------------------------------------------------------------------------
(* execute_await_loop                                                       *)

\* A binding may have a trigger; without one the first statement is a check.
StartAwait(c) ==
  /\ c \in Await
  /\ pc[c] = "registered"
  /\ \E first \in {"triggering", "checking"} : Acquire(c, first)
  /\ UNCHANGED <<pluginVars, runtime, expired, woken>>

TriggerSucceeds(c) ==
  /\ pc[c] = "triggering"
  /\ Acquire(c, "checking")
  /\ UNCHANGED <<pluginVars, runtime, expired, woken>>

\* The trigger or the check fails or times out, or the predicate matches.
AwaitEnds(c) ==
  /\ pc[c] \in {"triggering", "checking"}
  /\ Leave(c)
  /\ UNCHANGED <<pluginVars, runtime, expired, woken>>

\* The predicate does not match: the deadline ends the call, or it sleeps,
\* which is when it starts to listen to `drain_notify`.
CheckAgain(c) ==
  /\ pc[c] = "checking"
  /\ IF c \in expired THEN Leave(c)
     ELSE Goto(c, "sleeping") /\ UNCHANGED entries
  /\ UNCHANGED <<pluginVars, runtime, expired, woken>>

\* The select!: the sleep is over and the next check starts, ...
Wake(c) ==
  /\ pc[c] = "sleeping"
  /\ Acquire(c, "checking")
  /\ woken' = woken \ {c}
  /\ UNCHANGED <<pluginVars, runtime, expired>>

\* ... or the drain notification ends the call.  When both arms are ready
\* select! picks either.
Bail(c) ==
  /\ pc[c] = "sleeping"
  /\ c \in woken
  /\ Leave(c)
  /\ woken' = woken \ {c}
  /\ UNCHANGED <<pluginVars, runtime, expired>>

Expire(c) ==
  /\ pc[c] \in {"checking", "sleeping"}
  /\ c \notin expired
  /\ expired' = expired \cup {c}
  /\ UNCHANGED <<pluginVars, entries, pc, runtime, woken>>

----------------------------------------------------------------------------
(* Transactions: no drain check, no in-flight entry                         *)

BeginTransaction(a) ==
  /\ pc[a] = "found"
  /\ Goto(a, IF PoolOpen(runtime[a]) THEN "in_tx" ELSE "done")
  /\ UNCHANGED <<pluginVars, entries, runtime, expired, woken>>

EndTransaction(a) ==
  /\ pc[a] = "in_tx"
  /\ Goto(a, "done")
  /\ UNCHANGED <<pluginVars, entries, runtime, expired, woken>>
----------------------------------------------------------------------------
(* register_profile                                                         *)

RegisterProfile ==
  /\ registering = "idle"
  /\ built < MaxRuntimes
  /\ ~draining
  /\ registering' = "building"
  /\ built' = built + 1
  /\ UNCHANGED <<draining, shutdown, capElapsed, early, profile, closed,
                 entries, pc, runtime, expired, woken>>

\* The pool, the health check and the rest succeed and the runtime goes into
\* the map; any of them fails and nothing is registered.
InsertProfile ==
  /\ registering = "building"
  /\ registering' = "idle"
  /\ profile' \in {built, profile}
  /\ UNCHANGED <<draining, shutdown, capElapsed, early, built, closed,
                 entries, pc, runtime, expired, woken>>

----------------------------------------------------------------------------
(* shutdown                                                                 *)

InFlight == {c \in Call : pc[c] \in {"registered", "querying", "triggering",
                                     "checking", "sleeping"}}

SetDraining ==
  /\ shutdown = "idle"
  /\ shutdown' = "notifying"
  /\ draining' = TRUE
  /\ early' = InFlight
  /\ UNCHANGED <<capElapsed, profile, built, closed, registering,
                 entries, pc, runtime, expired, woken>>

NotifyWaiters ==
  /\ shutdown = "notifying"
  /\ shutdown' = "waiting"
  /\ woken' = {c \in Await : pc[c] = "sleeping"}
  /\ UNCHANGED <<draining, capElapsed, early, profile, built, closed,
                 registering, entries, pc, runtime, expired>>

\* Mutant of DrainOver: no ceiling.
DrainOverUncapped == entries = {}

DrainOver == entries = {} \/ capElapsed

\* Every pool in the map is marked closed.
ClosePools ==
  /\ shutdown = "waiting"
  /\ DrainOver
  /\ shutdown' = "closing"
  /\ closed' = closed \cup ({profile} \ {0})
  /\ UNCHANGED <<draining, capElapsed, early, profile, built, registering,
                 entries, pc, runtime, expired, woken>>

\* Pool::close returns once its connections are back.
ClearProfiles ==
  /\ shutdown = "closing"
  /\ \A a \in Holding : runtime[a] \notin closed
  /\ shutdown' = "done"
  /\ profile' = 0
  /\ UNCHANGED <<draining, capElapsed, early, built, closed, registering,
                 entries, pc, runtime, expired, woken>>

CapElapses ==
  /\ shutdown = "waiting"
  /\ ~capElapsed
  /\ capElapsed' = TRUE
  /\ UNCHANGED <<draining, shutdown, early, profile, built, closed,
                 registering, entries, pc, runtime, expired, woken>>

----------------------------------------------------------------------------
Init ==
  /\ draining = FALSE
  /\ entries = {}
  /\ profile = 0
  /\ built = 0
  /\ closed = {}
  /\ registering = "idle"
  /\ pc = [a \in Actor |-> "new"]
  /\ runtime = [a \in Actor |-> 0]
  /\ expired = {}
  /\ woken = {}
  /\ shutdown = "idle"
  /\ capElapsed = FALSE
  /\ early = {}

QueryStep(c) == StartQuery(c) \/ EndQuery(c)

AwaitStep(c) ==
  \/ StartAwait(c) \/ TriggerSucceeds(c) \/ AwaitEnds(c)
  \/ CheckAgain(c) \/ Wake(c) \/ Bail(c)

CallStep(c) ==
  Execute(c) \/ Lookup(c) \/ Register(c) \/ QueryStep(c) \/ AwaitStep(c)

TransactionStep(a) == Lookup(a) \/ BeginTransaction(a) \/ EndTransaction(a)

ShutdownStep == NotifyWaiters \/ ClosePools \/ ClearProfiles

Next ==
  \/ \E c \in Call : CallStep(c)
  \/ \E c \in Await : Expire(c)
  \/ \E a \in Transaction : TransactionStep(a)
  \/ RegisterProfile \/ InsertProfile
  \/ SetDraining \/ ShutdownStep \/ CapElapses

Spec == Init /\ [][Next]_vars

\* Statements end by themselves or by their timeout, sleeps and the drain
\* ceiling elapse, tasks that can run are run.  Nothing makes a call arrive, a
\* caller finish its transaction, the gateway shut down, or an await deadline be short.
Fairness ==
  /\ \A c \in Call : WF_vars(pc[c] # "new" /\ CallStep(c))
  /\ WF_vars(InsertProfile)
  /\ WF_vars(ShutdownStep)
  /\ WF_vars(CapElapses)

FairSpec == Spec /\ Fairness

----------------------------------------------------------------------------
(* Properties                                                               *)

Label == {"new", "refused", "admitted", "found", "registered", "querying",
          "triggering", "checking", "sleeping", "in_tx", "done"}

\* The in-flight table holds calls, and a call that is past the lookup has a
\* runtime that was built.
TypeOK ==
  /\ draining \in BOOLEAN
  /\ entries \subseteq Call
  /\ built \in 0..MaxRuntimes
  /\ profile \in 0..built
  /\ closed \subseteq 1..built
  /\ registering \in {"idle", "building"}
  /\ pc \in [Actor -> Label]
  /\ runtime \in [Actor -> 0..built]
  /\ \A a \in Actor :
       pc[a] \notin {"new", "refused", "admitted", "done"} => runtime[a] # 0
  /\ expired \subseteq Await
  /\ woken \subseteq Await
  /\ shutdown \in {"idle", "notifying", "waiting", "closing", "done"}
  /\ capElapsed \in BOOLEAN
  /\ early \subseteq Call

\* Shutdown closes pools under a call that was in flight when it began only
\* after the drain ceiling: without it every such call, a fire-and-wait one
\* included, has returned first.
EarlyCallsDrained ==
  shutdown \in {"closing", "done"} /\ ~capElapsed
    => \A c \in early : pc[c] \in Ended

\* shutdown() returns, whatever the calls in flight do and however long the
\* await deadlines are, unless a caller keeps its transaction open for ever.
ShutdownEnds ==
  \/ (shutdown # "idle") ~> (shutdown = "done")
  \/ <>[](\E a \in Transaction : pc[a] = "in_tx")

\* "the in-flight count only walks monotonically downward from this point,
\* never up": no entry is added once the drain flag is set.
InFlightOnlyFalls == [][draining => entries' \subseteq entries]_vars

\* "on notify the loop returns Timeout immediately rather than ticking out
\* the configured poll_interval_ms": after the notification no fire-and-wait
\* call goes to sleep again.
NoSleepAfterNotify ==
  [][\A c \in Await :
       shutdown \in {"waiting", "closing", "done"} /\ pc'[c] = "sleeping"
         => pc[c] = "sleeping"]_vars

\* The pool a registration builds "would be torn down a moment later by
\* shutdown()'s profiles.clear()": after shutdown the map is empty.
NoProfileAfterShutdown == shutdown = "done" => profile = 0
=============================================================================
