-------------------------------- MODULE Calls --------------------------------
(* What stands around the calls of the plugin: the in-flight table and the   *)
(* shutdown (Lifecycle), a transaction handle its callers share (TxHandle)   *)
(* and the token of the pool (TokenRotator).  The three share nothing at     *)
(* this grain, so a behaviour starts one of them, with the others over.      *)
EXTENDS Lifecycle

CONSTANTS
  Callers, Keys,                                 \* of TxHandle
  TTL, SafetyMargin, MinInterval,                \* of TokenRotator
  MaxFetch, MaxFailures, MaxAge

ASSUME CallsAssumption ==
  {Keys, TTL, SafetyMargin, MinInterval, MaxFetch, MaxFailures, MaxAge} \subseteq Nat

VARIABLES
  driver, op, hpc, left, inner, tx, aborted, value, ran, saw, durable, reply,
  owner, pool, held, task, elapsed, token, fetched, failures

hvars == <<driver, op, hpc, left, inner, tx, aborted, value, ran, saw, durable,
           reply>>
tvars == <<owner, pool, held, task, elapsed, token, fetched, failures>>

Handle == INSTANCE TxHandle WITH pc <- hpc
Token == INSTANCE TokenRotator

LifecycleOver ==
  /\ draining = TRUE
  /\ entries = {}
  /\ profile = 0
  /\ built = MaxRuntimes
  /\ closed = {}
  /\ registering = "idle"
  /\ pc = [a \in Actor |-> "done"]
  /\ runtime = [a \in Actor |-> 0]
  /\ expired = Await
  /\ woken = {}
  /\ shutdown = "done"
  /\ capElapsed = TRUE
  /\ early = {}

HandleOver ==
  /\ driver = "sqlite"
  /\ op = [c \in Callers |-> "rollback"]
  /\ hpc = [c \in Callers |-> "done"]
  /\ left = [c \in Callers |-> 0]
  /\ inner = FALSE
  /\ tx = "rolled_back"
  /\ aborted = FALSE
  /\ value = Handle!Unset
  /\ ran = {}
  /\ saw = [c \in Callers |-> Handle!Unset]
  /\ durable = {}
  /\ reply = [c \in Callers |-> "closed"]

TokenOver ==
  /\ owner = "profile" /\ pool = "closed" /\ held = FALSE /\ task = "stopped"
  /\ elapsed = 0 /\ token = 0 /\ fetched = 0 /\ failures = 0

CallsInit ==
  \/ Init /\ HandleOver /\ TokenOver
  \/ LifecycleOver /\ Handle!Init /\ TokenOver
  \/ LifecycleOver /\ HandleOver /\ Token!Init

CallsNext ==
  \/ Next /\ UNCHANGED <<hvars, tvars>>
  \/ Handle!Next /\ UNCHANGED <<vars, tvars>>
  \/ Token!Next /\ UNCHANGED <<vars, hvars>>

CallsSpec ==
  /\ CallsInit /\ [][CallsNext]_<<vars, hvars, tvars>>
  /\ Fairness

\* A shared transaction handle: statements run under the session variables of
\* their own call, and none that was told "ok" is lost.
OwnVariables == Handle!OwnVariables
OkStatementsKept == Handle!OkStatementsKept

\* The pool's token is valid while rotations succeed.
TokenValid == Token!TokenValid
=============================================================================
