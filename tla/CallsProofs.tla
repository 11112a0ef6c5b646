---------------------------- MODULE CallsProofs ----------------------------
(***************************************************************************)
(* Theorems about what stands around the calls of the plugin: Lifecycle,   *)
(* for any number of calls and registrations; TxHandle, for any number of  *)
(* callers and session variables; and TokenRotator, for every TTL and      *)
(* margin.                                                                 *)
(***************************************************************************)
EXTENDS Calls, TLAPS

----------------------------------------------------------------------------
(* Lifecycle                                                                *)

\* Every variable keeps its type, and a call past its profile lookup always
\* carries a runtime that register_profile built.
THEOREM TypeCorrect == Spec => []TypeOK
<1>1. Init => TypeOK
  <2> SUFFICES ASSUME Init PROVE TypeOK
    OBVIOUS
  <2>1. draining \in BOOLEAN /\ capElapsed \in BOOLEAN
    BY Zenon DEF Init
  <2>2. QED
    BY <2>1, LifecycleAssumption
       DEF Init, TypeOK, LifecycleAssumption, Label, Call, Actor
<1>2. TypeOK /\ [Next]_vars => TypeOK'
  <2> SUFFICES ASSUME TypeOK, [Next]_vars PROVE TypeOK'
    BY SMTT(30)
  <2> USE LifecycleAssumption
          DEF LifecycleAssumption, TypeOK, InFlight, Label, Call, Actor,
              Goto, Leave, pluginVars
  <2>1. ASSUME NEW c \in Call, CallStep(c) PROVE TypeOK'
    <3>1. CASE Execute(c)
      BY <3>1 DEF Execute
    <3>2. CASE Lookup(c)
      BY <3>2 DEF Lookup
    <3>3. CASE Register(c)
      BY <3>3 DEF Register
    <3>4. CASE StartQuery(c)
      BY <3>4 DEF StartQuery, Acquire
    <3>5. CASE EndQuery(c)
      BY <3>5 DEF EndQuery
    <3>6. CASE StartAwait(c)
      BY <3>6 DEF StartAwait, Acquire
    <3>7. CASE TriggerSucceeds(c)
      BY <3>7 DEF TriggerSucceeds, Acquire
    <3>8. CASE AwaitEnds(c)
      BY <3>8 DEF AwaitEnds
    <3>9. CASE CheckAgain(c)
      BY <3>9 DEF CheckAgain
    <3>10. CASE Wake(c)
      BY <3>10 DEF Wake, Acquire
    <3>11. CASE Bail(c)
      BY <3>11 DEF Bail
    <3>12. QED
      BY Zenon, <2>1, <3>1, <3>2, <3>3, <3>4, <3>5, <3>6, <3>7, <3>8, <3>9, <3>10, <3>11
         DEF CallStep, QueryStep, AwaitStep
  <2>2. ASSUME NEW c \in Await, Expire(c) PROVE TypeOK'
    BY <2>2 DEF Expire
  <2>3. ASSUME NEW a \in Transaction, TransactionStep(a) PROVE TypeOK'
    <3>1. CASE Lookup(a)
      BY <3>1 DEF Lookup
    <3>2. CASE BeginTransaction(a)
      BY <3>2 DEF BeginTransaction
    <3>3. CASE EndTransaction(a)
      BY <3>3 DEF EndTransaction
    <3>4. QED
      BY <2>3, <3>1, <3>2, <3>3 DEF TransactionStep
  <2>4. CASE RegisterProfile
    BY <2>4 DEF RegisterProfile
  <2>5. CASE InsertProfile
    BY <2>5 DEF InsertProfile
  <2>6. CASE SetDraining
    BY <2>6 DEF SetDraining
  <2>7. CASE NotifyWaiters
    BY <2>7 DEF NotifyWaiters
  <2>8. CASE ClosePools
    BY <2>8 DEF ClosePools, DrainOver
  <2>9. CASE ClearProfiles
    BY <2>9 DEF ClearProfiles
  <2>10. CASE CapElapses
    BY <2>10 DEF CapElapses
  <2>11. CASE UNCHANGED vars
    BY <2>11 DEF vars
  <2>12. QED
    BY Zenon, <2>1, <2>2, <2>3, <2>4, <2>5, <2>6, <2>7, <2>8, <2>9, <2>10, <2>11
       DEF Next, ShutdownStep
<1>3. QED
  BY <1>1, <1>2, PTL DEF Spec

\* The in-flight table is exact: it holds the calls that are past
\* InFlightGuard::register and have not returned, and no others.
EntriesExact ==
  /\ pc \in [Actor -> Label]
  /\ entries = InFlight

\* Every path out of a call drops the guard.
LEMMA EntriesExactAlways == Spec => []EntriesExact
<1>1. Init => EntriesExact
  BY DEF Init, EntriesExact, InFlight, Label, Call, Actor
<1>2. EntriesExact /\ [Next]_vars => EntriesExact'
  <2> SUFFICES ASSUME EntriesExact, [Next]_vars PROVE EntriesExact'
    OBVIOUS
  <2> USE LifecycleAssumption
          DEF LifecycleAssumption, EntriesExact, InFlight, Label, Call, Actor,
              Goto, Leave, pluginVars
  <2>1. ASSUME NEW c \in Call, CallStep(c) PROVE EntriesExact'
    <3>1. CASE Execute(c)
      BY <3>1 DEF Execute
    <3>2. CASE Lookup(c)
      BY <3>2 DEF Lookup
    <3>3. CASE Register(c)
      BY <3>3 DEF Register
    <3>4. CASE StartQuery(c)
      BY <3>4 DEF StartQuery, Acquire
    <3>5. CASE EndQuery(c)
      BY <3>5 DEF EndQuery
    <3>6. CASE StartAwait(c)
      BY <3>6 DEF StartAwait, Acquire
    <3>7. CASE TriggerSucceeds(c)
      BY <3>7 DEF TriggerSucceeds, Acquire
    <3>8. CASE AwaitEnds(c)
      BY <3>8 DEF AwaitEnds
    <3>9. CASE CheckAgain(c)
      BY <3>9 DEF CheckAgain
    <3>10. CASE Wake(c)
      BY <3>10 DEF Wake, Acquire
    <3>11. CASE Bail(c)
      BY <3>11 DEF Bail
    <3>12. QED
      BY <2>1, <3>1, <3>2, <3>3, <3>4, <3>5, <3>6, <3>7, <3>8, <3>9, <3>10, <3>11
         DEF CallStep, QueryStep, AwaitStep
  <2>2. ASSUME NEW c \in Await, Expire(c) PROVE EntriesExact'
    BY <2>2 DEF Expire
  <2>3. ASSUME NEW a \in Transaction, TransactionStep(a) PROVE EntriesExact'
    <3>1. CASE Lookup(a)
      BY <3>1 DEF Lookup
    <3>2. CASE BeginTransaction(a)
      BY <3>2 DEF BeginTransaction
    <3>3. CASE EndTransaction(a)
      BY <3>3 DEF EndTransaction
    <3>4. QED
      BY <2>3, <3>1, <3>2, <3>3 DEF TransactionStep
  <2>4. CASE RegisterProfile
    BY <2>4 DEF RegisterProfile
  <2>5. CASE InsertProfile
    BY <2>5 DEF InsertProfile
  <2>6. CASE SetDraining
    BY <2>6 DEF SetDraining
  <2>7. CASE NotifyWaiters
    BY <2>7 DEF NotifyWaiters
  <2>8. CASE ClosePools
    BY <2>8 DEF ClosePools, DrainOver
  <2>9. CASE ClearProfiles
    BY <2>9 DEF ClearProfiles
  <2>10. CASE CapElapses
    BY <2>10 DEF CapElapses
  <2>11. CASE UNCHANGED vars
    BY <2>11 DEF vars
  <2>12. QED
    BY <2>1, <2>2, <2>3, <2>4, <2>5, <2>6, <2>7, <2>8, <2>9, <2>10, <2>11
       DEF Next, ShutdownStep
<1>3. QED
  BY <1>1, <1>2, PTL DEF Spec

\* What EarlyCallsDrained rests on: a call that was in flight when the drain
\* flag was set is in flight or has ended.
EarlyTracked ==
  /\ early \subseteq InFlight \cup {c \in Call : pc[c] \in Ended}
  /\ EarlyCallsDrained

\* Shutdown closes no pool under a call that was in flight when it began,
\* unless the drain ceiling has elapsed.
THEOREM EarlyCallsDrainedAlways == Spec => []EarlyCallsDrained
<1>1. Init => EarlyTracked
  BY DEF Init, EarlyTracked, EarlyCallsDrained
<1>2. EntriesExact /\ EarlyTracked /\ [Next]_vars => EarlyTracked'
  <2> SUFFICES ASSUME EntriesExact, EarlyTracked, [Next]_vars
               PROVE EarlyTracked'
    OBVIOUS
  <2> USE LifecycleAssumption
          DEF LifecycleAssumption, EntriesExact, EarlyTracked,
              EarlyCallsDrained, InFlight, Ended, Label, Call, Actor, Goto,
              Leave, pluginVars
  <2>1. ASSUME NEW c \in Call, CallStep(c) PROVE EarlyTracked'
    <3>1. CASE Execute(c)
      BY <3>1 DEF Execute
    <3>2. CASE Lookup(c)
      BY <3>2 DEF Lookup
    <3>3. CASE Register(c)
      BY <3>3 DEF Register
    <3>4. CASE StartQuery(c)
      BY <3>4 DEF StartQuery, Acquire
    <3>5. CASE EndQuery(c)
      BY <3>5 DEF EndQuery
    <3>6. CASE StartAwait(c)
      BY <3>6 DEF StartAwait, Acquire
    <3>7. CASE TriggerSucceeds(c)
      BY <3>7 DEF TriggerSucceeds, Acquire
    <3>8. CASE AwaitEnds(c)
      BY <3>8 DEF AwaitEnds
    <3>9. CASE CheckAgain(c)
      BY <3>9 DEF CheckAgain
    <3>10. CASE Wake(c)
      BY <3>10 DEF Wake, Acquire
    <3>11. CASE Bail(c)
      BY <3>11 DEF Bail
    <3>12. QED
      BY <2>1, <3>1, <3>2, <3>3, <3>4, <3>5, <3>6, <3>7, <3>8, <3>9, <3>10, <3>11
         DEF CallStep, QueryStep, AwaitStep
  <2>2. ASSUME NEW c \in Await, Expire(c) PROVE EarlyTracked'
    BY <2>2 DEF Expire
  <2>3. ASSUME NEW a \in Transaction, TransactionStep(a) PROVE EarlyTracked'
    <3>1. CASE Lookup(a)
      BY <3>1 DEF Lookup
    <3>2. CASE BeginTransaction(a)
      BY <3>2 DEF BeginTransaction
    <3>3. CASE EndTransaction(a)
      BY <3>3 DEF EndTransaction
    <3>4. QED
      BY <2>3, <3>1, <3>2, <3>3 DEF TransactionStep
  <2>4. CASE RegisterProfile
    BY <2>4 DEF RegisterProfile
  <2>5. CASE InsertProfile
    BY <2>5 DEF InsertProfile
  <2>6. CASE SetDraining
    BY <2>6 DEF SetDraining
  <2>7. CASE NotifyWaiters
    BY <2>7 DEF NotifyWaiters
  <2>8. CASE ClosePools
    BY <2>8 DEF ClosePools, DrainOver
  <2>9. CASE ClearProfiles
    BY <2>9 DEF ClearProfiles
  <2>10. CASE CapElapses
    BY <2>10 DEF CapElapses
  <2>11. CASE UNCHANGED vars
    BY <2>11 DEF vars
  <2>12. QED
    BY <2>1, <2>2, <2>3, <2>4, <2>5, <2>6, <2>7, <2>8, <2>9, <2>10, <2>11
       DEF Next, ShutdownStep
<1>3. EarlyTracked => EarlyCallsDrained
  BY DEF EarlyTracked
<1>4. QED
  BY <1>1, <1>2, <1>3, EntriesExactAlways, PTL DEF Spec

----------------------------------------------------------------------------
(* TxHandle                                                                 *)

\* A caller has the transaction out of the Option.
Busy(c) == hpc[c] \in {"working", "clearing"}

HandleTypeOK ==
  /\ driver \in {"postgres", "mysql", "sqlite"}
  /\ op \in [Callers -> Handle!Operations]
  /\ hpc \in [Callers -> {"idle", "working", "clearing", "done"}]
  /\ left \in [Callers -> 0 .. Keys]
  /\ value \in [1 .. Keys -> SUBSET Callers]
  /\ ran \subseteq Callers
  /\ saw \in [Callers -> [1 .. Keys -> SUBSET Callers]]
  /\ reply \in [Callers -> {"none", "ok", "error", "closed"}]

\* take() gives the transaction to one caller at a time, and no caller has it
\* while the Option holds it or after it has ended.
TakenByOne ==
  /\ inner => tx = "open"
  /\ \A c \in Callers : Busy(c) => ~inner /\ tx = "open"
  /\ \A c, d \in Callers : Busy(c) /\ Busy(d) => c = d

\* The variables a statement has set so far are still its own.
VariablesSet ==
  \A c \in Callers :
     hpc[c] = "working" /\ op[c] \in Handle!Statements /\ driver # "sqlite" =>
        \A k \in left[c] + 1 .. Keys : value[k] = {c}

HandleInv ==
  HandleTypeOK /\ TakenByOne /\ VariablesSet /\ OwnVariables /\ OkStatementsKept

\* A statement that has set all its variables runs with each of them its own.
LEMMA AllVariablesSet ==
  ASSUME HandleInv, NEW c \in Callers, left[c] = 0, hpc[c] = "working",
         op[c] \in Handle!Statements, driver # "sqlite"
  PROVE  \A k \in 1 .. Keys : value[k] = {c}
<1> TAKE k \in 1 .. Keys
<1>1. k \in left[c] + 1 .. Keys
  BY CallsAssumption DEF CallsAssumption
<1>2. QED
  BY <1>1, Zenon DEF HandleInv, VariablesSet

\* The transaction a caller took is rolled back: dropped with an error, with
\* the caller's future, by rollback() or by a commit() that fails.
LEMMA HandleRolledBack ==
  ASSUME HandleInv, NEW c \in Callers, NEW r \in {"ok", "error"}, Busy(c),
         Handle!Rolled, Handle!Answer(c, r), UNCHANGED <<driver, op>>
  PROVE  HandleInv'
<1> USE DEF Busy, Handle!Rolled, Handle!Answer
<1>1. HandleTypeOK'
  BY CallsAssumption DEF CallsAssumption, HandleInv, HandleTypeOK, Handle!Unset
<1>2. TakenByOne' /\ VariablesSet'
  BY DEF HandleInv, HandleTypeOK, TakenByOne, VariablesSet
<1>3. OwnVariables' /\ OkStatementsKept'
  BY DEF OwnVariables, OkStatementsKept, Handle!OwnVariables, Handle!OkStatementsKept
<1>4. QED
  BY <1>1, <1>2, <1>3, Zenon DEF HandleInv

\* A caller ends its work on a statement: it puts the transaction back and
\* answers, or keeps it to clear its variables.
Leaves(c, p, n, r) ==
  /\ hpc' = [hpc EXCEPT ![c] = p]
  /\ left' = [left EXCEPT ![c] = n]
  /\ reply' = [reply EXCEPT ![c] = r]
  /\ tx' = tx
  /\ (p = "done" /\ inner') \/ (p = "clearing" /\ inner' = inner /\ r = reply[c])

LEMMA HandleLeaves ==
  ASSUME HandleTypeOK, NEW c \in Callers, NEW a \in {"ok", "error"},
         (Handle!put /\ Handle!Answer(c, a)) \/ Handle!Clearing(c)
  PROVE  \E p \in {"clearing", "done"}, n \in 0 .. Keys, r \in {a, reply[c]} :
           Leaves(c, p, n, r)
<1>1. CASE Handle!put /\ Handle!Answer(c, a)
  <2>1. Leaves(c, "done", 0, a)
    BY <1>1 DEF Leaves, Handle!put, Handle!Answer
  <2>2. QED
    BY <2>1, CallsAssumption DEF CallsAssumption
<1>2. CASE Handle!Clearing(c)
  <2>1. Leaves(c, "clearing", Handle!Variables(c), reply[c])
    BY <1>2 DEF Leaves, Handle!Clearing, Handle!handle, HandleTypeOK
  <2>2. Handle!Variables(c) \in 0 .. Keys
    BY CallsAssumption DEF CallsAssumption, Handle!Variables
  <2>3. QED
    BY <2>1, <2>2, Zenon
<1>3. QED
  BY <1>1, <1>2

\* Nobody works on the transaction afterwards but the caller itself.
LEMMA HandleLeft ==
  ASSUME HandleInv, NEW c \in Callers, Busy(c), UNCHANGED <<driver, op, value>>,
         NEW p \in {"clearing", "done"}, NEW n \in 0 .. Keys,
         NEW r \in {"none", "ok", "error", "closed"}, Leaves(c, p, n, r)
  PROVE  /\ left' \in [Callers -> 0 .. Keys]
         /\ hpc' \in [Callers -> {"idle", "working", "clearing", "done"}]
         /\ reply' \in [Callers -> {"none", "ok", "error", "closed"}]
         /\ TakenByOne' /\ VariablesSet'
<1>1. /\ left' \in [Callers -> 0 .. Keys]
      /\ hpc' \in [Callers -> {"idle", "working", "clearing", "done"}]
      /\ reply' \in [Callers -> {"none", "ok", "error", "closed"}]
  BY DEF HandleInv, HandleTypeOK, Leaves
<1>2. TakenByOne'
  BY DEF HandleInv, HandleTypeOK, TakenByOne, Busy, Leaves
<1>3. VariablesSet'
  BY DEF HandleInv, HandleTypeOK, VariablesSet, Leaves
<1>4. QED
  BY <1>1, <1>2, <1>3

\* A statement ran, and the caller answers at once or clears its variables.
LEMMA HandleRan ==
  ASSUME HandleInv, NEW c \in Callers, hpc[c] = "working",
         op[c] \in Handle!Statements, UNCHANGED <<driver, op>>, Handle!Submitted(c),
         (Handle!put /\ Handle!Answer(c, "ok")) \/ Handle!Clearing(c)
  PROVE  HandleInv'
<1>1. PICK p \in {"clearing", "done"}, n \in 0 .. Keys, r \in {"ok", reply[c]} :
        Leaves(c, p, n, r)
  BY HandleLeaves, Zenon DEF HandleInv
<1>2. r \in {"none", "ok", "error", "closed"} /\ Busy(c) /\ UNCHANGED <<driver, op, value>>
  BY Zenon DEF HandleInv, HandleTypeOK, Handle!Submitted, Busy
<1>3. HandleTypeOK'
  <2>1. saw' \in [Callers -> [1 .. Keys -> SUBSET Callers]]
    BY DEF HandleInv, HandleTypeOK, Handle!Submitted
  <2>2. QED
    BY <1>1, <1>2, <2>1, HandleLeft DEF HandleInv, HandleTypeOK, Handle!Submitted
<1>4. OwnVariables'
  <2>1. driver # "sqlite" => \A k \in 1 .. Keys : value[k] = {c}
    BY AllVariablesSet, Zenon DEF Handle!Submitted
  <2>2. QED
    BY <2>1 DEF HandleInv, HandleTypeOK, OwnVariables, Handle!OwnVariables,
                Handle!Submitted
<1>5. OkStatementsKept'
  BY <1>1, <1>2 DEF HandleInv, HandleTypeOK, TakenByOne, OkStatementsKept,
                    Handle!OkStatementsKept, Handle!Submitted, Leaves
<1>6. QED
  BY <1>1, <1>2, <1>3, <1>4, <1>5, HandleLeft, Zenon DEF HandleInv

\* A variable or a statement is refused: what ran stays as it is.
LEMMA HandleRefused ==
  ASSUME HandleInv, NEW c \in Callers, hpc[c] = "working",
         UNCHANGED <<driver, op, value, ran, saw, durable>>,
         (Handle!put /\ Handle!Answer(c, "error")) \/ Handle!Clearing(c)
  PROVE  HandleInv'
<1>1. PICK p \in {"clearing", "done"}, n \in 0 .. Keys, r \in {"error", reply[c]} :
        Leaves(c, p, n, r)
  BY HandleLeaves, Zenon DEF HandleInv
<1>2. r \in {"none", "ok", "error", "closed"} /\ Busy(c)
  BY Zenon DEF HandleInv, HandleTypeOK, Busy
<1>3. HandleTypeOK'
  BY <1>1, <1>2, HandleLeft DEF HandleInv, HandleTypeOK
<1>4. OwnVariables'
  BY DEF HandleInv, OwnVariables, Handle!OwnVariables
<1>5. OkStatementsKept'
  BY <1>1, <1>2 DEF HandleInv, HandleTypeOK, TakenByOne, OkStatementsKept,
                    Handle!OkStatementsKept, Leaves
<1>6. QED
  BY <1>1, <1>2, <1>3, <1>4, <1>5, HandleLeft, Zenon DEF HandleInv

\* A variable is set.
LEMMA HandleSetNext ==
  ASSUME HandleInv, NEW c \in Callers, hpc[c] = "working", UNCHANGED <<driver, op>>,
         Handle!SetNext(c)
  PROVE  HandleInv'
<1> USE DEF Handle!SetNext, Handle!handle
<1>1. HandleTypeOK'
  BY CallsAssumption DEF CallsAssumption, HandleInv, HandleTypeOK
<1>2. TakenByOne'
  BY DEF HandleInv, TakenByOne, Busy
<1>3. VariablesSet'
  BY CallsAssumption
     DEF CallsAssumption, HandleInv, HandleTypeOK, TakenByOne, VariablesSet, Busy
<1>4. OwnVariables' /\ OkStatementsKept'
  BY DEF HandleInv, OwnVariables, OkStatementsKept,
         Handle!OwnVariables, Handle!OkStatementsKept
<1>5. QED
  BY <1>1, <1>2, <1>3, <1>4, Zenon DEF HandleInv

\* MySQL: the variables are cleared, and then the caller answers.
LEMMA HandleClears ==
  ASSUME HandleInv, NEW c \in Callers,
         Handle!clear_session_vars(c) \/ Handle!mysql_answer(c)
  PROVE  HandleInv'
<1>1. CASE Handle!clear_session_vars(c)
  <2> USE <1>1 DEF Handle!clear_session_vars, Handle!handle
  <2>1. HandleTypeOK'
    BY CallsAssumption DEF CallsAssumption, HandleInv, HandleTypeOK
  <2>2. TakenByOne' /\ VariablesSet'
    BY DEF HandleInv, HandleTypeOK, TakenByOne, VariablesSet, Busy
  <2>3. OwnVariables' /\ OkStatementsKept'
    BY DEF HandleInv, OwnVariables, OkStatementsKept,
           Handle!OwnVariables, Handle!OkStatementsKept
  <2>4. QED
    BY <2>1, <2>2, <2>3, Zenon DEF HandleInv
<1>2. ASSUME hpc[c] = "clearing", Handle!put, UNCHANGED Handle!database,
             Handle!Answer(c, IF c \in ran THEN "ok" ELSE "error"),
             UNCHANGED <<driver, op>>
      PROVE  HandleInv'
  <2> USE <1>2 DEF Handle!put, Handle!Answer, Handle!database
  <2>1. HandleTypeOK'
    BY CallsAssumption DEF CallsAssumption, HandleInv, HandleTypeOK
  <2>2. TakenByOne' /\ VariablesSet'
    BY DEF HandleInv, HandleTypeOK, TakenByOne, VariablesSet, Busy
  <2>3. OwnVariables' /\ OkStatementsKept'
    BY DEF HandleInv, HandleTypeOK, OwnVariables, OkStatementsKept, TakenByOne, Busy,
           Handle!OwnVariables, Handle!OkStatementsKept
  <2>4. QED
    BY <2>1, <2>2, <2>3, Zenon DEF HandleInv
<1>3. QED
  BY <1>1, <1>2, HandleRolledBack, Zenon DEF Handle!mysql_answer, Busy

\* commit() reaches the server.
LEMMA HandleCommitted ==
  ASSUME HandleInv, NEW c \in Callers, NEW r \in {"ok", "error"},
         hpc[c] = "working", op[c] = "commit", tx' = "committed", durable' = ran,
         value' = IF driver = "postgres" THEN Handle!Unset ELSE value,
         Handle!Answer(c, r), UNCHANGED <<driver, op, inner, aborted, ran, saw>>
  PROVE  HandleInv'
<1> USE DEF Handle!Answer
<1>1. HandleTypeOK'
  BY CallsAssumption DEF CallsAssumption, HandleInv, HandleTypeOK, Handle!Unset
<1>2. TakenByOne' /\ VariablesSet'
  BY DEF HandleInv, HandleTypeOK, TakenByOne, VariablesSet, Busy
<1>3. OwnVariables'
  BY DEF HandleInv, OwnVariables, Handle!OwnVariables
<1>4. OkStatementsKept'
  BY DEF HandleInv, HandleTypeOK, OkStatementsKept, Handle!OkStatementsKept,
         TakenByOne, Busy, Handle!Statements
<1>5. QED
  BY <1>1, <1>2, <1>3, <1>4, Zenon DEF HandleInv

\* Every operation of the handle keeps the invariant.
LEMMA HandleStep ==
  ASSUME HandleInv, NEW c \in Callers, Handle!Step(c) PROVE HandleInv'
<1>1. CASE Handle!take(c) \/ Handle!take_closed(c)
  <2> USE <1>1 DEF Handle!take, Handle!take_closed, Handle!Answer, Handle!handle,
                   Handle!database
  <2>1. HandleTypeOK'
    <3>1. left' \in [Callers -> 0 .. Keys]
      BY CallsAssumption DEF CallsAssumption, HandleInv, HandleTypeOK, Handle!Variables
    <3>2. /\ hpc' \in [Callers -> {"idle", "working", "clearing", "done"}]
          /\ reply' \in [Callers -> {"none", "ok", "error", "closed"}]
      BY Zenon DEF HandleInv, HandleTypeOK
    <3>3. QED
      BY SMTT(30), <3>1, <3>2 DEF HandleInv, HandleTypeOK
  <2>2. TakenByOne'
    BY DEF HandleInv, HandleTypeOK, TakenByOne, Busy
  <2>3. VariablesSet'
    <3> SUFFICES ASSUME NEW d \in Callers, hpc'[d] = "working",
                        op[d] \in Handle!Statements, driver # "sqlite",
                        NEW k \in left'[d] + 1 .. Keys
                 PROVE  value[k] = {d}
      BY DEF VariablesSet
    <3>1. CASE d = c
      <4>1. left'[d] = Keys
        BY <3>1 DEF HandleInv, HandleTypeOK, Handle!Variables
      <4>2. QED
        BY <4>1, CallsAssumption DEF CallsAssumption
    <3>2. CASE d # c
      BY <3>2 DEF HandleInv, HandleTypeOK, VariablesSet
    <3>3. QED
      BY <3>1, <3>2
  <2>4. OwnVariables' /\ OkStatementsKept'
    BY DEF HandleInv, HandleTypeOK, OwnVariables, OkStatementsKept,
           Handle!OwnVariables, Handle!OkStatementsKept
  <2>5. QED
    BY <2>1, <2>2, <2>3, <2>4, Zenon DEF HandleInv
<1>2. CASE Handle!pg_execute(c) \/ Handle!pg_execute_affected(c)
  <2>1. hpc[c] = "working" /\ op[c] \in Handle!Statements /\ UNCHANGED <<driver, op>>
    BY <1>2, Zenon DEF Handle!pg_execute, Handle!pg_execute_affected, Handle!Working,
                       Handle!Statements
  <2>2. Handle!SetNext(c) \/ Handle!SetFails(c) \/ Handle!Ok(c) \/ Handle!Err(c)
          \/ Handle!Undecoded(c)
    BY <1>2, Zenon DEF Handle!pg_execute, Handle!pg_execute_affected
  <2>3. QED
    BY <2>1, <2>2, HandleSetNext, HandleRefused, HandleRan, HandleRolledBack, Zenon
       DEF Handle!SetFails, Handle!Ok, Handle!Err, Handle!Refused, Handle!Undecoded, Busy
<1>3. CASE Handle!mysql_execute(c) \/ Handle!mysql_execute_affected(c)
  <2>1. hpc[c] = "working" /\ op[c] \in Handle!Statements /\ UNCHANGED <<driver, op>>
    BY <1>3, Zenon DEF Handle!mysql_execute, Handle!mysql_execute_affected,
                       Handle!Working, Handle!Statements
  <2>2. \/ Handle!SetNext(c) \/ Handle!SetFails(c)
        \/ Handle!Submitted(c) /\ Handle!Clearing(c)
        \/ Handle!Refused(c) /\ Handle!Clearing(c)
    BY <1>3, Zenon DEF Handle!mysql_execute, Handle!mysql_execute_affected,
                       Handle!apply_session_vars
  <2>3. QED
    BY <2>1, <2>2, HandleSetNext, HandleRefused, HandleRan, Zenon
       DEF Handle!SetFails, Handle!Refused
<1>4. CASE Handle!sqlite_execute(c) \/ Handle!sqlite_execute_affected(c)
  <2>1. hpc[c] = "working" /\ op[c] \in Handle!Statements /\ UNCHANGED <<driver, op>>
    BY <1>4, Zenon DEF Handle!sqlite_execute, Handle!sqlite_execute_affected,
                       Handle!Working, Handle!Statements
  <2>2. Handle!Ok(c) \/ Handle!Err(c)
    BY <1>4, Zenon DEF Handle!sqlite_execute, Handle!sqlite_execute_affected
  <2>3. QED
    BY <2>1, <2>2, HandleRefused, HandleRan, Zenon
       DEF Handle!Ok, Handle!Err, Handle!Refused
<1>5. CASE Handle!clear_session_vars(c) \/ Handle!mysql_answer(c)
  BY <1>5, HandleClears
<1>6. CASE Handle!commit(c)
  BY <1>6, HandleCommitted, HandleRolledBack, Zenon
     DEF Handle!commit, Handle!Ending, Busy
<1>7. CASE Handle!rollback(c) \/ Handle!Dropped(c)
  BY <1>7, HandleRolledBack, Zenon
     DEF Handle!rollback, Handle!Ending, Handle!Dropped, Busy
<1>8. QED
  BY <1>1, <1>2, <1>3, <1>4, <1>5, <1>6, <1>7, Zenon DEF Handle!Step

LEMMA HandleInvAlways == Handle!Spec => []HandleInv
<1>1. Handle!Init => HandleInv
  BY CallsAssumption
     DEF CallsAssumption, Handle!Init, HandleInv, HandleTypeOK, TakenByOne, VariablesSet, Busy,
         OwnVariables, OkStatementsKept, Handle!OwnVariables, Handle!OkStatementsKept,
         Handle!Operations, Handle!Statements, Handle!Unset
<1>2. HandleInv /\ [Handle!Next]_(Handle!vars) => HandleInv'
  <2> SUFFICES ASSUME HandleInv, [Handle!Next]_(Handle!vars) PROVE HandleInv'
    OBVIOUS
  <2>1. CASE Handle!drop
    BY <2>1
       DEF Handle!drop, HandleInv, HandleTypeOK, TakenByOne, VariablesSet, Busy,
           OwnVariables, OkStatementsKept, Handle!OwnVariables,
           Handle!OkStatementsKept, Handle!Unset, Handle!Statements
  <2>2. CASE UNCHANGED Handle!vars
    BY <2>2
       DEF Handle!vars, HandleInv, HandleTypeOK, TakenByOne, VariablesSet, Busy,
           OwnVariables, OkStatementsKept, Handle!OwnVariables, Handle!OkStatementsKept
  <2>3. QED
    BY <2>1, <2>2, HandleStep DEF Handle!Next
<1>3. QED
  BY <1>1, <1>2, PTL DEF Handle!Spec

\* OwnVariables holds for any number of callers and of session variables: what
\* take() moves out of the Option keeps the variables of two calls apart.
THEOREM StatementsUseTheirOwnVariables == Handle!Spec => []OwnVariables
<1>1. HandleInv => OwnVariables
  BY DEF HandleInv
<1>2. QED
  BY <1>1, HandleInvAlways, PTL

\* OkStatementsKept holds for any number of callers, whatever futures are
\* dropped.
THEOREM OkStatementsAreKept == Handle!Spec => []OkStatementsKept
<1>1. HandleInv => OkStatementsKept
  BY DEF HandleInv
<1>2. QED
  BY <1>1, HandleInvAlways, PTL

----------------------------------------------------------------------------
(* TokenRotator                                                             *)

TokenTypeOK ==
  /\ task \in {"sleeping", "fetching", "applying", "stopped"}
  /\ elapsed \in Nat /\ token \in Nat /\ fetched \in Nat /\ failures \in Nat

\* What the rotations that failed since the last one add to the token's age.
Missed == failures * (Token!interval_for + MaxFetch)

\* The token's age is bounded by where the task is: a sleep begins at most a
\* fetch after the token was made, and a rotation a sleep later.
TokenAges ==
  /\ task = "sleeping" => elapsed <= Token!interval_for
  /\ task \in {"fetching", "applying"} => elapsed <= MaxFetch
  /\ task = "applying" => fetched <= elapsed
  /\ held => task # "stopped"
  /\ held /\ task = "sleeping" => token <= MaxFetch + elapsed + Missed
  /\ held /\ task \in {"fetching", "applying"} =>
       token <= MaxFetch + Token!interval_for + elapsed + Missed

LEMMA IntervalInNat == Token!interval_for \in Nat
  BY CallsAssumption DEF CallsAssumption, Token!interval_for

\* interval_for, with room for two fetches, ends a sleep in time.
LEMMA IntervalLeavesRoom ==
  Token!RoomForTwoFetches => Token!interval_for + 2 * MaxFetch < TTL
  BY CallsAssumption DEF CallsAssumption, Token!interval_for, Token!RoomForTwoFetches

\* TokenValid holds for every TTL, margin, interval and duration of a fetch.
THEOREM PoolTokenStaysValid == Token!Spec => []TokenValid
<1> USE CallsAssumption, IntervalInNat DEF CallsAssumption
<1>0. TokenTypeOK => Missed \in Nat
  BY DEF TokenTypeOK, Missed
<1>1. Token!Init => TokenTypeOK /\ TokenAges
  BY SMTT(30) DEF Token!Init, TokenTypeOK, TokenAges, Missed
<1>2. TokenTypeOK /\ TokenAges /\ [Token!Next]_(Token!vars) => (TokenTypeOK /\ TokenAges)'
  <2> SUFFICES ASSUME TokenTypeOK, TokenAges, [Token!Next]_(Token!vars)
               PROVE  (TokenTypeOK /\ TokenAges)'
    OBVIOUS
  <2>0. /\ Missed \in Nat
        /\ failures' = failures => Missed' = Missed
        /\ failures' = 0 => Missed' = 0
        /\ failures' = failures + 1 => Missed' = Missed + Token!interval_for + MaxFetch
    BY <1>0 DEF TokenTypeOK, Missed
  <2> USE <2>0 DEF TokenTypeOK, TokenAges
  <2>1. CASE Token!Tick
    BY <2>1 DEF Token!Tick, Token!Due, Token!Older
  <2>2. CASE Token!Wake
    BY <2>2 DEF Token!Wake
  <2>3. CASE Token!Cancelled
    BY <2>3 DEF Token!Cancelled
  <2>4. CASE Token!FetchToken
    BY <2>4 DEF Token!FetchToken
  <2>5. CASE Token!Apply
    BY <2>5 DEF Token!Apply
  <2>6. CASE Token!RotationFails
    BY <2>6 DEF Token!RotationFails
  <2>7. CASE Token!Teardown
    BY <2>7 DEF Token!Teardown
  <2>8. CASE Token!WatchDropsRotator
    BY <2>8 DEF Token!WatchDropsRotator
  <2>9. CASE UNCHANGED Token!vars
    BY <2>9 DEF Token!vars
  <2>10. QED
    BY Zenon, <2>1, <2>2, <2>3, <2>4, <2>5, <2>6, <2>7, <2>8, <2>9
       DEF Token!Next, Token!Task
<1>3. TokenTypeOK /\ TokenAges => TokenValid
  BY <1>0, IntervalLeavesRoom DEF TokenTypeOK, TokenAges, TokenValid, Token!TokenValid, Missed
<1>4. QED
  BY <1>1, <1>2, <1>3, PTL DEF Token!Spec
=============================================================================
