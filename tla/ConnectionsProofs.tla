------------------------- MODULE ConnectionsProofs -------------------------
(***************************************************************************)
(* execute_transaction is atomic and loses no connection, for any number   *)
(* of calls, any size of group and any size of pool; and so it is with     *)
(* the connections of single calls, the session variables on them and      *)
(* SQLite's cancels, for any number of calls and connections.              *)
(***************************************************************************)
EXTENDS Connections, FiniteSetTheorems, TLAPS

\* Where the transaction of a call is at each of its steps: what has to be known
\* to see that the properties above are kept.
PhaseInv ==
    \A g \in Groups :
        /\ pc[g] = "begin" => g \notin leased /\ ~inner[g] /\ pending[g] = 0
        /\ pc[g] = "isolate" => g \in leased /\ ~inner[g] /\ pending[g] = 0
        /\ pc[g] = "step" => g \in leased /\ inner[g] /\ at[g] = pending[g] + 1
        /\ pc[g] = "running" => /\ g \in leased
                                /\ ~inner[g]
                                /\ at[g] = pending[g] + 1
                                /\ at[g] <= Size
        /\ pc[g] = "rollback" => (inner[g] <=> g \in leased)
        /\ pc[g] = "done" => g \notin leased
        /\ pc[g] # "done" => durable[g] = 0 /\ reply[g] = "none"

\* The connections are counted.
Counted == free + Cardinality(leased) = PoolSize

IInv == TypeOK /\ PhaseInv /\ Counted /\ AllOrNothing

\* Giving a leased connection back keeps the count; giving none back too.
LEMMA ReleaseCounted ==
  ASSUME IInv, NEW g \in Groups, Release(g)
  PROVE  Counted' /\ free' \in 0 .. PoolSize /\ leased' \subseteq Groups
<1>1. IsFiniteSet(leased) /\ Cardinality(leased) \in Nat
  BY TransactionsAssumption, FS_Subset, FS_CardinalityType
     DEF TransactionsAssumption, IInv, TypeOK
<1>2. IsFiniteSet(leased') /\ Cardinality(leased') \in Nat
  BY <1>1, FS_RemoveElement, FS_CardinalityType, leased' = leased \ {g} DEF Release
<1>3. Cardinality(leased') = Cardinality(leased) - (IF g \in leased THEN 1 ELSE 0)
  <2>1. leased' = leased \ {g}
    BY DEF Release
  <2>2. Cardinality(leased \ {g}) =
          IF g \in leased THEN Cardinality(leased) - 1 ELSE Cardinality(leased)
    BY ONLY <1>1, FS_RemoveElement, Zenon
  <2> QED BY ONLY <1>1, <2>1, <2>2
<1> QED BY <1>1, <1>2, <1>3, TransactionsAssumption
        DEF TransactionsAssumption, Release, Counted, IInv, TypeOK

\* Taking a connection for a call that has none keeps the count.
LEMMA BeginCounted ==
  ASSUME IInv, NEW g \in Groups, Begin(g)
  PROVE  Counted' /\ free' \in 0 .. PoolSize /\ leased' \subseteq Groups
<1>1. IsFiniteSet(leased) /\ Cardinality(leased) \in Nat
  BY TransactionsAssumption, FS_Subset, FS_CardinalityType
     DEF TransactionsAssumption, IInv, TypeOK
<1>2. g \notin leased
  BY DEF IInv, PhaseInv, Begin
<1>3. leased' = leased \cup {g}
  BY DEF Begin
<1>4. Cardinality(leased') = Cardinality(leased) + 1
  BY SMTT(30), <1>1, <1>2, <1>3, FS_AddElement
<1> QED BY <1>1, <1>3, <1>4, TransactionsAssumption
        DEF TransactionsAssumption, Begin, Counted, IInv, TypeOK

\* At first every connection is in the pool.
LEMMA InitIInv == Init => IInv
<1> SUFFICES ASSUME Init PROVE IInv
  OBVIOUS
<1> USE TransactionsAssumption DEF TransactionsAssumption, Init
<1>1. TypeOK
  BY DEF TypeOK
<1>2. PhaseInv
  BY DEF PhaseInv
<1>3. Counted
  BY FS_EmptySet DEF Counted
<1>4. AllOrNothing
  BY DEF AllOrNothing
<1> QED BY <1>1, <1>2, <1>3, <1>4 DEF IInv

\* Each step of a call keeps the invariant.
LEMMA NextIInv == IInv /\ [Next]_vars => IInv'
<1> SUFFICES ASSUME IInv, [Next]_vars PROVE IInv'
  OBVIOUS
<1> USE TransactionsAssumption DEF TransactionsAssumption
<1>1. ASSUME NEW g \in Groups, Begin(g) PROVE IInv'
  <2>1. Counted' /\ free' \in 0 .. PoolSize /\ leased' \subseteq Groups
    BY <1>1, BeginCounted
  <2>2. TypeOK'
    BY <1>1, <2>1 DEF Begin, Goto, IInv, TypeOK
  <2>3. PhaseInv'
    BY <1>1 DEF Begin, Goto, IInv, TypeOK, PhaseInv
  <2>4. AllOrNothing'
    BY <1>1 DEF Begin, Goto, IInv, TypeOK, PhaseInv, AllOrNothing
  <2> QED BY <2>1, <2>2, <2>3, <2>4 DEF IInv
<1>2. ASSUME NEW g \in Groups, BeginFails(g) PROVE IInv'
  <2>1. Counted' /\ free' \in 0 .. PoolSize /\ leased' \subseteq Groups
    BY <1>2 DEF BeginFails, IInv, TypeOK, Counted
  <2>2. TypeOK'
    BY <1>2, <2>1 DEF BeginFails, Answer, Goto, IInv, TypeOK
  <2>3. PhaseInv'
    BY <1>2 DEF BeginFails, Answer, Goto, IInv, TypeOK, PhaseInv
  <2>4. AllOrNothing'
    BY <1>2 DEF BeginFails, Answer, Goto, IInv, TypeOK, PhaseInv, AllOrNothing
  <2> QED BY <2>1, <2>2, <2>3, <2>4 DEF IInv
<1>3. ASSUME NEW g \in Groups, Isolate(g) PROVE IInv'
  <2>1. Counted' /\ free' \in 0 .. PoolSize /\ leased' \subseteq Groups
    BY <1>3 DEF Isolate, IInv, TypeOK, Counted
  <2>2. TypeOK'
    BY <1>3, <2>1 DEF Isolate, Goto, IInv, TypeOK
  <2>3. PhaseInv'
    BY <1>3 DEF Isolate, Goto, IInv, TypeOK, PhaseInv
  <2>4. AllOrNothing'
    BY <1>3 DEF Isolate, Goto, IInv, TypeOK, PhaseInv, AllOrNothing
  <2> QED BY <2>1, <2>2, <2>3, <2>4 DEF IInv
<1>4. ASSUME NEW g \in Groups, IsolateFails(g) PROVE IInv'
  <2>1. Counted' /\ free' \in 0 .. PoolSize /\ leased' \subseteq Groups
    BY <1>4, ReleaseCounted DEF IsolateFails, Discard
  <2>2. TypeOK'
    BY <1>4, <2>1 DEF IsolateFails, Discard, Release, Answer, Goto, IInv, TypeOK
  <2>3. PhaseInv'
    BY <1>4 DEF IsolateFails, Discard, Release, Answer, Goto, IInv, TypeOK, PhaseInv
  <2>4. AllOrNothing'
    BY <1>4 DEF IsolateFails, Discard, Release, Answer, Goto, IInv, TypeOK, PhaseInv, AllOrNothing
  <2> QED BY <2>1, <2>2, <2>3, <2>4 DEF IInv
<1>5. ASSUME NEW g \in Groups, StepTake(g) PROVE IInv'
  <2>1. Counted' /\ free' \in 0 .. PoolSize /\ leased' \subseteq Groups
    BY <1>5 DEF StepTake, IInv, TypeOK, Counted
  <2>2. TypeOK'
    BY <1>5, <2>1 DEF StepTake, Goto, IInv, TypeOK
  <2>3. PhaseInv'
    BY <1>5 DEF StepTake, Goto, IInv, TypeOK, PhaseInv
  <2>4. AllOrNothing'
    BY <1>5 DEF StepTake, Goto, IInv, TypeOK, PhaseInv, AllOrNothing
  <2> QED BY <2>1, <2>2, <2>3, <2>4 DEF IInv
<1>6. ASSUME NEW g \in Groups, StepRefused(g) PROVE IInv'
  <2>1. Counted' /\ free' \in 0 .. PoolSize /\ leased' \subseteq Groups
    BY <1>6 DEF StepRefused, IInv, TypeOK, Counted
  <2>2. TypeOK'
    BY <1>6, <2>1 DEF StepRefused, Goto, IInv, TypeOK
  <2>3. PhaseInv'
    BY <1>6 DEF StepRefused, Goto, IInv, TypeOK, PhaseInv
  <2>4. AllOrNothing'
    BY <1>6 DEF StepRefused, Goto, IInv, TypeOK, PhaseInv, AllOrNothing
  <2> QED BY <2>1, <2>2, <2>3, <2>4 DEF IInv
<1>7. ASSUME NEW g \in Groups, StepOk(g) PROVE IInv'
  <2>1. Counted' /\ free' \in 0 .. PoolSize /\ leased' \subseteq Groups
    BY <1>7 DEF StepOk, IInv, TypeOK, Counted
  <2>2. TypeOK'
    BY <1>7, <2>1 DEF StepOk, Goto, IInv, TypeOK, PhaseInv
  <2>3. PhaseInv'
    BY <1>7 DEF StepOk, Goto, IInv, TypeOK, PhaseInv
  <2>4. AllOrNothing'
    BY <1>7 DEF StepOk, Goto, IInv, TypeOK, PhaseInv, AllOrNothing
  <2> QED BY <2>1, <2>2, <2>3, <2>4 DEF IInv
<1>8. ASSUME NEW g \in Groups, StepErr(g) PROVE IInv'
  <2>1. Counted' /\ free' \in 0 .. PoolSize /\ leased' \subseteq Groups
    BY <1>8 DEF StepErr, IInv, TypeOK, Counted
  <2>2. TypeOK'
    BY <1>8, <2>1 DEF StepErr, Goto, IInv, TypeOK
  <2>3. PhaseInv'
    BY <1>8 DEF StepErr, Goto, IInv, TypeOK, PhaseInv
  <2>4. AllOrNothing'
    BY <1>8 DEF StepErr, Goto, IInv, TypeOK, PhaseInv, AllOrNothing
  <2> QED BY <2>1, <2>2, <2>3, <2>4 DEF IInv
<1>9. ASSUME NEW g \in Groups, StepUndecoded(g) PROVE IInv'
  <2>1. Counted' /\ free' \in 0 .. PoolSize /\ leased' \subseteq Groups
    BY <1>9, ReleaseCounted DEF StepUndecoded, Discard
  <2>2. TypeOK'
    BY <1>9, <2>1 DEF StepUndecoded, Discard, Release, Goto, IInv, TypeOK
  <2>3. PhaseInv'
    BY <1>9 DEF StepUndecoded, Discard, Release, Goto, IInv, TypeOK, PhaseInv
  <2>4. AllOrNothing'
    BY <1>9 DEF StepUndecoded, Discard, Release, Goto, IInv, TypeOK, PhaseInv, AllOrNothing
  <2> QED BY <2>1, <2>2, <2>3, <2>4 DEF IInv
<1>10. ASSUME NEW g \in Groups, Rollback(g) PROVE IInv'
  <2>1. Counted' /\ free' \in 0 .. PoolSize /\ leased' \subseteq Groups
    <3>1. CASE inner[g]
      BY <1>10, <3>1, ReleaseCounted DEF Rollback, Discard
    <3>2. CASE ~inner[g]
      BY <1>10, <3>2 DEF Rollback, IInv, TypeOK, Counted
    <3> QED BY <3>1, <3>2
  <2>2. TypeOK'
    <3>1. CASE inner[g]
      <4>1. Release(g) /\ UNCHANGED <<durable, at>> /\ Answer(g, "failed")
        BY <1>10, <3>1 DEF Rollback, Discard
      <4> QED BY <2>1, <4>1 DEF Release, Answer, Goto, IInv, TypeOK
    <3>2. CASE ~inner[g]
      BY <1>10, <2>1, <3>2 DEF Rollback, Answer, Goto, IInv, TypeOK
    <3> QED BY <3>1, <3>2
  <2>3. PhaseInv'
    BY <1>10 DEF Rollback, Discard, Release, Answer, Goto, IInv, TypeOK, PhaseInv
  <2>4. AllOrNothing'
    BY <1>10 DEF Rollback, Discard, Release, Answer, Goto, IInv, TypeOK, PhaseInv, AllOrNothing
  <2> QED BY <2>1, <2>2, <2>3, <2>4 DEF IInv
<1>11. ASSUME NEW g \in Groups, Commit(g) PROVE IInv'
  <2>1. Counted' /\ free' \in 0 .. PoolSize /\ leased' \subseteq Groups
    BY <1>11, ReleaseCounted DEF Commit
  <2>2. TypeOK'
    BY <1>11, <2>1 DEF Commit, Release, Answer, Goto, IInv, TypeOK, PhaseInv
  <2>3. PhaseInv'
    BY <1>11 DEF Commit, Release, Answer, Goto, IInv, TypeOK, PhaseInv
  <2>4. AllOrNothing'
    BY <1>11 DEF Commit, Release, Answer, Goto, IInv, TypeOK, PhaseInv, AllOrNothing
  <2> QED BY <2>1, <2>2, <2>3, <2>4 DEF IInv
<1>12. ASSUME NEW g \in Groups, CommitFails(g) PROVE IInv'
  <2>1. Counted' /\ free' \in 0 .. PoolSize /\ leased' \subseteq Groups
    BY <1>12, ReleaseCounted DEF CommitFails
  <2>2. TypeOK'
    BY <1>12, <2>1 DEF CommitFails, Release, Answer, Goto, IInv, TypeOK, PhaseInv
  <2>3. PhaseInv'
    BY <1>12 DEF CommitFails, Release, Answer, Goto, IInv, TypeOK, PhaseInv
  <2>4. AllOrNothing'
    BY <1>12 DEF CommitFails, Release, Answer, Goto, IInv, TypeOK, PhaseInv, AllOrNothing
  <2> QED BY <2>1, <2>2, <2>3, <2>4 DEF IInv
<1>13. ASSUME NEW g \in Groups, GiveUp(g) PROVE IInv'
  <2>1. Counted' /\ free' \in 0 .. PoolSize /\ leased' \subseteq Groups
    BY <1>13, ReleaseCounted DEF GiveUp, Discard
  <2>2. TypeOK'
    BY <1>13, <2>1 DEF GiveUp, Discard, Release, Answer, Goto, IInv, TypeOK
  <2>3. PhaseInv'
    BY <1>13 DEF GiveUp, Discard, Release, Answer, Goto, IInv, TypeOK, PhaseInv
  <2>4. AllOrNothing'
    BY <1>13 DEF GiveUp, Discard, Release, Answer, Goto, IInv, TypeOK, PhaseInv, AllOrNothing
  <2> QED BY <2>1, <2>2, <2>3, <2>4 DEF IInv
<1>14. CASE UNCHANGED vars
  BY <1>14 DEF vars, IInv, TypeOK, PhaseInv, Counted, AllOrNothing
<1> QED BY <1>1, <1>2, <1>3, <1>4, <1>5, <1>6, <1>7, <1>8, <1>9, <1>10, <1>11, <1>12, <1>13, <1>14 DEF Next, Proceed

\* The values stay in their types: the statement counter within the group, the
\* pool between empty and full.
THEOREM TypeCorrect == Spec => []TypeOK
<1>1. IInv => TypeOK
  BY DEF IInv
<1> QED BY InitIInv, NextIInv, <1>1, PTL DEF Spec

\* A group takes effect whole or not at all, and the answer says which.
THEOREM GroupsAtomic == Spec => []AllOrNothing
<1>1. IInv => AllOrNothing
  BY DEF IInv
<1> QED BY InitIInv, NextIInv, <1>1, PTL DEF Spec

\* Whatever fails and whenever a call is given up, no connection is lost.
THEOREM NoConnectionLost == Spec => []ConnectionsConserved
<1>1. IInv => ConnectionsConserved
  BY DEF IInv, PhaseInv, Counted, ConnectionsConserved
<1> QED BY InitIInv, NextIInv, <1>1, PTL DEF Spec

\* execute_transaction implements the atomic group: the commit is the step at
\* which a group takes effect, and every other step answers or is invisible.
THEOREM Implements == Spec => AtomicSpec
<1>1. Init => Atomic!Init
  BY DEF Init, Atomic!Init
<1>2. IInv /\ [Next]_vars => [Atomic!Next]_<<durable, reply>>
  <2> SUFFICES ASSUME IInv, [Next]_vars
               PROVE  Atomic!Next \/ UNCHANGED <<durable, reply>>
    OBVIOUS
  <2> USE TransactionsAssumption DEF TransactionsAssumption
  <2>1. ASSUME NEW g \in Groups, BeginFails(g) \/ IsolateFails(g) \/ Rollback(g)
        PROVE  Atomic!Answer(g)
    BY <2>1 DEF BeginFails, IsolateFails, Rollback, Discard, Answer, Atomic!Answer,
                IInv, TypeOK, PhaseInv
  <2>2. ASSUME NEW g \in Groups, GiveUp(g)
        PROVE  Atomic!Answer(g)
    BY <2>2 DEF GiveUp, Discard, Answer, Atomic!Answer, IInv, TypeOK, PhaseInv
  <2>3. ASSUME NEW g \in Groups, Commit(g)
        PROVE  Atomic!TakeEffect(g)
    <3>1. pending[g] = Size /\ durable[g] = 0 /\ reply[g] = "none"
      BY <2>3 DEF Commit, IInv, TypeOK, PhaseInv
    <3> QED BY <2>3, <3>1 DEF Commit, Answer, Atomic!TakeEffect
  <2>4. ASSUME NEW g \in Groups, CommitFails(g)
        PROVE  Atomic!TakeEffect(g) \/ Atomic!Answer(g)
    <3>1. pending[g] = Size /\ durable[g] = 0 /\ reply[g] = "none"
      BY <2>4 DEF CommitFails, IInv, TypeOK, PhaseInv
    <3>2. reply' = [reply EXCEPT ![g] = "in_doubt"]
      BY <2>4 DEF CommitFails, Answer
    <3>3. CASE durable' = [durable EXCEPT ![g] = Size]
      BY <3>1, <3>2, <3>3 DEF Atomic!TakeEffect
    <3>4. CASE durable' = [durable EXCEPT ![g] = 0]
      <4>1. durable' = durable
        BY <3>1, <3>4 DEF IInv, TypeOK
      <4> QED BY <3>1, <3>2, <4>1 DEF Atomic!Answer
    <3> QED BY Zenon, <2>4, <3>1, <3>3, <3>4 DEF CommitFails
  <2>5. ASSUME NEW g \in Groups,
               Begin(g) \/ Isolate(g) \/ StepTake(g) \/ StepRefused(g)
                 \/ StepOk(g) \/ StepErr(g) \/ StepUndecoded(g)
        PROVE  UNCHANGED <<durable, reply>>
    BY <2>5 DEF Begin, Isolate, StepTake, StepRefused, StepOk, StepErr,
                StepUndecoded, Discard
  <2>6. CASE UNCHANGED vars
    BY <2>6 DEF vars
  <2> QED BY <2>1, <2>2, <2>3, <2>4, <2>5, <2>6 DEF Next, Proceed, Atomic!Next
<1> QED BY InitIInv, NextIInv, <1>1, <1>2, PTL DEF Spec, AtomicSpec, Atomic!Spec

----------------------------------------------------------------------------
(* DriverExec                                                               *)

Holding == {"pinned", "identified", "running", "teardown"}

\* A call holds a connection exactly while its driver runs, and a cancel
\* exactly while it is about to be sent.
HoldInv ==
    /\ \A c \in Calls : conn[c] # None <=> epc[c] \in Holding
    /\ \A c \in Calls : side[c] # None <=> cpc[c] = "acquired"

\* Outside MySQL, variables are on a connection only while the call that set
\* them holds it.
SessionInv ==
    driver # "mysql" => \A k \in Conns : \A c \in session[k] : conn[c] = k

\* SQLite's cancels go by the nonce of the query.  A handler belongs to a query
\* that has started; while that query is in the table it holds the connection
\* the handler is on; a flag is set for a query whose cancel was asked for.
NonceInv ==
    driver = "sqlite" =>
      /\ \A c \in Calls : backend[c] \in {c, None} /\ target[c] \in {c, None}
      /\ \A c \in Calls : cpc[c] # "acquired"
      /\ \A c \in Calls : cpc[c] = "read" => asked[c] # "no"
      /\ \A q \in active : epc[q] \in {"identified", "running", "teardown"}
      /\ \A k \in Conns : handler[k] # None => epc[handler[k]] \notin {"idle", "pinned"}
      /\ \A k \in Conns : handler[k] \in active => conn[handler[k]] = k
      /\ \A q \in flagged : asked[q] # "no"
      /\ \A q \in interrupted : asked[q] # "no"

ExecIInv == Exec!TypeOK /\ HoldInv /\ ConnectionsAccounted /\ SessionInv /\ NonceInv

\* Initially every connection is idle and clean.
LEMMA ExecInitIInv == Exec!Init => ExecIInv
  BY SMTT(30), DriverAssumption DEF DriverAssumption, Exec!Init, ExecIInv, Exec!TypeOK, HoldInv, Holding,
     ConnectionsAccounted, Exec!ConnectionsAccounted, SessionInv, NonceInv

\* One step per action and conjunct of the invariant.
LEMMA TypeStep == ExecIInv /\ [Exec!Next]_(Exec!vars) => Exec!TypeOK'
<1> SUFFICES ASSUME ExecIInv, [Exec!Next]_(Exec!vars) PROVE Exec!TypeOK'
  OBVIOUS
<1> USE DriverAssumption DEF DriverAssumption, ExecIInv, Exec!TypeOK, HoldInv, Holding,
                             Exec!Goto, Exec!Release, Exec!Leave, Exec!Interrupt,
                             Exec!sqliteVars, Exec!cancelVars
<1>1. ASSUME NEW c \in Calls, Exec!Acquire(c) \/ Exec!Identify(c) PROVE Exec!TypeOK'
  BY <1>1 DEF Exec!Acquire, Exec!Identify
<1>2. ASSUME NEW c \in Calls, Exec!ApplySession(c) \/ Exec!SessionFails(c) \/ Exec!Complete(c)
      PROVE  Exec!TypeOK'
  BY <1>2 DEF Exec!ApplySession, Exec!SessionFails, Exec!Complete
<1>3. ASSUME NEW c \in Calls, Exec!Teardown(c) PROVE Exec!TypeOK'
  BY <1>3 DEF Exec!Teardown
<1>4. ASSUME NEW c \in Calls, Exec!Drop(c) \/ Exec!Unregister(c) PROVE Exec!TypeOK'
  BY <1>4 DEF Exec!Drop, Exec!Unregister
<1>5. ASSUME NEW c \in Calls, Exec!CancelRead(c) \/ Exec!CancelAcquire(c) \/ Exec!CancelTimesOut(c)
      PROVE  Exec!TypeOK'
  BY <1>5 DEF Exec!CancelRead, Exec!CancelAcquire, Exec!CancelTimesOut
<1>6. ASSUME NEW c \in Calls, Exec!CancelSend(c) \/ Exec!CancelFlag(c) PROVE Exec!TypeOK'
  BY <1>6 DEF Exec!CancelSend, Exec!CancelFlag
<1>7. ASSUME NEW k \in Conns, Exec!Progress(k) PROVE Exec!TypeOK'
  BY <1>7 DEF Exec!Progress
<1>8. CASE UNCHANGED Exec!vars
  BY SMTT(30), <1>8 DEF Exec!vars
<1> QED BY Zenon, <1>1, <1>2, <1>3, <1>4, <1>5, <1>6, <1>7, <1>8 DEF Exec!Next

\* A connection is taken and given back with the step that changes the place.
LEMMA HoldStep == ExecIInv /\ [Exec!Next]_(Exec!vars) => HoldInv'
<1> SUFFICES ASSUME ExecIInv, [Exec!Next]_(Exec!vars) PROVE HoldInv'
  OBVIOUS
<1> USE DriverAssumption DEF DriverAssumption, ExecIInv, Exec!TypeOK, HoldInv, Holding,
                             Exec!Goto, Exec!Release, Exec!Leave, Exec!Interrupt,
                             Exec!sqliteVars, Exec!cancelVars
<1>1. ASSUME NEW c \in Calls, Exec!Acquire(c) PROVE HoldInv'
  BY <1>1 DEF Exec!Acquire
<1>2. ASSUME NEW c \in Calls, Exec!Identify(c) PROVE HoldInv'
  BY <1>2 DEF Exec!Identify
<1>3. ASSUME NEW c \in Calls, Exec!ApplySession(c) PROVE HoldInv'
  BY <1>3 DEF Exec!ApplySession
<1>4. ASSUME NEW c \in Calls, Exec!SessionFails(c) PROVE HoldInv'
  BY <1>4 DEF Exec!SessionFails
<1>5. ASSUME NEW c \in Calls, Exec!Complete(c) PROVE HoldInv'
  BY <1>5 DEF Exec!Complete
<1>6. ASSUME NEW c \in Calls, Exec!Teardown(c) PROVE HoldInv'
  BY <1>6 DEF Exec!Teardown
<1>7. ASSUME NEW c \in Calls, Exec!Drop(c) PROVE HoldInv'
  BY <1>7 DEF Exec!Drop
<1>8. ASSUME NEW c \in Calls, Exec!Unregister(c) PROVE HoldInv'
  BY <1>8 DEF Exec!Unregister
<1>9. ASSUME NEW c \in Calls, Exec!CancelRead(c) PROVE HoldInv'
  BY <1>9 DEF Exec!CancelRead
<1>10. ASSUME NEW c \in Calls, Exec!CancelAcquire(c) PROVE HoldInv'
  BY <1>10 DEF Exec!CancelAcquire
<1>11. ASSUME NEW c \in Calls, Exec!CancelTimesOut(c) PROVE HoldInv'
  BY <1>11 DEF Exec!CancelTimesOut
<1>12. ASSUME NEW c \in Calls, Exec!CancelSend(c) PROVE HoldInv'
  BY <1>12 DEF Exec!CancelSend
<1>13. ASSUME NEW c \in Calls, Exec!CancelFlag(c) PROVE HoldInv'
  BY <1>13 DEF Exec!CancelFlag
<1>14. ASSUME NEW k \in Conns, Exec!Progress(k) PROVE HoldInv'
  BY <1>14 DEF Exec!Progress, Exec!stops
<1>15. CASE UNCHANGED Exec!vars
  BY SMTT(30), <1>15 DEF Exec!vars
<1> QED BY Zenon, <1>1, <1>2, <1>3, <1>4, <1>5, <1>6, <1>7, <1>8,
           <1>9, <1>10, <1>11, <1>12, <1>13, <1>14, <1>15 DEF Exec!Next

\* What is taken was idle, and what is given back was held.
LEMMA AccountedStep == ExecIInv /\ [Exec!Next]_(Exec!vars) => ConnectionsAccounted'
<1> SUFFICES ASSUME ExecIInv, [Exec!Next]_(Exec!vars) PROVE ConnectionsAccounted'
  OBVIOUS
<1> USE DriverAssumption DEF DriverAssumption, ExecIInv, Exec!TypeOK, HoldInv, Holding,
                             ConnectionsAccounted, Exec!ConnectionsAccounted,
                             Exec!Goto, Exec!Release, Exec!Leave, Exec!Interrupt,
                             Exec!sqliteVars, Exec!cancelVars
<1>1. ASSUME NEW c \in Calls, Exec!Acquire(c) PROVE ConnectionsAccounted'
  BY <1>1 DEF Exec!Acquire
<1>2. ASSUME NEW c \in Calls, Exec!Identify(c) PROVE ConnectionsAccounted'
  BY <1>2 DEF Exec!Identify
<1>3. ASSUME NEW c \in Calls, Exec!ApplySession(c) PROVE ConnectionsAccounted'
  BY <1>3 DEF Exec!ApplySession
<1>4. ASSUME NEW c \in Calls, Exec!SessionFails(c) PROVE ConnectionsAccounted'
  BY <1>4 DEF Exec!SessionFails
<1>5. ASSUME NEW c \in Calls, Exec!Complete(c) PROVE ConnectionsAccounted'
  BY <1>5 DEF Exec!Complete
<1>6. ASSUME NEW c \in Calls, Exec!Teardown(c) PROVE ConnectionsAccounted'
  BY <1>6 DEF Exec!Teardown
<1>7. ASSUME NEW c \in Calls, Exec!Drop(c) PROVE ConnectionsAccounted'
  BY <1>7 DEF Exec!Drop
<1>8. ASSUME NEW c \in Calls, Exec!Unregister(c) PROVE ConnectionsAccounted'
  BY <1>8 DEF Exec!Unregister
<1>9. ASSUME NEW c \in Calls, Exec!CancelRead(c) PROVE ConnectionsAccounted'
  BY <1>9 DEF Exec!CancelRead
<1>10. ASSUME NEW c \in Calls, Exec!CancelAcquire(c) PROVE ConnectionsAccounted'
  BY <1>10 DEF Exec!CancelAcquire
<1>11. ASSUME NEW c \in Calls, Exec!CancelTimesOut(c) PROVE ConnectionsAccounted'
  BY <1>11 DEF Exec!CancelTimesOut
<1>12. ASSUME NEW c \in Calls, Exec!CancelSend(c) PROVE ConnectionsAccounted'
  BY <1>12 DEF Exec!CancelSend
<1>13. ASSUME NEW c \in Calls, Exec!CancelFlag(c) PROVE ConnectionsAccounted'
  BY <1>13 DEF Exec!CancelFlag
<1>14. ASSUME NEW k \in Conns, Exec!Progress(k) PROVE ConnectionsAccounted'
  BY <1>14 DEF Exec!Progress, Exec!stops
<1>15. CASE UNCHANGED Exec!vars
  BY SMTT(30), <1>15 DEF Exec!vars
<1> QED BY Zenon, <1>1, <1>2, <1>3, <1>4, <1>5, <1>6, <1>7, <1>8,
           <1>9, <1>10, <1>11, <1>12, <1>13, <1>14, <1>15 DEF Exec!Next

\* Giving a connection back ends the transaction its variables were set in.
LEMMA SessionStep == ExecIInv /\ [Exec!Next]_(Exec!vars) => SessionInv'
<1> SUFFICES ASSUME ExecIInv, [Exec!Next]_(Exec!vars) PROVE SessionInv'
  OBVIOUS
<1> USE DriverAssumption DEF DriverAssumption, ExecIInv, Exec!TypeOK, HoldInv, Holding,
                             SessionInv,
                             Exec!Goto, Exec!Release, Exec!Leave, Exec!Interrupt,
                             Exec!sqliteVars, Exec!cancelVars
<1>1. ASSUME NEW c \in Calls, Exec!Acquire(c) PROVE SessionInv'
  BY <1>1 DEF Exec!Acquire
<1>2. ASSUME NEW c \in Calls, Exec!Identify(c) PROVE SessionInv'
  BY <1>2 DEF Exec!Identify
<1>3. ASSUME NEW c \in Calls, Exec!ApplySession(c) PROVE SessionInv'
  BY <1>3 DEF Exec!ApplySession
<1>4. ASSUME NEW c \in Calls, Exec!SessionFails(c) PROVE SessionInv'
  BY <1>4 DEF Exec!SessionFails
<1>5. ASSUME NEW c \in Calls, Exec!Complete(c) PROVE SessionInv'
  BY <1>5 DEF Exec!Complete
<1>6. ASSUME NEW c \in Calls, Exec!Teardown(c) PROVE SessionInv'
  BY <1>6 DEF Exec!Teardown
<1>7. ASSUME NEW c \in Calls, Exec!Drop(c) PROVE SessionInv'
  BY <1>7 DEF Exec!Drop
<1>8. ASSUME NEW c \in Calls, Exec!Unregister(c) PROVE SessionInv'
  BY <1>8 DEF Exec!Unregister
<1>9. ASSUME NEW c \in Calls, Exec!CancelRead(c) PROVE SessionInv'
  BY <1>9 DEF Exec!CancelRead
<1>10. ASSUME NEW c \in Calls, Exec!CancelAcquire(c) PROVE SessionInv'
  BY <1>10 DEF Exec!CancelAcquire
<1>11. ASSUME NEW c \in Calls, Exec!CancelTimesOut(c) PROVE SessionInv'
  BY <1>11 DEF Exec!CancelTimesOut
<1>12. ASSUME NEW c \in Calls, Exec!CancelSend(c) PROVE SessionInv'
  BY <1>12 DEF Exec!CancelSend
<1>13. ASSUME NEW c \in Calls, Exec!CancelFlag(c) PROVE SessionInv'
  BY <1>13 DEF Exec!CancelFlag
<1>14. ASSUME NEW k \in Conns, Exec!Progress(k) PROVE SessionInv'
  BY <1>14 DEF Exec!Progress, Exec!stops
<1>15. CASE UNCHANGED Exec!vars
  BY SMTT(30), <1>15 DEF Exec!vars
<1> QED BY Zenon, <1>1, <1>2, <1>3, <1>4, <1>5, <1>6, <1>7, <1>8,
           <1>9, <1>10, <1>11, <1>12, <1>13, <1>14, <1>15 DEF Exec!Next

\* The handler of a query acts while that query is in the table, and no longer.
LEMMA NonceStep == ExecIInv /\ [Exec!Next]_(Exec!vars) => NonceInv'
<1> SUFFICES ASSUME ExecIInv, [Exec!Next]_(Exec!vars) PROVE NonceInv'
  OBVIOUS
<1> USE DriverAssumption DEF DriverAssumption, ExecIInv, Exec!TypeOK, HoldInv, Holding,
                             ConnectionsAccounted, Exec!ConnectionsAccounted, NonceInv,
                             Exec!Goto, Exec!Release, Exec!Leave, Exec!Interrupt,
                             Exec!sqliteVars, Exec!cancelVars
<1>1. ASSUME NEW c \in Calls, Exec!Acquire(c) PROVE NonceInv'
  BY <1>1 DEF Exec!Acquire
<1>2. ASSUME NEW c \in Calls, Exec!Identify(c) PROVE NonceInv'
  BY <1>2 DEF Exec!Identify
<1>3. ASSUME NEW c \in Calls, Exec!ApplySession(c) PROVE NonceInv'
  BY <1>3 DEF Exec!ApplySession
<1>4. ASSUME NEW c \in Calls, Exec!SessionFails(c) PROVE NonceInv'
  BY <1>4 DEF Exec!SessionFails
<1>5. ASSUME NEW c \in Calls, Exec!Complete(c) PROVE NonceInv'
  BY SMTT(30), <1>5 DEF Exec!Complete
<1>6. ASSUME NEW c \in Calls, Exec!Teardown(c) PROVE NonceInv'
  BY <1>6 DEF Exec!Teardown
<1>7. ASSUME NEW c \in Calls, Exec!Drop(c) PROVE NonceInv'
  BY <1>7 DEF Exec!Drop
<1>8. ASSUME NEW c \in Calls, Exec!Unregister(c) PROVE NonceInv'
  BY <1>8 DEF Exec!Unregister
<1>9. ASSUME NEW c \in Calls, Exec!CancelRead(c) PROVE NonceInv'
  BY <1>9 DEF Exec!CancelRead
<1>10. ASSUME NEW c \in Calls, Exec!CancelAcquire(c) PROVE NonceInv'
  BY <1>10 DEF Exec!CancelAcquire
<1>11. ASSUME NEW c \in Calls, Exec!CancelTimesOut(c) PROVE NonceInv'
  BY <1>11 DEF Exec!CancelTimesOut
<1>12. ASSUME NEW c \in Calls, Exec!CancelSend(c) PROVE NonceInv'
  BY <1>12 DEF Exec!CancelSend
<1>13. ASSUME NEW c \in Calls, Exec!CancelFlag(c) PROVE NonceInv'
  BY <1>13 DEF Exec!CancelFlag
<1>14. ASSUME NEW k \in Conns, Exec!Progress(k) PROVE NonceInv'
  BY <1>14 DEF Exec!Progress, Exec!stops
<1>15. CASE UNCHANGED Exec!vars
  BY <1>15 DEF Exec!vars
<1> QED BY Zenon, <1>1, <1>2, <1>3, <1>4, <1>5, <1>6, <1>7, <1>8,
           <1>9, <1>10, <1>11, <1>12, <1>13, <1>14, <1>15 DEF Exec!Next

LEMMA ExecIInvAlways == Exec!Spec => []ExecIInv
<1>1. ExecIInv /\ [Exec!Next]_(Exec!vars) => ExecIInv'
  BY TypeStep, HoldStep, AccountedStep, SessionStep, NonceStep DEF ExecIInv
<1> QED BY ExecInitIInv, <1>1, PTL DEF Exec!Spec

\* The variables of the model keep their types.
THEOREM ExecTypeCorrect == Exec!Spec => []Exec!TypeOK
<1>1. ExecIInv => Exec!TypeOK
  BY DEF ExecIInv
<1> QED BY <1>1, ExecIInvAlways, PTL

\* No way for a call or a cancel to end loses a connection of the pool or
\* leaves two holders of one.
THEOREM ConnectionsAccountedAlways == Exec!Spec => []ConnectionsAccounted
<1>1. ExecIInv => ConnectionsAccounted
  BY DEF ExecIInv
<1> QED BY <1>1, ExecIInvAlways, PTL

\* A Postgres or SQLite statement never sees the session variables of another
\* call.
THEOREM OwnSessionAlways == Exec!Spec => []OwnSession
<1>1. ExecIInv => OwnSession
  BY SMTT(30), DriverAssumption DEF DriverAssumption, ExecIInv, Exec!TypeOK, HoldInv, Holding,
     ConnectionsAccounted, Exec!ConnectionsAccounted, SessionInv, OwnSession, Exec!OwnSession
<1> QED BY <1>1, ExecIInvAlways, PTL

\* A cancel on SQLite never ends the statement of a call it was not asked for.
THEOREM OnlyNonceInterruptedAlways == Exec!Spec => []OnlyNonceInterrupted
<1>1. ExecIInv => OnlyNonceInterrupted
  BY Zenon DEF ExecIInv, NonceInv, OnlyNonceInterrupted, Exec!OnlyNonceInterrupted, Exec!OnlyTargetInterrupted
<1> QED BY <1>1, ExecIInvAlways, PTL
============================================================================
