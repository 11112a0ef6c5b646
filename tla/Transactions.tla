---------------------------- MODULE Transactions ----------------------------
(***************************************************************************)
(* execute_transaction (lib.rs) over a transaction handle (transaction.rs):*)
(* a call takes one connection of the profile's pool, opens a transaction  *)
(* on it, runs the group's statements in order through the handle, and     *)
(* commits, or rolls back at the first error.  The handle keeps the sqlx   *)
(* transaction in a Mutex<Option<_>>: each operation takes it out, works   *)
(* on it and, when it comes to its end, puts it back.                      *)
(*                                                                         *)
(* A sqlx transaction that is dropped while open is rolled back, and its   *)
(* connection goes back to the pool.                                       *)
(***************************************************************************)
EXTENDS Naturals, FiniteSets

CONSTANTS
    Groups,     \* the calls of execute_transaction
    Size,       \* the statements of a group
    PoolSize    \* the connections of the pool

ASSUME TransactionsAssumption ==
    /\ IsFiniteSet(Groups)
    /\ Size \in Nat \ {0}
    /\ PoolSize \in Nat \ {0}

VARIABLES
    pc,        \* where each call stands
    inner,     \* whether the handle's Option holds the transaction
    at,        \* the statement of the group a call is at
    pending,   \* the statements that ran in the open transaction
    durable,   \* the statements of the group that took effect for good
    free,      \* the connections in the pool
    leased,    \* the calls whose transaction pins a connection
    reply      \* what the caller was told

vars == <<pc, inner, at, pending, durable, free, leased, reply>>

Init ==
    /\ pc = [g \in Groups |-> "begin"]
    /\ inner = [g \in Groups |-> FALSE]
    /\ at = [g \in Groups |-> 0]
    /\ pending = [g \in Groups |-> 0]
    /\ durable = [g \in Groups |-> 0]
    /\ free = PoolSize
    /\ leased = {}
    /\ reply = [g \in Groups |-> "none"]

-----------------------------------------------------------------------------
Goto(g, place) == pc' = [pc EXCEPT ![g] = place]

Answer(g, r) ==
    /\ Goto(g, "done")
    /\ reply' = [reply EXCEPT ![g] = r]

\* The transaction ends, committed or not, and gives its connection back.
Release(g) ==
    /\ leased' = leased \ {g}
    /\ free' = free + (IF g \in leased THEN 1 ELSE 0)
    /\ pending' = [pending EXCEPT ![g] = 0]
    /\ inner' = [inner EXCEPT ![g] = FALSE]

\* Nothing of the transaction takes effect.
Discard(g) ==
    /\ Release(g)
    /\ UNCHANGED durable

\* pool.begin() in begin_transaction.
Begin(g) ==
    /\ pc[g] = "begin"
    /\ free > 0
    /\ free' = free - 1
    /\ leased' = leased \cup {g}
    /\ Goto(g, "isolate")
    /\ UNCHANGED <<inner, at, pending, durable, reply>>

\* The profile is unknown, the pool times out or BEGIN fails.
BeginFails(g) ==
    /\ pc[g] = "begin"
    /\ Answer(g, "failed")
    /\ UNCHANGED <<inner, at, pending, durable, free, leased>>

\* The isolation level is set, when there is one, and the handle is made.
Isolate(g) ==
    /\ pc[g] = "isolate"
    /\ inner' = [inner EXCEPT ![g] = TRUE]
    /\ at' = [at EXCEPT ![g] = 1]
    /\ Goto(g, "step")
    /\ UNCHANGED <<pending, durable, free, leased, reply>>

\* SET TRANSACTION fails: the transaction is dropped with the early return.
IsolateFails(g) ==
    /\ pc[g] = "isolate"
    /\ Discard(g)
    /\ Answer(g, "failed")
    /\ UNCHANGED at

\* run_tx_nested_step: take() for the statement at hand.
StepTake(g) ==
    /\ pc[g] = "step"
    /\ at[g] <= Size
    /\ inner[g]
    /\ inner' = [inner EXCEPT ![g] = FALSE]
    /\ Goto(g, "running")
    /\ UNCHANGED <<at, pending, durable, free, leased, reply>>

\* A parameter does not bind, or the row_mode is unknown: nothing is sent.
StepRefused(g) ==
    /\ pc[g] = "step"
    /\ at[g] <= Size
    /\ Goto(g, "rollback")
    /\ UNCHANGED <<inner, at, pending, durable, free, leased, reply>>

\* The statement ran and its rows decode: put() and the next statement.
StepOk(g) ==
    /\ pc[g] = "running"
    /\ pending' = [pending EXCEPT ![g] = @ + 1]
    /\ inner' = [inner EXCEPT ![g] = TRUE]
    /\ at' = [at EXCEPT ![g] = @ + 1]
    /\ Goto(g, "step")
    /\ UNCHANGED <<durable, free, leased, reply>>

\* A bug to be caught: a failed statement does not end the group.
StepErrIgnored(g) ==
    /\ pc[g] = "running"
    /\ inner' = [inner EXCEPT ![g] = TRUE]
    /\ at' = [at EXCEPT ![g] = @ + 1]
    /\ Goto(g, "step")
    /\ UNCHANGED <<pending, durable, free, leased, reply>>

\* The statement fails in the database: put() and the error.
StepErr(g) ==
    /\ pc[g] = "running"
    /\ inner' = [inner EXCEPT ![g] = TRUE]
    /\ Goto(g, "rollback")
    /\ UNCHANGED <<at, pending, durable, free, leased, reply>>

\* A bug to be caught: the statement is left to the connection, which is lost.
StepUndecodedLeaks(g) ==
    /\ pc[g] = "running"
    /\ inner' = [inner EXCEPT ![g] = FALSE]
    /\ Goto(g, "rollback")
    /\ UNCHANGED <<at, pending, durable, free, leased, reply>>

(***************************************************************************)
(* The statement ran and a row does not decode: execute returns without    *)
(* put(), so the transaction is dropped here and not by rollback().        *)
(***************************************************************************)
StepUndecoded(g) ==
    /\ pc[g] = "running"
    /\ Discard(g)
    /\ Goto(g, "rollback")
    /\ UNCHANGED <<at, reply>>

(***************************************************************************)
(* rollback() after a failed statement, best effort: it takes what the     *)
(* handle still has, and says "already closed" when that is nothing.  The  *)
(* caller hears of the statement's error in each case.                     *)
(***************************************************************************)
Rollback(g) ==
    /\ pc[g] = "rollback"
    /\ \/ inner[g] /\ Discard(g)
       \/ ~inner[g] /\ UNCHANGED <<inner, pending, durable, free, leased>>
    /\ Answer(g, "failed")
    /\ UNCHANGED at

\* A bug to be caught: the group is committed one statement short.
CommitEarly(g) ==
    /\ pc[g] = "step"
    /\ at[g] >= Size
    /\ inner[g]
    /\ durable' = [durable EXCEPT ![g] = pending[g]]
    /\ Release(g)
    /\ Answer(g, "ok")
    /\ UNCHANGED at

\* commit() after the last statement.
Commit(g) ==
    /\ pc[g] = "step"
    /\ at[g] > Size
    /\ inner[g]
    /\ durable' = [durable EXCEPT ![g] = pending[g]]
    /\ Release(g)
    /\ Answer(g, "ok")
    /\ UNCHANGED at

\* commit() fails: the transaction is consumed, and what the server did with
\* it is not known.
CommitFails(g) ==
    /\ pc[g] = "step"
    /\ at[g] > Size
    /\ inner[g]
    /\ \E n \in {0, pending[g]} : durable' = [durable EXCEPT ![g] = n]
    /\ Release(g)
    /\ Answer(g, "in_doubt")
    /\ UNCHANGED at

(***************************************************************************)
(* The caller gives the call up: its future is dropped at an await, with   *)
(* the handle and the transaction, wherever that is.  The await of the     *)
(* commit is CommitFails.                                                  *)
(***************************************************************************)
GiveUp(g) ==
    /\ pc[g] \in {"begin", "isolate", "running", "rollback"}
    /\ Discard(g)
    /\ Answer(g, "in_doubt")
    /\ UNCHANGED at

-----------------------------------------------------------------------------
Proceed(g) ==
    \/ Begin(g) \/ BeginFails(g)
    \/ Isolate(g) \/ IsolateFails(g)
    \/ StepTake(g) \/ StepRefused(g)
    \/ StepOk(g) \/ StepErr(g) \/ StepUndecoded(g)
    \/ Rollback(g)
    \/ Commit(g) \/ CommitFails(g)

Next == \E g \in Groups : Proceed(g) \/ GiveUp(g)

Spec == Init /\ [][Next]_vars

\* A call at work comes to its next step, and the pool serves one that waits;
\* neither its timeout nor a failure is needed for it.
Fairness ==
    \A g \in Groups :
        /\ WF_vars(Begin(g))
        /\ WF_vars(Isolate(g) \/ IsolateFails(g))
        /\ WF_vars(StepTake(g) \/ StepRefused(g))
        /\ WF_vars(StepOk(g) \/ StepErr(g) \/ StepUndecoded(g))
        /\ WF_vars(Rollback(g))
        /\ WF_vars(Commit(g) \/ CommitFails(g))

FairSpec == Spec /\ Fairness

-----------------------------------------------------------------------------
TypeOK ==
    /\ pc \in [Groups -> {"begin", "isolate", "step", "running", "rollback", "done"}]
    /\ inner \in [Groups -> BOOLEAN]
    /\ at \in [Groups -> 0 .. Size + 1]
    /\ pending \in [Groups -> 0 .. Size]
    /\ durable \in [Groups -> 0 .. Size]
    /\ free \in 0 .. PoolSize
    /\ leased \subseteq Groups
    /\ reply \in [Groups -> {"none", "ok", "failed", "in_doubt"}]

\* A group takes effect whole or not at all, and the caller is not misled: an
\* "ok" means that it did, the error of a statement that it did not.  So it is
\* whichever statement fails, in the database, in the binding or in the
\* decoding, and whenever the call is given up.
AllOrNothing ==
    \A g \in Groups :
        /\ durable[g] \in {0, Size}
        /\ reply[g] = "ok" => durable[g] = Size
        /\ reply[g] = "failed" => durable[g] = 0

\* Every connection of the pool is idle or pinned by one open transaction, and
\* a call that is over pins none: no exit of execute_transaction, not even the
\* one that leaves the handle empty, loses a connection.
ConnectionsConserved ==
    /\ free + Cardinality(leased) = PoolSize
    /\ \A g \in Groups : pc[g] = "done" => g \notin leased

\* Every call gets an answer, with fewer connections than calls: a call that
\* waits for a connection is served because the others end and give theirs back.
EveryGroupAnswered == \A g \in Groups : <>(reply[g] # "none")

\* execute_transaction implements the atomic group.
Atomic == INSTANCE AtomicGroups
AtomicSpec == Atomic!Spec

=============================================================================
