------------------------------ MODULE TxHandle ------------------------------
(***************************************************************************)
(* One SqlTxHandle (transaction.rs) used by several callers at once: it is *)
(* an Arc<dyn SqlTxHandle>, and every operation takes &self.  Each takes   *)
(* the sqlx transaction out of the Mutex<Option<_>>, works on it without   *)
(* the lock, and puts it back or consumes it.  A caller makes one          *)
(* operation; its future may be dropped while it works.                    *)
(*                                                                         *)
(* A statement is preceded by the session variables of its call, one round *)
(* trip each: set_config(.., true) on PostgreSQL, which ends with the      *)
(* transaction, and SET @name on MySQL, which outlives it and is set to    *)
(* NULL after the statement.  SQLite has none.                             *)
(***************************************************************************)
EXTENDS Naturals, FiniteSets

CONSTANTS
    Callers,    \* the operations on the handle
    Keys        \* how many session variables a call sets, in their order

VARIABLES
    driver,     \* of the handle
    op,         \* the operation each caller makes
    pc,         \* "idle", "working" on the transaction, "clearing", "done"
    left,       \* the variables a caller still has to set, or to clear
    inner,      \* whether the Option holds the transaction
    tx,         \* the transaction in the database
    aborted,    \* PostgreSQL refuses every statement of it but its end
    value,      \* whose value each variable of the connection has, or nobody's
    ran,        \* the statements that ran in the transaction
    saw,        \* the values of the variables when each of them ran
    durable,    \* the statements that took effect for good
    reply       \* what each caller was told

vars == <<driver, op, pc, left, inner, tx, aborted, value, ran, saw, durable, reply>>
handle == <<inner, tx>>
database == <<aborted, value, ran, saw, durable>>

Statements == {"execute", "execute_affected"}
Operations == Statements \cup {"commit", "rollback"}

Unset == [k \in 1 .. Keys |-> {}]

\* begin_transaction made the handle: new(tx).
Init ==
    /\ driver \in {"postgres", "mysql", "sqlite"}
    /\ op \in [Callers -> Operations]
    /\ pc = [c \in Callers |-> "idle"]
    /\ left = [c \in Callers |-> 0]
    /\ inner = TRUE
    /\ tx = "open"
    /\ aborted = FALSE
    /\ value = Unset
    /\ ran = {}
    /\ saw = [c \in Callers |-> Unset]
    /\ durable = {}
    /\ reply = [c \in Callers |-> "none"]

-----------------------------------------------------------------------------
(* The Mutex<Option<_>>                                                      *)

Answer(c, r) ==
    /\ pc' = [pc EXCEPT ![c] = "done"]
    /\ left' = [left EXCEPT ![c] = 0]
    /\ reply' = [reply EXCEPT ![c] = r]

\* The session variables are part of a statement's work.
Variables(c) == IF op[c] \in Statements /\ driver # "sqlite" THEN Keys ELSE 0

\* A bug to be caught: the transaction is borrowed under the lock and stays
\* in the Option.
take_borrows(c) ==
    /\ pc[c] = "idle"
    /\ inner
    /\ pc' = [pc EXCEPT ![c] = "working"]
    /\ left' = [left EXCEPT ![c] = Variables(c)]
    /\ UNCHANGED <<driver, op, handle, database, reply>>

\* take(): the transaction is moved out of the Option.
take(c) ==
    /\ pc[c] = "idle"
    /\ inner
    /\ inner' = FALSE
    /\ pc' = [pc EXCEPT ![c] = "working"]
    /\ left' = [left EXCEPT ![c] = Variables(c)]
    /\ UNCHANGED <<driver, op, tx, database, reply>>

\* take() finds the Option empty: "transaction already closed".
take_closed(c) ==
    /\ pc[c] = "idle"
    /\ ~inner
    /\ Answer(c, "closed")
    /\ UNCHANGED <<driver, op, handle, database>>

\* put(): the transaction goes back into the Option.
put == inner' = TRUE /\ UNCHANGED tx

\* The transaction that was taken is dropped, and sqlx rolls it back.
Rolled ==
    /\ tx' = "rolled_back"
    /\ ran' = {}
    /\ value' = IF driver = "postgres" THEN Unset ELSE value
    /\ UNCHANGED <<inner, aborted, saw, durable>>

-----------------------------------------------------------------------------
(* The steps of a statement                                                  *)

\* One variable is set, or refused.
SetNext(c) ==
    /\ left[c] > 0
    /\ ~aborted
    /\ value' = [value EXCEPT ![left[c]] = {c}]
    /\ left' = [left EXCEPT ![c] = @ - 1]
    /\ UNCHANGED <<pc, handle, aborted, ran, saw, durable, reply>>

Fails == aborted' = (driver = "postgres")

SetFails(c) ==
    /\ left[c] > 0
    /\ Fails
    /\ put
    /\ Answer(c, "error")
    /\ UNCHANGED <<value, ran, saw, durable>>

\* The statement ran in the transaction.
Submitted(c) ==
    /\ left[c] = 0
    /\ ~aborted
    /\ ran' = ran \cup {c}
    /\ saw' = [saw EXCEPT ![c] = value]
    /\ UNCHANGED <<aborted, value, durable>>

\* The database refuses it, and the transaction stays open.
Refused(c) ==
    /\ left[c] = 0
    /\ Fails
    /\ UNCHANGED <<value, ran, saw, durable>>

Ok(c) == Submitted(c) /\ put /\ Answer(c, "ok")

Err(c) == Refused(c) /\ put /\ Answer(c, "error")

\* The statement ran, and a row of it does not decode: an early return that
\* drops the transaction.
Undecoded(c) ==
    /\ left[c] = 0
    /\ ~aborted
    /\ Rolled
    /\ Answer(c, "error")

Working(c, kind, o) == pc[c] = "working" /\ driver = kind /\ op[c] = o

-----------------------------------------------------------------------------
(* PostgresTxHandle                                                          *)

pg_execute(c) ==
    /\ Working(c, "postgres", "execute")
    /\ SetNext(c) \/ SetFails(c) \/ Ok(c) \/ Err(c) \/ Undecoded(c)
    /\ UNCHANGED <<driver, op>>

pg_execute_affected(c) ==
    /\ Working(c, "postgres", "execute_affected")
    /\ SetNext(c) \/ SetFails(c) \/ Ok(c) \/ Err(c)
    /\ UNCHANGED <<driver, op>>

-----------------------------------------------------------------------------
(* MysqlTxHandle: the variables are cleared before the answer                *)

apply_session_vars(c) == SetNext(c) \/ SetFails(c)

Clearing(c) ==
    /\ pc' = [pc EXCEPT ![c] = "clearing"]
    /\ left' = [left EXCEPT ![c] = Variables(c)]
    /\ UNCHANGED <<handle, reply>>

mysql_execute(c) ==
    /\ Working(c, "mysql", "execute")
    /\ \/ apply_session_vars(c)
       \/ Submitted(c) /\ Clearing(c)
       \/ Refused(c) /\ Clearing(c)
    /\ UNCHANGED <<driver, op>>

mysql_execute_affected(c) ==
    /\ Working(c, "mysql", "execute_affected")
    /\ \/ apply_session_vars(c)
       \/ Submitted(c) /\ Clearing(c)
       \/ Refused(c) /\ Clearing(c)
    /\ UNCHANGED <<driver, op>>

\* Each variable is set to NULL; one that cannot be is left, with a warning.
clear_session_vars(c) ==
    /\ pc[c] = "clearing"
    /\ left[c] > 0
    /\ \E v \in {{}, value[left[c]]} : value' = [value EXCEPT ![left[c]] = v]
    /\ left' = [left EXCEPT ![c] = @ - 1]
    /\ UNCHANGED <<driver, op, pc, handle, aborted, ran, saw, durable, reply>>

\* The rest of execute and execute_affected: only execute decodes rows.
mysql_answer(c) ==
    /\ pc[c] = "clearing"
    /\ left[c] = 0
    /\ \/ put /\ Answer(c, IF c \in ran THEN "ok" ELSE "error") /\ UNCHANGED database
       \/ c \in ran /\ op[c] = "execute" /\ Rolled /\ Answer(c, "error")
    /\ UNCHANGED <<driver, op>>

-----------------------------------------------------------------------------
(* SqliteTxHandle: a value that does not decode is null                      *)

sqlite_execute(c) ==
    /\ Working(c, "sqlite", "execute")
    /\ Ok(c) \/ Err(c)
    /\ UNCHANGED <<driver, op>>

sqlite_execute_affected(c) ==
    /\ Working(c, "sqlite", "execute_affected")
    /\ Ok(c) \/ Err(c)
    /\ UNCHANGED <<driver, op>>

-----------------------------------------------------------------------------
(* The end of the transaction                                                *)

Ending(c, o) == pc[c] = "working" /\ op[c] = o /\ UNCHANGED <<driver, op>>

\* commit() consumes the transaction, also when it fails.  The answer may be
\* lost after the server committed; PostgreSQL answers the COMMIT of an
\* aborted transaction, which rolls it back, without an error.
commit(c) ==
    /\ Ending(c, "commit")
    /\ \/ /\ ~aborted
          /\ tx' = "committed"
          /\ durable' = ran
          /\ value' = IF driver = "postgres" THEN Unset ELSE value
          /\ Answer(c, "ok") \/ Answer(c, "error")
          /\ UNCHANGED <<inner, aborted, ran, saw>>
       \/ aborted /\ Rolled /\ Answer(c, "ok")
       \/ Rolled /\ Answer(c, "error")

\* rollback() consumes the transaction.
rollback(c) == Ending(c, "rollback") /\ Rolled /\ (Answer(c, "ok") \/ Answer(c, "error"))

\* A bug to be caught: a new transaction takes the place of the dropped one.
DroppedReplaced(c) ==
    /\ pc[c] \in {"working", "clearing"}
    /\ ran' = {}
    /\ put
    /\ Answer(c, "error")
    /\ UNCHANGED <<driver, op, aborted, value, saw, durable>>

\* The caller drops its future, and with it the transaction it took.
Dropped(c) ==
    /\ pc[c] \in {"working", "clearing"}
    /\ Rolled
    /\ Answer(c, "error")
    /\ UNCHANGED <<driver, op>>

\* The last Arc of the handle is dropped with the transaction in it.
drop ==
    /\ \A c \in Callers : pc[c] = "done"
    /\ inner
    /\ inner' = FALSE
    /\ tx' = "rolled_back"
    /\ ran' = {}
    /\ value' = IF driver = "postgres" THEN Unset ELSE value
    /\ UNCHANGED <<driver, op, pc, left, aborted, saw, durable, reply>>

-----------------------------------------------------------------------------
Step(c) ==
    \/ take(c) \/ take_closed(c)
    \/ pg_execute(c) \/ pg_execute_affected(c)
    \/ mysql_execute(c) \/ mysql_execute_affected(c)
    \/ clear_session_vars(c) \/ mysql_answer(c)
    \/ sqlite_execute(c) \/ sqlite_execute_affected(c)
    \/ commit(c) \/ rollback(c) \/ Dropped(c)

Next == drop \/ \E c \in Callers : Step(c)

Spec == Init /\ [][Next]_vars

-----------------------------------------------------------------------------
\* A statement runs under the session variables of its own call and of no
\* other: the operations that share the connection set and clear the same
\* names around an await each, and only take() keeps them apart.
OwnVariables ==
    \A c \in ran : driver # "sqlite" => \A k \in 1 .. Keys : saw[c][k] = {c}

\* A statement that was told "ok" is not lost by the handle: it is part of the
\* transaction as long as that is not rolled back, and durable once it commits.
OkStatementsKept ==
    \A c \in Callers :
        op[c] \in Statements /\ reply[c] = "ok" /\ tx # "rolled_back"
            => c \in ran /\ (tx = "committed" => c \in durable)

=============================================================================
