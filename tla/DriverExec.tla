----------------------------- MODULE DriverExec -----------------------------
(***************************************************************************)
(* How a driver runs a call on a pooled connection, and how a call is      *)
(* cancelled (driver/postgres.rs, driver/mysql.rs, driver/sqlite.rs,       *)
(* in_flight.rs, cancel_request in lib.rs).                                *)
(*                                                                         *)
(* A call pins a connection, records in the in-flight registry what a      *)
(* cancel will need (the server's id of the connection, or for SQLite a    *)
(* nonce of the query), sets its session variables, runs its statement,    *)
(* cleans up and gives the connection back; its registry entry goes when   *)
(* the call is over, which is later.  Postgres sets the variables inside a *)
(* transaction, MySQL on the connection itself, SQLite not at all.  The    *)
(* time limit of the call may drop the driver's future at any await.       *)
(***************************************************************************)

CONSTANTS
    Calls,    \* the calls; also their request ids and SQLite nonces
    Untracked,\* the calls made without an ExecCtx (lists, watches, groups)
    Conns,    \* the connections of the pool
    None

VARIABLES
    driver,      \* the binding's driver
    pc,          \* where each call stands
    conn,        \* the connection it has pinned
    free,        \* the idle connections of the pool
    session,     \* the calls whose session variables are set, by connection
    backend,     \* the BackendId in the registry, by call
    handler,     \* SQLite: the query the connection's progress handler is of
    active,      \* SQLite: the queries in the cancel table
    flagged,     \* SQLite: the queries whose cancel flag is set
    cpc,         \* where the cancel_request of each call stands
    target,      \* the BackendId it read
    side,        \* the connection it has taken to send the cancel
    asked,       \* when the cancel was asked for (history)
    interrupted  \* the calls whose statement a cancel ended (history)

vars == <<driver, pc, conn, free, session, backend, handler, active, flagged,
          cpc, target, side, asked, interrupted>>

sqliteVars == <<handler, active, flagged>>
cancelVars == <<cpc, target, side, asked>>

Init ==
    /\ driver \in {"postgres", "mysql", "sqlite"}
    /\ pc = [c \in Calls |-> "idle"]
    /\ conn = [c \in Calls |-> None]
    /\ free = Conns
    /\ session = [k \in Conns |-> {}]
    /\ backend = [c \in Calls |-> None]
    /\ handler = [k \in Conns |-> None]
    /\ active = {}
    /\ flagged = {}
    /\ cpc = [c \in Calls |-> "idle"]
    /\ target = [c \in Calls |-> None]
    /\ side = [c \in Calls |-> None]
    /\ asked = [c \in Calls |-> "no"]
    /\ interrupted = {}

-----------------------------------------------------------------------------
Goto(c, place) == pc' = [pc EXCEPT ![c] = place]

\* The connection goes back to the pool; the call still has to answer.
Release(c) ==
    /\ free' = free \cup {conn[c]}
    /\ conn' = [conn EXCEPT ![c] = None]
    /\ Goto(c, "returning")

\* The variables of c that stay on its connection are left; none of them when
\* they were set in a transaction, which is over.
Leave(c, left) ==
    session' = [session EXCEPT ![conn[c]] =
                  IF driver = "mysql" /\ left THEN @ \cup {c} ELSE @ \ {c}]

\* pool.acquire(), or pool.begin().
Acquire(c) ==
    /\ pc[c] = "idle"
    /\ \E k \in free : /\ conn' = [conn EXCEPT ![c] = k]
                       /\ free' = free \ {k}
    /\ Goto(c, "pinned")
    /\ UNCHANGED <<driver, session, backend, sqliteVars, cancelVars, interrupted>>

(***************************************************************************)
(* The backend id of the connection is asked for and recorded; on SQLite   *)
(* the progress handler is installed (start) and the nonce recorded.  A    *)
(* call without an ExecCtx goes on at once.                                *)
(***************************************************************************)
Identify(c) ==
    /\ pc[c] = "pinned"
    /\ Goto(c, "identified")
    /\ IF c \in Untracked
         THEN UNCHANGED <<backend, handler, active>>
         ELSE /\ backend' = [backend EXCEPT ![c] =
                               IF driver = "sqlite" THEN c ELSE conn[c]]
              /\ handler' = IF driver = "sqlite"
                              THEN [handler EXCEPT ![conn[c]] = c] ELSE handler
              /\ active' = IF driver = "sqlite" THEN active \cup {c} ELSE active
    /\ UNCHANGED <<driver, conn, free, session, flagged, cancelVars, interrupted>>

\* The session variables are set, and the statement is sent.
ApplySession(c) ==
    /\ pc[c] = "identified"
    /\ Goto(c, "running")
    /\ session' = IF driver = "sqlite" THEN session
                    ELSE [session EXCEPT ![conn[c]] = @ \cup {c}]
    /\ UNCHANGED <<driver, conn, free, backend, sqliteVars, cancelVars, interrupted>>

\* One of several variables cannot be set: the driver returns at once.  The
\* ones set before it are left as they are.
SessionFails(c) ==
    /\ pc[c] = "identified"
    /\ driver # "sqlite"
    /\ \E left \in BOOLEAN : Leave(c, left)
    /\ Release(c)
    /\ UNCHANGED <<driver, backend, sqliteVars, cancelVars, interrupted>>

\* The statement ends by itself, well or not.
Complete(c) ==
    /\ pc[c] = "running"
    /\ Goto(c, "teardown")
    /\ UNCHANGED <<driver, conn, free, session, backend, sqliteVars, cancelVars, interrupted>>

\* A bug to be caught: the variables are set for the session, not the
\* transaction (set_config with is_local = false).
TeardownNotLocal(c) ==
    /\ pc[c] = "teardown"
    /\ active' = active \ {c}
    /\ Release(c)
    /\ UNCHANGED <<driver, session, backend, handler, flagged, cancelVars, interrupted>>

(***************************************************************************)
(* Postgres commits, or drops the transaction on an error; MySQL nulls the *)
(* variables; SQLite takes the query out of the table and, when it can     *)
(* lock the handle, the handler off the connection (finish).               *)
(***************************************************************************)
Teardown(c) ==
    /\ pc[c] = "teardown"
    /\ Leave(c, FALSE)
    /\ active' = active \ {c}
    /\ \E removed \in BOOLEAN :
         handler' = [handler EXCEPT ![conn[c]] =
                       IF removed /\ @ = c THEN None ELSE @]
    /\ Release(c)
    /\ UNCHANGED <<driver, backend, flagged, cancelVars, interrupted>>

\* A bug to be caught: the connection is not given back.
DropLeaks(c) ==
    /\ pc[c] \in {"pinned", "identified", "running", "teardown"}
    /\ Leave(c, c \in session[conn[c]])
    /\ active' = active \ {c}
    /\ conn' = [conn EXCEPT ![c] = None]
    /\ Goto(c, "returning")
    /\ UNCHANGED <<driver, free, backend, handler, flagged, cancelVars, interrupted>>

(***************************************************************************)
(* The call's time limit drops the driver's future, or the connection does *)
(* not tell its id.  Postgres rolls back; nobody nulls MySQL's variables;  *)
(* on SQLite Running::drop takes the query out of the table and makes its  *)
(* flag inactive, and the handler stays.                                   *)
(***************************************************************************)
Drop(c) ==
    /\ pc[c] \in {"pinned", "identified", "running", "teardown"}
    /\ Leave(c, c \in session[conn[c]])
    /\ active' = active \ {c}
    /\ Release(c)
    /\ UNCHANGED <<driver, backend, handler, flagged, cancelVars, interrupted>>

\* InFlightGuard::drop: the call is over.
Unregister(c) ==
    /\ pc[c] = "returning"
    /\ Goto(c, "done")
    /\ backend' = [backend EXCEPT ![c] = None]
    /\ UNCHANGED <<driver, conn, free, session, sqliteVars, cancelVars, interrupted>>

-----------------------------------------------------------------------------
\* cancel_request(c) reads the registry.
CancelRead(c) ==
    /\ cpc[c] = "idle"
    /\ backend[c] # None
    /\ cpc' = [cpc EXCEPT ![c] = "read"]
    /\ target' = [target EXCEPT ![c] = backend[c]]
    /\ asked' = [asked EXCEPT ![c] = IF pc[c] = "running" THEN "running" ELSE "other"]
    /\ UNCHANGED <<driver, pc, conn, free, session, backend, sqliteVars, side, interrupted>>

\* cancel_backend of Postgres and MySQL takes a connection of the same pool.
CancelAcquire(c) ==
    /\ driver # "sqlite"
    /\ cpc[c] = "read"
    /\ \E k \in free : /\ side' = [side EXCEPT ![c] = k]
                       /\ free' = free \ {k}
    /\ cpc' = [cpc EXCEPT ![c] = "acquired"]
    /\ UNCHANGED <<driver, pc, conn, session, backend, sqliteVars, target, asked, interrupted>>

\* The pool's acquire timeout passes first, and cancel_request fails.
CancelTimesOut(c) ==
    /\ driver # "sqlite"
    /\ cpc[c] = "read"
    /\ free = {}
    /\ cpc' = [cpc EXCEPT ![c] = "done"]
    /\ target' = [target EXCEPT ![c] = None]
    /\ UNCHANGED <<driver, pc, conn, free, session, backend, sqliteVars, side, asked, interrupted>>

\* The statement that runs on k now ends with an error.
Interrupt(k) ==
    LET hit == {c \in Calls : conn[c] = k /\ pc[c] = "running"}
    IN  /\ pc' = [c \in Calls |-> IF c \in hit THEN "teardown" ELSE pc[c]]
        /\ interrupted' = interrupted \cup hit

\* pg_cancel_backend, KILL QUERY: whatever runs on that connection ends.
CancelSend(c) ==
    /\ cpc[c] = "acquired"
    /\ Interrupt(target[c])
    /\ free' = free \cup {side[c]}
    /\ side' = [side EXCEPT ![c] = None]
    /\ target' = [target EXCEPT ![c] = None]
    /\ cpc' = [cpc EXCEPT ![c] = "done"]
    /\ UNCHANGED <<driver, conn, session, backend, sqliteVars, asked>>

\* A bug to be caught: the cancel ends what runs and is forgotten, as
\* sqlite3_interrupt is when a statement starts.
CancelFlagNow(c) ==
    /\ driver = "sqlite"
    /\ cpc[c] = "read"
    /\ flagged' = IF target[c] \in active /\ pc[c] = "running"
                    THEN flagged \cup {target[c]} ELSE flagged
    /\ target' = [target EXCEPT ![c] = None]
    /\ cpc' = [cpc EXCEPT ![c] = "done"]
    /\ UNCHANGED <<driver, pc, conn, free, session, backend, handler, active, side, asked, interrupted>>

\* cancel_backend of SQLite sets the flag of a query still in the table.
CancelFlag(c) ==
    /\ driver = "sqlite"
    /\ cpc[c] = "read"
    /\ flagged' = IF target[c] \in active THEN flagged \cup {target[c]} ELSE flagged
    /\ target' = [target EXCEPT ![c] = None]
    /\ cpc' = [cpc EXCEPT ![c] = "done"]
    /\ UNCHANGED <<driver, pc, conn, free, session, backend, handler, active, side, asked, interrupted>>

\* A bug to be caught: the handler looks at the flag alone.
stopsFlagged(q) == q \in flagged

\* Cancel::stops.
stops(q) == q \in active /\ q \in flagged

\* SQLite asks the connection's handler while a statement runs.
Progress(k) ==
    /\ handler[k] # None
    /\ stops(handler[k])
    /\ \E c \in Calls : conn[c] = k /\ pc[c] = "running"
    /\ Interrupt(k)
    /\ UNCHANGED <<driver, conn, free, session, backend, sqliteVars, cancelVars>>

-----------------------------------------------------------------------------
Next ==
    \/ \E c \in Calls :
         \/ Acquire(c) \/ Identify(c) \/ ApplySession(c) \/ SessionFails(c)
         \/ Complete(c) \/ Teardown(c) \/ Drop(c) \/ Unregister(c)
         \/ CancelRead(c) \/ CancelAcquire(c) \/ CancelTimesOut(c)
         \/ CancelSend(c) \/ CancelFlag(c)
    \/ \E k \in Conns : Progress(k)

Spec == Init /\ [][Next]_vars

\* The tasks are polled, and SQLite asks the handler.  A statement may run for
\* ever: only a cancel or the call's own time limit need end it.
Fairness ==
    /\ \A c \in Calls : /\ WF_vars(Identify(c))
                        /\ WF_vars(ApplySession(c))
                        /\ WF_vars(Teardown(c))
                        /\ WF_vars(Unregister(c))
                        /\ WF_vars(CancelAcquire(c))
                        /\ WF_vars(CancelSend(c))
                        /\ WF_vars(CancelFlag(c))
    /\ \A k \in Conns : WF_vars(Progress(k))

FairSpec == Spec /\ Fairness

-----------------------------------------------------------------------------
TypeOK ==
    /\ driver \in {"postgres", "mysql", "sqlite"}
    /\ pc \in [Calls -> {"idle", "pinned", "identified", "running", "teardown",
                         "returning", "done"}]
    /\ conn \in [Calls -> Conns \cup {None}]
    /\ free \subseteq Conns
    /\ session \in [Conns -> SUBSET Calls]
    /\ backend \in [Calls -> Conns \cup Calls \cup {None}]
    /\ handler \in [Conns -> Calls \cup {None}]
    /\ active \subseteq Calls
    /\ flagged \subseteq Calls
    /\ cpc \in [Calls -> {"idle", "read", "acquired", "done"}]
    /\ target \in [Calls -> Conns \cup Calls \cup {None}]
    /\ side \in [Calls -> Conns \cup {None}]
    /\ asked \in [Calls -> {"no", "other", "running"}]
    /\ interrupted \subseteq Calls

\* However calls end, finished, failed, cut off or cancelled, every connection
\* is idle in the pool or in the hands of exactly one call or one cancel.
ConnectionsAccounted ==
    /\ \A k \in Conns :
         k \in free <=> \A c \in Calls : conn[c] # k /\ side[c] # k
    /\ \A c, d \in Calls :
         /\ conn[c] # None => conn[c] # side[d]
         /\ conn[c] # None /\ conn[c] = conn[d] => c = d
         /\ side[c] # None /\ side[c] = side[d] => c = d

\* The statement of a call sees its own session variables and nobody else's,
\* however the calls before it on the connection ended: finished, failed, cut
\* off by their time limit or cancelled.  MySQL's variables outlive a call that
\* is cut off.
OwnSession ==
    \A c \in Calls : pc[c] = "running" /\ driver # "mysql" => session[conn[c]] \subseteq {c}

\* The variables are torn down "before the conn goes back to the pool"
\* (driver/mysql.rs:158), so that no idle connection carries any.
CleanWhenIdle == \A k \in free : session[k] = {}

\* A cancel ends the statement of the call it was asked for and of no other.
OnlyTargetInterrupted == \A c \in interrupted : asked[c] # "no"

\* SQLite keeps to it, even when that call is over and its connection, with
\* its handler still on it, serves another by then.
OnlyNonceInterrupted == driver = "sqlite" => OnlyTargetInterrupted

\* When cancel_request of a call whose statement was running is over, the
\* statement is not running any more: the cancel goes out "on a side connection"
\* (README), whatever the state of the pool.
CancelDelivered ==
    \A c \in Calls : asked[c] = "running" /\ cpc[c] = "done" => pc[c] # "running"

\* On SQLite a call whose cancel was asked for does not go on running: a flag
\* set before the statement starts still ends it (driver/sqlite.rs:21), and no
\* other query's end or handler takes it away.
EveryCancelLands ==
    \A c \in Calls :
      (driver = "sqlite" /\ asked[c] # "no" /\ pc[c] = "running") ~> (pc[c] # "running")

=============================================================================
