---------------------------- MODULE Connections ----------------------------
(* What holds the connections of a pool: groups of statements in a          *)
(* transaction (Transactions), and single calls with the cancels sent after *)
(* them (DriverExec).  Each is modelled with a pool of its own.             *)
EXTENDS Transactions

CONSTANTS Calls, Untracked, Conns, None   \* of DriverExec

ASSUME DriverAssumption ==
    /\ Untracked \subseteq Calls
    /\ None \notin Calls \cup Conns

VARIABLES
    driver, epc, conn, idle, session, backend, handler, active, flagged, cpc,
    target, side, asked, interrupted

evars == <<driver, epc, conn, idle, session, backend, handler, active, flagged,
           cpc, target, side, asked, interrupted>>

Exec == INSTANCE DriverExec WITH pc <- epc, free <- idle

-----------------------------------------------------------------------------
\* No way for a call or a cancel to end loses a connection or gives it two
\* holders.
ConnectionsAccounted == Exec!ConnectionsAccounted

\* A statement does not see another call's session variables, on Postgres and
\* SQLite.
OwnSession == Exec!OwnSession

\* A cancel on SQLite ends nothing but the statement it was asked for, and
\* does end that one.
OnlyNonceInterrupted == Exec!OnlyNonceInterrupted
EveryCancelLands == Exec!EveryCancelLands
=============================================================================
