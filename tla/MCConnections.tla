--------------------------- MODULE MCConnections ---------------------------
(* Instances of Connections: groups alone, or calls alone.                  *)
EXTENDS Connections

TransactionsSpec ==
    /\ Exec!Init /\ driver = "postgres" /\ Init
    /\ [][Next /\ UNCHANGED evars]_<<vars, evars>>
    /\ Fairness

ExecSpec ==
    /\ Init /\ Exec!Init
    /\ [][Exec!Next /\ UNCHANGED vars]_<<vars, evars>>
    /\ Exec!Fairness
=============================================================================
