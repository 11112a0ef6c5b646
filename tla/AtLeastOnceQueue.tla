-------------------------- MODULE AtLeastOnceQueue --------------------------
(***************************************************************************)
(* What a `postgres_cdc` watch promises its gateway, without slots, peeks  *)
(* or bookkeeping: a source queue holds every published change until the   *)
(* gateway has stored it.  Changes leave the queue only when stored, or    *)
(* all together when the queue itself is lost.                             *)
(***************************************************************************)

CONSTANT Change

VARIABLES alive,      \* the queue exists
          published,  \* every change ever committed upstream
          owed,       \* changes the queue still holds
          stored      \* changes in the gateway's event log

vars == <<alive, published, owed, stored>>

Init == /\ alive = FALSE
        /\ published = {}
        /\ owed = {}
        /\ stored = {}

\* The database commits the changes S at once.
Publish(S) == /\ S \cap published = {}
              /\ published' = published \cup S
              /\ owed' = IF alive THEN owed \cup S ELSE owed
              /\ UNCHANGED <<alive, stored>>

\* The gateway stores a change: one that was committed, perhaps not for the
\* first time.
Store(c) == /\ c \in published
            /\ stored' = stored \cup {c}
            /\ UNCHANGED <<alive, published, owed>>

\* The queue forgets changes, and only changes that are stored.
Confirm(S) == /\ S \subseteq owed
              /\ S \subseteq stored
              /\ owed' = owed \ S
              /\ UNCHANGED <<alive, published, stored>>

Open == /\ ~alive
        /\ alive' = TRUE
        /\ owed' = {}
        /\ UNCHANGED <<published, stored>>

Lose == /\ alive
        /\ alive' = FALSE
        /\ owed' = {}
        /\ UNCHANGED <<published, stored>>

Next == \/ \E S \in SUBSET Change : Publish(S) \/ Confirm(S)
        \/ \E c \in Change : Store(c)
        \/ Open
        \/ Lose

Spec == Init /\ [][Next]_vars
=============================================================================
