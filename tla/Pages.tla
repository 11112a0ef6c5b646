------------------------------- MODULE Pages -------------------------------
(* What reads a table page after page with a cursor while it is written: a  *)
(* client of a stream (StreamCursor), and a host that lists resources       *)
(* (ListPages).  The two share nothing.                                     *)
EXTENDS StreamCursor

CONSTANTS PageSize, ListRows, ListWrites, MaxLacking   \* of ListPages

ASSUME ListAssumption == PageSize \in Nat \ {0} /\ ListRows \in Nat

VARIABLES
  lrows, lacking, mode, keyed, lpc, cursor, listed, relisted, lstayed, lwrites

lvars == <<lrows, lacking, mode, keyed, lpc, cursor, listed, relisted, lstayed,
           lwrites>>

Listing == INSTANCE ListPages WITH
  MaxRow <- ListRows, MaxWrites <- ListWrites, rows <- lrows, pc <- lpc,
  again <- relisted, stayed <- lstayed, writes <- lwrites

StreamOver ==
  /\ rows = [b \in Binding |-> {}]
  /\ profiles = [n \in Node |-> [b \in Binding |->
       [key |-> 0, cols |-> CHOOSE cols \in ColumnLists : TRUE]]]
  /\ shared = TRUE /\ keys = 0 /\ pc = "done" /\ home = CHOOSE b \in Binding : TRUE
  /\ token = {} /\ reply = "page"
  /\ call = [binding |-> home, rt |-> [key |-> 0, cols |-> CHOOSE cols \in ColumnLists : TRUE]]
  /\ after = << >> /\ batch = {} /\ got = {} /\ again = {} /\ stayed = {}
  /\ writes = MaxWrites /\ regs = MaxRegs /\ restarts = MaxRestarts
  /\ mistakes = MaxMistakes

ListingOver ==
  /\ lrows = {} /\ lacking = {} /\ mode = "keyset" /\ keyed = TRUE
  /\ lpc = "done" /\ cursor = 0 /\ listed = {} /\ relisted = {} /\ lstayed = {}
  /\ lwrites = ListWrites

----------------------------------------------------------------------------
\* A keyset listing is complete and without repetition.
ListedExactly == Listing!ListedExactly
============================================================================
