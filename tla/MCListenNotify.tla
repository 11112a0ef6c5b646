--------------------------- MODULE MCListenNotify ---------------------------
(* The two kinds of watch that announce changes without their content: one  *)
(* instance of ListenNotify (a watch with a uri_match and another without,  *)
(* payloads that name nobody or the first) and one of PollingWatch.  They   *)
(* share nothing, so a behaviour starts one of them, with the other over.   *)
EXTENDS ListenNotify, FiniteSets

CONSTANTS w1, w2,
          MaxChanges, Empty  \* of PollingWatch

VARIABLES db, ppc, cancelled, last, read, pending, view, base

pvars == <<db, ppc, cancelled, last, read, pending, view, base>>

Polling == INSTANCE PollingWatch WITH pc <- ppc

MCFiltered == {w1}
MCPayloads == {{}, {w1}}

PollingOver ==
    /\ db = MaxChanges + 1 /\ ppc = "refused" /\ cancelled = FALSE
    /\ last = 0 /\ read = 0 /\ pending = FALSE
    /\ view = 1 /\ base = 0

ListenOver ==
    /\ pc = [w \in Watches |-> "done"]
    /\ holds = [w \in Watches |-> None]
    /\ listeners = None
    /\ task = [w \in Watches |-> "none"]
    /\ link = [w \in Watches |-> FALSE]
    /\ up = TRUE
    /\ buffered = [w \in Watches |-> << >>]
    /\ sent = [w \in Watches |-> << >>]
    /\ next = [w \in Watches |-> 0]
    /\ joined = [w \in Watches |-> 0]
    /\ reported = [w \in Watches |-> {}]
    /\ notified = MaxNotify
    /\ outages = MaxOutage

MCInit == (Init /\ PollingOver) \/ (ListenOver /\ Polling!Init)

MCNext ==
    \/ Next /\ UNCHANGED pvars
    \/ Polling!Next /\ UNCHANGED vars

MCSpec == MCInit /\ [][MCNext]_<<vars, pvars>> /\ Fairness /\ Polling!Fairness

\* The consumer of a sql_polling watch catches up with the table.
ConsumerCatchesUp == Polling!ConsumerCatchesUp
=============================================================================
