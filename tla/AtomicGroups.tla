---------------------------- MODULE AtomicGroups ----------------------------
(***************************************************************************)
(* What execute_transaction promises (lib.rs, "Run an atomic sql_tx        *)
(* transaction group"): a group of statements takes effect in one step or  *)
(* not at all; a caller that is told "ok" has its group, a caller that is  *)
(* told a statement failed does not.  An error of the commit itself leaves *)
(* the caller in doubt, and so does a call that is given up.               *)
(***************************************************************************)
EXTENDS Naturals

CONSTANTS Groups, Size

VARIABLES durable, reply

Init ==
    /\ durable = [g \in Groups |-> 0]
    /\ reply = [g \in Groups |-> "none"]

\* The one step at which a group takes effect.
TakeEffect(g) ==
    /\ reply[g] = "none"
    /\ durable[g] = 0
    /\ durable' = [durable EXCEPT ![g] = Size]
    /\ \E r \in {"none", "ok", "in_doubt"} : reply' = [reply EXCEPT ![g] = r]

Answer(g) ==
    /\ reply[g] = "none"
    /\ \E r \in {"ok", "failed", "in_doubt"} :
         /\ r = "ok" => durable[g] = Size
         /\ r = "failed" => durable[g] = 0
         /\ reply' = [reply EXCEPT ![g] = r]
    /\ UNCHANGED durable

Next == \E g \in Groups : TakeEffect(g) \/ Answer(g)

Spec == Init /\ [][Next]_<<durable, reply>>

=============================================================================
