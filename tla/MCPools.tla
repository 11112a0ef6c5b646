------------------------------ MODULE MCPools ------------------------------
(* Instance of Pools.  Its parts share nothing, so a behaviour starts one   *)
(* of them, with the two others over: nothing of them is enabled.           *)
EXTENDS Pools

BreakerOver ==
  /\ state = "Closed" /\ consecutive_failures = 0
  /\ opened_at = "none" /\ sinceOpen = "elapsed"
  /\ probe_in_flight = FALSE /\ healthy = TRUE
  /\ bpc = [c \in Caller |-> "over"]
  /\ probe = [c \in Caller |-> FALSE] /\ streak = [c \in Caller |-> 0]

RegistryOver ==
  /\ version = [u \in User |-> MaxVersion]
  /\ pools = [d \in {} |-> 0]
  /\ lock = Caller
  /\ evictions = MaxEvictions
  /\ sweep = {MaxSweepWait}
  /\ pc = [c \in Caller |-> "over"]
  /\ bundle = [c \in Caller |-> NoBundle] /\ now = [c \in Caller |-> 0]
  /\ pool = [c \in Caller |-> NoBundle] /\ vars = [c \in Caller |-> NoBundle]

MCInit ==
  \/ Init /\ BreakerOver /\ TextOver
  \/ RegistryOver /\ Breaker!Init /\ TextOver
  \/ RegistryOver /\ BreakerOver /\ Text!Init

\* The database comes and goes only while the breaker has callers.
MCNext ==
  \/ Next /\ UNCHANGED <<bvars, svars>>
  \/ (\A c \in Caller : bpc[c] # "over") /\ Breaker!Next /\ UNCHANGED <<vs, svars>>
  \/ Text!Next /\ UNCHANGED <<vs, bvars>>

MCSpec ==
  MCInit /\ [][MCNext]_<<vs, bvars, svars>> /\ Fairness /\ Breaker!Fairness
============================================================================
