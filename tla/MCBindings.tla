----------------------------- MODULE MCBindings -----------------------------
(* A behaviour of Bindings starts one of the three, with the others over.    *)
EXTENDS Bindings

MCInit ==
  \/ Init /\ CacheOver /\ DocumentOver
  \/ CallOver /\ Cache!Init /\ DocumentOver
  \/ CallOver /\ CacheOver /\ Document!Init

\* The guard spares TLC the steps of what is over.
MCNext ==
  \/ Next /\ UNCHANGED <<kvars, bvars>>
  \/ Cache!Next /\ UNCHANGED <<vars, bvars>>
  \/ bpc # "refused" /\ Document!Next /\ UNCHANGED <<vars, kvars>>

MCSpec == MCInit /\ [][MCNext]_<<vars, kvars, bvars>>
=============================================================================
