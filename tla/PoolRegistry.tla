---------------------------- MODULE PoolRegistry ----------------------------
(***************************************************************************)
(* The registry of per-credential pools (src/src/pool.rs) as calls use it  *)
(* (resolve_pool_for_call in src/src/lib.rs): get_or_build under the async *)
(* mutex with its LRU eviction, the evictions spawned by revocation and    *)
(* secret-rotation events, and the idle sweeper.                           *)
(*                                                                         *)
(* A resolved credential bundle is a user's credential in one of its       *)
(* versions.  Times are ages in ticks: `last_used` of an entry is how long *)
(* ago it was, capped at MaxAge.  Every entry of a registry has the same   *)
(* cred_keys, those of the profile's tokens, so evict_for removes all.     *)
(***************************************************************************)
EXTENDS Integers, FiniteSets, Functions

CONSTANTS Caller, User,
          PoolMaxEntries,  \* pool_max_entries
          IdleEviction,    \* idle_eviction, in ticks
          MaxVersion,      \* bound: versions of a user's credential
          MaxEvictions     \* bound: eviction tasks waiting to run

ASSUME PoolRegistryAssumption ==
  /\ PoolMaxEntries \in Nat \ {0}
  /\ IdleEviction \in Nat \ {0}
  /\ MaxVersion \in Nat \ {0}
  /\ MaxEvictions \in Nat

\* Bound: ticks the sweeper waits for the lock (connects time out in seconds,
\* idle_eviction is minutes).
MaxSweepWait == 1
MaxAge == IdleEviction + MaxSweepWait
Age == 0..MaxAge
Bundle == User \X (1..MaxVersion)
NoBundle == <<>>

VARIABLES
  version,    \* the version of each user's credential the host resolves to
  pools,      \* digest -> [cred, last_used]
  lock,       \* {} or the caller that holds the mutex across its build
  evictions,  \* eviction tasks spawned and not run yet
  sweep,      \* {} or {age of the sweeper's `now`} while it waits for the lock
  pc,
  bundle,     \* what the call resolved
  now,        \* age of the `now` the call read before it asked for the lock
  pool,       \* the bundle the pool the call was given was built with
  vars        \* what the second resolution gave, for the session vars

vs == <<version, pools, lock, evictions, sweep, pc, bundle, now,
        pool, vars>>

\* Mutant of Digest: keyed by caller, not by what the credential resolves to.
DigestOfUser(b) == <<b[1], 1>>

\* digest_credential_bundle: equal exactly for equal bundles.
Digest(b) == b

Older(n) == IF n < MaxAge THEN n + 1 ELSE n
Remove(ds) == Restrict(pools, DOMAIN pools \ ds)

----------------------------------------------------------------------------
(* The host                                                                 *)

\* A user's credential is revoked: the next resolution gives a new one, and
\* the subscriber spawns evict_for.
Revoke(u) ==
  /\ version[u] < MaxVersion
  /\ evictions < MaxEvictions
  /\ version' = [version EXCEPT ![u] = @ + 1]
  /\ evictions' = evictions + 1
  /\ UNCHANGED <<pools, lock, sweep, pc, bundle, now, pool, vars>>

\* A secret of the profile's spec rotates: evict_for_secret is spawned.
RotateSecret ==
  /\ evictions < MaxEvictions
  /\ evictions' = evictions + 1
  /\ UNCHANGED <<version, pools, lock, sweep, pc, bundle, now, pool, vars>>

\* evict_for / evict_for_secret.
Evict ==
  /\ evictions > 0
  /\ lock = {}
  /\ evictions' = evictions - 1
  /\ pools' = Remove(DOMAIN pools)
  /\ UNCHANGED <<version, lock, sweep, pc, bundle, now, pool, vars>>

----------------------------------------------------------------------------
(* A call                                                                   *)

\* resolve_creds_for: the bundle, its digest and its cred_keys.
Resolve(c) ==
  /\ pc[c] = "idle"
  /\ \E u \in User : bundle' = [bundle EXCEPT ![c] = <<u, version[u]>>]
  /\ pc' = [pc EXCEPT ![c] = "resolved"]
  /\ UNCHANGED <<version, pools, lock, evictions, sweep, now, pool, vars>>

\* get_or_build reads the clock, then waits for the lock.
ReadClock(c) ==
  /\ pc[c] = "resolved"
  /\ pc' = [pc EXCEPT ![c] = "queued"]
  /\ UNCHANGED <<version, pools, lock, evictions, sweep, bundle, now, pool,
                 vars>>

Hit(c) ==
  /\ pc[c] = "queued"
  /\ lock = {}
  /\ Digest(bundle[c]) \in DOMAIN pools
  /\ pools' = [pools EXCEPT ![Digest(bundle[c])].last_used = now[c]]
  /\ pool' = [pool EXCEPT ![c] = pools[Digest(bundle[c])].cred]
  /\ pc' = [pc EXCEPT ![c] = "pooled"]
  /\ now' = [now EXCEPT ![c] = 0]
  /\ UNCHANGED <<version, lock, evictions, sweep, bundle, vars>>

Miss(c) ==
  /\ pc[c] = "queued"
  /\ lock = {}
  /\ Digest(bundle[c]) \notin DOMAIN pools
  /\ lock' = {c}
  /\ pc' = [pc EXCEPT ![c] = "building"]
  /\ UNCHANGED <<version, pools, evictions, sweep, bundle, now, pool, vars>>

\* The entries that may be the least recently used one; the code breaks ties
\* by the order of the digests.
LruKeys ==
  {d \in DOMAIN pools :
     \A e \in DOMAIN pools : pools[e].last_used <= pools[d].last_used}

\* What the LRU loop removes: the registry is never over its limit, so one
\* entry makes room.
Victims ==
  IF Cardinality(DOMAIN pools) >= PoolMaxEntries
  THEN {{d} : d \in LruKeys} ELSE {{}}

Insert(c, victims) ==
  LET kept == Remove(victims)
      d == Digest(bundle[c])
      entry == [cred |-> bundle[c], last_used |-> now[c]]
  IN [e \in DOMAIN kept \cup {d} |-> IF e = d THEN entry ELSE kept[e]]

BuildSucceeds(c) ==
  /\ pc[c] = "building"
  /\ \E victims \in Victims : pools' = Insert(c, victims)
  /\ lock' = lock \ {c}
  /\ pool' = [pool EXCEPT ![c] = bundle[c]]
  /\ pc' = [pc EXCEPT ![c] = "pooled"]
  /\ now' = [now EXCEPT ![c] = 0]
  /\ UNCHANGED <<version, evictions, sweep, bundle, vars>>

\* connect fails, or the call is dropped: the lock goes with it.
BuildFails(c) ==
  /\ pc[c] = "building"
  /\ lock' = lock \ {c}
  /\ pc' = [pc EXCEPT ![c] = "idle"]
  /\ now' = [now EXCEPT ![c] = 0]
  /\ bundle' = [bundle EXCEPT ![c] = NoBundle]
  /\ UNCHANGED <<version, pools, evictions, sweep, pool, vars>>

\* execute_inner_impl resolves a second time, for the session vars.
ResolveAgain(c) ==
  /\ pc[c] = "pooled"
  /\ LET u == bundle[c][1] IN vars' = [vars EXCEPT ![c] = <<u, version[u]>>]
  /\ pc' = [pc EXCEPT ![c] = "running"]
  /\ UNCHANGED <<version, pools, lock, evictions, sweep, bundle, now, pool>>

Return(c) ==
  /\ pc[c] = "running"
  /\ pc' = [pc EXCEPT ![c] = "idle"]
  /\ bundle' = [bundle EXCEPT ![c] = NoBundle]
  /\ pool' = [pool EXCEPT ![c] = NoBundle]
  /\ vars' = [vars EXCEPT ![c] = NoBundle]
  /\ UNCHANGED <<version, pools, lock, evictions, sweep, now>>

----------------------------------------------------------------------------
(* The sweeper                                                              *)

SweepTick ==
  /\ sweep = {}
  /\ sweep' = {0}
  /\ UNCHANGED <<version, pools, lock, evictions, pc, bundle, now, pool, vars>>

\* Mutant of IdleAt: last.saturating_sub(now) instead.
IdleAtSwapped(age) ==
  {d \in DOMAIN pools : age >= pools[d].last_used + IdleEviction}

\* now.saturating_sub(last) >= threshold
IdleAt(age) ==
  {d \in DOMAIN pools : pools[d].last_used >= age + IdleEviction}

SweepIdle ==
  /\ lock = {}
  /\ \E age \in sweep : pools' = Remove(IdleAt(age))
  /\ sweep' = {}
  /\ UNCHANGED <<version, lock, evictions, pc, bundle, now, pool, vars>>

Tick ==
  /\ \A age \in sweep : age < MaxSweepWait
  /\ pools' = [d \in DOMAIN pools |->
                 [pools[d] EXCEPT !.last_used = Older(@)]]
  /\ now' = [c \in Caller |->
               IF pc[c] \in {"queued", "building"} THEN Older(now[c]) ELSE 0]
  /\ sweep' = {Older(age) : age \in sweep}
  /\ UNCHANGED <<version, lock, evictions, pc, bundle, pool, vars>>

----------------------------------------------------------------------------
Init ==
  /\ version = [u \in User |-> 1]
  /\ pools = [d \in {} |-> 0]
  /\ lock = {}
  /\ evictions = 0
  /\ sweep = {}
  /\ pc = [c \in Caller |-> "idle"]
  /\ bundle = [c \in Caller |-> NoBundle]
  /\ now = [c \in Caller |-> 0]
  /\ pool = [c \in Caller |-> NoBundle]
  /\ vars = [c \in Caller |-> NoBundle]

Step(c) ==
  \/ Resolve(c) \/ ReadClock(c) \/ Hit(c) \/ Miss(c)
  \/ BuildSucceeds(c) \/ BuildFails(c) \/ ResolveAgain(c) \/ Return(c)

Next ==
  \/ \E c \in Caller : Step(c)
  \/ \E u \in User : Revoke(u)
  \/ RotateSecret \/ Evict \/ SweepTick \/ SweepIdle \/ Tick

Spec == Init /\ [][Next]_vs

\* Connects end (they time out), one call at a time; the sweeper's interval
\* ticks; and the tokio mutex is handed out in the order of the requests, so
\* whoever waits for it while it is free again and again gets it.
Fairness ==
  /\ WF_vs(\E c \in Caller : BuildSucceeds(c) \/ BuildFails(c))
  /\ WF_vs(Tick)
  /\ WF_vs(SweepTick)
  /\ SF_vs(SweepIdle)

FairSpec == Spec /\ Fairness

----------------------------------------------------------------------------
(* Properties                                                               *)

Label == {"idle", "resolved", "queued", "building", "pooled", "running"}
Resolved == Bundle \cup {NoBundle}

\* Every entry is filed under the digest of some bundle; no more evictions
\* run than were spawned.
TypeOK ==
  /\ version \in [User -> 1..MaxVersion]
  /\ DOMAIN pools \subseteq Bundle
  /\ \A d \in DOMAIN pools : pools[d] \in [cred : Bundle, last_used : Age]
  /\ lock \subseteq Caller
  /\ evictions \in Nat
  /\ sweep \subseteq Age
  /\ pc \in [Caller -> Label]
  /\ bundle \in [Caller -> Resolved]
  /\ now \in [Caller -> Age]
  /\ pool \in [Caller -> Resolved]
  /\ vars \in [Caller -> Resolved]

\* However calls, evictions and the sweeper interleave, the registry holds no
\* more pools than its limit.
RegistryBounded == Cardinality(DOMAIN pools) <= PoolMaxEntries

\* "concurrent callers for the same digest see only one underlying connect
\* call": nobody connects for a digest that has a pool in the registry, nor
\* two calls for the same digest at once.
NoDuplicateConnect ==
  \A c \in Caller :
    pc[c] = "building" =>
      /\ Digest(bundle[c]) \notin DOMAIN pools
      /\ \A e \in Caller :
           pc[e] = "building" /\ Digest(bundle[e]) = Digest(bundle[c]) => e = c

\* A call runs on a pool that was built with exactly the credentials it
\* resolved itself, whoever built it and whatever was revoked before.
PoolMatchesCaller ==
  \A c \in Caller : pc[c] \in {"pooled", "running"} => pool[c] = bundle[c]

\* A pool of a revoked credential that a slow call put back after the
\* eviction does not stay: it leaves the registry.  The last version of a
\* credential is never revoked.
RevokedPoolsGo ==
  \A d \in User \X (1..MaxVersion - 1) :
    (d \in DOMAIN pools /\ d[2] < version[d[1]]) ~> (d \notin DOMAIN pools)

\* "Re-resolve to get the resolved session-vars values (... credential
\* resolver hits the cache the second time ...)": both resolutions of a call
\* give the same bundle.
SameBundleTwice == \A c \in Caller : pc[c] = "running" => vars[c] = bundle[c]
=============================================================================
