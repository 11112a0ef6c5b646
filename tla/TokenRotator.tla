----------------------------- MODULE TokenRotator -----------------------------
(***************************************************************************)
(* The cloud-auth token of a pool: the rotation task                       *)
(* (src/src/auth/rotator.rs), the pool whose connect options it refreshes, *)
(* and the owner that keeps the task alive: a profile runtime              *)
(* (register_profile in src/src/lib.rs) or a watch (src/src/watch.rs,      *)
(* src/src/watch_changes.rs).                                              *)
(*                                                                         *)
(* Ages instead of times: every quantity of time grows with Tick.          *)
(***************************************************************************)
EXTENDS Naturals

CONSTANTS
  TTL,          \* the provider's token_ttl
  SafetyMargin, MinInterval,  \* RotatorConfig
  MaxFetch,     \* longest time to fetch and apply a token
  MaxFailures,  \* bound: rotations that fail in a row
  MaxAge        \* bound: ages are not told apart from here on

\* Mutant of interval_for: the margin is added.
interval_forLate == TTL + SafetyMargin

\* interval_for of a finite TTL.
interval_for ==
  LET target == IF TTL > SafetyMargin THEN TTL - SafetyMargin ELSE 0
  IN  IF target > MinInterval THEN target ELSE MinInterval

Older(n) == IF n < MaxAge THEN n + 1 ELSE n

VARIABLES
  owner,     \* of the pool: "profile" or "watch"
  pool,      \* "open" or "closed"
  held,      \* someone holds the Arc<TokenRotator>
  task,      \* "sleeping", "fetching", "applying" or "stopped"
  elapsed,   \* time in this sleep, or in this rotation
  token,     \* age of the token in the pool's connect options
  fetched,   \* age of the token about to be applied
  failures   \* rotations that failed since the last one that did not

vars == <<owner, pool, held, task, elapsed, token, fetched, failures>>

----------------------------------------------------------------------------
(* Time                                                                     *)

\* The sleep ends when it is due, and a rotation takes at most MaxFetch.  A
\* watch drops its rotator as soon as it has the pool.
Due ==
  \/ task = "sleeping" /\ elapsed = interval_for
  \/ task \in {"fetching", "applying"} /\ elapsed = MaxFetch
  \/ owner = "watch" /\ held

Tick ==
  /\ pool = "open"
  /\ ~Due
  /\ elapsed' = IF task = "stopped" THEN 0 ELSE elapsed + 1
  /\ token' = Older(token)
  /\ fetched' = IF task = "applying" THEN fetched + 1 ELSE 0
  /\ UNCHANGED <<owner, pool, held, task, failures>>

----------------------------------------------------------------------------
(* The rotation task                                                        *)

\* select!, biased to the cancel.
Wake ==
  /\ task = "sleeping"
  /\ held
  /\ elapsed = interval_for
  /\ task' = "fetching"
  /\ elapsed' = 0
  /\ UNCHANGED <<owner, pool, held, token, fetched, failures>>

Cancelled ==
  /\ task = "sleeping"
  /\ ~held
  /\ task' = "stopped"
  /\ elapsed' = 0
  /\ UNCHANGED <<owner, pool, held, token, fetched, failures>>

FetchToken ==
  /\ task = "fetching"
  /\ task' = "applying"
  /\ fetched' = 0
  /\ UNCHANGED <<owner, pool, held, elapsed, token, failures>>

Apply ==
  /\ task = "applying"
  /\ task' = "sleeping"
  /\ elapsed' = 0
  /\ token' = fetched
  /\ fetched' = 0
  /\ failures' = 0
  /\ UNCHANGED <<owner, pool, held>>

\* fetch_token or apply fails: the next tick retries, an interval later.
RotationFails ==
  /\ task \in {"fetching", "applying"}
  /\ failures < MaxFailures
  /\ failures' = failures + 1
  /\ task' = "sleeping"
  /\ elapsed' = 0
  /\ fetched' = 0
  /\ UNCHANGED <<owner, pool, held, token>>

----------------------------------------------------------------------------
(* The pool and its owner                                                   *)

\* A profile runtime owns the pool and its rotator, and drops both.
Teardown ==
  /\ pool = "open"
  /\ owner = "profile"
  /\ pool' = "closed"
  /\ held' = FALSE
  /\ UNCHANGED <<owner, task, elapsed, token, fetched, failures>>

\* watch and run bind build_pool's rotator to a local of the block that
\* connects; the pool outlives it.
WatchDropsRotator ==
  /\ owner = "watch"
  /\ held
  /\ held' = FALSE
  /\ UNCHANGED <<owner, pool, task, elapsed, token, fetched, failures>>

----------------------------------------------------------------------------
\* The pool is built with a first token, which took MaxFetch at most.
Init ==
  /\ owner \in {"profile", "watch"}
  /\ pool = "open"
  /\ held = TRUE
  /\ task = "sleeping"
  /\ elapsed = 0
  /\ token \in 0..MaxFetch
  /\ fetched = 0
  /\ failures = 0

Task == Wake \/ Cancelled \/ FetchToken \/ Apply \/ RotationFails

Next == Tick \/ Task \/ Teardown \/ WatchDropsRotator

Spec == Init /\ [][Next]_vars

----------------------------------------------------------------------------
(* Properties                                                               *)

\* safety_margin leaves room for two fetches, and min_interval does not take
\* it away.
RoomForTwoFetches ==
  /\ 2 * MaxFetch < SafetyMargin
  /\ MinInterval + 2 * MaxFetch < TTL

\* While its rotator is held, a connection is never opened with an expired
\* token, if the margin leaves room for two fetches: the one that made the
\* token and the one that replaces it.  A rotation that fails is made up for
\* an interval and a fetch later.
TokenValid ==
  RoomForTwoFetches /\ held =>
    token < TTL + failures * (interval_for + MaxFetch)
=============================================================================
