--------------------------- MODULE ResponseCache ---------------------------
(***************************************************************************)
(* The response cache of a read-only binding: the version stamp and its    *)
(* watcher (src/src/cache.rs) and the cache lookup and write of a call     *)
(* (execute_inner_impl in src/src/lib.rs), across hot reloads of the       *)
(* binding.                                                                *)
(*                                                                         *)
(* One query with one set of parameters: its key differs only in the       *)
(* version.  `db` counts the changes of the table; the query's result is   *)
(* the state it saw.  The host's cache outlives a reload, each runtime has *)
(* a watcher and a version of its own.                                     *)
(***************************************************************************)
EXTENDS Naturals, FiniteSets, Functions

CONSTANTS Caller,
          MaxChanges,   \* bound: changes of the table
          MaxRuntimes,  \* bound: registrations of the binding
          Empty         \* states in which the tracking query returns no row

Runtime == 1..MaxRuntimes
State == 1..MaxChanges + 1
Version == 0..MaxChanges
None == 0

VARIABLES
  db,
  live,     \* the runtime in the map, 0 when the binding is not registered
  built,    \* runtimes so far
  version,  \* CacheInvalidator.version of each runtime
  last,     \* last_cursor of each watcher
  read,     \* the state a watcher's tracking query saw, None between polls
  task,     \* each watcher: "none", "running" or "stopped"
  arcs,     \* strong references to each CacheInvalidator
  cache,    \* the host's cache: version in the key -> [value, by]
  pc, rt, key, result,
  seen,     \* history: newest state for which each watcher bumped its version
  from,     \* history: the runtime that stored the entry a call was answered with
  since     \* history: `seen` when the call read the version

vars == <<db, live, built, version, last, read, task, arcs, cache, pc, rt, key,
          result, seen, from, since>>
watchVars == <<version, last, read, task, seen>>
callVars == <<pc, rt, key, result, from, since>>

----------------------------------------------------------------------------
(* The table and the host                                                   *)

Change ==
  /\ db <= MaxChanges
  /\ db' = db + 1
  /\ UNCHANGED <<live, built, watchVars, arcs, cache, callVars>>

\* The tracking query's first scalar; states differ in it unless both have
\* no row.
Cursor(n) == IF n \in Empty THEN None ELSE n

ExpireEntry ==
  /\ \E v \in DOMAIN cache : cache' = Restrict(cache, DOMAIN cache \ {v})
  /\ UNCHANGED <<db, live, built, watchVars, arcs, callVars>>

----------------------------------------------------------------------------
(* Registration                                                             *)

\* register_profile inserts a runtime with a new invalidator, replacing the
\* one before; the new one has two references, the runtime's and the task's.
RegisterProfile ==
  /\ built < MaxRuntimes
  /\ built' = built + 1
  /\ live' = built + 1
  /\ task' = [task EXCEPT ![built + 1] = "running"]
  /\ arcs' = [g \in Runtime |-> CASE g = built + 1 -> 2
                                  [] g = live -> arcs[g] - 1
                                  [] OTHER -> arcs[g]]
  /\ UNCHANGED <<db, version, last, read, cache, callVars, seen>>

----------------------------------------------------------------------------
(* invalidation_loop                                                        *)

\* A tick: the task stops when the last reference has cancelled its token,
\* and runs the tracking query otherwise.
Tick(g) ==
  /\ task[g] = "running"
  /\ read[g] = None
  /\ IF arcs[g] = 0
     THEN task' = [task EXCEPT ![g] = "stopped"] /\ UNCHANGED read
     ELSE read' = [read EXCEPT ![g] = db] /\ UNCHANGED task
  /\ UNCHANGED <<db, live, built, version, last, arcs, cache, callVars, seen>>

\* The tracking query fails: the loop continues.
PollFails(g) ==
  /\ read[g] # None
  /\ read' = [read EXCEPT ![g] = None]
  /\ UNCHANGED <<db, live, built, version, last, task, arcs, cache, callVars,
                 seen>>

\* A change bumps the version, the baseline does not.
Changed(old, new) == new # old /\ old # None

PollSucceeds(g) ==
  /\ read[g] # None
  /\ LET cursor == Cursor(read[g]) IN
     /\ last' = [last EXCEPT ![g] = cursor]
     /\ IF Changed(last[g], cursor)
        THEN /\ version' = [version EXCEPT ![g] = @ + 1]
             /\ seen' = [seen EXCEPT ![g] = read[g]]
        ELSE UNCHANGED <<version, seen>>
  /\ read' = [read EXCEPT ![g] = None]
  /\ UNCHANGED <<db, live, built, task, arcs, cache, callVars>>

----------------------------------------------------------------------------
(* A call                                                                   *)

\* execute_inner clones the runtime, and with it the invalidator's Arc.
Start(c) ==
  /\ pc[c] = "idle"
  /\ live # 0
  /\ rt' = [rt EXCEPT ![c] = live]
  /\ arcs' = [arcs EXCEPT ![live] = @ + 1]
  /\ pc' = [pc EXCEPT ![c] = "started"]
  /\ UNCHANGED <<db, live, built, watchVars, cache, key, result, from, since>>

\* build_cache_key with the version at this moment.
BuildKey(c) ==
  /\ pc[c] = "started"
  /\ key' = [key EXCEPT ![c] = version[rt[c]]]
  /\ since' = [since EXCEPT ![c] = seen[rt[c]]]
  /\ pc' = [pc EXCEPT ![c] = "keyed"]
  /\ UNCHANGED <<db, live, built, watchVars, arcs, cache, rt, result, from>>

CacheGet(c) ==
  /\ pc[c] = "keyed"
  /\ IF key[c] \in DOMAIN cache
     THEN /\ result' = [result EXCEPT ![c] = cache[key[c]].value]
          /\ from' = [from EXCEPT ![c] = cache[key[c]].by]
          /\ pc' = [pc EXCEPT ![c] = "hit"]
     ELSE /\ UNCHANGED <<result, from>>
          /\ pc' = [pc EXCEPT ![c] = "missed"]
  /\ UNCHANGED <<db, live, built, watchVars, arcs, cache, rt, key, since>>

Query(c) ==
  /\ pc[c] = "missed"
  /\ result' = [result EXCEPT ![c] = db]
  /\ pc' = [pc EXCEPT ![c] = "queried"]
  /\ UNCHANGED <<db, live, built, watchVars, arcs, cache, rt, key, from, since>>

Put(c, v) ==
  cache' = [w \in DOMAIN cache \cup {v} |->
              IF w = v THEN [value |-> result[c], by |-> rt[c]] ELSE cache[w]]

\* Mutant of CachePut: the key is built with the version after the query.
CachePutLate(c) ==
  /\ pc[c] = "queried"
  /\ Put(c, version[rt[c]]) \/ UNCHANGED cache
  /\ pc' = [pc EXCEPT ![c] = "put"]
  /\ UNCHANGED <<db, live, built, watchVars, arcs, rt, key, result, from, since>>

\* The result goes into the cache under the key of the lookup; a failed
\* cache_put is ignored.
CachePut(c) ==
  /\ pc[c] = "queried"
  /\ Put(c, key[c]) \/ UNCHANGED cache
  /\ pc' = [pc EXCEPT ![c] = "put"]
  /\ UNCHANGED <<db, live, built, watchVars, arcs, rt, key, result, from, since>>

\* The call returns, or fails before it has a result; the runtime clone goes.
Return(c) ==
  /\ pc[c] \in {"hit", "missed", "put"}
  /\ pc' = [pc EXCEPT ![c] = "idle"]
  /\ arcs' = [arcs EXCEPT ![rt[c]] = @ - 1]
  /\ rt' = [rt EXCEPT ![c] = 0]
  /\ key' = [key EXCEPT ![c] = 0]
  /\ result' = [result EXCEPT ![c] = None]
  /\ from' = [from EXCEPT ![c] = 0]
  /\ since' = [since EXCEPT ![c] = None]
  /\ UNCHANGED <<db, live, built, watchVars, cache>>

----------------------------------------------------------------------------
Init ==
  /\ db = 1
  /\ live = 0
  /\ built = 0
  /\ version = [g \in Runtime |-> 0]
  /\ last = [g \in Runtime |-> None]
  /\ read = [g \in Runtime |-> None]
  /\ task = [g \in Runtime |-> "none"]
  /\ arcs = [g \in Runtime |-> 0]
  /\ cache = [v \in {} |-> 0]
  /\ pc = [c \in Caller |-> "idle"]
  /\ rt = [c \in Caller |-> 0]
  /\ key = [c \in Caller |-> 0]
  /\ result = [c \in Caller |-> None]
  /\ seen = [g \in Runtime |-> None]
  /\ from = [c \in Caller |-> 0]
  /\ since = [c \in Caller |-> None]

Poll(g) == Tick(g) \/ PollFails(g) \/ PollSucceeds(g)

Step(c) ==
  \/ Start(c) \/ BuildKey(c) \/ CacheGet(c) \/ Query(c) \/ CachePut(c)
  \/ Return(c)

Next ==
  \/ Change \/ ExpireEntry \/ RegisterProfile
  \/ \E g \in Runtime : Poll(g)
  \/ \E c \in Caller : Step(c)

Spec == Init /\ [][Next]_vars

\* Watchers tick, their queries end, and calls that have begun end.
FairSpec ==
  /\ Spec
  /\ \A g \in Runtime : WF_vars(Poll(g))
  /\ \A c \in Caller : WF_vars(pc[c] # "idle" /\ Step(c))

----------------------------------------------------------------------------
(* Properties                                                               *)

\* A watcher has bumped its version at most once per change of the table.
TypeOK ==
  /\ db \in State
  /\ built \in 0..MaxRuntimes
  /\ live \in 0..built
  /\ version \in [Runtime -> Version]
  /\ last \in [Runtime -> State \cup {None}]
  /\ read \in [Runtime -> State \cup {None}]
  /\ task \in [Runtime -> {"none", "running", "stopped"}]
  /\ arcs \in [Runtime -> Nat]
  /\ DOMAIN cache \subseteq Version /\ \A v \in DOMAIN cache :
       cache[v] \in [value : State, by : Runtime]
  /\ pc \in [Caller -> {"idle", "started", "keyed", "hit", "missed", "queried",
                        "put"}]
  /\ rt \in [Caller -> 0..MaxRuntimes]
  /\ key \in [Caller -> Version]
  /\ result \in [Caller -> State \cup {None}]
  /\ seen \in [Runtime -> State \cup {None}]
  /\ from \in [Caller -> 0..MaxRuntimes]
  /\ since \in [Caller -> State \cup {None}]

\* "a version bump makes every previously-stored entry naturally miss in one
\* atomic step": a call that begins after a bump is never answered with a
\* result of its own registration older than the change the bump stands for.
HitsAreFresh ==
  \A c \in Caller :
    pc[c] = "hit" /\ from[c] = rt[c] => result[c] >= since[c]

\* The same of every entry in the cache, which a reload breaks: its version
\* starts at 0 again, over a cache that it does not clear.
AllHitsFresh == \A c \in Caller : pc[c] = "hit" => result[c] >= since[c]

\* "On any cursor change the watcher bumps an AtomicU64 version ... so all
\* old keys become unreachable": what a watcher between polls can reach under
\* its version is not older than the last change of the cursor it polled.
PolledChangesReachable ==
  \A g \in Runtime :
    last[g] # None /\ version[g] \in DOMAIN cache =>
      cache[version[g]].value >= last[g]

\* "the watcher tears down once all clones (including the in-flight ones)
\* drop": a watcher nobody but itself refers to stops.
WatcherStops ==
  \A g \in Runtime :
    (/\ task[g] = "running" /\ live # g
     /\ \A c \in Caller : rt[c] # g) ~> (task[g] = "stopped")
=============================================================================
