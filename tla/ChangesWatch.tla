----------------------------- MODULE ChangesWatch -----------------------------
(***************************************************************************)
(* A `sql_changes` watch (src/src/watch_changes.rs): connect, find the     *)
(* start, then poll a keyset query page by page, against writers that      *)
(* commit out of key order and a host that stores events, restarts, and    *)
(* resumes the watch after the last row it stored.                         *)
(*                                                                         *)
(* Rows have one integer key each, drawn in order when their transaction   *)
(* inserts them; `initial` is 0.  Time is in ticks, TicksPerSecond of them *)
(* to the second the query's `_settle_before` is given in.                 *)
(***************************************************************************)
EXTENDS Integers, Sequences, FiniteSets

CONSTANTS
  MaxRow,          \* bound: rows inserted
  MaxTime,         \* bound: ticks
  MaxRestarts,     \* bound: restarts of the host
  MaxLag,          \* ticks from a row's insert to its commit, at most
  TicksPerSecond,
  Settle,          \* settle_ms in ticks, 0 when the spec has none
  Latest,          \* start: latest, otherwise beginning
  BatchSize,       \* batch_size
  MaxPerTick,      \* MAX_ROWS_PER_TICK
  MaxAttempts,     \* failures after which the backoff no longer grows
  Kinds            \* what the rows may be, see `kind`

Row == 1..MaxRow
Kind == {"plain",
         "unfit",    \* its op is unknown or its event is too large
         "keyless"}  \* a key column is null

ASSUME ChangesWatchAssumption ==
  /\ {MaxRow, MaxTime, MaxRestarts, MaxLag, Settle} \subseteq Nat
  /\ {TicksPerSecond, BatchSize, MaxPerTick, MaxAttempts} \subseteq Nat \ {0}
  /\ Latest \in BOOLEAN
  /\ Kinds \subseteq [Row -> Kind]

VARIABLES
  now,
  row,        \* each row: "new", "open", "committed" or "aborted"
  at,         \* tick of each row's insert
  kind,       \* what each row is
  pc,
  cancelled,
  key,        \* the last key read
  page, full, \* the rows of the page left to emit; it was a full page
  emitted,    \* rows emitted in this tick
  attempts,   \* Backoff.attempts
  position,   \* the stored cursor: a set of at most one key
  queue,      \* events emitted and not stored
  stored,     \* rows in the host's event log
  restarts,
  first       \* history: the key this sequence of positions began after

table == <<row, at, kind>>
host == <<position, queue, stored, restarts>>
work == <<key, page, full, emitted>>
vars == <<now, table, pc, cancelled, work, attempts, host, first>>

----------------------------------------------------------------------------
(* The writers                                                              *)

\* Sequence values are handed out in order; the last in time to settle.
Insert ==
  /\ now + Settle + TicksPerSecond <= MaxTime
  /\ \E r \in Row :
       /\ row[r] = "new"
       /\ \A s \in 1..r - 1 : row[s] # "new"
       /\ row' = [row EXCEPT ![r] = "open"]
       /\ at' = [at EXCEPT ![r] = now]
  /\ UNCHANGED <<now, kind, pc, cancelled, work, attempts, host, first>>

End(r) ==
  /\ row[r] = "open"
  /\ \E e \in {"committed", "aborted"} : row' = [row EXCEPT ![r] = e]
  /\ UNCHANGED <<now, at, kind, pc, cancelled, work, attempts, host, first>>

\* No transaction stays open for longer than MaxLag.
Tick ==
  /\ now < MaxTime
  /\ \A r \in Row : row[r] = "open" => now - at[r] < MaxLag
  /\ now' = now + 1
  /\ UNCHANGED <<table, pc, cancelled, work, attempts, host, first>>

Committed == {r \in Row : row[r] = "committed"}

----------------------------------------------------------------------------
(* Connecting and starting                                                  *)

\* Mutant of Waits: only the ticker is raced with the cancel.
WaitsTick == {"ticking"}

\* Where the loop waits in a select! on the cancel first.
Waits == {"connecting", "connect_backoff", "starting", "start_backoff",
          "ticking", "querying"}

Stop ==
  /\ cancelled
  /\ pc \in Waits
  /\ pc' = "ended"
  /\ UNCHANGED <<now, table, cancelled, work, attempts, host, first>>

Runs(p) == pc = p /\ (cancelled => p \notin Waits)

\* Backoff::wait, after a failure.
BackOff(p) ==
  /\ pc' = p
  /\ attempts' = IF attempts < MaxAttempts THEN attempts + 1 ELSE attempts

Connect ==
  /\ Runs("connecting")
  /\ attempts' = 0
  /\ IF position = {}
     THEN pc' = "starting" /\ UNCHANGED key
     ELSE pc' = "ticking" /\ key' \in position
  /\ UNCHANGED <<now, table, cancelled, page, full, emitted, host, first>>

ConnectFails ==
  /\ Runs("connecting")
  /\ BackOff("connect_backoff")
  /\ UNCHANGED <<now, table, cancelled, work, host, first>>

\* start_key: the newest key now, or `initial`.
Start ==
  /\ Runs("starting")
  /\ IF Latest /\ Committed # {}
     THEN key' \in Committed /\ \A r \in Committed : r <= key'
     ELSE key' = 0
  /\ first' = key'
  /\ pc' = "ticking"
  /\ UNCHANGED <<now, table, cancelled, page, full, emitted, attempts, host>>

StartFails ==
  /\ Runs("starting")
  /\ Latest
  /\ BackOff("start_backoff")
  /\ UNCHANGED <<now, table, cancelled, work, host, first>>

Retry ==
  /\ \/ Runs("connect_backoff") /\ pc' = "connecting"
     \/ Runs("start_backoff") /\ pc' = "starting"
  /\ UNCHANGED <<now, table, cancelled, work, attempts, host, first>>

----------------------------------------------------------------------------
(* poll                                                                     *)

Poll ==
  /\ Runs("ticking")
  /\ pc' = "querying"
  /\ emitted' = 0
  /\ UNCHANGED <<now, table, cancelled, key, page, full, attempts, host, first>>

\* Mutant of Before: settle_ms is not subtracted.
BeforeNow(t) == t < TicksPerSecond * (now \div TicksPerSecond)

\* page_args: now and settle_ms, each in whole seconds.
Before(t) ==
  t < TicksPerSecond * (now \div TicksPerSecond - Settle \div TicksPerSecond)

Settled(r) == Settle = 0 \/ Before(at[r])

\* ORDER BY key LIMIT n.
FirstRows(rows, n) == {r \in rows : Cardinality({s \in rows : s < r}) < n}

\* The operator's query: the rows after the key, in key order.
Query ==
  /\ Runs("querying")
  /\ LET rows == {r \in Committed : r > key /\ Settled(r)}
     IN  /\ page' = FirstRows(rows, BatchSize)
         /\ full' = (Cardinality(rows) >= BatchSize)
  /\ pc' = "emitting"
  /\ UNCHANGED <<now, table, cancelled, key, emitted, attempts, host, first>>

\* The query fails or takes too long: the next tick tries again.
QueryFails ==
  /\ Runs("querying")
  /\ pc' = "ticking"
  /\ emitted' = 0
  /\ UNCHANGED <<now, table, cancelled, key, page, full, attempts, host, first>>

\* Mutant of Moved: the key does not move past a row that is skipped.
MovedIfEmitted(r) == IF kind[r] = "unfit" THEN key ELSE r

\* *key = next, for each row emitted or skipped.
Moved(r) == r

\* The rows of a page are emitted in its order.
Foremost(r) == r \in page /\ \A s \in page : r <= s

Emit(r) ==
  /\ pc = "emitting"
  /\ Foremost(r)
  /\ kind[r] # "keyless"
  /\ IF kind[r] = "unfit"
     THEN UNCHANGED <<queue, emitted>>
     ELSE queue' = Append(queue, r) /\ emitted' = emitted + 1
  /\ key' = Moved(r)
  /\ page' = page \ {r}
  /\ UNCHANGED <<now, table, pc, cancelled, full, attempts, position, stored,
                 restarts, first>>

\* A row without a key ends the poll with an error.
EmitFails(r) ==
  /\ pc = "emitting"
  /\ Foremost(r)
  /\ kind[r] = "keyless"
  /\ page' = {}
  /\ full' = FALSE
  /\ emitted' = 0
  /\ pc' = "ticking"
  /\ UNCHANGED <<now, table, cancelled, key, attempts, host, first>>

PollOver == ~full \/ emitted >= MaxPerTick \/ cancelled

PageDone ==
  /\ pc = "emitting"
  /\ page = {}
  /\ IF PollOver
     THEN pc' = "ticking" /\ attempts' = 0 /\ emitted' = 0
     ELSE pc' = "querying" /\ UNCHANGED <<attempts, emitted>>
  /\ full' = FALSE
  /\ UNCHANGED <<now, table, cancelled, key, page, host, first>>

----------------------------------------------------------------------------
(* The host                                                                 *)

\* An event enters the log together with its upstream_cursor.
Store ==
  /\ queue # <<>>
  /\ stored' = stored \cup {Head(queue)}
  /\ position' = {Head(queue)}
  /\ queue' = Tail(queue)
  /\ UNCHANGED <<now, table, pc, cancelled, work, attempts, restarts, first>>

Cancel ==
  /\ ~cancelled
  /\ cancelled' = TRUE
  /\ UNCHANGED <<now, table, pc, work, attempts, host, first>>

\* The host crashes, or restarts a watch it cancelled: events it has not
\* stored are gone.
Restart ==
  /\ restarts < MaxRestarts
  /\ restarts' = restarts + 1
  /\ pc' = "connecting"
  /\ cancelled' = FALSE
  /\ key' = 0
  /\ page' = {}
  /\ full' = FALSE
  /\ emitted' = 0
  /\ attempts' = 0
  /\ queue' = <<>>
  /\ UNCHANGED <<now, table, position, stored, first>>

----------------------------------------------------------------------------
Init ==
  /\ now = 0
  /\ row = [r \in Row |-> "new"]
  /\ at = [r \in Row |-> 0]
  /\ kind \in Kinds
  /\ pc = "connecting"
  /\ cancelled = FALSE
  /\ key = 0
  /\ page = {}
  /\ full = FALSE
  /\ emitted = 0
  /\ attempts = 0
  /\ position = {}
  /\ queue = <<>>
  /\ stored = {}
  /\ restarts = 0
  /\ first = 0

Answer == Connect \/ Start \/ Query
Failure == ConnectFails \/ StartFails \/ QueryFails
Loop == Stop \/ Retry \/ Poll \/ PageDone \/ \E r \in page : Emit(r) \/ EmitFails(r)
Writers == Insert \/ (\E r \in Row : End(r)) \/ Tick

Next == Answer \/ Failure \/ Loop \/ Writers \/ Store \/ Cancel \/ Restart

Spec == Init /\ [][Next]_vars

\* The loop runs, its database calls answer, fail or time out; time passes,
\* transactions end and the host stores.
Fairness ==
  /\ WF_vars(Loop \/ Answer \/ Failure)
  /\ WF_vars(Tick) /\ \A r \in Row : WF_vars(End(r))
  /\ WF_vars(Store)

FairSpec == Spec /\ Fairness

\* The database answers now and then.
DatabaseAnswers == SF_vars(Connect) /\ SF_vars(Start) /\ SF_vars(Query)

----------------------------------------------------------------------------
(* Properties                                                               *)

\* A tick emits fewer than MAX_ROWS_PER_TICK rows before its last page.
TypeOK ==
  /\ now \in 0..MaxTime
  /\ row \in [Row -> {"new", "open", "committed", "aborted"}]
  /\ at \in [Row -> 0..MaxTime]
  /\ kind \in Kinds
  /\ pc \in {"connecting", "connect_backoff", "starting", "start_backoff",
             "ticking", "querying", "emitting", "ended"}
  /\ cancelled \in BOOLEAN
  /\ key \in 0..MaxRow
  /\ page \subseteq Row /\ Cardinality(page) <= BatchSize
  /\ full \in BOOLEAN
  /\ emitted \in 0..MaxPerTick + BatchSize - 1
  /\ attempts \in 0..MaxAttempts
  /\ position \in {{}} \cup {{r} : r \in Row}
  /\ queue \in Seq(Row)
  /\ stored \subseteq Row
  /\ restarts \in 0..MaxRestarts
  /\ first \in 0..MaxRow

\* Every committed row up to the stored position is stored, except those that
\* make no event.
NoGap ==
  \A r \in Committed, p \in position :
    first < r /\ r <= p => r \in stored \/ kind[r] = "unfit"

\* `settle_ms`: "Read only rows older than this many milliseconds, so a row
\* that commits late with a lower key is not passed over".  It holds when
\* settle_ms is given and no transaction takes longer than its whole seconds,
\* which are what page_args subtracts.
NothingPassedOver ==
  Settle > 0 /\ MaxLag <= TicksPerSecond * (Settle \div TicksPerSecond) => NoGap

\* The same for settle_ms as it is written, which the code does not keep.
SettleHonoured == MaxLag <= Settle => NoGap

\* A committed row after the start is stored in the end, if the watch is not
\* cancelled, no row before it lacks a key and the database answers now and
\* then, however often it fails and the host restarts.
RowsArrive ==
  DatabaseAnswers =>
    \A r \in Row :
      (row[r] = "committed" /\ r > first /\ pc = "ticking"
       /\ \A s \in 1..r : kind[s] # "keyless") ~>
        (r \in stored \/ kind[r] = "unfit" \/ r <= first \/ cancelled)

\* A cancelled watch ends, even when the database never answers, unless the
\* host has started it anew.
CancelEnds == cancelled ~> (pc = "ended" \/ ~cancelled)
=============================================================================
