# Verification of the SQL backend plugin

TLA+ models of `mcpg-plugin-backend-sql`, checked with TLC on small instances and,
for the safety properties, proved with TLAPS for every value of the constants. Source
paths below are relative to `src/src/`.

## 1. The system and its parts

The plugin is loaded by a gateway. For each *binding* the gateway calls
`register_profile`, which builds a `ProfileRuntime` (pool, prepared statement,
breaker, cache watcher, idle sweeper) and puts it in the `profiles` map; `execute`
looks it up and runs one statement. Around that core there are long-lived tasks
(watches, sweeper, invalidator, rotator) and a `shutdown` that races all of them.

| part | code | module | state |
|---|---|---|---|
| `postgres_cdc` watch | `watch_pg_cdc.rs` | `PgCdc`, implements `AtLeastOnceQueue` | modelled, proved |
| circuit breaker | `breaker.rs`, `execute_inner` | `CircuitBreaker` | modelled, proved |
| execute, await loop, registration, shutdown | `lib.rs`, `in_flight.rs` | `Lifecycle` | partly, proved |
| per-credential pools | `pool.rs`, `resolve_creds_for` | `PoolRegistry` | modelled, proved |
| `sql_tx` groups and their handles | `lib.rs`, `transaction.rs` | `Transactions`, implements `AtomicGroups` | modelled, proved |
| `postgres_listen_notify` watch | `watch_pg_listen.rs` | `ListenNotify` | modelled, proved |
| `sql_changes` watch | `watch_changes.rs` | `ChangesWatch` | modelled, proved |
| one call: attempts, heartbeat, billing, recording | `lib.rs`, `cost.rs`, `errors.rs` | `SqlCall` | modelled, proved |
| drivers: session variables, backend ids, cancel | `driver/*.rs`, `in_flight.rs` | `DriverExec` | modelled, proved |
| stream cursors | `stream.rs`, `lib.rs` | `StreamCursor` | modelled, proved |
| response cache and invalidator | `cache.rs`, `lib.rs` | `ResponseCache` | modelled, proved |
| `sql_polling` watch | `watch.rs` | `PollingWatch`, `Binding` | modelled, safety proved |
| token rotation | `auth/rotator.rs`, `lib.rs`, `watch.rs` | `TokenRotator` | partly, proved |
| transaction handles shared by callers | `transaction.rs` | `TxHandle` | modelled, proved |
| `list_query` paging | `lib.rs` | `ListPages` | modelled, proved |
| one-statement scan | `config.rs` | `Statements` | modelled, proved |
| placeholder rewriting | `params.rs` | `Placeholders` | modelled, proved |
| configuration, registration and dispatch, completion queries | `config.rs`, `lib.rs`, `params.rs`, `driver/*.rs`, `watch.rs` | `Binding` | modelled, proved |
| CEL parameters | `param_exprs.rs` | `Binding` | partly: which names they bind, not their values |
| pgoutput decoder, schema derivation, cdylib bridge, metrics, redaction, error table, value decoding, auth providers | `pgoutput.rs`, `schema.rs`, ... | - | not modelled, see section 5 |

Modules that model one function from several sides agree on its steps. A call of
`execute` is one step of `Lifecycle` between acquiring its connection and
returning; `SqlCall` opens that step, `DriverExec` opens the driver's part of it,
`PoolRegistry` its choice of a pool and `ResponseCache` its lookup and write.
`Transactions` takes a handle as one caller's; `TxHandle` lets several share it.
`Binding` decides which calls exist at all: the other modules take for granted what
its validation admits.

## 2. How the models correspond to the code

Each module has its state as variables named after the fields they stand for, one
action per operation or per step between two awaits, and `Next` their disjunction.
`PROJECT.json` maps every definition to its lines. `Mutant of ...` and `A bug to be
caught` mark definitions that `Next` does not use: plausible bugs, one for each
checked property, that must violate it when put in the place of the original.

* **PgCdc**. `Write`, `Commit` and `DropSlot` are the database. The receiving
  thread is `Connect`, `Receive`, `PeekRound` (the row limit grows fourfold
  until something new is in the window), `Deliver`, then one of the three outcomes of
  `settle` and the advance itself, which can fail with or without having moved the
  slot. The gateway's threads take `Store`, `Ack` and `Release` at any moment.
  `Restart` keeps only the slot and the event log. An LSN is a number and every WAL
  record takes one, so a change is identified by where it starts, as in the code.
* **CircuitBreaker**. One action per atomic load, store or `fetch_add` of
  `try_admit`, `record_success` and `record_failure`, so two callers meet between
  any two of them. `CallDropped` is the guard's `Drop`.
* **Lifecycle**. Queries, await loops and transactions are separate kinds of actor,
  because they differ in what they check: only `execute` reads `draining`, only
  calls are in the in-flight table, only await loops listen to `drain_notify`.
  `register_profile` is two steps, its check on entry and its insert after awaits.
* **PoolRegistry**. `get_or_build` holds an async mutex across the build; `now` is
  read before the lock is waited for (`ReadClock`). Ages replace clock values.
* **Transactions**. The pool is a count; `inner` says whether the handle's `Option`
  is full. A row that does not decode loses the transaction inside `execute`
  without `put`, and the group's rollback then finds it closed. The three drivers'
  handles have the same shape; `StepOk`, `StepErr` and `StepUndecoded` are each
  mapped to the handle of another driver.
* **ListenNotify**. The listener map, the `Weak`/`Arc` of the shared connection,
  the broadcast channel with its limit, and an sqlx listener that keeps what arrives
  after LISTEN until the task reads it, and reconnects or gives up in an outage.
* **ChangesWatch**. Rows are numbered by key and commit in any order within
  `MaxLag` ticks; `page_args` works in whole seconds of `TicksPerSecond` ticks. A
  row may be unfit for an event or have a null key.
* **SqlCall**. `statement` and `applied` are the database's view, which goes on
  after a timeout; `beats`, `charged`, `refunds` and `recorded` are what the call
  leaves behind. Row modes are the three branches of `execute_inner_impl`. A plain
  statement that ends in an error has no effect; a procedure may have kept part of its
  work (`EndsInError`), also when its error is one `is_stale_statement_error` retries.
* **DriverExec**. One variable chooses the driver; the rest of the protocol is
  common, as the trait is. A cancel reads the registry, waits for a connection and
  fires, three steps with anything in between; SQLite sets a flag that its progress
  handler reads.
* **StreamCursor**. A token is its contents and the key it was signed with. Two
  nodes with registrations of their own and a shared key, or one node that makes a key
  at each registration (`shared`); rows inserted and deleted between pages.
* **TxHandle**. The handle is an `Arc` and its operations take `&self`: each takes the
  transaction out of the `Option`, works on it without the lock, one round trip per
  session variable, and puts it back or consumes it; a future may be dropped at each.
* **TokenRotator**. Ages replace times. The task sleeps `interval_for`, fetches, and
  applies the token to the pool's connect options; the owner is a profile, which
  keeps the rotator, or a watch, which does not.
* **PollingWatch**. `db` numbers the states of the table, and the tracking query has
  a different scalar in each of them, or no row. The consumer reads again after an
  event, which carries no content.
* **Statements**, **Placeholders**. `reject_multi_statement` and then, on the texts it
  accepts, `rewrite_placeholders`, one byte class a step, against definitions of
  "outside quotes" and "is a placeholder" that do not scan: whether a colon begins a
  cast depends on how many colons stand before it. `Placeholders` extends
  `Statements`, and `out` is a sequence of bytes and of placeholders.
* **ListPages**. One host listing in keyset or offset mode, rows inserted and deleted
  between pages, rows without a `uri`, a SELECT that lacks the cursor column.
* **Binding**. A document starts as an ordinary one (a driver and a row mode) and up
  to `MaxEdits` of its fields are changed to values on either side of each check. An
  optional field is a set of at most one value, so `if let Some(x)` is a quantifier. A
  text keeps its leading words and its number of statements, a name what the
  identifier checks look at, a number its boundaries. `validate` is one predicate per
  block; `register_profile` adds what it reads from files, opens and compiles; a call
  then picks its pool, binds its arguments and dispatches to a driver method. An await,
  a listing, a completion, a group and a polling watch are actions of their own: they
  take the profile's pool and differ in the session variables and the gates they apply.
  `submitted` says of each text by which operation it reached the database.
* **ResponseCache**. One query whose key differs in the version only; reference
  counts of each invalidator; a cache that outlives registrations.

Six modules put components side by side, for one run or one proof module each:

| module | components | run on it | proofs |
|---|---|---|---|
| `Calls` | `Lifecycle`, `TxHandle`, `TokenRotator` | `calls` | `CallsProofs` |
| `Bindings` | `SqlCall`, `ResponseCache`, `Binding` | `bindings` | `BindingsProofs` |
| `Pages` | `StreamCursor`, `ListPages` | `stream` | `PagesProofs` |
| `Connections` | `Transactions`, `DriverExec` | `transactions`, `driver` | `ConnectionsProofs` |
| `Pools` | `PoolRegistry`, `CircuitBreaker`, `Placeholders` | `pools` | `PoolsProofs` |
| `MCListenNotify` | `ListenNotify`, `PollingWatch` | `listen` | (`ListenNotifyProofs`) |

The first component is extended, and the others are instances with the names of
their variables changed where two clash (`Exec == INSTANCE DriverExec WITH pc <-
epc, ...`). The components share nothing at this grain, so a behaviour starts one of
them with the others over; a run is the union of their behaviours and not a
composition. The theorems are about the specification of one component each
(`Spec`, `Exec!Spec`, `Listing!Spec`, ...).

External and modelled from their use: PostgreSQL's WAL and slots, the SDK's queue
driver, the host's cache and event sink, sqlx pools and listeners, the clock.

## 3. What the runs check

| run | instance | shows |
|---|---|---|
| `cdc` | 2 transactions, WAL of 5, `max` up to 2, 4 rows to a peek, 1 fault | the slot never passes a transaction the gateway has not stored whole (`SlotBehindStored`); the watch is an at-least-once queue (`ImplementsQueue`); in a serial WAL changes first come in commit order (`FirstDeliveryInCommitOrder`), all arrive (`SerialChangesStored`) and the slot moves on (`SlotCatchesUp`) |
| `cdc_stranded` | the same without faults | a counterexample to `EveryChangeStored`, see section 6 |
| `pools` | `PoolRegistry`: 2 callers, 2 users, 2 versions of a credential, 1 place | a call gets a pool of the credentials it resolved (`PoolMatchesCaller`); the pools of a revoked credential go (`RevokedPoolsGo`) |
| | `CircuitBreaker`: 2 callers, threshold 2 | the probe flag has a guard alive that clears it (`ProbeSlotHeld`); a healthy database closes the breaker for good (`RecoversWhenHealthy`) |
| | `Statements`, `Placeholders`: every text of up to 4 bytes of 7 classes | exactly the placeholders are rewritten, in order (`OnlyPlaceholdersRewritten`); exactly the texts of one statement pass (`OneStatement`) |
| `calls` | `Lifecycle`: a query, an await loop, a transaction, 2 registrations | shutdown closes no pool under a call it found in flight, unless its ceiling elapsed (`EarlyCallsDrained`); it ends (`ShutdownEnds`) |
| | `TxHandle`: 3 callers, 2 session variables, 3 drivers | a statement sees the variables of its own call (`OwnVariables`); one that was told "ok" is in the transaction until it rolls back (`OkStatementsKept`) |
| | `TokenRotator`: TTL 6, margin 3, fetches up to 1, 2 failures in a row | while the rotator is held the pool's token has not expired if rotations succeed, and each failure in a row costs at most one interval and one fetch more (`TokenValid`) |
| `transactions` | 3 groups of 2 statements, 2 connections | `AllOrNothing`, `EveryGroupAnswered`, and the refinement `AtomicSpec` |
| `listen` | `ListenNotify`: 2 watches, one filtered, buffer 1, 2 notifications, 1 outage | one connection for both (`OneConnection`), no notification passed over (`NothingPassedOver`) or unreported (`NotificationsReported`) |
| | `PollingWatch`: 3 changes, one of them to an empty result | again and again the consumer has the state of the table, whatever polls fail (`ConsumerCatchesUp`) |
| `changes` | 3 rows, pages of 2, failing or odd rows in the middle of one, 1 restart, lag = settle = 1 s | no late row is passed over (`NothingPassedOver`), rows arrive in spite of failures and rows without events (`RowsArrive`), a cancelled watch ends (`CancelEnds`) |
| `driver` | 3 calls (one not tracked), 2 connections, 3 drivers | every connection is idle or has one holder (`ConnectionsAccounted`); on Postgres a statement runs with no other call's session variables (`OwnSession`); on SQLite a cancel interrupts only its own query (`OnlyNonceInterrupted`) and, asked for at any moment of the call, ends it (`EveryCancelLands`) |
| `stream` | `StreamCursor`: 2 nodes with a shared key or 1 without, 2 bindings, 3 rows, pages of 2 from batches of 3 | no row twice (`NoRowTwice`), none skipped (`NoRowSkipped`), the stream ends (`StreamEnds`) |
| | `ListPages`: pages of 2 from 4 rows, 2 writes, 1 row without a uri | a keyset listing is complete and without repetition (`ListedExactly`) |
| `bindings` | `Binding`: 2 edits of an ordinary document, every driver built in, the RDS provider | no `expect` fires, no driver method that only refuses is reached, the database refuses nothing but the two combinations of section 6, and a call runs with all its session variables and credentials resolved (`DeclaredIsDone`); every text of the binding passed both gates before it was sent, the ungated ways of section 6 excepted (`SubmittedWasGated`); the stream's keyset, the operator's parameters and the gateway's idempotency hint win over the caller's (`ManagedValuesWin`) |
| | `SqlCall`: row modes x heartbeat x statement or procedure, up to 3 rows, 2 served | a plain statement is applied at most once although calls time out and retry (`AppliedAtMostOnce`); a call is charged or refunded, once, and refunded when it failed without effect (`BilledOnce`) |
| | `ResponseCache`: calls of 2 registrations, 2 changes, one of them to an empty table | a hit on an entry of the same registration is not older than the last bump (`HitsAreFresh`) |
| `binding_auth` | the documents of `bindings` | a counterexample to `AuthBlockLogsIn`, see section 6 |
| `binding_session` | the same | a counterexample to `VariablesApplied`, see section 6 |

The type invariants of the modules with proofs are proved (section 4) and not listed
in the runs, and so are `RegistryBounded`, `NoDuplicateConnect`, `DeliveryOwned` and
`ConnectionsConserved`.

Why these bounds. Two of each actor are enough for every pairwise race, and the
third one of `driver` and `transactions` makes somebody wait for what two others
hold. Limits are set one below what the actors ask for, so they bind: one pool for
two users, a buffer of one for two notifications, pages smaller than batches, a
peek smaller than the WAL. Two edits reach every pair of blocks of a document, which
is what the checks of `validate` that look at two fields are about; four bytes hold a
quoted byte or a cast and its neighbours. Three callers of the breaker by itself pass as well, in
four minutes instead of ten seconds, and `ResponseCache` by itself with two calls at
a time (2,313,212 states); `SlotCatchesUp` was also checked with two faults and
eight rows to a peek (670,105 states). Each module names its bounds in `CONSTANTS`.

`CHECK_DEADLOCK FALSE` stands where the model ends by itself: calls that are over,
a plugin that has shut down, a bounded number of rows or notifications, and in
`pools` a text that was read to its end.

### Fairness

Every task the tokio runtime can poll is polled, so steps of tasks are weakly fair.
The rest is in the module beside `FairSpec`:
* statements end by themselves or by `timeout` (`lib.rs:2525`), except in
  `DriverExec`, where only the time limit or a cancel need end one;
* `PgCdc`: the receiving thread keeps calling and the gateway stores and
  acknowledges; nothing of the database, and faults are finite;
* `PoolRegistry`: the tokio mutex is first come first served, so the
  sweeper, which finds it free again and again, gets it (strong fairness);
* `ListenNotify`: an outage is over at some time; `ChangesWatch`: `RowsArrive` has
  the database's answers as a premise of the property and not of the specification;
* `PollingWatch`: the loop and the consumer's reread are weakly fair, a successful
  poll strongly, since failures of the database do not go on for ever;
* `calls` uses the fairness of `Lifecycle` only; `bindings` has none, being safety;
* nothing makes a call arrive, a caller finish a transaction, or a shutdown begin.

## 4. What is proved

The theorems hold for any number of actors and any limits that satisfy the named
assumption of each module (positive limits, disjoint, finite or non-empty sets of
actors).
Each inductive invariant was checked with TLC on the run's instance before it was
proved.

| module | theorem | argument |
|---|---|---|
| `PgCdcProofs` | `TypeCorrect`, `SlotBehindStoredAlways` | `IInv`: each of `slot`, `consumed`, `unadvanced` and `to` is *safe* (everything carried up to it is stored), `acked` holds stored changes of its own transaction only, and the tracked and the peeked transactions have no hole above the slot. `SlotBehindStored` alone is not inductive: an advance uses `to`, computed earlier from `acked` |
| | `DeliveryOwnedAlways` | `DInv` adds that changes lie below their commit and belong to one transaction |
| | `WatchImplementsQueue` | `Commit` publishes, an advance confirms stored changes only (from `IInv`), everything else maps to a store, an open, a loss or a stutter |
| | `FirstDeliveredInCommitOrder` | `FInv`: what was handed out or is about to be contains all that is stored or marked as delivered, and is closed under "comes before". A peek takes the first `max` new changes of a set without holes, and what it takes for old was handed out: `consumed` is the end of a transaction, so in a serial WAL a carried change below it is stored |
| `ChangesWatchProofs` | `NoRowIsPassedOver` | `WatchInv`: up to the key every row has ended and is stored, queued or makes no event; up to the stored position every row has ended and is stored; the page has no hole above the key; the queue is in key order and not beyond the key. It needs that a row younger than the settle time is the only kind that can still be open, which is `WritersInv`: inserts come in key order and nobody stays open longer than `MaxLag` |
| `ListenNotifyProofs` | `SharedConnection` | the map's entry changes only when no watch holds what it leads to |
| | `TypeCorrect`, `NothingPassedOverAlways` | `RInv`: a watch that reads holds a connection and has read no further than its channel goes. A channel is emptied only when nobody holds it and otherwise only grows, so what was read stays in its place |
| | `PollsAnnounced` | the safety half of `ConsumerCatchesUp`, by `PollingInv`: a poll that moves `last` leaves the loop emitting or sets the baseline, and the loop has seen no state the table has not been in, so a consumer that takes the event reads one at least as new |
| `PagesProofs` | `StreamRepeatsNothing`, `StreamSkipsNothing` | `StreamInv`: there is a row number `k` such that the token, the values of the call and the batch all stand for it; what was received lies at or before `k`, and what stayed and lies at or before `k` was received. `KeysetOrder` reduces the order of the key columns to the order of the rows, and the lemmas on `LeastRows` say what the first n of a set are, cut twice (by the LIMIT and by `max_rows`). A token of a former registration stands for the same `k` because of `ToldByArity` |
| | `ListingsAreExact` | `ListingInv`: the cursor splits the rows into those listed or gone and those to come. A page that ends in rows without a uri leaves the cursor before them, so it has to hold a row with one: the premise of `ListedExactly` on `lacking` |
| `CallsProofs` | `TypeCorrect`, `EarlyCallsDrainedAlways` | the in-flight table is exactly the set of calls between `register` and `drop`, and the calls found at the drain are in it or over |
| | `StatementsUseTheirOwnVariables`, `OkStatementsAreKept` | `HandleInv`: `take()` gives the transaction to one caller at a time (`TakenByOne`), so the variables a statement has set so far are still its own (`VariablesSet`) |
| | `PoolTokenStaysValid` | `TokenAges` bounds the age of the token at each place of the task: a sleep begins at most one fetch after the token was made, a rotation ends at most one fetch after the sleep, and a failed one adds an interval and a fetch (`Missed`) |
| `BindingsProofs` | `TypeCorrect`, `AppliedAtMostOnceAlways`, `BilledOnceAlways` | at each place of a call the invariant fixes what the database may have applied, whether a heartbeat runs and what was billed; the retry is taken only from a place where no plain statement was applied |
| | `HitsStayFresh` | `CacheInv`: one version stands for one announced change, a result is at least as new as the change of the key it will be stored under, and so is every entry for its own registration |
| | `AcceptedDocumentsDoWhatTheyDeclare`, `EveryBindingTextWasGated`, `ManagedValuesAlwaysWin` | a profile stands for a document `register_profile` accepted, with the pool built for it; then, body by body and driver by driver, what `validate` checked excludes each answer a driver method only refuses with, and what the database refuses is one of `Overlooked`. The texts that come with a group or a completion and the file of a watch are named as ungated in the statement. No bound on the edits is used |
| `ConnectionsProofs` | `TypeCorrect`, `GroupsAtomic`, `NoConnectionLost`, `Implements` | `PhaseInv` ties each program place of a group to what the handle and the pool hold; idle plus leased connections are the pool's size |
| | `ExecTypeCorrect`, `ConnectionsAccountedAlways`, `OwnSessionAlways`, `OnlyNonceInterruptedAlways` | a call holds a connection exactly while its driver runs and a cancel exactly while it is about to be sent (`HoldInv`); outside MySQL the variables on a connection are its holder's (`SessionInv`); a SQLite handler whose query is still in the table is on the connection that query holds (`NonceInv`) |
| `PoolsProofs` | `TypeCorrect`, `RegistryBoundedAlways`, `NoDuplicateConnectAlways`, `PoolMatchesCallerAlways` | the mutex has one holder, whose digest is not in the map; entries carry the credential of their digest; an insert is preceded by enough LRU victims |
| | `BreakerTypeCorrect`, `ProbeSlotHeldAlways` | the flag is set by the step that makes a caller its holder, and every exit of a holder, `Drop` included, passes the step that clears it |
| | `OneStatementAccepted` | `TextInv`: at every position of either scan the two flags tell the literal of the last byte (`FlagsTell`); in the first, `last_semi` is the only semicolon outside literals so far (`SemicolonFound`). The literals are those of `Region`, a recursive function; that it exists for a text of any length is `RegionLabels`: a shortest prefix without a labelling would be one byte longer than a prefix with one |
| | `PlaceholdersFound` | in the second scan `TextInv` says that the text and the names so far are those of `Rewritten` up to the position, which is not inside a name (`WrittenSoFar`), and that before a colon outside literals an even number of colons was read (`ColonsPaired`): a cast takes two of them, and everything else leaves no colon behind, or no colon ahead. A name is passed in one step, by the same argument over its letters (`NamePassed`) |

The keyset theorems suppose of the operator's SQL what the model has as assumptions:
a column list that orders the rows totally (`StreamAssumption`), and rows that come
in that order.

Only model-checked: the liveness properties, since fairness and ENABLED are out of
the prover's reach. What a recursive function computes is not, where it can be put in
first-order terms: `LeastNumber` (every set of natural numbers has a least one) takes
the place of induction in the lemmas about `Region`, `Rewritten` and names.

## 5. What is not modelled

* Single values (binding, decoding, intervals, JSON shape), the pgoutput decoder and
  schema derivation: conversions of one input without state. `PgCdc` takes decoded
  changes as given; a row that does not decode is an outcome of `Transactions`.
* The cdylib bridge: every entry blocks on a method modelled here.
* Amounts of money, metrics, log lines, redaction and the error table. Which errors
  are retried or trip the breaker is in `SqlCall` and `CircuitBreaker`. In `Binding`,
  the placeholders of an await's statements.
* The auth providers: one signs a URL, the others answer `NotImplemented`. Whether
  one is built is in `Binding`, and its tokens are inputs of `TokenRotator`. A
  provider with an infinite TTL, whose task only waits to be cancelled, and the
  `max_lifetime` that rotation puts on connections are left out.
* The hash of a cache key and the HMAC of a cursor are taken as injective; a listing
  cursor is one the plugin made.
* In `TxHandle`, MySQL errors that end the transaction on the server (a deadlock).

Two things the code leaves to its environment are not decided either: whether the
host reuses request ids (`in_flight.rs:141`), and whether it registers a binding
again after a secret rotation (`lib.rs:1411`).

## 6. Where the code and its documentation disagree

`cdc_stranded` is kept as a run. `new_changes` and `peek` take a change for consumed
when its LSN is below `consumed` (`watch_pg_cdc.rs:317`), but `consumed` is the *end*
of a transaction, and a transaction that commits later may have written below it.
Such a change is never delivered, and its transaction then blocks the slot until the
source reconnects. README.md says "at-least-once, in commit order" and that "a
change it did not take is read again". The properties of `cdc` that need it have
`Serial` as a premise.

`binding_auth` is kept as a run too. `validate` refuses an `auth` block beside a
password or a credential reference in the *url* (`config.rs:870`), but
`config_has_cred_refs` (`lib.rs:476`) also counts the session variables, and such a
binding takes its pools from `build_pool_with_url` (`pool.rs:67`), which has no
provider. `auth/mod.rs:187` says "Validation rejects more than one of `auth:` /
`password_in_url` / `cred://` references at startup", and `pool.rs:62` the same.

So is `binding_session`. `execute_transaction` runs the steps of a group with an empty
set of session variables (`lib.rs:1098`), and an await, a listing (`lib.rs:2126`) and a
completion (`lib.rs:2046`) set `runtime.session_vars` as the document has them, with a
`${cred://...}` token for a value. README.md:166 of the repository says "A Postgres
RLS policy keyed on `current_setting('app.current_tenant')` now sees the authenticated
principal's tenant on every call." `DeclaredIsDone` speaks of the other operations.

The others are stated as definitions that no run lists. To see TLC's counterexample,
check the definition in the place of the run's properties, with the constants given
here when they differ. `ResponseCache` and `Binding` are checked by themselves for
this, under `Spec` and their constants of `Bindings.cfg`.

| definition | what the code does |
|---|---|
| `PgCdc!SlotAlwaysCatchesUp` (`MaxFaults = 2`, `MaxPeekRows = 8`) | `connect` resets `Progress` but not `unadvanced`; the first settle of the new session then passes transactions it has recorded and half delivered, which stay first for ever (`watch_pg_cdc.rs:370`). `SlotCatchesUp` excludes it |
| `PgCdc!GapBeforeChanges` (`MaxFaults = 3`, `MaxInFlight = 1`, `MaxPeekRows = 8`) | `receive` takes the gap flag before a query that can fail (`:515`); README: "the event log records a gap" |
| `CircuitBreaker!OneProbeAtATime` | every caller that loaded Open before the first store becomes a probe (`breaker.rs:195`); `:18` "One probe in flight at a time" |
| `CircuitBreaker!CooldownHonoured` | the state is Open before `opened_at` is set, and a missing timestamp counts as elapsed (`:266`); `:181` "still cooling -> reject" |
| `Lifecycle!InFlightOnlyFalls` | a call can register after the drain flag is set (`lib.rs:1691`); `:1687` "only walks monotonically downward" |
| `Lifecycle!NoSleepAfterNotify` | `notify_waiters` leaves no permit; a loop in its check query sleeps its interval out (`lib.rs:2926`); `:1195` "returns `Timeout` immediately" |
| `Lifecycle!NoProfileAfterShutdown` | a registration that overlaps shutdown inserts after `profiles.clear()` (`lib.rs:1676`) |
| `PoolRegistry!SameBundleTwice` | credentials are resolved twice in a call, a revocation in between gives two bundles (`lib.rs:2254`) |
| `ResponseCache!AllHitsFresh` | the version starts at 0 at each registration over a cache that stays (`cache.rs:122`) |
| `ResponseCache!PolledChangesReachable` | a change before the first poll becomes the baseline (`cache.rs:181`) |
| `ResponseCache!WatcherStops` (`FairSpec`) | the task owns a clone of the `Arc` whose drop would cancel it (`cache.rs:126`) |
| `ChangesWatch!SettleHonoured` (`Settle = 1`, `MaxLag = 1`) | only whole seconds of `settle_ms` are subtracted (`watch_changes.rs:343`) |
| `ListenNotify!ReconnectsAfterOutage` | after a `recv` error the task never reads again, and later watches join it (`watch_pg_listen.rs:262`) |
| `SqlCall!HeartbeatStops` | the timeout drops the future that would abort the heartbeat task (`lib.rs:3101`) |
| `SqlCall!EveryErrorRefunded` | errors of shaping and of the charge return without a refund (`lib.rs:2653`, `:2685`); `cost.rs:45` "on every error path" |
| `SqlCall!RetriedSafely` | a procedure that has kept part of its work and fails with a stale-statement code is run again (`lib.rs:2546`); `errors.rs:76` "safely retries the statement once" |
| `SqlCall!ChargedRowsServed` | rows are counted before the cut at `max_rows` (`lib.rs:2648`); `cost.rs:18` "per record served" |
| `SqlCall!EveryCallRecorded` | metrics need the profile to be still in the map (`lib.rs:1748`); `:1745` "regardless of outcome" |
| `DriverExec!CleanWhenIdle` | a failing SET, or the time limit, skips the tear-down of MySQL variables (`driver/mysql.rs:145`) |
| `DriverExec!OnlyTargetInterrupted` | a cancel can reach the next statement on that connection (`driver/postgres.rs:486`) |
| `DriverExec!CancelDelivered` | the cancel waits for a connection of the full pool (`driver/postgres.rs:488`) |
| `StreamCursor!OneNodeVerifies` | the random key is made at each registration (`lib.rs:1584`); `:1564` "single-node continues to work fine" |
| `Binding!AcceptedIsDone` | an isolation level on MySQL is accepted and the SET after BEGIN refused in every group (`lib.rs:868`), and so is a procedure on SQLite, which has no CALL; `config.rs:1128` "Rather than silently dropping the operator's intent, reject the binding outright", of another block |
| `Binding!WatchMirrorsBinding` | `build_prepared_stmt` reads a file and gates nothing (`watch.rs:266`); `:260` "Mirrors the binding plugin's prep path; kept in sync by construction" |
| `Binding!KeyIsTheGateways` | without a hint, an `idempotency_key` among the caller's arguments is bound (`lib.rs:2327`); `:2322` "hint absent, query references it: error from the placeholder binder" |
| `Binding!StreamMentionsKeyset` | an SQL text read from a file is not searched for the keyset placeholders (`lib.rs`, `prepare_stmt`); `config.rs:944` "the same check runs there" |

Further places where a comment and the code differ, or that a reader would not expect,
met while modelling. No definition singles them out; the models have them as the code
does, `is_closed` excepted, which no model contains:

* a failed rotation is retried a whole interval later, so the token expires in between
  (`auth/rotator.rs:109`): the bound of `TokenValid` grows with `failures`;
* the texts of a group's steps (`lib.rs:1026`) and of a completion (`lib.rs:2010`) are
  sent without the gates of `prepare_stmt`: the exceptions of `SubmittedWasGated`;
* a `sql_polling` watch drops its rotator while its pool lives on (`watch.rs:211`);
* in offset mode the next cursor of a listing is the length of the page and not, as the
  comment has it, the "running offset + page length" (`lib.rs:3146`), and a full page
  of rows without a `uri` ends any listing (`lib.rs:3148`): `ListedExactly` speaks of keyset mode and of fewer such
  rows than a page;
* a byte beyond ASCII is rewritten as the character of that code (`params.rs:118`):
  `OnlyPlaceholdersRewritten` says so, in `AsChar`;
* session variables of a MySQL transaction stay set when setting one fails or the
  future is dropped (`transaction.rs:369` "Always tear down");
* `is_closed` is true while an operation is at work (`transaction.rs:92`), and COMMIT
  of a transaction that PostgreSQL has aborted answers ok;
* a poll without a row makes the next one a baseline (`watch.rs`), so a change across
  it is not announced: the last disjunct of `ConsumerCatchesUp`.

## 7. Plan

1. Composition: `SqlCall` with `Lifecycle` (a call that outlives its profile), and
   `SqlCall` with `DriverExec` (a timeout, then a retry on the same pool), in the
   place of the unions of section 2.
2. Proofs: that `ChangesWatch` implements `AtLeastOnceQueue`, which first has to say
   which published changes a consumer that opens in the past is owed.
