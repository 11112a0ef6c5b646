-------------------------------- MODULE PgCdc --------------------------------
(***************************************************************************)
(* The `postgres_cdc` watch (src/src/watch_pg_cdc.rs): one receiving       *)
(* thread peeks a logical replication slot, hands row changes to the       *)
(* gateway, and advances the slot past the transactions the gateway has    *)
(* acknowledged, while the gateway's own threads acknowledge or release    *)
(* changes in between.                                                     *)
(*                                                                         *)
(* An LSN is a natural number.  Each WAL record takes one: a change is     *)
(* named by the LSN it starts at, and a transaction by the LSN its COMMIT  *)
(* ends at, which is where the next record starts.  0 stands for the       *)
(* code's None and for a slot that does not exist.                         *)
(*                                                                         *)
(* PostgreSQL (WAL, slot) and the queue driver of the plugin SDK, which    *)
(* calls connect / receive / ack / release, are external: they are         *)
(* modelled from how this file uses them.                                  *)
(***************************************************************************)
EXTENDS Integers, FiniteSets

CONSTANTS Tx,           \* transactions the database may run
          MaxLsn,       \* bound: the length of the WAL
          MaxInFlight,  \* bound: the largest `max` the driver asks for
          MaxPeekRows,  \* MAX_PEEK_ROWS
          MaxFaults     \* bound: failures, releases, restarts, slot losses

ASSUME PgCdcAssumption ==
  /\ IsFiniteSet(Tx)
  /\ MaxLsn \in Nat \ {0}
  /\ MaxInFlight \in Nat \ {0}
  /\ MaxPeekRows \in Nat \ {0}
  /\ MaxFaults \in Nat

Lsn == 1..MaxLsn

VARIABLES
  \* PostgreSQL
  walEnd,       \* where the next WAL record starts
  changes,      \* the LSNs of each transaction's published changes
  commitEnd,    \* each transaction's end LSN; 0 before it commits
  slot,         \* the slot's confirmed position
  base,         \* where the present slot was created
  \* PostgresCdc and its Progress
  delivered, transactions, acked, consumed,
  resumed, gap, unadvanced,
  \* locals of one `receive`, at their initial values outside it
  pc, max, limit, messages, gapTaken, deliveries, to,
  \* the driver and the gateway
  inFlight,     \* receipts handed out, neither acknowledged nor released
  emitted,      \* every change ever handed out
  stored,       \* changes in the gateway's event log
  gapOwed,      \* a slot was lost under a resumed source, unreported so far
  faults

pgVars == <<walEnd, changes, commitEnd, slot, base>>
progressVars == <<delivered, transactions, acked, consumed>>
localVars == <<pc, max, limit, messages, gapTaken, deliveries, to>>
gatewayVars == <<inFlight, emitted, stored, gapOwed>>
vars == <<pgVars, progressVars, resumed, gap, unadvanced, localVars,
          gatewayVars, faults>>

----------------------------------------------------------------------------
(* PostgreSQL                                                               *)

Committed == {x \in Tx : commitEnd[x] # 0}
Published == UNION {changes[x] : x \in Committed}

\* A transaction appends a change to the WAL.
Write(x) ==
  /\ commitEnd[x] = 0
  /\ walEnd < MaxLsn
  /\ changes' = [changes EXCEPT ![x] = @ \cup {walEnd}]
  /\ walEnd' = walEnd + 1
  /\ UNCHANGED <<commitEnd, slot, base, progressVars, resumed, gap,
                 unadvanced, localVars, gatewayVars, faults>>

\* A transaction commits, perhaps without a published change.
Commit(x) ==
  /\ commitEnd[x] = 0
  /\ walEnd < MaxLsn
  /\ commitEnd' = [commitEnd EXCEPT ![x] = walEnd + 1]
  /\ walEnd' = walEnd + 1
  /\ UNCHANGED <<changes, slot, base, progressVars, resumed, gap,
                 unadvanced, localVars, gatewayVars, faults>>

\* The slot is dropped, or lost in a failover.
DropSlot ==
  /\ slot # 0
  /\ faults < MaxFaults
  /\ faults' = faults + 1
  /\ slot' = 0
  /\ UNCHANGED <<walEnd, changes, commitEnd, base, progressVars, resumed,
                 gap, unadvanced, localVars, gatewayVars>>

\* Transactions the slot holds: their COMMIT ends past its position.
Readable == {x \in Committed : commitEnd[x] > slot}

MinOf(a, b) == IF a <= b THEN a ELSE b
MaxOf(a, b) == IF a >= b THEN a ELSE b

\* Output rows of a set of transactions: a BEGIN and a COMMIT around the
\* changes of each.
RowCount(S) == Cardinality(UNION {changes[x] : x \in S}) + 2 * Cardinality(S)

\* peek_rows: whole transactions in commit order, up to the first COMMIT at
\* or past the limit.
PeekRows(n) ==
  {x \in Readable :
     RowCount({y \in Readable : commitEnd[y] < commitEnd[x]}) < n}

----------------------------------------------------------------------------
(* Progress and PostgresCdc                                                 *)

\* Progress::default() under a receipt map that is empty as well.  `owner`
\* is left out: it always maps exactly the changes of `transactions`.
ResetProgress ==
  /\ delivered' = {}
  /\ transactions' = {}
  /\ acked' = [x \in Tx |-> {}]
  /\ consumed' = 0

\* Mutants of FullyAcked: any acknowledgement; never true of a transaction
\* that published nothing.
FullyAckedAny(x) == acked[x] # {} \/ changes[x] = {}
FullyAckedNonEmpty(x) ==
  acked[x] # {} /\ Cardinality(acked[x]) >= Cardinality(changes[x])

\* The check of one transaction in Progress::advance.
FullyAcked(x) == Cardinality(acked[x]) >= Cardinality(changes[x])

\* Mutant of Leading: every acknowledged transaction, leading or not.
AllAcked == {x \in transactions : FullyAcked(x)}

\* The leading transactions Progress::advance removes.
Leading ==
  {x \in transactions :
     \A y \in transactions : commitEnd[y] <= commitEnd[x] => FullyAcked(y)}

\* Mutant of IsNew: a strict comparison with `consumed`.
IsNewStrict(l) == l > consumed /\ l \notin delivered

\* Whether a peek delivers the change: neither consumed nor in flight.
IsNew(l) == l >= consumed /\ l \notin delivered

NewChanges(S) == {l \in UNION {changes[x] : x \in S} : IsNew(l)}

\* Change l comes before change m in the output of a peek.
Before(l, m) ==
  \E x, y \in Committed :
    /\ l \in changes[x]
    /\ m \in changes[y]
    /\ commitEnd[x] < commitEnd[y] \/ (x = y /\ l < m)

\* Mutant of Delivering: the last `max` new changes.
DeliveringLast(S) ==
  {l \in NewChanges(S) :
     Cardinality({m \in NewChanges(S) : Before(l, m)}) < max}

\* What one pass over the messages S delivers: the first `max` new changes.
Delivering(S) ==
  {l \in NewChanges(S) :
     Cardinality({m \in NewChanges(S) : Before(m, l)}) < max}

\* connect: open a pool, `prepare` the slot, start from its position again.
Connect ==
  /\ pc = "connect"
  /\ pc' = "receive"
  /\ LET created == slot = 0 IN
       /\ slot' = IF created THEN walEnd ELSE slot
       /\ base' = IF created THEN walEnd ELSE base
       /\ gap' = (gap \/ (created /\ resumed))
       /\ gapOwed' = (gapOwed \/ (created /\ resumed))
  /\ ResetProgress
  /\ UNCHANGED <<walEnd, changes, commitEnd, resumed, unadvanced, max, limit,
                 messages, gapTaken, deliveries, to, inFlight, emitted,
                 stored, faults>>

\* connect fails, before the slot is created or after it: the answer to
\* pg_create_logical_replication_slot may be what is lost.
ConnectFails ==
  /\ pc = "connect"
  /\ faults < MaxFaults
  /\ faults' = faults + 1
  /\ \/ UNCHANGED <<slot, base, gapOwed>>
     \/ /\ slot = 0
        /\ slot' = walEnd
        /\ base' = walEnd
        /\ gapOwed' = (gapOwed \/ resumed)
  /\ UNCHANGED <<walEnd, changes, commitEnd, progressVars, resumed, gap,
                 unadvanced, localVars, inFlight, emitted, stored>>

\* receive, up to its first query: take the gap to report, and size the peek.
Receive(n) ==
  /\ pc = "receive"
  /\ pc' = "peek"
  /\ max' = n
  /\ limit' = MinOf(Cardinality(delivered) + n, MaxPeekRows)
  /\ gapTaken' = gap
  /\ gap' = FALSE
  /\ UNCHANGED <<pgVars, progressVars, resumed, unadvanced, messages,
                 deliveries, to, gatewayVars, faults>>

\* One round of the loop in `peek`: read, and read further when every row
\* came and they hold fewer than `max` new changes.
PeekRound ==
  /\ pc = "peek"
  /\ slot # 0
  /\ LET rows == PeekRows(limit) IN
       IF \/ RowCount(rows) < limit
          \/ limit = MaxPeekRows
          \/ Cardinality(NewChanges(rows)) >= max
       THEN /\ messages' = rows
            /\ pc' = "deliver"
            /\ limit' = 1
       ELSE /\ limit' = MinOf(4 * limit, MaxPeekRows)
            /\ UNCHANGED <<messages, pc>>
  /\ UNCHANGED <<pgVars, progressVars, resumed, gap, unadvanced, max,
                 gapTaken, deliveries, to, gatewayVars, faults>>

\* peek_rows fails, always when the slot is gone: receive returns the error,
\* what it had taken goes with it, and the driver connects again.
PeekFails ==
  /\ pc = "peek"
  /\ \/ slot = 0 /\ UNCHANGED faults
     \/ slot # 0 /\ faults < MaxFaults /\ faults' = faults + 1
  /\ pc' = "connect"
  /\ gapTaken' = FALSE
  /\ max' = 1
  /\ limit' = 1
  /\ UNCHANGED <<pgVars, progressVars, resumed, gap, unadvanced, messages,
                 deliveries, to, gatewayVars>>

\* The pass of `peek` over the messages, under the progress lock.
Deliver ==
  /\ pc = "deliver"
  /\ pc' = "settle"
  /\ deliveries' = Delivering(messages)
  /\ delivered' = delivered \cup Delivering(messages)
  /\ transactions' = transactions \cup {x \in messages : commitEnd[x] > consumed}
  /\ messages' = {}
  /\ max' = 1
  /\ UNCHANGED <<pgVars, acked, consumed, resumed, gap, unadvanced, limit,
                 gapTaken, to, gatewayVars, faults>>

\* Progress::advance removes the transactions S.
Consume(S) ==
  /\ transactions' = transactions \ S
  /\ acked' = [x \in Tx |-> IF x \in S THEN {} ELSE acked[x]]
  /\ delivered' = delivered \ UNION {changes[x] : x \in S}

\* receive returns: the driver holds what was delivered.
Return ==
  /\ pc' = "receive"
  /\ inFlight' = inFlight \cup deliveries
  /\ emitted' = emitted \cup deliveries
  /\ gapOwed' = (gapOwed /\ ~gapTaken)
  /\ deliveries' = {}
  /\ gapTaken' = FALSE
  /\ to' = 0

\* settle, first half: Progress::advance under the lock.  The slot moves to
\* the last end it removed, or to one an earlier advance failed to reach.
SettleAdvance ==
  /\ pc = "settle"
  /\ Leading # {}
  /\ \E last \in Leading :
       /\ \A x \in Leading : commitEnd[x] <= commitEnd[last]
       /\ consumed' = MaxOf(consumed, commitEnd[last])
       /\ to' = MaxOf(commitEnd[last], unadvanced)
  /\ Consume(Leading)
  /\ pc' = "advance"
  /\ UNCHANGED <<pgVars, resumed, gap, unadvanced, max, limit, messages,
                 gapTaken, deliveries, gatewayVars, faults>>

SettleRetry ==
  /\ pc = "settle"
  /\ Leading = {}
  /\ unadvanced # 0
  /\ to' = unadvanced
  /\ pc' = "advance"
  /\ UNCHANGED <<pgVars, progressVars, resumed, gap, unadvanced, max, limit,
                 messages, gapTaken, deliveries, gatewayVars, faults>>

SettleNothing ==
  /\ pc = "settle"
  /\ Leading = {}
  /\ unadvanced = 0
  /\ Return
  /\ UNCHANGED <<pgVars, progressVars, resumed, gap, unadvanced, max, limit,
                 messages, stored, faults>>

\* settle, second half: pg_replication_slot_advance, which refuses to move
\* a slot back.
AdvanceSlot ==
  /\ pc = "advance"
  /\ slot # 0 /\ slot <= to
  /\ slot' = to
  /\ unadvanced' = 0
  /\ Return
  /\ UNCHANGED <<walEnd, changes, commitEnd, base, progressVars, resumed, gap,
                 max, limit, messages, stored, faults>>

\* It fails: refused, or the connection broke before or after the slot moved.
\* The error is logged; receive returns its deliveries.
AdvanceFails ==
  /\ pc = "advance"
  /\ \/ /\ slot = 0 \/ slot > to
        /\ UNCHANGED <<slot, faults>>
     \/ /\ slot # 0 /\ slot <= to
        /\ faults < MaxFaults
        /\ faults' = faults + 1
        /\ slot' \in {slot, to}
  /\ unadvanced' = to
  /\ Return
  /\ UNCHANGED <<walEnd, changes, commitEnd, base, progressVars, resumed, gap,
                 max, limit, messages, stored>>

----------------------------------------------------------------------------
(* The queue driver and the gateway                                         *)

\* The gateway writes a change it was handed to its event log.
Store(l) ==
  /\ l \in inFlight
  /\ l \notin stored
  /\ stored' = stored \cup {l}
  /\ UNCHANGED <<pgVars, progressVars, resumed, gap, unadvanced, localVars,
                 inFlight, emitted, gapOwed, faults>>

\* ack: recorded when the change's transaction is known.
Ack(l) ==
  /\ l \in inFlight
  /\ l \in stored
  /\ inFlight' = inFlight \ {l}
  /\ acked' = [x \in Tx |-> IF x \in transactions /\ l \in changes[x]
                            THEN acked[x] \cup {l} ELSE acked[x]]
  /\ UNCHANGED <<pgVars, delivered, transactions, consumed, resumed, gap,
                 unadvanced, localVars, emitted, stored, gapOwed, faults>>

\* release: the acknowledgement took longer than ack_timeout, whether or not
\* the gateway stored the change.
Release(l) ==
  /\ l \in inFlight
  /\ faults < MaxFaults
  /\ faults' = faults + 1
  /\ inFlight' = inFlight \ {l}
  /\ delivered' = delivered \ {l}
  /\ UNCHANGED <<pgVars, transactions, acked, consumed, resumed, gap,
                 unadvanced, localVars, emitted, stored, gapOwed>>

\* The watch is cancelled or the process dies, and a new source starts, from
\* the cursor of a stored event when there is one.
Restart ==
  /\ faults < MaxFaults
  /\ faults' = faults + 1
  /\ ResetProgress
  /\ resumed' = (stored # {})
  /\ gap' = FALSE
  /\ unadvanced' = 0
  /\ pc' = "connect"
  /\ messages' = {}
  /\ deliveries' = {}
  /\ gapTaken' = FALSE
  /\ to' = 0
  /\ max' = 1
  /\ limit' = 1
  /\ inFlight' = {}
  /\ UNCHANGED <<pgVars, emitted, stored, gapOwed>>

----------------------------------------------------------------------------
Init ==
  /\ walEnd = 1
  /\ changes = [x \in Tx |-> {}]
  /\ commitEnd = [x \in Tx |-> 0]
  /\ slot = 0
  /\ base = 0
  /\ delivered = {}
  /\ transactions = {}
  /\ acked = [x \in Tx |-> {}]
  /\ consumed = 0
  /\ resumed = FALSE
  /\ gap = FALSE
  /\ unadvanced = 0
  /\ pc = "connect"
  /\ max = 1
  /\ limit = 1
  /\ messages = {}
  /\ gapTaken = FALSE
  /\ deliveries = {}
  /\ to = 0
  /\ inFlight = {}
  /\ emitted = {}
  /\ stored = {}
  /\ gapOwed = FALSE
  /\ faults = 0

Receiver ==
  \/ Connect
  \/ \E n \in 1..MaxInFlight : Receive(n)
  \/ PeekRound
  \/ Deliver
  \/ SettleAdvance
  \/ SettleRetry
  \/ SettleNothing
  \/ AdvanceSlot
  \/ PeekFails
  \/ AdvanceFails

Next ==
  \/ \E x \in Tx : Write(x) \/ Commit(x)
  \/ DropSlot
  \/ Receiver
  \/ ConnectFails
  \/ \E l \in Lsn : Store(l) \/ Ack(l) \/ Release(l)
  \/ Restart

Spec == Init /\ [][Next]_vars

\* The receiving thread keeps calling, and the gateway stores and
\* acknowledges what it was handed.  Nothing is assumed of the database, and
\* failures are bounded by MaxFaults.
Fairness ==
  /\ WF_vars(Receiver)
  /\ \A l \in Lsn : WF_vars(Store(l)) /\ WF_vars(Ack(l))

FairSpec == Spec /\ Fairness

----------------------------------------------------------------------------
TypeOK ==
  /\ walEnd \in Lsn
  /\ changes \in [Tx -> SUBSET Lsn]
  /\ commitEnd \in [Tx -> Lsn \cup {0}]
  /\ slot \in Lsn \cup {0}
  /\ base \in Lsn \cup {0}
  /\ delivered \subseteq Lsn
  /\ transactions \subseteq Tx
  /\ acked \in [Tx -> SUBSET Lsn]
  /\ consumed \in Lsn \cup {0}
  /\ resumed \in BOOLEAN
  /\ gap \in BOOLEAN
  /\ unadvanced \in Lsn \cup {0}
  /\ pc \in {"connect", "receive", "peek", "deliver", "settle", "advance"}
  /\ max \in 1..MaxInFlight
  /\ limit \in 1..MaxPeekRows
  /\ messages \subseteq Tx
  /\ gapTaken \in BOOLEAN
  /\ deliveries \subseteq Lsn
  /\ to \in Lsn \cup {0}
  /\ inFlight \subseteq Lsn
  /\ emitted \subseteq Lsn
  /\ stored \subseteq Lsn
  /\ gapOwed \in BOOLEAN
  /\ faults \in 0..MaxFaults

\* Transactions the present slot was to carry, and whether the gateway has
\* everything of one.
Carried(x) == commitEnd[x] > base
IsStored(x) == changes[x] \subseteq stored

\* The slot's confirmed position never passes a transaction of which the
\* gateway has not stored every change, whatever order peeks,
\* acknowledgements, releases, failed advances, reconnects and restarts come
\* in (settle and Progress::advance: "past every leading transaction fully
\* acknowledged").
SlotBehindStored ==
  \A x \in Committed : Carried(x) /\ commitEnd[x] <= slot => IsStored(x)

\* No committed transaction wrote below the end of one committed before it:
\* what a single writer at a time guarantees.
Serial ==
  \A x \in Tx, y \in Committed :
    (\E l \in changes[x] : l < commitEnd[y])
      => x \in Committed /\ commitEnd[x] <= commitEnd[y]

\* While the WAL is serial, changes are first handed out in commit order
\* (README: "at-least-once, in commit order"): when one was, so was every
\* change before it that the same slot carries.
FirstDeliveryInCommitOrder ==
  Serial =>
    \A x, y \in Committed : \A l \in changes[x], m \in changes[y] :
      Carried(x) /\ Before(l, m) /\ m \in emitted => l \in emitted

\* Every change handed out belongs to a transaction Progress tracks: `ack`
\* finds its owner, so no acknowledgement of this session is dropped and no
\* entry of `delivered` outlives its transaction.
DeliveryOwned ==
  \A l \in delivered : \E x \in transactions : l \in changes[x]

Holds(x) == commitEnd[x] # 0 /\ slot # 0 /\ Carried(x)

Owed == IF slot = 0 THEN {} ELSE UNION {changes[x] : x \in Readable}
Queue == INSTANCE AtLeastOnceQueue
           WITH Change <- Lsn, alive <- slot # 0, published <- Published,
                owed <- Owed

\* The watch is an at-least-once queue: a change leaves the slot only when
\* the gateway has it, or when the slot itself is lost.
ImplementsQueue == Queue!Spec

\* Every change the slot carries is stored in the end (README on delivery:
\* "a change it did not take is read again").
EveryChangeStored ==
  \A x \in Tx : Holds(x) ~> (slot = 0 \/ ~Carried(x) \/ IsStored(x))

\* It is when the WAL is serial, whatever is released, fails or restarts.
SerialChangesStored ==
  \A x \in Tx :
    Holds(x) ~> (slot = 0 \/ ~Carried(x) \/ IsStored(x) \/ ~Serial)

\* The slot moves past a transaction in the end, so the server can drop what
\* it keeps for it (module doc: the position moves "once the gateway has
\* acknowledged every change of a transaction and of every transaction before
\* it").
SlotPasses(x) ==
  Holds(x) ~> (slot = 0 \/ ~Carried(x) \/ commitEnd[x] <= slot \/ ~Serial)

\* It does in a serial WAL, if no session begins with a position the last one
\* failed to advance to: connect resets Progress and keeps `unadvanced`, and
\* the advance then passes transactions the new session tracks.
SlotCatchesUp ==
  [](pc = "connect" => unadvanced = 0) => \A x \in Tx : SlotPasses(x)

\* The same without that condition, which the code does not keep.
SlotAlwaysCatchesUp == \A x \in Tx : SlotPasses(x)

\* A gap is reported before any change of the slot that replaced the lost
\* one (README: "is created again, and the event log records a gap").
GapBeforeChanges ==
  gapOwed => \A x \in Committed : Carried(x) => changes[x] \cap emitted = {}
=============================================================================
