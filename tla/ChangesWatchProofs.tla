------------------------ MODULE ChangesWatchProofs ------------------------
(***************************************************************************)
(* A sql_changes watch passes no committed row over, for tables, batches   *)
(* and settle times of every size.                                         *)
(***************************************************************************)
EXTENDS ChangesWatch, FiniteSetTheorems, TLAPS

(* The first rows of a set, in order.                                       *)

LEMMA RowsAreFinite ==
  ASSUME NEW N \in Nat, NEW S \in SUBSET (1..N)
  PROVE  IsFiniteSet(S) /\ Cardinality(S) \in Nat /\ S \in SUBSET Nat
<1>1. IsFiniteSet(1..N)
  BY FS_Interval
<1>2. IsFiniteSet(S)
  BY <1>1, FS_Subset, Zenon
<1>3. Cardinality(S) \in Nat
  BY <1>2, FS_CardinalityType, Zenon
<1>4. S \in SUBSET Nat
  OBVIOUS
<1>5. QED
  BY <1>2, <1>3, <1>4

LEMMA SmallerSet ==
  ASSUME NEW N \in Nat, NEW S \in SUBSET (1..N), NEW T \in SUBSET S
  PROVE  Cardinality(T) \in Nat /\ Cardinality(S) \in Nat /\ Cardinality(T) <= Cardinality(S)
<1>1. IsFiniteSet(S) /\ Cardinality(S) \in Nat
  BY RowsAreFinite, Zenon
<1>2. IsFiniteSet(T) /\ Cardinality(T) <= Cardinality(S)
  BY <1>1, FS_Subset, Zenon
<1>3. QED
  BY <1>1, <1>2, FS_CardinalityType, Zenon

LEMMA FirstRowsPrefix ==
  ASSUME NEW N \in Nat, NEW S \in SUBSET (1..N), NEW n \in Nat,
         NEW r \in FirstRows(S, n), NEW s \in S, s < r
  PROVE  s \in FirstRows(S, n)
<1> DEFINE below(x) == {t \in S : t < x}
<1>1. S \in SUBSET Nat /\ r \in S /\ Cardinality(below(r)) < n
  BY Zenon, RowsAreFinite DEF FirstRows
<1>2. below(r) \in SUBSET (1..N)
  BY Zenon
<1>3. \A t \in S : t < s => t < r
  BY <1>1
<1>4. below(s) \in SUBSET below(r)
  BY <1>3, Zenon
<1> HIDE DEF below
<1>5. /\ Cardinality(below(s)) <= Cardinality(below(r))
      /\ Cardinality(below(s)) \in Nat /\ Cardinality(below(r)) \in Nat
  BY <1>2, <1>4, SmallerSet, Zenon
<1>6. Cardinality(below(s)) < n
  BY <1>1, <1>5
<1>7. QED
  BY <1>6, Zenon DEF FirstRows, below

---------------------------------------------------------------------------
(* The inductive invariant                                                 *)

Ended(r) == row[r] \in {"committed", "aborted"}
Queued(r) == \E i \in 1..Len(queue) : queue[i] = r

WatchTyped ==
  /\ now \in Nat
  /\ row \in [Row -> {"new", "open", "committed", "aborted"}]
  /\ at \in [Row -> Nat]
  /\ key \in Nat /\ first \in Nat
  /\ page \in SUBSET Row /\ position \in SUBSET Row
  /\ queue \in Seq(Row)

\* Rows are inserted in key order, and no transaction is open for too long.
WritersInv ==
  /\ \A r, s \in Row : r < s /\ row[s] # "new" => row[r] # "new" /\ at[r] <= at[s]
  /\ \A r \in Row : row[r] # "new" => at[r] <= now
  /\ \A r \in Row : row[r] = "open" => now - at[r] <= MaxLag

\* The page holds every committed row between the key and its last row, and
\* nothing between them can commit any more.
PageInv ==
  /\ pc # "emitting" => page = {}
  /\ \A r \in page :
       /\ row[r] = "committed" /\ key < r
       /\ \A s \in Row : key < s /\ s < r =>
            Ended(s) /\ (row[s] = "committed" => s \in page)

\* Every row up to the key has ended, and made an event if it could.
KeyInv ==
  \A r \in Row : first < r /\ r <= key =>
    Ended(r) /\ (row[r] = "committed" => r \in stored \/ Queued(r) \/ kind[r] = "unfit")

\* The same up to the stored position, whose events are stored.
PositionInv ==
  \A p \in position, r \in Row : first < r /\ r <= p =>
    Ended(r) /\ (row[r] = "committed" => r \in stored \/ kind[r] = "unfit")

QueueInv ==
  /\ \A i \in 1..Len(queue) : queue[i] <= key
  /\ \A i, j \in 1..Len(queue) : i < j => queue[i] < queue[j]

StartInv ==
  /\ pc \in {"starting", "start_backoff"} => position = {}
  /\ pc \in {"connecting", "connect_backoff", "starting", "start_backoff"} => queue = << >>

WatchInv ==
  WatchTyped /\ WritersInv /\ PageInv /\ KeyInv /\ PositionInv /\ QueueInv /\ StartInv

\* settle_ms covers the transactions.
Covered == Settle > 0 /\ MaxLag <= TicksPerSecond * (Settle \div TicksPerSecond)

LEMMA WatchConstants ==
  /\ MaxRow \in Nat /\ MaxLag \in Nat /\ Settle \in Nat /\ BatchSize \in Nat
  /\ TicksPerSecond \in Nat \ {0}
  /\ Row = 1..MaxRow /\ Row \subseteq Nat
  BY ChangesWatchAssumption DEF ChangesWatchAssumption, Row


\* What the writers do leaves what the watch has seen as it was.
LEMMA WatchWritten ==
  ASSUME WatchInv, WatchTyped', WritersInv',
         \A s \in Row : Ended(s) => row'[s] = row[s],
         UNCHANGED <<kind, pc, key, page, position, queue, stored, first>>
  PROVE  WatchInv'
<1>1. \A s \in Row : Ended(s) => row'[s] = row[s] /\ Ended(s)'
  BY DEF Ended
<1>2. \A s \in Row : Queued(s)' <=> Queued(s)
  BY Zenon DEF Queued
<1>3. PageInv'
  <2>1. \A r \in page : r \in Row /\ Ended(r)
    BY DEF WatchInv, WatchTyped, PageInv, Ended
  <2>2. QED
    BY <1>1, <2>1 DEF WatchInv, PageInv
<1>4. KeyInv'
  BY <1>1, <1>2, Zenon DEF WatchInv, KeyInv
<1>5. PositionInv'
  BY <1>1, Zenon DEF WatchInv, PositionInv
<1>6. QueueInv' /\ StartInv'
  BY Zenon DEF WatchInv, QueueInv, StartInv
<1>7. QED
  BY <1>3, <1>4, <1>5, <1>6, Zenon DEF WatchInv

LEMMA WatchInserted ==
  ASSUME WatchInv, Insert
  PROVE  WatchInv'
<1>1. PICK r \in Row :
        /\ row[r] = "new" /\ \A s \in 1..r - 1 : row[s] # "new"
        /\ row' = [row EXCEPT ![r] = "open"] /\ at' = [at EXCEPT ![r] = now]
  BY Zenon DEF Insert
<1>2. UNCHANGED <<now, kind, pc, key, page, position, queue, stored, first>>
  BY DEF Insert, work, host
<1>3. WatchTyped'
  BY <1>1, <1>2 DEF WatchInv, WatchTyped
<1>4. /\ \A s \in Row : s # r => row'[s] = row[s] /\ at'[s] = at[s]
      /\ row'[r] = "open" /\ at'[r] = now
  BY <1>1 DEF WatchInv, WatchTyped
<1>5. \A s \in Row : Ended(s) => row'[s] = row[s]
  BY <1>1, <1>4 DEF Ended
<1>6. WritersInv'
  <2>1. \A s \in Row : s < r => row[s] # "new"
    BY <1>1, WatchConstants
  <2>2. \A s \in Row : r < s => row[s] = "new"
    BY <1>1 DEF WatchInv, WritersInv
  <2>3. now \in Nat /\ \A s \in Row : at[s] \in Nat /\ s \in Nat
    BY WatchConstants DEF WatchInv, WatchTyped
  <2>4. \A p, q \in Row : p < q /\ row'[q] # "new" => row'[p] # "new" /\ at'[p] <= at'[q]
    BY <1>4, <2>1, <2>2, <2>3 DEF WatchInv, WritersInv
  <2>5. \A s \in Row : row'[s] # "new" => at'[s] <= now
    BY <1>4, <2>3 DEF WatchInv, WritersInv
  <2>6. \A s \in Row : row'[s] = "open" => now - at'[s] <= MaxLag
    BY <1>4, <2>3, WatchConstants DEF WatchInv, WritersInv
  <2>7. QED
    BY <1>2, <2>4, <2>5, <2>6, Zenon DEF WritersInv
<1>7. QED
  BY <1>2, <1>3, <1>5, <1>6, WatchWritten, Zenon

LEMMA WatchEnded ==
  ASSUME WatchInv, NEW r \in Row, End(r)
  PROVE  WatchInv'
<1>1. PICK e \in {"committed", "aborted"} : row' = [row EXCEPT ![r] = e]
  BY Zenon DEF End
<1>2. /\ row[r] = "open"
      /\ UNCHANGED <<now, at, kind, pc, key, page, position, queue, stored, first>>
  BY DEF End, work, host
<1>3. WatchTyped'
  BY <1>1, <1>2 DEF WatchInv, WatchTyped
<1>4. (\A s \in Row : s # r => row'[s] = row[s]) /\ row'[r] = e
  BY <1>1 DEF WatchInv, WatchTyped
<1>5. \A s \in Row : Ended(s) => row'[s] = row[s]
  BY <1>2, <1>4 DEF Ended
<1>6. WritersInv'
  <2>1. \A s \in Row : (row'[s] # "new" <=> row[s] # "new") /\ (row'[s] = "open" => row[s] = "open")
    BY <1>2, <1>4
  <2>2. QED
    BY <1>2, <2>1, Zenon DEF WatchInv, WritersInv
<1>7. QED
  BY <1>2, <1>3, <1>5, <1>6, WatchWritten, Zenon

LEMMA WatchTicked ==
  ASSUME WatchInv, Tick
  PROVE  WatchInv'
<1>1. UNCHANGED <<row, at, kind, pc, key, page, position, queue, stored, first>>
  BY DEF Tick, table, work, host
<1>2. WatchTyped'
  BY <1>1 DEF WatchInv, WatchTyped, Tick
<1>3. WritersInv'
  BY SMTT(30), <1>1, WatchConstants DEF WatchInv, WatchTyped, WritersInv, Tick
<1>4. QED
  BY <1>1, <1>2, <1>3, WatchWritten, Zenon

\* A step of the loop that moves nothing but its program counter.
LEMMA WatchMoved ==
  ASSUME WatchInv, StartInv', pc' # "emitting" => page = {},
         UNCHANGED <<now, row, at, kind, key, page, position, queue, stored, first>>
  PROVE  WatchInv'
<1>1. WatchTyped'
  BY Zenon DEF WatchInv, WatchTyped
<1>2. WritersInv'
  BY Zenon DEF WatchInv, WritersInv
<1>3. \A s \in Row : (Ended(s)' <=> Ended(s)) /\ (Queued(s)' <=> Queued(s))
  BY Zenon DEF Ended, Queued
<1>4. PageInv'
  BY <1>3 DEF WatchInv, PageInv
<1>5. KeyInv' /\ PositionInv'
  BY <1>3, Zenon DEF WatchInv, KeyInv, PositionInv
<1>6. QueueInv'
  BY Zenon DEF WatchInv, QueueInv
<1>7. QED
  BY <1>1, <1>2, <1>4, <1>5, <1>6, Zenon DEF WatchInv

LEMMA WatchWaits ==
  ASSUME WatchInv,
         Stop \/ ConnectFails \/ StartFails \/ Retry \/ Poll \/ QueryFails
           \/ PageDone \/ Cancel
  PROVE  WatchInv'
<1>1. UNCHANGED <<now, row, at, kind, key, page, position, queue, stored, first>>
  BY DEF Stop, ConnectFails, StartFails, Retry, Poll, QueryFails, PageDone, Cancel,
         table, work, host
<1>2. pc' # "emitting" => page = {}
  BY DEF WatchInv, PageInv, Stop, ConnectFails, StartFails, Retry, Poll, QueryFails,
         PageDone, Cancel, Waits, Runs
<1>3. StartInv'
  BY <1>1 DEF WatchInv, StartInv, Stop, ConnectFails, StartFails, Retry, Poll,
              QueryFails, PageDone, Cancel, Runs, BackOff
<1>4. QED
  BY <1>1, <1>2, <1>3, WatchMoved, Zenon

LEMMA WatchConnected ==
  ASSUME WatchInv, Connect
  PROVE  WatchInv'
<1>1. UNCHANGED <<now, row, at, kind, page, position, queue, stored, first>>
  BY DEF Connect, table, host
<1>2. pc = "connecting" /\ page = {} /\ queue = << >>
  BY DEF Connect, Runs, WatchInv, PageInv, StartInv
<1>3. CASE position = {}
  <2>1. pc' = "starting" /\ key' = key
    BY <1>3 DEF Connect
  <2>2. StartInv'
    BY <1>1, <1>2, <1>3 DEF StartInv
  <2>3. QED
    BY <1>1, <1>2, <2>1, <2>2, WatchMoved, Zenon
<1>4. CASE position # {}
  <2>1. pc' = "ticking" /\ key' \in position
    BY <1>4 DEF Connect
  <2>2. WatchTyped'
    BY <1>1, <2>1, WatchConstants DEF WatchInv, WatchTyped
  <2>3. WritersInv'
    BY <1>1, Zenon DEF WatchInv, WritersInv
  <2>4. PageInv' /\ QueueInv' /\ StartInv'
    BY <1>1, <1>2, <2>1 DEF PageInv, QueueInv, StartInv
  <2>5. \A s \in Row : Ended(s)' <=> Ended(s)
    BY <1>1, Zenon DEF Ended
  <2>6. KeyInv' /\ PositionInv'
    BY <1>1, <2>1, <2>5, Zenon DEF WatchInv, PositionInv, KeyInv
  <2>7. QED
    BY <2>2, <2>3, <2>4, <2>6, Zenon DEF WatchInv
<1>5. QED
  BY <1>3, <1>4

\* The first key: nothing before it is waited for.
LEMMA WatchStarted ==
  ASSUME WatchInv, Start
  PROVE  WatchInv'
<1>1. UNCHANGED <<now, row, at, kind, page, position, queue, stored>>
  BY DEF Start, table, host
<1>2. pc = "starting" /\ page = {} /\ queue = << >> /\ position = {}
  BY DEF Start, Runs, WatchInv, PageInv, StartInv
<1>3. pc' = "ticking" /\ first' = key' /\ key' \in Nat
  BY WatchConstants DEF Start, Committed
<1>4. WatchTyped'
  BY <1>1, <1>3, Zenon DEF WatchInv, WatchTyped
<1>5. WritersInv'
  BY <1>1, Zenon DEF WatchInv, WritersInv
<1>6. PageInv' /\ QueueInv' /\ StartInv' /\ PositionInv'
  BY <1>1, <1>2, <1>3 DEF PageInv, QueueInv, StartInv, PositionInv
<1>7. KeyInv'
  BY <1>3, WatchConstants DEF KeyInv
<1>8. QED
  BY <1>4, <1>5, <1>6, <1>7, Zenon DEF WatchInv

LEMMA WholeSeconds ==
  ASSUME NEW t \in Nat \ {0}, NEW n \in Nat, NEW s \in Nat, NEW a \in Nat,
         a < t * (n \div t - s \div t)
  PROVE  a + t * (s \div t) < n
<1>1. n \div t \in Nat /\ s \div t \in Nat /\ t * (n \div t) <= n
  OBVIOUS
<1>2. t * (n \div t - s \div t) = t * (n \div t) - t * (s \div t)
  BY <1>1
<1>3. t * (s \div t) \in Nat /\ t * (n \div t) \in Nat
  BY <1>1
<1>4. QED
  BY <1>1, <1>2, <1>3

\* A row before a settled one has ended, and is settled.
LEMMA SettledRows ==
  ASSUME WatchInv, Covered, NEW r \in Row, row[r] = "committed", Settled(r),
         NEW s \in Row, s < r
  PROVE  Ended(s) /\ Settled(s)
<1>1. Before(at[r]) /\ Settle # 0
  BY WatchConstants DEF Settled, Covered
<1>2. now \in Nat /\ at[r] \in Nat /\ at[s] \in Nat
  BY DEF WatchInv, WatchTyped
<1>3. row[s] # "new" /\ at[s] <= at[r]
  BY DEF WatchInv, WritersInv
<1>4. at[r] + TicksPerSecond * (Settle \div TicksPerSecond) < now
  BY <1>1, <1>2, WatchConstants, WholeSeconds, Zenon DEF Before
<1>5. TicksPerSecond * (Settle \div TicksPerSecond) \in Nat
  BY WatchConstants
<1>6. MaxLag <= TicksPerSecond * (Settle \div TicksPerSecond)
  BY DEF Covered
<1> DEFINE whole == TicksPerSecond * (Settle \div TicksPerSecond)
<1> HIDE DEF whole
<1>7. now - at[s] > MaxLag
  <2>1. at[r] + whole < now /\ whole \in Nat /\ MaxLag <= whole
    BY <1>4, <1>5, <1>6, Zenon DEF whole
  <2>2. QED
    BY <1>2, <1>3, <2>1, WatchConstants
<1>8. row[s] # "open"
  BY <1>2, <1>7, WatchConstants DEF WatchInv, WritersInv
<1>9. Ended(s)
  BY <1>3, <1>8 DEF WatchInv, WatchTyped, Ended
<1>10. Before(at[s])
  <2> DEFINE bound == TicksPerSecond * (now \div TicksPerSecond - Settle \div TicksPerSecond)
  <2>1. bound \in Int
    BY <1>2, WatchConstants
  <2>2. at[r] < bound
    BY <1>1, Zenon DEF Before
  <2> HIDE DEF bound
  <2>3. at[s] < bound
    BY <1>2, <1>3, <2>1, <2>2
  <2>4. QED
    BY <2>3, Zenon DEF Before, bound
<1>11. QED
  BY <1>9, <1>10, Zenon DEF Settled

LEMMA WatchQueried ==
  ASSUME WatchInv, Covered, Query
  PROVE  WatchInv'
<1> DEFINE found == {r \in Committed : r > key /\ Settled(r)}
<1>1. UNCHANGED <<now, row, at, kind, key, position, queue, stored, first>>
  BY DEF Query, table, host
<1>2. pc' = "emitting" /\ page' = FirstRows(found, BatchSize)
  BY Zenon DEF Query
<1>3. found \in SUBSET (1..MaxRow) /\ found \in SUBSET Row
  BY WatchConstants, Zenon DEF Committed
<1>4. \A r \in found : row[r] = "committed" /\ r > key /\ Settled(r)
  BY Zenon DEF Committed
<1>5. \A s \in Row : row[s] = "committed" /\ s > key /\ Settled(s) => s \in found
  BY Zenon DEF Committed
<1> HIDE DEF found
<1>6. page' \in SUBSET found
  BY <1>2, Zenon DEF FirstRows
<1>7. WatchTyped'
  BY <1>1, <1>3, <1>6 DEF WatchInv, WatchTyped
<1>8. WritersInv' /\ QueueInv'
  BY <1>1, Zenon DEF WatchInv, WritersInv, QueueInv
<1>9. \A s \in Row : (Ended(s)' <=> Ended(s)) /\ (Queued(s)' <=> Queued(s))
  BY <1>1, Zenon DEF Ended, Queued
<1>10. KeyInv' /\ PositionInv'
  BY <1>1, <1>9, Zenon DEF WatchInv, KeyInv, PositionInv
<1>11. StartInv'
  BY <1>2 DEF StartInv
<1>12. ASSUME NEW r \in page', NEW s \in Row, key < s, s < r
       PROVE  Ended(s) /\ (row[s] = "committed" => s \in page')
  <2>1. r \in Row /\ row[r] = "committed" /\ Settled(r)
    BY <1>3, <1>4, <1>6
  <2>2. Ended(s) /\ Settled(s)
    BY <1>12, <2>1, SettledRows, Zenon
  <2>3. ASSUME row[s] = "committed" PROVE s \in page'
    <3>1. s > key
      BY <1>12, WatchConstants DEF WatchInv, WatchTyped
    <3>2. s \in found
      BY <1>5, <2>2, <2>3, <3>1, Zenon
    <3>3. r \in FirstRows(found, BatchSize)
      BY <1>2
    <3>4. s \in FirstRows(found, BatchSize)
      BY <1>3, <1>12, <3>2, <3>3, FirstRowsPrefix, WatchConstants, Zenon
    <3>5. QED
      BY <1>2, <3>4
  <2>4. QED
    BY <2>2, <2>3
<1>13. \A r \in page' : row[r] = "committed" /\ key < r
  BY <1>3, <1>4, <1>6, WatchConstants DEF WatchInv, WatchTyped
<1>14. PageInv'
  BY <1>1, <1>2, <1>9, <1>12, <1>13, Zenon DEF PageInv
<1>15. QED
  BY <1>7, <1>8, <1>10, <1>11, <1>14, Zenon DEF WatchInv

\* The foremost row of the page becomes the key.
LEMMA WatchEmitted ==
  ASSUME WatchInv, NEW r \in page, Emit(r)
  PROVE  WatchInv'
<1>1. UNCHANGED <<now, row, at, kind, pc, position, stored, first>>
  BY DEF Emit, table
<1>2. /\ pc = "emitting" /\ key' = r /\ page' = page \ {r}
      /\ \A s \in page : r <= s
      /\ queue' = IF kind[r] = "unfit" THEN queue ELSE Append(queue, r)
  BY DEF Emit, Foremost, Moved
<1>3. /\ r \in Row /\ r \in Nat /\ key \in Nat /\ queue \in Seq(Row)
      /\ row[r] = "committed" /\ key < r
  BY WatchConstants DEF WatchInv, WatchTyped, PageInv
<1>4. WatchTyped'
  BY <1>1, <1>2, <1>3 DEF WatchInv, WatchTyped
<1>5. WritersInv'
  BY <1>1, Zenon DEF WatchInv, WritersInv
<1>6. \A s \in Row : Ended(s)' <=> Ended(s)
  BY <1>1, Zenon DEF Ended
<1>7. \A s \in Row : Queued(s) => Queued(s)'
  BY <1>2, <1>3 DEF Queued
<1>8. kind[r] # "unfit" => Queued(r)'
  <2> SUFFICES ASSUME kind[r] # "unfit" PROVE Queued(r)'
    OBVIOUS
  <2>1. queue' = Append(queue, r) /\ Len(queue) \in Nat
    BY <1>2, <1>3
  <2>2. queue'[Len(queue) + 1] = r /\ Len(queue) + 1 \in 1..Len(queue')
    BY <1>3, <2>1
  <2>3. QED
    BY <2>2, Zenon DEF Queued
<1>9. \A s \in Row : key < s /\ s < r => Ended(s) /\ row[s] # "committed"
  <2>1. \A s \in Row : key < s /\ s < r => s \notin page
    BY <1>2, <1>3, WatchConstants
  <2>2. QED
    BY <2>1 DEF WatchInv, PageInv
<1>10. PageInv'
  <2>1. \A q \in page' : q \in page /\ r < q /\ q \in Row
    BY <1>2, <1>3, WatchConstants DEF WatchInv, WatchTyped
  <2>2. \A q \in page', s \in Row : r < s /\ s < q =>
          Ended(s) /\ (row[s] = "committed" => s \in page')
    BY <1>2, <1>3, <2>1, WatchConstants DEF WatchInv, PageInv
  <2>3. \A q \in page' : row[q] = "committed"
    BY <2>1 DEF WatchInv, PageInv
  <2>4. QED
    BY <1>1, <1>2, <1>6, <2>1, <2>2, <2>3, Zenon DEF PageInv
<1>11. KeyInv'
  <2> SUFFICES ASSUME NEW s \in Row, first < s, s <= r
               PROVE  /\ Ended(s)
                      /\ row[s] = "committed" => s \in stored \/ Queued(s)' \/ kind[s] = "unfit"
    BY <1>1, <1>2, <1>6, Zenon DEF KeyInv
  <2>1. s <= key \/ (key < s /\ s < r) \/ s = r
    BY <1>3, WatchConstants
  <2>2. CASE s <= key
    BY <1>7, <2>2, Zenon DEF WatchInv, KeyInv
  <2>3. CASE key < s /\ s < r
    BY <1>9, <2>3, Zenon
  <2>4. CASE s = r
    BY <1>3, <1>8, <2>4 DEF Ended
  <2>5. QED
    BY <2>1, <2>2, <2>3, <2>4
<1>12. PositionInv'
  BY <1>1, <1>6, Zenon DEF WatchInv, PositionInv
<1>13. QueueInv'
  <2>1. \A i \in 1..Len(queue) : queue[i] \in Row /\ queue[i] < r
    BY <1>3, WatchConstants DEF WatchInv, QueueInv
  <2>2. CASE kind[r] = "unfit"
    BY <1>2, <1>3, <2>1, <2>2, WatchConstants DEF WatchInv, QueueInv
  <2>3. CASE kind[r] # "unfit"
    <3>1. /\ queue' = Append(queue, r) /\ Len(queue) \in Nat
      BY <1>2, <1>3, <2>3
    <3>2. /\ Len(queue') = Len(queue) + 1 /\ queue'[Len(queue) + 1] = r
          /\ \A i \in 1..Len(queue) : queue'[i] = queue[i]
      BY <1>3, <3>1
    <3>3. \A i \in 1..Len(queue') : i \in 1..Len(queue) \/ i = Len(queue) + 1
      BY <3>1, <3>2
    <3>4. \A i \in 1..Len(queue') : queue'[i] <= r
      BY <1>3, <2>1, <3>2, <3>3, WatchConstants
    <3>5. \A i, j \in 1..Len(queue') : i < j => queue'[i] < queue'[j]
      BY <2>1, <3>1, <3>2, <3>3, WatchConstants DEF WatchInv, QueueInv
    <3>6. QED
      BY <1>2, <3>4, <3>5, Zenon DEF QueueInv
  <2>4. QED
    BY <2>2, <2>3
<1>14. StartInv'
  BY <1>1, <1>2 DEF StartInv
<1>15. QED
  BY <1>4, <1>5, <1>10, <1>11, <1>12, <1>13, <1>14, Zenon DEF WatchInv

\* The page is dropped, and the key stays.
LEMMA WatchDropped ==
  ASSUME WatchInv, NEW r \in page, EmitFails(r)
  PROVE  WatchInv'
<1>1. UNCHANGED <<now, row, at, kind, key, position, queue, stored, first>>
  BY DEF EmitFails, table, host
<1>2. page' = {} /\ pc' = "ticking"
  BY DEF EmitFails
<1>3. WatchTyped' /\ PageInv' /\ StartInv'
  BY <1>1, <1>2 DEF WatchInv, WatchTyped, PageInv, StartInv
<1>4. WritersInv' /\ QueueInv'
  BY <1>1, Zenon DEF WatchInv, WritersInv, QueueInv
<1>5. \A s \in Row : (Ended(s)' <=> Ended(s)) /\ (Queued(s)' <=> Queued(s))
  BY <1>1, Zenon DEF Ended, Queued
<1>6. KeyInv' /\ PositionInv'
  BY <1>1, <1>5, Zenon DEF WatchInv, KeyInv, PositionInv
<1>7. QED
  BY <1>3, <1>4, <1>6, Zenon DEF WatchInv

\* The host's position moves to the first event of the queue, and everything
\* before that event is in its log.
LEMMA WatchStored ==
  ASSUME WatchInv, Store
  PROVE  WatchInv'
<1> DEFINE h == queue[1]
<1>1. UNCHANGED <<now, row, at, kind, pc, key, page, first>>
  BY DEF Store, table, work
<1>2. queue \in Seq(Row) /\ queue # << >>
  BY DEF Store, WatchInv, WatchTyped
<1>3. /\ h \in Row /\ h <= key /\ key \in Nat /\ Len(queue) \in Nat \ {0}
      /\ stored' = stored \cup {h} /\ position' = {h} /\ queue' = Tail(queue)
  <2>1. Head(queue) = h /\ Len(queue) \in Nat \ {0} /\ 1 \in 1..Len(queue) /\ h \in Row
    BY <1>2
  <2>2. h <= key /\ key \in Nat
    BY <2>1 DEF WatchInv, QueueInv, WatchTyped
  <2>3. QED
    BY <2>1, <2>2 DEF Store
<1> HIDE DEF h
<1>4. /\ Len(queue') = Len(queue) - 1
      /\ \A i \in 1..Len(queue') : queue'[i] = queue[i + 1] /\ i + 1 \in 1..Len(queue)
  BY <1>2, <1>3
<1>5. \A i \in 1..Len(queue) : i # 1 => h < queue[i]
  <2>1. 1 \in 1..Len(queue) /\ \A i \in 1..Len(queue) : i # 1 => 1 < i
    BY <1>3
  <2>2. QED
    BY <2>1, Zenon DEF WatchInv, QueueInv, h
<1>6. \A s \in Row : Queued(s) => s = h \/ (h < s /\ Queued(s)')
  <2> SUFFICES ASSUME NEW s \in Row, NEW i \in 1..Len(queue), queue[i] = s, i # 1
               PROVE  h < s /\ Queued(s)'
    BY Zenon DEF Queued, h
  <2>1. i - 1 \in 1..Len(queue') /\ queue'[i - 1] = s
    BY <1>3, <1>4
  <2>2. QED
    BY <1>5, <2>1 DEF Queued
<1>7. \A s \in Row : Ended(s)' <=> Ended(s)
  BY <1>1, Zenon DEF Ended
<1>8. WatchTyped'
  BY <1>1, <1>2, <1>3 DEF WatchInv, WatchTyped
<1>9. WritersInv'
  BY <1>1, Zenon DEF WatchInv, WritersInv
<1>10. PageInv'
  BY <1>1, <1>7, Zenon DEF WatchInv, PageInv
<1>11. KeyInv'
  <2>1. \A s \in Row : Queued(s) => s \in stored' \/ Queued(s)'
    BY <1>3, <1>6, Zenon
  <2>2. stored \subseteq stored'
    BY <1>3, Zenon
  <2>3. QED
    BY <1>1, <1>7, <2>1, <2>2, Zenon DEF WatchInv, KeyInv
<1>12. PositionInv'
  <2> SUFFICES ASSUME NEW s \in Row, first < s, s <= h
               PROVE  /\ Ended(s)
                      /\ row[s] = "committed" => s \in stored' \/ kind[s] = "unfit"
    BY <1>1, <1>3, <1>7, Zenon DEF PositionInv
  <2>1. s <= key
    BY <1>3, WatchConstants
  <2>2. Ended(s) /\ (row[s] = "committed" => s \in stored \/ Queued(s) \/ kind[s] = "unfit")
    BY <2>1, Zenon DEF WatchInv, KeyInv
  <2>3. ~(h < s)
    BY <1>3, WatchConstants
  <2>4. QED
    BY <1>3, <1>6, <2>2, <2>3, Zenon
<1>13. QueueInv'
  <2>1. \A i \in 1..Len(queue') : queue'[i] <= key
    BY <1>4, Zenon DEF WatchInv, QueueInv
  <2>2. \A i, j \in 1..Len(queue') : i < j => queue'[i] < queue'[j]
    BY <1>3, <1>4 DEF WatchInv, QueueInv
  <2>3. QED
    BY <1>1, <2>1, <2>2, Zenon DEF QueueInv
<1>14. StartInv'
  BY <1>1, <1>2 DEF WatchInv, StartInv
<1>15. QED
  BY <1>8, <1>9, <1>10, <1>11, <1>12, <1>13, <1>14, Zenon DEF WatchInv

LEMMA WatchRestarted ==
  ASSUME WatchInv, Restart
  PROVE  WatchInv'
<1>1. UNCHANGED <<now, row, at, kind, position, stored, first>>
  BY DEF Restart, table
<1>2. pc' = "connecting" /\ key' = 0 /\ page' = {} /\ queue' = << >>
  BY DEF Restart
<1>3. WatchTyped' /\ PageInv' /\ QueueInv' /\ StartInv'
  BY <1>1, <1>2 DEF WatchInv, WatchTyped, PageInv, QueueInv, StartInv
<1>4. WritersInv'
  BY <1>1, Zenon DEF WatchInv, WritersInv
<1>5. KeyInv'
  BY <1>2, WatchConstants DEF KeyInv, WatchInv, WatchTyped
<1>6. \A s \in Row : Ended(s)' <=> Ended(s)
  BY <1>1, Zenon DEF Ended
<1>7. PositionInv'
  BY <1>1, <1>6, Zenon DEF WatchInv, PositionInv
<1>8. QED
  BY <1>3, <1>4, <1>5, <1>7, Zenon DEF WatchInv

LEMMA WatchNext ==
  ASSUME WatchInv, Covered, [Next]_vars
  PROVE  WatchInv'
<1>1. CASE UNCHANGED vars
  <2>1. UNCHANGED <<now, row, at, kind, pc, key, page, position, queue, stored, first>>
    BY <1>1 DEF vars, table, work, host
  <2>2. StartInv' /\ (pc' # "emitting" => page = {})
    BY <2>1, Zenon DEF WatchInv, StartInv, PageInv
  <2>3. QED
    BY <2>1, <2>2, WatchMoved, Zenon
<1>2. CASE Answer
  BY <1>2, WatchConnected, WatchStarted, WatchQueried, Zenon DEF Answer
<1>3. CASE Failure
  BY <1>3, WatchWaits, Zenon DEF Failure
<1>4. CASE Loop
  BY <1>4, WatchWaits, WatchEmitted, WatchDropped, Zenon DEF Loop
<1>5. CASE Writers
  BY <1>5, WatchInserted, WatchEnded, WatchTicked, Zenon DEF Writers
<1>6. CASE Store \/ Cancel \/ Restart
  BY <1>6, WatchStored, WatchWaits, WatchRestarted, Zenon
<1>7. QED
  BY <1>1, <1>2, <1>3, <1>4, <1>5, <1>6, Zenon DEF Next

\* `settle_ms`: when it covers the longest transaction, in whole seconds as
\* page_args subtracts it, no committed row is passed over by the position a
\* sql_changes watch is resumed from, whatever the page size, the table, the
\* failures of the database and the crashes of the host.
THEOREM NoRowIsPassedOver == Spec => []NothingPassedOver
<1>1. CASE Covered
  <2>1. Init => WatchInv
    <3> SUFFICES ASSUME Init PROVE WatchInv
      OBVIOUS
    <3>1. WatchTyped /\ WritersInv
      BY WatchConstants DEF Init, WatchTyped, WritersInv
    <3>2. PageInv /\ KeyInv /\ PositionInv /\ QueueInv /\ StartInv
      BY WatchConstants DEF Init, PageInv, KeyInv, PositionInv, QueueInv, StartInv
    <3>3. QED
      BY <3>1, <3>2, Zenon DEF WatchInv
  <2>2. WatchInv /\ [Next]_vars => WatchInv'
    BY <1>1, WatchNext, Zenon
  <2>3. WatchInv => NothingPassedOver
    BY Zenon DEF WatchInv, PositionInv, NothingPassedOver, NoGap, Committed
  <2>4. QED
    BY <2>1, <2>2, <2>3, PTL DEF Spec
<1>2. CASE ~Covered
  <2>1. NothingPassedOver
    BY <1>2, Zenon DEF Covered, NothingPassedOver
  <2>2. QED
    BY <2>1, PTL
<1>3. QED
  BY <1>1, <1>2
===========================================================================
