----------------------------- MODULE PgCdcProofs -----------------------------
(***************************************************************************)
(* Theorems about PgCdc, for any transactions, WAL length, number of       *)
(* failures and interleaving of writers.                                   *)
(***************************************************************************)
EXTENDS PgCdc, FiniteSetTheorems, TLAPS

USE DEF Lsn

\* Sets of LSNs are finite, and so are the counts `peek` and `advance` take
\* of them.
LEMMA LsnFinite ==
  ASSUME NEW S \in SUBSET Lsn
  PROVE  IsFiniteSet(S) /\ Cardinality(S) \in Nat
<1>1. IsFiniteSet(Lsn)
  BY FS_Interval, PgCdcAssumption DEF PgCdcAssumption
<1>2. QED
  BY ZenonT(30), <1>1, FS_Subset, FS_CardinalityType

\* Every variable keeps its type.
THEOREM TypeCorrect == Spec => []TypeOK
<1>1. Init => TypeOK
  <2> SUFFICES ASSUME Init PROVE TypeOK
    OBVIOUS
  <2>1. walEnd \in Lsn /\ max \in 1..MaxInFlight /\ limit \in 1..MaxPeekRows
        /\ faults \in 0..MaxFaults
    BY PgCdcAssumption DEF PgCdcAssumption, Init
  <2>2. resumed \in BOOLEAN /\ gap \in BOOLEAN /\ gapTaken \in BOOLEAN
        /\ gapOwed \in BOOLEAN
    BY ZenonT(30) DEF Init
  <2>3. QED
    BY <2>1, <2>2 DEF Init, TypeOK
<1>2. TypeOK /\ [Next]_vars => TypeOK'
  <2> SUFFICES ASSUME TypeOK, [Next]_vars PROVE TypeOK'
    OBVIOUS
  <2> USE PgCdcAssumption DEF PgCdcAssumption, TypeOK, pgVars, progressVars,
                                 localVars, gatewayVars
  <2>0. 1 \in 1..MaxInFlight /\ 1 \in 1..MaxPeekRows
    OBVIOUS
  <2>1. ASSUME NEW x \in Tx, Write(x) PROVE TypeOK'
    BY <2>1 DEF Write
  <2>2. ASSUME NEW x \in Tx, Commit(x) PROVE TypeOK'
    BY <2>2 DEF Commit
  <2>3. CASE DropSlot
    BY <2>3 DEF DropSlot
  <2>4. CASE Connect
    BY <2>4 DEF Connect, ResetProgress
  <2>5. CASE ConnectFails
    BY <2>5 DEF ConnectFails
  <2>6. ASSUME NEW n \in 1..MaxInFlight, Receive(n) PROVE TypeOK'
    <3>1. Cardinality(delivered) \in Nat
      BY LsnFinite
    <3>2. limit' \in 1..MaxPeekRows
      BY <2>6, <3>1 DEF Receive, MinOf
    <3>3. QED
      BY ZenonT(30), <2>6, <3>2 DEF Receive
  <2>7. CASE PeekRound
    <3>1. PeekRows(limit) \subseteq Tx
      BY DEF PeekRows, Readable, Committed
    <3>2. messages' \subseteq Tx /\ limit' \in 1..MaxPeekRows
      BY <2>7, <3>1 DEF PeekRound, MinOf
    <3>3. QED
      BY <2>7, <3>2 DEF PeekRound
  <2>8. CASE PeekFails
    <3>1. faults' \in 0..MaxFaults
      BY <2>8 DEF PeekFails
    <3>2. QED
      BY ZenonT(30), <2>0, <2>8, <3>1 DEF PeekFails
  <2>9. CASE Deliver
    <3>1. Delivering(messages) \subseteq Lsn
      BY DEF Delivering, NewChanges
    <3>2. QED
      BY ZenonT(30), <2>0, <2>9, <3>1 DEF Deliver
  <2>10. CASE SettleAdvance
    <3>1. PICK last \in Leading :
            /\ consumed' = MaxOf(consumed, commitEnd[last])
            /\ to' = MaxOf(commitEnd[last], unadvanced)
      BY <2>10 DEF SettleAdvance
    <3>2. last \in Tx
      BY DEF Leading
    <3>3. consumed' \in Lsn \cup {0} /\ to' \in Lsn \cup {0}
      BY <3>1, <3>2 DEF MaxOf
    <3>4. transactions' \subseteq Tx /\ delivered' \subseteq Lsn
          /\ acked' \in [Tx -> SUBSET Lsn]
      BY ZenonT(30), <2>10 DEF SettleAdvance, Consume
    <3>5. QED
      BY <2>10, <3>3, <3>4 DEF SettleAdvance
  <2>11. CASE SettleRetry
    BY <2>11 DEF SettleRetry
  <2>12. CASE SettleNothing
    BY ZenonT(30), <2>12 DEF SettleNothing, Return
  <2>13. CASE AdvanceSlot
    BY ZenonT(30), <2>13 DEF AdvanceSlot, Return
  <2>14. CASE AdvanceFails
    <3>1. faults' \in 0..MaxFaults /\ slot' \in Lsn \cup {0}
      BY <2>14 DEF AdvanceFails
    <3>2. QED
      BY ZenonT(30), <2>14, <3>1 DEF AdvanceFails, Return
  <2>15. ASSUME NEW l \in Lsn, Store(l) PROVE TypeOK'
    BY <2>15 DEF Store
  <2>16. ASSUME NEW l \in Lsn, Ack(l) PROVE TypeOK'
    BY <2>16 DEF Ack
  <2>17. ASSUME NEW l \in Lsn, Release(l) PROVE TypeOK'
    <3>1. faults' \in 0..MaxFaults
      BY <2>17 DEF Release
    <3>2. QED
      BY <2>17, <3>1 DEF Release
  <2>18. CASE Restart
    <3>1. faults' \in 0..MaxFaults /\ resumed' \in BOOLEAN
      BY <2>18 DEF Restart
    <3>2. QED
      BY ZenonT(30), <2>0, <2>18, <3>1 DEF Restart, ResetProgress
  <2>19. CASE UNCHANGED vars
    BY <2>19 DEF vars
  <2>20. QED
    BY ZenonT(30), <2>1, <2>2, <2>3, <2>4, <2>5, <2>6, <2>7, <2>8, <2>9, <2>10, <2>11,
       <2>12, <2>13, <2>14, <2>15, <2>16, <2>17, <2>18, <2>19
       DEF Next, Receiver
<1>3. QED
  BY <1>1, <1>2, PTL DEF Spec

----------------------------------------------------------------------------
(***************************************************************************)
(* SlotBehindStored is not inductive: where the slot goes next is decided  *)
(* from `transactions`, `acked`, `consumed`, `unadvanced` and `to`.  The   *)
(* strengthening says that every position among them is safe to move to,   *)
(* and that the transactions held in memory have no unstored hole below    *)
(* them.                                                                   *)
(***************************************************************************)

\* Everything the slot carries up to position p is stored.
Safe(p) == \A y \in Committed : Carried(y) /\ commitEnd[y] <= p => IsStored(y)

\* Below a transaction of S there are only transactions of S and stored ones.
NoHole(S) ==
  \A x \in S, y \in Committed :
    Carried(y) /\ commitEnd[y] <= commitEnd[x] => y \in S \/ IsStored(y)

WalInv ==
  /\ \A x \in Tx : commitEnd[x] <= walEnd
  /\ \A x, y \in Committed : commitEnd[x] = commitEnd[y] => x = y
  /\ slot <= walEnd /\ base <= walEnd /\ consumed <= walEnd
  /\ unadvanced <= walEnd /\ to <= walEnd

IInv ==
  /\ WalInv
  /\ transactions \subseteq Committed /\ messages \subseteq Committed
  /\ \A x \in Tx : acked[x] \subseteq changes[x] \cap stored
  /\ Safe(slot) /\ Safe(consumed) /\ Safe(unadvanced) /\ Safe(to)
  /\ NoHole(transactions) /\ NoHole(messages)

\* Positions are numbers, and no commit lies beyond the end of the WAL.
LEMMA CommitsInWal ==
  ASSUME TypeOK, IInv
  PROVE  /\ walEnd \in Nat /\ base \in Nat
         /\ \A x \in Committed : commitEnd[x] \in Nat /\ commitEnd[x] <= walEnd
<1>1. \A x \in Tx : commitEnd[x] <= walEnd
  BY Zenon DEF IInv, WalInv
<1>2. walEnd \in Lsn /\ base \in Lsn \cup {0} /\ commitEnd \in [Tx -> Lsn \cup {0}]
  BY Zenon DEF TypeOK
<1>3. Lsn \cup {0} \subseteq Nat
  BY PgCdcAssumption DEF PgCdcAssumption, Lsn
<1>4. walEnd \in Nat /\ base \in Nat
  BY Zenon, <1>2, <1>3
<1>5. ASSUME NEW x \in Committed PROVE commitEnd[x] \in Nat /\ commitEnd[x] <= walEnd
  BY Zenon, <1>1, <1>2, <1>3 DEF Committed
<1>6. QED
  BY Zenon, <1>4, <1>5

\* A transaction Progress::advance finds fully acknowledged is stored: it
\* compares counts, and only changes of the transaction are recorded in
\* `acked`, each after the gateway stored it.
LEMMA FullyAckedStored ==
  ASSUME TypeOK, NEW x \in Tx, acked[x] \subseteq changes[x] \cap stored,
         FullyAcked(x)
  PROVE  IsStored(x)
<1>1. changes[x] \in SUBSET Lsn /\ acked[x] \in SUBSET changes[x]
  BY DEF TypeOK
<1>2. IsFiniteSet(changes[x]) /\ Cardinality(changes[x]) \in Nat
  BY <1>1, LsnFinite
<1>3. /\ Cardinality(acked[x]) \in Nat
      /\ Cardinality(acked[x]) <= Cardinality(changes[x])
      /\ Cardinality(acked[x]) = Cardinality(changes[x]) => acked[x] = changes[x]
  BY <1>1, <1>2, FS_Subset, FS_CardinalityType
<1>4. acked[x] = changes[x]
  BY <1>2, <1>3 DEF FullyAcked
<1>5. QED
  BY <1>4 DEF IsStored

\* A peek stops at a COMMIT: when it holds a transaction it holds every
\* readable one that committed before it.
LEMMA PeekRowsPrefix ==
  ASSUME TypeOK, NEW n \in Nat, NEW x \in PeekRows(n), NEW y \in Readable,
         commitEnd[y] <= commitEnd[x]
  PROVE  y \in PeekRows(n)
<1> DEFINE S(z) == {w \in Readable : commitEnd[w] < commitEnd[z]}
           C(z) == UNION {changes[w] : w \in S(z)}
<1>1. x \in Tx /\ y \in Tx /\ Readable \subseteq Tx
  BY DEF PeekRows, Readable, Committed
<1>2. S(y) \subseteq S(x) /\ S(x) \subseteq Tx
  BY <1>1 DEF TypeOK
<1>3. C(y) \in SUBSET C(x) /\ C(x) \in SUBSET Lsn
  BY <1>1, <1>2 DEF TypeOK
<1>4. IsFiniteSet(S(x)) /\ IsFiniteSet(C(x))
  BY <1>2, <1>3, LsnFinite, FS_Subset, PgCdcAssumption DEF PgCdcAssumption
<1>5. /\ Cardinality(S(y)) <= Cardinality(S(x)) /\ Cardinality(S(y)) \in Nat
      /\ Cardinality(C(y)) <= Cardinality(C(x)) /\ Cardinality(C(y)) \in Nat
      /\ Cardinality(S(x)) \in Nat /\ Cardinality(C(x)) \in Nat
  BY <1>2, <1>3, <1>4, FS_Subset, FS_CardinalityType
<1>6. RowCount(S(x)) < n
  BY DEF PeekRows
<1> HIDE DEF S, C
<1>7. RowCount(S(y)) <= RowCount(S(x)) /\ RowCount(S(y)) \in Nat
      /\ RowCount(S(x)) \in Nat
  BY <1>5 DEF RowCount, C
<1>8. RowCount(S(y)) < n
  BY <1>6, <1>7
<1>9. QED
  BY <1>8 DEF PeekRows, S

LEMMA IInvStep == TypeOK /\ TypeOK' /\ IInv /\ [Next]_vars => IInv'
<1> SUFFICES ASSUME TypeOK, TypeOK', IInv, [Next]_vars PROVE IInv'
  OBVIOUS
<1>t. /\ walEnd \in Nat /\ slot \in Nat /\ base \in Nat /\ consumed \in Nat
      /\ unadvanced \in Nat /\ to \in Nat /\ commitEnd \in [Tx -> Nat]
      /\ changes \in [Tx -> SUBSET Lsn] /\ acked \in [Tx -> SUBSET Lsn]
      /\ transactions \subseteq Tx /\ messages \subseteq Tx
  BY DEF TypeOK, Lsn
<1> DEFINE Same == UNCHANGED <<walEnd, changes, commitEnd>>
           Rest == UNCHANGED <<base, transactions, acked, consumed, unadvanced,
                               messages, to, stored>>
<1> USE DEF IInv, WalInv, Safe, NoHole, Committed, Carried, IsStored
<1>u. ASSUME Same, Rest, slot' = slot PROVE IInv'
  BY <1>u
<1> HIDE DEF IInv, WalInv, Safe, NoHole, Committed, Carried, IsStored
<1>1. ASSUME NEW x \in Tx, Write(x) PROVE IInv'
  <2>1. /\ commitEnd[x] = 0 /\ walEnd' = walEnd + 1
        /\ changes' = [changes EXCEPT ![x] = @ \cup {walEnd}]
        /\ UNCHANGED <<commitEnd, slot>> /\ Rest
    BY <1>1 DEF Write, progressVars, localVars, gatewayVars
  <2>2. QED
    BY <1>t, <2>1 DEF IInv, WalInv, Safe, NoHole, Committed, Carried, IsStored
<1>2. ASSUME NEW x \in Tx, Commit(x) PROVE IInv'
  <2>1. /\ commitEnd[x] = 0 /\ walEnd' = walEnd + 1
        /\ commitEnd' = [commitEnd EXCEPT ![x] = walEnd + 1]
        /\ UNCHANGED <<changes, slot>> /\ Rest
    BY <1>2 DEF Commit, progressVars, localVars, gatewayVars
  <2>2. QED
    BY <1>t, <2>1 DEF IInv, WalInv, Safe, NoHole, Committed, Carried, IsStored
<1>3. CASE DropSlot
  <2>1. slot' = 0 /\ Same /\ Rest
    BY <1>3 DEF DropSlot, progressVars, localVars, gatewayVars
  <2>2. QED
    BY <1>t, <2>1 DEF IInv, WalInv, Safe, NoHole, Committed, Carried, IsStored
<1>4. CASE Connect
  <2>1. /\ (slot' = slot /\ base' = base) \/ (slot' = walEnd /\ base' = walEnd)
        /\ transactions' = {} /\ acked' = [y \in Tx |-> {}] /\ consumed' = 0
        /\ Same /\ UNCHANGED <<unadvanced, messages, to, stored>>
    BY <1>4 DEF Connect, ResetProgress
  <2>2. QED
    BY <1>t, <2>1 DEF IInv, WalInv, Safe, NoHole, Committed, Carried, IsStored
<1>5. CASE ConnectFails
  <2>1. /\ (slot' = slot /\ base' = base) \/ (slot' = walEnd /\ base' = walEnd)
        /\ UNCHANGED <<transactions, acked, consumed, unadvanced, messages, to,
                       stored>> /\ Same
    BY <1>5 DEF ConnectFails, progressVars, localVars
  <2>2. QED
    BY <1>t, <2>1 DEF IInv, WalInv, Safe, NoHole, Committed, Carried, IsStored
<1>6. ASSUME NEW n \in 1..MaxInFlight, Receive(n) PROVE IInv'
  BY <1>6, <1>u DEF Receive, pgVars, progressVars, gatewayVars
<1>7. CASE PeekRound
  <2> USE DEF IInv, WalInv, Safe, NoHole, Committed, Carried, IsStored
  <2>1. limit \in Nat
    BY DEF TypeOK
  <2>2. PeekRows(limit) \subseteq Readable
    BY DEF PeekRows
  <2>3. NoHole(PeekRows(limit))
    <3> SUFFICES ASSUME NEW x \in PeekRows(limit), NEW y \in Committed,
                        Carried(y), commitEnd[y] <= commitEnd[x]
                 PROVE  y \in PeekRows(limit) \/ IsStored(y)
      OBVIOUS
    <3>1. CASE commitEnd[y] > slot
      BY <2>1, <3>1, PeekRowsPrefix DEF Readable
    <3>2. CASE commitEnd[y] <= slot
      BY <3>2
    <3>3. QED
      BY <1>t, <3>1, <3>2
  <2>4. messages' \in {messages, PeekRows(limit)}
    BY <1>7 DEF PeekRound, pgVars, progressVars, gatewayVars
  <2>5. messages' \subseteq Committed
    BY <2>2, <2>4 DEF Readable
  <2>6. NoHole(messages)'
    <3>1. \A x \in messages', y \in Committed :
            Carried(y) /\ commitEnd[y] <= commitEnd[x]
            => y \in messages' \/ IsStored(y)
      BY <2>3, <2>4
    <3>2. QED
      BY <3>1, <1>7 DEF PeekRound, pgVars, progressVars, gatewayVars
  <2>7. QED
    BY <1>7, <2>5, <2>6 DEF PeekRound, pgVars, progressVars, gatewayVars
<1>8. CASE PeekFails
  BY <1>8, <1>u DEF PeekFails, pgVars, progressVars, gatewayVars
<1>9. CASE Deliver
  <2>1. /\ transactions'
             = transactions \cup {x \in messages : commitEnd[x] > consumed}
        /\ messages' = {} /\ Same
        /\ UNCHANGED <<slot, base, acked, consumed, unadvanced, to, stored>>
    BY <1>9 DEF Deliver, pgVars, gatewayVars
  <2>2. QED
    BY <1>t, <2>1 DEF IInv, WalInv, Safe, NoHole, Committed, Carried, IsStored
<1>10. CASE SettleAdvance
  <2>1. PICK last \in Leading :
          /\ \A x \in Leading : commitEnd[x] <= commitEnd[last]
          /\ consumed' = MaxOf(consumed, commitEnd[last])
          /\ to' = MaxOf(commitEnd[last], unadvanced)
    BY <1>10 DEF SettleAdvance
  <2>2. last \in transactions /\ last \in Tx
    BY <1>t DEF Leading
  <2>3. /\ transactions' = transactions \ Leading /\ Same
        /\ UNCHANGED <<slot, base, stored, messages, unadvanced>>
    BY <1>10 DEF SettleAdvance, Consume, pgVars, gatewayVars
  <2>4. \A x \in Tx : acked'[x] \in {acked[x], {}}
    <3>1. acked' = [x \in Tx |-> IF x \in Leading THEN {} ELSE acked[x]]
      BY ZenonT(30), <1>10 DEF SettleAdvance, Consume
    <3>2. QED
      BY <3>1
  <2> USE DEF IInv, WalInv, Safe, NoHole, Committed, Carried, IsStored
  <2>5. Safe(commitEnd[last])
    <3> SUFFICES ASSUME NEW y \in Committed, Carried(y),
                        commitEnd[y] <= commitEnd[last]
                 PROVE  IsStored(y)
      OBVIOUS
    <3>1. CASE y \in transactions
      <4>1. FullyAcked(y)
        BY <3>1 DEF Leading
      <4>2. QED
        BY <4>1, FullyAckedStored
    <3>2. CASE y \notin transactions
      BY <2>2, <3>2
    <3>3. QED
      BY <3>1, <3>2
  <2>6. Safe(consumed') /\ Safe(to')
    BY <2>1, <2>5 DEF MaxOf
  <2>7. consumed' <= walEnd /\ to' <= walEnd
    BY <2>1, <2>2 DEF MaxOf
  <2>8. \A x \in Leading : IsStored(x)
    BY <1>t, FullyAckedStored DEF Leading
  <2>9. NoHole(transactions)'
    BY <2>3, <2>8
  <2>10. (Safe(slot) /\ Safe(consumed) /\ Safe(unadvanced) /\ Safe(to))'
    BY <2>3, <2>6
  <2>11. QED
    BY <1>t, <2>3, <2>4, <2>7, <2>9, <2>10
<1>11. CASE SettleRetry
  <2>1. /\ to' = unadvanced /\ Same
        /\ UNCHANGED <<slot, base, transactions, acked, consumed, unadvanced,
                       messages, stored>>
    BY <1>11 DEF SettleRetry, pgVars, progressVars, gatewayVars
  <2>2. QED
    BY <1>t, <2>1 DEF IInv, WalInv, Safe, NoHole, Committed, Carried, IsStored
<1>12. CASE SettleNothing
  <2>1. /\ to' = 0 /\ Same
        /\ UNCHANGED <<slot, base, transactions, acked, consumed, unadvanced,
                       messages, stored>>
    BY <1>12 DEF SettleNothing, Return, pgVars, progressVars
  <2>2. QED
    BY <1>t, <2>1 DEF IInv, WalInv, Safe, NoHole, Committed, Carried, IsStored
<1>13. CASE AdvanceSlot
  <2>1. /\ slot' = to /\ unadvanced' = 0 /\ to' = 0 /\ Same
        /\ UNCHANGED <<base, transactions, acked, consumed, messages, stored>>
    BY <1>13 DEF AdvanceSlot, Return, progressVars
  <2>2. QED
    BY <1>t, <2>1 DEF IInv, WalInv, Safe, NoHole, Committed, Carried, IsStored
<1>14. CASE AdvanceFails
  <2>1. /\ slot' \in {slot, to} /\ unadvanced' = to /\ to' = 0 /\ Same
        /\ UNCHANGED <<base, transactions, acked, consumed, messages, stored>>
    BY <1>14 DEF AdvanceFails, Return, progressVars
  <2>2. QED
    BY <1>t, <2>1 DEF IInv, WalInv, Safe, NoHole, Committed, Carried, IsStored
<1>15. ASSUME NEW l \in Lsn, Store(l) PROVE IInv'
  <2>1. /\ stored' = stored \cup {l} /\ Same
        /\ UNCHANGED <<slot, base, transactions, acked, consumed, unadvanced,
                       messages, to>>
    BY <1>15 DEF Store, pgVars, progressVars, localVars
  <2>2. QED
    BY <1>t, <2>1 DEF IInv, WalInv, Safe, NoHole, Committed, Carried, IsStored
<1>16. ASSUME NEW l \in Lsn, Ack(l) PROVE IInv'
  <2>1. /\ l \in stored /\ Same
        /\ acked' = [x \in Tx |-> IF x \in transactions /\ l \in changes[x]
                                  THEN acked[x] \cup {l} ELSE acked[x]]
        /\ UNCHANGED <<slot, base, transactions, consumed, unadvanced, messages,
                       to, stored>>
    BY <1>16 DEF Ack, pgVars, localVars
  <2>2. QED
    BY <1>t, <2>1 DEF IInv, WalInv, Safe, NoHole, Committed, Carried, IsStored
<1>17. ASSUME NEW l \in Lsn, Release(l) PROVE IInv'
  BY <1>17, <1>u DEF Release, pgVars, localVars
<1>18. CASE Restart
  <2>1. /\ transactions' = {} /\ acked' = [x \in Tx |-> {}] /\ consumed' = 0
        /\ unadvanced' = 0 /\ messages' = {} /\ to' = 0 /\ Same
        /\ UNCHANGED <<slot, base, stored>>
    BY <1>18 DEF Restart, ResetProgress, pgVars
  <2>2. QED
    BY <1>t, <2>1 DEF IInv, WalInv, Safe, NoHole, Committed, Carried, IsStored
<1>19. CASE UNCHANGED vars
  BY <1>19, <1>u DEF vars, pgVars, progressVars, localVars, gatewayVars
<1>20. QED
  BY <1>1, <1>2, <1>3, <1>4, <1>5, <1>6, <1>7, <1>8, <1>9, <1>10, <1>11,
     <1>12, <1>13, <1>14, <1>15, <1>16, <1>17, <1>18, <1>19
     DEF Next, Receiver

LEMMA IInvAlways == Spec => []IInv
<1>1. Init => IInv
  BY PgCdcAssumption DEF PgCdcAssumption, Init, IInv, WalInv, Safe, NoHole,
     Committed, Carried, IsStored
<1>2. QED
  BY <1>1, TypeCorrect, IInvStep, PTL DEF Spec

\* The slot never passes a transaction the gateway has not stored whole:
\* `settle` may advance it after any interleaving of peeks, acknowledgements,
\* releases, failed advances, reconnects, restarts and slot losses.
THEOREM SlotBehindStoredAlways == Spec => []SlotBehindStored
<1>1. IInv => SlotBehindStored
  BY DEF IInv, Safe, SlotBehindStored
<1>2. QED
  BY <1>1, IInvAlways, PTL

----------------------------------------------------------------------------
(***************************************************************************)
(* The second invariant relates what was handed out to the WAL: each       *)
(* change is one transaction's and precedes its COMMIT, and only committed *)
(* changes leave the watch.                                                *)
(***************************************************************************)
ChangesInv ==
  /\ \A x \in Tx : \A l \in changes[x] : l < walEnd
  /\ \A x \in Committed : \A l \in changes[x] : l < commitEnd[x]
  /\ \A x, y \in Tx : \A l \in changes[x] : l \in changes[y] => x = y
  /\ slot # 0 => base <= slot

HandedOutInv == deliveries \subseteq Published /\ inFlight \subseteq Published

DInv == ChangesInv /\ DeliveryOwned /\ HandedOutInv

LEMMA DInvStep == TypeOK /\ IInv /\ DInv /\ [Next]_vars => DInv'
<1> SUFFICES ASSUME TypeOK, IInv, DInv, [Next]_vars PROVE DInv'
  OBVIOUS
<1> USE DEF pgVars, progressVars, localVars, gatewayVars
<1>1. ChangesInv'
  <2> USE DEF DInv, ChangesInv, Committed
  <2>1. ASSUME NEW x \in Tx, Write(x) PROVE ChangesInv'
    BY <2>1 DEF Write, TypeOK
  <2>2. ASSUME NEW x \in Tx, Commit(x) PROVE ChangesInv'
    BY <2>2 DEF Commit, TypeOK
  <2>3. CASE DropSlot \/ Connect \/ ConnectFails \/ AdvanceSlot \/ AdvanceFails
    <3>1. UNCHANGED <<walEnd, changes, commitEnd>>
      BY ONLY <2>3 DEF DropSlot, Connect, ConnectFails, AdvanceSlot, AdvanceFails
    <3>2. CASE slot' \in {0, slot} /\ base' = base
      BY <3>1, <3>2
    <3>3. CASE slot' = walEnd /\ base' = walEnd
      BY <3>1, <3>3 DEF TypeOK
    <3>4. CASE slot # 0 /\ slot <= to /\ slot' = to /\ base' = base
      BY <3>1, <3>4 DEF TypeOK
    <3>5. QED
      BY <2>3, <3>2, <3>3, <3>4
         DEF DropSlot, Connect, ConnectFails, AdvanceSlot, AdvanceFails
  <2>4. CASE UNCHANGED pgVars
    BY <2>4
  <2>5. QED
    BY ZenonT(30), <2>1, <2>2, <2>3, <2>4
       DEF Next, Receiver, Receive, PeekRound, PeekFails, Deliver,
       SettleAdvance, SettleRetry, SettleNothing, Store, Ack, Release,
       Restart, vars
<1>2. DeliveryOwned'
  <2> USE DEF DInv, DeliveryOwned
  <2>1. ASSUME NEW x \in Tx, Write(x) PROVE DeliveryOwned'
    BY <2>1 DEF Write, TypeOK
  <2>2. CASE Deliver
    <3>1. \A l \in Delivering(messages) :
            \E x \in messages : l \in changes[x] /\ l >= consumed
      BY DEF Delivering, NewChanges, IsNew
    <3>2. \A l \in Delivering(messages) :
            \E x \in messages : l \in changes[x] /\ commitEnd[x] > consumed
      BY <3>1 DEF IInv, ChangesInv, Committed, TypeOK
    <3>3. QED
      BY ZenonT(30), <2>2, <3>2 DEF Deliver
  <2>3. CASE SettleAdvance
    BY <2>3 DEF SettleAdvance, Consume
  <2>4. CASE Connect \/ Restart
    BY <2>4 DEF Connect, Restart, ResetProgress
  <2>5. ASSUME NEW l \in Lsn, Release(l) PROVE DeliveryOwned'
    BY <2>5 DEF Release
  <2>6. CASE UNCHANGED <<changes, delivered, transactions>>
    BY <2>6
  <2>7. QED
    BY ZenonT(30), <2>1, <2>2, <2>3, <2>4, <2>5, <2>6
       DEF Next, Receiver, Commit, DropSlot,
       ConnectFails, Receive, PeekRound, PeekFails, SettleRetry, SettleNothing,
       AdvanceSlot, AdvanceFails, Store, Ack, vars
<1>3. HandedOutInv'
  <2>1. Published \subseteq Published'
    <3>1. ASSUME NEW x \in Tx, Write(x) PROVE Published \subseteq Published'
      BY <3>1 DEF Write, Published, Committed, TypeOK
    <3>2. ASSUME NEW x \in Tx, Commit(x) PROVE Published \subseteq Published'
      BY <3>2 DEF Commit, Published, Committed, TypeOK
    <3>3. CASE UNCHANGED <<changes, commitEnd>>
      BY <3>3 DEF Published, Committed
    <3>4. QED
      BY ZenonT(30), <3>1, <3>2, <3>3
         DEF Next, Receiver, DropSlot, Connect, ConnectFails,
         Receive, PeekRound, PeekFails, Deliver, SettleAdvance, SettleRetry,
         SettleNothing, AdvanceSlot, AdvanceFails, Store, Ack, Release, Restart,
         vars
  <2>2. Delivering(messages) \subseteq Published
    BY DEF Delivering, NewChanges, Published, IInv
  <2>3. deliveries' \subseteq deliveries \cup Delivering(messages)
    BY ZenonT(30) DEF Next, Receiver, Write, Commit, DropSlot, Connect, ConnectFails,
       Receive, PeekRound, PeekFails, Deliver, SettleAdvance, SettleRetry,
       SettleNothing, AdvanceSlot, AdvanceFails, Return, Store, Ack, Release,
       Restart, vars
  <2>4. inFlight' \subseteq inFlight \cup deliveries
    BY ZenonT(30) DEF Next, Receiver, Write, Commit, DropSlot, Connect, ConnectFails,
       Receive, PeekRound, PeekFails, Deliver, SettleAdvance, SettleRetry,
       SettleNothing, AdvanceSlot, AdvanceFails, Return, Store, Ack, Release,
       Restart, vars
  <2>5. QED
    BY <2>1, <2>2, <2>3, <2>4 DEF HandedOutInv, DInv
<1>4. QED
  BY <1>1, <1>2, <1>3 DEF DInv

LEMMA DInvAlways == Spec => []DInv
<1>1. Init => DInv
  BY PgCdcAssumption DEF PgCdcAssumption, Init, DInv, ChangesInv, DeliveryOwned,
     HandedOutInv, Committed
<1>2. QED
  BY <1>1, TypeCorrect, IInvAlways, DInvStep, PTL DEF Spec

\* Every change in `delivered` has its transaction in `transactions`, so `ack`
\* never drops an acknowledgement of the present session.
THEOREM DeliveryOwnedAlways == Spec => []DeliveryOwned
BY DInvAlways, PTL DEF DInv

----------------------------------------------------------------------------
(* The watch implements the at-least-once queue.                            *)

LEMMA QueueInit == Init => Queue!Init
BY DEF Init, Queue!Init, Owed, Published, Committed

\* A commit publishes the transaction's changes, once.
LEMMA CommitPublishes ==
  ASSUME TypeOK, IInv, DInv, NEW x \in Tx, Commit(x)
  PROVE  Queue!Publish(changes[x])
<1> USE DEF Commit, TypeOK, Committed
<1>1. changes[x] \cap Published = {}
  BY DEF DInv, ChangesInv, Published
<1>2. Published' = Published \cup changes[x]
  BY DEF Published
<1>3. Readable' = Readable \cup {x} /\ UNCHANGED changes
  BY DEF Readable, IInv, WalInv
<1>4. Owed' = IF slot # 0 THEN Owed \cup changes[x] ELSE Owed
  <2>1. UNION {changes[y] : y \in Readable \cup {x}}
          = (UNION {changes[y] : y \in Readable}) \cup changes[x]
    OBVIOUS
  <2>2. UNCHANGED slot
    OBVIOUS
  <2>3. QED
    BY ZenonT(30), <1>3, <2>1, <2>2 DEF Owed
<1>5. QED
  BY <1>1, <1>2, <1>4 DEF Queue!Publish, gatewayVars

\* Moving the slot up to `to` drops stored changes only.
LEMMA AdvanceConfirms ==
  ASSUME TypeOK, IInv, DInv, slot # 0, slot <= to, slot' = to,
         UNCHANGED <<changes, commitEnd, stored>>
  PROVE  Queue!Confirm(Owed \ Owed')
<1> DEFINE S == {x \in Readable : commitEnd[x] <= to}
<1>1. to # 0 /\ Readable \subseteq Tx
  BY DEF TypeOK, Readable, Committed
<1>2. Readable' = Readable \ S
  BY DEF Readable, Committed, TypeOK
<1>3. \A x \in S : changes[x] \subseteq stored
  BY DEF IInv, Safe, Carried, IsStored, Readable, DInv, ChangesInv, TypeOK,
         Committed
<1>4. Owed = UNION {changes[x] : x \in Readable}
      /\ Owed' = UNION {changes[x] : x \in Readable \ S}
  BY <1>1, <1>2 DEF Owed
<1> HIDE DEF S
<1>5. Owed' \subseteq Owed /\ Owed \ Owed' \subseteq stored
  BY <1>3, <1>4
<1>6. UNCHANGED Published
  BY DEF Published, Committed
<1>7. (slot # 0)' = (slot # 0)
  BY <1>1
<1>8. QED
  BY <1>5, <1>6, <1>7 DEF Queue!Confirm

LEMMA QueueStep ==
  TypeOK /\ IInv /\ DInv /\ [Next]_vars => [Queue!Next]_(Queue!vars)
<1> SUFFICES ASSUME TypeOK, IInv, DInv, [Next]_vars
             PROVE  Queue!Next \/ UNCHANGED Queue!vars
  OBVIOUS
<1> USE DEF pgVars, progressVars, localVars, gatewayVars
<1>1. ASSUME NEW x \in Tx, Write(x) PROVE UNCHANGED Queue!vars
  <2>1. Committed' = Committed /\ Readable' = Readable
        /\ \A y \in Committed : changes'[y] = changes[y]
    BY <1>1 DEF Write, Committed, Readable, TypeOK
  <2>2. UNCHANGED <<Published, Owed>>
    <3>1. UNCHANGED Published
      BY <2>1 DEF Published
    <3>2. UNCHANGED slot
      BY <1>1 DEF Write
    <3>3. Readable \subseteq Committed
      BY DEF Readable
    <3>4. UNCHANGED Owed
      BY ZenonT(30), <2>1, <3>2, <3>3 DEF Owed
    <3>5. QED
      BY <3>1, <3>4
  <2>3. QED
    BY <1>1, <2>2 DEF Write, Queue!vars
<1>2. ASSUME NEW x \in Tx, Commit(x) PROVE Queue!Next
  <2>1. changes[x] \in SUBSET Lsn
    BY DEF TypeOK
  <2>2. QED
    BY <1>2, <2>1, CommitPublishes DEF Queue!Next
<1>3. CASE DropSlot
  BY <1>3 DEF DropSlot, Queue!Next, Queue!Lose, Owed, Published, Committed
<1>4. ASSUME slot = 0, slot' = walEnd, UNCHANGED <<changes, commitEnd, stored>>
      PROVE  Queue!Next
  <2>1. Readable' = {}
    BY <1>4 DEF Readable, Committed, IInv, WalInv, TypeOK
  <2>2. walEnd # 0
    BY DEF TypeOK
  <2>3. Owed' = {} /\ UNCHANGED Published
    BY <1>4, <2>1 DEF Owed, Published, Committed
  <2>4. QED
    BY <1>4, <2>2, <2>3 DEF Queue!Next, Queue!Open
<1>5. ASSUME slot # 0, slot <= to, slot' = to,
             UNCHANGED <<changes, commitEnd, stored>>
      PROVE  Queue!Next
  <2>1. Owed \ Owed' \in SUBSET Lsn
    BY DEF Owed, Readable, Committed, TypeOK
  <2>2. QED
    BY <1>5, <2>1, AdvanceConfirms DEF Queue!Next
<1>6. ASSUME NEW l \in Lsn, Store(l) PROVE Queue!Next
  <2>1. l \in Published
    BY <1>6 DEF Store, DInv, HandedOutInv
  <2>2. UNCHANGED <<slot, Published, Owed>>
    BY <1>6 DEF Store, Published, Owed, Readable, Committed
  <2>3. QED
    BY <1>6, <2>1, <2>2 DEF Store, Queue!Next, Queue!Store
<1>7. ASSUME UNCHANGED <<slot, changes, commitEnd, stored>>
      PROVE  UNCHANGED Queue!vars
  BY <1>7 DEF Queue!vars, Published, Owed, Readable, Committed
<1>8. CASE Connect
  BY <1>4, <1>7, <1>8 DEF Connect
<1>9. CASE ConnectFails
  BY <1>4, <1>7, <1>9 DEF ConnectFails
<1>10. CASE AdvanceSlot
  BY <1>5, <1>10 DEF AdvanceSlot
<1>11. CASE AdvanceFails
  BY <1>5, <1>7, <1>11 DEF AdvanceFails
<1>12. QED
  BY ZenonT(30), <1>1, <1>2, <1>3, <1>6, <1>7, <1>8, <1>9, <1>10, <1>11
     DEF Next, Receiver, Receive, PeekRound, PeekFails, Deliver, SettleAdvance,
         SettleRetry, SettleNothing, Ack, Release, Restart, vars

\* The `postgres_cdc` watch implements an at-least-once queue: a change
\* leaves the slot only when it is stored, or when the slot is lost.
THEOREM WatchImplementsQueue == Spec => ImplementsQueue
<1>1. Spec => []TypeOK /\ []IInv /\ []DInv
  BY TypeCorrect, IInvAlways, DInvAlways, PTL
<1>2. QED
  BY <1>1, QueueInit, QueueStep, PTL DEF Spec, ImplementsQueue, Queue!Spec
----------------------------------------------------------------------------
(***************************************************************************)
(* Changes are first handed out in commit order.  What was handed out, or  *)
(* is about to be, contains what is stored or marked as delivered, so a    *)
(* peek leaves out nothing the gateway never had: a change below           *)
(* `consumed` is stored when the WAL is serial, because `consumed` is the  *)
(* end of a transaction.                                                   *)
(***************************************************************************)

\* S holds every change that comes before one of its own.
Ordered(S) ==
  Serial =>
    \A x, y \in Committed : \A l \in changes[x], m \in changes[y] :
      Carried(x) /\ Before(l, m) /\ m \in S => l \in S

Known == emitted \cup deliveries

KnownInv ==
  /\ stored \subseteq emitted /\ inFlight \subseteq emitted
  /\ delivered \subseteq Known /\ Known \subseteq Published
  /\ pc \notin {"settle", "advance"} => deliveries = {}

ConsumedInv == consumed # 0 => \E z \in Committed : consumed = commitEnd[z]

FInv == KnownInv /\ ConsumedInv /\ Ordered(emitted) /\ Ordered(Known)

LEMMA KnownStep == TypeOK /\ IInv /\ DInv /\ KnownInv /\ [Next]_vars => KnownInv'
<1> SUFFICES ASSUME TypeOK, IInv, DInv, KnownInv, [Next]_vars PROVE KnownInv'
  OBVIOUS
<1> USE DEF pgVars, progressVars, localVars, gatewayVars
<1>1. Published \subseteq Published'
  <2>1. ASSUME NEW x \in Tx, Write(x) PROVE Published \subseteq Published'
    BY <2>1 DEF Write, Published, Committed, TypeOK
  <2>2. ASSUME NEW x \in Tx, Commit(x) PROVE Published \subseteq Published'
    BY <2>2 DEF Commit, Published, Committed, TypeOK
  <2>3. CASE UNCHANGED <<changes, commitEnd>>
    BY <2>3 DEF Published, Committed
  <2>4. QED
    BY ZenonT(30), <2>1, <2>2, <2>3
       DEF Next, Receiver, DropSlot, Connect, ConnectFails,
       Receive, PeekRound, PeekFails, Deliver, SettleAdvance, SettleRetry,
       SettleNothing, AdvanceSlot, AdvanceFails, Store, Ack, Release, Restart,
       vars
<1>2. CASE Deliver
  <2>1. Delivering(messages) \subseteq Published
    BY DEF Delivering, NewChanges, Published, IInv
  <2>2. UNCHANGED <<stored, emitted, inFlight>> /\ pc' = "settle" /\ deliveries = {}
        /\ deliveries' = Delivering(messages)
        /\ delivered' = delivered \cup Delivering(messages)
    BY <1>2 DEF Deliver, KnownInv
  <2>3. QED
    BY <1>1, <2>1, <2>2 DEF KnownInv, Known
<1>3. ASSUME Return, UNCHANGED <<delivered, stored>> PROVE KnownInv'
  BY <1>1, <1>3 DEF Return, KnownInv, Known
<1>4. ASSUME UNCHANGED <<emitted, deliveries>>, inFlight' \subseteq inFlight,
             delivered' \subseteq delivered, stored' \subseteq stored \cup inFlight,
             pc' = pc \/ pc' \in {"settle", "advance"}
                      \/ pc \notin {"settle", "advance"}
      PROVE  KnownInv'
  BY <1>1, <1>4 DEF KnownInv, Known
<1>5. CASE Restart
  BY <1>1, <1>5 DEF Restart, ResetProgress, KnownInv, Known
<1>6. CASE Connect
  BY <1>4, <1>6 DEF Connect, ResetProgress
<1>7. CASE SettleAdvance
  BY SMTT(30), <1>4, <1>7 DEF SettleAdvance, Consume
<1>8. ASSUME NEW l \in Lsn, Store(l) \/ Ack(l) \/ Release(l) PROVE KnownInv'
  BY <1>4, <1>8 DEF Store, Ack, Release
<1>9. CASE SettleNothing \/ AdvanceSlot \/ AdvanceFails
  BY ZenonT(30), <1>3, <1>9 DEF SettleNothing, AdvanceSlot, AdvanceFails
<1>10. CASE SettleRetry \/ PeekRound \/ PeekFails \/ (\E n \in 1..MaxInFlight : Receive(n))
  BY <1>4, <1>10 DEF SettleRetry, PeekRound, PeekFails, Receive
<1>11. CASE UNCHANGED <<emitted, deliveries, inFlight, delivered, stored, pc>>
  BY <1>4, <1>11
<1>12. QED
  BY ZenonT(30), <1>2, <1>5, <1>6, <1>7, <1>8, <1>9, <1>10, <1>11
     DEF Next, Receiver, Write, Commit, DropSlot, ConnectFails, vars

LEMMA ConsumedStep == TypeOK /\ IInv /\ ConsumedInv /\ [Next]_vars => ConsumedInv'
<1> SUFFICES ASSUME TypeOK, IInv, ConsumedInv, [Next]_vars PROVE ConsumedInv'
  OBVIOUS
<1> USE DEF pgVars, progressVars, localVars, gatewayVars
<1>1. ASSUME NEW x \in Tx, Commit(x) PROVE ConsumedInv'
  BY <1>1 DEF Commit, ConsumedInv, Committed, TypeOK
<1>2. CASE SettleAdvance
  <2>1. PICK last \in Leading : consumed' = MaxOf(consumed, commitEnd[last])
    BY SMTT(30), <1>2 DEF SettleAdvance
  <2>2. last \in Committed /\ UNCHANGED commitEnd
    BY Zenon, <1>2 DEF SettleAdvance, Leading, IInv
  <2>3. QED
    BY <2>1, <2>2 DEF ConsumedInv, Committed, MaxOf
<1>3. CASE Connect \/ Restart
  BY <1>3 DEF Connect, Restart, ResetProgress, ConsumedInv
<1>4. CASE UNCHANGED <<consumed, commitEnd>>
  BY <1>4 DEF ConsumedInv, Committed
<1>5. QED
  BY ZenonT(30), <1>1, <1>2, <1>3, <1>4
     DEF Next, Receiver, Write, DropSlot, ConnectFails, Receive, PeekRound,
         PeekFails, Deliver, SettleRetry, SettleNothing, AdvanceSlot,
         AdvanceFails, Store, Ack, Release, vars

\* The order of a peek is that of the COMMITs, then of the LSNs.
LEMMA BeforeMeans ==
  ASSUME TypeOK, DInv, NEW x \in Committed, NEW y \in Committed,
         NEW l \in changes[x], NEW m \in changes[y]
  PROVE  Before(l, m) <=> commitEnd[x] < commitEnd[y] \/ (x = y /\ l < m)
<1>1. \A a, b \in Committed : l \in changes[a] /\ m \in changes[b] => a = x /\ b = y
  BY Zenon DEF DInv, ChangesInv, Committed
<1>2. QED
  BY Zenon, <1>1 DEF Before

LEMMA BeforeTransitive ==
  ASSUME TypeOK, DInv, NEW x \in Committed, NEW y \in Committed, NEW z \in Committed,
         NEW k \in changes[x], NEW l \in changes[y], NEW m \in changes[z],
         Before(k, l), Before(l, m)
  PROVE  Before(k, m)
<1>1. {commitEnd[x], commitEnd[y], commitEnd[z], k, l, m} \subseteq Nat
  BY PgCdcAssumption DEF PgCdcAssumption, TypeOK, Committed
<1>2. /\ commitEnd[x] < commitEnd[y] \/ (x = y /\ k < l)
      /\ commitEnd[y] < commitEnd[z] \/ (y = z /\ l < m)
  BY Zenon, BeforeMeans
<1>3. commitEnd[x] < commitEnd[z] \/ (x = z /\ k < m)
  BY <1>1, <1>2
<1>4. QED
  BY Zenon, <1>3, BeforeMeans

\* In a serial WAL a change below `consumed` that the slot carries is stored.
LEMMA ConsumedStored ==
  ASSUME TypeOK, IInv, ConsumedInv, Serial,
         NEW x \in Committed, Carried(x), NEW l \in changes[x], l < consumed
  PROVE  l \in stored
<1>1. consumed # 0
  BY PgCdcAssumption DEF PgCdcAssumption, TypeOK, Committed
<1>2. PICK z \in Committed : consumed = commitEnd[z]
  BY Zenon, <1>1 DEF ConsumedInv
<1>3. commitEnd[x] <= consumed
  BY Zenon, <1>2 DEF Serial, Committed
<1>4. IsStored(x)
  BY Zenon, <1>3 DEF IInv, Safe
<1>5. QED
  BY <1>4 DEF IsStored

\* The first `max` new changes of a peek leave out none that comes before one
\* of them.
LEMMA DeliveringOrdered ==
  ASSUME TypeOK, IInv, DInv, FInv, Serial, pc = "deliver",
         NEW x \in Committed, NEW y \in Committed, NEW l \in changes[x], NEW m \in changes[y],
         Carried(x), Before(l, m), m \in Delivering(messages)
  PROVE  l \in emitted \cup Delivering(messages)
<1>1. messages \subseteq Committed /\ messages \subseteq Tx
  BY DEF IInv, Committed
<1>2. y \in messages
  <2>1. PICK b \in messages : m \in changes[b]
    BY Zenon DEF Delivering, NewChanges
  <2>2. QED
    BY Zenon, <1>1, <2>1 DEF DInv, ChangesInv, Committed
<1>3. commitEnd[x] <= commitEnd[y]
  <2>1. commitEnd[x] < commitEnd[y] \/ x = y
    BY Zenon, BeforeMeans
  <2>2. commitEnd[x] \in Nat /\ commitEnd[y] \in Nat
    BY PgCdcAssumption DEF PgCdcAssumption, TypeOK, Committed
  <2>3. QED
    BY <2>1, <2>2
<1>4. x \in messages \/ l \in stored
  BY Zenon, <1>2, <1>3 DEF IInv, NoHole, IsStored
<1>5. CASE l \in stored
  BY <1>5 DEF FInv, KnownInv
<1>6. CASE x \in messages /\ l \notin stored
  <2>1. CASE l \in delivered
    BY <2>1 DEF FInv, KnownInv, Known
  <2>2. CASE l \notin delivered
    <3>1. ~(l < consumed)
      BY Zenon, <1>6, ConsumedStored DEF FInv
    <3>2. l \in Nat /\ consumed \in Nat
      BY PgCdcAssumption DEF PgCdcAssumption, TypeOK, Committed
    <3>3. IsNew(l)
      BY <2>2, <3>1, <3>2 DEF IsNew
    <3>4. l \in NewChanges(messages)
      BY Zenon, <1>6, <3>3 DEF NewChanges
    <3> DEFINE A == {k \in NewChanges(messages) : Before(k, l)}
               B == {k \in NewChanges(messages) : Before(k, m)}
    <3>5. A \subseteq B
      <4>1. ASSUME NEW k \in NewChanges(messages), Before(k, l) PROVE Before(k, m)
        <5>1. PICK w \in Committed : k \in changes[w]
          BY Zenon, <1>1 DEF NewChanges
        <5>2. QED
          BY Zenon, <4>1, <5>1, BeforeTransitive
      <4>2. QED
        BY Zenon, <4>1
    <3>6. A \in SUBSET Lsn /\ B \in SUBSET Lsn
      BY <1>1 DEF NewChanges, TypeOK
    <3>7. Cardinality(B) < max
      BY Zenon DEF Delivering
    <3>8. max \in Nat
      BY PgCdcAssumption DEF PgCdcAssumption, TypeOK
    <3> HIDE DEF A, B
    <3>9. Cardinality(A) <= Cardinality(B)
      BY Zenon, <3>5, <3>6, LsnFinite, FS_Subset
    <3>10. Cardinality(A) \in Nat /\ Cardinality(B) \in Nat
      BY Zenon, <3>6, LsnFinite
    <3>11. Cardinality(A) < max
      BY <3>7, <3>8, <3>9, <3>10
    <3>12. l \in Delivering(messages)
      BY Zenon, <3>4, <3>11 DEF Delivering, A
    <3>13. QED
      BY <3>12
  <2>3. QED
    BY <2>1, <2>2
<1>7. QED
  BY SMTT(30), <1>4, <1>5, <1>6

\* While nothing commits, an ordered set stays so: a transaction that is open
\* makes the WAL at most less serial, and a new slot carries nothing yet.
LEMMA OrderedKept ==
  ASSUME TypeOK, IInv, NEW S, Ordered(S), UNCHANGED commitEnd,
         \A x \in Committed : changes'[x] = changes[x],
         \A x \in Tx : changes[x] \subseteq changes'[x],
         base' \in {base, walEnd}
  PROVE  Serial' => \A x, y \in Committed : \A l \in changes[x], m \in changes[y] :
                      Carried(x)' /\ Before(l, m) /\ m \in S => l \in S
<1> SUFFICES ASSUME Serial', NEW x \in Committed, NEW y \in Committed,
                    NEW l \in changes[x], NEW m \in changes[y],
                    Carried(x)', Before(l, m), m \in S
             PROVE  l \in S
  BY Zenon
<1>1. Serial
  <2> SUFFICES ASSUME NEW a \in Tx, NEW b \in Committed, NEW k \in changes[a],
                      k < commitEnd[b]
               PROVE  a \in Committed /\ commitEnd[a] <= commitEnd[b]
    BY Zenon DEF Serial
  <2>1. b \in Committed' /\ k \in changes'[a] /\ k < commitEnd'[b]
    BY Zenon DEF Committed
  <2>2. a \in Committed' /\ commitEnd'[a] <= commitEnd'[b]
    BY Zenon, <2>1 DEF Serial
  <2>3. QED
    BY Zenon, <2>2 DEF Committed
<1>2. Carried(x)
  <2>1. commitEnd[x] <= walEnd /\ commitEnd[x] \in Nat /\ walEnd \in Nat /\ base \in Nat
    BY Zenon, CommitsInWal
  <2>2. commitEnd[x] > base'
    BY Zenon DEF Carried
  <2>3. base' = base
    BY <2>1, <2>2
  <2>4. QED
    BY SMTT(30), <2>2, <2>3 DEF Carried
<1>3. QED
  BY Zenon, <1>1, <1>2 DEF Ordered

\* A transaction that commits comes after all that was handed out.
LEMMA OrderedAfterCommit ==
  ASSUME TypeOK, IInv, DInv, NEW S, S \subseteq Published, Ordered(S),
         NEW t \in Tx, Commit(t)
  PROVE  Ordered(S)'
<1>1. /\ commitEnd[t] = 0 /\ UNCHANGED <<changes, base>>
      /\ commitEnd' = [commitEnd EXCEPT ![t] = walEnd + 1]
  BY DEF Commit
<1>2. /\ Committed \subseteq Tx /\ t \notin Committed
      /\ Committed' = Committed \cup {t}
      /\ \A x \in Committed : commitEnd'[x] = commitEnd[x] /\ x # t
      /\ commitEnd'[t] = walEnd + 1
  BY <1>1 DEF Committed, TypeOK
<1>3. \A x \in Committed : commitEnd[x] <= walEnd /\ commitEnd[x] \in Nat /\ walEnd \in Nat
  BY Zenon, CommitsInWal
<1>4. \A x \in Committed : ~(commitEnd'[t] <= commitEnd'[x]) /\ ~(commitEnd'[t] < commitEnd'[x])
  BY <1>2, <1>3
<1> SUFFICES ASSUME Serial', NEW x \in Committed', NEW y \in Committed',
                    NEW l \in changes[x], NEW m \in changes[y],
                    Carried(x)', Before(l, m)', m \in S
             PROVE  l \in S
  BY Zenon, <1>1 DEF Ordered
<1>5. y \in Committed
  <2>1. PICK z \in Committed : m \in changes[z]
    BY Zenon DEF Published
  <2>2. y \in Tx /\ z \in Tx
    BY Zenon, <1>2
  <2>3. QED
    BY Zenon, <2>1, <2>2 DEF DInv, ChangesInv
<1>6. commitEnd'[x] < commitEnd'[y] \/ (x = y /\ l < m)
  <2>1. \A a, b \in Tx : l \in changes[a] /\ m \in changes[b] => a = x /\ b = y
    BY Zenon, <1>2 DEF DInv, ChangesInv
  <2>2. PICK a \in Committed', b \in Committed' :
          /\ l \in changes[a] /\ m \in changes[b]
          /\ commitEnd'[a] < commitEnd'[b] \/ (a = b /\ l < m)
    BY Zenon, <1>1 DEF Before
  <2>3. a \in Tx /\ b \in Tx
    BY Zenon, <1>2
  <2>4. QED
    BY Zenon, <2>1, <2>2, <2>3
<1>7. x \in Committed
  BY Zenon, <1>2, <1>4, <1>5, <1>6
<1>8. Before(l, m)
  BY Zenon, <1>2, <1>5, <1>6, <1>7 DEF Before
<1>9. Carried(x)
  BY Zenon, <1>1, <1>2, <1>7 DEF Carried
<1>10. Serial
  <2> SUFFICES ASSUME NEW a \in Tx, NEW b \in Committed, NEW k \in changes[a],
                      k < commitEnd[b]
               PROVE  a \in Committed /\ commitEnd[a] <= commitEnd[b]
    BY Zenon DEF Serial
  <2>1. b \in Committed' /\ k \in changes'[a] /\ k < commitEnd'[b]
    BY Zenon, <1>1, <1>2
  <2>2. a \in Committed' /\ commitEnd'[a] <= commitEnd'[b]
    BY Zenon, <2>1 DEF Serial
  <2>3. a \in Committed
    BY Zenon, <1>2, <1>4, <2>2
  <2>4. QED
    BY Zenon, <1>2, <2>2, <2>3
<1>11. QED
  BY Zenon, <1>5, <1>7, <1>8, <1>9, <1>10 DEF Ordered

\* Every step but a COMMIT keeps an ordered set ordered.
LEMMA OrderedStep ==
  ASSUME TypeOK, IInv, DInv, NEW S, S \subseteq Published, Ordered(S), [Next]_vars
  PROVE  Serial' => \A x, y \in Committed' : \A l \in changes'[x], m \in changes'[y] :
                      Carried(x)' /\ Before(l, m)' /\ m \in S => l \in S
<1> USE DEF pgVars, progressVars, localVars, gatewayVars
<1>1. ASSUME NEW t \in Tx, Commit(t)
      PROVE  Serial' => \A x, y \in Committed' : \A l \in changes'[x], m \in changes'[y] :
                          Carried(x)' /\ Before(l, m)' /\ m \in S => l \in S
  BY Zenon, <1>1, OrderedAfterCommit DEF Ordered
<1>2. CASE /\ UNCHANGED commitEnd
           /\ \A x \in Committed : changes'[x] = changes[x]
           /\ \A x \in Tx : changes[x] \subseteq changes'[x]
           /\ base' \in {base, walEnd}
  <2>1. Committed' = Committed
    BY Zenon, <1>2 DEF Committed
  <2>2. \A l, m : Before(l, m)' => Before(l, m)
    BY Zenon, <1>2, <2>1 DEF Before
  <2>3. Serial' => \A x, y \in Committed : \A l \in changes[x], m \in changes[y] :
                     Carried(x)' /\ Before(l, m) /\ m \in S => l \in S
    BY Zenon, <1>2, OrderedKept
  <2>4. QED
    BY Zenon, <1>2, <2>1, <2>2, <2>3
<1>3. ASSUME NEW t \in Tx, Write(t)
      PROVE  /\ UNCHANGED commitEnd
             /\ \A x \in Committed : changes'[x] = changes[x]
             /\ \A x \in Tx : changes[x] \subseteq changes'[x]
             /\ base' \in {base, walEnd}
  BY <1>3 DEF Write, Committed, TypeOK
<1>4. CASE UNCHANGED <<commitEnd, changes>> /\ base' \in {base, walEnd}
  BY Zenon, <1>2, <1>4
<1>5. QED
  BY ZenonT(30), <1>1, <1>2, <1>3, <1>4
     DEF Next, Receiver, DropSlot, Connect, ConnectFails, Receive, PeekRound,
         PeekFails, Deliver, SettleAdvance, SettleRetry, SettleNothing,
         AdvanceSlot, AdvanceFails, Store, Ack, Release, Restart, vars

LEMMA FInvStep == TypeOK /\ IInv /\ DInv /\ FInv /\ [Next]_vars => FInv'
<1> SUFFICES ASSUME TypeOK, IInv, DInv, FInv, [Next]_vars PROVE FInv'
  OBVIOUS
<1> USE DEF pgVars, progressVars, localVars, gatewayVars
<1>1. KnownInv' /\ ConsumedInv'
  BY Zenon, KnownStep, ConsumedStep DEF FInv
<1>2. Ordered(emitted) /\ Ordered(Known) /\ emitted \subseteq Published /\ Known \subseteq Published
  BY DEF FInv, KnownInv, Known
<1>3. PICK e : e = emitted
  OBVIOUS
<1>4. PICK k : k = Known
  OBVIOUS
<1>5. e \subseteq Published /\ Ordered(e) /\ k \subseteq Published /\ Ordered(k)
  BY Zenon, <1>2, <1>3, <1>4 DEF Ordered
<1>6. /\ Serial' => \A x, y \in Committed' : \A l \in changes'[x], m \in changes'[y] :
                      Carried(x)' /\ Before(l, m)' /\ m \in e => l \in e
      /\ Serial' => \A x, y \in Committed' : \A l \in changes'[x], m \in changes'[y] :
                      Carried(x)' /\ Before(l, m)' /\ m \in k => l \in k
  BY Zenon, <1>5, OrderedStep
<1>7. ASSUME emitted' \in {e, k}, Known' \in {e, k}
      PROVE  Ordered(emitted)' /\ Ordered(Known)'
  BY Zenon, <1>6, <1>7 DEF Ordered
<1>8. CASE Deliver
  <2>1. UNCHANGED <<commitEnd, changes, base, emitted>> /\ deliveries' = Delivering(messages)
        /\ pc = "deliver"
    BY <1>8 DEF Deliver
  <2>2. Committed' = Committed /\ (Serial' <=> Serial)
        /\ (\A x \in Tx : Carried(x)' <=> Carried(x))
        /\ (\A l, m : Before(l, m)' <=> Before(l, m))
    BY Zenon, <2>1 DEF Committed, Serial, Carried, Before
  <2>3. Ordered(emitted)'
    BY Zenon, <1>3, <1>6, <2>1 DEF Ordered
  <2>4. Ordered(Known)'
    <3> SUFFICES ASSUME Serial', NEW x \in Committed', NEW y \in Committed',
                        NEW l \in changes'[x], NEW m \in changes'[y],
                        Carried(x)', Before(l, m)', m \in Known'
                 PROVE  l \in Known'
      BY Zenon DEF Ordered
    <3>1. /\ Serial /\ x \in Committed /\ y \in Committed
          /\ l \in changes[x] /\ m \in changes[y] /\ x \in Tx
      BY Zenon, <2>1, <2>2 DEF Committed
    <3>2. Carried(x) /\ Before(l, m)
      BY Zenon, <2>2, <3>1
    <3>3. Known' = emitted \cup Delivering(messages)
      BY Zenon, <2>1 DEF Known
    <3>4. CASE m \in emitted
      BY Zenon, <1>2, <3>1, <3>2, <3>3, <3>4 DEF Ordered
    <3>5. CASE m \in Delivering(messages)
      BY Zenon, <2>1, <3>1, <3>2, <3>3, <3>5, DeliveringOrdered
    <3>6. QED
      BY Zenon, <3>3, <3>4, <3>5
  <2>5. QED
    BY Zenon, <1>1, <2>3, <2>4 DEF FInv
<1>9. CASE Return
  BY <1>1, <1>3, <1>4, <1>7, <1>9 DEF Return, Known, FInv
<1>10. CASE Restart
  BY <1>1, <1>3, <1>7, <1>10 DEF Restart, Known, FInv
<1>11. CASE UNCHANGED <<emitted, deliveries>>
  BY <1>1, <1>3, <1>4, <1>7, <1>11 DEF Known, FInv
<1>12. QED
  BY ZenonT(30), <1>8, <1>9, <1>10, <1>11
     DEF Next, Receiver, Write, Commit, DropSlot, Connect, ConnectFails, Receive,
         PeekRound, PeekFails, SettleAdvance, SettleRetry, SettleNothing,
         AdvanceSlot, AdvanceFails, Store, Ack, Release, vars

\* In a serial WAL, changes are first handed out in commit order, for any
\* transactions, sizes of a peek and interleaving with acknowledgements,
\* releases, failures and restarts.
THEOREM FirstDeliveredInCommitOrder == Spec => []FirstDeliveryInCommitOrder
<1>1. Init => FInv
  BY DEF Init, FInv, KnownInv, ConsumedInv, Known, Ordered, Committed
<1>2. FInv => FirstDeliveryInCommitOrder
  BY Zenon DEF FInv, Ordered, FirstDeliveryInCommitOrder
<1>3. QED
  BY <1>1, <1>2, TypeCorrect, IInvAlways, DInvAlways, FInvStep, PTL DEF Spec
=============================================================================
