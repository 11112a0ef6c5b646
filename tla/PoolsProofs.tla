---------------------------- MODULE PoolsProofs ----------------------------
(* Theorems about PoolRegistry, for any callers, users and limits; about     *)
(* CircuitBreaker, for any number of callers and threshold; and about        *)
(* Placeholders, for texts of every length.                                  *)
EXTENDS Pools, Sequences, FiniteSetTheorems, WellFoundedInduction, TLAPS

\* The inductive invariant: the mutex is held by exactly the call that is
\* building, what it builds is missing from the registry, and every entry was
\* built with the credentials it is filed under.
IInv ==
  /\ pc \in [Caller -> Label]
  /\ DOMAIN bundle = Caller
  /\ DOMAIN pool = Caller
  /\ lock = {c \in Caller : pc[c] = "building"}
  /\ \A c, e \in Caller : pc[c] = "building" /\ pc[e] = "building" => c = e
  /\ \A c \in Caller : pc[c] = "building" => bundle[c] \notin DOMAIN pools
  /\ \A d \in DOMAIN pools : DOMAIN pools[d] = {"cred", "last_used"}
  /\ \A d \in DOMAIN pools : pools[d].cred = d
  /\ PoolMatchesCaller

LEMMA IInvInit == Init => IInv
  BY DEF Init, IInv, Label, PoolMatchesCaller

\* One step per action; only those that touch the registry, the lock or a
\* call's bundle can disturb the invariant.
LEMMA IInvStep == IInv /\ [Next]_vs => IInv'
<1> SUFFICES ASSUME IInv, [Next]_vs PROVE IInv'
  OBVIOUS
<1> USE DEF IInv, Label, PoolMatchesCaller, Digest
<1>1. ASSUME NEW c \in Caller, Step(c) PROVE IInv'
  <2>1. CASE Resolve(c)
    BY <2>1 DEF Resolve
  <2>2. CASE ReadClock(c)
    BY <2>2 DEF ReadClock
  <2>3. CASE Hit(c)
    BY <2>3 DEF Hit
  <2>4. CASE Miss(c)
    BY <2>4 DEF Miss
  <2>5. CASE BuildSucceeds(c)
    BY <2>5 DEF BuildSucceeds, Insert, Remove, Restrict
  <2>6. CASE BuildFails(c)
    BY <2>6 DEF BuildFails
  <2>7. CASE ResolveAgain(c)
    BY <2>7 DEF ResolveAgain
  <2>8. CASE Return(c)
    BY <2>8 DEF Return
  <2>9. QED
    BY <1>1, <2>1, <2>2, <2>3, <2>4, <2>5, <2>6, <2>7, <2>8 DEF Step
<1>2. ASSUME NEW u \in User, Revoke(u) PROVE IInv'
  BY <1>2 DEF Revoke
<1>3. CASE RotateSecret
  BY <1>3 DEF RotateSecret
<1>4. CASE Evict
  BY <1>4 DEF Evict, Remove, Restrict
<1>5. CASE SweepTick
  BY <1>5 DEF SweepTick
<1>6. CASE SweepIdle
  BY <1>6 DEF SweepIdle, Remove, Restrict
<1>7. CASE Tick
  BY <1>7 DEF Tick
<1>8. CASE UNCHANGED vs
  BY <1>8 DEF vs
<1>9. QED
  BY <1>1, <1>2, <1>3, <1>4, <1>5, <1>6, <1>7, <1>8 DEF Next

LEMMA IInvAlways == Spec => []IInv
  BY IInvInit, IInvStep, PTL DEF Spec

\* get_or_build never opens a second pool for a digest, neither beside one in
\* the registry nor beside one that is being opened.
THEOREM NoDuplicateConnectAlways == Spec => []NoDuplicateConnect
<1>1. IInv => NoDuplicateConnect
  BY DEF IInv, NoDuplicateConnect, Digest
<1>2. QED
  BY <1>1, IInvAlways, PTL

\* A call is only ever given a pool built with the credentials it resolved.
THEOREM PoolMatchesCallerAlways == Spec => []PoolMatchesCaller
<1>1. IInv => PoolMatchesCaller
  BY DEF IInv
<1>2. QED
  BY <1>1, IInvAlways, PTL

Bounded == IsFiniteSet(DOMAIN pools) /\ RegistryBounded

\* Removing entries keeps the registry within its limit.
LEMMA RemoveBounded ==
  ASSUME Bounded, NEW ds PROVE IsFiniteSet(DOMAIN Remove(ds))
                               /\ Cardinality(DOMAIN Remove(ds)) <= PoolMaxEntries
<1>1. DOMAIN Remove(ds) = DOMAIN pools \ ds
  BY DEF Remove, Restrict
<1>2. IsFiniteSet(DOMAIN pools \ ds)
      /\ Cardinality(DOMAIN pools \ ds) <= Cardinality(DOMAIN pools)
  BY FS_Subset DEF Bounded
<1>3. Cardinality(DOMAIN pools) \in Nat /\ Cardinality(DOMAIN pools \ ds) \in Nat
  BY <1>2, FS_CardinalityType DEF Bounded
<1>4. QED
  BY <1>1, <1>2, <1>3, PoolRegistryAssumption
     DEF Bounded, RegistryBounded, PoolRegistryAssumption

\* The LRU loop makes room before an entry goes in.
LEMMA InsertBounded ==
  ASSUME Bounded, NEW c \in Caller, BuildSucceeds(c) PROVE Bounded'
<1>1. PICK victims \in Victims : pools' = Insert(c, victims)
  BY DEF BuildSucceeds
<1> DEFINE kept == DOMAIN pools \ victims
<1>2. DOMAIN pools' = kept \cup {Digest(bundle[c])}
  BY <1>1 DEF Insert, Remove, Restrict
<1>3. IsFiniteSet(kept)
  BY FS_Subset DEF Bounded
<1>4. Cardinality(DOMAIN pools) \in Nat /\ Cardinality(kept) \in Nat
  BY <1>3, FS_CardinalityType DEF Bounded
<1>5. Cardinality(kept) < PoolMaxEntries
  <2>1. CASE Cardinality(DOMAIN pools) >= PoolMaxEntries
    <3>1. PICK d \in DOMAIN pools : victims = {d}
      BY <1>1, <2>1 DEF Victims, LruKeys
    <3>2. Cardinality(kept) = Cardinality(DOMAIN pools) - 1
      BY Zenon, <3>1, FS_RemoveElement DEF Bounded
    <3>3. QED
      BY <1>4, <3>2, PoolRegistryAssumption
         DEF Bounded, RegistryBounded, PoolRegistryAssumption
  <2>2. CASE ~(Cardinality(DOMAIN pools) >= PoolMaxEntries)
    <3>1. kept = DOMAIN pools
      BY <1>1, <2>2 DEF Victims
    <3>2. QED
      BY <1>4, <2>2, <3>1, PoolRegistryAssumption DEF PoolRegistryAssumption
  <2>3. QED
    BY <2>1, <2>2
<1>6. /\ IsFiniteSet(kept \cup {Digest(bundle[c])})
      /\ \/ Cardinality(kept \cup {Digest(bundle[c])}) = Cardinality(kept)
         \/ Cardinality(kept \cup {Digest(bundle[c])}) = Cardinality(kept) + 1
  BY <1>3, FS_AddElement
<1>7. Cardinality(kept \cup {Digest(bundle[c])}) <= PoolMaxEntries
  BY <1>4, <1>5, <1>6, PoolRegistryAssumption DEF PoolRegistryAssumption
<1>8. QED
  BY <1>2, <1>6, <1>7 DEF Bounded, RegistryBounded

\* The registry never holds more pools than pool_max_entries.
THEOREM RegistryBoundedAlways == Spec => []RegistryBounded
<1>1. Init => Bounded
  <2> SUFFICES ASSUME Init PROVE Bounded
    OBVIOUS
  <2>1. DOMAIN pools = {}
    BY DEF Init
  <2>2. QED
    BY <2>1, FS_EmptySet, PoolRegistryAssumption
       DEF Bounded, RegistryBounded, PoolRegistryAssumption
<1>2. Bounded /\ [Next]_vs => Bounded'
  <2> SUFFICES ASSUME Bounded, [Next]_vs PROVE Bounded'
    OBVIOUS
  <2>1. CASE DOMAIN pools' = DOMAIN pools
    BY <2>1 DEF Bounded, RegistryBounded
  <2>2. CASE \E ds : pools' = Remove(ds)
    BY <2>2, RemoveBounded DEF Bounded, RegistryBounded
  <2>3. ASSUME NEW c \in Caller, Step(c) PROVE Bounded'
    <3>1. CASE BuildSucceeds(c)
      BY <3>1, InsertBounded
    <3>2. CASE ~BuildSucceeds(c)
      BY <2>1, <2>3, <3>2 DEF Step, Resolve, ReadClock, Hit, Miss, BuildFails,
                              ResolveAgain, Return
    <3>3. QED
      BY <3>1, <3>2
  <2>4. ASSUME NEW u \in User, Revoke(u) PROVE Bounded'
    BY <2>1, <2>4 DEF Revoke
  <2>5. CASE RotateSecret \/ SweepTick \/ Tick
    BY <2>1, <2>5 DEF RotateSecret, SweepTick, Tick
  <2>6. CASE Evict
    BY <2>2, <2>6 DEF Evict
  <2>7. CASE SweepIdle
    BY <2>2, <2>7 DEF SweepIdle
  <2>8. CASE UNCHANGED vs
    BY <2>1, <2>8 DEF vs
  <2>9. QED
    BY <2>3, <2>4, <2>5, <2>6, <2>7, <2>8 DEF Next
<1>3. Bounded => RegistryBounded
  BY DEF Bounded
<1>4. QED
  BY <1>1, <1>2, <1>3, PTL DEF Spec

\* The types need one more fact: past its first step a call has a bundle.
TInv == TypeOK /\ \A c \in Caller : pc[c] # "idle" => bundle[c] \in Bundle

\* The variables of the model keep their types: whatever is filed in the
\* registry is a bundle some call resolved, and no more evictions run than
\* were spawned.
THEOREM TypeCorrect == Spec => []TypeOK
<1>1. Init => TInv
  BY SMTT(30), PoolRegistryAssumption
     DEF PoolRegistryAssumption, Init, TInv, TypeOK, Label, Resolved, Age, MaxAge,
         MaxSweepWait
<1>2. TInv /\ [Next]_vs => TInv'
  <2> SUFFICES ASSUME TInv, [Next]_vs PROVE TInv'
    OBVIOUS
  <2> USE PoolRegistryAssumption
      DEF PoolRegistryAssumption, TInv, TypeOK, Label, Resolved, Digest
  <2>0. 0 \in Age /\ \A n \in Age : Older(n) \in Age
    BY DEF Age, Older, MaxAge, MaxSweepWait
  <2>1. ASSUME NEW c \in Caller, Resolve(c) PROVE TInv'
    BY <2>1 DEF Resolve, Bundle
  <2>2. ASSUME NEW c \in Caller, ReadClock(c) \/ Miss(c) PROVE TInv'
    BY <2>2 DEF ReadClock, Miss
  <2>3. ASSUME NEW c \in Caller, Hit(c) PROVE TInv'
    BY <2>0, <2>3 DEF Hit
  <2>4. ASSUME NEW c \in Caller, BuildSucceeds(c) PROVE TInv'
    BY <2>0, <2>4 DEF BuildSucceeds, Insert, Remove, Restrict
  <2>5. ASSUME NEW c \in Caller, BuildFails(c) \/ Return(c) PROVE TInv'
    BY <2>0, <2>5 DEF BuildFails, Return
  <2>6. ASSUME NEW c \in Caller, ResolveAgain(c) PROVE TInv'
    BY <2>6 DEF ResolveAgain, Bundle
  <2>7. ASSUME NEW u \in User, Revoke(u) PROVE TInv'
    BY <2>7 DEF Revoke
  <2>8. CASE RotateSecret
    BY <2>8 DEF RotateSecret
  <2>9. CASE Evict
    BY <2>9 DEF Evict, Remove, Restrict
  <2>10. CASE SweepTick
    BY <2>0, <2>10 DEF SweepTick
  <2>11. CASE SweepIdle
    BY <2>11 DEF SweepIdle, Remove, Restrict
  <2>12. CASE Tick
    BY <2>0, <2>12 DEF Tick
  <2>13. CASE UNCHANGED vs
    BY <2>13 DEF vs
  <2> QED BY Zenon, <2>1, <2>2, <2>3, <2>4, <2>5, <2>6, <2>7, <2>8, <2>9, <2>10, <2>11,
             <2>12, <2>13 DEF Next, Step
<1>3. TInv => TypeOK
  BY DEF TInv
<1> QED BY <1>1, <1>2, <1>3, PTL DEF Spec

----------------------------------------------------------------------------
(* CircuitBreaker                                                           *)

\* Every variable keeps its type; in particular the failure count that
\* record_failure and record_success race on never goes below zero.
THEOREM BreakerTypeCorrect == Breaker!Spec => []Breaker!TypeOK
<1>1. Breaker!Init => Breaker!TypeOK
  <2> SUFFICES ASSUME Breaker!Init PROVE Breaker!TypeOK
    OBVIOUS
  <2>1. probe_in_flight \in BOOLEAN /\ healthy \in BOOLEAN
        /\ probe \in [Caller -> BOOLEAN]
    BY Zenon DEF Breaker!Init
  <2>2. QED
    BY <2>1 DEF Breaker!Init, Breaker!TypeOK
<1>2. Breaker!TypeOK /\ [Breaker!Next]_(Breaker!vars) => Breaker!TypeOK'
  <2> SUFFICES ASSUME Breaker!TypeOK, [Breaker!Next]_(Breaker!vars) PROVE Breaker!TypeOK'
    OBVIOUS
  <2> USE DEF Breaker!TypeOK, Breaker!Goto
  <2>1. ASSUME NEW c \in Caller, Breaker!Step(c) PROVE Breaker!TypeOK'
    <3>1. CASE Breaker!LoadState(c)
      BY <3>1 DEF Breaker!LoadState
    <3>2. CASE Breaker!CheckCooldown(c)
      BY <3>2 DEF Breaker!CheckCooldown
    <3>3. CASE Breaker!StoreHalfOpen(c)
      BY <3>3 DEF Breaker!StoreHalfOpen
    <3>4. CASE Breaker!StoreProbe(c)
      BY <3>4 DEF Breaker!StoreProbe
    <3>5. CASE Breaker!ClaimProbe(c)
      BY Zenon, <3>5 DEF Breaker!ClaimProbe
    <3>6. CASE Breaker!CallReturns(c)
      BY <3>6 DEF Breaker!CallReturns
    <3>7. CASE Breaker!CallDropped(c)
      BY <3>7 DEF Breaker!CallDropped
    <3>8. CASE Breaker!ResetFailures(c)
      BY <3>8 DEF Breaker!ResetFailures
    <3>9. CASE Breaker!ReleaseProbe(c)
      BY Zenon, <3>9 DEF Breaker!ReleaseProbe
    <3>10. CASE Breaker!StoreClosed(c)
      BY <3>10 DEF Breaker!StoreClosed
    <3>11. CASE Breaker!ClearOpenedAt(c)
      BY <3>11 DEF Breaker!ClearOpenedAt
    <3>12. CASE Breaker!StoreOpen(c)
      BY <3>12 DEF Breaker!StoreOpen
    <3>13. CASE Breaker!CountFailure(c)
      BY <3>13 DEF Breaker!CountFailure
    <3>14. CASE Breaker!Trip(c)
      BY <3>14 DEF Breaker!Trip
    <3>15. CASE Breaker!StampOpenedAt(c)
      BY <3>15 DEF Breaker!StampOpenedAt
    <3>16. QED
      BY <2>1, <3>1, <3>2, <3>3, <3>4, <3>5, <3>6, <3>7, <3>8, <3>9, <3>10,
         <3>11, <3>12, <3>13, <3>14, <3>15 DEF Breaker!Step
  <2>2. CASE Breaker!CooldownRuns
    BY <2>2 DEF Breaker!CooldownRuns
  <2>3. CASE Breaker!DatabaseChanges
    BY <2>3 DEF Breaker!DatabaseChanges
  <2>4. CASE UNCHANGED Breaker!vars
    BY <2>4 DEF Breaker!vars
  <2>5. QED
    BY SMTT(30), <2>1, <2>2, <2>3, <2>4 DEF Breaker!Next
<1>3. QED
  BY <1>1, <1>2, PTL DEF Breaker!Spec

\* The probe slot is never leaked: the flag is set only together with a guard
\* that will clear it, and no step lets that guard go without clearing it.
\* The property is inductive as it stands, given the types.
THEOREM ProbeSlotHeldAlways == Breaker!Spec => []ProbeSlotHeld
<1>1. Breaker!Init => ProbeSlotHeld
  BY DEF Breaker!Init, ProbeSlotHeld, Breaker!ProbeSlotHeld
<1>2. Breaker!TypeOK /\ ProbeSlotHeld /\ [Breaker!Next]_(Breaker!vars) => ProbeSlotHeld'
  <2> SUFFICES ASSUME Breaker!TypeOK, ProbeSlotHeld, [Breaker!Next]_(Breaker!vars) PROVE ProbeSlotHeld'
    OBVIOUS
  <2> USE DEF Breaker!TypeOK, ProbeSlotHeld, Breaker!ProbeSlotHeld, Breaker!Goto
  <2>1. ASSUME NEW c \in Caller, Breaker!Step(c) PROVE ProbeSlotHeld'
    <3>1. CASE Breaker!StoreProbe(c) \/ Breaker!ClaimProbe(c)
      BY Zenon, <3>1 DEF Breaker!StoreProbe, Breaker!ClaimProbe
    <3>2. CASE Breaker!ReleaseProbe(c)
      BY <3>2 DEF Breaker!ReleaseProbe
    <3>3. CASE Breaker!CallReturns(c) \/ Breaker!CallDropped(c) \/ Breaker!ResetFailures(c)
      BY Zenon, <3>3 DEF Breaker!CallReturns, Breaker!CallDropped, Breaker!ResetFailures
    <3>4. CASE Breaker!LoadState(c) \/ Breaker!CheckCooldown(c) \/ Breaker!StoreHalfOpen(c)
      BY Zenon, <3>4 DEF Breaker!LoadState, Breaker!CheckCooldown, Breaker!StoreHalfOpen
    <3>5. CASE Breaker!StoreClosed(c) \/ Breaker!ClearOpenedAt(c) \/ Breaker!StoreOpen(c)
      BY Zenon, <3>5 DEF Breaker!StoreClosed, Breaker!ClearOpenedAt, Breaker!StoreOpen
    <3>6. CASE Breaker!CountFailure(c) \/ Breaker!Trip(c) \/ Breaker!StampOpenedAt(c)
      BY Zenon, <3>6 DEF Breaker!CountFailure, Breaker!Trip, Breaker!StampOpenedAt
    <3>7. QED
      BY <2>1, <3>1, <3>2, <3>3, <3>4, <3>5, <3>6 DEF Breaker!Step
  <2>2. CASE Breaker!CooldownRuns \/ Breaker!DatabaseChanges \/ UNCHANGED Breaker!vars
    BY Zenon, <2>2 DEF Breaker!CooldownRuns, Breaker!DatabaseChanges, Breaker!vars
  <2>3. QED
    BY <2>1, <2>2 DEF Breaker!Next
<1>3. QED
  BY <1>1, <1>2, BreakerTypeCorrect, PTL DEF Breaker!Spec

----------------------------------------------------------------------------
(***************************************************************************)
(* Placeholders.  Region and Rewritten are defined by recursion over the   *)
(* text; that such functions exist for every text follows from the order   *)
(* of the natural numbers, and then the two scans are compared with them   *)
(* byte by byte.                                                           *)
(***************************************************************************)

LEMMA LeastNumber ==
  ASSUME NEW T \in SUBSET Nat, T # {}
  PROVE  \E x \in T : \A y \in T : ~(y < x)
<1>1. PICK x \in T : \A y \in T : ~ (<<y, x>> \in OpToRel(<, Nat))
  BY NatLessThanWellFounded, WFMin, Zenon
<1>2. ASSUME NEW y \in T, y < x PROVE FALSE
  <2>1. <<y, x>> \in Nat \X Nat /\ <<y, x>>[1] < <<y, x>>[2]
    BY <1>2
  <2>2. <<y, x>> \in OpToRel(<, Nat)
    BY <2>1, Zenon DEF OpToRel
  <2>3. QED
    BY <1>1, <2>2, Zenon
<1>3. QED
  BY <1>2, Zenon

\* R tells the literal of each of the first n positions of a text s.
Labels(R, s, n) ==
  R = [p \in 0..n |-> IF p = 0 THEN "code" ELSE Text!Literal(R[p - 1], s[p])]

LEMMA LabelsLonger ==
  ASSUME NEW s, NEW R, NEW n \in Nat, n # 0, Labels(R, s, n - 1)
  PROVE  \E Q : Labels(Q, s, n)
<1> DEFINE Q == [p \in 0..n |-> IF p = 0 THEN "code" ELSE Text!Literal(R[p - 1], s[p])]
<1>1. \A p \in 0..n - 1 : p \in 0..n /\ R[p] = Q[p]
  <2>1. \A p \in 0..n - 1 :
          R[p] = IF p = 0 THEN "code" ELSE Text!Literal(R[p - 1], s[p])
    BY Zenon DEF Labels
  <2>2. \A p \in 0..n - 1 : p \in 0..n
    OBVIOUS
  <2>3. QED
    BY Zenon, <2>1, <2>2
<1>2. \A p \in 0..n : p # 0 => p - 1 \in 0..n - 1
  OBVIOUS
<1>3. \A p \in 0..n : Q[p] = IF p = 0 THEN "code" ELSE Text!Literal(Q[p - 1], s[p])
  <2> TAKE p \in 0..n
  <2>1. CASE p = 0
    BY Zenon, <2>1
  <2>2. CASE p # 0
    <3>1. R[p - 1] = Q[p - 1]
      BY Zenon, <1>1, <1>2, <2>2
    <3>2. Q[p] = Text!Literal(R[p - 1], s[p])
      BY Zenon, <2>2
    <3>3. QED
      BY Zenon, <2>2, <3>1, <3>2
  <2>3. QED
    BY Zenon, <2>1, <2>2
<1>4. Q = [p \in 0..n |-> Q[p]]
  BY Zenon
<1> HIDE DEF Q
<1>5. Labels(Q, s, n)
  <2>1. [p \in 0..n |-> Q[p]]
          = [p \in 0..n |-> IF p = 0 THEN "code" ELSE Text!Literal(Q[p - 1], s[p])]
    BY Zenon, <1>3
  <2>2. QED
    BY Zenon, <1>4, <2>1 DEF Labels
<1>6. QED
  BY Zenon, <1>5

LEMMA LabelsExist ==
  ASSUME NEW s, NEW n \in Nat
  PROVE  \E R : Labels(R, s, n)
<1> DEFINE T == {k \in Nat : ~\E R : Labels(R, s, k)}
<1>1. SUFFICES ASSUME T # {} PROVE FALSE
  BY Zenon
<1>2. PICK k \in T : \A j \in T : ~(j < k)
  <2>1. T \in SUBSET Nat
    BY Zenon
  <2> HIDE DEF T
  <2>2. QED
    BY Zenon, <1>1, <2>1, LeastNumber
<1>3. CASE k = 0
  <2> DEFINE R == [p \in 0..0 |-> "code"]
  <2>1. \A p \in 0..0 : p = 0
    OBVIOUS
  <2>2. R = [p \in 0..0 |-> IF p = 0 THEN "code" ELSE Text!Literal(R[p - 1], s[p])]
    BY Zenon, <2>1
  <2>3. Labels(R, s, 0)
    BY Zenon, <2>2 DEF Labels
  <2>4. QED
    BY Zenon, <1>3, <2>3
<1>4. CASE k # 0
  <2>1. k \in Nat /\ k - 1 \in Nat /\ k - 1 < k
    BY <1>4
  <2>2. PICK R : Labels(R, s, k - 1)
    BY Zenon, <1>2, <2>1
  <2>3. \E Q : Labels(Q, s, k)
    BY Zenon, <1>4, <2>1, <2>2, LabelsLonger
  <2>4. QED
    BY Zenon, <2>3
<1>5. QED
  BY Zenon, <1>3, <1>4

Literals == {"code", "single", "double"}

\* Region is such a function for the whole text.
LEMMA RegionLabels ==
  ASSUME Len(sql) \in Nat
  PROVE  /\ Text!Region[0] = "code"
         /\ \A p \in 1..Len(sql) :
              Text!Region[p] = Text!Literal(Text!Region[p - 1], sql[p])
<1>1. \E R : Labels(R, sql, Len(sql))
  BY Zenon, LabelsExist
<1>2. Labels(Text!Region, sql, Len(sql))
  BY <1>1 DEF Text!Region, Labels
<1>3. 0 \in 0..Len(sql) /\ \A p \in 1..Len(sql) : p \in 0..Len(sql) /\ p # 0
  OBVIOUS
<1>4. QED
  BY Zenon, <1>2, <1>3 DEF Labels

\* The text and names R of the first n positions.
Written(R, n) ==
  R = [p \in 0..n |-> IF p = 0 THEN [out |-> << >>, order |-> << >>]
                     ELSE Text!Rewrite(R[p - 1], p)]

LEMMA WrittenLonger ==
  ASSUME NEW R, NEW n \in Nat, n # 0, Written(R, n - 1)
  PROVE  \E Q : Written(Q, n)
<1> DEFINE r0 == [out |-> << >>, order |-> << >>]
           Q == [p \in 0..n |-> IF p = 0 THEN r0 ELSE Text!Rewrite(R[p - 1], p)]
<1>1. \A p \in 0..n - 1 : p \in 0..n /\ R[p] = Q[p]
  <2>1. \A p \in 0..n - 1 : R[p] = IF p = 0 THEN r0 ELSE Text!Rewrite(R[p - 1], p)
    BY Zenon DEF Written
  <2>2. \A p \in 0..n - 1 : p \in 0..n
    OBVIOUS
  <2>3. QED
    BY Zenon, <2>1, <2>2
<1>2. \A p \in 0..n : p # 0 => p - 1 \in 0..n - 1
  OBVIOUS
<1> HIDE DEF r0
<1>3. \A p \in 0..n : Q[p] = IF p = 0 THEN r0 ELSE Text!Rewrite(Q[p - 1], p)
  <2> TAKE p \in 0..n
  <2>1. CASE p = 0
    BY Zenon, <2>1
  <2>2. CASE p # 0
    <3>1. R[p - 1] = Q[p - 1]
      BY Zenon, <1>1, <1>2, <2>2
    <3>2. Q[p] = Text!Rewrite(R[p - 1], p)
      BY Zenon, <2>2
    <3>3. QED
      BY Zenon, <2>2, <3>1, <3>2
  <2>3. QED
    BY Zenon, <2>1, <2>2
<1>4. Q = [p \in 0..n |-> Q[p]]
  BY Zenon
<1> HIDE DEF Q
<1>5. Written(Q, n)
  <2>1. [p \in 0..n |-> Q[p]]
          = [p \in 0..n |-> IF p = 0 THEN r0 ELSE Text!Rewrite(Q[p - 1], p)]
    BY Zenon, <1>3
  <2>2. QED
    BY Zenon, <1>4, <2>1 DEF Written, r0
<1>6. QED
  BY Zenon, <1>5

LEMMA WrittenExists ==
  ASSUME NEW n \in Nat
  PROVE  \E R : Written(R, n)
<1> DEFINE T == {k \in Nat : ~\E R : Written(R, k)}
<1>1. SUFFICES ASSUME T # {} PROVE FALSE
  BY Zenon
<1>2. PICK k \in T : \A j \in T : ~(j < k)
  <2>1. T \in SUBSET Nat
    BY Zenon
  <2> HIDE DEF T
  <2>2. QED
    BY Zenon, <1>1, <2>1, LeastNumber
<1>3. CASE k = 0
  <2> DEFINE R == [p \in 0..0 |-> [out |-> << >>, order |-> << >>]]
  <2>1. \A p \in 0..0 : p = 0
    OBVIOUS
  <2>2. R = [p \in 0..0 |-> IF p = 0 THEN [out |-> << >>, order |-> << >>]
                           ELSE Text!Rewrite(R[p - 1], p)]
    BY Zenon, <2>1
  <2>3. Written(R, 0)
    BY Zenon, <2>2 DEF Written
  <2>4. QED
    BY Zenon, <1>3, <2>3
<1>4. CASE k # 0
  <2>1. k \in Nat /\ k - 1 \in Nat /\ k - 1 < k
    BY <1>4
  <2>2. PICK R : Written(R, k - 1)
    BY Zenon, <1>2, <2>1
  <2>3. \E Q : Written(Q, k)
    BY Zenon, <1>4, <2>1, <2>2, WrittenLonger
  <2>4. QED
    BY Zenon, <2>3
<1>5. QED
  BY Zenon, <1>3, <1>4

\* Rewritten adds position after position.
LEMMA RewrittenAdds ==
  ASSUME Len(sql) \in Nat
  PROVE  /\ Text!Rewritten[0] = [out |-> << >>, order |-> << >>]
         /\ \A p \in 1..Len(sql) :
              Text!Rewritten[p] = Text!Rewrite(Text!Rewritten[p - 1], p)
<1>1. \E R : Written(R, Len(sql))
  BY Zenon, WrittenExists
<1>2. Written(Text!Rewritten, Len(sql))
  BY Zenon, <1>1 DEF Text!Rewritten, Written
<1>3. 0 \in 0..Len(sql) /\ \A p \in 1..Len(sql) : p \in 0..Len(sql) /\ p # 0
  OBVIOUS
<1>4. QED
  BY Zenon, <1>2, <1>3 DEF Written

----------------------------------------------------------------------------
(* The two scans                                                            *)

\* A semicolon outside literals, and a text with a second statement.
SemicolonAt(p) == sql[p] = "semi" /\ Text!Region[p] = "code"
Second == \E p \in 1..Len(sql) : SemicolonAt(p) /\ ~Text!Blank(p + 1)

TextTyped ==
  /\ sql \in Seq(Text!Byte)
  /\ i \in Nat /\ last_semi \in Nat
  /\ in_single \in BOOLEAN /\ in_double \in BOOLEAN
  /\ scan \in {"statements", "placeholders", "refused", "done"}

\* The two flags tell the literal of the last byte read.
FlagsTell ==
  /\ in_single <=> Text!Region[i - 1] = "single"
  /\ in_double <=> Text!Region[i - 1] = "double"
  /\ Text!Region[i - 1] \in Literals

Reading == i \in 1..Len(sql) + 1 /\ FlagsTell

\* last_semi is the one semicolon outside literals that was read.
SemicolonFound ==
  /\ last_semi # 0 => last_semi \in 1..i - 1 /\ SemicolonAt(last_semi)
  /\ \A p \in 1..i - 1 : SemicolonAt(p) => p = last_semi

\* Before a colon outside literals the colons are paired off into casts.
ColonsPaired ==
  i <= Len(sql) /\ sql[i] = "colon" /\ Text!Region[i - 1] = "code" =>
    \E n \in 0..Len(sql) : Text!ColonRun(i) = (i - 2 * n)..(i - 1)

\* What was written so far, with no name cut in two.
WrittenSoFar ==
  /\ [out |-> out, order |-> order] = Text!Rewritten[i - 1]
  /\ order \in Seq(Seq(Text!Byte))
  /\ i <= Len(sql) => ~Text!InName(i)

TextInv ==
  /\ TextTyped
  /\ scan = "statements" => /\ Reading /\ SemicolonFound
                            /\ out = << >> /\ order = << >>
  /\ scan = "placeholders" => Reading /\ ColonsPaired /\ WrittenSoFar
  /\ OneStatement
  /\ OnlyPlaceholdersRewritten

LEMMA LenInNat == TextTyped => Len(sql) \in Nat
  BY DEF TextTyped

\* What is said about the text alone stays true while the text stays.
LEMMA TextStays ==
  ASSUME UNCHANGED sql
  PROVE  /\ UNCHANGED Text!Region
         /\ \A p : SemicolonAt(p)' <=> SemicolonAt(p)
         /\ \A p : Text!Blank(p)' <=> Text!Blank(p)
         /\ Second' <=> Second
         /\ \A p : Text!ColonRun(p)' = Text!ColonRun(p)
         /\ \A p : Text!IsPlaceholder(p)' <=> Text!IsPlaceholder(p)
         /\ \A p : Text!InName(p)' <=> Text!InName(p)
<1>1. UNCHANGED Text!Region
  BY Zenon DEF Text!Region
<1>2. /\ \A p : SemicolonAt(p)' <=> SemicolonAt(p)
      /\ \A p : Text!Blank(p)' <=> Text!Blank(p)
  BY Zenon, <1>1 DEF SemicolonAt, Text!Blank
<1>3. Second' <=> Second
  BY Zenon, <1>1, <1>2 DEF Second
<1>4. \A p : Text!ColonRun(p)' = Text!ColonRun(p)
  BY Zenon, <1>1 DEF Text!ColonRun
<1>5. \A p : Text!IsPlaceholder(p)' <=> Text!IsPlaceholder(p)
  BY Zenon, <1>1, <1>4 DEF Text!IsPlaceholder
<1>6. \A p : Text!InName(p)' <=> Text!InName(p)
  BY Zenon, <1>5 DEF Text!InName
<1>7. QED
  BY Zenon, <1>1, <1>2, <1>3, <1>4, <1>5, <1>6

LEMMA RewrittenStays ==
  ASSUME UNCHANGED <<sql, numbered>>
  PROVE  UNCHANGED Text!Rewritten
<1>1. \A p : Text!Name(p)' = Text!Name(p)
  BY Zenon DEF Text!Name, Text!NameEnd
<1>2. \A n : Text!Placeholder(n)' = Text!Placeholder(n)
  BY Zenon DEF Text!Placeholder
<1>3. \A r, p : Text!Rewrite(r, p)' = Text!Rewrite(r, p)
  <2> TAKE r, p
  <2>1. /\ Text!IsPlaceholder(p)' <=> Text!IsPlaceholder(p)
        /\ Text!InName(p)' <=> Text!InName(p)
    BY Zenon, TextStays
  <2>2. QED
    BY Zenon, <1>1, <1>2, <2>1 DEF Text!Rewrite
<1>4. QED
  BY Zenon, <1>3 DEF Text!Rewritten

LEMMA OneStatementMeans ==
  OneStatement <=>
    /\ scan \in {"placeholders", "done"} => ~Second
    /\ scan = "refused" => Second
  BY Zenon DEF OneStatement, Text!OneStatement, Second, SemicolonAt

LEMMA OneStatementAfter ==
  ASSUME UNCHANGED sql
  PROVE  OneStatement' <=>
           /\ scan' \in {"placeholders", "done"} => ~Second
           /\ scan' = "refused" => Second
<1>1. OneStatement' <=>
        /\ scan' \in {"placeholders", "done"} => ~Second'
        /\ scan' = "refused" => Second'
  BY Zenon DEF OneStatement, Text!OneStatement, Second, SemicolonAt
<1>2. QED
  BY Zenon, <1>1, TextStays

\* The literal of the byte that is read next.
LEMMA NextByte ==
  ASSUME TextTyped, Reading, i <= Len(sql)
  PROVE  /\ i \in 1..Len(sql)
         /\ Text!Region[i] = Text!Literal(Text!Region[i - 1], sql[i])
         /\ sql[i] \in Text!Byte
<1>1. Len(sql) \in Nat /\ i \in 1..Len(sql)
  BY DEF TextTyped, Reading
<1>2. sql[i] \in Text!Byte
  BY <1>1 DEF TextTyped
<1>3. QED
  BY Zenon, <1>1, <1>2, RegionLabels

LEMMA QuoteRead ==
  ASSUME TextTyped, Reading, i <= Len(sql),
         sql[i] \in {"single", "double"}, Text!Opens(sql[i]), Text!Toggle(sql[i]),
         i' = i + 1, UNCHANGED sql
  PROVE  Reading'
<1>1. i' - 1 = i /\ i' \in 1..Len(sql) + 1
  BY LenInNat DEF TextTyped, Reading
<1>2. UNCHANGED Text!Region
  BY Zenon, TextStays
<1>3. Text!Region[i] = Text!Literal(Text!Region[i - 1], sql[i]) /\ FlagsTell
  BY Zenon, NextByte DEF Reading
<1>4. /\ in_single' <=> Text!Region[i] = "single"
      /\ in_double' <=> Text!Region[i] = "double"
      /\ Text!Region[i] \in Literals
  <2>1. CASE sql[i] = "single"
    <3>1. Text!Region[i - 1] \in {"code", "single"}
      BY <1>3, <2>1 DEF FlagsTell, Literals, Text!Opens
    <3>2. Text!Region[i] = IF Text!Region[i - 1] = "code" THEN "single" ELSE "code"
      BY <1>3, <2>1, <3>1 DEF Text!Literal
    <3>3. (in_single' <=> ~in_single) /\ (in_double' <=> in_double)
      BY Zenon, <2>1 DEF Text!Toggle
    <3>4. QED
      BY <1>3, <3>1, <3>2, <3>3 DEF FlagsTell, Literals
  <2>2. CASE sql[i] = "double"
    <3>1. Text!Region[i - 1] \in {"code", "double"}
      BY <1>3, <2>2 DEF FlagsTell, Literals, Text!Opens
    <3>2. Text!Region[i] = IF Text!Region[i - 1] = "code" THEN "double" ELSE "code"
      BY <1>3, <2>2, <3>1 DEF Text!Literal
    <3>3. (in_single' <=> in_single) /\ (in_double' <=> ~in_double)
      BY Zenon, <2>2 DEF Text!Toggle
    <3>4. QED
      BY <1>3, <3>1, <3>2, <3>3 DEF FlagsTell, Literals
  <2>3. QED
    BY Zenon, <2>1, <2>2
<1>5. QED
  BY Zenon, <1>1, <1>2, <1>4 DEF Reading, FlagsTell

LEMMA OtherRead ==
  ASSUME TextTyped, Reading, i <= Len(sql), ~Text!Opens(sql[i])
  PROVE  Text!Region[i] = Text!Region[i - 1]
<1>1. /\ Text!Region[i] = Text!Literal(Text!Region[i - 1], sql[i])
      /\ FlagsTell /\ sql[i] \in Text!Byte
  BY Zenon, NextByte DEF Reading
<1>2. /\ sql[i] = "single" => Text!Region[i - 1] = "double"
      /\ sql[i] = "double" => Text!Region[i - 1] = "single"
  BY Zenon, <1>1 DEF Text!Opens, FlagsTell
<1>3. QED
  BY <1>1, <1>2 DEF Text!Literal, FlagsTell, Literals, Text!Byte

\* Bytes are read that open or close no literal.
LEMMA FlagsStay ==
  ASSUME TextTyped, Reading, UNCHANGED <<sql, in_single, in_double>>,
         i' \in 1..Len(sql) + 1, Text!Region[i' - 1] = Text!Region[i - 1]
  PROVE  Reading'
  BY Zenon, TextStays DEF Reading, FlagsTell

----------------------------------------------------------------------------
(* reject_multi_statement                                                   *)

LEMMA NotDone == scan # "done" => OnlyPlaceholdersRewritten
  BY Zenon DEF OnlyPlaceholdersRewritten, Text!OnlyPlaceholdersRewritten

LEMMA NotDoneAfter == scan' # "done" => OnlyPlaceholdersRewritten'
  BY Zenon DEF OnlyPlaceholdersRewritten, Text!OnlyPlaceholdersRewritten

\* A byte is read that is no semicolon outside literals.
LEMMA ByteRead ==
  ASSUME TextInv, Text!Quote \/ Text!Skip, UNCHANGED <<numbered, out, order>>
  PROVE  TextInv'
<1>1. /\ UNCHANGED <<sql, scan, last_semi>> /\ i' = i + 1
      /\ scan = "statements" /\ i <= Len(sql)
  BY Zenon DEF Text!Quote, Text!Skip, Text!At
<1>2. TextTyped /\ Reading /\ SemicolonFound /\ out = << >> /\ order = << >> /\ OneStatement
  BY Zenon, <1>1 DEF TextInv
<1>3. i' \in 1..Len(sql) + 1 /\ i' \in Nat /\ i' - 1 = i /\ i \in Nat
  BY <1>1, <1>2, LenInNat DEF Reading, TextTyped
<1>4. Reading' /\ ~SemicolonAt(i)
  <2>1. CASE Text!Quote
    <3>1. sql[i] \in {"single", "double"} /\ Text!Opens(sql[i]) /\ Text!Toggle(sql[i])
      BY Zenon, <2>1 DEF Text!Quote, Text!At
    <3>2. sql[i] # "semi"
      BY <3>1
    <3>3. QED
      BY Zenon, <1>1, <1>2, <3>1, <3>2, QuoteRead DEF SemicolonAt
  <2>2. CASE Text!Skip
    <3>1. /\ ~Text!Opens(sql[i]) /\ UNCHANGED <<in_single, in_double>>
          /\ sql[i] = "semi" => ~Text!InCode
      BY Zenon, <2>2 DEF Text!Skip
    <3>2. Text!Region[i] = Text!Region[i - 1]
      BY Zenon, <1>1, <1>2, <3>1, OtherRead
    <3>3. Text!Region[i - 1] = "code" => Text!InCode
      BY <1>2 DEF Reading, FlagsTell, Text!InCode
    <3>4. Reading'
      BY Zenon, <1>1, <1>2, <1>3, <3>1, <3>2, FlagsStay
    <3>5. QED
      BY Zenon, <3>1, <3>2, <3>3, <3>4 DEF SemicolonAt
  <2>3. QED
    BY Zenon, <2>1, <2>2
<1>5. /\ \A p \in 1..i' - 1 : p \in 1..i - 1 \/ p = i
      /\ \A p \in 1..i - 1 : p \in 1..i' - 1
  BY <1>1, <1>3
<1>6. SemicolonFound'
  BY Zenon, <1>1, <1>2, <1>4, <1>5, TextStays DEF SemicolonFound
<1>7. in_single' \in BOOLEAN /\ in_double' \in BOOLEAN
  <2>1. CASE Text!Quote
    BY Zenon, <1>2, <2>1 DEF Text!Quote, Text!Toggle, TextTyped
  <2>2. CASE Text!Skip
    BY Zenon, <1>2, <2>2 DEF Text!Skip, TextTyped
  <2>3. QED
    BY Zenon, <2>1, <2>2
<1>8. TextTyped'
  BY Zenon, <1>1, <1>2, <1>3, <1>7 DEF TextTyped
<1>9. OneStatement'
  BY Zenon, <1>1, <1>2, OneStatementAfter, OneStatementMeans
<1>10. scan' # "placeholders" /\ scan' # "done"
  BY <1>1
<1>11. out' = << >> /\ order' = << >>
  BY Zenon, <1>2
<1>12. QED
  BY Zenon, <1>4, <1>6, <1>8, <1>9, <1>10, <1>11, NotDoneAfter DEF TextInv

\* The first semicolon outside literals is noted, the second refuses the text.
LEMMA SemicolonRead ==
  ASSUME TextInv, Text!Semicolon, UNCHANGED <<numbered, out, order>>
  PROVE  TextInv'
<1>1. /\ UNCHANGED <<sql, in_single, in_double>> /\ i' = i + 1
      /\ scan = "statements" /\ i <= Len(sql) /\ sql[i] = "semi" /\ Text!InCode
  BY Zenon DEF Text!Semicolon, Text!At
<1>2. TextTyped /\ Reading /\ SemicolonFound /\ out = << >> /\ order = << >> /\ OneStatement
  BY Zenon, <1>1 DEF TextInv
<1>3. ~Text!Opens(sql[i])
  BY <1>1 DEF Text!Opens
<1>4. Text!Region[i] = Text!Region[i - 1]
  BY Zenon, <1>1, <1>2, <1>3, OtherRead
<1>5. SemicolonAt(i)
  <2>1. Text!Region[i - 1] = "code"
    BY <1>1, <1>2 DEF Reading, FlagsTell, Text!InCode, Literals
  <2>2. QED
    BY Zenon, <1>1, <1>4, <2>1 DEF SemicolonAt
<1>6. /\ i \in 1..Len(sql) /\ Len(sql) \in Nat /\ i # 0 /\ i \in Nat /\ i' - 1 = i
      /\ i' \in 1..Len(sql) + 1 /\ i' \in Nat /\ i \in 1..i' - 1
      /\ \A p \in 1..i' - 1 : p \in 1..i - 1 \/ p = i
  BY <1>1, <1>2, LenInNat DEF Reading, TextTyped
<1>7. CASE last_semi # 0
  <2>1. scan' = "refused" /\ UNCHANGED last_semi
    BY Zenon, <1>7 DEF Text!Semicolon
  <2>2. last_semi \in 1..i - 1 /\ SemicolonAt(last_semi)
    BY Zenon, <1>2, <1>7 DEF SemicolonFound
  <2>3. last_semi \in 1..Len(sql) /\ i \in last_semi + 1..Len(sql)
    BY <1>6, <2>2
  <2>4. sql[i] # "blank"
    BY <1>1
  <2>5. Second
    BY Zenon, <2>2, <2>3, <2>4 DEF Second, Text!Blank
  <2>6. scan' \notin {"statements", "placeholders", "done"}
    BY <2>1
  <2>7. OneStatement'
    BY Zenon, <1>1, <2>5, <2>6, OneStatementAfter
  <2>8. TextTyped'
    BY Zenon, <1>1, <1>2, <1>6, <2>1 DEF TextTyped
  <2>9. QED
    BY Zenon, <2>6, <2>7, <2>8, NotDoneAfter DEF TextInv
<1>8. CASE last_semi = 0
  <2>1. UNCHANGED scan /\ last_semi' = i
    BY Zenon, <1>8 DEF Text!Semicolon
  <2>2. \A p \in 1..i - 1 : ~SemicolonAt(p)
    <3>1. \A p \in 1..i - 1 : p # 0
      BY <1>6
    <3>2. QED
      BY Zenon, <1>2, <1>8, <3>1 DEF SemicolonFound
  <2>3. SemicolonFound'
    BY Zenon, <1>1, <1>5, <1>6, <2>1, <2>2, TextStays DEF SemicolonFound
  <2>4. TextTyped'
    BY Zenon, <1>1, <1>2, <1>6, <2>1 DEF TextTyped
  <2>5. Reading'
    BY Zenon, <1>1, <1>2, <1>4, <1>6, FlagsStay
  <2>6. OneStatement'
    BY Zenon, <1>1, <1>2, <2>1, OneStatementAfter, OneStatementMeans
  <2>7. scan' # "placeholders" /\ scan' # "done"
    BY <1>1, <2>1
  <2>8. QED
    BY Zenon, <1>2, <2>3, <2>4, <2>5, <2>6, <2>7, NotDoneAfter DEF TextInv
<1>9. QED
  BY Zenon, <1>7, <1>8

\* At the start of the text nothing is written and no literal is open.
LEMMA TextBegins ==
  ASSUME TextTyped, i' = 1, in_single' = FALSE, in_double' = FALSE,
         UNCHANGED <<sql, numbered>>, out' = << >>, order' = << >>
  PROVE  Reading' /\ ColonsPaired' /\ WrittenSoFar'
<1>1. Len(sql) \in Nat /\ i' \in 1..Len(sql) + 1 /\ i' - 1 = 0
  BY LenInNat
<1>2. Text!Region[0] = "code" /\ UNCHANGED Text!Region
  BY Zenon, <1>1, RegionLabels, TextStays
<1>3. Reading'
  BY <1>1, <1>2 DEF Reading, FlagsTell, Literals
<1>4. ColonsPaired'
  <2>1. Text!ColonRun(1) = (1 - 2 * 0)..(1 - 1) /\ 0 \in 0..Len(sql)
    BY <1>1 DEF Text!ColonRun
  <2>2. Text!ColonRun(1)' = Text!ColonRun(1)
    BY Zenon, TextStays
  <2>3. QED
    BY Zenon, <2>1, <2>2 DEF ColonsPaired
<1>5. WrittenSoFar'
  <2>1. ~Text!InName(1)
    BY DEF Text!InName
  <2>2. /\ Text!Rewritten[0] = [out |-> << >>, order |-> << >>]
        /\ UNCHANGED Text!Rewritten /\ ~Text!InName(1)'
    BY Zenon, <1>1, <2>1, RewrittenAdds, RewrittenStays, TextStays
  <2>3. << >> \in Seq(Seq(Text!Byte))
    OBVIOUS
  <2>4. QED
    BY Zenon, <1>1, <2>2, <2>3 DEF WrittenSoFar
<1>6. QED
  BY Zenon, <1>3, <1>4, <1>5

\* At the end what follows the noted semicolon decides.
LEMMA TextRead ==
  ASSUME TextInv, Text!EndOfStatement, UNCHANGED <<numbered, out, order>>
  PROVE  TextInv'
<1>1. /\ UNCHANGED <<sql, last_semi>> /\ scan = "statements" /\ i > Len(sql)
      /\ i' = 1 /\ in_single' = FALSE /\ in_double' = FALSE
      /\ scan' = IF last_semi = 0 \/ Text!Blank(last_semi + 1)
                 THEN "placeholders" ELSE "refused"
  BY Zenon DEF Text!EndOfStatement
<1>2. TextTyped /\ Reading /\ SemicolonFound /\ out = << >> /\ order = << >>
  BY Zenon, <1>1 DEF TextInv
<1>3. i - 1 = Len(sql) /\ 0 \notin 1..Len(sql) /\ i' \in Nat
  BY <1>1, <1>2, LenInNat DEF Reading
<1>4. /\ last_semi # 0 => last_semi \in 1..Len(sql) /\ SemicolonAt(last_semi)
      /\ \A p \in 1..Len(sql) : SemicolonAt(p) => p = last_semi
  BY Zenon, <1>2, <1>3 DEF SemicolonFound
<1>5. CASE last_semi = 0 \/ Text!Blank(last_semi + 1)
  <2>1. ~Second
    BY Zenon, <1>3, <1>4, <1>5 DEF Second
  <2>2. scan' = "placeholders" /\ scan' \notin {"refused", "statements", "done"}
    BY <1>1, <1>5
  <2>3. OneStatement'
    BY Zenon, <1>1, <2>1, <2>2, OneStatementAfter
  <2>4. TextTyped'
    BY Zenon, <1>1, <1>2, <1>3, <2>2 DEF TextTyped
  <2>5. Reading' /\ ColonsPaired' /\ WrittenSoFar'
    BY Zenon, <1>1, <1>2, TextBegins
  <2>6. QED
    BY Zenon, <2>2, <2>3, <2>4, <2>5, NotDoneAfter DEF TextInv
<1>6. CASE ~(last_semi = 0 \/ Text!Blank(last_semi + 1))
  <2>1. Second
    BY Zenon, <1>4, <1>6 DEF Second
  <2>2. scan' = "refused" /\ scan' \notin {"placeholders", "statements", "done"}
    BY <1>1, <1>6
  <2>3. OneStatement'
    BY Zenon, <1>1, <2>1, <2>2, OneStatementAfter
  <2>4. TextTyped'
    BY Zenon, <1>1, <1>2, <1>3, <2>2 DEF TextTyped
  <2>5. QED
    BY Zenon, <2>2, <2>3, <2>4, NotDoneAfter DEF TextInv
<1>7. QED
  BY Zenon, <1>5, <1>6

----------------------------------------------------------------------------
(* rewrite_placeholders                                                     *)

CodeColon(p) == sql[p] = "colon" /\ Text!Region[p] = "code"

\* The positions before the next one.
LEMMA UpTo ==
  ASSUME NEW p \in Nat
  PROVE  /\ \A s \in 1..(p + 1) - 1 : s # p =>
              s \in 1..p - 1 /\ \A k \in s + 1..p : k \in s + 1..p + 1
         /\ (p - 2 * 0)..(p - 1) = {}
  OBVIOUS

\* What the next state says about its position, said now.
LEMMA AtNext ==
  ASSUME UNCHANGED sql
  PROVE  /\ Text!InName(i)' <=> Text!InName(i')
         /\ Text!ColonRun(i)' = Text!ColonRun(i')
<1>1. Text!InName(i)' <=> Text!InName(i')
  BY Zenon, TextStays DEF Text!InName
<1>2. Text!ColonRun(i)' = Text!ColonRun(i')
  BY Zenon, TextStays DEF Text!ColonRun
<1>3. QED
  BY Zenon, <1>1, <1>2

\* A run of colons goes on with a colon outside literals and ends otherwise.
LEMMA RunGoesOn ==
  ASSUME NEW p \in Nat, p # 0
  PROVE  /\ CodeColon(p) => Text!ColonRun(p + 1) = Text!ColonRun(p) \cup {p}
         /\ ~CodeColon(p) => Text!ColonRun(p + 1) = {}
<1> DEFINE C(k) == CodeColon(k)
<1>1. \A q, r : q - 1 = r =>
        Text!ColonRun(q) = {s \in 1..r : \A k \in s..r : C(k)}
  BY Zenon DEF Text!ColonRun, CodeColon
<1> HIDE DEF C
<1>0. (p + 1) - 1 = p
  OBVIOUS
<1>2. p \in 1..p /\ \A s \in 1..p : p \in s..p
  OBVIOUS
<1>3. /\ \A s \in 1..p : s \in 1..p - 1 \/ s = p
      /\ \A s \in 1..p - 1 : s \in 1..p
      /\ \A s \in 1..p : \A k \in s..p : k \in s..p - 1 \/ k = p
      /\ \A s \in 1..p : \A k \in s..p - 1 : k \in s..p
      /\ \A k \in p..p : k = p
  OBVIOUS
<1>4. Text!ColonRun(p + 1) = {s \in 1..p : \A k \in s..p : C(k)}
  BY Zenon, <1>0, <1>1
<1>5. Text!ColonRun(p) = {s \in 1..p - 1 : \A k \in s..p - 1 : C(k)}
  BY Zenon, <1>1
<1>6. ASSUME C(p) PROVE Text!ColonRun(p + 1) = Text!ColonRun(p) \cup {p}
  <2>1. ASSUME NEW s \in Text!ColonRun(p + 1), s # p PROVE s \in Text!ColonRun(p)
    BY Zenon, <1>3, <1>4, <1>5, <2>1
  <2>2. ASSUME NEW s \in Text!ColonRun(p) PROVE s \in Text!ColonRun(p + 1)
    BY ZenonT(30), <1>3, <1>4, <1>5, <1>6, <2>2
  <2>3. p \in Text!ColonRun(p + 1)
    BY Zenon, <1>2, <1>3, <1>4, <1>6
  <2>4. QED
    BY Zenon, <2>1, <2>2, <2>3
<1>7. ASSUME ~C(p) PROVE Text!ColonRun(p + 1) = {}
  BY Zenon, <1>2, <1>4, <1>7
<1>8. QED
  BY Zenon, <1>6, <1>7 DEF C

\* A name begins behind its placeholder only.
LEMMA NameBegins ==
  ASSUME NEW p \in Nat, p # 0, ~Text!IsPlaceholder(p), ~Text!InName(p)
  PROVE  ~Text!InName(p + 1)
<1>1. \A s \in 1..(p + 1) - 1 : s # p =>
        s \in 1..p - 1 /\ \A k \in s + 1..p : k \in s + 1..p + 1
  BY UpTo
<1>2. SUFFICES ASSUME Text!InName(p + 1) PROVE FALSE
  OBVIOUS
<1>3. PICK s \in 1..(p + 1) - 1 :
        Text!IsPlaceholder(s) /\ \A k \in s + 1..p + 1 : sql[k] = "letter"
  BY Zenon, <1>2 DEF Text!InName
<1>4. s # p
  BY Zenon, <1>3
<1>5. s \in 1..p - 1 /\ \A k \in s + 1..p : k \in s + 1..p + 1
  BY Zenon, <1>1, <1>3, <1>4
<1>6. QED
  BY Zenon, <1>3, <1>5 DEF Text!InName

\* What a position adds, by its kind.
LEMMA RewritePlain ==
  ASSUME NEW p, NEW o, NEW d, ~Text!IsPlaceholder(p), ~Text!InName(p)
  PROVE  Text!Rewrite([out |-> o, order |-> d], p)
           = [out |-> o \o Text!AsChar(sql[p]), order |-> d]
  BY DEF Text!Rewrite

LEMMA RewriteMark ==
  ASSUME NEW p, NEW o, NEW d, Text!IsPlaceholder(p), ~Text!InName(p)
  PROVE  Text!Rewrite([out |-> o, order |-> d], p)
           = [out |-> Append(o, Text!Placeholder(Len(d) + 1)),
              order |-> Append(d, Text!Name(p + 1))]
  BY DEF Text!Rewrite

LEMMA RewriteName ==
  ASSUME NEW p, NEW r, ~Text!IsPlaceholder(p), Text!InName(p)
  PROVE  Text!Rewrite(r, p) = r
  BY DEF Text!Rewrite

\* The second scan goes on in the same text.
LEMMA ScanGoesOn ==
  ASSUME TextInv, scan = "placeholders", UNCHANGED <<sql, scan, last_semi>>,
         i' \in Nat, in_single' \in BOOLEAN, in_double' \in BOOLEAN,
         Reading', ColonsPaired', WrittenSoFar'
  PROVE  TextInv'
<1>1. scan' # "statements" /\ scan' # "done"
  OBVIOUS
<1>2. TextTyped'
  BY Zenon DEF TextInv, TextTyped
<1>3. OneStatement'
  BY Zenon, OneStatementAfter, OneStatementMeans DEF TextInv
<1>4. QED
  BY Zenon, <1>1, <1>2, <1>3, NotDoneAfter DEF TextInv

\* A byte is copied.
LEMMA PlainRead ==
  ASSUME TextInv, scan = "placeholders", i <= Len(sql), ~Text!IsPlaceholder(i),
         i' = i + 1, out' = out \o Text!AsChar(sql[i]),
         UNCHANGED <<sql, numbered, scan, last_semi, order>>,
         in_single' \in BOOLEAN, in_double' \in BOOLEAN, Reading',
         CodeColon(i) => (i < Len(sql) => sql[i + 1] # "colon")
  PROVE  TextInv'
<1>1. TextTyped /\ Reading /\ ColonsPaired /\ WrittenSoFar
  BY Zenon DEF TextInv
<1>2. /\ Len(sql) \in Nat /\ i \in 1..Len(sql) /\ i \in Nat /\ i # 0
      /\ i' \in Nat /\ i' - 1 = i /\ 0 \in 0..Len(sql) /\ (i' <= Len(sql) => i < Len(sql))
  BY <1>1, LenInNat DEF Reading, TextTyped
<1>3. ~Text!InName(i) /\ [out |-> out, order |-> order] = Text!Rewritten[i - 1]
  BY Zenon, <1>1 DEF WrittenSoFar
<1>4. WrittenSoFar'
  <2>1. Text!Rewritten[i] = [out |-> out', order |-> order']
    <3>1. Text!Rewritten[i] = Text!Rewrite(Text!Rewritten[i - 1], i)
      BY Zenon, <1>2, RewrittenAdds
    <3>2. Text!Rewrite([out |-> out, order |-> order], i)
            = [out |-> out \o Text!AsChar(sql[i]), order |-> order]
      BY Zenon, <1>3, RewritePlain
    <3>3. QED
      BY Zenon, <1>3, <3>1, <3>2
  <2>2. ~Text!InName(i + 1)
    BY Zenon, <1>2, <1>3, NameBegins
  <2>3. UNCHANGED Text!Rewritten /\ ~Text!InName(i)'
    BY Zenon, <2>2, RewrittenStays, AtNext
  <2>4. QED
    BY Zenon, <1>1, <1>2, <2>1, <2>3 DEF WrittenSoFar
<1>5. ColonsPaired'
  <2>1. CASE CodeColon(i)
    BY Zenon, <1>2, <2>1 DEF ColonsPaired
  <2>2. CASE ~CodeColon(i)
    <3>1. Text!ColonRun(i + 1) = {}
      BY Zenon, <1>2, <2>2, RunGoesOn
    <3>2. (i' - 2 * 0)..(i' - 1) = {} /\ 0 \in 0..Len(sql)
      BY Zenon, <1>2, UpTo
    <3>3. QED
      BY Zenon, <3>1, <3>2, AtNext DEF ColonsPaired
  <2>3. QED
    BY Zenon, <2>1, <2>2
<1>6. QED
  BY Zenon, <1>2, <1>4, <1>5, ScanGoesOn

\* A quote opens or closes a literal.
LEMMA PlaceholderQuote ==
  ASSUME TextInv, Text!SingleQuote \/ Text!DoubleQuote
  PROVE  TextInv'
<1>1. /\ scan = "placeholders" /\ i <= Len(sql) /\ i' = i + 1
      /\ sql[i] = "single" \/ sql[i] = "double"
      /\ out' = out \o Text!AsChar(sql[i])
      /\ UNCHANGED <<sql, numbered, scan, last_semi, order>>
  BY Zenon DEF Text!SingleQuote, Text!DoubleQuote, Text!Reads, Text!At
<1>2. TextTyped /\ Reading
  BY Zenon, <1>1 DEF TextInv
<1>3. sql[i] # "colon" /\ sql[i] \in {"single", "double"}
  BY <1>1
<1>4. Text!Opens(sql[i]) /\ Text!Toggle(sql[i])
  <2>1. CASE Text!SingleQuote
    <3>1. sql[i] = "single" /\ ~in_double /\ in_single' = ~in_single /\ UNCHANGED in_double
      BY Zenon, <2>1 DEF Text!SingleQuote, Text!Reads, Text!At
    <3>2. "single" # "double"
      OBVIOUS
    <3>3. QED
      BY Zenon, <3>1, <3>2 DEF Text!Opens, Text!Toggle
  <2>2. CASE Text!DoubleQuote
    <3>1. sql[i] = "double" /\ ~in_single /\ in_double' = ~in_double /\ UNCHANGED in_single
      BY Zenon, <2>2 DEF Text!DoubleQuote, Text!Reads, Text!At
    <3>2. "single" # "double"
      OBVIOUS
    <3>3. QED
      BY Zenon, <3>1, <3>2 DEF Text!Opens, Text!Toggle
  <2>3. QED
    BY Zenon, <2>1, <2>2
<1>5. in_single' \in BOOLEAN /\ in_double' \in BOOLEAN
  BY Zenon, <1>2, <1>4 DEF Text!Toggle, TextTyped
<1>6. Reading'
  BY Zenon, <1>1, <1>2, <1>3, <1>4, QuoteRead
<1>7. ~Text!IsPlaceholder(i) /\ ~CodeColon(i)
  BY Zenon, <1>3 DEF Text!IsPlaceholder, CodeColon
<1>8. QED
  BY Zenon, <1>1, <1>5, <1>6, <1>7, PlainRead

\* A colon that begins neither a cast nor a name, or another byte.
LEMMA CharRead ==
  ASSUME TextInv, Text!LoneColon \/ Text!Other
  PROVE  TextInv'
<1>1. /\ scan = "placeholders" /\ i <= Len(sql) /\ i' = i + 1
      /\ out' = out \o Text!AsChar(sql[i])
      /\ UNCHANGED <<sql, numbered, scan, in_single, in_double, last_semi, order>>
  BY Zenon DEF Text!LoneColon, Text!Other, Text!Reads, Text!At
<1>2. TextTyped /\ Reading
  BY Zenon, <1>1 DEF TextInv
<1>3. /\ ~Text!Opens(sql[i]) /\ ~Text!IsPlaceholder(i)
      /\ CodeColon(i) => (i < Len(sql) => sql[i + 1] # "colon")
  <2>1. CASE Text!LoneColon
    <3>1. sql[i] = "colon" /\ (i < Len(sql) => sql[i + 1] \notin {"colon", "letter"})
      BY Zenon, <2>1 DEF Text!LoneColon, Text!Reads, Text!At
    <3>2. sql[i] # "single" /\ sql[i] # "double"
      BY <3>1
    <3>3. QED
      BY Zenon, <3>1, <3>2 DEF Text!Opens, Text!IsPlaceholder
  <2>2. CASE Text!Other
    <3>1. ~Text!Opens(sql[i]) /\ (sql[i] = "colon" => ~Text!InCode)
      BY Zenon, <2>2 DEF Text!Other
    <3>2. Text!Region[i] = Text!Region[i - 1]
      BY Zenon, <1>1, <1>2, <3>1, OtherRead
    <3>3. Text!Region[i - 1] = "code" => Text!InCode
      BY <1>2 DEF Reading, FlagsTell, Text!InCode
    <3>4. QED
      BY Zenon, <3>1, <3>2, <3>3 DEF Text!IsPlaceholder, CodeColon
  <2>3. QED
    BY Zenon, <2>1, <2>2
<1>4. Text!Region[i] = Text!Region[i - 1]
  BY Zenon, <1>1, <1>2, <1>3, OtherRead
<1>5. i' \in 1..Len(sql) + 1 /\ i' - 1 = i
  BY <1>1, <1>2, LenInNat DEF Reading, TextTyped
<1>6. Reading'
  BY Zenon, <1>1, <1>2, <1>4, <1>5, FlagsStay
<1>7. in_single' \in BOOLEAN /\ in_double' \in BOOLEAN
  BY Zenon, <1>1, <1>2 DEF TextTyped
<1>8. QED
  BY Zenon, <1>1, <1>3, <1>6, <1>7, PlainRead

\* The end of the text.
LEMMA EndRead ==
  ASSUME TextInv, Text!EndOfText
  PROVE  TextInv'
<1>1. /\ scan = "placeholders" /\ scan' = "done" /\ i > Len(sql)
      /\ UNCHANGED <<sql, numbered, i, in_single, in_double, last_semi, out, order>>
  BY Zenon DEF Text!EndOfText
<1>2. TextTyped /\ Reading /\ WrittenSoFar /\ OneStatement
  BY Zenon, <1>1 DEF TextInv
<1>3. i - 1 = Len(sql) /\ scan' \notin {"statements", "placeholders", "refused"}
  BY <1>1, <1>2, LenInNat DEF Reading
<1>4. TextTyped'
  BY Zenon, <1>1, <1>2 DEF TextTyped
<1>5. OneStatement'
  <2>1. ~Second
    BY Zenon, <1>1, <1>2, OneStatementMeans
  <2>2. QED
    BY Zenon, <1>1, <1>3, <2>1, OneStatementAfter
<1>6. OnlyPlaceholdersRewritten'
  <2>1. UNCHANGED Text!Rewritten
    BY Zenon, <1>1, RewrittenStays
  <2>2. [out |-> out, order |-> order] = Text!Rewritten[Len(sql)]
    BY Zenon, <1>2, <1>3 DEF WrittenSoFar
  <2>3. QED
    BY Zenon, <1>1, <2>1, <2>2
       DEF OnlyPlaceholdersRewritten, Text!OnlyPlaceholdersRewritten
<1>7. QED
  BY Zenon, <1>3, <1>4, <1>5, <1>6 DEF TextInv

\* Two colons more make an even run of an even run, and one an odd run.
LEMMA RunOfPairs ==
  ASSUME NEW p \in Nat, NEW n \in Nat
  PROVE  /\ ((p - 2 * n)..(p - 1) \cup {p}) \cup {p + 1}
              = ((p + 2) - 2 * (n + 1))..((p + 2) - 1)
         /\ \A m \in Nat :
              (p - 2 * n)..(p - 1) \cup {p} # ((p + 1) - 2 * m)..((p + 1) - 1)
<1>1. ((p - 2 * n)..(p - 1) \cup {p}) \cup {p + 1}
        = ((p + 2) - 2 * (n + 1))..((p + 2) - 1)
  OBVIOUS
<1>2. ASSUME NEW m \in Nat,
             (p - 2 * n)..(p - 1) \cup {p} = ((p + 1) - 2 * m)..((p + 1) - 1)
      PROVE  FALSE
  <2>1. p - 2 * n \in (p - 2 * n)..(p - 1) \cup {p} /\ p \in (p - 2 * n)..(p - 1) \cup {p}
    OBVIOUS
  <2>2. p - 2 * n >= (p + 1) - 2 * m /\ m # 0
    BY <1>2, <2>1
  <2>3. (p + 1) - 2 * m \in ((p + 1) - 2 * m)..((p + 1) - 1)
    BY <2>2
  <2>4. (p + 1) - 2 * m >= p - 2 * n
    BY <1>2, <2>3
  <2>5. QED
    BY <2>2, <2>4
<1>3. QED
  BY Zenon, <1>1, <1>2

\* The pairs before a position fit into the text.
LEMMA PairsFit ==
  ASSUME NEW p \in Nat, NEW l \in Nat, p # 0, p < l, NEW n \in Nat,
         (p - 2 * n)..(p - 1) \subseteq 1..p - 1
  PROVE  n + 1 \in 0..l
<1>1. CASE n = 0
  BY <1>1
<1>2. CASE n # 0
  <2>1. p - 2 * n \in (p - 2 * n)..(p - 1)
    BY <1>2
  <2>2. p - 2 * n \in 1..p - 1
    BY Zenon, <2>1
  <2>3. QED
    BY <2>2
<1>3. QED
  BY Zenon, <1>1, <1>2

\* A cast is copied.
LEMMA CastRead ==
  ASSUME TextInv, Text!Cast
  PROVE  TextInv'
<1>1. /\ scan = "placeholders" /\ i <= Len(sql) /\ sql[i] = "colon" /\ Text!InCode
      /\ i < Len(sql) /\ sql[i + 1] = "colon" /\ i' = i + 2
      /\ out' = out \o Text!AsChar("colon") \o Text!AsChar("colon")
      /\ UNCHANGED <<sql, numbered, scan, in_single, in_double, last_semi, order>>
  BY Zenon DEF Text!Cast, Text!Reads, Text!At
<1>2. TextTyped /\ Reading /\ ColonsPaired /\ WrittenSoFar
  BY Zenon, <1>1 DEF TextInv
<1>3. /\ Len(sql) \in Nat /\ i \in 1..Len(sql) /\ i \in Nat /\ i # 0
      /\ i + 1 \in 1..Len(sql) /\ i + 1 \in Nat /\ i + 1 # 0 /\ (i + 1) - 1 = i
      /\ i' \in 1..Len(sql) + 1 /\ i' \in Nat /\ i' - 1 = i + 1 /\ (i + 1) + 1 = i + 2
      /\ \A m \in 0..Len(sql) : m \in Nat
  BY <1>1, <1>2, LenInNat DEF Reading, TextTyped
<1>4. Text!Region[i - 1] = "code" /\ ~Text!Opens("colon")
  BY <1>1, <1>2 DEF Reading, FlagsTell, Text!InCode, Literals, Text!Opens
<1>5. Text!Region[i] = "code" /\ Text!Region[i + 1] = "code"
  <2>1. Text!Region[i] = "code"
    BY Zenon, <1>1, <1>2, <1>4, OtherRead
  <2>2. Text!Region[i + 1] = Text!Literal("code", "colon")
    BY Zenon, <1>1, <1>3, <2>1, RegionLabels
  <2>3. Text!Literal("code", "colon") = "code"
    BY DEF Text!Literal
  <2>4. QED
    BY Zenon, <2>1, <2>2, <2>3
<1>6. PICK n \in 0..Len(sql) : Text!ColonRun(i) = (i - 2 * n)..(i - 1)
  BY Zenon, <1>1, <1>2, <1>4 DEF ColonsPaired
<1>7. CodeColon(i) /\ CodeColon(i + 1)
  BY Zenon, <1>1, <1>5 DEF CodeColon
<1>8. /\ Text!ColonRun(i + 1) = (i - 2 * n)..(i - 1) \cup {i}
      /\ Text!ColonRun(i + 2) = ((i - 2 * n)..(i - 1) \cup {i}) \cup {i + 1}
  BY Zenon, <1>3, <1>6, <1>7, RunGoesOn
<1>9. ~Text!IsPlaceholder(i) /\ ~Text!IsPlaceholder(i + 1)
  <2>1. "colon" # "letter"
    OBVIOUS
  <2>2. ~Text!IsPlaceholder(i)
    BY Zenon, <1>1, <2>1 DEF Text!IsPlaceholder
  <2>3. \A m \in 0..Len(sql) : Text!ColonRun(i + 1) # ((i + 1) - 2 * m)..((i + 1) - 1)
    <3>1. \A m \in Nat :
            (i - 2 * n)..(i - 1) \cup {i} # ((i + 1) - 2 * m)..((i + 1) - 1)
      <4>1. n \in Nat
        BY Zenon, <1>3, <1>6
      <4>2. QED
        BY Zenon, <1>3, <4>1, RunOfPairs
    <3>2. QED
      BY Zenon, <1>3, <1>8, <3>1
  <2>4. QED
    BY Zenon, <2>2, <2>3 DEF Text!IsPlaceholder
<1>10. ~Text!InName(i) /\ ~Text!InName(i + 1) /\ ~Text!InName(i + 2)
  BY Zenon, <1>1, <1>2, <1>3, <1>9, NameBegins DEF WrittenSoFar
<1>11. WrittenSoFar'
  <2>1. Text!Rewritten[i] = [out |-> out \o Text!AsChar("colon"), order |-> order]
    <3>1. Text!Rewritten[i] = Text!Rewrite(Text!Rewritten[i - 1], i)
      BY Zenon, <1>3, RewrittenAdds
    <3>2. Text!Rewritten[i - 1] = [out |-> out, order |-> order]
      BY Zenon, <1>2 DEF WrittenSoFar
    <3>3. Text!Rewrite([out |-> out, order |-> order], i)
            = [out |-> out \o Text!AsChar(sql[i]), order |-> order]
      BY Zenon, <1>9, <1>10, RewritePlain
    <3>4. QED
      BY Zenon, <1>1, <3>1, <3>2, <3>3
  <2>2. Text!Rewritten[i + 1] = [out |-> out', order |-> order']
    <3>1. Text!Rewritten[i + 1] = Text!Rewrite(Text!Rewritten[i], i + 1)
      BY Zenon, <1>3, RewrittenAdds
    <3>2. Text!Rewrite([out |-> out \o Text!AsChar("colon"), order |-> order], i + 1)
            = [out |-> (out \o Text!AsChar("colon")) \o Text!AsChar(sql[i + 1]),
               order |-> order]
      BY Zenon, <1>9, <1>10, RewritePlain
    <3>3. QED
      BY Zenon, <1>1, <2>1, <3>1, <3>2
  <2>3. UNCHANGED Text!Rewritten /\ ~Text!InName(i)'
    BY Zenon, <1>1, <1>10, RewrittenStays, AtNext
  <2>4. QED
    BY Zenon, <1>1, <1>2, <1>3, <2>2, <2>3 DEF WrittenSoFar
<1>12. ColonsPaired'
  <2>1. Text!ColonRun(i') = (i' - 2 * (n + 1))..(i' - 1)
    BY Zenon, <1>1, <1>3, <1>6, <1>8, RunOfPairs
  <2>2. n + 1 \in 0..Len(sql)
    <3>1. Text!ColonRun(i) \subseteq 1..i - 1
      BY Zenon DEF Text!ColonRun
    <3>2. QED
      BY Zenon, <1>1, <1>3, <1>6, <3>1, PairsFit
  <2>3. QED
    BY Zenon, <1>1, <2>1, <2>2, AtNext DEF ColonsPaired
<1>13. Reading'
  BY Zenon, <1>1, <1>2, <1>3, <1>4, <1>5, FlagsStay
<1>14. in_single' \in BOOLEAN /\ in_double' \in BOOLEAN
  BY Zenon, <1>1, <1>2 DEF TextTyped
<1>15. QED
  BY Zenon, <1>1, <1>3, <1>11, <1>12, <1>13, <1>14, ScanGoesOn

\* Positions in a name and behind it.
LEMMA Between ==
  ASSUME NEW n \in Nat, NEW p \in 1..n, NEW j \in p + 1..n + 1, NEW k \in p..j - 1, k # p
  PROVE  /\ k - 1 \in Nat /\ k - 1 \in p..j - 1 /\ k - 1 < k
         /\ k \in 1..n /\ k \in p + 1..j - 1 /\ p \in 1..k - 1
         /\ \A m \in p + 1..k : m \in p + 1..j - 1
  OBVIOUS

LEMMA Behind ==
  ASSUME NEW n \in Nat, NEW p \in Nat, NEW j \in p + 1..n + 1, j # p + 1
  PROVE  /\ j \in Nat /\ j \in 1..n + 1 /\ j - 1 \in p + 1..j - 1 /\ j - 1 \in Nat
         /\ j - 1 # 0 /\ (j - 1) + 1 = j /\ 0 \in 0..n
         /\ \A s \in 1..j - 1 : j \in s + 1..j
  OBVIOUS

\* The type of a part and of an extension of a sequence.
LEMMA PartTyped ==
  ASSUME NEW S, NEW s \in Seq(S), NEW a \in Nat, NEW b \in Nat, b - 1 <= Len(s)
  PROVE  SubSeq(s, a + 1, b - 1) \in Seq(S)
  OBVIOUS

LEMMA AppendTyped ==
  ASSUME NEW S, NEW s \in Seq(S), NEW e \in S
  PROVE  Len(Append(s, e)) = Len(s) + 1 /\ Append(s, e) \in Seq(S)
  OBVIOUS

\* A name ends.
LEMMA NameEnds ==
  ASSUME Len(sql) \in Nat, NEW p \in 1..Len(sql)
  PROVE  /\ Text!NameEnd(p) \in p..Len(sql) + 1
         /\ \A k \in p..Text!NameEnd(p) - 1 : sql[k] = "letter"
         /\ Text!NameEnd(p) <= Len(sql) => sql[Text!NameEnd(p)] # "letter"
<1> DEFINE T == {k \in Nat : k \in p..Len(sql) + 1 /\ (k <= Len(sql) => sql[k] # "letter")}
<1>1. PICK j \in T : \A k \in T : ~(k < j)
  <2>1. Len(sql) + 1 \in p..Len(sql) + 1 /\ ~(Len(sql) + 1 <= Len(sql)) /\ Len(sql) + 1 \in Nat
    OBVIOUS
  <2>2. T \in SUBSET Nat /\ T # {}
    BY Zenon, <2>1
  <2> HIDE DEF T
  <2>3. QED
    BY Zenon, <2>2, LeastNumber
<1>2. j \in p..Len(sql) + 1 /\ (j <= Len(sql) => sql[j] # "letter")
  BY Zenon, <1>1
<1>3. \A k \in p..j - 1 : sql[k] = "letter"
  <2>1. \A k \in p..j - 1 : k \in Nat /\ k < j /\ k \in p..Len(sql) + 1
    BY <1>2
  <2>2. QED
    BY Zenon, <1>1, <2>1
<1>4. QED
  BY Zenon, <1>2, <1>3 DEF Text!NameEnd

\* The letters of a name change neither the literal nor what is written.
LEMMA NamePassed ==
  ASSUME TextTyped, NEW p \in 1..Len(sql), Text!IsPlaceholder(p),
         Text!Region[p] = "code", NEW j \in p + 1..Len(sql) + 1,
         \A k \in p + 1..j - 1 : sql[k] = "letter"
  PROVE  Text!Region[j - 1] = "code" /\ Text!Rewritten[j - 1] = Text!Rewritten[p]
<1> DEFINE Same(k) == Text!Region[k] = "code" /\ Text!Rewritten[k] = Text!Rewritten[p]
           T == {k \in Nat : k \in p..j - 1 /\ ~Same(k)}
<1>0. Len(sql) \in Nat
  BY Zenon, LenInNat
<1>1. j - 1 \in Nat /\ j - 1 \in p..j - 1
  BY <1>0
<1>2. SUFFICES ASSUME T # {} PROVE FALSE
  BY Zenon, <1>1
<1>3. PICK k \in T : \A m \in T : ~(m < k)
  <2>1. T \in SUBSET Nat
    BY Zenon
  <2> HIDE DEF T
  <2>2. QED
    BY Zenon, <1>2, <2>1, LeastNumber
<1>4. k \in Nat /\ k \in p..j - 1 /\ ~Same(k) /\ k # p
  BY Zenon, <1>3
<1>5. /\ k - 1 \in Nat /\ k - 1 \in p..j - 1 /\ k - 1 < k
      /\ k \in 1..Len(sql) /\ k \in p + 1..j - 1 /\ p \in 1..k - 1
      /\ \A m \in p + 1..k : m \in p + 1..j - 1
  <2>1. k \in Nat /\ k \in p..j - 1 /\ k # p
    BY Zenon, <1>4
  <2>2. QED
    BY <1>0, <2>1, Between
<1>6. Same(k - 1)
  BY Zenon, <1>3, <1>5
<1>7. sql[k] = "letter"
  BY Zenon, <1>5
<1>8. Text!Region[k] = "code"
  <2>1. Text!Region[k] = Text!Literal("code", "letter")
    BY Zenon, <1>0, <1>5, <1>6, <1>7, RegionLabels
  <2>2. Text!Literal("code", "letter") = "code"
    BY DEF Text!Literal
  <2>3. QED
    BY Zenon, <2>1, <2>2
<1>9. Text!InName(k)
  BY Zenon, <1>5 DEF Text!InName
<1>10. ~Text!IsPlaceholder(k)
  <2>1. "letter" # "colon"
    OBVIOUS
  <2>2. QED
    BY Zenon, <1>7, <2>1 DEF Text!IsPlaceholder
<1>11. Text!Rewritten[k] = Text!Rewritten[k - 1]
  <2>1. Text!Rewritten[k] = Text!Rewrite(Text!Rewritten[k - 1], k)
    BY Zenon, <1>0, <1>5, RewrittenAdds
  <2>2. QED
    BY Zenon, <1>9, <1>10, <2>1, RewriteName
<1>12. QED
  BY Zenon, <1>4, <1>6, <1>8, <1>11

\* A placeholder takes the place of a name.
LEMMA NamedRead ==
  ASSUME TextInv, Text!Named
  PROVE  TextInv'
<1>1. /\ scan = "placeholders" /\ i <= Len(sql) /\ sql[i] = "colon" /\ Text!InCode
      /\ i < Len(sql) /\ sql[i + 1] = "letter" /\ i' = Text!NameEnd(i + 1)
      /\ order' = Append(order, Text!Name(i + 1))
      /\ out' = Append(out, Text!Placeholder(Len(order')))
      /\ UNCHANGED <<sql, numbered, scan, in_single, in_double, last_semi>>
  BY Zenon DEF Text!Named, Text!Reads, Text!At
<1>2. TextTyped /\ Reading /\ ColonsPaired /\ WrittenSoFar
  BY Zenon, <1>1 DEF TextInv
<1>3. /\ Len(sql) \in Nat /\ i \in 1..Len(sql) /\ i \in Nat /\ i # 0
      /\ i + 1 \in 1..Len(sql) /\ i + 1 \in Nat /\ i + 1 <= Len(sql)
  BY <1>1, <1>2, LenInNat DEF Reading, TextTyped
<1>4. Text!Region[i - 1] = "code" /\ ~Text!Opens("colon")
  BY <1>1, <1>2 DEF Reading, FlagsTell, Text!InCode, Literals, Text!Opens
<1>5. Text!Region[i] = "code"
  BY Zenon, <1>1, <1>2, <1>4, OtherRead
<1>6. Text!IsPlaceholder(i) /\ ~Text!InName(i)
  BY Zenon, <1>1, <1>2, <1>4 DEF Text!IsPlaceholder, ColonsPaired, WrittenSoFar
<1>7. PICK j : j = i'
  BY Zenon
<1>8. /\ j \in i + 1..Len(sql) + 1
      /\ \A k \in i + 1..j - 1 : sql[k] = "letter"
      /\ j <= Len(sql) => sql[j] # "letter"
  BY Zenon, <1>1, <1>3, <1>7, NameEnds
<1>9. j # i + 1
  BY Zenon, <1>1, <1>3, <1>8
<1>10. /\ j \in Nat /\ j \in 1..Len(sql) + 1 /\ j - 1 \in i + 1..j - 1 /\ j - 1 \in Nat
       /\ j - 1 # 0 /\ (j - 1) + 1 = j /\ 0 \in 0..Len(sql)
       /\ \A s \in 1..j - 1 : j \in s + 1..j
  <2>1. Len(sql) \in Nat /\ i \in Nat /\ j \in i + 1..Len(sql) + 1 /\ j # i + 1
    BY Zenon, <1>3, <1>8, <1>9
  <2>2. QED
    BY Zenon, <2>1, Behind
<1>11. Text!Region[j - 1] = "code" /\ Text!Rewritten[j - 1] = Text!Rewritten[i]
  BY Zenon, <1>2, <1>3, <1>5, <1>6, <1>8, NamePassed
<1>12. order \in Seq(Seq(Text!Byte)) /\ Text!Name(i + 1) \in Seq(Text!Byte)
  <2>1. sql \in Seq(Text!Byte) /\ i \in Nat /\ j \in Nat /\ j - 1 <= Len(sql) /\ i + 1 >= 1
    BY <1>2, <1>3, <1>8, <1>10 DEF TextTyped
  <2>2. SubSeq(sql, i + 1, j - 1) \in Seq(Text!Byte)
    BY Zenon, <2>1, PartTyped
  <2>3. QED
    BY Zenon, <1>1, <1>2, <1>7, <2>2 DEF Text!Name, WrittenSoFar
<1>13. Len(order') = Len(order) + 1 /\ order' \in Seq(Seq(Text!Byte))
  BY Zenon, <1>1, <1>12, AppendTyped
<1>14. WrittenSoFar'
  <2>1. Text!Rewritten[i] = [out |-> out', order |-> order']
    <3>1. Text!Rewritten[i] = Text!Rewrite(Text!Rewritten[i - 1], i)
      BY Zenon, <1>3, RewrittenAdds
    <3>2. Text!Rewritten[i - 1] = [out |-> out, order |-> order]
      BY Zenon, <1>2 DEF WrittenSoFar
    <3>3. Text!Rewrite([out |-> out, order |-> order], i)
            = [out |-> Append(out, Text!Placeholder(Len(order) + 1)),
               order |-> Append(order, Text!Name(i + 1))]
      BY Zenon, <1>6, RewriteMark
    <3>4. QED
      BY Zenon, <1>1, <1>13, <3>1, <3>2, <3>3
  <2>2. j <= Len(sql) => ~Text!InName(j)
    BY Zenon, <1>8, <1>10 DEF Text!InName
  <2>3. UNCHANGED Text!Rewritten /\ (j <= Len(sql) => ~Text!InName(i)')
    BY Zenon, <1>1, <1>7, <2>2, RewrittenStays, AtNext
  <2>4. QED
    BY Zenon, <1>1, <1>7, <1>11, <1>13, <2>1, <2>3 DEF WrittenSoFar
<1>15. ColonsPaired'
  <2>1. "letter" # "colon"
    OBVIOUS
  <2>2. ~CodeColon(j - 1)
    BY Zenon, <1>8, <1>10, <2>1 DEF CodeColon
  <2>3. Text!ColonRun(j) = {}
    BY Zenon, <1>10, <2>2, RunGoesOn
  <2>4. (j - 2 * 0)..(j - 1) = {}
    BY Zenon, <1>10, UpTo
  <2>5. QED
    BY Zenon, <1>1, <1>7, <1>10, <2>3, <2>4, AtNext DEF ColonsPaired
<1>16. Reading'
  BY Zenon, <1>1, <1>2, <1>4, <1>7, <1>10, <1>11, FlagsStay
<1>17. in_single' \in BOOLEAN /\ in_double' \in BOOLEAN
  BY Zenon, <1>1, <1>2 DEF TextTyped
<1>18. QED
  BY Zenon, <1>1, <1>7, <1>10, <1>14, <1>15, <1>16, <1>17, ScanGoesOn

----------------------------------------------------------------------------
(* The whole of the two scans                                               *)

LEMMA TextInitial == Text!Init => TextInv
<1> SUFFICES ASSUME Text!Init PROVE TextInv
  OBVIOUS
<1>1. PICK n \in 0..MaxLen : sql \in [1..n -> Text!Byte]
  BY Zenon DEF Text!Init, Text!ScanInit
<1>2. n \in Nat
  BY TextAssumption DEF TextAssumption
<1>3. sql \in Seq(Text!Byte)
  BY <1>1, <1>2
<1>4. /\ scan = "statements" /\ i = 1 /\ last_semi = 0
      /\ in_single = FALSE /\ in_double = FALSE
      /\ out = << >> /\ order = << >>
  BY Zenon DEF Text!Init, Text!ScanInit
<1>5. in_single \in BOOLEAN /\ in_double \in BOOLEAN
  BY Zenon, <1>4
<1>6. TextTyped
  BY <1>3, <1>4, <1>5 DEF TextTyped
<1>7. i \in 1..Len(sql) + 1 /\ i - 1 = 0 /\ Len(sql) \in Nat
  BY <1>4, <1>6, LenInNat
<1>8. Text!Region[i - 1] = "code"
  BY Zenon, <1>7, RegionLabels
<1>9. Reading
  BY <1>4, <1>7, <1>8 DEF Reading, FlagsTell, Literals
<1>10. SemicolonFound
  BY <1>4, <1>7 DEF SemicolonFound
<1>11. scan \notin {"placeholders", "refused", "done"}
  BY <1>4
<1>12. OneStatement
  BY Zenon, <1>11, OneStatementMeans
<1>13. QED
  BY Zenon, <1>4, <1>6, <1>9, <1>10, <1>11, <1>12, NotDone DEF TextInv

LEMMA TextUnchanged ==
  ASSUME TextInv, UNCHANGED Text!vars
  PROVE  TextInv'
<1>1. UNCHANGED <<sql, numbered, scan, i, in_single, in_double, last_semi, out, order>>
  BY Zenon DEF Text!vars
<1>2. UNCHANGED Text!Region /\ UNCHANGED Text!Rewritten
  BY Zenon, <1>1, TextStays, RewrittenStays
<1>3. TextTyped'
  BY Zenon, <1>1 DEF TextInv, TextTyped
<1>4. Reading => Reading'
  BY Zenon, <1>1, <1>2 DEF Reading, FlagsTell
<1>5. SemicolonFound => SemicolonFound'
  BY Zenon, <1>1, TextStays DEF SemicolonFound
<1>6. ColonsPaired => ColonsPaired'
  BY Zenon, <1>1, <1>2, AtNext DEF ColonsPaired
<1>7. WrittenSoFar => WrittenSoFar'
  BY Zenon, <1>1, <1>2, AtNext DEF WrittenSoFar
<1>8. OneStatement'
  BY Zenon, <1>1, OneStatementMeans, OneStatementAfter DEF TextInv
<1>9. OnlyPlaceholdersRewritten'
  BY Zenon, <1>1, <1>2
     DEF TextInv, OnlyPlaceholdersRewritten, Text!OnlyPlaceholdersRewritten
<1>10. QED
  BY Zenon, <1>1, <1>3, <1>4, <1>5, <1>6, <1>7, <1>8, <1>9 DEF TextInv

\* Every step of the two scans keeps the invariant.
LEMMA TextKept == TextInv /\ [Text!Next]_(Text!vars) => TextInv'
<1> SUFFICES ASSUME TextInv, [Text!Next]_(Text!vars) PROVE TextInv'
  OBVIOUS
<1>1. CASE Text!reject_multi_statement /\ UNCHANGED <<numbered, out, order>>
  BY Zenon, <1>1, ByteRead, SemicolonRead, TextRead DEF Text!reject_multi_statement
<1>2. CASE Text!rewrite_placeholders
  BY Zenon, <1>2, PlaceholderQuote, CharRead, CastRead, NamedRead, EndRead
     DEF Text!rewrite_placeholders
<1>3. CASE UNCHANGED Text!vars
  BY Zenon, <1>3, TextUnchanged
<1>4. QED
  BY Zenon, <1>1, <1>2, <1>3 DEF Text!Next

\* reject_multi_statement accepts exactly the texts of one statement, for texts
\* of every length.
THEOREM OneStatementAccepted == Text!Spec => []OneStatement
<1>1. TextInv => OneStatement
  BY Zenon DEF TextInv
<1>2. QED
  BY <1>1, TextInitial, TextKept, PTL DEF Text!Spec

\* rewrite_placeholders writes, for texts of every length and both styles of
\* placeholder, what the definition without a scan says: the placeholders
\* outside literals numbered from 1, casts and everything else kept.
THEOREM PlaceholdersFound == Text!Spec => []OnlyPlaceholdersRewritten
<1>1. TextInv => OnlyPlaceholdersRewritten
  BY Zenon DEF TextInv
<1>2. QED
  BY <1>1, TextInitial, TextKept, PTL DEF Text!Spec
============================================================================
