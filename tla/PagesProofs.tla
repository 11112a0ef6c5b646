---------------------------- MODULE PagesProofs ----------------------------
(***************************************************************************)
(* A listing of resources lists each row once, and a stream repeats and    *)
(* skips none, for tables, pages and batches of every size.                *)
(*                                                                         *)
(* Both read a table with ORDER BY ... LIMIT, so the rows of a page are    *)
(* the least of what the query finds (LeastRows); that is where the two    *)
(* arguments meet.                                                         *)
(***************************************************************************)
EXTENDS Pages, FiniteSetTheorems, TLAPS

(* Sets of naturals.                                                        *)

LEMMA LeastNatural ==
  ASSUME NEW T \in SUBSET Nat, T # {}
  PROVE  \E x \in T : \A y \in T : x <= y
<1>1. PICK x \in T : \A y \in T : ~ (<<y, x>> \in OpToRel(<, Nat))
  BY NatLessThanWellFounded, WFMin, Zenon
<1>2. ASSUME NEW y \in T, y < x PROVE FALSE
  <2>1. <<y, x>> \in Nat \X Nat /\ <<y, x>>[1] < <<y, x>>[2]
    BY <1>2
  <2>2. <<y, x>> \in OpToRel(<, Nat)
    BY <2>1, Zenon DEF OpToRel
  <2>3. QED
    BY <1>1, <2>2, Zenon
<1>3. QED
  BY <1>2

LEMMA GreatestNatural ==
  ASSUME NEW T \in SUBSET Nat, T # {}, NEW n \in Nat, \A t \in T : t <= n
  PROVE  \E x \in T : \A y \in T : y <= x
<1> DEFINE Above == {k \in Nat : \A t \in T : t <= k}
<1>1. n \in Above /\ Above \in SUBSET Nat
  OBVIOUS
<1>2. PICK m \in Above : \A k \in Above : m <= k
  BY <1>1, LeastNatural, Zenon
<1>3. m \in Nat /\ \A t \in T : t <= m
  OBVIOUS
<1>4. ASSUME m \notin T PROVE FALSE
  <2>1. \A t \in T : t < m
    BY <1>3, <1>4
  <2>2. PICK t \in T : TRUE
    BY Zenon
  <2>3. m > 0
    BY <1>3, <2>1, <2>2
  <2>4. m - 1 \in Nat /\ \A s \in T : s <= m - 1
    BY <1>3, <2>1, <2>3
  <2>5. QED
    BY <1>2, <1>3, <2>4
<1>5. QED
  BY <1>3, <1>4

(* The first rows of a set, in order.                                       *)

LeastRows(S, n) == {r \in S : Cardinality({s \in S : s < r}) < n}

LEMMA RowsAreFinite ==
  ASSUME NEW N \in Nat, NEW S \in SUBSET (1..N)
  PROVE  IsFiniteSet(S) /\ Cardinality(S) \in Nat /\ S \in SUBSET Nat
<1>1. IsFiniteSet(1..N)
  BY FS_Interval
<1>2. IsFiniteSet(S)
  BY <1>1, FS_Subset, Zenon
<1>3. Cardinality(S) \in Nat
  BY <1>2, FS_CardinalityType, Zenon
<1>4. S \in SUBSET Nat
  OBVIOUS
<1>5. QED
  BY <1>2, <1>3, <1>4

LEMMA SmallerSet ==
  ASSUME NEW N \in Nat, NEW S \in SUBSET (1..N), NEW T \in SUBSET S
  PROVE  Cardinality(T) \in Nat /\ Cardinality(S) \in Nat /\ Cardinality(T) <= Cardinality(S)
<1>1. IsFiniteSet(S) /\ Cardinality(S) \in Nat
  BY RowsAreFinite, Zenon
<1>2. IsFiniteSet(T) /\ Cardinality(T) <= Cardinality(S)
  BY <1>1, FS_Subset, Zenon
<1>3. QED
  BY <1>1, <1>2, FS_CardinalityType, Zenon

LEMMA LeastRowsPrefix ==
  ASSUME NEW N \in Nat, NEW S \in SUBSET (1..N), NEW n \in Nat,
         NEW r \in LeastRows(S, n), NEW s \in S, s < r
  PROVE  s \in LeastRows(S, n)
<1> DEFINE below(x) == {t \in S : t < x}
<1>1. S \in SUBSET Nat /\ r \in S /\ Cardinality(below(r)) < n
  BY Zenon, RowsAreFinite DEF LeastRows
<1>2. below(r) \in SUBSET (1..N)
  BY Zenon
<1>3. \A t \in S : t < s => t < r
  BY <1>1
<1>4. below(s) \in SUBSET below(r)
  BY <1>3, Zenon
<1> HIDE DEF below
<1>5. /\ Cardinality(below(s)) <= Cardinality(below(r))
      /\ Cardinality(below(s)) \in Nat /\ Cardinality(below(r)) \in Nat
  BY <1>2, <1>4, SmallerSet, Zenon
<1>6. Cardinality(below(s)) < n
  BY <1>1, <1>5
<1>7. QED
  BY <1>6, Zenon DEF LeastRows, below

LEMMA LeastRowsNonempty ==
  ASSUME NEW S \in SUBSET Nat, S # {}, NEW n \in Nat \ {0}
  PROVE  LeastRows(S, n) # {}
<1> DEFINE below(x) == {t \in S : t < x}
<1>1. PICK x \in S : \A y \in S : x <= y
  BY LeastNatural, Zenon
<1>2. below(x) = {}
  <2>1. \A y \in S : ~(y < x)
    BY <1>1
  <2>2. QED
    BY <2>1, Zenon
<1> HIDE DEF below
<1>3. Cardinality(below(x)) = 0
  BY <1>2, FS_EmptySet, Zenon
<1>4. Cardinality(below(x)) < n
  BY <1>3
<1>5. QED
  BY <1>4, Zenon DEF LeastRows, below

LEMMA ShortPageIsAll ==
  ASSUME NEW N \in Nat, NEW S \in SUBSET (1..N), NEW n \in Nat,
         Cardinality(LeastRows(S, n)) < n
  PROVE  LeastRows(S, n) = S
<1> DEFINE rest == S \ LeastRows(S, n)
           below(x) == {t \in S : t < x}
<1>1. LeastRows(S, n) \subseteq S /\ S \in SUBSET Nat /\ rest \in SUBSET Nat
  BY RowsAreFinite, Zenon DEF LeastRows
<1>2. ASSUME rest # {} PROVE FALSE
  <2>1. PICK x \in rest : \A y \in rest : x <= y
    BY <1>1, <1>2, LeastNatural, Zenon
  <2>2. \A t \in S : t < x => t \in LeastRows(S, n)
    BY <1>1, <2>1
  <2>3. below(x) \in SUBSET LeastRows(S, n) /\ LeastRows(S, n) \in SUBSET (1..N)
    BY <1>1, <2>2, Zenon
  <2> HIDE DEF below
  <2>4. /\ Cardinality(below(x)) <= Cardinality(LeastRows(S, n))
        /\ Cardinality(below(x)) \in Nat /\ Cardinality(LeastRows(S, n)) \in Nat
    BY <2>3, SmallerSet, Zenon
  <2>5. Cardinality(below(x)) < n
    BY <2>4
  <2>6. QED
    BY <2>5, Zenon DEF LeastRows, below
<1>3. QED
  BY <1>1, <1>2

----------------------------------------------------------------------------
(* ListPages                                                                *)

\* The instance has its own copy of FiniteSets.
LEMMA ListingCardinality == \A S : Listing!Cardinality(S) = Cardinality(S)
  BY Zenon DEF Cardinality, Listing!Cardinality

ListingTyped ==
  /\ lrows \in SUBSET Listing!Row /\ lacking \in SUBSET Listing!Row
  /\ listed \in SUBSET Listing!Row /\ lstayed \in SUBSET lrows
  /\ mode \in {"keyset", "offset"} /\ lpc \in {"listing", "done"}
  /\ cursor \in Nat

Promised == mode = "keyset" /\ Listing!Cardinality(lacking) < PageSize

\* What was listed lies at or before the cursor, and every resource that
\* stayed and lies at or before the cursor was listed.
CursorSplits ==
  /\ \A r \in listed : r <= cursor
  /\ \A r \in lstayed \ lacking : r <= cursor => r \in listed

ListingInv ==
  /\ ListingTyped
  /\ ListedExactly
  /\ Promised /\ lpc = "listing" => CursorSplits

LEMMA ListingWritten ==
  ASSUME ListingInv, NEW r \in Listing!Row, Listing!Insert(r) \/ Listing!Delete(r)
  PROVE  ListingInv'
<1>1. /\ UNCHANGED <<lacking, mode, keyed, lpc, cursor, listed, relisted>>
      /\ lrows' \in SUBSET (lrows \cup {r}) /\ lstayed' \in SUBSET lstayed
      /\ lstayed' \in SUBSET lrows'
  BY DEF Listing!Insert, Listing!Delete, ListingInv, ListingTyped
<1>2. ListingTyped'
  BY <1>1 DEF ListingInv, ListingTyped
<1>3. ListedExactly'
  BY <1>1 DEF ListingInv, ListedExactly, Listing!ListedExactly
<1>4. (Promised /\ lpc = "listing" => CursorSplits)'
  BY <1>1 DEF ListingInv, Promised, CursorSplits
<1>5. QED
  BY <1>2, <1>3, <1>4 DEF ListingInv

\* A keyset page holds the first rows beyond the cursor.
LEMMA KeysetPage ==
  ASSUME mode = "keyset"
  PROVE  Listing!run_list_query = LeastRows({r \in lrows : r > cursor}, PageSize)
<1> DEFINE S == {r \in lrows : r > cursor}
<1>1. Listing!run_list_query = {r \in S : Listing!Rank(r, S) < PageSize}
  BY DEF Listing!run_list_query
<1>2. \A r : Listing!Rank(r, S) = Cardinality({s \in S : s < r})
  BY ListingCardinality, Zenon DEF Listing!Rank
<1> HIDE DEF S
<1>3. LeastRows(S, PageSize) = {r \in S : Cardinality({s \in S : s < r}) < PageSize}
  BY Zenon DEF LeastRows
<1>4. Listing!run_list_query = LeastRows(S, PageSize)
  BY <1>1, <1>2, <1>3
<1>5. QED
  BY <1>4, Zenon DEF S

LEMMA PageIsRows ==
  ASSUME ListingTyped
  PROVE  Listing!run_list_query \in SUBSET lrows
  BY DEF ListingTyped, Listing!run_list_query

LEMMA GreatestResource ==
  ASSUME NEW S \in SUBSET Listing!Row, S # {}
  PROVE  Listing!Greatest(S) \in S /\ \A r \in S : r <= Listing!Greatest(S)
<1>1. ListRows \in Nat /\ S \in SUBSET Nat /\ \A r \in S : r <= ListRows
  BY ListAssumption DEF ListAssumption, Listing!Row
<1>2. \E x \in S : \A y \in S : y <= x
  BY <1>1, GreatestNatural, Zenon
<1>3. QED
  BY <1>2, Zenon DEF Listing!Greatest

\* What one page does to the cursor.
LEMMA PageMoves ==
  ASSUME ListingTyped, Promised, NEW b, b = Listing!run_list_query, lpc = "listing"
  PROVE  /\ \A r \in b : r > cursor
         /\ Listing!Cardinality(b) \in Nat
         /\ \A r \in b, s \in lrows : s > cursor /\ s <= r => s \in b
         /\ Listing!Cardinality(b) < PageSize => \A s \in lrows : s > cursor => s \in b
         /\ ~(Listing!Cardinality(b) < PageSize) => b \ lacking # {}
<1> DEFINE S == {r \in lrows : r > cursor}
<1>1. ListRows \in Nat /\ PageSize \in Nat
  BY ListAssumption DEF ListAssumption
<1>2. S \in SUBSET (1..ListRows) /\ lacking \in SUBSET (1..ListRows)
  BY Zenon DEF ListingTyped, Listing!Row
<1>3. b = LeastRows(S, PageSize)
  BY KeysetPage, Zenon DEF Promised
<1>4. b \subseteq S
  BY <1>3, Zenon DEF LeastRows
<1>5. ASSUME NEW r \in b, NEW s \in lrows, s > cursor, s <= r PROVE s \in b
  <2>1. s \in S /\ (s = r \/ s < r)
    BY <1>2, <1>4, <1>5
  <2>2. QED
    BY <1>1, <1>2, <1>3, <1>5, <2>1, LeastRowsPrefix, Zenon
<1>6. Cardinality(b) < PageSize => b = S
  BY <1>1, <1>2, <1>3, ShortPageIsAll, Zenon
<1>7. ASSUME ~(Cardinality(b) < PageSize), b \ lacking = {} PROVE FALSE
  <2>1. b \in SUBSET lacking
    BY <1>7
  <2>2. /\ Cardinality(b) <= Cardinality(lacking)
        /\ Cardinality(b) \in Nat /\ Cardinality(lacking) \in Nat
    BY <1>1, <1>2, <2>1, SmallerSet, Zenon
  <2>3. Cardinality(lacking) < PageSize
    BY ListingCardinality, Zenon DEF Promised
  <2>4. QED
    BY <1>1, <1>7, <2>2, <2>3
<1>8. Listing!Cardinality(b) = Cardinality(b) /\ Cardinality(b) \in Nat
  BY <1>1, <1>2, <1>4, ListingCardinality, SmallerSet, Zenon
<1>9. QED
  BY <1>4, <1>5, <1>6, <1>7, <1>8

LEMMA ListingPaged ==
  ASSUME ListingInv, Listing!list_resources
  PROVE  ListingInv'
<1> DEFINE b == Listing!run_list_query
           resources == b \ lacking
<1>1. /\ lpc = "listing"
      /\ cursor' = Listing!NextCursor(b, resources)
      /\ lpc' = IF cursor' = 0 THEN "done" ELSE "listing"
      /\ listed' = listed \cup resources
      /\ relisted' = relisted \cup (listed \cap resources)
      /\ UNCHANGED <<lrows, lacking, mode, keyed, lstayed>>
  BY DEF Listing!list_resources, Listing!Absent
<1>2. ListingTyped /\ b \in SUBSET lrows /\ lrows \in SUBSET Listing!Row
  BY PageIsRows DEF ListingInv, ListingTyped
<1>3. /\ ListRows \in Nat /\ PageSize \in Nat
      /\ Listing!Row = 1..ListRows /\ Listing!Row \subseteq Nat
      /\ b \in SUBSET (1..ListRows) /\ resources \in SUBSET Listing!Row
  <2>1. ListRows \in Nat /\ PageSize \in Nat
    BY ListAssumption DEF ListAssumption
  <2>2. Listing!Row = 1..ListRows /\ Listing!Row \subseteq Nat
    BY <2>1 DEF Listing!Row
  <2>3. QED
    BY <1>2, <2>1, <2>2, Zenon
<1> HIDE DEF b
<1>4. Listing!Cardinality(b) \in Nat
  BY <1>3, RowsAreFinite, ListingCardinality, Zenon
<1>5. resources # {} => /\ Listing!Greatest(resources) \in resources
                        /\ \A r \in resources : r <= Listing!Greatest(resources)
  BY <1>3, GreatestResource, Zenon
<1> HIDE DEF resources
<1>6. cursor' \in Nat
  BY <1>1, <1>3, <1>4, <1>5 DEF Listing!NextCursor, Listing!Absent
<1>7. ListingTyped'
  BY <1>1, <1>2, <1>3, <1>6 DEF ListingTyped
<1>8. ASSUME Promised'
      PROVE  ListedExactly' /\ (lpc' = "listing" => CursorSplits')
  <2>1. Promised /\ relisted = {} /\ CursorSplits
    BY <1>1, <1>8 DEF Promised, ListingInv, ListedExactly, Listing!ListedExactly
  <2>2. /\ \A r \in b : r > cursor
        /\ \A r \in b, s \in lrows : s > cursor /\ s <= r => s \in b
        /\ Listing!Cardinality(b) < PageSize => \A s \in lrows : s > cursor => s \in b
        /\ ~(Listing!Cardinality(b) < PageSize) => resources # {}
    BY <1>1, <1>2, <2>1, PageMoves, Zenon DEF b, resources
  <2>3. \A r \in resources : r \in b /\ r \in Nat /\ r \notin lacking
    BY <1>3 DEF resources
  <2>4. \A r \in b : r \in lacking \/ r \in resources
    BY DEF resources
  <2>5. \A r \in lstayed : r \in lrows /\ r \in Nat
    BY <1>2, <1>3 DEF ListingTyped
  <2>6. \A r \in listed : r \in Nat
    BY <1>2, <1>3 DEF ListingTyped
  <2>7. listed \cap resources = {}
    BY <1>2, <2>1, <2>2, <2>3, <2>6 DEF CursorSplits, ListingTyped
  <2>8. relisted' = {}
    BY <1>1, <2>1, <2>7
  <2>9. CASE Listing!Cardinality(b) < PageSize
    <3>1. cursor' = 0 /\ lpc' = "done"
      BY <1>1, <2>9 DEF Listing!NextCursor, Listing!Absent
    <3>2. \A r \in lstayed \ lacking : r \in listed'
      BY <1>1, <1>2, <2>1, <2>2, <2>4, <2>5, <2>9 DEF CursorSplits, ListingTyped
    <3>3. QED
      BY <1>1, <2>8, <3>1, <3>2 DEF ListedExactly, Listing!ListedExactly
  <2>10. CASE ~(Listing!Cardinality(b) < PageSize) /\ ~keyed
    <3>1. cursor' = 0 /\ lpc' = "done" /\ ~keyed'
      BY <1>1, <2>1, <2>10 DEF Listing!NextCursor, Listing!Absent, Promised
    <3>2. QED
      BY <2>8, <3>1 DEF ListedExactly, Listing!ListedExactly
  <2>11. CASE ~(Listing!Cardinality(b) < PageSize) /\ keyed
    <3>1. cursor' \in resources /\ \A r \in resources : r <= cursor'
      <4>1. resources # {} /\ mode = "keyset"
        BY <2>1, <2>2, <2>11 DEF Promised
      <4>2. cursor' = Listing!Greatest(resources)
        BY <1>1, <2>11, <4>1 DEF Listing!NextCursor
      <4>3. QED
        BY <1>5, <4>1, <4>2, Zenon
    <3>2. cursor' \in b /\ cursor' > cursor /\ cursor \in Nat
      BY <1>2, <2>2, <2>3, <3>1 DEF ListingTyped
    <3>3. lpc' = "listing"
      BY <1>1, <1>6, <3>2
    <3>4. \A r \in listed' : r <= cursor'
      <4>1. \A r \in listed : r <= cursor'
        BY <1>6, <2>1, <2>6, <3>2 DEF CursorSplits
      <4>2. QED
        BY <1>1, <3>1, <4>1
    <3>5. ASSUME NEW r \in lstayed \ lacking, r <= cursor' PROVE r \in listed'
      <4>1. CASE r <= cursor
        BY <1>1, <2>1, <3>5, <4>1 DEF CursorSplits
      <4>2. CASE r > cursor
        BY <1>1, <2>2, <2>4, <2>5, <3>2, <3>5, <4>2
      <4>3. QED
        BY <2>5, <3>2, <3>5, <4>1, <4>2
    <3>6. QED
      BY <1>1, <2>8, <3>3, <3>4, <3>5 DEF ListedExactly, Listing!ListedExactly, CursorSplits
  <2>12. QED
    BY <2>9, <2>10, <2>11
<1>9. ~Promised' => ListedExactly'
  BY DEF Promised, ListedExactly, Listing!ListedExactly
<1>10. QED
  BY <1>7, <1>8, <1>9 DEF ListingInv

\* A keyset listing is exact, for any number of rows, page size and writes
\* between its pages: batch_to_resource_page's cursor is the last row it
\* listed, so rows without a uri behind it are read again and no resource is.
THEOREM ListingsAreExact == Listing!Spec => []ListedExactly
<1>1. Listing!Init => ListingInv
  BY DEF Listing!Init, ListingInv, ListingTyped, ListedExactly, Listing!ListedExactly,
         CursorSplits, Listing!Row, Listing!Absent
<1>2. ListingInv /\ [Listing!Next]_(Listing!vars) => ListingInv'
  <2> SUFFICES ASSUME ListingInv, [Listing!Next]_(Listing!vars) PROVE ListingInv'
    OBVIOUS
  <2>1. CASE Listing!Next
    BY <2>1, ListingWritten, ListingPaged, Zenon DEF Listing!Next
  <2>2. CASE UNCHANGED Listing!vars
    BY <2>2 DEF Listing!vars, ListingInv, ListingTyped, ListedExactly,
         Listing!ListedExactly, CursorSplits, Promised
  <2>3. QED
    BY <2>1, <2>2
<1>3. ListingInv => ListedExactly
  BY DEF ListingInv
<1>4. QED
  BY <1>1, <1>2, <1>3, PTL DEF Listing!Spec

----------------------------------------------------------------------------
(* StreamCursor                                                             *)

RuntimesTyped ==
  /\ DOMAIN profiles = Node
  /\ \A n \in Node : DOMAIN profiles[n] = Binding
  /\ \A n \in Node, b \in Binding :
       "cols" \in DOMAIN profiles[n][b] /\ profiles[n][b].cols \in ColumnLists

StreamTyped ==
  /\ RuntimesTyped
  /\ rows \in [Binding -> SUBSET Row]
  /\ home \in Binding
  /\ got \in SUBSET ({home} \X Row)
  /\ \A r : <<home, r>> \in stayed => r \in rows[home]

\* The token is that of row k; there is none at the start.
At(k) ==
  \/ k = 0 /\ token = {}
  \/ /\ k \in Row
     /\ \E cols \in ColumnLists, mac \in {u.mac : u \in token} :
          token = {[binding |-> home, keyset |-> Keyset(k, cols), mac |-> mac]}

\* The rows up to k were received, and no others.
ReadTo(k) ==
  /\ \A r \in Row : <<home, r>> \in got => r <= k
  /\ \A r \in Row : <<home, r>> \in stayed /\ r <= k => <<home, r>> \in got

\* The call resumes after row k.
Serving(k) ==
  /\ call.binding = home /\ call.rt.cols \in ColumnLists
  /\ after = IF k = 0 THEN << >> ELSE Keyset(k, call.rt.cols)

\* The query returned the rows after k up to one of them.
Fetched(k) ==
  /\ batch \in SUBSET Row
  /\ \A r \in batch : r > k
  /\ \A r \in batch, s \in Row :
       k < s /\ s < r /\ <<home, s>> \in stayed => s \in batch
  /\ batch = {} => \A s \in Row : <<home, s>> \in stayed => s <= k

Reading(k) ==
  /\ At(k) /\ ReadTo(k)
  /\ pc \in {"running", "fetched"} => Serving(k)
  /\ pc = "fetched" => Fetched(k)

\* A stream that has ended left nothing out.
Complete ==
  /\ call.binding = home
  /\ Columns(call.rt.cols) \subseteq Selected =>
       \A r : <<home, r>> \in stayed => <<home, r>> \in got

StreamInv ==
  /\ StreamTyped
  /\ again = {}
  /\ pc # "done" => \E k \in 0..MaxRow : Reading(k)
  /\ pc = "done" => Complete

LEMMA StreamRows == Row = 1..MaxRow /\ Row \subseteq Nat /\ MaxRow \in Nat
  BY StreamAssumption DEF StreamAssumption, Row

LEMMA ColumnOrder ==
  ASSUME NEW r \in Nat, NEW s \in Nat, NEW c
  PROVE  /\ Column(r, c) \in Nat /\ Column(s, c) \in Nat
         /\ r <= s => Column(r, c) <= Column(s, c)
         /\ c # "grp" /\ r # s => Column(r, c) # Column(s, c)
  BY DEF Column

LEMMA CursorColumns ==
  ASSUME NEW cols \in ColumnLists
  PROVE  /\ cols \in Seq(STRING) /\ Len(cols) \in Nat /\ DOMAIN cols = 1..Len(cols)
         /\ \E i \in 1..Len(cols) : cols[i] # "grp"
<1>1. cols \in Seq(STRING) /\ \E i \in DOMAIN cols : cols[i] # "grp"
  BY StreamAssumption, Zenon DEF StreamAssumption
<1>2. QED
  BY <1>1

LEMMA KeysetValues ==
  ASSUME NEW cols \in ColumnLists, NEW r \in Nat
  PROVE  /\ Keyset(r, cols) \in Seq(Nat)
         /\ Len(Keyset(r, cols)) = Len(cols)
         /\ DOMAIN Keyset(r, cols) = 1..Len(cols)
         /\ \A i \in 1..Len(cols) : Keyset(r, cols)[i] = Column(r, cols[i])
         /\ Keyset(r, cols) # << >>
<1>1. Len(cols) \in Nat /\ DOMAIN cols = 1..Len(cols) /\ 1..Len(cols) # {}
  BY CursorColumns
<1>2. Keyset(r, cols) = [i \in 1..Len(cols) |-> Column(r, cols[i])]
  BY <1>1, Zenon DEF Keyset
<1>3. \A i \in 1..Len(cols) : Column(r, cols[i]) \in Nat
  BY ColumnOrder
<1>4. QED
  BY <1>1, <1>2, <1>3

\* The cursor columns order the rows as their numbers do.
LEMMA KeysetOrder ==
  ASSUME NEW cols \in ColumnLists, NEW r \in Nat, NEW s \in Nat
  PROVE  Beyond(Keyset(r, cols), Keyset(s, cols)) <=> s < r
<1> DEFINE k == Keyset(r, cols)
           l == Keyset(s, cols)
           diff == {i \in 1..Len(cols) : k[i] # l[i]}
<1>1. /\ Len(cols) \in Nat
      /\ DOMAIN k = 1..Len(cols)
      /\ \A i \in 1..Len(cols) :
           k[i] = Column(r, cols[i]) /\ l[i] = Column(s, cols[i])
  BY KeysetValues, CursorColumns, Zenon
<1>2. \A i \in 1..Len(cols) :
        /\ k[i] \in Nat /\ l[i] \in Nat
        /\ r <= s => k[i] <= l[i]
        /\ s <= r => l[i] <= k[i]
        /\ cols[i] # "grp" /\ r # s => k[i] # l[i]
  BY <1>1, ColumnOrder, Zenon
<1> HIDE DEF k, l
<1>3. ASSUME Beyond(k, l) PROVE s < r
  <2>1. PICK i \in 1..Len(cols) : k[i] > l[i]
    BY <1>1, <1>3, Zenon DEF Beyond
  <2>2. QED
    BY <1>2, <2>1
<1>4. ASSUME s < r PROVE Beyond(k, l)
  <2>1. diff \in SUBSET Nat /\ diff # {}
    <3>1. PICK i \in 1..Len(cols) : cols[i] # "grp"
      BY CursorColumns, Zenon
    <3>2. k[i] # l[i]
      BY <1>2, <1>4, <3>1
    <3>3. QED
      BY <3>2
  <2>2. PICK i \in diff : \A j \in diff : i <= j
    BY <2>1, LeastNatural, Zenon
  <2>3. k[i] > l[i] /\ i \in DOMAIN k
    BY <1>1, <1>2, <1>4, <2>2
  <2>4. \A j \in 1..i - 1 : k[j] = l[j]
    BY <1>1, <2>2
  <2>5. QED
    BY <2>3, <2>4, Zenon DEF Beyond
<1>5. QED
  BY <1>3, <1>4, Zenon DEF k, l

LEMMA StreamFirstRows ==
  ASSUME NEW cols \in ColumnLists, NEW S \in SUBSET Row, NEW n
  PROVE  FirstRows(S, cols, n) = LeastRows(S, n)
<1>1. \A r, s \in S : Before(s, r, cols) <=> s < r
  BY KeysetOrder, StreamRows DEF Before
<1>2. \A r \in S : {s \in S : Before(s, r, cols)} = {s \in S : s < r}
  BY <1>1, Zenon
<1>3. QED
  BY <1>2, Zenon DEF FirstRows, LeastRows

LEMMA ReadingKept ==
  ASSUME UNCHANGED <<pc, home, token, call, after, batch, got>>, stayed' \subseteq stayed,
         NEW k, Reading(k)
  PROVE  Reading(k)'
<1>1. At(k)'
  BY Zenon DEF Reading, At
<1>2. ReadTo(k)'
  BY Zenon DEF Reading, ReadTo
<1>3. Serving(k) => Serving(k)'
  BY Zenon DEF Serving
<1>4. Fetched(k) => Fetched(k)'
  BY Zenon DEF Fetched
<1>5. QED
  BY <1>1, <1>2, <1>3, <1>4, Zenon DEF Reading

\* A step that the client does not see.
LEMMA StreamKept ==
  ASSUME StreamInv, StreamTyped',
         UNCHANGED <<pc, home, token, call, after, batch, got, again>>,
         stayed' \subseteq stayed
  PROVE  StreamInv'
<1>1. pc' # "done" => \E k \in 0..MaxRow : Reading(k)'
  BY ReadingKept, Zenon DEF StreamInv
<1>2. Complete => Complete'
  BY Zenon DEF Complete
<1>3. QED
  BY <1>1, <1>2, Zenon DEF StreamInv

LEMMA StreamRegistered ==
  ASSUME StreamInv, NEW n \in Node, NEW b \in Binding, NEW cols \in ColumnLists,
         Register(n, b, cols)
  PROVE  StreamInv'
<1>1. UNCHANGED <<rows, stayed, pc, home, token, call, after, batch, got, again>>
  BY DEF Register, db, client
<1>2. PICK key : profiles' = [profiles EXCEPT ![n][b] = [key |-> key, cols |-> cols]]
  BY Zenon DEF Register
<1>3. RuntimesTyped'
  <2>1. /\ DOMAIN profiles = Node /\ \A m \in Node : DOMAIN profiles[m] = Binding
        /\ \A m \in Node, c \in Binding :
             "cols" \in DOMAIN profiles[m][c] /\ profiles[m][c].cols \in ColumnLists
    BY Zenon DEF StreamInv, StreamTyped, RuntimesTyped
  <2> DEFINE rt == [key |-> key, cols |-> cols]
             g == [profiles[n] EXCEPT ![b] = rt]
  <2>2. "cols" \in DOMAIN rt /\ rt.cols = cols
    OBVIOUS
  <2> HIDE DEF rt
  <2>3. DOMAIN g = Binding /\ g[b] = rt /\ \A c \in Binding : c # b => g[c] = profiles[n][c]
    BY <2>1
  <2> HIDE DEF g
  <2>4. profiles' = [profiles EXCEPT ![n] = g]
    BY <1>2 DEF g, rt
  <2>5. /\ DOMAIN profiles' = Node /\ profiles'[n] = g
        /\ \A m \in Node : m # n => profiles'[m] = profiles[m]
    BY <2>1, <2>4
  <2>6. QED
    BY <2>1, <2>2, <2>3, <2>5, Zenon DEF RuntimesTyped
<1>4. StreamTyped'
  BY <1>1, <1>3, Zenon DEF StreamInv, StreamTyped
<1>5. QED
  BY <1>1, <1>4, StreamKept, Zenon

LEMMA StreamInserted ==
  ASSUME StreamInv, NEW b \in Binding, NEW r \in Row, Insert(b, r)
  PROVE  StreamInv'
<1>1. UNCHANGED <<profiles, stayed, pc, home, token, call, after, batch, got, again>>
  BY DEF Insert, config, client
<1>2. rows' = [rows EXCEPT ![b] = rows[b] \cup {r}]
  BY Zenon DEF Insert
<1>3. rows \in [Binding -> SUBSET Row] /\ home \in Binding
  BY DEF StreamInv, StreamTyped
<1>4. rows' \in [Binding -> SUBSET Row] /\ rows[home] \subseteq rows'[home]
  BY <1>2, <1>3
<1>5. StreamTyped'
  BY <1>1, <1>4, Zenon DEF StreamInv, StreamTyped, RuntimesTyped
<1>6. QED
  BY <1>1, <1>5, StreamKept, Zenon

LEMMA StreamDeleted ==
  ASSUME StreamInv, NEW b \in Binding, NEW r \in Row, Delete(b, r)
  PROVE  StreamInv'
<1>1. UNCHANGED <<profiles, pc, home, token, call, after, batch, got, again>>
  BY DEF Delete, config, client
<1>2. rows' = [rows EXCEPT ![b] = rows[b] \ {r}] /\ stayed' = stayed \ {<<b, r>>}
  BY Zenon DEF Delete
<1>3. rows \in [Binding -> SUBSET Row] /\ home \in Binding
  BY DEF StreamInv, StreamTyped
<1>4. /\ rows' \in [Binding -> SUBSET Row]
      /\ \A s \in rows[home] : s \in rows'[home] \/ (b = home /\ s = r)
  BY <1>2, <1>3
<1>5. \A s : <<home, s>> \in stayed' => s \in rows'[home]
  BY <1>2, <1>4 DEF StreamInv, StreamTyped
<1>6. StreamTyped'
  BY <1>1, <1>4, <1>5, Zenon DEF StreamInv, StreamTyped, RuntimesTyped
<1>7. QED
  BY <1>1, <1>2, <1>6, StreamKept, Zenon

\* A token is refused by another binding, and what is no token by every one.
LEMMA MisuseRefused ==
  ASSUME StreamInv, pc # "done", token # {}, NEW b, NEW rt,
         NEW t \in {token, {Malformed}}, t = token => b # home
  PROVE  Refusal(t, b, rt) # "none"
<1>1. PICK k : At(k)
  BY Zenon DEF StreamInv, Reading
<1>2. PICK u : token = {u} /\ u.binding = home
  BY <1>1 DEF At
<1>3. t # {} /\ (b = home => t = {Malformed})
  BY Zenon
<1>4. \A v \in decode_cursor(t, rt.key) : v \in t /\ v # Malformed
  BY Zenon DEF decode_cursor
<1>5. \A v \in decode_cursor(t, rt.key) : v.binding # b
  BY <1>2, <1>3, <1>4
<1>6. QED
  BY <1>3, <1>5 DEF Refusal, NoToken

LEMMA StreamMisused ==
  ASSUME StreamInv, NEW n \in Node, NEW b \in Binding, NEW t \in {token, {Malformed}},
         Misuse(n, b, t)
  PROVE  StreamInv'
<1>1. /\ UNCHANGED <<rows, profiles, stayed, home, token, batch, got, again>>
      /\ pc = "idle" /\ token # {} /\ (t = token => b # home)
  BY DEF Misuse, db, config, NoToken
<1>2. Refusal(t, b, profiles[n][b]) # "none"
  BY <1>1, MisuseRefused
<1>3. UNCHANGED <<pc, call, after>>
  BY <1>2 DEF Misuse
<1>4. StreamTyped'
  BY <1>1, Zenon DEF StreamInv, StreamTyped, RuntimesTyped
<1>5. QED
  BY <1>1, <1>3, <1>4, StreamKept, Zenon

LEMMA StreamRestarted ==
  ASSUME StreamInv, NEW n \in Node, Restart(n)
  PROVE  StreamInv'
<1>1. UNCHANGED <<rows, stayed, home, token, call, got, again>>
  BY DEF Restart, db
<1>3. RuntimesTyped'
  <2>1. /\ DOMAIN profiles = Node /\ \A m \in Node : DOMAIN profiles[m] = Binding
        /\ \A m \in Node, c \in Binding :
             "cols" \in DOMAIN profiles[m][c] /\ profiles[m][c].cols \in ColumnLists
    BY Zenon DEF StreamInv, StreamTyped, RuntimesTyped
  <2> DEFINE key(b) == SigningKey(Numbered(Binding, keys)[b])
             rt(b) == [profiles[n][b] EXCEPT !.key = key(b)]
             g == [b \in Binding |-> rt(b)]
  <2>2. profiles' = [profiles EXCEPT ![n] = g]
    BY Zenon DEF Restart
  <2> HIDE DEF key
  <2>3. \A b \in Binding : "cols" \in DOMAIN rt(b) /\ rt(b).cols \in ColumnLists
    BY <2>1
  <2> HIDE DEF rt
  <2>4. DOMAIN g = Binding /\ \A b \in Binding : g[b] = rt(b)
    OBVIOUS
  <2> HIDE DEF g
  <2>5. /\ DOMAIN profiles' = Node /\ profiles'[n] = g
        /\ \A m \in Node : m # n => profiles'[m] = profiles[m]
    BY <2>1, <2>2
  <2>6. \A b \in Binding : "cols" \in DOMAIN g[b] /\ g[b].cols \in ColumnLists
    BY <2>3, <2>4, Zenon
  <2>7. \A m \in Node : profiles'[m] = g \/ profiles'[m] = profiles[m]
    BY <2>5, Zenon
  <2>8. \A m \in Node : DOMAIN profiles'[m] = Binding
    BY <2>1, <2>4, <2>7, Zenon
  <2>9. \A m \in Node, b \in Binding :
          "cols" \in DOMAIN profiles'[m][b] /\ profiles'[m][b].cols \in ColumnLists
    BY <2>1, <2>6, <2>7, Zenon
  <2>10. QED
    BY <2>5, <2>8, <2>9, Zenon DEF RuntimesTyped
<1>4. StreamTyped'
  BY <1>1, <1>3, Zenon DEF StreamInv, StreamTyped
<1>5. CASE UNCHANGED <<pc, batch, after>>
  BY <1>1, <1>4, <1>5, StreamKept, Zenon
<1>6. CASE pc # "done" /\ pc' = "idle"
  <2>1. \A k : Reading(k) => At(k)' /\ ReadTo(k)'
    BY <1>1, Zenon DEF Reading, At, ReadTo
  <2>2. \A k : Reading(k) => Reading(k)'
    BY <1>6, <2>1 DEF Reading
  <2>3. \E k \in 0..MaxRow : Reading(k)'
    BY <1>6, <2>2, Zenon DEF StreamInv
  <2>4. again' = {}
    BY <1>1, Zenon DEF StreamInv
  <2>5. QED
    BY <1>4, <1>6, <2>3, <2>4 DEF StreamInv
<1>7. QED
  BY <1>5, <1>6 DEF Restart

LEMMA StreamBegun ==
  ASSUME StreamInv, NEW n \in Node, FirstPage(n)
  PROVE  StreamInv'
<1>1. /\ UNCHANGED <<rows, profiles, home, token, batch, got, again>>
      /\ pc = "idle" /\ token = {}
      /\ stayed' = UNION {{b} \X rows[b] : b \in Binding}
  BY DEF FirstPage, db, config, NoToken
<1>2. Refusal({}, home, profiles[n][home]) = "none"
  BY Zenon DEF Refusal, NoToken
<1>3. /\ pc' = "running" /\ after' = << >>
      /\ call' = [node |-> n, binding |-> home, rt |-> profiles[n][home]]
  BY <1>2 DEF FirstPage, apply_stream_cursor, NoToken, NoKeyset
<1>4. home \in Binding /\ profiles[n][home].cols \in ColumnLists
  BY DEF StreamInv, StreamTyped, RuntimesTyped
<1>5. StreamTyped'
  <2>1. \A r : <<home, r>> \in stayed' => r \in rows[home]
    BY <1>1
  <2>2. QED
    BY <1>1, <2>1, Zenon DEF StreamInv, StreamTyped, RuntimesTyped
<1>6. Reading(0)
  <2>1. PICK k : Reading(k)
    BY <1>1 DEF StreamInv
  <2>2. k = 0
    BY <1>1, <2>1, Zenon DEF Reading, At
  <2>3. QED
    BY <2>1, <2>2
<1>7. At(0)' /\ ReadTo(0)'
  <2>1. \A r \in Row : ~(r <= 0)
    BY StreamRows, SMTT(20)
  <2>2. QED
    BY <1>1, <1>6, <2>1, Zenon DEF Reading, At, ReadTo
<1>8. Serving(0)'
  BY <1>1, <1>3, <1>4 DEF Serving
<1>9. Reading(0)' /\ 0 \in 0..MaxRow
  BY <1>3, <1>7, <1>8, StreamRows DEF Reading
<1>10. again' = {}
  BY <1>1, Zenon DEF StreamInv
<1>11. QED
  BY <1>3, <1>5, <1>9, <1>10, SMTT(20) DEF StreamInv

\* A token that is taken has the key of its row in the columns of the
\* runtime that takes it.
LEMMA TokenTaken ==
  ASSUME ToldByArity, token # {}, NEW k, At(k),
         NEW rt, rt.cols \in ColumnLists, Refusal(token, home, rt) = "none"
  PROVE  k \in Row /\ \A u \in token : u.keyset = Keyset(k, rt.cols)
<1>1. k \in Row /\ k \in Nat
  BY StreamRows DEF At
<1>2. PICK cols \in ColumnLists, mac \in {u.mac : u \in token} :
        token = {[binding |-> home, keyset |-> Keyset(k, cols), mac |-> mac]}
  BY Zenon DEF At
<1> DEFINE v == [binding |-> home, keyset |-> Keyset(k, cols), mac |-> mac]
<1>3. v.keyset = Keyset(k, cols)
  OBVIOUS
<1>4. token = {v}
  BY <1>2
<1> HIDE DEF v
<1>5. decode_cursor(token, rt.key) # {}
  BY DEF Refusal, NoToken
<1>6. v \in decode_cursor(token, rt.key)
  BY <1>4, <1>5, Zenon DEF decode_cursor
<1>7. Len(v.keyset) = Len(rt.cols)
  BY <1>5, <1>6 DEF Refusal, NoToken
<1>8. Len(cols) = Len(rt.cols)
  BY <1>1, <1>3, <1>7, KeysetValues
<1>9. cols = rt.cols
  BY <1>8, Zenon DEF ToldByArity
<1>10. QED
  BY <1>1, <1>3, <1>4, <1>9, Zenon

LEMMA StreamContinued ==
  ASSUME StreamInv, ToldByArity, NEW n \in Node, Continue(n)
  PROVE  StreamInv'
<1> DEFINE rt == profiles[n][home]
<1>1. /\ UNCHANGED <<rows, profiles, stayed, home, token, batch, got, again>>
      /\ pc = "idle" /\ token # {}
  BY DEF Continue, db, config, NoToken
<1>2. StreamTyped'
  BY <1>1, Zenon DEF StreamInv, StreamTyped, RuntimesTyped
<1>3. CASE Refusal(token, home, rt) # "none"
  <2>1. UNCHANGED <<pc, call, after>>
    BY <1>3 DEF Continue, apply_stream_cursor
  <2>2. QED
    BY <1>1, <1>2, <2>1, StreamKept, Zenon
<1>4. CASE Refusal(token, home, rt) = "none"
  <2>1. /\ pc' = "running" /\ after' \in {u.keyset : u \in token}
        /\ call' = [node |-> n, binding |-> home, rt |-> rt]
    BY <1>1, <1>4 DEF Continue, apply_stream_cursor, NoToken
  <2>2. rt.cols \in ColumnLists
    BY DEF StreamInv, StreamTyped, RuntimesTyped
  <2>3. PICK k \in 0..MaxRow : Reading(k)
    BY <1>1 DEF StreamInv
  <2>4. At(k) /\ ReadTo(k)
    BY <2>3, Zenon DEF Reading
  <2>5. k \in Row /\ after' = Keyset(k, rt.cols)
    BY <1>1, <1>4, <2>1, <2>2, <2>4, TokenTaken, Zenon
  <2>6. k # 0
    BY <2>5, StreamRows, SMTT(20)
  <2> HIDE DEF rt
  <2>7. call'.binding = home /\ call'.rt = rt
    BY <2>1
  <2>8. Serving(k)'
    BY <1>1, <2>2, <2>5, <2>6, <2>7, Zenon DEF Serving
  <2>9. At(k)' /\ ReadTo(k)'
    BY <1>1, <2>4, Zenon DEF At, ReadTo
  <2>10. Reading(k)'
    BY <2>1, <2>8, <2>9 DEF Reading
  <2>11. again' = {}
    BY <1>1, Zenon DEF StreamInv
  <2>12. QED
    BY <1>2, <2>1, <2>10, <2>11, SMTT(20) DEF StreamInv
<1>5. QED
  BY <1>3, <1>4, Zenon

LEMMA StreamStartedOver ==
  ASSUME StreamInv, StartOver
  PROVE  StreamInv'
<1>1. /\ UNCHANGED <<rows, profiles, home>>
      /\ pc' = "idle" /\ token' = {} /\ got' = {} /\ again' = {} /\ stayed' = {}
  BY DEF StartOver, db, config, NoToken
<1>2. StreamTyped'
  BY <1>1, Zenon DEF StreamInv, StreamTyped, RuntimesTyped
<1>3. At(0)' /\ ReadTo(0)'
  BY <1>1, Zenon DEF At, ReadTo
<1>4. Reading(0)' /\ 0 \in 0..MaxRow
  BY <1>1, <1>3, StreamRows DEF Reading
<1>5. QED
  BY <1>1, <1>2, <1>4 DEF StreamInv

\* The query finds the rows after the cursor's.
LEMMA RowsAfter ==
  ASSUME StreamTyped, NEW k \in 0..MaxRow, Serving(k)
  PROVE  Rows(call.binding, call.rt.cols, after) =
           LeastRows({r \in rows[home] : k < r}, QueryLimit)
<1> DEFINE cols == call.rt.cols
           S == {r \in rows[home] : after = NoKeyset \/ Beyond(Keyset(r, cols), after)}
           U == {r \in rows[home] : k < r}
<1>1. call.binding = home /\ cols \in ColumnLists
  BY Zenon DEF Serving
<1>2. rows[home] \in SUBSET Row /\ rows[home] \in SUBSET Nat /\ k \in Nat
  BY StreamRows DEF StreamTyped
<1>3. Rows(call.binding, cols, after) = FirstRows(S, cols, QueryLimit)
  BY <1>1, Zenon DEF Rows
<1>4. ASSUME k = 0 PROVE S = U
  <2>1. after = NoKeyset
    BY <1>4 DEF Serving, NoKeyset
  <2>2. \A r \in rows[home] : k < r
    BY <1>2, <1>4, StreamRows
  <2>3. QED
    BY <2>1, <2>2, Zenon
<1>5. ASSUME k # 0 PROVE S = U
  <2>1. after = Keyset(k, cols)
    BY <1>5, Zenon DEF Serving
  <2>2. after # NoKeyset
    BY <1>1, <1>2, <2>1, KeysetValues DEF NoKeyset
  <2>3. \A r \in rows[home] : Beyond(Keyset(r, cols), after) <=> k < r
    BY <1>1, <1>2, <2>1, KeysetOrder, Zenon
  <2>4. QED
    BY <2>2, <2>3, Zenon
<1>6. S = U /\ U \in SUBSET Row
  BY <1>2, <1>4, <1>5, Zenon
<1> HIDE DEF S, U
<1>7. FirstRows(U, cols, QueryLimit) = LeastRows(U, QueryLimit)
  BY <1>1, <1>6, StreamFirstRows, Zenon
<1>8. QED
  BY <1>3, <1>6, <1>7 DEF U

LEMMA StreamQueried ==
  ASSUME StreamInv, Query
  PROVE  StreamInv'
<1>1. /\ UNCHANGED <<rows, profiles, stayed, home, token, call, after, got, again>>
      /\ pc = "running" /\ pc' = "fetched"
      /\ batch' = Rows(call.binding, call.rt.cols, after)
  BY DEF Query, db, config
<1>2. StreamTyped'
  BY <1>1, Zenon DEF StreamInv, StreamTyped, RuntimesTyped
<1>3. PICK k \in 0..MaxRow : Reading(k)
  BY <1>1 DEF StreamInv
<1>4. At(k) /\ ReadTo(k) /\ Serving(k)
  BY <1>1, <1>3 DEF Reading
<1> DEFINE U == {r \in rows[home] : k < r}
<1>5. /\ U \in SUBSET Row /\ U \in SUBSET (1..MaxRow) /\ k \in Nat
      /\ \A s \in Row : <<home, s>> \in stayed /\ k < s => s \in U
      /\ \A r \in U : k < r
  BY StreamRows DEF StreamInv, StreamTyped
<1>6. batch' = LeastRows(U, QueryLimit)
  BY <1>1, <1>4, RowsAfter, Zenon DEF StreamInv
<1> HIDE DEF U
<1>7. QueryLimit \in Nat \ {0}
  BY StreamAssumption DEF StreamAssumption
<1>8. batch' \subseteq U
  BY <1>6, Zenon DEF LeastRows
<1>9. ASSUME NEW r \in batch', NEW s \in Row, k < s, s < r, <<home, s>> \in stayed
      PROVE  s \in batch'
  BY <1>5, <1>6, <1>7, <1>9, StreamRows, LeastRowsPrefix, Zenon
<1>10. ASSUME batch' = {}, NEW s \in Row, <<home, s>> \in stayed PROVE s <= k
  <2>1. U = {}
    BY <1>5, <1>6, <1>7, <1>10, LeastRowsNonempty, StreamRows, Zenon
  <2>2. ~(k < s)
    BY <1>5, <1>10, <2>1, Zenon
  <2>3. QED
    BY <1>5, <2>2, StreamRows
<1>11. Fetched(k)'
  <2>1. \A r \in batch' : r > k
    BY <1>5, <1>8, StreamRows
  <2>2. QED
    BY <1>1, <1>5, <1>8, <1>9, <1>10, <2>1, Zenon DEF Fetched
<1>12. At(k)' /\ ReadTo(k)' /\ Serving(k)'
  BY <1>1, <1>4, Zenon DEF At, ReadTo, Serving
<1>13. Reading(k)'
  BY <1>11, <1>12, Zenon DEF Reading
<1>14. again' = {}
  BY <1>1, Zenon DEF StreamInv
<1>15. QED
  BY <1>1, <1>2, <1>13, <1>14 DEF StreamInv

\* The last row of a page is its greatest.
LEMMA LastOfPage ==
  ASSUME call.rt.cols \in ColumnLists, NEW page_ \in SUBSET Row, page_ # {}
  PROVE  /\ LastRow(page_) \in page_
         /\ \A s \in page_ : s <= LastRow(page_)
<1>1. page_ \in SUBSET Nat /\ \A s \in page_ : s <= MaxRow
  BY StreamRows
<1>2. \A r, s \in page_ : Before(r, s, call.rt.cols) <=> r < s
  BY <1>1, KeysetOrder DEF Before
<1>3. PICK m \in page_ : \A s \in page_ : s <= m
  BY <1>1, StreamRows, GreatestNatural, Zenon
<1>4. \A s \in page_ : ~Before(m, s, call.rt.cols)
  BY <1>1, <1>2, <1>3
<1>5. PICK l : l = LastRow(page_)
  OBVIOUS
<1>6. l \in page_ /\ \A s \in page_ : ~Before(l, s, call.rt.cols)
  BY <1>3, <1>4, <1>5, Zenon DEF LastRow
<1>7. \A s \in page_ : s <= l
  <2>1. \A s \in page_ : ~(l < s)
    BY <1>2, <1>6, Zenon
  <2>2. QED
    BY <1>1, <1>6, <2>1
<1>8. QED
  BY <1>5, <1>6, <1>7, Zenon

\* An answer goes on from the rows before it, and its cursor is that of its
\* last row.
LEMMA StreamAnswered ==
  ASSUME StreamInv, Answer
  PROVE  StreamInv'
<1> DEFINE pg == shape_response
<1>1. /\ UNCHANGED <<rows, profiles, stayed, home, call>>
      /\ pc = "fetched"
      /\ token' = mint_next_cursor(pg)
      /\ pc' = IF token' = {} THEN "done" ELSE "idle"
      /\ got' = got \cup ({call.binding} \X pg)
      /\ again' = again \cup (got \cap ({call.binding} \X pg))
  BY DEF Answer, db, config, NoToken
<1>2. PICK k \in 0..MaxRow : Reading(k)
  BY <1>1 DEF StreamInv
<1>3. ReadTo(k) /\ Serving(k) /\ Fetched(k)
  BY <1>1, <1>2 DEF Reading
<1>4. call.binding = home /\ call.rt.cols \in ColumnLists /\ k \in Nat
  BY <1>3, StreamRows DEF Serving
<1>5. batch \in SUBSET Row /\ batch \in SUBSET Nat /\ batch \in SUBSET (1..MaxRow)
  BY <1>3, StreamRows DEF Fetched
<1>6. pg = LeastRows(batch, PageRows) /\ pg \in SUBSET batch
  <2>1. pg = LeastRows(batch, PageRows)
    BY <1>4, <1>5, StreamFirstRows, Zenon DEF shape_response
  <2>2. QED
    BY <2>1, Zenon DEF LeastRows
<1>7. PageRows \in Nat \ {0}
  BY StreamAssumption DEF StreamAssumption
<1>8. StreamTyped'
  <2>1. got' \in SUBSET ({home} \X Row)
    <3>1. got \in SUBSET ({home} \X Row) /\ pg \in SUBSET Row
      BY <1>5, <1>6, Zenon DEF StreamInv, StreamTyped
    <3> HIDE DEF pg
    <3>2. {home} \X pg \in SUBSET ({home} \X Row)
      BY <3>1
    <3>3. QED
      BY <1>1, <1>4, <3>1, <3>2, Zenon
  <2>2. QED
    BY <1>1, <2>1, Zenon DEF StreamInv, StreamTyped, RuntimesTyped
<1>9. again' = {}
  <2>1. \A r \in pg : r \in Row /\ k < r
    BY <1>3, <1>4, <1>5, <1>6 DEF Fetched
  <2>2. \A r \in pg : ~(r <= k)
    BY <1>4, <2>1, StreamRows
  <2>3. \A r \in pg : <<home, r>> \notin got
    BY <1>3, <2>1, <2>2, Zenon DEF ReadTo
  <2>4. got \cap ({call.binding} \X pg) = {}
    BY <1>4, <2>3
  <2>5. QED
    BY <1>1, <2>4 DEF StreamInv
<1>10. CASE Anchored(pg)
  <2>0. PICK m : m = LastRow(pg)
    OBVIOUS
  <2>1. pg # {}
    BY <1>10, Zenon DEF Anchored
  <2>2. token' = {[binding |-> home, keyset |-> Keyset(m, call.rt.cols),
                   mac |-> call.rt.key]}
    BY <1>1, <1>4, <1>10, <2>0, Zenon
       DEF mint_next_cursor, TokenOf, encode_cursor
  <2>3. m \in pg /\ \A s \in pg : s <= m
    BY <1>4, <1>5, <1>6, <2>0, <2>1, LastOfPage, Zenon
  <2> HIDE DEF pg
  <2>4. m \in Row /\ m \in batch /\ m \in Nat /\ k < m /\ m \in 0..MaxRow
    BY <1>3, <1>4, <1>5, <1>6, <2>3, StreamRows DEF Fetched
  <2>5. At(m)'
    <3>1. call.rt.key \in {u.mac : u \in token'}
      BY <2>2
    <3>2. QED
      BY <1>1, <1>4, <2>2, <2>4, <3>1, Zenon DEF At
  <2>6. \A r \in Row : <<home, r>> \in got' => r <= m
    <3>1. \A r \in Row : <<home, r>> \in got => r <= m
      BY <1>3, <1>4, <2>4, StreamRows DEF ReadTo
    <3>2. \A r \in Row : <<home, r>> \in got' => <<home, r>> \in got \/ r \in pg
      BY <1>1, <1>4
    <3>3. QED
      BY <2>3, <3>1, <3>2, Zenon
  <2>7. ASSUME NEW r \in Row, <<home, r>> \in stayed, r <= m PROVE <<home, r>> \in got'
    <3>1. r <= k \/ (k < r /\ r < m) \/ r = m
      BY <1>4, <2>4, <2>7, StreamRows
    <3>2. CASE r <= k
      BY <1>1, <1>3, <2>7, <3>2, Zenon DEF ReadTo
    <3>3. ASSUME k < r, r < m PROVE r \in pg
      <4>1. r \in batch
        BY <1>3, <2>4, <2>7, <3>3, Zenon DEF Fetched
      <4>2. m \in LeastRows(batch, PageRows) /\ PageRows \in Nat
        BY <1>6, <1>7, <2>3
      <4>3. QED
        BY <1>5, <1>6, <3>3, <4>1, <4>2, StreamRows, LeastRowsPrefix, Zenon
    <3>4. r \in pg => <<home, r>> \in got'
      BY <1>1, <1>4
    <3>5. QED
      BY <2>3, <3>1, <3>2, <3>3, <3>4, Zenon
  <2>8. ReadTo(m)'
    BY <1>1, <2>6, <2>7, Zenon DEF ReadTo
  <2>9. pc' = "idle"
    <3>1. token' # {}
      BY <2>2, Zenon
    <3>2. QED
      BY <1>1, <3>1, Zenon
  <2>10. Reading(m)'
    BY <2>5, <2>8, <2>9 DEF Reading
  <2>11. QED
    BY <1>8, <1>9, <2>4, <2>9, <2>10 DEF StreamInv
<1>11. CASE ~Anchored(pg)
  <2>1. token' = {} /\ pc' = "done"
    BY <1>1, <1>11 DEF mint_next_cursor, NoToken
  <2>2. ASSUME Columns(call.rt.cols) \subseteq Selected, NEW r, <<home, r>> \in stayed
        PROVE  <<home, r>> \in got'
    <3>1. pg = {}
      BY <1>11, <2>2, Zenon DEF Anchored
    <3>2. batch = {}
      BY <1>5, <1>6, <1>7, <3>1, LeastRowsNonempty, Zenon
    <3>3. r \in Row
      BY <2>2 DEF StreamInv, StreamTyped
    <3>4. r <= k
      BY <1>3, <2>2, <3>2, <3>3, Zenon DEF Fetched
    <3>5. QED
      BY <1>1, <1>3, <2>2, <3>3, <3>4, Zenon DEF ReadTo
  <2>3. Complete'
    BY <1>1, <1>4, <2>2, Zenon DEF Complete, Columns
  <2>4. QED
    BY <1>8, <1>9, <2>1, <2>3 DEF StreamInv
<1>12. QED
  BY <1>10, <1>11

LEMMA StreamInitially ==
  ASSUME Init
  PROVE  StreamInv
<1>1. /\ rows \in [Binding -> SUBSET Row] /\ home = CHOOSE b \in Binding : TRUE
      /\ pc = "idle" /\ token = {} /\ got = {} /\ again = {} /\ stayed = {}
  BY StreamRows DEF Init, NoToken
<1>2. home \in Binding
  BY <1>1, StreamAssumption, Zenon DEF StreamAssumption
<1>3. RuntimesTyped
  <2>1. PICK cols \in [Binding -> ColumnLists] :
          profiles = [n \in Node |-> [b \in Binding |->
            [key |-> SigningKey(Numbered(Node \X Binding, 0)[n, b]),
             cols |-> cols[b]]]]
    BY Zenon DEF Init
  <2> DEFINE key(n, b) == SigningKey(Numbered(Node \X Binding, 0)[n, b])
             rt(n, b) == [key |-> key(n, b), cols |-> cols[b]]
  <2>2. profiles = [n \in Node |-> [b \in Binding |-> rt(n, b)]]
    BY <2>1, Zenon
  <2> HIDE DEF key
  <2>3. \A n \in Node, b \in Binding : "cols" \in DOMAIN rt(n, b) /\ rt(n, b).cols = cols[b]
    OBVIOUS
  <2> HIDE DEF rt
  <2>4. DOMAIN profiles = Node /\ \A n \in Node : DOMAIN profiles[n] = Binding
    BY <2>2
  <2>5. \A n \in Node, b \in Binding : profiles[n][b] = rt(n, b)
    BY <2>2
  <2>6. \A b \in Binding : cols[b] \in ColumnLists
    OBVIOUS
  <2>7. \A n \in Node, b \in Binding :
          "cols" \in DOMAIN profiles[n][b] /\ profiles[n][b].cols \in ColumnLists
    BY <2>3, <2>5, <2>6, Zenon
  <2>8. QED
    BY <2>4, <2>7, Zenon DEF RuntimesTyped
<1>4. StreamTyped
  BY <1>1, <1>2, <1>3 DEF StreamTyped
<1>5. At(0) /\ ReadTo(0)
  BY <1>1 DEF At, ReadTo
<1>6. Reading(0) /\ 0 \in 0..MaxRow
  BY <1>1, <1>5, StreamRows DEF Reading
<1>7. QED
  BY <1>1, <1>4, <1>6 DEF StreamInv

LEMMA StreamNext ==
  ASSUME StreamInv, ToldByArity, [Next]_vars
  PROVE  StreamInv'
<1>s. \A n \in Deployed : n \in Node
  BY StreamAssumption, Zenon DEF StreamAssumption, Deployed
<1>1. CASE UNCHANGED vars
  <2>1. UNCHANGED <<rows, profiles, stayed, pc, home, token, call, after, batch, got, again>>
    BY <1>1 DEF vars, db, config, client
  <2>2. StreamTyped'
    BY <2>1, Zenon DEF StreamInv, StreamTyped, RuntimesTyped
  <2>3. QED
    BY <2>1, <2>2, StreamKept, Zenon
<1>2. CASE \E n \in Deployed, b \in Binding, cols \in ColumnLists : Register(n, b, cols)
  BY <1>s, <1>2, StreamRegistered, Zenon
<1>3. CASE \E b \in Binding, r \in Row : Insert(b, r) \/ Delete(b, r)
  BY <1>3, StreamInserted, StreamDeleted, Zenon
<1>4. CASE \E n \in Deployed : FirstPage(n) \/ Continue(n) \/ Restart(n)
  BY <1>s, <1>4, StreamBegun, StreamContinued, StreamRestarted, Zenon
<1>5. CASE \E n \in Deployed, b \in Binding, t \in {token, {Malformed}} : Misuse(n, b, t)
  BY <1>s, <1>5, StreamMisused, Zenon
<1>6. CASE StartOver \/ Query \/ Answer
  BY <1>6, StreamStartedOver, StreamQueried, StreamAnswered, Zenon
<1>7. QED
  BY <1>1, <1>2, <1>3, <1>4, <1>5, <1>6, StreamRows, Zenon DEF Next

\* No row comes twice in a stream, for every page size, table and sequence
\* of registrations, restarts and misdirected tokens: apply_stream_cursor
\* resumes after the last row mint_next_cursor saw.
THEOREM StreamRepeatsNothing == Spec => []NoRowTwice
<1>1. CASE ToldByArity
  <2>1. StreamInv => NoRowTwice
    BY Zenon DEF StreamInv, NoRowTwice, NoRowTwice
  <2>2. StreamInv /\ [Next]_vars => StreamInv'
    BY <1>1, StreamNext, Zenon
  <2>3. QED
    BY <2>1, <2>2, StreamInitially, PTL DEF Spec
<1>2. CASE ~ToldByArity
  <2>1. NoRowTwice
    BY <1>2, Zenon DEF NoRowTwice, NoRowTwice
  <2>2. QED
    BY <2>1, PTL
<1>3. QED
  BY <1>1, <1>2

\* A stream that ends by a null cursor has left out no row that was there
\* from its first page to its last.
THEOREM StreamSkipsNothing == Spec => []NoRowSkipped
<1>1. CASE ToldByArity
  <2>1. StreamInv => NoRowSkipped
    BY Zenon DEF StreamInv, Complete, NoRowSkipped, NoRowSkipped
  <2>2. StreamInv /\ [Next]_vars => StreamInv'
    BY <1>1, StreamNext, Zenon
  <2>3. QED
    BY <2>1, <2>2, StreamInitially, PTL DEF Spec
<1>2. CASE ~ToldByArity
  <2>1. NoRowSkipped
    BY <1>2, Zenon DEF NoRowSkipped, NoRowSkipped
  <2>2. QED
    BY <2>1, PTL
<1>3. QED
  BY <1>1, <1>2
============================================================================
