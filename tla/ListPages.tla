------------------------------ MODULE ListPages ------------------------------
(***************************************************************************)
(* resources/list over a binding's list_query (list_resources,             *)
(* run_list_query and batch_to_resource_page in src/src/lib.rs): the host  *)
(* asks for page after page while rows come and go.                        *)
(*                                                                         *)
(* A row is a number, its cursor_column value; the operator's SQL turns    *)
(* the cursor's text back into it.  The host hands back the next_cursor it *)
(* was given, so an offset always parses.  0 is an absent cursor.          *)
(***************************************************************************)
EXTENDS Naturals, FiniteSets

CONSTANTS PageSize,
          MaxRow,      \* bound: rows
          MaxWrites,   \* bound: inserts and deletes
          MaxLacking   \* bound: rows without a uri

Row == 1..MaxRow
Absent == 0

VARIABLES
  rows,
  lacking,   \* rows that are no object or have no uri
  mode,      \* list_query.mode
  keyed,     \* whether the SELECT returns the cursor column
  pc,        \* the host: "listing" or "done"
  cursor,    \* the cursor of its next request
  listed,    \* history: the resources it was given
  again,     \* history: the ones it was given more than once
  stayed,    \* history: rows there since the listing began
  writes

vars == <<rows, lacking, mode, keyed, pc, cursor, listed, again, stayed, writes>>

Init ==
  /\ rows \in SUBSET Row
  /\ lacking \in {l \in SUBSET Row : Cardinality(l) <= MaxLacking}
  /\ mode \in {"keyset", "offset"}
  /\ keyed \in BOOLEAN
  /\ pc = "listing"
  /\ cursor = Absent
  /\ listed = {}
  /\ again = {}
  /\ stayed = rows
  /\ writes = 0

-----------------------------------------------------------------------------
Insert(r) ==
  /\ writes < MaxWrites
  /\ r \notin rows
  /\ rows' = rows \cup {r}
  /\ writes' = writes + 1
  /\ UNCHANGED <<lacking, mode, keyed, pc, cursor, listed, again, stayed>>

Delete(r) ==
  /\ writes < MaxWrites
  /\ r \in rows
  /\ rows' = rows \ {r}
  /\ stayed' = stayed \ {r}
  /\ writes' = writes + 1
  /\ UNCHANGED <<lacking, mode, keyed, pc, cursor, listed, again>>

Rank(r, S) == Cardinality({s \in S : s < r})

\* run_list_query binds :cursor, NULL or 0 on the first page, and :page_size.
\* WHERE col > :cursor ORDER BY col LIMIT :page_size, or LIMIT and OFFSET.
run_list_query ==
  IF mode = "keyset"
  THEN LET beyond == {r \in rows : r > cursor}
       IN  {r \in beyond : Rank(r, beyond) < PageSize}
  ELSE {r \in rows : Rank(r, rows) \in cursor..cursor + PageSize - 1}

Greatest(S) == CHOOSE r \in S : \A s \in S : s <= r

\* A bug to be caught: a short page is told by what was listed.
NextCursorByListed(batch, resources) ==
  IF Cardinality(resources) < PageSize THEN Absent
  ELSE IF mode = "offset" THEN Cardinality(batch)
  ELSE IF keyed THEN Greatest(resources) ELSE Absent

\* batch_to_resource_page: fewer rows than page_size end the listing; else
\* the cursor is the last listed row's value, or the number of rows.
NextCursor(batch, resources) ==
  IF Cardinality(batch) < PageSize THEN Absent
  ELSE IF mode = "offset" THEN Cardinality(batch)
  ELSE IF keyed /\ resources # {} THEN Greatest(resources) ELSE Absent

\* Rows without a uri are skipped.
list_resources ==
  LET batch == run_list_query
      resources == batch \ lacking
  IN  /\ pc = "listing"
      /\ cursor' = NextCursor(batch, resources)
      /\ pc' = IF cursor' = Absent THEN "done" ELSE "listing"
      /\ listed' = listed \cup resources
      /\ again' = again \cup (listed \cap resources)
      /\ UNCHANGED <<rows, lacking, mode, keyed, stayed, writes>>

Next ==
  \/ \E r \in Row : Insert(r) \/ Delete(r)
  \/ list_resources

Spec == Init /\ [][Next]_vars

-----------------------------------------------------------------------------
\* A keyset listing is exact under inserts and deletes between its pages: no
\* resource is listed twice, although a page that ends in skipped rows leaves
\* the cursor before them and they are read again; and when next_cursor is
\* absent, every resource that was there all along has been listed, if the
\* SELECT returns the cursor column at all and there are too few rows without
\* a uri to fill a page, which would end the listing.
ListedExactly ==
  mode = "keyset" /\ Cardinality(lacking) < PageSize =>
    /\ again = {}
    /\ pc = "done" /\ keyed => stayed \ lacking \subseteq listed

=============================================================================
