----------------------------- MODULE PollingWatch -----------------------------
(***************************************************************************)
(* A `sql_polling` watch (src/src/watch.rs): a tracking query is run at    *)
(* every tick, and an event without content is emitted when its first      *)
(* scalar differs from the one before.  The consumer reads the resource    *)
(* again after an event.                                                   *)
(*                                                                         *)
(* `db` numbers the states of the table; the cursors of two states differ  *)
(* unless the tracking query has no row in either.  To the loop, a poll    *)
(* without a row is as if there had been none: the next is a baseline.     *)
(***************************************************************************)
EXTENDS Naturals

CONSTANTS MaxChanges,  \* bound: changes of the table
          Empty        \* states in which the tracking query returns no row

State == 1..MaxChanges + 1
NoCursor == 0

VARIABLES
  db,
  pc,         \* "new", "refused", "ticking", "polling", "emitting" or "ended"
  cancelled,
  last,       \* last_cursor
  read,       \* the state the tracking query saw
  pending,    \* an event the consumer has not acted on
  view,       \* the state the consumer read last
  base        \* history: the state of the baseline

vars == <<db, pc, cancelled, last, read, pending, view, base>>

Change ==
  /\ db <= MaxChanges
  /\ db' = db + 1
  /\ UNCHANGED <<pc, cancelled, last, read, pending, view, base>>

\* The consumer reads the resource again.
Reread ==
  /\ pending
  /\ pending' = FALSE
  /\ view' = db
  /\ UNCHANGED <<db, pc, cancelled, last, read, base>>

\* The spec parses, the pool opens and the health check passes, and the loop
\* is spawned; otherwise the host gets an error and no handle.
Subscribe ==
  /\ pc = "new"
  /\ pc' \in {"ticking", "refused"}
  /\ UNCHANGED <<db, cancelled, last, read, pending, view, base>>

\* The host cancels through the handle it was given.
Cancel ==
  /\ pc \notin {"new", "refused"}
  /\ ~cancelled
  /\ cancelled' = TRUE
  /\ UNCHANGED <<db, pc, last, read, pending, view, base>>

\* select!, biased to the cancel.
Tick ==
  /\ pc = "ticking"
  /\ IF cancelled
     THEN pc' = "ended" /\ UNCHANGED read
     ELSE pc' = "polling" /\ read' = db
  /\ UNCHANGED <<db, cancelled, last, pending, view, base>>

\* Mutant of PollFails: a failed poll ends the watch.
PollFailsEnds ==
  /\ pc = "polling"
  /\ pc' = "ended"
  /\ read' = NoCursor
  /\ UNCHANGED <<db, cancelled, last, pending, view, base>>

\* A single failed poll does not end the watch.
PollFails ==
  /\ pc = "polling"
  /\ pc' = "ticking"
  /\ read' = NoCursor
  /\ UNCHANGED <<db, cancelled, last, pending, view, base>>

first_scalar(n) == IF n \in Empty THEN NoCursor ELSE n

\* Only a change is an event, the baseline is not.
Changed(old, new) == new # old /\ old # NoCursor

PollSucceeds ==
  /\ pc = "polling"
  /\ pc' = IF Changed(last, first_scalar(read)) THEN "emitting" ELSE "ticking"
  /\ last' = first_scalar(read)
  /\ base' = IF last = NoCursor THEN read ELSE base
  /\ read' = NoCursor
  /\ UNCHANGED <<db, cancelled, pending, view>>

\* sink.emit, awaited whether or not the watch is cancelled meanwhile.
Emit ==
  /\ pc = "emitting"
  /\ pc' = "ticking"
  /\ pending' = TRUE
  /\ UNCHANGED <<db, cancelled, last, read, view, base>>

Init ==
  /\ db = 1
  /\ pc = "new"
  /\ cancelled = FALSE
  /\ last = NoCursor
  /\ read = NoCursor
  /\ pending = FALSE
  /\ view = 1
  /\ base = NoCursor

poll_loop == Tick \/ PollSucceeds \/ PollFails \/ Emit

Next == Change \/ Reread \/ Subscribe \/ Cancel \/ poll_loop

Spec == Init /\ [][Next]_vars

\* Ticks come, polls end and now and then succeed, the consumer reads.
Fairness == WF_vars(poll_loop) /\ SF_vars(PollSucceeds) /\ WF_vars(Reread)

----------------------------------------------------------------------------
(* Properties                                                               *)

\* Again and again the consumer has the state of the table, which changes a
\* bounded number of times: also when polls fail, and when changes hide one
\* another, unless the watch is cancelled, has had no baseline or, after a
\* poll without a row, takes the changed state for its baseline.
ConsumerCatchesUp == []<>(view = db \/ cancelled \/ base \in {NoCursor, db})
=============================================================================
