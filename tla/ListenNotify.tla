---------------------------- MODULE ListenNotify ----------------------------
(***************************************************************************)
(* The postgres_listen_notify watch (watch_pg_listen.rs): every watch on   *)
(* one (url, channel) shares one LISTEN connection, which is held alive by *)
(* the watches that use it, found again through a Weak reference in the    *)
(* plugin's listener map, and fanned out over a bounded broadcast channel. *)
(* The module is about one key of that map; keys do not interact.          *)
(*                                                                         *)
(* A watch opens at most one connection, so a connection is named by the   *)
(* watch that opened it.  A NOTIFY payload is the set of watched URIs it   *)
(* names, and a watch is named by its URI.                                 *)
(***************************************************************************)
EXTENDS Integers, Sequences

CONSTANTS
    Watches,      \* the calls of watch() on the key
    None,         \* no connection
    Filtered,     \* the watches whose spec has a uri_match
    Payloads,     \* the payloads a NOTIFY may carry
    Buffer,       \* NOTIFICATION_BUFFER
    MaxNotify,    \* bound: notifications of a behaviour
    MaxOutage     \* bound: outages of the database in a behaviour

ASSUME ListenAssumption ==
    /\ None \notin Watches
    /\ Filtered \subseteq Watches
    /\ Payloads \subseteq SUBSET Watches
    /\ Buffer \in Nat \ {0}
    /\ MaxNotify \in Nat
    /\ MaxOutage \in Nat

VARIABLES
    pc,        \* where each call of watch(), and then its task, stands
    holds,     \* the SharedListener each watch has an Arc of
    listeners, \* the Weak<SharedListener> in the listener map
    task,      \* the connection each watch opened, and the task reading it
    link,      \* whether that connection is up
    up,        \* whether the database accepts connections
    buffered,  \* what each connection received and its task has not read
    sent,      \* what each connection's task put on its broadcast channel
    next,      \* how far each watch has read the channel
    joined,    \* where the channel ended when each watch subscribed (history)
    reported,  \* the positions of the channel a watch has reported (history)
    notified,  \* notifications so far
    outages    \* outages so far

vars == <<pc, holds, listeners, task, link, up, buffered, sent, next, joined,
          reported, notified, outages>>

watchVars == <<pc, holds, listeners, task>>
readVars  == <<next, joined, reported>>
dbVars    == <<up, notified, outages>>

Init ==
    /\ pc = [w \in Watches |-> "idle"]
    /\ holds = [w \in Watches |-> None]
    /\ listeners = None
    /\ task = [w \in Watches |-> "none"]
    /\ link = [w \in Watches |-> FALSE]
    /\ up = TRUE
    /\ buffered = [w \in Watches |-> << >>]
    /\ sent = [w \in Watches |-> << >>]
    /\ next = [w \in Watches |-> 0]
    /\ joined = [w \in Watches |-> 0]
    /\ reported = [w \in Watches |-> {}]
    /\ notified = 0
    /\ outages = 0

-----------------------------------------------------------------------------
\* The strong count of a SharedListener is not zero.
Alive(l) == \E w \in Watches : holds[w] = l

\* Weak::upgrade of the map's entry succeeds.
Upgrades == listeners # None /\ Alive(listeners)

(***************************************************************************)
(* listener(): the first look at the map, under its lock.                  *)
(***************************************************************************)
Watch(w) ==
    /\ pc[w] = "idle"
    /\ IF Upgrades
         THEN /\ holds' = [holds EXCEPT ![w] = listeners]
              /\ pc' = [pc EXCEPT ![w] = "joining"]
         ELSE /\ pc' = [pc EXCEPT ![w] = "opening"]
              /\ UNCHANGED holds
    /\ UNCHANGED <<listeners, task, link, buffered, sent, readVars, dbVars>>

\* PgListener::connect and LISTEN, outside the lock.
Connect(w) ==
    /\ pc[w] = "opening"
    /\ up
    /\ pc' = [pc EXCEPT ![w] = "opened"]
    /\ task' = [task EXCEPT ![w] = "open"]
    /\ link' = [link EXCEPT ![w] = TRUE]
    /\ UNCHANGED <<holds, listeners, buffered, sent, readVars, dbVars>>

ConnectFails(w) ==
    /\ pc[w] = "opening"
    /\ ~up
    /\ pc' = [pc EXCEPT ![w] = "failed"]
    /\ UNCHANGED <<holds, listeners, task, link, buffered, sent, readVars, dbVars>>

\* A bug to be caught: the map is not looked at again after the connect.
RegisterBlindly(w) ==
    /\ pc[w] = "opened"
    /\ pc' = [pc EXCEPT ![w] = "joining"]
    /\ holds' = [holds EXCEPT ![w] = w]
    /\ listeners' = w
    /\ task' = [task EXCEPT ![w] = "reading"]
    /\ UNCHANGED <<link, buffered, sent, readVars, dbVars>>

(***************************************************************************)
(* listener(): the second look, under the lock.  A connection another      *)
(* watch registered meanwhile is used and the one just opened is dropped;  *)
(* else this one is registered and its task spawned.                       *)
(***************************************************************************)
Register(w) ==
    /\ pc[w] = "opened"
    /\ pc' = [pc EXCEPT ![w] = "joining"]
    /\ IF Upgrades
         THEN /\ holds' = [holds EXCEPT ![w] = listeners]
              /\ task' = [task EXCEPT ![w] = "ended"]
              /\ link' = [link EXCEPT ![w] = FALSE]
              /\ buffered' = [buffered EXCEPT ![w] = << >>]
              /\ UNCHANGED listeners
         ELSE /\ holds' = [holds EXCEPT ![w] = w]
              /\ listeners' = w
              /\ task' = [task EXCEPT ![w] = "reading"]
              /\ UNCHANGED <<link, buffered>>
    /\ UNCHANGED <<sent, readVars, dbVars>>

\* watch(): subscribe to the channel from its present end, spawn the task.
Subscribe(w) ==
    /\ pc[w] = "joining"
    /\ pc' = [pc EXCEPT ![w] = "running"]
    /\ next' = [next EXCEPT ![w] = Len(sent[holds[w]])]
    /\ joined' = [joined EXCEPT ![w] = Len(sent[holds[w]])]
    /\ UNCHANGED <<holds, listeners, task, link, buffered, sent, reported, dbVars>>

-----------------------------------------------------------------------------
\* UriMatch::matches, and its absence.
matches(w, payload) == w \notin Filtered \/ w \in payload

\* The oldest position of the channel that is still kept, less one.
Oldest(w) == Len(sent[holds[w]]) - Buffer

\* A bug to be caught: a lagging watch goes on without reporting a change.
LaggedSilently(w) ==
    /\ pc[w] = "running"
    /\ next[w] < Oldest(w)
    /\ next' = [next EXCEPT ![w] = Oldest(w)]
    /\ UNCHANGED <<watchVars, link, buffered, sent, joined, reported, dbVars>>

\* A bug to be caught: a lagging watch waits to be cancelled, as a closed one.
LaggedStops(w) ==
    /\ pc[w] = "running"
    /\ next[w] < Oldest(w)
    /\ UNCHANGED vars

(***************************************************************************)
(* A watch more than Buffer behind (RecvError::Lagged) goes on from the    *)
(* oldest notification kept, and reports one change for all it missed.     *)
(***************************************************************************)
Lagged(w) ==
    /\ pc[w] = "running"
    /\ next[w] < Oldest(w)
    /\ next' = [next EXCEPT ![w] = Oldest(w)]
    /\ reported' = [reported EXCEPT ![w] = @ \cup (next[w] + 1 .. Oldest(w))]
    /\ UNCHANGED <<watchVars, link, buffered, sent, joined, dbVars>>

\* The next notification of the channel is reported when it matches.
Deliver(w) ==
    /\ pc[w] = "running"
    /\ next[w] < Len(sent[holds[w]])
    /\ next[w] >= Oldest(w)
    /\ next' = [next EXCEPT ![w] = @ + 1]
    /\ reported' = [reported EXCEPT ![w] =
                      @ \cup {p \in {next[w] + 1} : matches(w, sent[holds[w]][p])}]
    /\ UNCHANGED <<watchVars, link, buffered, sent, joined, dbVars>>

\* PostgresListenNotifyWatchHandle::cancel.
Cancel(w) ==
    /\ pc[w] = "running"
    /\ pc' = [pc EXCEPT ![w] = "cancelled"]
    /\ UNCHANGED <<holds, listeners, task, link, buffered, sent, readVars, dbVars>>

\* The biased select sees the cancel first; the task drops its Arc.
End(w) ==
    /\ pc[w] = "cancelled"
    /\ pc' = [pc EXCEPT ![w] = "done"]
    /\ holds' = [holds EXCEPT ![w] = None]
    /\ next' = [next EXCEPT ![w] = 0]
    /\ joined' = [joined EXCEPT ![w] = 0]
    /\ reported' = [reported EXCEPT ![w] = {}]
    /\ UNCHANGED <<listeners, task, link, buffered, sent, dbVars>>

-----------------------------------------------------------------------------
\* SharedListener::drop cancels the task, which closes the connection.
TaskEnds(l) ==
    /\ task[l] \in {"reading", "dead"}
    /\ ~Alive(l)
    /\ task' = [task EXCEPT ![l] = "ended"]
    /\ link' = [link EXCEPT ![l] = FALSE]
    /\ buffered' = [buffered EXCEPT ![l] = << >>]
    /\ sent' = [sent EXCEPT ![l] = << >>]
    /\ UNCHANGED <<pc, holds, listeners, readVars, dbVars>>

\* A committed NOTIFY reaches the sessions that are listening; a PgListener
\* buffers it, from its LISTEN on.
Notify(payload) ==
    /\ up
    /\ notified < MaxNotify
    /\ notified' = notified + 1
    /\ buffered' = [l \in Watches |-> IF task[l] \in {"open", "reading"} /\ link[l]
                                        THEN Append(buffered[l], payload)
                                        ELSE buffered[l]]
    /\ UNCHANGED <<watchVars, link, sent, readVars, up, outages>>

\* The task puts the next notification on the channel, for the watches that
\* have subscribed by now.
Recv(l) ==
    /\ task[l] = "reading"
    /\ buffered[l] # << >>
    /\ sent' = [sent EXCEPT ![l] = Append(@, Head(buffered[l]))]
    /\ buffered' = [buffered EXCEPT ![l] = Tail(@)]
    /\ UNCHANGED <<watchVars, link, readVars, dbVars>>

\* The database goes away, and with it every connection; what was received
\* may be lost with it.
Outage ==
    /\ up
    /\ outages < MaxOutage
    /\ up' = FALSE
    /\ outages' = outages + 1
    /\ link' = [l \in Watches |-> FALSE]
    /\ buffered' \in {buffered, [l \in Watches |-> << >>]}
    /\ UNCHANGED <<watchVars, sent, readVars, notified>>

Recovery ==
    /\ ~up
    /\ up' = TRUE
    /\ UNCHANGED <<watchVars, link, buffered, sent, readVars, notified, outages>>

\* PgListener::recv reconnects and listens again, saying nothing.
Reconnect(l) ==
    /\ task[l] = "reading"
    /\ buffered[l] = << >>
    /\ ~link[l]
    /\ up
    /\ link' = [link EXCEPT ![l] = TRUE]
    /\ UNCHANGED <<watchVars, buffered, sent, readVars, dbVars>>

\* PgListener::recv cannot reconnect and fails: the task waits for its cancel.
RecvError(l) ==
    /\ task[l] = "reading"
    /\ buffered[l] = << >>
    /\ ~link[l]
    /\ ~up
    /\ task' = [task EXCEPT ![l] = "dead"]
    /\ UNCHANGED <<pc, holds, listeners, link, buffered, sent, readVars, dbVars>>

-----------------------------------------------------------------------------
Step(w) ==
    \/ Watch(w) \/ Connect(w) \/ ConnectFails(w) \/ Register(w)
    \/ Subscribe(w) \/ Lagged(w) \/ Deliver(w) \/ End(w)
    \/ TaskEnds(w) \/ Recv(w) \/ Reconnect(w)

Next ==
    \/ \E w \in Watches : Step(w) \/ Cancel(w) \/ RecvError(w)
    \/ \E payload \in Payloads : Notify(payload)
    \/ Outage
    \/ Recovery

Spec == Init /\ [][Next]_vars

\* The runtime polls every ready task, and an outage is over at some time.
Fairness ==
    /\ \A w \in Watches : /\ WF_vars(Connect(w))
                          /\ WF_vars(ConnectFails(w))
                          /\ WF_vars(Register(w))
                          /\ WF_vars(Subscribe(w))
                          /\ WF_vars(Lagged(w))
                          /\ WF_vars(Deliver(w))
                          /\ WF_vars(End(w))
                          /\ WF_vars(TaskEnds(w))
                          /\ WF_vars(Recv(w))
                          /\ WF_vars(Reconnect(w))
    /\ WF_vars(Recovery)

FairSpec == Spec /\ Fairness

-----------------------------------------------------------------------------
TypeOK ==
    /\ pc \in [Watches -> {"idle", "opening", "opened", "joining", "running",
                           "cancelled", "done", "failed"}]
    /\ holds \in [Watches -> Watches \cup {None}]
    /\ listeners \in Watches \cup {None}
    /\ task \in [Watches -> {"none", "open", "reading", "dead", "ended"}]
    /\ link \in [Watches -> BOOLEAN]
    /\ up \in BOOLEAN
    /\ buffered \in [Watches -> Seq(Payloads)]
    /\ sent \in [Watches -> Seq(Payloads)]
    /\ next \in [Watches -> Nat]
    /\ joined \in [Watches -> Nat]
    /\ reported \in [Watches -> SUBSET Nat]
    /\ notified \in 0 .. MaxNotify
    /\ outages \in 0 .. MaxOutage

\* Whatever the order in which watches open, join and leave, all the watches
\* that hold a connection hold the same one, and it is the one the map leads
\* to, so a later watch joins it too (listener() looks at the map twice
\* because it connects without the lock; the map's entry is only replaced when
\* its strong count is zero).
OneConnection ==
    \A w \in Watches : holds[w] # None => holds[w] = listeners

\* A watch passes over no notification about its URI without reporting a
\* change: the ones it reads it reports when they match, and the ones the
\* channel dropped while it lagged it reports as one change.
NothingPassedOver ==
    \A w \in Watches : pc[w] = "running" =>
        \A p \in joined[w] + 1 .. next[w] :
            matches(w, sent[holds[w]][p]) => p \in reported[w]

\* What has reached the connection of a watch, on the channel or not yet.
Reached(w) == sent[holds[w]] \o buffered[holds[w]]

\* A notification about its URI that reaches the connection of a running
\* watch, or that the connection had received but not read when the watch
\* subscribed, is reported by that watch, lagging or not; or the watch is
\* cancelled, or the notification was lost in an outage before it was read.
NotificationsReported ==
    \A w \in Watches, p \in 1 .. MaxNotify :
        (/\ pc[w] = "running"
         /\ p \in joined[w] + 1 .. Len(Reached(w))
         /\ matches(w, Reached(w)[p]))
            ~> (\/ p \in reported[w]
                \/ pc[w] # "running"
                \/ ~up /\ p > Len(Reached(w)))

\* A running watch whose connection broke gets it back after the outage (the
\* module doc: PgListener "re-connects transparently on disconnection and
\* re-issues LISTEN").  A recv error during the outage ends the reading for
\* good, and watches that join later join the dead connection.
ReconnectsAfterOutage ==
    \A w \in Watches :
        pc[w] = "running"
            ~> (pc[w] # "running" \/ (task[holds[w]] = "reading" /\ link[holds[w]]))

=============================================================================
