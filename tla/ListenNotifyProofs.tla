------------------------- MODULE ListenNotifyProofs -------------------------
(***************************************************************************)
(* The shared LISTEN connection is one, and no watch on it passes over a   *)
(* notification, for any number of watches and any size of the buffer.  A  *)
(* polling watch announces every change it sees, for any number of them.   *)
(***************************************************************************)
EXTENDS MCListenNotify, TLAPS

\* What OneConnection needs of the other variables: the functions have their
\* domains, and the map's entry is a watch or None.
IInv ==
    /\ DOMAIN holds = Watches
    /\ listeners \in Watches \cup {None}
    /\ OneConnection

\* Initially no watch holds a connection.
LEMMA InitIInv == Init => IInv
  BY DEF Init, IInv, OneConnection

\* A step keeps the invariant: the map's entry changes only when it is not
\* Alive, that is, when no watch holds what it leads to.
LEMMA NextIInv == IInv /\ [Next]_vars => IInv'
<1> SUFFICES ASSUME IInv, [Next]_vars PROVE IInv'
  OBVIOUS
<1> USE ListenAssumption DEF ListenAssumption, IInv, OneConnection
<1>1. ASSUME NEW w \in Watches, Watch(w) PROVE IInv'
  BY <1>1 DEF Watch, Upgrades
<1>2. ASSUME NEW w \in Watches, Register(w) PROVE IInv'
  <2>1. CASE Upgrades
    BY <1>2, <2>1 DEF Register, Upgrades
  <2>2. CASE ~Upgrades
    <3>1. \A v \in Watches : holds[v] = None
      BY <2>2 DEF Upgrades, Alive
    <3>2. holds' = [holds EXCEPT ![w] = w] /\ listeners' = w
      BY <1>2, <2>2 DEF Register
    <3> QED BY <3>1, <3>2
  <2> QED BY <2>1, <2>2
<1>3. ASSUME NEW w \in Watches, End(w) PROVE IInv'
  BY <1>3 DEF End
<1>4. CASE UNCHANGED <<holds, listeners>>
  BY <1>4
<1>5. ASSUME NEW w \in Watches,
             Connect(w) \/ ConnectFails(w) \/ Subscribe(w) \/ Lagged(w)
               \/ Deliver(w) \/ TaskEnds(w) \/ Recv(w) \/ Reconnect(w)
               \/ Cancel(w) \/ RecvError(w)
      PROVE  UNCHANGED <<holds, listeners>>
  BY <1>5 DEF Connect, ConnectFails, Subscribe, Lagged, Deliver, TaskEnds,
              Recv, Reconnect, Cancel, RecvError, watchVars
<1>6. ASSUME NEW p \in Payloads, Notify(p) PROVE UNCHANGED <<holds, listeners>>
  BY <1>6 DEF Notify, watchVars
<1>7. ASSUME Outage \/ Recovery \/ UNCHANGED vars
      PROVE  UNCHANGED <<holds, listeners>>
  BY <1>7 DEF Outage, Recovery, vars, watchVars
<1> QED BY <1>1, <1>2, <1>3, <1>4, <1>5, <1>6, <1>7 DEF Next, Step

\* However many watches open, join, lag and end, and in whatever order, the
\* ones that hold a connection hold the one the listener map leads to.
THEOREM SharedConnection == Spec => []OneConnection
<1>1. IInv => OneConnection
  BY DEF IInv
<1> QED BY InitIInv, NextIInv, <1>1, PTL DEF Spec

-----------------------------------------------------------------------------
\* A watch holds a connection from joining it to dropping it, and has read no
\* further than its channel goes.
ReadInv ==
    /\ \A w \in Watches :
         pc[w] \in {"joining", "running", "cancelled"} => holds[w] \in Watches
    /\ \A w \in Watches : pc[w] = "running" => next[w] <= Len(sent[holds[w]])

\* TypeOK in parts: the Boolean variables, the watches' places, the channels.
BooleanOK == link \in [Watches -> BOOLEAN] /\ up \in BOOLEAN

PlaceOK ==
    /\ pc \in [Watches -> {"idle", "opening", "opened", "joining", "running",
                           "cancelled", "done", "failed"}]
    /\ holds \in [Watches -> Watches \cup {None}]
    /\ listeners \in Watches \cup {None}
    /\ task \in [Watches -> {"none", "open", "reading", "dead", "ended"}]

ChannelOK ==
    /\ buffered \in [Watches -> Seq(Payloads)]
    /\ sent \in [Watches -> Seq(Payloads)]
    /\ next \in [Watches -> Nat]
    /\ joined \in [Watches -> Nat]
    /\ reported \in [Watches -> SUBSET Nat]
    /\ notified \in 0 .. MaxNotify
    /\ outages \in 0 .. MaxOutage

DataOK == PlaceOK /\ ChannelOK

RInv == DataOK /\ ReadInv /\ NothingPassedOver

\* Initially nothing is sent or read.
LEMMA InitRInv == Init => RInv
  BY ListenAssumption DEF ListenAssumption, Init, RInv, DataOK, PlaceOK, ChannelOK,
                          ReadInv, NothingPassedOver

\* The Boolean variables stay Boolean.
LEMMA BooleanStep == BooleanOK /\ [Next]_vars => BooleanOK'
<1> SUFFICES ASSUME BooleanOK, [Next]_vars PROVE BooleanOK'
  OBVIOUS
<1> USE DEF BooleanOK, dbVars
<1>1. ASSUME NEW w \in Watches, link' = [link EXCEPT ![w] = TRUE], up' = up
      PROVE  BooleanOK'
  BY <1>1, Zenon
<1>2. ASSUME NEW w \in Watches, link' = [link EXCEPT ![w] = FALSE], up' = up
      PROVE  BooleanOK'
  BY <1>2, Zenon
<1>3. CASE UNCHANGED <<link, up>>
  BY <1>3, Zenon
<1>4. ASSUME NEW w \in Watches, Step(w) \/ Cancel(w) \/ RecvError(w)
      PROVE  BooleanOK'
  BY <1>1, <1>2, <1>3, <1>4, Zenon
     DEF Step, Watch, Connect, ConnectFails, Register, Subscribe, Lagged, Deliver,
         End, TaskEnds, Recv, Reconnect, Cancel, RecvError
<1>5. ASSUME NEW x \in Payloads, Notify(x) PROVE BooleanOK'
  BY <1>3, <1>5, Zenon DEF Notify
<1>6. CASE Outage
  BY <1>6, Zenon DEF Outage
<1>7. CASE Recovery
  BY <1>7, Zenon DEF Recovery
<1>8. CASE UNCHANGED vars
  BY <1>3, <1>8, Zenon DEF vars
<1> QED BY <1>4, <1>5, <1>6, <1>7, <1>8, Zenon DEF Next

\* Where a channel ends and what it holds, before and after one more payload.
LEMMA Longer ==
  ASSUME NEW s \in Seq(Payloads), NEW x \in Payloads
  PROVE  /\ Append(s, x) \in Seq(Payloads)
         /\ Len(Append(s, x)) = Len(s) + 1
         /\ \A p \in 1 .. Len(s) : Append(s, x)[p] = s[p]
  OBVIOUS

\* The types are kept; the watch that reads holds a connection.
LEMMA DataStep == RInv /\ [Next]_vars => DataOK'
<1> SUFFICES ASSUME RInv, [Next]_vars PROVE DataOK'
  OBVIOUS
<1> USE DEF watchVars, readVars, dbVars
<1>t. DataOK /\ ReadInv
  BY DEF RInv
<1>e. << >> \in Seq(Payloads)
  OBVIOUS
<1>1. ASSUME NEW w \in Watches, Watch(w) PROVE DataOK'
  <2>1. /\ (pc' = [pc EXCEPT ![w] = "joining"] \/ pc' = [pc EXCEPT ![w] = "opening"])
        /\ (holds' = holds \/ holds' = [holds EXCEPT ![w] = listeners])
        /\ UNCHANGED <<listeners, task, buffered, sent, readVars, notified, outages>>
    BY <1>1 DEF Watch
  <2>2. PlaceOK'
    BY <1>t, <2>1 DEF DataOK, PlaceOK
  <2>3. ChannelOK'
    BY <1>t, <2>1 DEF DataOK, ChannelOK
  <2> QED BY <2>2, <2>3 DEF DataOK
<1>2. ASSUME NEW w \in Watches, Connect(w) \/ ConnectFails(w) PROVE DataOK'
  <2>1. /\ (pc' = [pc EXCEPT ![w] = "opened"] \/ pc' = [pc EXCEPT ![w] = "failed"])
        /\ (task' = task \/ task' = [task EXCEPT ![w] = "open"])
        /\ UNCHANGED <<holds, listeners, buffered, sent, readVars, notified, outages>>
    BY <1>2 DEF Connect, ConnectFails
  <2>2. PlaceOK'
    BY <1>t, <2>1 DEF DataOK, PlaceOK
  <2>3. ChannelOK'
    BY <1>t, <2>1 DEF DataOK, ChannelOK
  <2> QED BY <2>2, <2>3 DEF DataOK
<1>3. ASSUME NEW w \in Watches, Register(w) PROVE DataOK'
  <2>1. /\ pc' = [pc EXCEPT ![w] = "joining"]
        /\ (holds' = [holds EXCEPT ![w] = listeners] \/ holds' = [holds EXCEPT ![w] = w])
        /\ (listeners' = listeners \/ listeners' = w)
        /\ (task' = [task EXCEPT ![w] = "ended"] \/ task' = [task EXCEPT ![w] = "reading"])
        /\ (buffered' = buffered \/ buffered' = [buffered EXCEPT ![w] = << >>])
        /\ UNCHANGED <<sent, readVars, notified, outages>>
    BY <1>3 DEF Register
  <2>2. PlaceOK'
    BY <1>t, <2>1 DEF DataOK, PlaceOK
  <2>3. ChannelOK'
    BY <1>t, <1>e, <2>1 DEF DataOK, ChannelOK
  <2> QED BY <2>2, <2>3 DEF DataOK
<1>4. ASSUME NEW w \in Watches, Subscribe(w) PROVE DataOK'
  <2> DEFINE end == Len(sent[holds[w]])
  <2>1. /\ pc' = [pc EXCEPT ![w] = "running"]
        /\ next' = [next EXCEPT ![w] = end] /\ joined' = [joined EXCEPT ![w] = end]
        /\ UNCHANGED <<holds, listeners, task, buffered, sent, reported, notified, outages>>
    BY <1>4 DEF Subscribe
  <2>2. end \in Nat
    <3>1. holds[w] \in Watches
      BY <1>t, <1>4 DEF Subscribe, ReadInv
    <3>2. sent[holds[w]] \in Seq(Payloads)
      BY Zenon, <1>t, <3>1 DEF DataOK, ChannelOK
    <3> QED BY <3>2
  <2> HIDE DEF end
  <2>3. PlaceOK'
    BY <1>t, <2>1 DEF DataOK, PlaceOK
  <2>4. ChannelOK'
    BY <1>t, <2>1, <2>2 DEF DataOK, ChannelOK
  <2> QED BY <2>3, <2>4 DEF DataOK
<1>5. ASSUME NEW w \in Watches, Lagged(w) PROVE DataOK'
  BY SMTT(30), <1>t, <1>5, ListenAssumption
     DEF Lagged, Oldest, DataOK, PlaceOK, ChannelOK, ReadInv, ListenAssumption
<1>6. ASSUME NEW w \in Watches, Deliver(w) PROVE DataOK'
  <2>1. holds[w] \in Watches
    BY <1>t, <1>6 DEF Deliver, ReadInv
  <2>2. PlaceOK'
    BY <1>t, <1>6 DEF Deliver, DataOK, PlaceOK
  <2>3. ChannelOK'
    BY SMTT(30), <1>t, <1>6, <2>1 DEF Deliver, DataOK, ChannelOK
  <2> QED BY <2>2, <2>3 DEF DataOK
<1>7. ASSUME NEW w \in Watches, End(w) PROVE DataOK'
  <2>1. /\ pc' = [pc EXCEPT ![w] = "done"]
        /\ holds' = [holds EXCEPT ![w] = None]
        /\ next' = [next EXCEPT ![w] = 0]
        /\ joined' = [joined EXCEPT ![w] = 0]
        /\ reported' = [reported EXCEPT ![w] = {}]
        /\ UNCHANGED <<listeners, task, buffered, sent, notified, outages>>
    BY <1>7 DEF End
  <2>2. PlaceOK'
    BY <1>t, <2>1 DEF DataOK, PlaceOK
  <2>3. ChannelOK'
    BY <1>t, <2>1 DEF DataOK, ChannelOK
  <2> QED BY <2>2, <2>3 DEF DataOK
<1>8. ASSUME NEW w \in Watches, Cancel(w) PROVE DataOK'
  BY <1>t, <1>8 DEF Cancel, DataOK, PlaceOK, ChannelOK
<1>9. ASSUME NEW w \in Watches, TaskEnds(w) \/ Reconnect(w) \/ RecvError(w)
      PROVE  DataOK'
  <2>1. /\ (task' = task \/ task' = [task EXCEPT ![w] = "ended"] \/ task' = [task EXCEPT ![w] = "dead"])
        /\ (sent' = sent \/ sent' = [sent EXCEPT ![w] = << >>])
        /\ (buffered' = buffered \/ buffered' = [buffered EXCEPT ![w] = << >>])
        /\ UNCHANGED <<pc, holds, listeners, readVars, notified, outages>>
    BY <1>9 DEF TaskEnds, Reconnect, RecvError
  <2>3. PlaceOK'
    BY <1>t, <2>1 DEF DataOK, PlaceOK
  <2>4. sent' \in [Watches -> Seq(Payloads)] /\ buffered' \in [Watches -> Seq(Payloads)]
    BY Zenon, <1>t, <1>e, <2>1 DEF DataOK, ChannelOK
  <2>5. ChannelOK'
    BY <1>t, <2>1, <2>4 DEF DataOK, ChannelOK
  <2> QED BY <2>3, <2>5 DEF DataOK
<1>10. ASSUME NEW x \in Payloads, Notify(x) PROVE DataOK'
  BY <1>t, <1>10, ListenAssumption, Longer DEF Notify, DataOK, PlaceOK, ChannelOK, ListenAssumption
<1>13. ASSUME NEW w \in Watches, Recv(w) PROVE DataOK'
  <2>1. Head(buffered[w]) \in Payloads /\ Tail(buffered[w]) \in Seq(Payloads)
    BY <1>t, <1>13 DEF Recv, DataOK, ChannelOK
  <2>2. PlaceOK'
    BY <1>t, <1>13 DEF Recv, DataOK, PlaceOK
  <2>3. ChannelOK'
    BY <1>t, <1>13, <2>1, Longer DEF Recv, DataOK, ChannelOK
  <2> QED BY <2>2, <2>3 DEF DataOK
<1>11. CASE Outage \/ Recovery
  <2>1. /\ buffered' = buffered \/ buffered' = [l \in Watches |-> << >>]
        /\ outages' \in 0 .. MaxOutage
        /\ UNCHANGED <<watchVars, sent, readVars, notified>>
    BY <1>t, <1>11, ListenAssumption
       DEF Outage, Recovery, DataOK, ChannelOK, ListenAssumption
  <2>2. buffered' \in [Watches -> Seq(Payloads)]
    BY <1>t, <1>e, <2>1 DEF DataOK, ChannelOK
  <2> QED BY <1>t, <2>1, <2>2 DEF DataOK, PlaceOK, ChannelOK
<1>12. CASE UNCHANGED vars
  BY <1>t, <1>12 DEF vars, DataOK, PlaceOK, ChannelOK
<1> QED BY <1>1, <1>2, <1>3, <1>4, <1>5, <1>6, <1>7, <1>8, <1>9, <1>10, <1>11,
           <1>12, <1>13 DEF Next, Step

\* A channel only grows while a watch holds it, so what a watch has read stays
\* where it was; a watch moves on past what it reports or need not report.
LEMMA ReadStep == RInv /\ [Next]_vars => (ReadInv /\ NothingPassedOver)'
<1> SUFFICES ASSUME RInv, [Next]_vars PROVE (ReadInv /\ NothingPassedOver)'
  OBVIOUS
<1> USE DEF watchVars, readVars, dbVars
<1> DEFINE Held(v) == pc[v] \in {"joining", "running", "cancelled"} => holds[v] \in Watches
           Within(v) == pc[v] = "running" => next[v] <= Len(sent[holds[v]])
           Passed(v) == pc[v] = "running" =>
                          \A p \in joined[v] + 1 .. next[v] :
                            matches(v, sent[holds[v]][p]) => p \in reported[v]
           Good(v) == Held(v) /\ Within(v) /\ Passed(v)
           \* The watch stays where it is, on a channel that keeps what it read.
           Stays(v) == /\ UNCHANGED <<pc[v], holds[v], next[v], joined[v], reported[v]>>
                       /\ pc[v] = "running" =>
                            /\ Len(sent'[holds[v]]) \in Nat
                            /\ Len(sent'[holds[v]]) >= Len(sent[holds[v]])
                            /\ \A p \in 1 .. Len(sent[holds[v]]) :
                                 sent'[holds[v]][p] = sent[holds[v]][p]
           \* The watch is not running.
           Off(v) == pc'[v] # "running" /\ Held(v)'
<1>t. PlaceOK /\ ChannelOK
  BY DEF RInv, DataOK
<1>g. \A v \in Watches : Good(v)
  BY DEF RInv, ReadInv, NothingPassedOver
<1>l. \A l \in Watches : Len(sent[l]) \in Nat
  BY <1>t DEF ChannelOK
<1>s. ASSUME NEW v \in Watches, Stays(v) PROVE Good(v)'
  <2>1. Held(v)'
    BY <1>g, <1>s
  <2>2. CASE pc'[v] # "running"
    BY <2>1, <2>2
  <2>3. CASE pc'[v] = "running"
    <3>1. /\ pc[v] = "running"
          /\ holds[v] \in Watches
          /\ next[v] <= Len(sent[holds[v]])
          /\ next[v] \in Nat /\ joined[v] \in Nat
          /\ Len(sent[holds[v]]) \in Nat
      BY Zenon, <1>g, <1>s, <1>t, <1>l, <2>3 DEF ChannelOK
    <3>2. Within(v)'
      BY <1>s, <3>1
    <3>3. \A p \in joined[v] + 1 .. next[v] : sent'[holds[v]][p] = sent[holds[v]][p]
      BY <1>s, <3>1
    <3>4. Passed(v)'
      BY ZenonT(30), <1>g, <1>s, <3>1, <3>3 DEF matches
    <3> QED BY <2>1, <3>2, <3>4
  <2> QED BY <2>2, <2>3
<1>o. ASSUME NEW v \in Watches, Off(v) PROVE Good(v)'
  BY <1>o
<1>u. ASSUME \A v \in Watches : Good(v)' PROVE (ReadInv /\ NothingPassedOver)'
  BY <1>u DEF ReadInv, NothingPassedOver
<1> HIDE DEF Good
<1>1. ASSUME NEW w \in Watches, Watch(w), NEW v \in Watches PROVE Good(v)'
  <2>1. /\ \/ pc' = [pc EXCEPT ![w] = "opening"] /\ holds' = holds
           \/ /\ pc' = [pc EXCEPT ![w] = "joining"]
              /\ holds' = [holds EXCEPT ![w] = listeners]
              /\ listeners # None
        /\ UNCHANGED <<sent, next, joined, reported>>
    BY <1>1 DEF Watch, Upgrades
  <2>2. CASE v = w
    BY <1>o, <1>t, <2>1, <2>2 DEF PlaceOK
  <2>3. CASE v # w
    BY <1>s, <1>t, <1>l, <1>g, <2>1, <2>3 DEF PlaceOK, Good
  <2> QED BY <2>2, <2>3
<1>2. ASSUME NEW w \in Watches, Connect(w) \/ ConnectFails(w), NEW v \in Watches
      PROVE  Good(v)'
  <2>1. /\ pc' = [pc EXCEPT ![w] = "opened"] \/ pc' = [pc EXCEPT ![w] = "failed"]
        /\ UNCHANGED <<holds, sent, next, joined, reported>>
    BY <1>2 DEF Connect, ConnectFails
  <2>2. CASE v = w
    BY <1>o, <1>t, <2>1, <2>2 DEF PlaceOK
  <2>3. CASE v # w
    BY <1>s, <1>t, <1>l, <1>g, <2>1, <2>3 DEF PlaceOK, Good
  <2> QED BY <2>2, <2>3
<1>3. ASSUME NEW w \in Watches, Register(w), NEW v \in Watches PROVE Good(v)'
  <2>1. /\ pc' = [pc EXCEPT ![w] = "joining"]
        /\ \/ holds' = [holds EXCEPT ![w] = listeners] /\ listeners # None
           \/ holds' = [holds EXCEPT ![w] = w]
        /\ UNCHANGED <<sent, next, joined, reported>>
    BY <1>3 DEF Register, Upgrades
  <2>2. CASE v = w
    BY <1>o, <1>t, <2>1, <2>2 DEF PlaceOK
  <2>3. CASE v # w
    BY <1>s, <1>t, <1>l, <1>g, <2>1, <2>3 DEF PlaceOK, Good
  <2> QED BY <2>2, <2>3
<1>4. ASSUME NEW w \in Watches, Subscribe(w), NEW v \in Watches PROVE Good(v)'
  <2>1. CASE v # w
    BY <1>4, <1>s, <1>t, <1>l, <1>g, <2>1 DEF Subscribe, PlaceOK, ChannelOK, Good
  <2>2. CASE v = w
    <3>1. /\ pc'[w] = "running" /\ holds'[w] = holds[w] /\ sent' = sent
          /\ holds[w] \in Watches
          /\ next'[w] = Len(sent[holds[w]]) /\ joined'[w] = Len(sent[holds[w]])
      BY <1>4, <1>t, <1>g DEF Subscribe, PlaceOK, ChannelOK, Good
    <3> QED BY <1>l, <2>2, <3>1 DEF Good
  <2> QED BY <2>1, <2>2
<1>5. ASSUME NEW w \in Watches, Lagged(w), NEW v \in Watches PROVE Good(v)'
  <2>1. CASE v # w
    BY <1>5, <1>s, <1>t, <1>l, <1>g, <2>1 DEF Lagged, PlaceOK, ChannelOK, Good
  <2>2. CASE v = w
    <3>1. /\ pc[w] = "running" /\ holds[w] \in Watches
          /\ UNCHANGED <<pc, holds, sent, joined>>
          /\ next'[w] = Len(sent[holds[w]]) - Buffer
          /\ reported'[w] = reported[w] \cup (next[w] + 1 .. next'[w])
      BY <1>5, <1>t, <1>g DEF Lagged, Oldest, PlaceOK, ChannelOK, Good
    <3>2. next[w] \in Nat /\ joined[w] \in Nat /\ Buffer \in Nat
      BY <1>t, ListenAssumption DEF ChannelOK, ListenAssumption
    <3>3. Within(w)'
      BY <1>l, <3>1, <3>2
    <3>4. ASSUME NEW p \in joined[w] + 1 .. next'[w], matches(w, sent[holds[w]][p])
          PROVE  p \in reported'[w]
      <4>1. next'[w] \in Int
        BY <1>l, <3>1, <3>2
      <4>2. p \in joined[w] + 1 .. next[w] \/ p \in next[w] + 1 .. next'[w]
        BY <3>2, <4>1
      <4>3. p \in joined[w] + 1 .. next[w] => p \in reported[w]
        BY <1>g, <3>1, <3>4 DEF Good
      <4> QED BY <3>1, <4>2, <4>3
    <3> QED BY <2>2, <3>1, <3>3, <3>4 DEF Good, matches
  <2> QED BY <2>1, <2>2
<1>6. ASSUME NEW w \in Watches, Deliver(w), NEW v \in Watches PROVE Good(v)'
  <2>1. CASE v # w
    BY <1>6, <1>s, <1>t, <1>l, <1>g, <2>1 DEF Deliver, PlaceOK, ChannelOK, Good
  <2>2. CASE v = w
    <3>1. /\ pc[w] = "running" /\ holds[w] \in Watches
          /\ UNCHANGED <<pc, holds, sent, joined>>
          /\ next[w] < Len(sent[holds[w]])
          /\ next'[w] = next[w] + 1
          /\ reported'[w] = reported[w] \cup
               {p \in {next[w] + 1} : matches(w, sent[holds[w]][p])}
      BY <1>6, <1>t, <1>g DEF Deliver, PlaceOK, ChannelOK, Good
    <3>2. next[w] \in Nat /\ joined[w] \in Nat
      BY <1>t DEF ChannelOK
    <3>3. Within(w)'
      BY <1>l, <3>1, <3>2
    <3>4. ASSUME NEW p \in joined[w] + 1 .. next'[w], matches(w, sent[holds[w]][p])
          PROVE  p \in reported'[w]
      BY SMTT(30), <1>g, <3>1, <3>2, <3>4 DEF Good
    <3> QED BY <2>2, <3>1, <3>3, <3>4 DEF Good, matches
  <2> QED BY <2>1, <2>2
<1>7. ASSUME NEW w \in Watches, End(w) \/ Cancel(w), NEW v \in Watches PROVE Good(v)'
  <2>1. CASE v = w
    BY <1>7, <1>o, <1>t, <1>g, <2>1 DEF End, Cancel, PlaceOK, Good
  <2>2. CASE v # w
    <3>1. /\ UNCHANGED <<pc[v], holds[v], next[v], joined[v], reported[v]>>
          /\ sent' = sent
      BY <1>7, <1>t, <2>2 DEF End, Cancel, PlaceOK, ChannelOK
    <3> QED BY <1>s, <1>l, <1>g, <3>1 DEF Good
  <2> QED BY <2>1, <2>2
<1>8. ASSUME NEW w \in Watches, TaskEnds(w), NEW v \in Watches PROVE Good(v)'
  <2>1. /\ \A u \in Watches : holds[u] # w
        /\ sent' = [sent EXCEPT ![w] = << >>]
        /\ UNCHANGED <<pc, holds, next, joined, reported>>
    BY <1>8 DEF TaskEnds, Alive
  <2> QED BY <1>s, <1>t, <1>l, <1>g, <2>1 DEF ChannelOK, Good
<1>9. ASSUME UNCHANGED <<pc, holds, sent, next, joined, reported>>, NEW v \in Watches
      PROVE  Good(v)'
  BY <1>s, <1>l, <1>g, <1>9 DEF Good
<1>10. ASSUME NEW w \in Watches, Reconnect(w) \/ RecvError(w), NEW v \in Watches
       PROVE  Good(v)'
  BY <1>9, <1>10 DEF Reconnect, RecvError
<1>11. ASSUME NEW x \in Payloads, Notify(x), NEW v \in Watches PROVE Good(v)'
  BY <1>9, <1>11 DEF Notify
<1>14. ASSUME NEW w \in Watches, Recv(w), NEW v \in Watches PROVE Good(v)'
  <2> Head(buffered[w]) \in Payloads
    BY <1>t, <1>14 DEF Recv, ChannelOK
  <2>1. \A l \in Watches : /\ Len(sent'[l]) \in Nat
                           /\ Len(sent'[l]) >= Len(sent[l])
                           /\ \A p \in 1 .. Len(sent[l]) : sent'[l][p] = sent[l][p]
    <3>1. /\ sent \in [Watches -> Seq(Payloads)]
          /\ sent' = [sent EXCEPT ![w] = Append(sent[w], Head(buffered[w]))]
      BY <1>t, <1>14 DEF Recv, ChannelOK
    <3>2. ASSUME NEW l \in Watches, l # w PROVE sent'[l] = sent[l] /\ Len(sent[l]) \in Nat
      BY <3>1, <3>2
    <3>3. sent'[w] = Append(sent[w], Head(buffered[w])) /\ Len(sent[w]) \in Nat
      BY <3>1
    <3>4. sent[w] \in Seq(Payloads)
      BY Zenon, <3>1
    <3>5. /\ Len(sent'[w]) = Len(sent[w]) + 1
          /\ \A p \in 1 .. Len(sent[w]) : sent'[w][p] = sent[w][p]
      BY Zenon, <3>3, <3>4, Longer
    <3>6. ASSUME NEW l \in Watches
          PROVE  /\ Len(sent'[l]) \in Nat
                 /\ Len(sent'[l]) >= Len(sent[l])
                 /\ \A p \in 1 .. Len(sent[l]) : sent'[l][p] = sent[l][p]
      <4>1. CASE l = w
        BY <3>3, <3>5, <4>1
      <4>2. CASE l # w
        BY <3>2, <4>2
      <4> QED BY <4>1, <4>2
    <3> QED BY <3>6
  <2>2. UNCHANGED <<pc, holds, next, joined, reported>>
    BY <1>14 DEF Recv
  <2> QED BY <1>s, <1>g, <2>1, <2>2 DEF Good
<1>12. ASSUME Outage \/ Recovery \/ UNCHANGED vars, NEW v \in Watches PROVE Good(v)'
  BY <1>9, <1>12 DEF Outage, Recovery, vars
<1>13. ASSUME NEW v \in Watches PROVE Good(v)'
  BY <1>1, <1>2, <1>3, <1>4, <1>5, <1>6, <1>7, <1>8, <1>10, <1>11, <1>12,
     <1>14 DEF Next, Step
<1> QED BY <1>u, <1>13

LEMMA RInvAlways == Spec => []RInv
<1>1. RInv /\ [Next]_vars => RInv'
  BY DataStep, ReadStep DEF RInv
<1> QED BY InitRInv, <1>1, PTL DEF Spec

\* The variables of the model keep their types.
THEOREM TypeCorrect == Spec => []TypeOK
<1>1. Init => BooleanOK
  BY Zenon DEF Init, BooleanOK
<1>2. RInv /\ BooleanOK => TypeOK
  BY DEF RInv, DataOK, PlaceOK, ChannelOK, BooleanOK, TypeOK
<1> QED BY <1>1, <1>2, BooleanStep, RInvAlways, PTL DEF Spec

\* However far a watch lags behind the buffer, it reports every notification
\* about its URI that it passes.
THEOREM NothingPassedOverAlways == Spec => []NothingPassedOver
<1>1. RInv => NothingPassedOver
  BY DEF RInv
<1> QED BY <1>1, RInvAlways, PTL


----------------------------------------------------------------------------
(* The polling watch                                                        *)

\* What the loop saw of the table last, the consumer has read or will: it
\* read the resource in that state or a later one, or an event is on its way
\* to it, or that state is the baseline, which has no event.
SeenIsAnnounced ==
    \/ last = Polling!NoCursor
    \/ last = base
    \/ ppc = "emitting"
    \/ pending
    \/ view >= last

\* With it, the loop has seen nothing the table has not been.
PollingInv ==
    /\ db \in Nat /\ last \in Nat /\ read \in Nat /\ view \in Nat
    /\ last <= db /\ read <= db
    /\ SeenIsAnnounced

\* A step of the watch keeps the invariant: a poll that moves `last` leaves
\* the loop emitting, or sets the baseline; a consumer that takes the event
\* reads a state no older than the one the loop saw.
LEMMA PollingKept ==
    PollingInv /\ [Polling!Next]_Polling!vars => PollingInv'
<1> SUFFICES ASSUME PollingInv, [Polling!Next]_Polling!vars PROVE PollingInv'
  OBVIOUS
<1> USE DEF PollingInv, SeenIsAnnounced, Polling!NoCursor
<1>1. CASE Polling!Change
  BY <1>1 DEF Polling!Change
<1>2. CASE Polling!Reread
  BY <1>2 DEF Polling!Reread
<1>3. CASE Polling!Subscribe
  BY <1>3 DEF Polling!Subscribe
<1>4. CASE Polling!Cancel
  BY <1>4 DEF Polling!Cancel
<1>5. CASE Polling!Tick
  BY <1>5 DEF Polling!Tick
<1>6. CASE Polling!PollFails
  BY <1>6 DEF Polling!PollFails
<1>7. CASE Polling!PollSucceeds
  <2>1. last' \in {0, read} /\ read' = 0 /\ UNCHANGED <<db, pending, view>>
    BY <1>7 DEF Polling!PollSucceeds, Polling!first_scalar
  <2>2. CASE last = 0
    <3>1. base' = read
      BY <1>7, <2>2 DEF Polling!PollSucceeds
    <3> QED BY <2>1, <3>1
  <2>3. CASE last # 0 /\ last' # last
    <3>1. ppc' = "emitting"
      BY <1>7, <2>3 DEF Polling!PollSucceeds, Polling!Changed
    <3> QED BY <2>1, <3>1
  <2>4. CASE last # 0 /\ last' = last
    <3>1. base' = base /\ ppc # "emitting"
      BY <1>7, <2>4 DEF Polling!PollSucceeds
    <3> QED BY <2>1, <2>4, <3>1
  <2> QED BY <2>2, <2>3, <2>4
<1>8. CASE Polling!Emit
  BY <1>8 DEF Polling!Emit
<1>9. CASE UNCHANGED Polling!vars
  BY <1>9 DEF Polling!vars
<1> QED
  BY <1>1, <1>2, <1>3, <1>4, <1>5, <1>6, <1>7, <1>8, <1>9
     DEF Polling!Next, Polling!poll_loop

\* However often the table changes, polls fail or find no row, and however
\* late the consumer reads: what the loop saw last is announced, unless it is
\* the baseline.  This is the safety half of ConsumerCatchesUp.
THEOREM PollsAnnounced == Polling!Spec => []SeenIsAnnounced
<1>1. Polling!Init => PollingInv
  BY DEF Polling!Init, PollingInv, SeenIsAnnounced, Polling!NoCursor
<1>2. PollingInv => SeenIsAnnounced
  BY DEF PollingInv
<1> QED BY PollingKept, <1>1, <1>2, PTL DEF Polling!Spec
=============================================================================
