--------------------------- MODULE BindingsProofs ---------------------------
(***************************************************************************)
(* Theorems about what a binding's document becomes: SqlCall, for every    *)
(* max_rows and size of a batch; ResponseCache, for any number of callers, *)
(* registrations and changes of the table; and Binding, for any number of  *)
(* edits of a document and every choice of drivers and providers built in. *)
(***************************************************************************)
EXTENDS Bindings, TLAPS

----------------------------------------------------------------------------
(* SqlCall                                                                  *)

\* Places a call passes before it has an outcome.
Early == {"new", "preparing", "sending", "executing", "shaping", "billing"}

\* A heartbeat task runs while the driver is waited for; a call that was
\* timed out or dropped may leave one behind.
BeatInv ==
  /\ pc \in {"new", "preparing", "sending", "shaping", "billing", "storing"}
       => beats = 0
  /\ pc = "executing" => beats = IF beating THEN 1 ELSE 0

\* The database applied what it says it applied, and nothing is sent again
\* while the statement may still run.
AppliedInv ==
  /\ ~procedure => applied = IF statement = "applied" THEN 1 ELSE 0
  /\ statement = "applied" => applied > 0
  /\ pc \in {"new", "preparing", "sending"} => statement = "none"
  /\ pc \in {"shaping", "billing", "storing"} => statement = "applied"

\* Nothing is billed before the charge, and what is charged is not refunded.
BillInv ==
  /\ pc \in Early => charged = Unbilled /\ refunds = 0 /\ outcome = "pending"
  /\ pc = "storing" => charged # Unbilled /\ refunds = 0 /\ outcome = "pending"
  /\ refunds <= 1
  /\ charged # Unbilled => refunds = 0 /\ statement = "applied"
  /\ outcome = "ok" => charged # Unbilled
  /\ pc \in {"new", "preparing"} => attempt = 0
  /\ outcome = "error" /\ attempt > 0 /\ applied = 0 => refunds = 1

IInv == TypeOK /\ BeatInv /\ AppliedInv /\ BillInv

\* Initially no statement has been sent and nothing billed.
LEMMA InitIInv == Init => IInv
<1> SUFFICES ASSUME Init PROVE IInv
  OBVIOUS
<1>1. TypeOK
  <2>1. /\ beating \in BOOLEAN /\ procedure \in BOOLEAN
        /\ profile \in BOOLEAN /\ recorded \in BOOLEAN
    BY Zenon DEF Init
  <2> QED
    BY <2>1, SqlCallAssumption DEF SqlCallAssumption, Init, TypeOK, Unbilled
<1>2. BeatInv /\ AppliedInv /\ BillInv
  BY SMTT(20) DEF Init, BeatInv, AppliedInv, BillInv, Unbilled, Early
<1> QED
  BY <1>1, <1>2 DEF IInv

\* Every step of the call, of the database and of shutdown keeps IInv.
LEMMA NextIInv == IInv /\ [Next]_vars => IInv'
<1> SUFFICES ASSUME IInv, [Next]_vars PROVE IInv'
  OBVIOUS
<1> USE SqlCallAssumption
        DEF SqlCallAssumption, IInv, TypeOK, BeatInv, AppliedInv, BillInv, Mode,
            Unbilled, Early, Finish, Refund, StopBeat, config
<1>1. CASE ShutdownClears
  <2>1. profile' \in BOOLEAN
    BY <1>1, Zenon DEF ShutdownClears
  <2> QED
    BY <1>1, <2>1 DEF ShutdownClears
<1>2. CASE Lookup
  BY <1>2 DEF Lookup
<1>3. CASE Refuse
  BY <1>3 DEF Refuse
<1>4. CASE CacheHit
  BY <1>4 DEF CacheHit
<1>5. CASE CacheMiss
  BY <1>5 DEF CacheMiss
<1>6. CASE Send
  BY <1>6 DEF Send
<1>7. CASE DatabaseApplies
  BY <1>7 DEF DatabaseApplies
<1>8. CASE Succeed
  BY <1>8 DEF Succeed
<1>9. CASE Fail
  BY <1>9 DEF Fail, EndsInError
<1>10. CASE FailStale
  BY <1>10 DEF FailStale, EndsInError, MayRetry
<1>11. CASE TimeOut
  BY <1>11 DEF TimeOut
<1>12. CASE Shape
  BY <1>12 DEF Shape
<1>13. CASE ShapeFails
  BY <1>13 DEF ShapeFails
<1>14. CASE Charge
  BY <1>14 DEF Charge
<1>15. CASE ChargeRefused
  BY <1>15 DEF ChargeRefused
<1>16. CASE CachePut
  BY <1>16 DEF CachePut
<1>17. CASE Record
  BY <1>17 DEF Record
<1>18. CASE Drop
  BY <1>18 DEF Drop
<1>19. CASE UNCHANGED vars
  BY <1>19 DEF vars
<1> QED
  BY <1>1, <1>2, <1>3, <1>4, <1>5, <1>6, <1>7, <1>8, <1>9, <1>10, <1>11, <1>12,
     <1>13, <1>14, <1>15, <1>16, <1>17, <1>18, <1>19, Zenon DEF Next, Step

LEMMA IInvAlways == Spec => []IInv
  BY InitIInv, NextIInv, PTL DEF Spec

\* The variables of a call keep their types; a call never has two heartbeat
\* tasks, also across the retry (with_heartbeat).
THEOREM TypeCorrect == Spec => []TypeOK
<1>1. IInv => TypeOK
  BY DEF IInv
<1> QED
  BY <1>1, IInvAlways, PTL

\* The retry of a stale statement never makes the database apply it twice,
\* unless it is the CALL of a procedure (the attempts in execute_inner_impl).
THEOREM AppliedAtMostOnceAlways == Spec => []AppliedAtMostOnce
<1>1. IInv => AppliedAtMostOnce
  BY DEF IInv, AppliedInv, AppliedAtMostOnce
<1> QED
  BY <1>1, IInvAlways, PTL

\* No call is both charged and refunded or refunded twice; what is charged was
\* applied, what is answered was charged, and a call that failed without any
\* effect after it was sent is refunded (try_emit_charge, try_emit_refund).
THEOREM BilledOnceAlways == Spec => []BilledOnce
<1>1. IInv => BilledOnce
  BY DEF IInv, AppliedInv, BillInv, BilledOnce
<1> QED
  BY <1>1, IInvAlways, PTL

----------------------------------------------------------------------------
(* ResponseCache                                                            *)

\* A call that has its key.
Keyed(c) == kpc[c] \in {"keyed", "hit", "missed", "queried", "put"}

CacheTypeOK ==
  /\ db \in Nat
  /\ live \in 0..MaxRuntimes /\ built \in Nat
  /\ version \in [Cache!Runtime -> Nat]
  /\ read \in [Cache!Runtime -> Nat]
  /\ seen \in [Cache!Runtime -> Nat]
  /\ kpc \in [Caller -> {"idle", "started", "keyed", "hit", "missed", "queried", "put"}]
  /\ rt \in [Caller -> 0..MaxRuntimes]
  /\ key \in [Caller -> Nat]
  /\ result \in [Caller -> Nat]
  /\ from \in [Caller -> Nat]
  /\ since \in [Caller -> Nat]
  /\ DOMAIN cache \subseteq Nat
  /\ \A v \in DOMAIN cache : cache[v] \in [value : Nat, by : Cache!Runtime]

\* What a watcher read, and what it announced, has happened.
WatchersBehind == \A g \in Cache!Runtime : read[g] <= db /\ seen[g] <= db

\* A call's key is the version of its runtime or an older one; one version
\* stands for one announced change.
KeysMatchVersions ==
  /\ \A c \in Caller : kpc[c] # "idle" => rt[c] \in Cache!Runtime
  /\ \A c \in Caller : Keyed(c) =>
       /\ key[c] <= version[rt[c]]
       /\ since[c] <= db
       /\ key[c] = version[rt[c]] => since[c] = seen[rt[c]]
  /\ \A c, d \in Caller :
       Keyed(c) /\ Keyed(d) /\ rt[c] = rt[d] /\ key[c] = key[d] => since[c] = since[d]

\* The result of a query is at least as new as the change its key stands for.
ResultsFresh ==
  \A c \in Caller : kpc[c] \in {"queried", "put"} => result[c] >= since[c]

\* So is every entry, for its own registration.
EntriesFresh ==
  \A v \in DOMAIN cache :
     LET g == cache[v].by IN
       /\ v <= version[g]
       /\ v = version[g] => cache[v].value >= seen[g]
       /\ \A c \in Caller : Keyed(c) /\ rt[c] = g /\ key[c] = v => cache[v].value >= since[c]

CacheInv ==
  /\ CacheTypeOK /\ WatchersBehind /\ KeysMatchVersions /\ ResultsFresh
  /\ EntriesFresh /\ HitsAreFresh

\* The table changes, an entry expires or the binding is registered anew.
LEMMA CacheHost ==
  ASSUME CacheInv, Cache!Change \/ Cache!ExpireEntry \/ Cache!RegisterProfile
  PROVE  CacheInv'
<1> USE DEF Cache!watchVars, Cache!callVars
<1>1. CASE Cache!Change
  <2> USE <1>1 DEF Cache!Change
  <2>1. CacheTypeOK'
    BY DEF CacheInv, CacheTypeOK
  <2>2. WatchersBehind' /\ KeysMatchVersions'
    BY DEF CacheInv, CacheTypeOK, WatchersBehind, KeysMatchVersions, Keyed
  <2>3. ResultsFresh' /\ EntriesFresh' /\ HitsAreFresh'
    BY DEF CacheInv, ResultsFresh, EntriesFresh, HitsAreFresh, Cache!HitsAreFresh, Keyed
  <2>4. QED
    BY <2>1, <2>2, <2>3 DEF CacheInv
<1>2. CASE Cache!ExpireEntry
  <2>1. PICK v \in DOMAIN cache : cache' = [w \in DOMAIN cache \ {v} |-> cache[w]]
    BY <1>2 DEF Cache!ExpireEntry, Cache!Restrict
  <2>2. UNCHANGED <<db, live, built, version, read, seen, kpc, rt, key, result, from, since>>
    BY <1>2, Zenon DEF Cache!ExpireEntry
  <2>3. CacheTypeOK'
    BY <2>1, <2>2 DEF CacheInv, CacheTypeOK
  <2>4. WatchersBehind' /\ KeysMatchVersions' /\ ResultsFresh' /\ HitsAreFresh'
    BY <2>2 DEF CacheInv, WatchersBehind, KeysMatchVersions, ResultsFresh, HitsAreFresh,
                Cache!HitsAreFresh, Keyed
  <2>5. EntriesFresh'
    BY <2>1, <2>2 DEF CacheInv, EntriesFresh, Keyed
  <2>6. QED
    BY <2>3, <2>4, <2>5 DEF CacheInv
<1>3. CASE Cache!RegisterProfile
  <2> USE <1>3 DEF Cache!RegisterProfile
  <2>1. CacheTypeOK'
    BY BindingsAssumption DEF BindingsAssumption, CacheInv, CacheTypeOK
  <2>2. WatchersBehind' /\ KeysMatchVersions' /\ ResultsFresh' /\ EntriesFresh'
        /\ HitsAreFresh'
    BY DEF CacheInv, WatchersBehind, KeysMatchVersions, ResultsFresh, EntriesFresh,
           HitsAreFresh, Cache!HitsAreFresh, Keyed
  <2>3. QED
    BY <2>1, <2>2 DEF CacheInv
<1>4. QED
  BY <1>1, <1>2, <1>3

\* A watcher polls: a version it bumps is one no key has yet.
LEMMA CachePoll ==
  ASSUME CacheInv, NEW g \in Cache!Runtime, Cache!Poll(g) PROVE CacheInv'
<1> USE DEF Cache!callVars
<1>1. CASE Cache!Tick(g) \/ Cache!PollFails(g)
  <2> USE <1>1 DEF Cache!Tick, Cache!PollFails, Cache!None
  <2>1. CacheTypeOK' /\ WatchersBehind'
    BY DEF CacheInv, CacheTypeOK, WatchersBehind
  <2>2. KeysMatchVersions' /\ ResultsFresh' /\ EntriesFresh' /\ HitsAreFresh'
    BY DEF CacheInv, KeysMatchVersions, ResultsFresh, EntriesFresh,
           HitsAreFresh, Cache!HitsAreFresh, Keyed
  <2>3. QED
    BY <2>1, <2>2 DEF CacheInv
<1>2. ASSUME Cache!PollSucceeds(g), UNCHANGED <<version, seen>> PROVE CacheInv'
  <2> USE <1>2 DEF Cache!PollSucceeds, Cache!None
  <2>1. CacheTypeOK' /\ WatchersBehind'
    BY DEF CacheInv, CacheTypeOK, WatchersBehind
  <2>2. KeysMatchVersions' /\ ResultsFresh' /\ EntriesFresh' /\ HitsAreFresh'
    BY DEF CacheInv, KeysMatchVersions, ResultsFresh, EntriesFresh,
           HitsAreFresh, Cache!HitsAreFresh, Keyed
  <2>3. QED
    BY <2>1, <2>2 DEF CacheInv
<1>3. ASSUME Cache!PollSucceeds(g), version' = [version EXCEPT ![g] = @ + 1],
             seen' = [seen EXCEPT ![g] = read[g]]
      PROVE  CacheInv'
  <2> USE <1>3 DEF Cache!PollSucceeds, Cache!None
  <2>1. CacheTypeOK' /\ WatchersBehind'
    BY DEF CacheInv, CacheTypeOK, WatchersBehind
  <2>2. KeysMatchVersions'
    BY DEF CacheInv, CacheTypeOK, KeysMatchVersions, Keyed
  <2>3. EntriesFresh'
    BY DEF CacheInv, CacheTypeOK, EntriesFresh, Keyed
  <2>4. ResultsFresh' /\ HitsAreFresh'
    BY DEF CacheInv, ResultsFresh, HitsAreFresh, Cache!HitsAreFresh
  <2>5. QED
    BY <2>1, <2>2, <2>3, <2>4 DEF CacheInv
<1>4. QED
  BY <1>1, <1>2, <1>3 DEF Cache!Poll, Cache!PollSucceeds

\* A step of a call.
LEMMA CacheCall ==
  ASSUME CacheInv, NEW c \in Caller, Cache!Step(c) PROVE CacheInv'
<1> USE DEF Cache!watchVars
<1>1. CASE Cache!Start(c)
  <2> USE <1>1 DEF Cache!Start
  <2>1. CacheTypeOK' /\ WatchersBehind'
    BY DEF CacheInv, CacheTypeOK, WatchersBehind
  <2>2. KeysMatchVersions'
    BY DEF CacheInv, CacheTypeOK, KeysMatchVersions, Keyed, Cache!Runtime
  <2>3. ResultsFresh' /\ EntriesFresh' /\ HitsAreFresh'
    BY DEF CacheInv, CacheTypeOK, ResultsFresh, EntriesFresh, HitsAreFresh,
           Cache!HitsAreFresh, Keyed
  <2>4. QED
    BY <2>1, <2>2, <2>3 DEF CacheInv
<1>2. CASE Cache!BuildKey(c)
  <2> USE <1>2 DEF Cache!BuildKey
  <2>1. CacheTypeOK' /\ WatchersBehind'
    BY DEF CacheInv, CacheTypeOK, WatchersBehind, KeysMatchVersions
  <2>2. KeysMatchVersions'
    BY DEF CacheInv, CacheTypeOK, WatchersBehind, KeysMatchVersions, Keyed
  <2>3. EntriesFresh'
    BY DEF CacheInv, CacheTypeOK, KeysMatchVersions, EntriesFresh, Keyed
  <2>4. ResultsFresh' /\ HitsAreFresh'
    BY DEF CacheInv, CacheTypeOK, ResultsFresh, HitsAreFresh, Cache!HitsAreFresh
  <2>5. QED
    BY <2>1, <2>2, <2>3, <2>4 DEF CacheInv
<1>3. CASE Cache!CacheGet(c)
  <2> USE <1>3 DEF Cache!CacheGet
  <2>1. CacheTypeOK' /\ WatchersBehind'
    <3>1. CASE key[c] \in DOMAIN cache
      <4>1. cache[key[c]].value \in Nat /\ cache[key[c]].by \in Nat
        BY <3>1 DEF CacheInv, CacheTypeOK, Cache!Runtime
      <4>2. /\ result' = [result EXCEPT ![c] = cache[key[c]].value]
            /\ from' = [from EXCEPT ![c] = cache[key[c]].by]
            /\ kpc' = [kpc EXCEPT ![c] = "hit"]
        BY <3>1
      <4>3. QED
        BY <4>1, <4>2 DEF CacheInv, CacheTypeOK, WatchersBehind
    <3>2. CASE key[c] \notin DOMAIN cache
      BY <3>2 DEF CacheInv, CacheTypeOK, WatchersBehind
    <3>3. QED
      BY <3>1, <3>2
  <2>2. KeysMatchVersions' /\ EntriesFresh'
    BY DEF CacheInv, CacheTypeOK, KeysMatchVersions, EntriesFresh, Keyed
  <2>3. ResultsFresh'
    BY DEF CacheInv, CacheTypeOK, ResultsFresh
  <2>4. HitsAreFresh'
    BY DEF CacheInv, CacheTypeOK, EntriesFresh, HitsAreFresh, Cache!HitsAreFresh, Keyed
  <2>5. QED
    BY <2>1, <2>2, <2>3, <2>4 DEF CacheInv
<1>4. CASE Cache!Query(c)
  <2> USE <1>4 DEF Cache!Query
  <2>1. CacheTypeOK' /\ WatchersBehind'
    BY DEF CacheInv, CacheTypeOK, WatchersBehind
  <2>2. KeysMatchVersions' /\ EntriesFresh'
    BY DEF CacheInv, CacheTypeOK, KeysMatchVersions, EntriesFresh, Keyed
  <2>3. ResultsFresh' /\ HitsAreFresh'
    BY DEF CacheInv, CacheTypeOK, KeysMatchVersions, ResultsFresh, HitsAreFresh,
           Cache!HitsAreFresh, Keyed
  <2>4. QED
    BY <2>1, <2>2, <2>3 DEF CacheInv
<1>5. CASE Cache!CachePut(c)
  <2> USE <1>5 DEF Cache!CachePut
  <2>1. CacheTypeOK' /\ WatchersBehind'
    BY DEF CacheInv, CacheTypeOK, WatchersBehind, KeysMatchVersions, Cache!Put
  <2>2. KeysMatchVersions'
    BY DEF CacheInv, CacheTypeOK, KeysMatchVersions, Keyed
  <2>3. ResultsFresh' /\ HitsAreFresh'
    BY DEF CacheInv, CacheTypeOK, ResultsFresh, HitsAreFresh, Cache!HitsAreFresh
  <2>4. EntriesFresh'
    BY DEF CacheInv, CacheTypeOK, KeysMatchVersions, ResultsFresh, EntriesFresh, Keyed,
           Cache!Put
  <2>5. QED
    BY <2>1, <2>2, <2>3, <2>4 DEF CacheInv
<1>6. CASE Cache!Return(c)
  <2> USE <1>6 DEF Cache!Return, Cache!None
  <2>1. CacheTypeOK' /\ WatchersBehind'
    BY BindingsAssumption DEF BindingsAssumption, CacheInv, CacheTypeOK, WatchersBehind
  <2>2. KeysMatchVersions'
    BY DEF CacheInv, CacheTypeOK, KeysMatchVersions, Keyed
  <2>3. ResultsFresh' /\ EntriesFresh' /\ HitsAreFresh'
    BY DEF CacheInv, CacheTypeOK, ResultsFresh, EntriesFresh, HitsAreFresh,
           Cache!HitsAreFresh, Keyed
  <2>4. QED
    BY <2>1, <2>2, <2>3 DEF CacheInv
<1>7. QED
  BY <1>1, <1>2, <1>3, <1>4, <1>5, <1>6, Zenon DEF Cache!Step

\* HitsAreFresh holds for any number of callers, registrations and changes.
THEOREM HitsStayFresh == Cache!Spec => []HitsAreFresh
<1>1. Cache!Init => CacheInv
  BY BindingsAssumption
     DEF BindingsAssumption, Cache!Init, Cache!None, CacheInv, CacheTypeOK,
         WatchersBehind, KeysMatchVersions, ResultsFresh, EntriesFresh,
         HitsAreFresh, Cache!HitsAreFresh, Keyed
<1>2. CacheInv /\ [Cache!Next]_(Cache!vars) => CacheInv'
  <2> SUFFICES ASSUME CacheInv, [Cache!Next]_(Cache!vars) PROVE CacheInv'
    OBVIOUS
  <2>1. CASE UNCHANGED Cache!vars
    <3> USE <2>1 DEF Cache!vars
    <3>1. CacheTypeOK' /\ WatchersBehind' /\ KeysMatchVersions'
      BY SMTT(30) DEF CacheInv, CacheTypeOK, WatchersBehind, KeysMatchVersions, Keyed
    <3>2. ResultsFresh' /\ EntriesFresh' /\ HitsAreFresh'
      BY Zenon DEF CacheInv, ResultsFresh, EntriesFresh, HitsAreFresh, Cache!HitsAreFresh, Keyed
    <3>3. QED
      BY <3>1, <3>2 DEF CacheInv
  <2>2. QED
    BY <2>1, CacheHost, CachePoll, CacheCall, Zenon DEF Cache!Next
<1>3. CacheInv => HitsAreFresh
  BY DEF CacheInv
<1>4. QED
  BY <1>1, <1>2, <1>3, PTL DEF Cache!Spec


----------------------------------------------------------------------------
(* Binding                                                                  *)

\* An edit leaves the driver alone and gives the body one of its three forms.
DocTyped ==
  /\ {"driver", "body", "session_vars"} \subseteq DOMAIN doc
  /\ doc.driver \in Document!DriverKind
  /\ doc.body \in Document!Bodies
  /\ doc.session_vars \in Document!Sessions

\* A profile stands for a document that register_profile accepted, and its
\* pool is the one built for that document.
ProfileAccepted ==
  /\ bpc \in {"editing", "refused", "registered", "answered", "watching"}
  /\ bpc \in {"editing", "registered"} => DOMAIN bound = {} /\ answer = "none"
  /\ bpc = "editing" => submitted = {}
  /\ bpc \in {"registered", "answered"} =>
       Document!Registrable /\ pool = Document!build_pool

DocumentInv ==
  DocTyped /\ ProfileAccepted /\ SubmittedWasGated /\ DeclaredIsDone /\ ManagedValuesWin

LEMMA EditableFields ==
  /\ "driver" \notin DOMAIN Document!Alternatives
  /\ Document!Alternatives["body"] = Document!Bodies
  /\ Document!Alternatives["session_vars"] = Document!Sessions
  BY DEF Document!Alternatives

LEMMA EditTyped ==
  ASSUME DocTyped, NEW f \in DOMAIN Document!Alternatives, Document!Edit(f)
  PROVE  DocTyped'
<1>1. PICK v \in Document!Alternatives[f] : doc' = [doc EXCEPT ![f] = v]
  BY Zenon DEF Document!Edit
<1>2. f # "driver"
  BY EditableFields
<1>3. DOMAIN doc' = DOMAIN doc
  BY <1>1
<1>4. doc'["driver"] = doc["driver"]
  BY <1>1, <1>2 DEF DocTyped
<1>5. /\ f = "body" => doc'["body"] = v
      /\ f = "session_vars" => doc'["session_vars"] = v
  BY <1>1 DEF DocTyped
<1>6. /\ f # "body" => doc'["body"] = doc["body"]
      /\ f # "session_vars" => doc'["session_vars"] = doc["session_vars"]
  BY <1>1 DEF DocTyped
<1>7. doc'["body"] \in Document!Bodies /\ doc'["session_vars"] \in Document!Sessions
  BY <1>5, <1>6, EditableFields DEF DocTyped
<1>8. QED
  BY <1>3, <1>4, <1>7 DEF DocTyped

\* A pool is one of the driver's own, connected to the URL it was given.
LEMMA PoolOfDriver ==
  ASSUME DocTyped, doc.driver \in DOMAIN Document!build_registry,
         NEW p \in BOOLEAN, NEW u, NEW on \in Document!connect(p, u)
  PROVE  on.handle = Document!build_registry[doc.driver] /\ on.url = u
<1>1. Document!build_registry[doc.driver] \in {"postgres", "mysql", "sqlite"}
  BY DEF DocTyped, Document!DriverKind, Document!build_registry
<1>2. QED
  BY <1>1 DEF Document!connect, Document!connect_postgres, Document!connect_mysql,
              Document!connect_sqlite

\* A session variable has a key and, in its value, a token or not.
LEMMA SessionKeys ==
  ASSUME DocTyped
  PROVE  \A v \in doc.session_vars : v = [key |-> v.key, cred |-> TRUE]
                                     \/ v = [key |-> v.key, cred |-> FALSE]
  BY DEF DocTyped, Document!Sessions

\* The drivers apply every variable of an accepted document, with its value
\* when the tokens were resolved or when there are none.
LEMMA SessionApplied ==
  ASSUME DocTyped, Document!Registrable
  PROVE  /\ Document!Applied(Document!session_vars_ref) = Document!Resolved
         /\ ~Document!config_has_cred_refs =>
              Document!Applied(doc.session_vars) = Document!Resolved
<1>1. /\ doc.driver \in DOMAIN Document!build_registry
      /\ Document!session_vars_ok
  BY Zenon DEF Document!Registrable, Document!validate
<1>2. Document!build_registry[doc.driver] = "sqlite" => doc.session_vars = {}
  BY <1>1 DEF Document!build_registry, Document!session_vars_ok, DocTyped,
              Document!DriverKind
<1>3. doc.session_vars = {} => Document!Resolved = {}
  BY DEF Document!Resolved
<1>4. ~Document!config_has_cred_refs => Document!Resolved = doc.session_vars
  <2> SUFFICES ASSUME \A v \in doc.session_vars : ~v.cred
               PROVE  Document!Resolved = doc.session_vars
    BY Zenon DEF Document!config_has_cred_refs
  <2>1. \A v \in doc.session_vars : v = [key |-> v.key, cred |-> FALSE]
    BY SessionKeys
  <2>2. \A x : x \in Document!Resolved <=> x \in doc.session_vars
    <3>1. ASSUME NEW x \in Document!Resolved PROVE x \in doc.session_vars
      <4>1. PICK v \in doc.session_vars : x = [key |-> v.key, cred |-> FALSE]
        BY <3>1, Zenon DEF Document!Resolved
      <4>2. x = v
        BY <2>1, <4>1, Zenon
      <4>3. QED
        BY <4>2, Zenon
    <3>2. ASSUME NEW x \in doc.session_vars PROVE x \in Document!Resolved
      BY <2>1, <3>2, Zenon DEF Document!Resolved
    <3>3. QED
      BY <3>1, <3>2, Zenon
  <2>3. QED
    BY <2>2, Zenon
<1>5. QED
  BY <1>2, <1>3, <1>4 DEF Document!Applied, Document!session_vars_ref

\* On its own pool a driver does what the accepted document declares, but for
\* the procedure of a SQLite binding.
LEMMA DriverExecutes ==
  ASSUME DocTyped, Document!Registrable, NEW on,
         on.handle = Document!build_registry[doc.driver],
         NEW session, \A v \in session : \E w \in doc.session_vars : v.key = w.key
  PROVE  /\ Document!execute(on, session, FALSE) = "rows"
         /\ \/ Document!Dispatch(on, session) = "rows"
            \/ /\ Document!Dispatch(on, session) = "refused"
               /\ doc.driver = "sqlite" /\ doc.body = "procedure"
<1>1. /\ doc.driver \in Document!DriverKind
      /\ doc.driver \in DOMAIN Document!build_registry
      /\ Document!session_vars_ok /\ Document!result_sets_ok
  BY Zenon DEF DocTyped, Document!Registrable, Document!validate
<1>2. Document!build_registry[doc.driver] =
        IF doc.driver = "mariadb" THEN "mysql" ELSE doc.driver
  BY <1>1 DEF Document!build_registry
<1>3. CASE doc.driver = "postgres"
  BY <1>1, <1>2, <1>3 DEF Document!execute, Document!Dispatch, Document!execute_postgres,
       Document!execute_multi_result, Document!result_sets_ok
<1>4. CASE doc.driver \in {"mysql", "mariadb"}
  <2>1. \A v \in session : v.key # "dotted"
    BY <1>1, <1>4 DEF Document!session_vars_ok
  <2>2. Document!execute_mysql(on, session) = "rows"
    BY <1>2, <1>4, <2>1 DEF Document!execute_mysql
  <2>3. Document!build_registry[doc.driver] = "mysql"
    BY <1>2, <1>4
  <2>4. \A c : Document!execute(on, session, c) = "rows"
    BY <2>2, <2>3 DEF Document!execute
  <2>5. Document!execute_multi_result(on, session) = "rows"
    BY <2>2, <2>3, Zenon DEF Document!execute_multi_result
  <2>6. QED
    BY <2>4, <2>5, Zenon DEF Document!Dispatch
<1>5. CASE doc.driver = "sqlite"
  BY <1>1, <1>2, <1>5 DEF Document!execute, Document!Dispatch, Document!execute_sqlite,
       Document!result_sets_ok
<1>6. QED
  BY <1>1, <1>3, <1>4, <1>5, Zenon DEF Document!DriverKind

\* The text of a binding is gated by validate, or by prepare_stmt when it is
\* read from a file.
LEMMA TextGated ==
  ASSUME DocTyped, Document!Registrable, doc.body # "procedure"
  PROVE  Document!Gated(doc.text)
  BY Zenon DEF DocTyped, Document!Bodies, Document!Registrable, Document!validate,
         Document!body_ok, Document!prepare_stmt

LEMMA PayloadShapes ==
  \A p \in Document!Payloads : p.shape \in {"null", "array", "object"}
  BY DEF Document!Payloads, Document!Null, Document!Array, Document!Object

\* What the arguments of a call bind: the keyset is written over the derived
\* parameters, and the idempotency key over neither.
ManagedAt(b, n, hint) ==
  /\ (\E t \in doc.stream : n \in Document!placeholder_names(t)) => b[n] = "keyset"
  /\ (n \in doc.param_exprs /\ ~Document!Managed(n)) => b[n] = "operator"
  /\ (n = "idempotency_key" /\ hint) => b[n] = "gateway"

LEMMA ArgumentsManaged ==
  ASSUME Document!stream_ok, NEW payload, NEW evaluates, NEW token, NEW hint \in BOOLEAN,
         payload.shape \in {"null", "array", "object"},
         NEW e \in Document!evaluate_with_client(payload, evaluates),
         NEW s \in Document!apply_stream_cursor(e, token),
         NEW b \in Document!collect_bound_params(Document!InjectHint(s, hint),
                                                 Document!param_order),
         NEW n \in DOMAIN b
  PROVE  ManagedAt(b, n, hint)
<1> DEFINE names == UNION {Document!placeholder_names(t) : t \in doc.stream}
           args == Document!InjectHint(s, hint)
<1>1. \A t \in doc.stream : Document!placeholder_names(t) \subseteq {"_after_id", "_after_ts"}
  BY DEF Document!placeholder_names
<1>2. names \subseteq {"_after_id", "_after_ts"}
  BY <1>1
<1>3. args.shape = "object" /\ n \in DOMAIN args.at /\ b[n] = args.at[n]
  <2>1. e.shape \in {"null", "array", "object"}
    BY DEF Document!evaluate_with_client, Document!Overwrite, Document!Object
  <2>2. s.shape \in {"null", "array", "object"}
    BY <2>1 DEF Document!apply_stream_cursor, Document!Overwrite, Document!Object
  <2>3. args.shape \in {"null", "array", "object"}
    BY <2>2 DEF Document!InjectHint, Document!Overwrite, Document!Object
  <2>4. args.shape # "null"
    BY DEF Document!collect_bound_params
  <2>5. args.shape # "array"
    BY DEF Document!collect_bound_params
  <2>6. QED
    BY <2>3, <2>4, <2>5 DEF Document!collect_bound_params
<1>4. n # "idempotency_key" =>
        s.shape # "array" /\ n \in DOMAIN s.at /\ args.at[n] = s.at[n]
  BY <1>3 DEF Document!InjectHint, Document!Overwrite, Document!Object
<1>5. doc.row_mode = "stream" =>
        /\ s = Document!Overwrite(e, names, "keyset")
        /\ e.shape # "array"
  BY DEF Document!apply_stream_cursor
<1>6. doc.row_mode # "stream" => s = e /\ names = {}
  BY DEF Document!apply_stream_cursor, Document!stream_ok
<1>7. ASSUME n \in names PROVE b[n] = "keyset"
  <2>1. doc.row_mode = "stream" /\ n # "idempotency_key"
    BY <1>2, <1>6, <1>7
  <2>2. s.at[n] = "keyset"
    BY <1>5, <1>7, <2>1, SMTT(20) DEF Document!Overwrite, Document!Object
  <2>3. QED
    BY <1>3, <1>4, <2>1, <2>2
<1>8. ASSUME n \in doc.param_exprs, ~Document!Managed(n) PROVE b[n] = "operator"
  <2>1. n # "idempotency_key" /\ n \notin names
    BY <1>2, <1>8 DEF Document!Managed
  <2>2. n \in DOMAIN e.at /\ s.at[n] = e.at[n]
    BY <1>4, <1>5, <1>6, <2>1 DEF Document!Overwrite, Document!Object
  <2>3. e = Document!Overwrite(payload, doc.param_exprs, "operator")
    BY <1>8 DEF Document!evaluate_with_client
  <2>4. e.at[n] = "operator"
    BY <1>8, <2>2, <2>3 DEF Document!Overwrite, Document!Object
  <2>5. QED
    BY <1>3, <1>4, <2>1, <2>2, <2>4
<1>9. ASSUME n = "idempotency_key", hint PROVE b[n] = "gateway"
  BY <1>3, <1>9 DEF Document!InjectHint, Document!Overwrite, Document!Object
<1>10. QED
  BY <1>7, <1>8, <1>9 DEF ManagedAt

\* A document that nobody touches stays accepted, with the same pool.
LEMMA AcceptedStays ==
  ASSUME doc' = doc
  PROVE  /\ DocTyped' <=> DocTyped
         /\ Document!Registrable' <=> Document!Registrable
         /\ Document!build_pool' = Document!build_pool
<1>1. Document!connect(doc.auth # {}, doc.url)' = Document!connect(doc.auth # {}, doc.url)
  BY DEF Document!connect
<1>2. Document!build_pool' = Document!build_pool
  BY <1>1 DEF Document!build_pool
<1>3. Document!validate' <=> Document!validate
  BY DEF Document!validate, Document!scheme_ok, Document!auth_ok, Document!pool_ok,
         Document!stream_ok, Document!result_sets_ok, Document!heartbeat_ok,
         Document!breaker_ok, Document!list_query_ok, Document!await_ok, Document!cache_ok,
         Document!cost_ok, Document!session_vars_ok, Document!body_ok, Document!isolation_ok
<1>4. Document!prepare_stmt' <=> Document!prepare_stmt
  BY DEF Document!prepare_stmt, Document!validate_named_params_match_config
<1>5. /\ Document!compile_all' <=> Document!compile_all
      /\ Document!ListPrepared' <=> Document!ListPrepared
      /\ Document!AwaitCompiled' <=> Document!AwaitCompiled
  BY DEF Document!compile_all, Document!ListPrepared, Document!AwaitCompiled
<1>6. QED
  BY <1>2, <1>3, <1>4, <1>5 DEF DocTyped, Document!Registrable

\* The pool of a profile, and the pool of a call, hold the driver's handle; no
\* call connects with a token in its URL, and without tokens nobody does.
LEMMA PoolsOfDriver ==
  ASSUME DocTyped, Document!Registrable, pool = Document!build_pool
  PROVE  /\ \A on \in pool :
              /\ on.handle = Document!build_registry[doc.driver]
              /\ ~Document!config_has_cred_refs => on.url # "cred"
         /\ \A on \in Document!resolve_pool_for_call :
              /\ on.handle = Document!build_registry[doc.driver]
              /\ on.url # "cred"
<1>1. doc.driver \in DOMAIN Document!build_registry
  BY Zenon DEF Document!Registrable
<1>2. \A on \in pool : on.handle = Document!build_registry[doc.driver] /\ on.url = doc.url
  <2>1. pool \subseteq Document!connect(doc.auth # {}, doc.url)
    BY DEF Document!build_pool
  <2>2. QED
    BY <1>1, <2>1, PoolOfDriver, Zenon
<1>3. ~Document!config_has_cred_refs => doc.url # "cred"
  BY Zenon DEF Document!config_has_cred_refs
<1>4. \A on \in Document!build_pool_with_url :
        on.handle = Document!build_registry[doc.driver] /\ on.url # "cred"
  <2> DEFINE u == IF doc.url = "cred" THEN "resolved" ELSE doc.url
  <2>1. \A on \in Document!connect(FALSE, u) :
          on.handle = Document!build_registry[doc.driver] /\ on.url = u
    BY <1>1, PoolOfDriver, Zenon
  <2>2. u # "cred"
    OBVIOUS
  <2>3. QED
    BY <2>1, <2>2, Zenon DEF Document!build_pool_with_url
<1>5. QED
  BY <1>2, <1>3, <1>4, Zenon DEF Document!resolve_pool_for_call

\* How an operation leaves the profile: with what the document declares done,
\* and with no ungated text but the caller's.
Leaving ==
  /\ doc' = doc /\ pool' = pool /\ bpc' = "answered"
  /\ DeclaredIsDone'
  /\ \A s \in submitted' :
        s \in submitted \/ Document!Gated(s.text) \/ s.from \in {"group", "completion"}

LEMMA CallAnswers ==
  ASSUME DocumentInv, bpc = "registered", Leaving, ManagedValuesWin'
  PROVE  DocumentInv'
<1>1. doc' = doc /\ pool' = pool /\ bpc' = "answered" /\ DeclaredIsDone'
  BY Zenon DEF Leaving
<1>2. DocTyped' /\ Document!Registrable' /\ pool' = Document!build_pool'
  BY <1>1, AcceptedStays, Zenon DEF DocumentInv, ProfileAccepted
<1>3. ProfileAccepted'
  BY <1>1, <1>2 DEF ProfileAccepted
<1>4. SubmittedWasGated'
  BY <1>1, Zenon DEF DocumentInv, Leaving, SubmittedWasGated, Document!SubmittedWasGated
<1>5. QED
  BY <1>1, <1>2, <1>3, <1>4, Zenon DEF DocumentInv

\* What an answer has to be for DeclaredIsDone.
Done(how, by, session, pools) ==
  /\ \/ how \in {"rows", "hit", "invalid"}
     \/ /\ how = "refused"
        /\ \/ doc.driver = "sqlite" /\ doc.body = "procedure" /\ by = "call"
           \/ /\ doc.driver \in {"mysql", "mariadb"}
              /\ doc.isolation_level # {} /\ by = "group"
  /\ how = "rows" /\ (by = "call" \/ (by \in Document!Static
                                       /\ ~Document!config_has_cred_refs))
       => session = Document!Resolved /\ \A on \in pools : on.url # "cred"

LEMMA AnsweredDone ==
  ASSUME NEW how, NEW by, NEW hinted, NEW session,
         Document!Answered(how, by, hinted, session), Done(how, by, session, used')
  PROVE  /\ doc' = doc /\ pool' = pool /\ bpc' = "answered"
         /\ DeclaredIsDone'
<1>1. /\ doc' = doc /\ pool' = pool /\ bpc' = "answered" /\ answer' = how
      /\ ran'.by = by /\ ran'.session = session
  BY DEF Document!Answered
<1>2. /\ Document!Resolved' = Document!Resolved
      /\ Document!config_has_cred_refs' <=> Document!config_has_cred_refs
  BY <1>1 DEF Document!Resolved, Document!config_has_cred_refs
<1>3. answer' \in {"none", "rows", "hit", "invalid"}
      \/ (answer' = "refused" /\ Document!Overlooked')
  BY <1>1 DEF Done, Document!Overlooked
<1>4. (answer' = "rows" /\ (ran'.by = "call" \/ (ran'.by \in Document!Static
                                                  /\ ~Document!config_has_cred_refs')))
        => ran'.session = Document!Resolved' /\ \A on \in used' : on.url # "cred"
  BY <1>1, <1>2 DEF Done
<1>5. QED
  BY <1>1, <1>3, <1>4 DEF DeclaredIsDone, Document!DeclaredIsDone

\* An operation that binds nothing leaves no value to be anybody's.
LEMMA BoundStays ==
  ASSUME DocumentInv, bpc = "registered", bound' = bound
  PROVE  ManagedValuesWin'
  BY DEF DocumentInv, ProfileAccepted, ManagedValuesWin, Document!ManagedValuesWin

\* The operations that take the pool and the variables of the profile.
LEMMA StaticLeaves ==
  ASSUME DocumentInv, bpc = "registered", used' = pool, NEW by \in Document!Static, NEW texts,
         by # "completion" => \A t \in texts : Document!Gated(t),
         Document!RunStatic(by, texts) \/ Document!RefuseStatic(by)
  PROVE  Leaving
<1>1. DocTyped /\ Document!Registrable /\ pool = Document!build_pool
  BY DEF DocumentInv, ProfileAccepted
<1>2. CASE Document!RefuseStatic(by)
  <2>1. Document!Answered("invalid", by, FALSE, {}) /\ submitted' = submitted
    BY <1>2, Zenon DEF Document!RefuseStatic
  <2>2. doc' = doc /\ pool' = pool /\ bpc' = "answered" /\ DeclaredIsDone'
    <3>1. Done("invalid", by, {}, used')
      BY DEF Done
    <3>2. QED
      BY <2>1, <3>1, AnsweredDone, Zenon
  <2>3. QED
    BY <2>1, <2>2, Zenon DEF Leaving
<1>3. CASE Document!RunStatic(by, texts)
  <2>1. PICK on \in pool : Document!Answered(Document!execute(on, doc.session_vars, FALSE),
                                             by, FALSE, Document!Applied(doc.session_vars))
    BY <1>3, Zenon DEF Document!RunStatic
  <2>2. Document!execute(on, doc.session_vars, FALSE) = "rows"
    BY <1>1, PoolsOfDriver, DriverExecutes, Zenon
  <2>3. ~Document!config_has_cred_refs =>
          /\ Document!Applied(doc.session_vars) = Document!Resolved
          /\ \A o \in used' : o.url # "cred"
    BY <1>1, PoolsOfDriver, SessionApplied, Zenon
  <2>4. by # "call"
    BY DEF Document!Static
  <2>5. Document!Answered("rows", by, FALSE, Document!Applied(doc.session_vars))
    BY <2>1, <2>2, Zenon
  <2>6. doc' = doc /\ pool' = pool /\ bpc' = "answered" /\ DeclaredIsDone'
    <3>1. Done("rows", by, Document!Applied(doc.session_vars), used')
      BY <2>3, <2>4 DEF Done
    <3>2. QED
      BY <2>5, <3>1, AnsweredDone, Zenon
  <2>7. \A s \in submitted' : s \in submitted \/ Document!Gated(s.text)
                              \/ s.from \in {"group", "completion"}
    <3>1. submitted' = submitted \cup
            Document!From(IF by = "completion" THEN by ELSE "binding", texts)
      BY <1>3, Zenon DEF Document!RunStatic
    <3>2. QED
      BY <3>1 DEF Document!From
  <2>8. QED
    BY <2>6, <2>7, Zenon DEF Leaving
<1>4. QED
  BY <1>2, <1>3

LEMMA DocumentEdited ==
  ASSUME DocumentInv,
         \/ \E f \in DOMAIN Document!Alternatives : Document!Edit(f)
         \/ Document!Refuse
  PROVE  DocumentInv'
<1>1. /\ bpc = "editing" /\ bpc' \in {"editing", "refused"}
      /\ submitted' = submitted /\ bound' = bound /\ answer' = answer
  BY DEF Document!Edit, Document!Refuse
<1>2. submitted = {} /\ DOMAIN bound = {} /\ answer = "none"
  BY <1>1 DEF DocumentInv, ProfileAccepted
<1>3. DocTyped'
  <2>1. CASE Document!Refuse
    BY <2>1 DEF DocumentInv, DocTyped, Document!Refuse
  <2>2. CASE \E f \in DOMAIN Document!Alternatives : Document!Edit(f)
    BY <2>2, EditTyped, Zenon DEF DocumentInv
  <2>3. QED
    BY <2>1, <2>2
<1>4. ProfileAccepted'
  BY <1>1, <1>2 DEF ProfileAccepted
<1>5. SubmittedWasGated'
  BY <1>1, <1>2 DEF SubmittedWasGated, Document!SubmittedWasGated
<1>6. DeclaredIsDone'
  BY <1>1, <1>2 DEF DeclaredIsDone, Document!DeclaredIsDone
<1>7. ManagedValuesWin'
  BY <1>1, <1>2 DEF ManagedValuesWin, Document!ManagedValuesWin
<1>8. QED
  BY <1>3, <1>4, <1>5, <1>6, <1>7 DEF DocumentInv

\* The `expect` on the stream block does not fire, and the tracking queries
\* of the cache were gated.
LEMMA DocumentRegistered ==
  ASSUME DocumentInv, Document!Register
  PROVE  DocumentInv'
<1>1. /\ bpc = "editing" /\ Document!Registrable
      /\ doc' = doc /\ bound' = bound /\ answer' = answer
      /\ pool' = Document!build_pool
  BY Zenon DEF Document!Register
<1>2. DOMAIN bound = {} /\ answer = "none"
  BY <1>1 DEF DocumentInv, ProfileAccepted
<1>3. Document!stream_ok /\ Document!cache_ok
  BY <1>1, Zenon DEF Document!Registrable, Document!validate
<1>4. bpc' = "registered"
  BY <1>3 DEF Document!Register, Document!stream_ok
<1>5. DocTyped' /\ Document!Registrable' /\ pool' = Document!build_pool'
  BY <1>1, AcceptedStays, Zenon DEF DocumentInv
<1>6. ProfileAccepted'
  BY <1>1, <1>2, <1>4, <1>5 DEF ProfileAccepted
<1>7. SubmittedWasGated'
  <2>1. SUFFICES ASSUME NEW s \in submitted' PROVE Document!Gated(s.text)
    BY Zenon DEF SubmittedWasGated, Document!SubmittedWasGated
  <2>2. PICK c \in doc.cache : c.enabled /\ \E w \in c.invalidate_on : s.text = w.sql
    BY DEF Document!Register, Document!From
  <2>3. QED
    BY <1>3, <2>2, Zenon DEF Document!cache_ok, Document!invalidate_on_ok
<1>8. DeclaredIsDone'
  BY <1>1, <1>2, <1>4 DEF DeclaredIsDone, Document!DeclaredIsDone
<1>9. ManagedValuesWin'
  BY <1>1, <1>2 DEF ManagedValuesWin, Document!ManagedValuesWin
<1>10. QED
  BY <1>5, <1>6, <1>7, <1>8, <1>9 DEF DocumentInv

\* A watch: its text was gated if it stands in the document.
LEMMA DocumentWatched ==
  ASSUME DocumentInv, Document!watch
  PROVE  DocumentInv'
<1>1. /\ bpc = "editing" /\ bpc' = "watching" /\ Document!validate
      /\ doc' = doc /\ bound' = bound /\ answer' = answer
      /\ submitted' = Document!From("watch", IF doc.body = "procedure" THEN {} ELSE {doc.text})
  BY Zenon DEF Document!watch
<1>2. DOMAIN bound = {} /\ answer = "none"
  BY <1>1 DEF DocumentInv, ProfileAccepted
<1>3. DocTyped' /\ ProfileAccepted'
  BY <1>1, <1>2, AcceptedStays DEF DocumentInv, ProfileAccepted
<1>4. SubmittedWasGated'
  <2>1. doc.body \in Document!Bodies /\ Document!body_ok
    BY <1>1, Zenon DEF DocumentInv, DocTyped, Document!validate
  <2>2. \A s \in submitted' : s.from = "watch" /\ s.text = doc.text /\ doc.body # "procedure"
    BY <1>1 DEF Document!From
  <2>3. doc.body = "sql" => Document!Gated(doc.text)
    BY <2>1 DEF Document!body_ok
  <2>4. QED
    BY <1>1, <2>1, <2>2, <2>3
       DEF Document!Bodies, SubmittedWasGated, Document!SubmittedWasGated
<1>5. DeclaredIsDone' /\ ManagedValuesWin'
  BY <1>1, <1>2 DEF DeclaredIsDone, Document!DeclaredIsDone,
                    ManagedValuesWin, Document!ManagedValuesWin
<1>6. QED
  BY <1>3, <1>4, <1>5 DEF DocumentInv

LEMMA DocumentAwaited ==
  ASSUME DocumentInv, NEW payload, NEW evaluates,
         Document!execute_await_loop(payload, evaluates)
  PROVE  DocumentInv'
<1> DEFINE texts == UNION {a.trigger \cup {a.check} : a \in doc.await}
<1>1. /\ bpc = "registered" /\ bound' = bound /\ used' = pool
      /\ Document!RunStatic("await", texts) \/ Document!RefuseStatic("await")
  BY Zenon DEF Document!execute_await_loop
<1>2. Document!await_ok
  BY <1>1, Zenon DEF DocumentInv, ProfileAccepted, Document!Registrable, Document!validate
<1>3. \A t \in texts : Document!Gated(t)
  BY <1>2 DEF Document!await_ok
<1>4. "await" \in Document!Static
  BY DEF Document!Static
<1>5. Leaving
  <2> HIDE DEF texts
  <2> QED
    BY <1>1, <1>3, <1>4, StaticLeaves, Zenon
<1>6. QED
  BY <1>1, <1>5, BoundStays, CallAnswers, Zenon

LEMMA DocumentListed ==
  ASSUME DocumentInv, Document!run_list_query
  PROVE  DocumentInv'
<1>1. bpc = "registered" /\ bound' = bound /\ used' = pool
  BY Zenon DEF Document!run_list_query
<1>2. Document!ListPrepared /\ Document!list_query_ok
  BY <1>1, Zenon DEF DocumentInv, ProfileAccepted, Document!Registrable, Document!validate
<1>3. PICK l \in doc.list_query : Document!RunStatic("list", {l.sql})
  BY <1>2, Zenon DEF Document!run_list_query, Document!ListPrepared
<1>4. \A t \in {l.sql} : Document!Gated(t)
  BY <1>2, SMTT(20) DEF Document!list_query_ok
<1>5. "list" \in Document!Static
  BY DEF Document!Static
<1>6. Leaving
  BY <1>1, <1>3, <1>4, <1>5, StaticLeaves, Zenon
<1>7. QED
  BY <1>1, <1>6, BoundStays, CallAnswers, Zenon

LEMMA DocumentCompleted ==
  ASSUME DocumentInv, NEW text, NEW refs, NEW context,
         Document!complete_template_variable(text, refs, context)
  PROVE  DocumentInv'
<1>1. /\ bpc = "registered" /\ bound' = bound /\ used' = pool
      /\ Document!RunStatic("completion", {text}) \/ Document!RefuseStatic("completion")
  BY Zenon DEF Document!complete_template_variable
<1>2. "completion" \in Document!Static
  BY DEF Document!Static
<1>3. Leaving
  BY <1>1, <1>2, StaticLeaves, Zenon
<1>4. QED
  BY <1>1, <1>3, BoundStays, CallAnswers, Zenon

\* A group begins on the driver's own pool, except under an isolation level
\* of MySQL.
LEMMA DocumentBegan ==
  ASSUME DocumentInv, NEW text, Document!execute_transaction(text)
  PROVE  DocumentInv'
<1>1. PICK on \in pool :
        /\ Document!Answered(Document!begin_transaction(on), "group", FALSE, {})
        /\ submitted' = IF Document!begin_transaction(on) = "rows"
                        THEN submitted \cup Document!From("group", {text}) ELSE submitted
  BY Zenon DEF Document!execute_transaction
<1>2. bpc = "registered" /\ bound' = bound
  BY Zenon DEF Document!execute_transaction
<1>3. DocTyped /\ Document!Registrable /\ pool = Document!build_pool
  BY <1>2 DEF DocumentInv, ProfileAccepted
<1>4. on.handle = Document!build_registry[doc.driver]
  BY <1>3, PoolsOfDriver, Zenon
<1>5. doc.driver \in DOMAIN Document!build_registry /\ Document!isolation_ok
  BY <1>3, Zenon DEF Document!Registrable, Document!validate
<1>6. \/ Document!begin_transaction(on) = "rows"
      \/ /\ Document!begin_transaction(on) = "refused"
         /\ doc.driver \in {"mysql", "mariadb"} /\ doc.isolation_level # {}
  BY <1>3, <1>4, <1>5 DEF Document!begin_transaction, Document!build_registry,
       Document!isolation_ok, DocTyped, Document!DriverKind
<1>7. doc' = doc /\ pool' = pool /\ bpc' = "answered" /\ DeclaredIsDone'
  <2>1. "group" # "call" /\ "group" \notin Document!Static
    BY DEF Document!Static
  <2>2. Done(Document!begin_transaction(on), "group", {}, used')
    BY <1>6, <2>1 DEF Done
  <2>3. QED
    BY <1>1, <2>2, AnsweredDone, Zenon
<1>8. \A s \in submitted' : s \in submitted \/ s.from = "group"
  BY <1>1 DEF Document!From
<1>9. Leaving
  BY <1>7, <1>8 DEF Leaving
<1>10. QED
  BY <1>2, <1>9, BoundStays, CallAnswers, Zenon

\* The ordinary call: its arguments keep the plugin's values, its pool is the
\* driver's own and its text was gated.
LEMMA DocumentCalled ==
  ASSUME DocumentInv, NEW payload \in Document!Payloads, NEW evaluates, NEW token,
         NEW hint \in BOOLEAN, NEW hit \in BOOLEAN,
         Document!execute_inner_impl(payload, evaluates, token, hint, hit)
  PROVE  DocumentInv'
<1> DEFINE args == {Document!InjectHint(a, hint) : a \in
                      UNION {Document!apply_stream_cursor(a, token) :
                               a \in Document!evaluate_with_client(payload, evaluates)}}
           values == UNION {Document!collect_bound_params(a, Document!param_order) : a \in args}
           cached == hit /\ \E c \in doc.cache : c.enabled
           sent == IF doc.body = "procedure" THEN {} ELSE {doc.text}
           vars0 == Document!session_vars_ref
<1>1. /\ bpc = "registered"
      /\ used' = Document!resolve_pool_for_call
      /\ \/ /\ Document!Answered("invalid", "call", hint, {})
            /\ submitted' = submitted /\ bound' = bound
         \/ /\ bound' \in values
            /\ Document!Answered("hit", "call", hint, {}) /\ submitted' = submitted
         \/ /\ bound' \in values
            /\ \E on \in used' : Document!Answered(Document!Dispatch(on, vars0), "call", hint,
                                                  Document!Applied(vars0))
            /\ submitted' = submitted \cup Document!From("binding", sent)
  BY Zenon DEF Document!execute_inner_impl
<1>2. DocTyped /\ Document!Registrable /\ pool = Document!build_pool
  BY <1>1 DEF DocumentInv, ProfileAccepted
<1>3. doc' = doc /\ ran'.hinted = hint
  <2>1. \A how, session : Document!Answered(how, "call", hint, session) =>
          doc' = doc /\ ran'.hinted = hint
    BY DEF Document!Answered
  <2> HIDE DEF values, sent, vars0
  <2>2. QED
    BY <1>1, <2>1, Zenon
<1>4. ManagedValuesWin'
  <2>1. CASE bound' = bound
    BY <1>1, <2>1, BoundStays, Zenon
  <2>2. CASE bound' \in values
    <3>0. PICK e \in Document!evaluate_with_client(payload, evaluates) :
            \E s \in Document!apply_stream_cursor(e, token) :
              bound' \in Document!collect_bound_params(Document!InjectHint(s, hint),
                                                       Document!param_order)
      BY <2>2
    <3>1. PICK s \in Document!apply_stream_cursor(e, token) :
            bound' \in Document!collect_bound_params(Document!InjectHint(s, hint),
                                                     Document!param_order)
      BY <3>0
    <3>2. payload.shape \in {"null", "array", "object"}
      BY PayloadShapes, Zenon
    <3>3. Document!stream_ok
      BY <1>2, Zenon DEF Document!Registrable, Document!validate
    <3>4. \A n \in DOMAIN bound' : ManagedAt(bound', n, hint)
      BY <3>1, <3>2, <3>3, ArgumentsManaged, ZenonT(40)
    <3>5. QED
      BY <1>3, <3>4 DEF ManagedAt, ManagedValuesWin, Document!ManagedValuesWin,
           Document!placeholder_names
  <2>3. QED
    BY <1>1, <2>1, <2>2, Zenon
<1>5. ASSUME NEW how \in {"hit", "invalid"}, Document!Answered(how, "call", hint, {}),
             submitted' = submitted
      PROVE  DocumentInv'
  <2>1. doc' = doc /\ pool' = pool /\ bpc' = "answered" /\ DeclaredIsDone'
    <3>1. Done(how, "call", {}, used')
      BY DEF Done
    <3>2. QED
      BY <1>5, <3>1, AnsweredDone, Zenon
  <2>2. Leaving
    BY <1>5, <2>1, Zenon DEF Leaving
  <2>3. QED
    BY <1>1, <1>4, <2>2, CallAnswers, Zenon
<1>6. ASSUME NEW on \in used',
             Document!Answered(Document!Dispatch(on, vars0), "call", hint,
                               Document!Applied(vars0)),
             submitted' = submitted \cup Document!From("binding", sent)
      PROVE  DocumentInv'
  <2>1. \A v \in vars0 : \E w \in doc.session_vars : v.key = w.key
    BY DEF Document!session_vars_ref, Document!Resolved
  <2>2. \/ Document!Dispatch(on, vars0) = "rows"
        \/ /\ Document!Dispatch(on, vars0) = "refused"
           /\ doc.driver = "sqlite" /\ doc.body = "procedure"
    <3> HIDE DEF vars0
    <3> QED
      BY <1>1, <1>2, <2>1, PoolsOfDriver, DriverExecutes, Zenon
  <2>3. Document!Applied(vars0) = Document!Resolved /\ \A o \in used' : o.url # "cred"
    BY <1>1, <1>2, PoolsOfDriver, SessionApplied, Zenon
  <2>4. doc' = doc /\ pool' = pool /\ bpc' = "answered" /\ DeclaredIsDone'
    <3> HIDE DEF vars0
    <3>1. Done(Document!Dispatch(on, vars0), "call", Document!Applied(vars0), used')
      BY <2>2, <2>3 DEF Done
    <3>2. QED
      BY <1>6, <3>1, AnsweredDone, Zenon
  <2>5. \A t \in sent : Document!Gated(t)
    BY <1>2, TextGated
  <2>6. \A s \in submitted' : s \in submitted \/ Document!Gated(s.text)
    BY <1>6, <2>5 DEF Document!From
  <2>7. Leaving
    BY <2>4, <2>6, Zenon DEF Leaving
  <2>8. QED
    BY <1>1, <1>4, <2>7, CallAnswers, Zenon
<1>7. QED
  BY <1>1, <1>5, <1>6

LEMMA DocumentInvAlways == Document!Spec => []DocumentInv
<1>1. Document!Init => DocumentInv
  <2> SUFFICES ASSUME Document!Init PROVE DocumentInv
    OBVIOUS
  <2>1. PICK d \in Document!DriverKind, m \in {"many", "stream", "result_sets"} :
          doc = Document!Ordinary(d, m)
    BY SMTT(20) DEF Document!Init
  <2>2. DocTyped
    <3>0. /\ doc.driver = d /\ doc.session_vars = {}
          /\ doc.body = IF m = "result_sets" THEN "procedure" ELSE "sql"
      BY <2>1, Zenon DEF Document!Ordinary
    <3>1. {"driver", "body", "session_vars"} \subseteq DOMAIN doc
      <4>1. "driver" \in DOMAIN doc
        BY <2>1, Zenon DEF Document!Ordinary
      <4>2. "body" \in DOMAIN doc
        BY <2>1, Zenon DEF Document!Ordinary
      <4>3. "session_vars" \in DOMAIN doc
        BY <2>1, Zenon DEF Document!Ordinary
      <4>4. QED
        BY <4>1, <4>2, <4>3
    <3>2. {} \in Document!Sessions
      BY DEF Document!Sessions
    <3>3. QED
      BY <3>0, <3>1, <3>2 DEF DocTyped, Document!Bodies
  <2>3. QED
    BY <2>2 DEF Document!Init, DocumentInv, ProfileAccepted,
         SubmittedWasGated, Document!SubmittedWasGated, DeclaredIsDone,
         Document!DeclaredIsDone, ManagedValuesWin, Document!ManagedValuesWin
<1>2. DocumentInv /\ [Document!Next]_(Document!vars) => DocumentInv'
  <2> SUFFICES ASSUME DocumentInv, [Document!Next]_(Document!vars) PROVE DocumentInv'
    OBVIOUS
  <2>2. CASE UNCHANGED Document!vars
    <3>1. /\ doc' = doc /\ bpc' = bpc /\ submitted' = submitted /\ bound' = bound
          /\ answer' = answer /\ pool' = pool /\ used' = used /\ ran' = ran
      BY <2>2 DEF Document!vars
    <3>2. DocTyped' /\ ProfileAccepted'
      BY <3>1, AcceptedStays DEF DocumentInv, ProfileAccepted
    <3>3. SubmittedWasGated'
      BY <3>1 DEF DocumentInv, SubmittedWasGated, Document!SubmittedWasGated
    <3>4. DeclaredIsDone'
      BY <3>1 DEF DocumentInv, DeclaredIsDone, Document!DeclaredIsDone, Document!Overlooked,
           Document!Resolved, Document!config_has_cred_refs
    <3>5. ManagedValuesWin'
      BY <3>1 DEF DocumentInv, ManagedValuesWin, Document!ManagedValuesWin,
           Document!placeholder_names
    <3>6. QED
      BY <3>2, <3>3, <3>4, <3>5 DEF DocumentInv
  <2>3. CASE Document!Next
    BY <2>3, DocumentEdited, DocumentRegistered, DocumentWatched, DocumentCalled,
       DocumentAwaited, DocumentListed, DocumentCompleted, DocumentBegan, Zenon
       DEF Document!Next
  <2>4. QED
    BY <2>2, <2>3
<1>3. QED
  BY <1>1, <1>2, PTL DEF Document!Spec

\* Whatever an accepted document declares, its operations do, but for the
\* combinations DeclaredIsDone names.  Apart from these, validate, in config.rs,
\* is enough for everything register_profile and the three drivers then take
\* for granted: the `expect` on the stream block, the handle of the pool, the
\* driver methods that only refuse, and that a call runs with all its session
\* variables and with its credentials resolved.  For every document reachable
\* by any number of edits, and every choice of drivers and auth providers
\* compiled in.
THEOREM AcceptedDocumentsDoWhatTheyDeclare == Document!Spec => []DeclaredIsDone
<1>1. DocumentInv => DeclaredIsDone
  BY Zenon DEF DocumentInv
<1>2. QED
  BY <1>1, DocumentInvAlways, PTL

\* Every text of a binding passed the two gates of config.rs before it reached
\* the database, also the ones that are read from a file after validation, the
\* tracking queries of a cache, the trigger and check of an await and the
\* listing, and so did the text a watch finds in its document.  Outside are the
\* texts that come with a call, of a group or a completion, and a watch's file.
THEOREM EveryBindingTextWasGated == Document!Spec => []SubmittedWasGated
<1>1. DocumentInv => SubmittedWasGated
  BY Zenon DEF DocumentInv
<1>2. QED
  BY <1>1, DocumentInvAlways, PTL

\* The keyset of a stream, the derived parameters and, with a hint, the
\* gateway's idempotency key win over whatever the caller sent under the same
\* name.
THEOREM ManagedValuesAlwaysWin == Document!Spec => []ManagedValuesWin
<1>1. DocumentInv => ManagedValuesWin
  BY Zenon DEF DocumentInv
<1>2. QED
  BY <1>1, DocumentInvAlways, PTL
============================================================================
