------------------------------ MODULE Bindings ------------------------------
(* What a binding's document becomes: its registration and calls (Binding),  *)
(* one call from the lookup to its metrics (SqlCall) and the response cache  *)
(* (ResponseCache).  The three share nothing at this grain.                  *)
EXTENDS SqlCall

CONSTANTS
  Caller, MaxChanges, MaxRuntimes, Empty,    \* of ResponseCache
  Compiled, Providers, MaxEdits              \* of Binding

ASSUME BindingsAssumption == {MaxChanges, MaxRuntimes} \subseteq Nat

VARIABLES
  db, live, built, version, last, read, task, arcs, cache, kpc, rt, key,
  result, seen, from, since,
  doc, edited, bpc, submitted, bound, pool, used, ran, answer

kvars == <<db, live, built, version, last, read, task, arcs, cache, kpc, rt, key,
           result, seen, from, since>>
bvars == <<doc, edited, bpc, submitted, bound, pool, used, ran, answer>>

Cache == INSTANCE ResponseCache WITH pc <- kpc
Document == INSTANCE Binding WITH pc <- bpc

CallOver ==
  /\ pc = "done"
  /\ mode = "rows" /\ beating = FALSE /\ procedure = FALSE /\ profile = FALSE
  /\ attempt = 0 /\ statement = "none" /\ applied = 0
  /\ rows = 0 /\ served = 0 /\ beats = 0
  /\ charged = Unbilled /\ refunds = 0
  /\ outcome = "error" /\ recorded = TRUE

CacheOver ==
  /\ db = MaxChanges + 1
  /\ live = 0
  /\ built = MaxRuntimes
  /\ version = [g \in Cache!Runtime |-> 0]
  /\ last = [g \in Cache!Runtime |-> Cache!None]
  /\ read = [g \in Cache!Runtime |-> Cache!None]
  /\ task = [g \in Cache!Runtime |-> "none"]
  /\ arcs = [g \in Cache!Runtime |-> 0]
  /\ cache = [v \in {} |-> 0]
  /\ kpc = [c \in Caller |-> "idle"]
  /\ rt = [c \in Caller |-> 0]
  /\ key = [c \in Caller |-> 0]
  /\ result = [c \in Caller |-> Cache!None]
  /\ seen = [g \in Cache!Runtime |-> Cache!None]
  /\ from = [c \in Caller |-> 0]
  /\ since = [c \in Caller |-> Cache!None]

DocumentOver ==
  /\ doc = Document!Ordinary("sqlite", "many")
  /\ edited = {} /\ bpc = "refused" /\ submitted = {} /\ bound = << >>
  /\ pool = {} /\ used = {} /\ answer = "none"
  /\ ran = [by |-> "none", hinted |-> FALSE, session |-> {}]

----------------------------------------------------------------------------
\* A hit on an entry of the same registration is not older than the newest
\* change its watcher has announced.
HitsAreFresh == Cache!HitsAreFresh

\* An accepted document does what it declares, but for the combinations that
\* Binding names; its own texts are gated, and the plugin's values win over the
\* caller's.
DeclaredIsDone == Document!DeclaredIsDone
SubmittedWasGated == Document!SubmittedWasGated
ManagedValuesWin == Document!ManagedValuesWin
=============================================================================
