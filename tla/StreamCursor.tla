---------------------------- MODULE StreamCursor ----------------------------
(***************************************************************************)
(* Keyset paging of `row_mode: stream` (src/src/stream.rs and the cursor   *)
(* functions of src/src/lib.rs): one client reads a stream page by page    *)
(* over the nodes of a cluster, while rows come and go, bindings are       *)
(* registered again and nodes restart.                                     *)
(*                                                                         *)
(* A row is a number; the operator's SQL returns the rows beyond the       *)
(* cursor in the order of the cursor columns, at most QueryLimit of them.  *)
(* The MAC of a token is the key it was made with.                         *)
(***************************************************************************)
EXTENDS Naturals, FiniteSets, Sequences

CONSTANTS Node, Binding,
          Malformed,    \* a _cursor that is no token
          ColumnLists,  \* the cursor_columns a binding may be given
          Selected,     \* the columns the SELECT returns
          PageRows,     \* max_rows
          QueryLimit,   \* the LIMIT of the operator's SQL
          MaxRow,       \* bound: rows
          MaxWrites,    \* bound: inserts and deletes
          MaxRegs,      \* bound: registrations after the first ones
          MaxRestarts,  \* bound: restarts of a node
          MaxMistakes   \* bound: tokens submitted where they do not belong

\* The operator's ORDER BY is stable: the coarse column is never alone.
ASSUME StreamAssumption ==
  /\ Binding # {} /\ Node # {}
  /\ {PageRows, QueryLimit} \subseteq Nat \ {0}
  /\ MaxRow \in Nat
  /\ ColumnLists \subseteq Seq(STRING)
  /\ \A cols \in ColumnLists : \E i \in DOMAIN cols : cols[i] # "grp"

Row == 1..MaxRow
NoToken == {}        \* a null next_cursor, an absent _cursor
NoKeyset == << >>

VARIABLES
  rows,      \* the rows each binding's query ranges over
  profiles,  \* each node's [key, cols] of each binding
  shared,    \* whether stream.signing_key is set
  keys,      \* random keys generated so far
  pc,        \* the client: "idle", "running" and "fetched" a page, "done"
  home,      \* the binding it reads
  token,     \* the next_cursor it holds, a set of at most one
  reply,     \* what its last call brought: "none", "page" or a refusal
  call,      \* the call: its node, binding and the runtime it took
  after,     \* the values bound to _after_<col>
  batch,     \* the rows of the query
  got,       \* history: <<binding, row>> received
  again,     \* history: <<binding, row>> received more than once
  stayed,    \* history: <<binding, row>> there since the stream began
  writes, regs, restarts, mistakes

db == <<rows, writes>>
config == <<profiles, shared, keys, regs, restarts>>
client == <<pc, home, token, reply, call, after, batch, got, again, mistakes>>
vars == <<db, config, client, stayed>>

-----------------------------------------------------------------------------
(* Keys and registration                                                    *)

\* Distinct numbers after k for the elements of S.
Numbered(S, k) ==
  CHOOSE f \in [S -> k + 1..k + Cardinality(S)] : \A x, y \in S : f[x] = f[y] => x = y

\* The n-th random key; key 0 is derived from the configured signing_key.
SigningKey(n) == IF shared THEN 0 ELSE n

\* The nodes of the deployment: tokens of one node are no good on another
\* without a configured key, so that it is then a single node.
Deployed == IF shared THEN Node ELSE {CHOOSE n \in Node : TRUE}

\* register_profile: a new runtime, with a new random key unless one is set.
Register(n, b, cols) ==
  /\ regs < MaxRegs
  /\ regs' = regs + 1
  /\ keys' = keys + 1
  /\ profiles' = [profiles EXCEPT ![n][b] = [key |-> SigningKey(keys'), cols |-> cols]]
  /\ UNCHANGED <<db, client, stayed, shared, restarts>>

Init ==
  /\ rows \in [Binding -> SUBSET Row]
  /\ shared \in BOOLEAN
  /\ keys = Cardinality(Node \X Binding)
  /\ \E cols \in [Binding -> ColumnLists] :
        profiles = [n \in Node |-> [b \in Binding |->
          [key |-> SigningKey(Numbered(Node \X Binding, 0)[n, b]), cols |-> cols[b]]]]
  /\ pc = "idle"
  /\ home = CHOOSE b \in Binding : TRUE  \* the bindings are alike
  /\ token = NoToken
  /\ reply = "none"
  /\ call = << >>
  /\ after = NoKeyset
  /\ batch = {}
  /\ got = {}
  /\ again = {}
  /\ stayed = {}
  /\ writes = 0 /\ regs = 0 /\ restarts = 0 /\ mistakes = 0

-----------------------------------------------------------------------------
(* The table                                                                *)

Insert(b, r) ==
  /\ writes < MaxWrites
  /\ r \notin rows[b]
  /\ rows' = [rows EXCEPT ![b] = @ \cup {r}]
  /\ writes' = writes + 1
  /\ UNCHANGED <<config, client, stayed>>

Delete(b, r) ==
  /\ writes < MaxWrites
  /\ r \in rows[b]
  /\ rows' = [rows EXCEPT ![b] = @ \ {r}]
  /\ writes' = writes + 1
  /\ stayed' = stayed \ {<<b, r>>}
  /\ UNCHANGED <<config, client>>

\* The columns of a row: a coarse one whose values repeat, and two unique.
Column(r, col) == IF col = "grp" THEN (r + 1) \div 2 ELSE r
Keyset(r, cols) == [i \in DOMAIN cols |-> Column(r, cols[i])]
Beyond(k, l) == \E i \in DOMAIN k : k[i] > l[i] /\ \A j \in 1..i - 1 : k[j] = l[j]

\* ORDER BY cols, and its first n rows.
Before(r, s, cols) == Beyond(Keyset(s, cols), Keyset(r, cols))
FirstRows(S, cols, n) == {r \in S : Cardinality({s \in S : Before(s, r, cols)}) < n}

\* WHERE (cols) > (:_after_cols) ORDER BY cols LIMIT QueryLimit, with NULLs
\* bound on the first page.
Rows(b, cols, aft) ==
  FirstRows({r \in rows[b] : aft = NoKeyset \/ Beyond(Keyset(r, cols), aft)},
            cols, QueryLimit)

-----------------------------------------------------------------------------
(* Tokens                                                                   *)

encode_cursor(b, keyset, key) == [binding |-> b, keyset |-> keyset, mac |-> key]
decode_cursor(t, key) == {u \in t : u # Malformed /\ u.mac = key}

\* The error apply_stream_cursor answers a token with, "none" if it takes it.
Refusal(t, b, rt) ==
  LET decoded == decode_cursor(t, rt.key)
  IN  IF t = NoToken THEN "none"
      ELSE IF decoded = {} THEN "verification"
      ELSE IF \E u \in decoded : u.binding # b THEN "binding"
      ELSE IF \E u \in decoded : Len(u.keyset) # Len(rt.cols) THEN "arity"
      ELSE "none"

-----------------------------------------------------------------------------
(* A call                                                                   *)

\* apply_stream_cursor: the token must verify under the runtime's key, be of
\* this binding and have a value for each column; the first page has none.
apply_stream_cursor(n, b, t) ==
  LET rt == profiles[n][b]
      refusal == Refusal(t, b, rt)
  IN  IF refusal = "none"
      THEN /\ pc' = "running"
           /\ call' = [node |-> n, binding |-> b, rt |-> rt]
           /\ after' \in IF t = NoToken THEN {NoKeyset} ELSE {u.keyset : u \in t}
           /\ reply' = "none"
      ELSE /\ reply' = refusal
           /\ UNCHANGED <<pc, call, after>>

\* The first page of a stream: what is received counts from here.
FirstPage(n) ==
  /\ pc = "idle" /\ token = NoToken
  /\ apply_stream_cursor(n, home, NoToken)
  /\ stayed' = UNION {{b} \X rows[b] : b \in Binding}
  /\ UNCHANGED <<db, config, home, token, batch, got, again, mistakes>>

Continue(n) ==
  /\ pc = "idle" /\ token # NoToken /\ reply \in {"none", "page"}
  /\ apply_stream_cursor(n, home, token)
  /\ UNCHANGED <<db, config, stayed, home, token, batch, got, again, mistakes>>

\* The client submits its token to another binding, or something else than
\* a token; an error leaves it where it was.
Misuse(n, b, t) ==
  /\ pc = "idle" /\ token # NoToken /\ reply \in {"none", "page"}
  /\ mistakes < MaxMistakes
  /\ mistakes' = mistakes + 1
  /\ t = token => b # home
  /\ IF Refusal(t, b, profiles[n][b]) = "none"
     THEN apply_stream_cursor(n, b, t)
     ELSE UNCHANGED <<pc, call, after, reply>>
  /\ UNCHANGED <<db, config, stayed, home, token, batch, got, again>>

\* Its cursor refused, the client reads the stream from the start.
StartOver ==
  /\ pc = "idle" /\ reply \notin {"none", "page"}
  /\ token' = NoToken
  /\ reply' = "none"
  /\ got' = {}
  /\ again' = {}
  /\ stayed' = {}
  /\ UNCHANGED <<db, config, pc, home, call, after, batch, mistakes>>

Query ==
  /\ pc = "running"
  /\ pc' = "fetched"
  /\ batch' = Rows(call.binding, call.rt.cols, after)
  /\ UNCHANGED <<db, config, stayed, home, token, reply, call, after, got, again,
                 mistakes>>

-----------------------------------------------------------------------------
(* The answer                                                               *)

\* max_rows of the batch.
shape_response == FirstRows(batch, call.rt.cols, PageRows)

LastRow(page) == CHOOSE r \in page : \A s \in page : ~Before(r, s, call.rt.cols)

\* A bug to be caught: the key is that of the plugin and not of the runtime.
TokenOfPlugin(r) == encode_cursor(call.binding, Keyset(r, call.rt.cols), SigningKey(keys))

TokenOf(r) == encode_cursor(call.binding, Keyset(r, call.rt.cols), call.rt.key)

Columns(cols) == {cols[i] : i \in DOMAIN cols}
Anchored(page) == page # {} /\ Columns(call.rt.cols) \subseteq Selected

\* Bugs to be caught: the cursor is that of the first row, or of the rows
\* before the truncation.
MintFirst(page) ==
  IF Anchored(page)
  THEN {TokenOf(CHOOSE r \in page : \A s \in page : ~Before(s, r, call.rt.cols))}
  ELSE NoToken
MintBatch(page) == IF Anchored(page) THEN {TokenOf(LastRow(batch))} ELSE NoToken

\* The token of the page's last row; null when there is no row, or when the
\* row lacks a cursor column.
mint_next_cursor(page) == IF Anchored(page) THEN {TokenOf(LastRow(page))} ELSE NoToken

\* The page and its next_cursor; a null cursor ends the stream.
Answer ==
  LET page == shape_response
      received == {call.binding} \X page
  IN  /\ pc = "fetched"
      /\ token' = mint_next_cursor(page)
      /\ pc' = IF token' = NoToken THEN "done" ELSE "idle"
      /\ got' = got \cup received
      /\ again' = again \cup (got \cap received)
      /\ reply' = "page"
      /\ batch' = {}
      /\ after' = NoKeyset
      /\ UNCHANGED <<db, config, stayed, home, call, mistakes>>

\* A node restarts: every binding is registered anew, and a call it was
\* serving is lost; the client keeps its token.
Restart(n) ==
  /\ restarts < MaxRestarts
  /\ restarts' = restarts + 1
  /\ keys' = keys + Cardinality(Binding)
  /\ profiles' = [profiles EXCEPT ![n] =
        [b \in Binding |-> [@[b] EXCEPT !.key = SigningKey(Numbered(Binding, keys)[b])]]]
  /\ IF pc \in {"running", "fetched"} /\ call.node = n
     THEN pc' = "idle" /\ batch' = {} /\ after' = NoKeyset
     ELSE UNCHANGED <<pc, batch, after>>
  /\ UNCHANGED <<db, stayed, shared, regs, home, token, reply, call, got, again,
                 mistakes>>

Next ==
  \/ \E n \in Deployed, b \in Binding, cols \in ColumnLists : Register(n, b, cols)
  \/ \E b \in Binding, r \in Row : Insert(b, r) \/ Delete(b, r)
  \/ \E n \in Deployed : FirstPage(n) \/ Continue(n) \/ Restart(n)
  \/ \E n \in Deployed, b \in Binding, t \in {token, {Malformed}} : Misuse(n, b, t)
  \/ StartOver \/ Query \/ Answer

Spec == Init /\ [][Next]_vars

\* The client goes on as long as it has a cursor, and starts over when its
\* cursor is refused; the node runs the query and answers.
Fairness ==
  /\ WF_vars(\E n \in Deployed : FirstPage(n) \/ Continue(n))
  /\ WF_vars(StartOver) /\ WF_vars(Query) /\ WF_vars(Answer)

FairSpec == Spec /\ Fairness

-----------------------------------------------------------------------------
(* Properties                                                               *)

\* The values bound to the placeholders are as many as the columns of the
\* runtime that serves the call, even when the binding was given other
\* columns since the token was made.
TypeOK ==
  /\ rows \in [Binding -> SUBSET Row]
  /\ \A n \in Node, b \in Binding :
        profiles[n][b].key \in 0..keys /\ profiles[n][b].cols \in ColumnLists
  /\ pc \in {"idle", "running", "fetched", "done"}
  /\ home \in Binding
  /\ \A u \in token : u.binding \in Binding /\ u.mac \in 0..keys
  /\ reply \in {"none", "page", "verification", "binding", "arity"}
  /\ pc \in {"running", "fetched"} => Len(after) \in {0, Len(call.rt.cols)}
  /\ batch \subseteq Row /\ Cardinality(batch) <= QueryLimit
  /\ stayed \subseteq Binding \X Row

\* apply_stream_cursor takes a token of a former registration if it has as
\* many values as there are columns now, so what it promises supposes that
\* the number of columns tells two lists apart.
ToldByArity == \A c, d \in ColumnLists : Len(c) = Len(d) => c = d

\* No row comes twice in one stream, whatever the table, the registrations
\* and the nodes do between two pages (apply_stream_cursor resumes exactly
\* after the last row that mint_next_cursor saw).
NoRowTwice == ToldByArity => again = {}

\* When the stream has ended by a null cursor, every row that was there all
\* along has been received, although pages are cut to max_rows, calls get
\* lost in restarts and tokens go to bindings they are not of.  It supposes
\* that the SELECT returns the cursor columns.
NoRowSkipped ==
  ToldByArity /\ pc = "done" /\ Columns(call.rt.cols) \subseteq Selected =>
    \A r \in rows[call.binding] :
       <<call.binding, r>> \in stayed => <<call.binding, r>> \in got

\* Without a configured signing_key, "cross-node continuation calls will fail verification,
\* single-node continues to work fine", which a registration breaks.
OneNodeVerifies ==
  ~shared => reply \notin {"verification", "binding"}

SameColumns ==
  \A n, m \in Deployed : profiles[n][home].cols = profiles[m][home].cols

\* A client that follows next_cursor gets to the end of the stream, once the
\* nodes agree on the cursor columns: it starts over when its token is of a
\* key that was lost with a registration or a restart.
StreamEnds == <>[]SameColumns => <>(pc = "done")

=============================================================================
