------------------------------ MODULE Binding ------------------------------
(* A binding from its document to its calls: SqlBackendConfig::validate,    *)
(* register_profile, and the operations that run statements, with the pool, *)
(* the arguments and the session variables each of them takes: a call, an   *)
(* await, a listing, a completion, a sql_tx group, and a polling watch on   *)
(* the same document.  Validation happens once, in one file; what it has to *)
(* rule out is spread over the others: a driver arm that is not there, an   *)
(* `expect`, a text read after validation, a credential left unresolved.    *)
(*                                                                          *)
(* A document starts as one of a few ordinary ones and the operator edits   *)
(* up to MaxEdits of its fields.  An optional field is a set of at most one *)
(* value, so `if let Some(x)` is a quantifier over it.  A text keeps its    *)
(* leading words and its number of statements, a name keeps what the        *)
(* identifier checks look at, a number keeps its boundaries.                *)
EXTENDS Naturals, Sequences, FiniteSets

CONSTANTS
    Compiled,       \* the drivers built in (cargo features)
    Providers,      \* the auth schemes built in (cargo features)
    MaxEdits        \* fields the operator changes in the starting document

VARIABLES
    doc,            \* the SqlBackendConfig document
    edited,         \* the fields changed so far
    pc,             \* "editing", "refused", "panicked", "registered", "answered",
                    \* "watching"
    submitted,      \* texts handed to the database, and the operation they came with
    bound,          \* where each bound value of the last call came from
    pool,           \* the pool of the profile (ConnectOutcome)
    used,           \* the pool the last call ran on
    ran,            \* the last operation, whether the gateway sent an idempotency
                    \* hint with it, and the session variables of its statement
    answer          \* how the last call ended

vars == <<doc, edited, pc, submitted, bound, pool, used, ran, answer>>

DriverKind == {"postgres", "mysql", "mariadb", "sqlite"}

(* The implementation behind a driver name: MySQL and MariaDB share one.    *)
build_registry == [d \in Compiled |-> IF d = "mariadb" THEN "mysql" ELSE d]

----------------------------------------------------------------------------
(* Texts and names.                                                         *)

Text(words, statements) == [words |-> words, statements |-> statements]
Select == Text(<<"SELECT">>, 1)
Insert == Text(<<"INSERT">>, 1)
Blank == Text(<<>>, 1)
Stacked == Text(<<"SELECT">>, 2)
Grant == Text(<<"comment", "GRANT">>, 1)
CreateTable == Text(<<"CREATE", "TABLE">>, 1)
CreateRole == Text(<<"CREATE", "comment", "ROLE">>, 1)

(* Comments before the first and before the second word are skipped.        *)
strip_leading_whitespace_and_comments(words) ==
    SelectSeq(words, LAMBDA w : w # "comment")

(* TRUE when the text passes: it does not lead with role or grant           *)
(* management.                                                              *)
reject_privileged_ddl(text) ==
    LET w == strip_leading_whitespace_and_comments(text.words)
    IN  \/ w = <<>>
        \/ /\ w[1] \notin {"GRANT", "REVOKE"}
           /\ (w[1] \in {"CREATE", "ALTER", "DROP"} /\ Len(w) > 1)
                => w[2] \notin {"USER", "ROLE", "DATABASE", "GROUP"}

Gated(text) == text.statements = 1 /\ reject_privileged_ddl(text)

From(operation, texts) == [text : texts, from : {operation}]

Name == {"blank", "letters", "dotted", "punctuated"}

is_safe_sql_identifier(name) == name \in {"letters", "dotted"}

----------------------------------------------------------------------------
(* The blocks of a document.  Each set holds the block as an operator would *)
(* write it and its neighbours on the boundaries of the checks.             *)

IsolationLevels == {"read_committed", "repeatable_read", "serializable"}

Pools ==
    LET usual == [max_connections |-> 10, min_idle |-> 0, require_cancel_privilege |-> TRUE]
    IN  {usual, [usual EXCEPT !.max_connections = 0], [usual EXCEPT !.min_idle = 10],
         [usual EXCEPT !.min_idle = 11], [usual EXCEPT !.require_cancel_privilege = FALSE]}

RowModes == {"single", "many", "scalar", "affected_rows", "resource_contents",
             "stream", "result_sets"}

Bodies == {"sql", "procedure", "sql_file"}

Streams ==
    LET usual == [cursor_columns |-> {"id"}, safe |-> TRUE, initial |-> {}]
    IN  {usual, [usual EXCEPT !.cursor_columns = {}], [usual EXCEPT !.safe = FALSE],
         [usual EXCEPT !.initial = {"id"}], [usual EXCEPT !.initial = {"ts"}]}

Caches ==
    LET watch == [sql |-> Select, interval_ms |-> 100]
    IN  [enabled : BOOLEAN,
         invalidate_on : {{}, {watch}, {[watch EXCEPT !.interval_ms = 99]},
                          {[watch EXCEPT !.sql = Blank]}, {[watch EXCEPT !.sql = Stacked]}}]

Costs ==
    LET flat == [amount |-> {"decimal"}, expression |-> {}, currency |-> "letters",
                 max_per_call |-> {}]
    IN  {flat, [flat EXCEPT !.amount = {}], [flat EXCEPT !.amount = {"negative"}],
         [flat EXCEPT !.expression = {"cel"}], [flat EXCEPT !.currency = "blank"],
         [flat EXCEPT !.currency = "control"], [flat EXCEPT !.max_per_call = {"infinite"}],
         [flat EXCEPT !.amount = {}, !.expression = {"cel"}],
         [flat EXCEPT !.amount = {}, !.expression = {"broken"}]}

Awaits ==
    LET usual == [trigger |-> {Insert}, check |-> Select, predicate |-> "cel",
                  poll_interval_ms |-> 100, timeout_ms |-> 100]
    IN  {usual, [usual EXCEPT !.trigger = {}], [usual EXCEPT !.trigger = {Stacked}],
         [usual EXCEPT !.check = Blank], [usual EXCEPT !.check = Grant],
         [usual EXCEPT !.predicate = "blank"], [usual EXCEPT !.predicate = "broken"],
         [usual EXCEPT !.poll_interval_ms = 99], [usual EXCEPT !.timeout_ms = 0],
         [usual EXCEPT !.timeout_ms = 99]}

Lists ==
    LET usual == [sql |-> Select, mode |-> "keyset", cursor_column |-> "letters",
                  page_size |-> 1000, refs |-> {"cursor", "page_size"}]
    IN  {usual, [usual EXCEPT !.sql = Blank], [usual EXCEPT !.sql = CreateRole],
         [usual EXCEPT !.cursor_column = "blank"],
         [usual EXCEPT !.cursor_column = "punctuated"],
         [usual EXCEPT !.mode = "offset", !.cursor_column = "blank"],
         [usual EXCEPT !.page_size = 0], [usual EXCEPT !.page_size = 1001],
         [usual EXCEPT !.refs = {"cursor", "id"}]}

Breakers == [failure_threshold : {0, 5}, cooldown_ms : {0, 30000}]

AuthSchemes == {"rds_iam", "azure_ad", "gcp_iam", "aurora_failover"}
Auths == [kind : AuthSchemes, filled : {TRUE}] \cup [kind : {"rds_iam"}, filled : {FALSE}]

Sessions == {{}} \cup {{[key |-> k, cred |-> c]} : k \in Name \ {"blank"}, c \in BOOLEAN}

(* What an edit may put in a field.                                         *)
Alternatives ==
    [scheme |-> {"postgres", "postgresql", "mysql", "mariadb", "sqlite"},
     url |-> {"plain", "password", "cred"},
     auth |-> {{a} : a \in Auths},
     pool |-> Pools,
     body |-> Bodies,
     text |-> {Select, Insert, Stacked, Grant, CreateTable, CreateRole},
     procedure |-> Name,
     refs |-> {{}, {"id"}, {"_after_id"}, {"id", "_after_id"}, {"id", "idempotency_key"}},
     quoted |-> {{"_after_id"}},
     params |-> {{}, {"id"}},
     param_exprs |-> {{}, {"id"}, {"_after_id"}},
     cel |-> {"cel", "broken"},
     row_mode |-> RowModes,
     stream |-> {{}} \cup {{s} : s \in Streams},
     progress_heartbeat_ms |-> {{49}, {50}},
     circuit_breaker |-> {{b} : b \in Breakers},
     list_query |-> {{l} : l \in Lists},
     await |-> {{a} : a \in Awaits},
     cache |-> {{c} : c \in Caches},
     cost |-> {{c} : c \in Costs},
     session_vars |-> Sessions,
     isolation_level |-> {{l} : l \in IsolationLevels}]

(* The ordinary documents: a query, a stream and a stored procedure.        *)
Ordinary(d, mode) ==
    [driver |-> d,
     scheme |-> d, url |-> "plain", auth |-> {},
     pool |-> [max_connections |-> 10, min_idle |-> 0, require_cancel_privilege |-> TRUE],
     body |-> IF mode = "result_sets" THEN "procedure" ELSE "sql",
     text |-> Select, procedure |-> "letters",
     refs |-> IF mode = "stream" THEN {"_after_id"} ELSE {},
     quoted |-> {}, params |-> {}, param_exprs |-> {}, cel |-> "cel",
     row_mode |-> mode,
     stream |-> IF mode = "stream"
                THEN {[cursor_columns |-> {"id"}, safe |-> TRUE, initial |-> {}]} ELSE {},
     progress_heartbeat_ms |-> {}, circuit_breaker |-> {}, list_query |-> {}, await |-> {},
     cache |-> {}, cost |-> {}, session_vars |-> {}, isolation_level |-> {}]

----------------------------------------------------------------------------
(* SqlBackendConfig::validate, block by block.                              *)

scheme_ok ==
    CASE doc.driver = "postgres" -> doc.scheme \in {"postgres", "postgresql"}
      [] doc.driver \in {"mysql", "mariadb"} -> doc.scheme \in {"mysql", "mariadb"}
      [] doc.driver = "sqlite" -> doc.scheme = "sqlite"

(* AuthConfig::validate: every required field of the variant is filled in.  *)
auth_shape_ok(a) == a.filled

auth_ok == \A a \in doc.auth :
    auth_shape_ok(a) /\ doc.driver = "postgres" /\ doc.url = "plain"

pool_ok == doc.pool.max_connections > 0 /\ doc.pool.min_idle <= doc.pool.max_connections

(* StreamConfig::validate.                                                  *)
stream_shape_ok(s) == s.cursor_columns # {} /\ s.safe /\ s.initial \subseteq s.cursor_columns

placeholder_names(s) == {IF c = "id" THEN "_after_id" ELSE "_after_ts" : c \in s.cursor_columns}

(* A stream's placeholders are looked for in the raw text, quoted or not,   *)
(* and only when the text is in the document.                               *)
stream_ok ==
    IF doc.row_mode = "stream"
    THEN /\ doc.stream # {}
         /\ \A s \in doc.stream :
                /\ stream_shape_ok(s)
                /\ doc.body = "sql" => placeholder_names(s) \subseteq doc.refs \cup doc.quoted
    ELSE doc.stream = {}

(* A bug to be caught: any driver may declare result_sets.                  *)
result_sets_ok_any == doc.row_mode = "result_sets" => doc.body = "procedure"

result_sets_ok == doc.row_mode = "result_sets" =>
    doc.body = "procedure" /\ doc.driver \in {"mysql", "mariadb"}

heartbeat_ok == \A ms \in doc.progress_heartbeat_ms : ms >= 50

breaker_ok == \A b \in doc.circuit_breaker : b.failure_threshold > 0 /\ b.cooldown_ms > 0

list_query_ok == \A l \in doc.list_query :
    /\ l.sql # Blank /\ Gated(l.sql)
    /\ l.page_size \in 1..1000
    /\ l.mode = "keyset" => is_safe_sql_identifier(l.cursor_column)

await_ok == \A a \in doc.await :
    /\ a.check # Blank /\ Gated(a.check)
    /\ \A t \in a.trigger : t # Blank /\ Gated(t)
    /\ a.predicate # "blank"
    /\ a.poll_interval_ms >= 100
    /\ a.timeout_ms > 0 /\ a.timeout_ms >= a.poll_interval_ms

invalidate_on_ok(w) == w.sql # Blank /\ Gated(w.sql) /\ w.interval_ms >= 100

cache_ok == \A c \in doc.cache : c.enabled =>
    /\ doc.row_mode \in {"single", "many", "scalar", "resource_contents"}
    /\ doc.body # "procedure"
    /\ \A w \in c.invalidate_on : invalidate_on_ok(w)

parse_decimal_amount(amount) == amount \notin {"blank", "word", "infinite", "negative"}

cost_ok == \A c \in doc.cost :
    /\ Cardinality(c.amount) + Cardinality(c.expression) = 1
    /\ \A a \in c.amount : parse_decimal_amount(a)
    /\ \A e \in c.expression : e = "cel"
    /\ c.currency \notin {"blank", "control"}
    /\ \A m \in c.max_per_call : parse_decimal_amount(m)

session_vars_ok ==
    /\ \A v \in doc.session_vars : is_safe_sql_identifier(v.key)
    /\ doc.driver \in {"mysql", "mariadb"} => \A v \in doc.session_vars : v.key # "dotted"
    /\ doc.driver = "sqlite" => doc.session_vars = {}

body_ok ==
    CASE doc.body = "procedure" -> is_safe_sql_identifier(doc.procedure)
      [] doc.body = "sql" -> Gated(doc.text)
      [] doc.body = "sql_file" -> TRUE

isolation_ok == doc.driver = "sqlite" => doc.isolation_level \subseteq {"serializable"}

validate ==
    /\ scheme_ok /\ auth_ok /\ pool_ok /\ stream_ok /\ result_sets_ok /\ heartbeat_ok
    /\ breaker_ok /\ list_query_ok /\ await_ok /\ cache_ok /\ cost_ok /\ session_vars_ok
    /\ body_ok /\ isolation_ok

----------------------------------------------------------------------------
(* register_profile.                                                        *)

Managed(name) == name \in {"_after_id", "_after_ts", "idempotency_key"}

(* Named placeholders must be declared, the plugin's own ones excepted.     *)
validate_named_params_match_config == \A n \in doc.refs : Managed(n) \/ n \in doc.params

(* A bug to be caught: the text of a file is not gated.                     *)
prepare_stmt_ungated == doc.body # "procedure" => validate_named_params_match_config

(* A procedure becomes CALL name(?, ...) with one place per parameter; a    *)
(* file is read and gated here.                                             *)
prepare_stmt ==
    CASE doc.body = "sql" -> validate_named_params_match_config
      [] doc.body = "sql_file" -> Gated(doc.text) /\ validate_named_params_match_config
      [] doc.body = "procedure" -> TRUE

param_order ==
    IF doc.body = "procedure" \/ doc.refs = {} THEN doc.params ELSE doc.refs

(* compile_all: every derived parameter's expression compiles.              *)
compile_all == doc.param_exprs # {} => doc.cel = "cel"

build_provider(a) == a.kind \in Providers

(* What a driver connects to, with which URL, and whether a task keeps      *)
(* refreshing the password.  Only Postgres takes an auth provider.          *)
connect_postgres(provider, url) ==
    {[handle |-> "postgres", rotator |-> provider, url |-> url]}
connect_mysql(provider, url) ==
    IF provider THEN {} ELSE {[handle |-> "mysql", rotator |-> FALSE, url |-> url]}
connect_sqlite(provider, url) ==
    IF provider THEN {} ELSE {[handle |-> "sqlite", rotator |-> FALSE, url |-> url]}

connect(provider, url) ==
    CASE build_registry[doc.driver] = "postgres" -> connect_postgres(provider, url)
      [] build_registry[doc.driver] = "mysql" -> connect_mysql(provider, url)
      [] build_registry[doc.driver] = "sqlite" -> connect_sqlite(provider, url)

(* The URL as the document has it, credential tokens included.              *)
build_pool ==
    IF \E a \in doc.auth : ~build_provider(a) THEN {} ELSE connect(doc.auth # {}, doc.url)

config_has_cred_refs == doc.url = "cred" \/ \E v \in doc.session_vars : v.cred

(* The listing binds its two placeholders and refuses any other.            *)
ListPrepared == \A l \in doc.list_query : l.refs \subseteq {"cursor", "page_size"}

(* The predicate compiles; trigger and check are rewritten.                 *)
AwaitCompiled == \A a \in doc.await : a.predicate = "cel"

(* Everything of register_profile that only depends on the document.        *)
Registrable ==
    /\ validate
    /\ compile_all
    /\ doc.driver \in DOMAIN build_registry
    /\ prepare_stmt
    /\ build_pool # {}
    /\ ListPrepared
    /\ AwaitCompiled

Init ==
    /\ doc \in {Ordinary(d, m) : d \in DriverKind, m \in {"many", "stream", "result_sets"}}
    /\ edited = {}
    /\ pc = "editing"
    /\ submitted = {}
    /\ bound = <<>>
    /\ pool = {}
    /\ used = {}
    /\ ran = [by |-> "none", hinted |-> FALSE, session |-> {}]
    /\ answer = "none"

Edit(f) ==
    /\ pc = "editing"
    /\ f \notin edited /\ Cardinality(edited) < MaxEdits
    /\ \E v \in Alternatives[f] : doc[f] # v /\ doc' = [doc EXCEPT ![f] = v]
    /\ edited' = edited \cup {f}
    /\ UNCHANGED <<pc, submitted, bound, pool, used, ran, answer>>

(* The document is refused, or the database is: connect, health_check and   *)
(* verify_cancel_privilege can fail whatever the document says.             *)
Refuse ==
    /\ pc = "editing"
    /\ pc' = "refused"
    /\ edited' = {}
    /\ UNCHANGED <<doc, submitted, bound, pool, used, ran, answer>>

(* The profile is inserted and the tracking query of the cache starts.  The *)
(* stream runtime is built with an `expect` on the stream block.            *)
Register ==
    /\ pc = "editing" /\ Registrable
    /\ pc' = IF doc.row_mode = "stream" /\ doc.stream = {} THEN "panicked" ELSE "registered"
    /\ submitted' = From("binding",
           {w.sql : w \in UNION {c.invalidate_on : c \in {c \in doc.cache : c.enabled}}})
    /\ pool' = build_pool
    /\ edited' = {}
    /\ UNCHANGED <<doc, bound, used, ran, answer>>

(* SqlPollingWatchPlugin::watch: the document is the connection and tracking *)
(* query of a polling watch.  build_prepared_stmt reads a file and gates     *)
(* nothing; a rotator is dropped.  Polls fail and succeed in PollingWatch.   *)
watch ==
    /\ pc = "editing"
    /\ validate /\ doc.driver \in DOMAIN build_registry /\ build_pool # {}
    /\ pc' = "watching"
    /\ submitted' = From("watch", IF doc.body = "procedure" THEN {} ELSE {doc.text})
    /\ used' = {[on EXCEPT !.rotator = FALSE] : on \in build_pool}
    /\ edited' = {}
    /\ UNCHANGED <<doc, bound, pool, ran, answer>>

----------------------------------------------------------------------------
(* One call.  Arguments are null, an object (where each value came from) or *)
(* something else; a step that refuses them returns no arguments.           *)

Null == [shape |-> "null", at |-> <<>>]
Array == [shape |-> "array", at |-> <<>>]
Object(at) == [shape |-> "object", at |-> at]
Payloads == {Null, Array} \cup
    {Object([n \in names |-> "caller"]) :
        names \in {{}, {"id"}, {"id", "_after_id", "idempotency_key"}}}

Overwrite(args, names, origin) ==
    Object([n \in DOMAIN args.at \cup names |-> IF n \in names THEN origin ELSE args.at[n]])

(* The expressions are evaluated on the caller's values and may fail.       *)
evaluate_with_client(args, evaluates) ==
    IF doc.param_exprs = {} THEN {args}
    ELSE IF args.shape = "array" \/ ~evaluates THEN {}
    ELSE {Overwrite(args, doc.param_exprs, "operator")}

(* A bug to be caught: a value the caller sent is kept.                     *)
apply_stream_cursor_defaults(args, token) ==
    IF doc.row_mode # "stream" THEN {args}
    ELSE IF args.shape = "array" \/ token = "rejected" THEN {}
    ELSE {Overwrite(args, UNION {placeholder_names(s) : s \in doc.stream} \ DOMAIN args.at,
                    "keyset")}

(* The keyset comes from the verified token, or from `initial` on the first *)
(* page, never from the caller.  A token that does not verify is refused.   *)
apply_stream_cursor(args, token) ==
    IF doc.row_mode # "stream" THEN {args}
    ELSE IF args.shape = "array" \/ token = "rejected" THEN {}
    ELSE {Overwrite(args, UNION {placeholder_names(s) : s \in doc.stream}, "keyset")}

InjectHint(args, hint) ==
    IF hint /\ args.shape # "array" THEN Overwrite(args, {"idempotency_key"}, "gateway") ELSE args

collect_bound_params(args, order) ==
    CASE args.shape = "array" -> {}
      [] args.shape = "null" -> IF order = {} THEN {<<>>} ELSE {}
      [] args.shape = "object" ->
            IF order \subseteq DOMAIN args.at THEN {[n \in order |-> args.at[n]]} ELSE {}

(* A binding without credential tokens uses the profile's pool.  Otherwise  *)
(* the pool is built for this caller's credentials, from from_config, which *)
(* carries no provider.                                                     *)
build_pool_with_url == connect(FALSE, IF doc.url = "cred" THEN "resolved" ELSE doc.url)

resolve_pool_for_call == IF config_has_cred_refs THEN build_pool_with_url ELSE pool

(* The session variables with every credential token replaced.              *)
Resolved == {[key |-> v.key, cred |-> FALSE] : v \in doc.session_vars}

session_vars_ref == IF config_has_cred_refs THEN Resolved ELSE doc.session_vars

(* Each driver refuses a foreign pool handle.  MySQL sets user variables,   *)
(* whose names have no dot.  SQLite has no CALL.                            *)
execute_postgres(on) == IF on.handle = "postgres" THEN "rows" ELSE "unsupported"

execute_mysql(on, session) ==
    IF on.handle = "mysql" /\ \A v \in session : v.key # "dotted"
    THEN "rows" ELSE "unsupported"

execute_sqlite(on, call) ==
    IF on.handle # "sqlite" THEN "unsupported"
    ELSE IF call THEN "refused" ELSE "rows"

execute(on, session, call) ==
    CASE build_registry[doc.driver] = "postgres" -> execute_postgres(on)
      [] build_registry[doc.driver] = "mysql" -> execute_mysql(on, session)
      [] build_registry[doc.driver] = "sqlite" -> execute_sqlite(on, call)

(* Only MySQL overrides the default, which refuses.                         *)
execute_multi_result(on, session) ==
    IF build_registry[doc.driver] = "mysql"
    THEN execute_mysql(on, session) ELSE "unsupported"

Dispatch(on, session) ==
    IF doc.row_mode = "result_sets" THEN execute_multi_result(on, session)
    ELSE execute(on, session, doc.body = "procedure")

(* Postgres and MySQL set the session variables before the statement; the   *)
(* SQLite driver ignores them.                                              *)
Applied(session) == IF build_registry[doc.driver] = "sqlite" THEN {} ELSE session

Answered(how, by, hinted, session) ==
    /\ pc' = "answered"
    /\ answer' = how
    /\ ran' = [by |-> by, hinted |-> hinted, session |-> session]
    /\ UNCHANGED <<doc, edited, pool>>

(* The ordinary path of execute_inner_impl: pool, arguments, cache, driver. *)
execute_inner_impl(payload, evaluates, token, hint, hit) ==
    LET args == {InjectHint(a, hint) : a \in UNION {apply_stream_cursor(a, token) :
                    a \in evaluate_with_client(payload, evaluates)}}
        values == UNION {collect_bound_params(a, param_order) : a \in args}
        cached == hit /\ \E c \in doc.cache : c.enabled
    IN  /\ pc = "registered" /\ doc.await = {}
        /\ used' = resolve_pool_for_call
        /\ IF values = {}
           THEN Answered("invalid", "call", hint, {}) /\ UNCHANGED <<submitted, bound>>
           ELSE /\ bound' \in values
                /\ IF cached
                   THEN Answered("hit", "call", hint, {}) /\ UNCHANGED submitted
                   ELSE /\ \E on \in used' : Answered(Dispatch(on, session_vars_ref),
                                                      "call", hint, Applied(session_vars_ref))
                        /\ submitted' = submitted \cup From("binding",
                               IF doc.body = "procedure" THEN {} ELSE {doc.text})

(* What an await, a listing and a completion have in common: the profile's  *)
(* pool and session variables, as the document has them.                    *)
RunStatic(by, texts) ==
    /\ \E on \in pool : Answered(execute(on, doc.session_vars, FALSE),
                                 by, FALSE, Applied(doc.session_vars))
    /\ submitted' = submitted \cup From(IF by = "completion" THEN by ELSE "binding", texts)

RefuseStatic(by) == Answered("invalid", by, FALSE, {}) /\ UNCHANGED submitted

(* An await block replaces the query: the trigger once, then the check.     *)
(* Its statements take no parameters here.                                  *)
execute_await_loop(payload, evaluates) ==
    /\ pc = "registered" /\ doc.await # {}
    /\ used' = pool
    /\ IF evaluate_with_client(payload, evaluates) = {}
       THEN RefuseStatic("await")
       ELSE RunStatic("await", UNION {a.trigger \cup {a.check} : a \in doc.await})
    /\ UNCHANGED bound

(* The listing of resources binds its two placeholders; a text with another *)
(* was refused by register_profile.                                         *)
run_list_query ==
    /\ pc = "registered"
    /\ \E l \in doc.list_query :
           IF l.refs \subseteq {"cursor", "page_size"}
           THEN RunStatic("list", {l.sql})
           ELSE Answered("unsupported", "list", FALSE, {}) /\ UNCHANGED submitted
    /\ used' = pool
    /\ UNCHANGED bound

(* The query of a completion comes with the call.  It has to mention        *)
(* :prefix, and :ctx_ placeholders need an entry of the context.            *)
complete_template_variable(text, refs, context) ==
    /\ pc = "registered"
    /\ used' = pool
    /\ IF "prefix" \in refs /\ refs \subseteq {"prefix"} \cup context
       THEN RunStatic("completion", {text}) ELSE RefuseStatic("completion")
    /\ UNCHANGED bound

(* A transaction starts with SET TRANSACTION on Postgres, which accepts it  *)
(* as the first statement, and on MySQL, which accepts it only outside of a *)
(* transaction.  SQLite is serializable and nothing is set.                 *)
begin_transaction(on) ==
    CASE on.handle = "postgres" -> "rows"
      [] on.handle = "mysql" -> IF doc.isolation_level = {} THEN "rows" ELSE "refused"
      [] on.handle = "sqlite" ->
            IF doc.isolation_level \subseteq {"serializable"} THEN "rows" ELSE "level lost"

(* A sql_tx group: its steps' texts come with the call, and run without     *)
(* session variables.  The course of the group is in Transactions.          *)
execute_transaction(text) ==
    /\ pc = "registered"
    /\ used' = pool
    /\ \E on \in pool :
           /\ Answered(begin_transaction(on), "group", FALSE, {})
           /\ submitted' = IF begin_transaction(on) = "rows"
                           THEN submitted \cup From("group", {text}) ELSE submitted
    /\ UNCHANGED bound

Next ==
    \/ \E f \in DOMAIN Alternatives : Edit(f)
    \/ Refuse
    \/ Register
    \/ watch
    \/ \E p \in Payloads, t \in {"absent", "verified", "rejected"}, e, h, hit \in BOOLEAN :
           execute_inner_impl(p, e, t, h, hit)
    \/ \E p \in Payloads, e \in BOOLEAN : execute_await_loop(p, e)
    \/ run_list_query
    \/ \E t \in {Select, Stacked}, refs \in {{}, {"prefix"}, {"prefix", "ctx_id"}},
          context \in {{}, {"ctx_id"}} : complete_template_variable(t, refs, context)
    \/ \E t \in {Select, Stacked} : execute_transaction(t)

Spec == Init /\ [][Next]_vars

----------------------------------------------------------------------------
(* Properties.                                                              *)

(* What validate lets through and the database then refuses: a procedure on *)
(* SQLite, and an isolation level for the groups of MySQL.                  *)
Overlooked ==
    \/ doc.driver = "sqlite" /\ doc.body = "procedure" /\ ran.by = "call"
    \/ doc.driver \in {"mysql", "mariadb"} /\ doc.isolation_level # {} /\ ran.by = "group"

(* The operations that take the profile's pool and variables unresolved.    *)
Static == {"await", "list", "completion"}

(* Whatever an accepted document declares, its operations do, but for what  *)
(* is named here: register_profile's `expect` never fires; nothing reaches  *)
(* a driver method that only refuses, a foreign pool handle or an unbound   *)
(* placeholder, and the database refuses no more than the Overlooked; a     *)
(* statement runs with all the session variables, on a pool with the        *)
(* credentials, in every call, and in an await, a listing or a completion   *)
(* when there is no token to resolve.                                       *)
DeclaredIsDone ==
    /\ pc # "panicked"
    /\ answer \in {"none", "rows", "hit", "invalid"} \/ (answer = "refused" /\ Overlooked)
    /\ answer = "rows" /\ (ran.by = "call" \/ (ran.by \in Static /\ ~config_has_cred_refs))
         => ran.session = Resolved /\ \A on \in used : on.url # "cred"

(* Every text of a binding that reaches the database passed the one-        *)
(* statement and the privileged-DDL gates, whichever block of the document  *)
(* or file it came from, and so did the text a watch takes from its         *)
(* document.  The steps of a group and the query of a completion come with  *)
(* the call and pass no gate, nor does the file of a watch.                 *)
SubmittedWasGated ==
    \A s \in submitted :
        \/ Gated(s.text)
        \/ s.from \in {"group", "completion"}
        \/ s.from = "watch" /\ doc.body = "sql_file"

(* The keyset of a stream is the server's, a derived parameter is the       *)
(* operator's and, when the gateway sent its hint, the idempotency key is   *)
(* the gateway's, whatever the caller sent under the same name.             *)
ManagedValuesWin ==
    \A n \in DOMAIN bound :
        /\ (\E s \in doc.stream : n \in placeholder_names(s)) => bound[n] = "keyset"
        /\ (n \in doc.param_exprs /\ ~Managed(n)) => bound[n] = "operator"
        /\ (n = "idempotency_key" /\ ran.hinted) => bound[n] = "gateway"

(* README.md on session_vars: a policy keyed on a session variable sees it  *)
(* on every call, so every statement that runs has the document's variables *)
(* with their values.                                                       *)
VariablesApplied == answer = "rows" => ran.session = Resolved

(* config.rs on what a driver cannot do: rejected outright, rather than     *)
(* silently dropped or refused call by call.                                *)
AcceptedIsDone == answer \in {"none", "rows", "hit", "invalid"}

(* watch.rs on build_prepared_stmt: it mirrors the binding's prepare path,  *)
(* where the text of a file is gated.                                       *)
WatchMirrorsBinding == \A s \in submitted : s.from = "watch" => Gated(s.text)

(* lib.rs on the idempotency hint: without one, a query that references the *)
(* key fails, so a bound key is the gateway's.                              *)
KeyIsTheGateways ==
    \A n \in DOMAIN bound : n = "idempotency_key" => bound[n] = "gateway"

(* auth/mod.rs on the auth block: exactly one credential surface, so a call *)
(* of a binding with an auth block logs in with the provider's token.       *)
AuthBlockLogsIn == (pc = "answered" /\ doc.auth # {}) => \A on \in used : on.rotator

(* config.rs on stream bindings: an SQL text that never mentions the keyset *)
(* placeholders is refused, from the document or from a file.               *)
StreamMentionsKeyset ==
    (pc = "registered" /\ doc.row_mode = "stream" /\ doc.body # "procedure")
        => \A s \in doc.stream : placeholder_names(s) \subseteq doc.refs \cup doc.quoted
============================================================================
