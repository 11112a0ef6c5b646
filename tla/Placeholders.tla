---------------------------- MODULE Placeholders ----------------------------
(***************************************************************************)
(* The two scans of a binding's SQL: reject_multi_statement (Statements)   *)
(* and then rewrite_placeholders (src/src/params.rs), byte by byte.        *)
(*                                                                         *)
(* The rewriting turns a byte beyond ASCII into the two bytes of the       *)
(* character of that code.                                                 *)
(***************************************************************************)
EXTENDS Statements

VARIABLES
  numbered,  \* the driver is PostgreSQL, which numbers its placeholders
  out,       \* the SQL written so far: bytes and placeholders
  order      \* the names of the placeholders so far

vars == <<sql, numbered, scan, i, in_single, in_double, last_semi, out, order>>

Init ==
  /\ ScanInit
  /\ numbered \in BOOLEAN
  /\ out = << >>
  /\ order = << >>

-----------------------------------------------------------------------------
(* rewrite_placeholders: one action per arm of its match                    *)

Reads(c) == At("placeholders", c)

\* `out.push(c as char)`: the character whose code is the byte.
AsChar(c) == IF c = "high" THEN << <<"lead">>, <<"high">> >> ELSE << <<c>> >>

SingleQuote ==
  /\ Reads("single") /\ ~in_double
  /\ in_single' = ~in_single
  /\ out' = out \o AsChar("single")
  /\ i' = i + 1
  /\ UNCHANGED <<sql, numbered, scan, in_double, last_semi, order>>

\* A bug to be caught: quoted identifiers are not followed.
DoubleQuoteIgnored ==
  /\ Reads("double") /\ ~in_single
  /\ out' = out \o AsChar("double")
  /\ i' = i + 1
  /\ UNCHANGED <<sql, numbered, scan, in_single, in_double, last_semi, order>>

DoubleQuote ==
  /\ Reads("double") /\ ~in_single
  /\ in_double' = ~in_double
  /\ out' = out \o AsChar("double")
  /\ i' = i + 1
  /\ UNCHANGED <<sql, numbered, scan, in_single, last_semi, order>>

\* `::`, a cast.
Cast ==
  /\ Reads("colon") /\ InCode
  /\ i < Len(sql) /\ sql[i + 1] = "colon"
  /\ out' = out \o AsChar("colon") \o AsChar("colon")
  /\ i' = i + 2
  /\ UNCHANGED <<sql, numbered, scan, in_single, in_double, last_semi, order>>

LoneColon ==
  /\ Reads("colon") /\ InCode
  /\ i < Len(sql) => sql[i + 1] \notin {"colon", "letter"}
  /\ out' = out \o AsChar("colon")
  /\ i' = i + 1
  /\ UNCHANGED <<sql, numbered, scan, in_single, in_double, last_semi, order>>

\* A name is the longest run of letters from a position.
NameEnd(p) ==
  CHOOSE j \in p..Len(sql) + 1 :
    /\ \A k \in p..j - 1 : sql[k] = "letter"
    /\ j <= Len(sql) => sql[j] # "letter"

Name(p) == SubSeq(sql, p, NameEnd(p) - 1)

Placeholder(n) == IF numbered THEN <<"$", n>> ELSE <<"?">>

Named ==
  /\ Reads("colon") /\ InCode
  /\ i < Len(sql) /\ sql[i + 1] = "letter"
  /\ order' = Append(order, Name(i + 1))
  /\ out' = Append(out, Placeholder(Len(order')))
  /\ i' = NameEnd(i + 1)
  /\ UNCHANGED <<sql, numbered, scan, in_single, in_double, last_semi>>

Other ==
  /\ scan = "placeholders" /\ i <= Len(sql)
  /\ ~Opens(sql[i])
  /\ sql[i] = "colon" => ~InCode
  /\ out' = out \o AsChar(sql[i])
  /\ i' = i + 1
  /\ UNCHANGED <<sql, numbered, scan, in_single, in_double, last_semi, order>>

EndOfText ==
  /\ scan = "placeholders" /\ i > Len(sql)
  /\ scan' = "done"
  /\ UNCHANGED <<sql, numbered, i, in_single, in_double, last_semi, out, order>>

rewrite_placeholders ==
  SingleQuote \/ DoubleQuote \/ Cast \/ LoneColon \/ Named \/ Other \/ EndOfText

Next ==
  \/ reject_multi_statement /\ UNCHANGED <<numbered, out, order>>
  \/ rewrite_placeholders

Spec == Init /\ [][Next]_vars

-----------------------------------------------------------------------------
(* Reference: the text without a scan                                       *)

\* The colons right before a position.
ColonRun(p) ==
  {q \in 1..p - 1 : \A k \in q..p - 1 : sql[k] = "colon" /\ Region[k] = "code"}

\* A colon outside literals, left over when those before it are paired off
\* into casts, with a name behind it.
IsPlaceholder(p) ==
  /\ sql[p] = "colon" /\ Region[p - 1] = "code"
  /\ p < Len(sql) /\ sql[p + 1] = "letter"
  /\ \E n \in 0..Len(sql) : ColonRun(p) = (p - 2 * n)..(p - 1)

\* A letter of the name of a placeholder.
InName(p) ==
  \E s \in 1..p - 1 : IsPlaceholder(s) /\ \A k \in s + 1..p : sql[k] = "letter"

\* What a position adds to the text and the names of those before it.
Rewrite(r, p) ==
  CASE IsPlaceholder(p) -> [out |-> Append(r.out, Placeholder(Len(r.order) + 1)),
                            order |-> Append(r.order, Name(p + 1))]
    [] InName(p) -> r
    [] OTHER -> [out |-> r.out \o AsChar(sql[p]), order |-> r.order]

\* The rewritten text and the names up to each position.
Rewritten ==
  LET R[p \in 0..Len(sql)] == IF p = 0 THEN [out |-> << >>, order |-> << >>]
                              ELSE Rewrite(R[p - 1], p)
  IN  R

-----------------------------------------------------------------------------
(* Properties                                                               *)

\* rewrite_placeholders finds the placeholders outside string literals and
\* quoted identifiers, no cast among them, from left to right, numbers them
\* from 1, and changes nothing else, except that a byte beyond ASCII comes out
\* as the two bytes of the character of that code.
OnlyPlaceholdersRewritten ==
  scan = "done" => [out |-> out, order |-> order] = Rewritten[Len(sql)]

=============================================================================
