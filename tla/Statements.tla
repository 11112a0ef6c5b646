----------------------------- MODULE Statements -----------------------------
(***************************************************************************)
(* The scan of a binding's SQL for a second statement,                     *)
(* reject_multi_statement (src/src/config.rs), byte by byte.               *)
(*                                                                         *)
(* The SQL is a sequence of byte classes: the two quotes, the colon, the   *)
(* semicolon, a blank, a letter of a name, and a byte beyond ASCII.        *)
(***************************************************************************)
EXTENDS Naturals, Sequences

CONSTANT MaxLen  \* bound: length of the SQL

Byte == {"single", "double", "colon", "semi", "blank", "letter", "high"}

VARIABLES
  sql,                  \* the operator's SQL
  scan,                 \* "statements", "refused", or the scan that comes after
  i,                    \* the position of the scan
  in_single, in_double,
  last_semi             \* the position of the semicolon found, or 0

ScanInit ==
  /\ sql \in UNION {[1..n -> Byte] : n \in 0..MaxLen}
  /\ scan = "statements"
  /\ i = 1
  /\ in_single = FALSE
  /\ in_double = FALSE
  /\ last_semi = 0

-----------------------------------------------------------------------------
At(s, c) == scan = s /\ i <= Len(sql) /\ sql[i] = c
InCode == ~in_single /\ ~in_double
Opens(c) == (c = "single" /\ ~in_double) \/ (c = "double" /\ ~in_single)

Toggle(c) ==
  /\ in_single' = IF c = "single" THEN ~in_single ELSE in_single
  /\ in_double' = IF c = "double" THEN ~in_double ELSE in_double

Quote ==
  /\ \E c \in {"single", "double"} : At("statements", c) /\ Opens(c) /\ Toggle(c)
  /\ i' = i + 1
  /\ UNCHANGED <<sql, scan, last_semi>>

\* The second semicolon ends it.
Semicolon ==
  /\ At("statements", "semi") /\ InCode
  /\ IF last_semi # 0 THEN scan' = "refused" /\ UNCHANGED last_semi
     ELSE last_semi' = i /\ UNCHANGED scan
  /\ i' = i + 1
  /\ UNCHANGED <<sql, in_single, in_double>>

Skip ==
  /\ scan = "statements" /\ i <= Len(sql)
  /\ ~Opens(sql[i])
  /\ sql[i] = "semi" => ~InCode
  /\ i' = i + 1
  /\ UNCHANGED <<sql, scan, in_single, in_double, last_semi>>

Blank(from) == \A p \in from..Len(sql) : sql[p] = "blank"

\* A bug to be caught: what follows the semicolon is not looked at.
EndOfStatementAny ==
  /\ scan = "statements" /\ i > Len(sql)
  /\ scan' = "placeholders"
  /\ i' = 1
  /\ in_single' = FALSE /\ in_double' = FALSE
  /\ UNCHANGED <<sql, last_semi>>

\* After the one semicolon only blanks may follow.
EndOfStatement ==
  /\ scan = "statements" /\ i > Len(sql)
  /\ scan' = IF last_semi = 0 \/ Blank(last_semi + 1) THEN "placeholders" ELSE "refused"
  /\ i' = 1
  /\ in_single' = FALSE /\ in_double' = FALSE
  /\ UNCHANGED <<sql, last_semi>>

reject_multi_statement == Quote \/ Semicolon \/ Skip \/ EndOfStatement

-----------------------------------------------------------------------------
(* Reference: the text without a scan                                       *)

\* The literal a byte leaves one in, from the one it is found in.
Literal(region, c) ==
  CASE region = "code" /\ c \in {"single", "double"} -> c
    [] region = c -> "code"
    [] OTHER -> region

\* The literal each position is in.
Region ==
  LET R[p \in 0..Len(sql)] == IF p = 0 THEN "code" ELSE Literal(R[p - 1], sql[p])
  IN  R

\* A text that passes reject_multi_statement is one statement: nothing but
\* blanks follows a semicolon outside literals.  One that is refused has a
\* semicolon there with something else behind it.
OneStatement ==
  LET second == \E p \in 1..Len(sql) :
                   sql[p] = "semi" /\ Region[p] = "code" /\ ~Blank(p + 1)
  IN  /\ scan \in {"placeholders", "done"} => ~second
      /\ scan = "refused" => second

=============================================================================
