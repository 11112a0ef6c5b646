------------------------------- MODULE MCPgCdc -------------------------------
(* Model-checking instances of PgCdc; the .cfg files give the constants.    *)
EXTENDS PgCdc

=============================================================================
