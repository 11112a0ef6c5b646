--------------------------- MODULE MCChangesWatch ---------------------------
(* Instances of ChangesWatch: a page of rows makes no event, or its second   *)
(* row has no key.                                                           *)
EXTENDS ChangesWatch

OddRows == {<<"unfit", "unfit", "plain">>, <<"plain", "keyless", "plain">>}
=============================================================================
