------------------------------ MODULE MCPages ------------------------------
(* Instances of Pages: a key of two columns, or of three of which the SELECT *)
(* does not return the second.                                               *)
EXTENDS Pages

KeyColumns == {<<"grp", "id">>, <<"grp", "at", "id">>}
SelectList == {"grp", "id"}

\* One stream, or one listing.  The table of the binding that the client only
\* calls by mistake is full to begin with.
PagesSpec ==
  /\ \/ /\ Init /\ ListingOver
        /\ \A b \in Binding : b = home \/ rows[b] = Row
     \/ StreamOver /\ Listing!Init
  /\ [][\/ Next /\ UNCHANGED lvars
        \/ Listing!Next /\ UNCHANGED vars]_<<vars, lvars>>
  /\ Fairness
============================================================================
