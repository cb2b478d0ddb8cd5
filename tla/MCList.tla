------------------------------- MODULE MCList -------------------------------
(***************************************************************************)
(* List and SList for TLC, one or the other from the beginning: they share *)
(* nothing.                                                                *)
(***************************************************************************)
EXTENDS List, SList

VARIABLE kind

Init == kind \in {"list", "slist"} /\ ListInit /\ SListInit

Next == \/ kind = "list" /\ ListNext /\ UNCHANGED <<kind, slistVars>>
        \/ kind = "slist" /\ SListNext /\ UNCHANGED <<kind, listVars>>

Spec == Init /\ [][Next]_<<kind, listVars, slistVars>>

=============================================================================
