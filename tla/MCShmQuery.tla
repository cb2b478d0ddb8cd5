----------------------------- MODULE MCShmQuery -----------------------------
(***************************************************************************)
(* Instances of ShmQuery for TLC.                                          *)
(***************************************************************************)
EXTENDS ShmQuery

(* No segments, a table that fits wbuf, one with room to spare in the      *)
(* caller's buffer, one that fills it, and one that does not fit.          *)
Nums == {0, 1, 2, 3, 4}

(* Broadcasts without data, of one entry, and longer than wbuf and most    *)
(* tables.                                                                 *)
Lens == {0, 1, 3}
=============================================================================
