----------------------------- MODULE MCJsonTree -----------------------------
(***************************************************************************)
(* JsonTree for TLC: a few items, which are alike, and the names "k" (1)   *)
(* and "K" (2).                                                            *)
(***************************************************************************)
EXTENDS JsonCompare, TLC

Alike  == Permutations(Items)
MCFold == 1 :> 1 @@ 2 :> 1

=============================================================================
