----------------------------- MODULE MCFrameIO -----------------------------
(***************************************************************************)
(* An instance of FrameIO for TLC.                                         *)
(***************************************************************************)
EXTENDS FrameIO

(* Three ids, which are padded to four, and data; and a length that wraps  *)
(* round to less than the ids take.                                        *)
Cmds == {[br_num |-> 3, datalen |-> 1], [br_num |-> 1, datalen |-> 3]}
=============================================================================
