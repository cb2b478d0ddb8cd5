------------------------------ MODULE MCStartup ------------------------------
(***************************************************************************)
(* Instances of Startup for TLC.                                           *)
(***************************************************************************)
EXTENDS Startup

Seg(n, k)          == [name |-> n, size |-> k]
Obj(n, i, s)       == [valid |-> TRUE, name |-> n, id |-> i, shm |-> s]
Broken             == [valid |-> FALSE, name |-> "P", id |-> 0, shm |-> <<>>]

Names    == {"P", "Q", "S"}
ShmNames == {"x", "y", "z"}

(* A publisher with two segments and three subscribers, one with a segment *)
(* of its own; the same with the segments swapped and less of them; larger *)
(* ones; with an empty segment; a list that begins with a subscriber; a    *)
(* second object with id 0; an object that does not parse; nothing.        *)
Files ==
  {<<Obj("P", 0, <<Seg("x", 1), Seg("y", 2)>>), Obj("S", 10, <<Seg("x", 1)>>),
     Obj("Q", 11, <<>>), Obj("S", 12, <<>>)>>,
   <<Obj("P", 0, <<Seg("y", 1), Seg("x", 1)>>)>>,
   <<Obj("P", 0, <<Seg("x", 2), Seg("y", 2), Seg("z", 2)>>), Obj("Q", 5, <<>>)>>,
   <<Obj("P", 0, <<Seg("x", 0)>>)>>,
   <<Obj("S", 10, <<Seg("x", 1)>>), Obj("P", 0, <<>>)>>,
   <<Obj("P", 0, <<Seg("x", 1)>>), Obj("S", 10, <<>>), Obj("Q", 0, <<Seg("y", 1)>>), Obj("S", 11, <<>>)>>,
   <<Obj("P", 0, <<Seg("x", 1)>>), Obj("S", 10, <<>>), Broken, Obj("S", 11, <<>>)>>,
   <<>>}
=============================================================================
