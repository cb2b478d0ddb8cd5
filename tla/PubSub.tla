------------------------------- MODULE PubSub -------------------------------
(***************************************************************************)
(* What the broker promises its clients, without sockets, frames or nodes: *)
(* broadcasts happen one after the other, and while one is the latest, any *)
(* process may be sent it, at most as often as the broadcast names it.     *)
(* Nothing is promised about which processes are reached.  Answers to      *)
(* queries come in between.                                                *)
(***************************************************************************)
EXTENDS Integers, Sequences, FiniteSets

CONSTANTS
  Process,   \* the clients
  Names,     \* [Process -> the ids the process answers to]
  Lists,     \* the lists of ids a broadcast may carry
  MaxNum     \* broadcasts of one process are numbered up to this

VARIABLES
  history,   \* the broadcasts so far: [src, num, ids]
  inbox      \* [Process -> what it was sent: positions in history, or 0]

pubsubVars == <<history, inbox>>

PubSubInit == history = <<>> /\ inbox = [p \in Process |-> <<>>]

(* A process broadcasts; its own broadcasts come in the order it numbered  *)
(* them, some of them never.                                               *)
Publish ==
  /\ UNCHANGED inbox
  /\ Len(history') = Len(history) + 1
  /\ \E p \in Process, n \in 1..MaxNum, ids \in Lists :
       /\ history' = Append(history, [src |-> p, num |-> n, ids |-> ids])
       /\ \A i \in DOMAIN history : history[i].src = p => history[i].num < n

Named(p, ids) == {k \in DOMAIN ids : ids[k] \in Names[p]}

Received(p, r) == {i \in DOMAIN inbox[p] : inbox[p][i] = r}

(* The latest broadcast is sent to a process once more. *)
Hand ==
  /\ history # <<>> /\ UNCHANGED history
  /\ inbox' # inbox
  /\ \E p \in Process :
       LET r == Len(history)
       IN  /\ inbox' = [inbox EXCEPT ![p] = Append(@, r)]
           /\ Cardinality(Received(p, r)) < Cardinality(Named(p, history[r].ids))

(* A process is sent the answer to a query of its own. *)
Answer ==
  /\ UNCHANGED history
  /\ \E p \in Process : inbox' = [inbox EXCEPT ![p] = Append(@, 0)]

PubSubNext == Publish \/ Hand \/ Answer

PubSubSpec == PubSubInit /\ [][PubSubNext]_pubsubVars
=============================================================================
