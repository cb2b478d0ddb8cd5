-------------------------------- MODULE List --------------------------------
(***************************************************************************)
(* The doubly linked lists of list.h: rings of nodes with a head in each.  *)
(* owner and order are not in the code: they say what the caller has put   *)
(* into the lists.  The caller adds nodes that are in no list, deletes     *)
(* nodes that are, and initialises a head again after list_splice.         *)
(***************************************************************************)
EXTENDS Integers, Sequences, SequencesExt

CONSTANTS Nodes, Heads

None == "none"

ASSUME ListAssumption == Nodes \cap Heads = {} /\ None \notin Heads

All == Nodes \cup Heads

VARIABLES
  next, prev,  \* [All -> All]
  owner,       \* [All -> the head of the list it is in, or None]
  order        \* [Heads -> the nodes of the list in their order]

listVars == <<next, prev, owner, order>>

linked == {x \in All : owner[x] # None}

Ring(h) == <<h>> \o order[h]

-----------------------------------------------------------------------------
(* The pointers after a call, as pairs of functions. *)

Links == [next |-> next, prev |-> prev]

Become(l) == next' = l.next /\ prev' = l.prev

INIT_LIST_HEAD(l, h) == [next |-> [l.next EXCEPT ![h] = h], prev |-> [l.prev EXCEPT ![h] = h]]

(* The next node keeps its prev. *)
MutListAdd(l, node, p, n) ==
  [next |-> [l.next EXCEPT ![node] = n, ![p] = node], prev |-> [l.prev EXCEPT ![node] = p]]

list_insert(l, node, p, n) ==
  [next |-> [[l.next EXCEPT ![node] = n] EXCEPT ![p] = node],
   prev |-> [[l.prev EXCEPT ![n] = node] EXCEPT ![node] = p]]

list_unlink(l, p, n) == [next |-> [l.next EXCEPT ![p] = n], prev |-> [l.prev EXCEPT ![n] = p]]

(* The last node still leads back to its old head. *)
MutSplice(l, list, head) ==
  LET first == l.next[list]  last == l.prev[list]  at == l.next[head]
  IN  [next |-> [l.next EXCEPT ![head] = first],
       prev |-> [[l.prev EXCEPT ![first] = head] EXCEPT ![at] = last]]

list_join(l, list, head) ==
  LET first == l.next[list]  last == l.prev[list]  at == l.next[head]
  IN  [next |-> [[l.next EXCEPT ![head] = first] EXCEPT ![last] = at],
       prev |-> [[l.prev EXCEPT ![first] = head] EXCEPT ![at] = last]]

list_empty(list) == next[list] = list

-----------------------------------------------------------------------------
(* The calls. *)

Without(s, x) == RemoveAt(s, CHOOSE i \in DOMAIN s : s[i] = x)

(* The order of the lists when node has left its own. *)
OrderWithout(node) == [order EXCEPT ![owner[node]] = Without(@, node)]

ListInit ==
  /\ next = [x \in All |-> x] /\ prev = [x \in All |-> x]
  /\ owner = [x \in All |-> IF x \in Heads THEN x ELSE None]
  /\ order = [h \in Heads |-> <<>>]

list_add(node, head) ==
  /\ node \in Nodes \ linked /\ head \in Heads \cap linked
  /\ Become(list_insert(Links, node, head, next[head]))
  /\ owner' = [owner EXCEPT ![node] = head]
  /\ order' = [order EXCEPT ![head] = <<node>> \o @]

list_add_tail(node, head) ==
  /\ node \in Nodes \ linked /\ head \in Heads \cap linked
  /\ Become(list_insert(Links, node, prev[head], head))
  /\ owner' = [owner EXCEPT ![node] = head]
  /\ order' = [order EXCEPT ![head] = Append(@, node)]

(* The node keeps its own pointers. *)
list_del(node) ==
  /\ node \in Nodes \cap linked
  /\ Become(list_unlink(Links, prev[node], next[node]))
  /\ owner' = [owner EXCEPT ![node] = None]
  /\ order' = OrderWithout(node)

list_move(node, head) ==
  /\ node \in Nodes \cap linked /\ head \in Heads \cap linked
  /\ LET l == list_unlink(Links, prev[node], next[node])
     IN  Become(list_insert(l, node, head, l.next[head]))
  /\ order' = [OrderWithout(node) EXCEPT ![head] = <<node>> \o @]
  /\ owner' = [owner EXCEPT ![node] = head]

list_move_tail(node, head) ==
  /\ node \in Nodes \cap linked /\ head \in Heads \cap linked
  /\ LET l == list_unlink(Links, prev[node], next[node])
     IN  Become(list_insert(l, node, l.prev[head], head))
  /\ order' = [OrderWithout(node) EXCEPT ![head] = Append(@, node)]
  /\ owner' = [owner EXCEPT ![node] = head]

(* The old head is out of use when its nodes are taken. *)
list_splice(list, head) ==
  /\ {list, head} \subseteq Heads \cap linked /\ list # head
  /\ IF list_empty(list) THEN UNCHANGED listVars
     ELSE /\ Become(list_join(Links, list, head))
          /\ owner' = [x \in All |-> IF x = list THEN None ELSE IF owner[x] = list THEN head ELSE owner[x]]
          /\ order' = [order EXCEPT ![head] = order[list] \o @, ![list] = <<>>]

list_splice_init(list, head) ==
  /\ {list, head} \subseteq Heads \cap linked /\ list # head
  /\ IF list_empty(list) THEN UNCHANGED listVars
     ELSE /\ Become(INIT_LIST_HEAD(list_join(Links, list, head), list))
          /\ owner' = [x \in All |-> IF x # list /\ owner[x] = list THEN head ELSE owner[x]]
          /\ order' = [order EXCEPT ![head] = order[list] \o @, ![list] = <<>>]

Reinit(h) ==
  /\ h \in Heads \ linked
  /\ Become(INIT_LIST_HEAD(Links, h))
  /\ owner' = [owner EXCEPT ![h] = h]
  /\ UNCHANGED order

ListNext ==
  \/ \E x \in Nodes, h \in Heads :
       list_add(x, h) \/ list_add_tail(x, h) \/ list_move(x, h) \/ list_move_tail(x, h)
  \/ \E x \in Nodes : list_del(x)
  \/ \E l, h \in Heads : list_splice(l, h) \/ list_splice_init(l, h)
  \/ \E h \in Heads : Reinit(h)

ListSpec == ListInit /\ [][ListNext]_listVars

-----------------------------------------------------------------------------
(* Properties. *)

(* Every list is closed and its pointers are inverse: next and prev lead   *)
(* from a node of a list to a node of the same list, and back.             *)
Rings ==
  \A x \in linked : /\ next[x] \in linked /\ owner[next[x]] = owner[x] /\ prev[next[x]] = x
                    /\ prev[x] \in linked /\ owner[prev[x]] = owner[x] /\ next[prev[x]] = x

(* list_for_each meets exactly the nodes the caller put into the list, in  *)
(* their order, and list_for_each_prev meets them the other way round.     *)
WalkIsOrder ==
  \A h \in Heads \cap linked :
    LET r == Ring(h)
    IN  \A i \in DOMAIN r : next[r[i]] = r[(i % Len(r)) + 1] /\ prev[r[(i % Len(r)) + 1]] = r[i]

=============================================================================
