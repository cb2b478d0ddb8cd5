------------------------------- MODULE SList --------------------------------
(***************************************************************************)
(* The singly linked lists of list.h.  The head is itself the first node   *)
(* of its list and knows the last one; sorder says what the caller has put *)
(* into each list, which it splices at a node of the other.                *)
(***************************************************************************)
EXTENDS Integers, Sequences, SequencesExt

CONSTANTS SNodes, SHeads

Nil == "nil"

ASSUME SListAssumption == SNodes \cap SHeads = {} /\ Nil \notin SNodes \cup SHeads

VARIABLES
  snext,   \* [SNodes and SHeads -> SNodes and Nil]
  last,    \* [SHeads -> SNodes and SHeads]
  sorder   \* [SHeads -> the nodes of the list; a head out of use has none]

slistVars == <<snext, last, sorder>>

Chain(h) == <<h>> \o sorder[h]

Free == SNodes \ UNION {ToSet(sorder[h]) : h \in SHeads}

-----------------------------------------------------------------------------
SListInit ==
  /\ snext = [x \in SNodes \cup SHeads |-> Nil]
  /\ last = [h \in SHeads |-> h]
  /\ sorder = [h \in SHeads |-> <<>>]

(* The last node stays as it was. *)
MutAddAfter(node, p, h) ==
  /\ snext' = [[snext EXCEPT ![node] = snext[p]] EXCEPT ![p] = node]
  /\ UNCHANGED last

AddAfter(node, p, h) ==
  /\ snext' = [[snext EXCEPT ![node] = snext[p]] EXCEPT ![p] = node]
  /\ last' = IF snext[p] = Nil THEN [last EXCEPT ![h] = node] ELSE last

(* Behind the i-th of the chain; slist_add_head is i = 1. *)
slist_add_after(node, i, h) ==
  /\ node \in Free /\ i \in DOMAIN Chain(h)
  /\ AddAfter(node, Chain(h)[i], h)
  /\ sorder' = [sorder EXCEPT ![h] = InsertAt(@, i, node)]

slist_add_tail(node, h) ==
  /\ node \in Free
  /\ snext' = [[snext EXCEPT ![node] = Nil] EXCEPT ![last[h]] = node]
  /\ last' = [last EXCEPT ![h] = node]
  /\ sorder' = [sorder EXCEPT ![h] = Append(@, node)]

(* slist_del_head is i = 1. *)
slist_del_after(i, h) ==
  /\ i \in DOMAIN sorder[h]
  /\ LET p == Chain(h)[i]
     IN  /\ snext' = [snext EXCEPT ![p] = snext[snext[p]]]
         /\ last' = IF snext'[p] = Nil THEN [last EXCEPT ![h] = p] ELSE last
  /\ sorder' = [sorder EXCEPT ![h] = RemoveAt(@, i)]

(* The nodes of list behind the i-th of the other chain; init empties the  *)
(* old list, which is otherwise left to the caller to do.                  *)
slist_splice_init(list, i, h) ==
  /\ list # h /\ sorder[list] # <<>> /\ i \in DOMAIN Chain(h)
  /\ LET at == Chain(h)[i]
     IN  /\ snext' = [snext EXCEPT ![last[list]] = snext[at], ![at] = snext[list], ![list] = Nil]
         /\ last' = [last EXCEPT ![h] = IF snext[at] = Nil THEN last[list] ELSE @, ![list] = list]
  /\ sorder' = [sorder EXCEPT ![h] = SubSeq(@, 1, i - 1) \o sorder[list] \o SubSeq(@, i, Len(@)), ![list] = <<>>]

SListNext ==
  \/ \E x \in SNodes, h \in SHeads : slist_add_tail(x, h) \/ \E i \in DOMAIN Chain(h) : slist_add_after(x, i, h)
  \/ \E h \in SHeads : \E i \in DOMAIN sorder[h] : slist_del_after(i, h)
  \/ \E l, h \in SHeads : \E i \in DOMAIN Chain(h) : slist_splice_init(l, i, h)

SListSpec == SListInit /\ [][SListNext]_slistVars

-----------------------------------------------------------------------------
(* slist_for_each meets the nodes the caller put into the list, in their   *)
(* order, and last is the node that slist_add_tail and a splice append to. *)
SListIsOrder ==
  \A h \in SHeads :
    LET c == Chain(h)
    IN  /\ \A i \in DOMAIN c : snext[c[i]] = IF i < Len(c) THEN c[i + 1] ELSE Nil
        /\ last[h] = c[Len(c)]

=============================================================================
