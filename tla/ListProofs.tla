----------------------------- MODULE ListProofs -----------------------------
(***************************************************************************)
(* The lists of list.h stay rings, and their walks meet what the caller    *)
(* put into them in its order, for any number of nodes and lists.          *)
(*                                                                         *)
(* Rings alone is not inductive: list_splice joins two rings, which is     *)
(* right only if they are not the same one.  owner tells them apart, with  *)
(* each head in use in its own list.  The lemmas are about the pointers    *)
(* before and after one pointer operation, so that list_move, which is     *)
(* two of them, goes through a state between.  The order is followed in    *)
(* the same way: InOrder ties next and prev to the places of the caller's  *)
(* sequence, from which a node is Removed, where one is Inserted, or to    *)
(* which another sequence is Joined.                                       *)
(***************************************************************************)
EXTENDS List, SequenceTheorems, TLAPS

In(o) == {x \in All : o[x] # None}

LinksTyped(l, o) ==
  /\ l = [next |-> l.next, prev |-> l.prev]
  /\ l.next \in [All -> All] /\ l.prev \in [All -> All]
  /\ o \in [All -> Heads \cup {None}]

OwnHeads(o) == \A h \in Heads : o[h] \in {h, None}

(* Nodes belong to heads in use. *)
OwnersInUse(o) == \A x \in In(o) : o[x] \in In(o)

Closed(l, o) ==
  \A x \in In(o) : /\ l.next[x] \in In(o) /\ o[l.next[x]] = o[x] /\ l.prev[l.next[x]] = x
                   /\ l.prev[x] \in In(o) /\ o[l.prev[x]] = o[x] /\ l.next[l.prev[x]] = x

Sound(l, o) == LinksTyped(l, o) /\ OwnHeads(o) /\ OwnersInUse(o) /\ Closed(l, o)

ListInv == Sound(Links, owner)

-----------------------------------------------------------------------------
(* A node put between two neighbours of one list: the ring is closed again. *)
LEMMA InsertKeeps ==
  ASSUME NEW l, NEW o, Sound(l, o), NEW node \in Nodes, o[node] = None, NEW head \in Heads,
         NEW p \in In(o), o[p] = head
  PROVE  Sound(list_insert(l, node, p, l.next[p]), [o EXCEPT ![node] = head])
<1> USE ListAssumption DEF LinksTyped, OwnHeads, OwnersInUse, Closed, All, In
<1> DEFINE m == list_insert(l, node, p, l.next[p])
           u == [o EXCEPT ![node] = head]
<1>1. /\ m = [next |-> m.next, prev |-> m.prev]
      /\ m.next = [[l.next EXCEPT ![node] = l.next[p]] EXCEPT ![p] = node]
      /\ m.prev = [[l.prev EXCEPT ![l.next[p]] = node] EXCEPT ![node] = p]
  BY DEF list_insert
<1> HIDE DEF m
<1>2. LinksTyped(m, u)
  BY <1>1 DEF Sound
<1>3. OwnHeads(u) /\ OwnersInUse(u)
  BY <1>1, <1>2 DEF Sound
<1>4. Closed(m, u)
  BY <1>1, <1>2 DEF Sound
<1>5. Sound(m, u)
  BY <1>2, <1>3, <1>4 DEF Sound
<1>6. QED
  BY <1>5 DEF m

(* A node taken out: its neighbours are each other's. *)
LEMMA UnlinkKeeps ==
  ASSUME NEW l, NEW o, Sound(l, o), NEW node \in Nodes, o[node] # None
  PROVE  Sound(list_unlink(l, l.prev[node], l.next[node]), [o EXCEPT ![node] = None])
<1> USE ListAssumption DEF LinksTyped, OwnHeads, OwnersInUse, Closed, All, In
<1> DEFINE m == list_unlink(l, l.prev[node], l.next[node])
           u == [o EXCEPT ![node] = None]
<1>1. /\ m = [next |-> m.next, prev |-> m.prev]
      /\ m.next = [l.next EXCEPT ![l.prev[node]] = l.next[node]]
      /\ m.prev = [l.prev EXCEPT ![l.next[node]] = l.prev[node]]
  BY DEF list_unlink
<1> HIDE DEF m
<1>2. LinksTyped(m, u)
  BY <1>1 DEF Sound
<1>3. OwnHeads(u) /\ OwnersInUse(u)
  BY <1>1, <1>2 DEF Sound
<1>4. Closed(m, u)
  BY <1>1, <1>2 DEF Sound
<1>5. Sound(m, u)
  BY <1>2, <1>3, <1>4 DEF Sound
<1>6. QED
  BY <1>5 DEF m

(* The nodes of one list put behind the head of another: the head they     *)
(* leave is out of use.                                                    *)
LEMMA JoinKeeps ==
  ASSUME NEW l, NEW o, Sound(l, o), NEW list \in Heads, NEW head \in Heads, list # head,
         o[list] # None, o[head] # None, l.next[list] # list
  PROVE  Sound(list_join(l, list, head),
               [x \in All |-> IF x = list THEN None ELSE IF o[x] = list THEN head ELSE o[x]])
<1> USE ListAssumption DEF LinksTyped, OwnHeads, OwnersInUse, Closed, All, In
<1> DEFINE first == l.next[list]
           last == l.prev[list]
           at == l.next[head]
           m == list_join(l, list, head)
           u == [x \in All |-> IF x = list THEN None ELSE IF o[x] = list THEN head ELSE o[x]]
<1>1. /\ m = [next |-> m.next, prev |-> m.prev]
      /\ m.next = [[l.next EXCEPT ![head] = first] EXCEPT ![last] = at]
      /\ m.prev = [[l.prev EXCEPT ![first] = head] EXCEPT ![at] = last]
  BY DEF list_join
<1> HIDE DEF m
<1>2. LinksTyped(m, u)
  BY <1>1 DEF Sound
<1>3. OwnHeads(u) /\ OwnersInUse(u)
  BY <1>2 DEF Sound
<1>4. Closed(m, u)
  BY <1>1, <1>2 DEF Sound
<1>5. Sound(m, u)
  BY <1>2, <1>3, <1>4 DEF Sound
<1>6. QED
  BY <1>5 DEF m

(* A head out of use initialised: a list of its own. *)
LEMMA InitKeeps ==
  ASSUME NEW l, NEW o, Sound(l, o), NEW h \in Heads, o[h] = None
  PROVE  Sound(INIT_LIST_HEAD(l, h), [o EXCEPT ![h] = h])
<1> USE ListAssumption DEF LinksTyped, OwnHeads, OwnersInUse, Closed, All, In
<1> DEFINE m == INIT_LIST_HEAD(l, h)
           u == [o EXCEPT ![h] = h]
<1>1. /\ m = [next |-> m.next, prev |-> m.prev]
      /\ m.next = [l.next EXCEPT ![h] = h]
      /\ m.prev = [l.prev EXCEPT ![h] = h]
  BY DEF INIT_LIST_HEAD
<1> HIDE DEF m
<1>2. LinksTyped(m, u)
  BY <1>1 DEF Sound
<1>3. OwnHeads(u) /\ OwnersInUse(u)
  BY <1>2 DEF Sound
<1>4. Closed(m, u)
  BY <1>1, <1>2 DEF Sound
<1>5. Sound(m, u)
  BY <1>2, <1>3, <1>4 DEF Sound
<1>6. QED
  BY <1>5 DEF m

-----------------------------------------------------------------------------
LEMMA ListInitSound == ListInit => ListInv
BY ListAssumption DEF ListInit, ListInv, Sound, LinksTyped, OwnHeads, OwnersInUse, Closed, In, All, Links

LEMMA ListStep == ListInv /\ [ListNext]_listVars => ListInv'
<1> SUFFICES ASSUME ListInv, [ListNext]_listVars PROVE ListInv'
  OBVIOUS
<1> USE ListAssumption DEF ListInv
<1>0. /\ Links.next = next /\ Links.prev = prev
      /\ \A h \in Heads : owner[h] \in {h, None}
      /\ owner \in [All -> Heads \cup {None}]
      /\ \A x \in linked : next[x] \in linked /\ prev[x] \in linked /\ next[prev[x]] = x
                           /\ owner[prev[x]] = owner[x]
      /\ linked = In(owner)
  BY DEF Sound, LinksTyped, OwnHeads, Closed, Links, linked, In
<1>a. \A m : m = [next |-> m.next, prev |-> m.prev] /\ Become(m) => Links' = m
  BY DEF Become, Links
<1>1. ASSUME NEW x \in Nodes, NEW h \in Heads, list_add(x, h) PROVE ListInv'
  <2>1. Sound(list_insert(Links, x, h, next[h]), [owner EXCEPT ![x] = h])
    BY <1>0, <1>1, InsertKeeps DEF list_add, linked, In, All
  <2>2. QED
    BY <1>1, <1>a, <2>1 DEF list_add, list_insert
<1>2. ASSUME NEW x \in Nodes, NEW h \in Heads, list_add_tail(x, h) PROVE ListInv'
  <2>1. prev[h] \in linked /\ owner[prev[h]] = h /\ next[prev[h]] = h
    BY <1>0, <1>2 DEF list_add_tail, linked
  <2>2. Sound(list_insert(Links, x, prev[h], next[prev[h]]), [owner EXCEPT ![x] = h])
    BY <1>0, <1>2, <2>1, InsertKeeps DEF list_add_tail, linked, In, All
  <2>3. QED
    BY <1>2, <1>a, <2>1, <2>2 DEF list_add_tail, list_insert
<1>3. ASSUME NEW x \in Nodes, list_del(x) PROVE ListInv'
  <2>1. Sound(list_unlink(Links, prev[x], next[x]), [owner EXCEPT ![x] = None])
    BY <1>0, <1>3, UnlinkKeeps DEF list_del, linked, All
  <2>2. QED
    BY <1>3, <1>a, <2>1 DEF list_del, list_unlink
<1>4. ASSUME NEW x \in Nodes, NEW h \in Heads, x \in linked, h \in linked
      PROVE  LET l == list_unlink(Links, prev[x], next[x])
                 o == [owner EXCEPT ![x] = None]
             IN  /\ Sound(l, o) /\ o[x] = None /\ h \in In(o) /\ o[h] = h
                 /\ l.prev[h] \in In(o) /\ o[l.prev[h]] = h /\ l.next[l.prev[h]] = h
                 /\ [o EXCEPT ![x] = h] = [owner EXCEPT ![x] = h]
  <2> DEFINE l == list_unlink(Links, prev[x], next[x])
             o == [owner EXCEPT ![x] = None]
  <2>1. Sound(l, o)
    BY <1>0, <1>4, UnlinkKeeps DEF linked, All
  <2>2. o[x] = None /\ h \in In(o) /\ o[h] = h /\ [o EXCEPT ![x] = h] = [owner EXCEPT ![x] = h]
    BY <1>0, <1>4 DEF In, All, linked
  <2> HIDE DEF l, o
  <2>3. l.prev[h] \in In(o) /\ o[l.prev[h]] = h /\ l.next[l.prev[h]] = h
    BY <2>1, <2>2 DEF Sound, Closed
  <2>4. QED
    BY <2>1, <2>2, <2>3 DEF l, o
<1>5. ASSUME NEW x \in Nodes, NEW h \in Heads, list_move(x, h) PROVE ListInv'
  <2> DEFINE l == list_unlink(Links, prev[x], next[x])
             o == [owner EXCEPT ![x] = None]
  <2>0. x \in linked /\ h \in linked
    BY <1>5 DEF list_move
  <2>1. Sound(l, o) /\ o[x] = None /\ h \in In(o) /\ o[h] = h /\ [o EXCEPT ![x] = h] = [owner EXCEPT ![x] = h]
    BY <2>0, <1>4
  <2>2. Become(list_insert(l, x, h, l.next[h])) /\ owner' = [owner EXCEPT ![x] = h]
    BY <1>5 DEF list_move
  <2> HIDE DEF l, o
  <2>3. Sound(list_insert(l, x, h, l.next[h]), [o EXCEPT ![x] = h])
    BY <2>1, InsertKeeps
  <2>4. QED
    BY <2>1, <2>2, <2>3, <1>a DEF list_insert
<1>6. ASSUME NEW x \in Nodes, NEW h \in Heads, list_move_tail(x, h) PROVE ListInv'
  <2> DEFINE l == list_unlink(Links, prev[x], next[x])
             o == [owner EXCEPT ![x] = None]
  <2>0. x \in linked /\ h \in linked
    BY <1>6 DEF list_move_tail
  <2>1. /\ Sound(l, o) /\ o[x] = None /\ [o EXCEPT ![x] = h] = [owner EXCEPT ![x] = h]
        /\ l.prev[h] \in In(o) /\ o[l.prev[h]] = h /\ l.next[l.prev[h]] = h
    BY <2>0, <1>4
  <2>2. Become(list_insert(l, x, l.prev[h], h)) /\ owner' = [owner EXCEPT ![x] = h]
    BY <1>6 DEF list_move_tail
  <2> HIDE DEF l, o
  <2>3. Sound(list_insert(l, x, l.prev[h], l.next[l.prev[h]]), [o EXCEPT ![x] = h])
    BY <2>1, InsertKeeps
  <2>4. QED
    BY <2>1, <2>2, <2>3, <1>a DEF list_insert
<1>7. ASSUME NEW s \in Heads, NEW h \in Heads, list_splice(s, h) PROVE ListInv'
  <2>1. CASE list_empty(s)
    BY <1>7, <2>1 DEF list_splice, listVars, Links
  <2>2. CASE ~list_empty(s)
    <3>1. Sound(list_join(Links, s, h),
                [x \in All |-> IF x = s THEN None ELSE IF owner[x] = s THEN h ELSE owner[x]])
      BY <1>0, <1>7, <2>2, JoinKeeps DEF list_splice, list_empty, linked
    <3>2. QED
      BY <1>7, <2>2, <3>1, <1>a DEF list_splice, list_join
  <2>3. QED
    BY <2>1, <2>2
<1>8. ASSUME NEW s \in Heads, NEW h \in Heads, list_splice_init(s, h) PROVE ListInv'
  <2>1. CASE list_empty(s)
    BY <1>8, <2>1 DEF list_splice_init, listVars, Links
  <2>2. CASE ~list_empty(s)
    <3> DEFINE l == list_join(Links, s, h)
               o == [x \in All |-> IF x = s THEN None ELSE IF owner[x] = s THEN h ELSE owner[x]]
    <3>1. Sound(l, o)
      BY <1>0, <1>8, <2>2, JoinKeeps DEF list_splice_init, list_empty, linked
    <3>2. o[s] = None /\ [o EXCEPT ![s] = s] = [x \in All |-> IF x # s /\ owner[x] = s THEN h ELSE owner[x]]
      <4>1. owner[s] = s /\ s \in All
        BY <1>0, <1>8 DEF All, list_splice_init, linked
      <4>2. QED
        BY <4>1
    <3>3. Become(INIT_LIST_HEAD(l, s)) /\ owner' = [o EXCEPT ![s] = s]
      BY <1>8, <2>2, <3>2 DEF list_splice_init
    <3> HIDE DEF l, o
    <3>4. Sound(INIT_LIST_HEAD(l, s), [o EXCEPT ![s] = s])
      BY <3>1, <3>2, InitKeeps
    <3>5. QED
      BY <3>3, <3>4, <1>a DEF INIT_LIST_HEAD
  <2>3. QED
    BY <2>1, <2>2
<1>9. ASSUME NEW h \in Heads, Reinit(h) PROVE ListInv'
  <2>1. Sound(INIT_LIST_HEAD(Links, h), [owner EXCEPT ![h] = h])
    BY <1>0, <1>9, InitKeeps DEF Reinit, linked, All
  <2>2. QED
    BY <1>9, <1>a, <2>1 DEF Reinit, INIT_LIST_HEAD
<1>10. CASE UNCHANGED listVars
  BY <1>10 DEF listVars, Links
<1>11. QED
  BY <1>1, <1>2, <1>3, <1>5, <1>6, <1>7, <1>8, <1>9, <1>10 DEF ListNext

(* The rings of list.h are never broken: after any sequence of adds,       *)
(* deletes, moves and splices, of any number of nodes and heads, next and  *)
(* prev lead along the list a node is in and are each other's inverse.     *)
THEOREM RingsHold == ListSpec => []Rings
<1>1. ListInv => Rings
  BY DEF ListInv, Sound, Closed, Rings, Links, linked, In
<1>2. QED
  BY <1>1, ListInitSound, ListStep, PTL DEF ListSpec

-----------------------------------------------------------------------------
(* The order of the lists.  d is the nodes of each list in their order.    *)

(* Place i of the list with head h; its head is at both ends. *)
At(d, h, i) == IF i \in DOMAIN d[h] THEN d[h][i] ELSE h

Members(o, d) ==
  /\ d \in [Heads -> Seq(Nodes)]
  /\ \A h \in Heads : o[h] = None => d[h] = <<>>
  /\ \A h \in Heads : \A i \in DOMAIN d[h] : o[d[h][i]] = h
  /\ \A h \in Heads : \A i, j \in DOMAIN d[h] : d[h][i] = d[h][j] => i = j
  /\ \A x \in Nodes : o[x] # None => \E i \in DOMAIN d[o[x]] : d[o[x]][i] = x

Walk(l, o, d) ==
  \A h \in Heads : o[h] # None => \A i \in 0..Len(d[h]) : l.next[At(d, h, i)] = At(d, h, i + 1)

InOrder(l, o, d) == Members(o, d) /\ Walk(l, o, d)

(* t is s with x behind the first k, or without the k-th. *)
Inserted(s, k, x, t) ==
  /\ t \in Seq(Nodes) /\ Len(t) = Len(s) + 1 /\ t[k + 1] = x
  /\ \A i \in 1..k : t[i] = s[i]
  /\ \A i \in (k + 1)..Len(s) : t[i + 1] = s[i]

Removed(s, k, t) ==
  /\ t \in Seq(Nodes) /\ Len(t) = Len(s) - 1
  /\ \A i \in 1..(k - 1) : t[i] = s[i]
  /\ \A i \in k..(Len(s) - 1) : t[i] = s[i + 1]

(* r is s and then t.                                                      *)
Joined(s, t, r) ==
  /\ r \in Seq(Nodes) /\ Len(r) = Len(s) + Len(t)
  /\ \A i \in 1..Len(r) : r[i] = IF i <= Len(s) THEN s[i] ELSE t[i - Len(s)]

LEMMA PrependInserts ==
  ASSUME NEW s \in Seq(Nodes), NEW x \in Nodes
  PROVE  Inserted(s, 0, x, <<x>> \o s)
  BY DEF Inserted

LEMMA AppendInserts ==
  ASSUME NEW s \in Seq(Nodes), NEW x \in Nodes
  PROVE  Inserted(s, Len(s), x, Append(s, x))
  BY DEF Inserted

LEMMA RemoveAtRemoves ==
  ASSUME NEW s \in Seq(Nodes), NEW k \in 1..Len(s)
  PROVE  Removed(s, k, RemoveAt(s, k))
<1> DEFINE a == SubSeq(s, 1, k - 1)
           b == SubSeq(s, k + 1, Len(s))
<1>1. Len(s) \in Nat /\ k \in Nat /\ 1 <= k /\ k <= Len(s)
  OBVIOUS
<1>e. \A i \in 1..Len(s) : s[i] \in Nodes
  OBVIOUS
<1>2. a \in Seq(Nodes) /\ Len(a) = k - 1 /\ \A i \in 1..(k - 1) : a[i] = s[i]
  <2>1. \A i \in 1..(k - 1) : s[i] \in Nodes
    BY <1>1, <1>e
  <2>2. QED
    BY <1>1, <2>1, SubSeqProperties
<1>3. b \in Seq(Nodes) /\ Len(b) = Len(s) - k /\ \A i \in 1..(Len(s) - k) : b[i] = s[i + k]
  <2>1. \A i \in (k + 1)..Len(s) : s[i] \in Nodes
    BY <1>1, <1>e
  <2>2. k + 1 \in Int /\ Len(s) \in Int /\ k + 1 <= Len(s) + 1
    BY <1>1
  <2>3. QED
    BY <1>1, <2>1, <2>2, SubSeqProperties
<1> HIDE DEF a, b
<1>4. /\ a \o b \in Seq(Nodes) /\ Len(a \o b) = Len(a) + Len(b)
      /\ \A i \in 1..(Len(a) + Len(b)) : (a \o b)[i] = IF i <= Len(a) THEN a[i] ELSE b[i - Len(a)]
  BY <1>2, <1>3, ConcatProperties
<1> DEFINE t == a \o b
<1>5. /\ t \in Seq(Nodes) /\ Len(t) = Len(s) - 1
      /\ \A i \in 1..(Len(s) - 1) : t[i] = IF i <= k - 1 THEN a[i] ELSE b[i - (k - 1)]
  BY <1>1, <1>2, <1>3, <1>4
<1> HIDE DEF t
<1>6. \A i \in 1..(k - 1) : t[i] = s[i]
  BY <1>1, <1>2, <1>5
<1>7. \A i \in k..(Len(s) - 1) : t[i] = s[i + 1]
  <2>1. SUFFICES ASSUME NEW i \in k..(Len(s) - 1) PROVE t[i] = s[i + 1]
    OBVIOUS
  <2>2. t[i] = b[i - (k - 1)] /\ i - (k - 1) \in 1..(Len(s) - k) /\ i - (k - 1) + k = i + 1
    BY <1>1, <1>5
  <2>3. QED
    BY <1>3, <2>2
<1>8. Removed(s, k, t)
  BY <1>5, <1>6, <1>7 DEF Removed
<1>9. RemoveAt(s, k) = t
  BY DEF RemoveAt, a, b, t
<1>10. QED
  BY <1>8, <1>9

(* The places of a list are its head, at both ends, and its nodes, each    *)
(* once.                                                                   *)
LEMMA AtOwned ==
  ASSUME NEW o, NEW d, o \in [All -> Heads \cup {None}], OwnHeads(o), Members(o, d),
         NEW h \in Heads, o[h] # None
  PROVE  /\ Len(d[h]) \in Nat /\ DOMAIN d[h] = 1..Len(d[h]) /\ d[h] \in Seq(Nodes)
         /\ At(d, h, 0) = h /\ At(d, h, Len(d[h]) + 1) = h
         /\ \A i \in 0..(Len(d[h]) + 1) : At(d, h, i) \in In(o) /\ o[At(d, h, i)] = h
         /\ \A i, j \in 0..Len(d[h]) : At(d, h, i) = At(d, h, j) => i = j
<1> USE ListAssumption
<1>0. d[h] \in Seq(Nodes)
  BY DEF Members
<1>1. Len(d[h]) \in Nat /\ DOMAIN d[h] = 1..Len(d[h]) /\ d[h] \in Seq(Nodes)
  BY <1>0
<1>2. \A i \in DOMAIN d[h] : d[h][i] \in Nodes /\ d[h][i] # h /\ d[h][i] \in In(o) /\ o[d[h][i]] = h
  <2>1. \A i \in DOMAIN d[h] : d[h][i] \in Nodes
    BY <1>0
  <2>2. QED
    BY <2>1 DEF Members, In, All
<1>3. o[h] = h /\ h \in In(o)
  BY DEF OwnHeads, In, All
<1>4. At(d, h, 0) = h /\ At(d, h, Len(d[h]) + 1) = h
  BY <1>1 DEF At
<1>5. \A i : At(d, h, i) \in In(o) /\ o[At(d, h, i)] = h
  BY <1>2, <1>3 DEF At
<1>6. \A i, j \in 0..Len(d[h]) : At(d, h, i) = At(d, h, j) => i = j
  <2>1. \A i \in 0..Len(d[h]) : i \in DOMAIN d[h] \/ i = 0
    BY <1>1
  <2>2. 0 \notin DOMAIN d[h]
    BY <1>1
  <2>3. \A i, j \in DOMAIN d[h] : d[h][i] = d[h][j] => i = j
    BY DEF Members
  <2>4. QED
    BY <2>1, <2>2, <2>3, <1>2 DEF At
<1>7. QED
  BY <1>1, <1>4, <1>5, <1>6

LEMMA InsertedPlaces ==
  ASSUME NEW d \in [Heads -> Seq(Nodes)], NEW h \in Heads, NEW x \in Nodes, NEW t, NEW e,
         NEW k \in 0..Len(d[h]), Inserted(d[h], k, x, t), e[h] = t
  PROVE  /\ \A i \in 0..k : At(e, h, i) = At(d, h, i)
         /\ At(e, h, k + 1) = x
         /\ \A i \in (k + 1)..(Len(d[h]) + 1) : At(e, h, i + 1) = At(d, h, i)
         /\ Len(t) = Len(d[h]) + 1 /\ Len(d[h]) \in Nat
<1>1. d[h] \in Seq(Nodes) /\ t \in Seq(Nodes) /\ e[h] = t
  BY DEF Inserted
<1>2. PICK n \in Nat : n = Len(d[h])
  BY <1>1
<1>3. DOMAIN d[h] = 1..n /\ DOMAIN t = 1..(n + 1) /\ Len(t) = n + 1
  BY <1>1, <1>2 DEF Inserted
<1>4. k \in 0..n
  BY <1>2
<1>5. \A i \in 0..k : At(e, h, i) = At(d, h, i)
  <2>1. \A i \in 0..k : i = 0 \/ (i \in 1..k /\ i \in 1..n /\ i \in 1..(n + 1))
    BY <1>4
  <2>2. 0 \notin 1..n /\ 0 \notin 1..(n + 1)
    BY <1>2
  <2>3. QED
    BY <2>1, <2>2, <1>1, <1>3 DEF At, Inserted
<1>6. At(e, h, k + 1) = x
  <2>1. k + 1 \in DOMAIN e[h] /\ t[k + 1] = x
    BY <1>1, <1>3, <1>4 DEF Inserted
  <2>2. QED
    BY <2>1, <1>1 DEF At
<1>7. \A i \in (k + 1)..(n + 1) : At(e, h, i + 1) = At(d, h, i)
  <2>1. \A i \in (k + 1)..(n + 1) :
          \/ i \in (k + 1)..n /\ i \in 1..n /\ i + 1 \in 1..(n + 1)
          \/ i \notin 1..n /\ i + 1 \notin 1..(n + 1)
    BY <1>4
  <2>2. \A i \in (k + 1)..n : t[i + 1] = d[h][i]
    BY <1>2 DEF Inserted
  <2>3. DOMAIN d[h] = 1..n /\ DOMAIN e[h] = 1..(n + 1)
    BY <1>1, <1>3
  <2>4. \A i \in (k + 1)..n : i \in DOMAIN d[h] /\ i + 1 \in DOMAIN e[h] => At(e, h, i + 1) = At(d, h, i)
    BY <2>2, <1>1 DEF At
  <2>5. \A i : i \notin DOMAIN d[h] /\ i + 1 \notin DOMAIN e[h] => At(e, h, i + 1) = At(d, h, i)
    BY DEF At
  <2>6. QED
    BY <2>1, <2>3, <2>4, <2>5
<1>8. QED
  BY <1>1, <1>2, <1>3, <1>5, <1>6, <1>7

LEMMA InsertMembers ==
  ASSUME NEW o \in [All -> Heads \cup {None}], NEW d, OwnHeads(o), Members(o, d),
         NEW node \in Nodes, o[node] = None, NEW head \in Heads, o[head] # None,
         NEW k \in 0..Len(d[head]), NEW t, Inserted(d[head], k, node, t)
  PROVE  Members([o EXCEPT ![node] = head], [d EXCEPT ![head] = t])
<1> USE ListAssumption
<1> DEFINE u == [o EXCEPT ![node] = head]
           e == [d EXCEPT ![head] = t]
<1>0. /\ d \in [Heads -> Seq(Nodes)] /\ t \in Seq(Nodes) /\ d[head] \in Seq(Nodes)
      /\ \A h \in Heads : d[h] \in Seq(Nodes)
      /\ u[node] = head /\ \A x \in All \ {node} : u[x] = o[x]
      /\ e[head] = t /\ \A h \in Heads \ {head} : e[h] = d[h]
      /\ e \in [Heads -> Seq(Nodes)] /\ head # None
  BY DEF Members, Inserted, All
<1>n. PICK n \in Nat : n = Len(d[head])
  BY <1>0
<1>1. DOMAIN d[head] = 1..n /\ DOMAIN t = 1..(n + 1) /\ k \in 0..n
  BY <1>0, <1>n DEF Inserted
<1>2. \A i \in 1..(n + 1) :
        \/ i = k + 1 /\ t[i] = node
        \/ i \in 1..k /\ i \in 1..n /\ t[i] = d[head][i]
        \/ i > k + 1 /\ i - 1 \in 1..n /\ t[i] = d[head][i - 1]
  <2>1. \A i \in 1..(n + 1) : \/ i = k + 1
                              \/ i \in 1..k /\ i \in 1..n
                              \/ i > k + 1 /\ i - 1 \in 1..n /\ i - 1 \in (k + 1)..n /\ (i - 1) + 1 = i
    BY <1>1
  <2>2. \A j \in (k + 1)..n : t[j + 1] = d[head][j]
    BY <1>n DEF Inserted
  <2>3. t[k + 1] = node /\ \A i \in 1..k : t[i] = d[head][i]
    BY DEF Inserted
  <2>4. QED
    BY <2>1, <2>2, <2>3
<1>3. \A h \in Heads : \A i \in DOMAIN d[h] : d[h][i] \in Nodes /\ d[h][i] # node /\ o[d[h][i]] = h
  BY <1>0 DEF Members
<1> HIDE DEF u, e
<1>4. \A h \in Heads : u[h] = None => e[h] = <<>>
  BY <1>0 DEF Members, All
<1>5. \A i \in DOMAIN t : u[t[i]] = head
  <2>1. \A i \in DOMAIN t : t[i] = node \/ \E j \in DOMAIN d[head] : t[i] = d[head][j]
    BY <1>1, <1>2
  <2>2. \A j \in DOMAIN d[head] : u[d[head][j]] = head
    BY <1>0, <1>3 DEF All
  <2>3. QED
    BY <2>1, <2>2, <1>0
<1>6. \A h \in Heads : \A i \in DOMAIN e[h] : u[e[h][i]] = h
  <2>1. \A h \in Heads \ {head} : \A i \in DOMAIN d[h] : u[d[h][i]] = h
    BY <1>0, <1>3 DEF All
  <2>2. QED
    BY <2>1, <1>0, <1>5
<1>7. \A i, j \in 1..(n + 1) : t[i] = t[j] => i = j
  <2>1. \A i, j \in 1..n : d[head][i] = d[head][j] => i = j
    BY <1>1 DEF Members
  <2>2. \A i \in 1..n : d[head][i] # node
    BY <1>1, <1>3
  <2>3. SUFFICES ASSUME NEW i \in 1..(n + 1), NEW j \in 1..(n + 1), t[i] = t[j] PROVE i = j
    OBVIOUS
  <2>4. \A m \in 1..k : m < k + 1
    BY <1>1
  <2>5. CASE i = k + 1 \/ j = k + 1
    BY <2>2, <2>3, <2>5, <1>2
  <2>6. CASE i \in 1..k /\ i \in 1..n /\ t[i] = d[head][i]
    <3>1. CASE j \in 1..n /\ t[j] = d[head][j]
      BY <2>1, <2>3, <2>6, <3>1
    <3>2. CASE j > k + 1 /\ j - 1 \in 1..n /\ t[j] = d[head][j - 1]
      <4>1. i = j - 1
        BY <2>1, <2>3, <2>6, <3>2
      <4>2. QED
        BY <4>1, <2>6, <3>2, <1>1
    <3>3. QED
      BY <3>1, <3>2, <2>5, <1>2
  <2>7. CASE i > k + 1 /\ i - 1 \in 1..n /\ t[i] = d[head][i - 1]
    <3>1. CASE j \in 1..k /\ j \in 1..n /\ t[j] = d[head][j]
      <4>1. j = i - 1
        BY <2>1, <2>3, <2>7, <3>1
      <4>2. QED
        BY <4>1, <2>7, <3>1, <1>1
    <3>2. CASE j > k + 1 /\ j - 1 \in 1..n /\ t[j] = d[head][j - 1]
      <4>1. j - 1 = i - 1
        BY <2>1, <2>3, <2>7, <3>2
      <4>2. QED
        BY <4>1
    <3>3. QED
      BY <3>1, <3>2, <2>5, <1>2
  <2>8. QED
    BY <2>5, <2>6, <2>7, <1>2
<1>8. \A h \in Heads : \A i, j \in DOMAIN e[h] : e[h][i] = e[h][j] => i = j
  BY <1>0, <1>1, <1>7 DEF Members
<1>9. \A x \in Nodes : u[x] # None => \E i \in DOMAIN e[u[x]] : e[u[x]][i] = x
  <2> SUFFICES ASSUME NEW x \in Nodes, u[x] # None PROVE \E i \in DOMAIN e[u[x]] : e[u[x]][i] = x
    OBVIOUS
  <2>1. CASE x = node
    <3>1. k + 1 \in DOMAIN t /\ t[k + 1] = node
      BY <1>1 DEF Inserted
    <3>2. QED
      BY <2>1, <3>1, <1>0
  <2>2. CASE x # node
    <3>1. u[x] = o[x] /\ o[x] \in Heads
      BY <2>2, <1>0 DEF All
    <3>2. PICK i \in DOMAIN d[o[x]] : d[o[x]][i] = x
      BY <3>1 DEF Members
    <3>3. CASE o[x] # head
      BY <3>1, <3>2, <3>3, <1>0
    <3>4. CASE o[x] = head
      <4>1. i \in 1..n /\ d[head][i] = x
        BY <3>2, <3>4, <1>1
      <4>2. CASE i \in 1..k
        <5>1. i \in DOMAIN t /\ t[i] = x
          BY <4>1, <4>2, <1>1 DEF Inserted
        <5>2. QED
          BY <5>1, <3>1, <3>4, <1>0
      <4>3. CASE i \notin 1..k
        <5>1. i \in (k + 1)..n /\ i + 1 \in DOMAIN t
          BY <4>1, <4>3, <1>1
        <5>2. t[i + 1] = x
          BY <5>1, <4>1, <1>n DEF Inserted
        <5>3. QED
          BY <5>1, <5>2, <3>1, <3>4, <1>0
      <4>4. QED
        BY <4>2, <4>3
    <3>5. QED
      BY <3>3, <3>4
  <2>3. QED
    BY <2>1, <2>2
<1>10. Members(u, e)
  BY <1>0, <1>4, <1>6, <1>8, <1>9 DEF Members
<1>11. QED
  BY <1>10 DEF u, e

(* A node put behind place k of a list: the walk goes through it.          *)
LEMMA InsertInOrder ==
  ASSUME NEW l, NEW o, NEW d, Sound(l, o), InOrder(l, o, d),
         NEW node \in Nodes, o[node] = None, NEW head \in Heads, o[head] # None,
         NEW k \in 0..Len(d[head]), NEW t, Inserted(d[head], k, node, t),
         NEW p, p = At(d, head, k)
  PROVE  InOrder(list_insert(l, node, p, l.next[p]), [o EXCEPT ![node] = head], [d EXCEPT ![head] = t])
<1> USE ListAssumption
<1> DEFINE m == list_insert(l, node, p, l.next[p])
           u == [o EXCEPT ![node] = head]
<1>e. PICK e : e = [d EXCEPT ![head] = t]
  OBVIOUS
<1>0. /\ o \in [All -> Heads \cup {None}] /\ OwnHeads(o) /\ Members(o, d) /\ Walk(l, o, d)
      /\ l.next \in [All -> All] /\ d \in [Heads -> Seq(Nodes)]
  BY DEF Sound, LinksTyped, InOrder, Members
<1>1. Members(u, e)
  BY <1>0, <1>e, InsertMembers
<1>2. m.next = [[l.next EXCEPT ![node] = l.next[p]] EXCEPT ![p] = node]
  BY DEF list_insert
<1>3. PICK n \in Nat : n = Len(d[head])
  BY <1>0, AtOwned
<1>4. k \in 0..n /\ k \in 0..(n + 1)
  BY <1>3
<1>5. /\ \A i \in 0..(n + 1) : At(d, head, i) \in In(o) /\ o[At(d, head, i)] = head
      /\ \A i, j \in 0..n : At(d, head, i) = At(d, head, j) => i = j
  BY <1>0, <1>3, AtOwned
<1>6. /\ \A i \in 0..k : At(e, head, i) = At(d, head, i)
      /\ At(e, head, k + 1) = node
      /\ \A i \in (k + 1)..(n + 1) : At(e, head, i + 1) = At(d, head, i)
      /\ e[head] = t /\ \A h \in Heads \ {head} : e[h] = d[h]
      /\ Len(t) = n + 1
  <2>1. e[head] = t /\ \A h \in Heads \ {head} : e[h] = d[h]
    BY <1>0, <1>e
  <2>2. /\ \A i \in 0..k : At(e, head, i) = At(d, head, i)
        /\ At(e, head, k + 1) = node
        /\ \A i \in (k + 1)..(Len(d[head]) + 1) : At(e, head, i + 1) = At(d, head, i)
        /\ Len(t) = Len(d[head]) + 1
    BY <1>0, <2>1, InsertedPlaces
  <2>3. QED
    BY <1>3, <2>1, <2>2
<1>7. p \in All /\ p # node /\ o[p] = head /\ node \in All
  BY <1>4, <1>5 DEF In, All
<1>8. /\ m.next[p] = node /\ m.next[node] = l.next[p]
      /\ \A x \in All : x # p /\ x # node => m.next[x] = l.next[x]
  BY <1>0, <1>2, <1>7
<1>9. \A i \in 0..n : l.next[At(d, head, i)] = At(d, head, i + 1)
  BY <1>0, <1>3 DEF Walk
<1>10. \A x \in All \ {node} : u[x] = o[x]
  BY <1>0
<1> HIDE DEF m, u
<1>11. ASSUME NEW h \in Heads, u[h] # None, h # head, NEW i \in 0..Len(e[h])
       PROVE  m.next[At(e, h, i)] = At(e, h, i + 1)
  <2>1. o[h] # None /\ e[h] = d[h] /\ i \in 0..Len(d[h])
    BY <1>6, <1>10, <1>11 DEF All
  <2>2. At(e, h, i) = At(d, h, i) /\ At(e, h, i + 1) = At(d, h, i + 1)
    BY <2>1 DEF At
  <2>3. At(d, h, i) \in In(o) /\ o[At(d, h, i)] = h
    <3>1. i \in 0..(Len(d[h]) + 1)
      BY <2>1, <1>0, AtOwned
    <3>2. QED
      BY <2>1, <3>1, <1>0, AtOwned
  <2>4. l.next[At(d, h, i)] = At(d, h, i + 1)
    BY <1>0, <2>1 DEF Walk
  <2>5. At(d, h, i) \in All /\ At(d, h, i) # p /\ At(d, h, i) # node
    BY <1>7, <1>11, <2>3 DEF In
  <2>6. QED
    BY <1>8, <2>2, <2>4, <2>5
<1>12. ASSUME NEW i \in 0..(n + 1)
       PROVE  m.next[At(e, head, i)] = At(e, head, i + 1)
  <2>1. \A j \in 0..n : j # k => m.next[At(d, head, j)] = At(d, head, j + 1)
    <3>1. SUFFICES ASSUME NEW j \in 0..n, j # k PROVE m.next[At(d, head, j)] = At(d, head, j + 1)
      OBVIOUS
    <3>2. At(d, head, j) # p
      BY <1>4, <1>5, <3>1
    <3>3. j \in 0..(n + 1)
      BY <3>1
    <3>4. At(d, head, j) \in All /\ At(d, head, j) # node
      BY <1>5, <3>3 DEF In
    <3>5. QED
      BY <1>8, <1>9, <3>1, <3>2, <3>4
  <2>2. CASE i < k
    <3>1. i \in 0..k /\ i + 1 \in 0..k /\ i \in 0..n /\ i # k
      BY <1>4, <2>2
    <3>2. QED
      BY <1>6, <2>1, <3>1
  <2>3. CASE i = k
    <3>1. At(e, head, i) = p /\ At(e, head, i + 1) = node
      BY <1>4, <1>6, <2>3
    <3>2. QED
      BY <1>8, <3>1
  <2>4. CASE i = k + 1
    <3>1. At(e, head, i) = node
      BY <1>6, <2>4
    <3>2. l.next[p] = At(d, head, k + 1)
      BY <1>4, <1>9
    <3>3. i \in (k + 1)..(n + 1)
      BY <1>4, <2>4
    <3>4. At(e, head, i + 1) = At(d, head, k + 1)
      BY <1>6, <2>4, <3>3
    <3>5. QED
      BY <1>8, <3>1, <3>2, <3>4
  <2>5. CASE i > k + 1
    <3>1. PICK j \in 0..n : i = j + 1
      <4>1. i - 1 \in 0..n /\ i = (i - 1) + 1
        BY <1>4, <2>5
      <4>2. QED
        BY <4>1
    <3>2. j \in (k + 1)..(n + 1) /\ j + 1 \in (k + 1)..(n + 1) /\ j # k
      BY <1>4, <2>5, <3>1
    <3>3. At(e, head, i) = At(d, head, j) /\ At(e, head, i + 1) = At(d, head, j + 1)
      BY <1>6, <3>1, <3>2
    <3>4. QED
      BY <2>1, <3>2, <3>3
  <2>6. QED
    BY <1>4, <2>2, <2>3, <2>4, <2>5
<1>13. Walk(m, u, e)
  <2>1. \A i \in 0..Len(e[head]) : m.next[At(e, head, i)] = At(e, head, i + 1)
    BY <1>6, <1>12
  <2>2. QED
    BY <2>1, <1>11 DEF Walk
<1>14. InOrder(m, u, e)
  BY <1>1, <1>13 DEF InOrder, u
<1>15. QED
  BY <1>14, <1>e DEF m, u

-----------------------------------------------------------------------------
LEMMA RemovedPlaces ==
  ASSUME NEW d \in [Heads -> Seq(Nodes)], NEW h \in Heads, NEW t, NEW e,
         NEW k \in 1..Len(d[h]), Removed(d[h], k, t), e[h] = t
  PROVE  /\ \A i \in 0..(k - 1) : At(e, h, i) = At(d, h, i)
         /\ \A i \in k..Len(d[h]) : At(e, h, i) = At(d, h, i + 1)
         /\ Len(t) = Len(d[h]) - 1
<1>1. d[h] \in Seq(Nodes) /\ t \in Seq(Nodes) /\ e[h] = t
  BY DEF Removed
<1>2. PICK n \in Nat : n = Len(d[h])
  BY <1>1
<1>3. k \in 1..n
  BY <1>2
<1>4. DOMAIN d[h] = 1..n /\ DOMAIN e[h] = 1..(n - 1) /\ Len(t) = n - 1
  BY <1>1, <1>2 DEF Removed
<1>5. \A i \in 0..(k - 1) : At(e, h, i) = At(d, h, i)
  <2>1. \A i \in 0..(k - 1) :
          \/ i \in 1..(k - 1) /\ i \in DOMAIN d[h] /\ i \in DOMAIN e[h]
          \/ i \notin DOMAIN d[h] /\ i \notin DOMAIN e[h]
    BY <1>3, <1>4
  <2>2. \A i \in 1..(k - 1) : t[i] = d[h][i]
    BY DEF Removed
  <2>3. QED
    BY <2>1, <2>2, <1>1 DEF At
<1>6. \A i \in k..n : At(e, h, i) = At(d, h, i + 1)
  <2>1. \A i \in k..n :
          \/ i \in k..(n - 1) /\ i + 1 \in DOMAIN d[h] /\ i \in DOMAIN e[h]
          \/ i + 1 \notin DOMAIN d[h] /\ i \notin DOMAIN e[h]
    BY <1>3, <1>4
  <2>2. \A i \in k..(n - 1) : t[i] = d[h][i + 1]
    BY <1>2 DEF Removed
  <2>3. \A i \in k..(n - 1) : i + 1 \in DOMAIN d[h] /\ i \in DOMAIN e[h] => At(e, h, i) = At(d, h, i + 1)
    BY <2>2, <1>1 DEF At
  <2>4. \A i : i + 1 \notin DOMAIN d[h] /\ i \notin DOMAIN e[h] => At(e, h, i) = At(d, h, i + 1)
    BY DEF At
  <2>5. QED
    BY <2>1, <2>3, <2>4
<1>7. QED
  BY <1>2, <1>4, <1>5, <1>6

LEMMA RemoveMembers ==
  ASSUME NEW o \in [All -> Heads \cup {None}], NEW d, NEW head \in Heads, NEW node \in Nodes,
         NEW k \in 1..Len(d[head]), NEW t,
         OwnHeads(o), Members(o, d), o[node] = head, d[head][k] = node, Removed(d[head], k, t)
  PROVE  Members([o EXCEPT ![node] = None], [d EXCEPT ![head] = t])
<1> USE ListAssumption
<1>u. PICK u : u = [o EXCEPT ![node] = None]
  OBVIOUS
<1>e. PICK e : e = [d EXCEPT ![head] = t]
  OBVIOUS
<1>0. /\ d \in [Heads -> Seq(Nodes)] /\ t \in Seq(Nodes) /\ d[head] \in Seq(Nodes)
      /\ \A h \in Heads : d[h] \in Seq(Nodes)
      /\ u[node] = None /\ \A x \in All \ {node} : u[x] = o[x]
      /\ e[head] = t /\ \A h \in Heads \ {head} : e[h] = d[h]
      /\ e \in [Heads -> Seq(Nodes)] /\ head # None
  BY <1>u, <1>e DEF Members, Removed, All
<1>n. PICK n \in Nat : n = Len(d[head])
  BY <1>0
<1>1. DOMAIN d[head] = 1..n /\ DOMAIN t = 1..(n - 1) /\ k \in 1..n
  BY <1>0, <1>n DEF Removed
<1>2. \A i \in DOMAIN t :
        \/ i \in 1..(k - 1) /\ i \in 1..n /\ i # k /\ t[i] = d[head][i]
        \/ i \in k..(n - 1) /\ i + 1 \in 1..n /\ i + 1 # k /\ t[i] = d[head][i + 1]
  <2>1. \A i \in DOMAIN t : \/ i \in 1..(k - 1) /\ i \in 1..n /\ i # k
                            \/ i \in k..(n - 1) /\ i + 1 \in 1..n /\ i + 1 # k
    BY <1>1
  <2>2. (\A i \in 1..(k - 1) : t[i] = d[head][i]) /\ (\A i \in k..(n - 1) : t[i] = d[head][i + 1])
    BY <1>n DEF Removed
  <2>3. QED
    BY <2>1, <2>2
<1>3. \A h \in Heads : \A i \in DOMAIN d[h] : d[h][i] \in Nodes /\ o[d[h][i]] = h
  BY <1>0 DEF Members
<1>d. \A i, j \in 1..n : d[head][i] = d[head][j] => i = j
  BY <1>1 DEF Members
<1>4. \A h \in Heads : u[h] = None => e[h] = <<>>
  <2>1. o[head] = head
    <3>1. d[head] # <<>>
      <4>1. k \in DOMAIN d[head] /\ k \notin DOMAIN <<>>
        BY <1>1
      <4>2. QED
        BY <4>1
    <3>2. QED
      BY <3>1 DEF Members, OwnHeads
  <2>2. \A h \in Heads : u[h] = o[h] /\ h \in Heads \ {node}
    BY <1>0 DEF All
  <2>3. \A h \in Heads : o[h] = None => d[h] = <<>>
    BY DEF Members
  <2>4. \A h \in Heads : u[h] = None => h # head
    BY <2>1, <2>2
  <2>5. QED
    BY <2>2, <2>3, <2>4, <1>0
<1>5. \A i \in DOMAIN t : t[i] \in Nodes /\ t[i] # node /\ o[t[i]] = head
  <2>1. \A i \in 1..n : d[head][i] = node => i = k
    BY <1>1, <1>d
  <2>2. \A i \in 1..n : d[head][i] \in Nodes /\ o[d[head][i]] = head
    BY <1>1, <1>3
  <2>3. \A i \in DOMAIN t : \E m \in 1..n : m # k /\ t[i] = d[head][m]
    BY <1>2
  <2>4. QED
    BY <2>1, <2>2, <2>3
<1>6. \A h \in Heads : \A i \in DOMAIN e[h] : u[e[h][i]] = h
  <2>x. \A x \in Nodes : x # node => u[x] = o[x]
    BY <1>0 DEF All
  <2>1. \A h \in Heads \ {head} : \A i \in DOMAIN d[h] : u[d[h][i]] = h
    <3>1. SUFFICES ASSUME NEW h \in Heads \ {head}, NEW i \in DOMAIN d[h] PROVE u[d[h][i]] = h
      OBVIOUS
    <3>2. d[h][i] \in Nodes /\ o[d[h][i]] = h
      BY <1>3
    <3>3. d[h][i] # node
      BY <3>1, <3>2
    <3>4. QED
      BY <2>x, <3>2, <3>3
  <2>2. \A i \in DOMAIN t : u[t[i]] = head
    BY <2>x, <1>5
  <2>3. e[head] = t /\ \A h \in Heads \ {head} : e[h] = d[h]
    BY <1>0
  <2>4. QED
    BY <2>1, <2>2, <2>3
<1>7. \A i, j \in DOMAIN t : t[i] = t[j] => i = j
  <2>1. SUFFICES ASSUME NEW i \in DOMAIN t, NEW j \in DOMAIN t, t[i] = t[j] PROVE i = j
    OBVIOUS
  <2>2. CASE i \in 1..(k - 1) /\ i \in 1..n /\ t[i] = d[head][i]
    <3>1. CASE j \in 1..n /\ t[j] = d[head][j]
      BY <1>d, <2>1, <2>2, <3>1
    <3>2. CASE j \in k..(n - 1) /\ j + 1 \in 1..n /\ t[j] = d[head][j + 1]
      <4>1. i = j + 1
        BY <1>d, <2>1, <2>2, <3>2
      <4>2. QED
        BY <4>1, <2>2, <3>2, <1>1
    <3>3. QED
      BY <3>1, <3>2, <1>2
  <2>3. CASE i \in k..(n - 1) /\ i + 1 \in 1..n /\ t[i] = d[head][i + 1]
    <3>1. CASE j \in 1..(k - 1) /\ j \in 1..n /\ t[j] = d[head][j]
      <4>1. j = i + 1
        BY <1>d, <2>1, <2>3, <3>1
      <4>2. QED
        BY <4>1, <2>3, <3>1, <1>1
    <3>2. CASE j \in k..(n - 1) /\ j + 1 \in 1..n /\ t[j] = d[head][j + 1]
      <4>1. j + 1 = i + 1
        BY <1>d, <2>1, <2>3, <3>2
      <4>2. QED
        BY <4>1, <2>3, <3>2
    <3>3. QED
      BY <3>1, <3>2, <1>2
  <2>4. QED
    BY <2>2, <2>3, <1>2
<1>8. \A h \in Heads : \A i, j \in DOMAIN e[h] : e[h][i] = e[h][j] => i = j
  BY <1>0, <1>7 DEF Members
<1>9. \A x \in Nodes : u[x] # None => \E i \in DOMAIN e[u[x]] : e[u[x]][i] = x
  <2> SUFFICES ASSUME NEW x \in Nodes, u[x] # None PROVE \E i \in DOMAIN e[u[x]] : e[u[x]][i] = x
    OBVIOUS
  <2>1. x # node /\ u[x] = o[x] /\ o[x] \in Heads
    BY <1>0 DEF All
  <2>2. PICK i \in DOMAIN d[o[x]] : d[o[x]][i] = x
    BY <2>1 DEF Members
  <2>3. CASE o[x] # head
    BY <2>1, <2>2, <2>3, <1>0
  <2>4. CASE o[x] = head
    <3>1. i \in 1..n /\ i # k /\ d[head][i] = x
      BY <2>1, <2>2, <2>4, <1>1
    <3>2. CASE i \in 1..(k - 1)
      <4>1. i \in DOMAIN t /\ t[i] = x
        BY <3>1, <3>2, <1>1 DEF Removed
      <4>2. QED
        BY <4>1, <2>1, <2>4, <1>0
    <3>3. CASE i \notin 1..(k - 1)
      <4>1. i - 1 \in k..(n - 1) /\ i - 1 \in DOMAIN t /\ (i - 1) + 1 = i
        BY <3>1, <3>3, <1>1
      <4>2. t[i - 1] = x
        BY <4>1, <3>1, <1>n DEF Removed
      <4>3. QED
        BY <4>1, <4>2, <2>1, <2>4, <1>0
    <3>4. QED
      BY <3>2, <3>3
  <2>5. QED
    BY <2>3, <2>4
<1>10. Members(u, e)
  BY <1>0, <1>4, <1>6, <1>8, <1>9 DEF Members
<1>11. QED
  BY <1>10, <1>u, <1>e

(* The node at place k taken out: the walk goes past it.                   *)
LEMMA UnlinkInOrder ==
  ASSUME NEW l, NEW o, NEW d, NEW head \in Heads, NEW node \in Nodes,
         NEW k \in 1..Len(d[head]), NEW t,
         Sound(l, o), InOrder(l, o, d), o[node] = head, o[head] # None,
         d[head][k] = node, Removed(d[head], k, t)
  PROVE  InOrder(list_unlink(l, l.prev[node], l.next[node]), [o EXCEPT ![node] = None], [d EXCEPT ![head] = t])
<1> USE ListAssumption
<1> DEFINE m == list_unlink(l, l.prev[node], l.next[node])
           u == [o EXCEPT ![node] = None]
<1>e. PICK e : e = [d EXCEPT ![head] = t]
  OBVIOUS
<1>0. /\ o \in [All -> Heads \cup {None}] /\ OwnHeads(o) /\ Members(o, d) /\ Walk(l, o, d)
      /\ l.next \in [All -> All] /\ d \in [Heads -> Seq(Nodes)]
  BY DEF Sound, LinksTyped, InOrder, Members
<1>1. Members(u, e)
  BY <1>0, <1>e, RemoveMembers
<1>2. m.next = [l.next EXCEPT ![l.prev[node]] = l.next[node]]
  BY DEF list_unlink
<1>3. PICK n \in Nat : n = Len(d[head])
  BY <1>0, AtOwned
<1>4. k \in 1..n
  BY <1>3
<1>5. /\ \A i \in 0..(n + 1) : At(d, head, i) \in In(o) /\ o[At(d, head, i)] = head
      /\ \A i, j \in 0..n : At(d, head, i) = At(d, head, j) => i = j
      /\ DOMAIN d[head] = 1..n
  BY <1>0, <1>3, AtOwned
<1>6. /\ \A i \in 0..(k - 1) : At(e, head, i) = At(d, head, i)
      /\ \A i \in k..n : At(e, head, i) = At(d, head, i + 1)
      /\ e[head] = t /\ \A h \in Heads \ {head} : e[h] = d[h]
      /\ Len(t) = n - 1
  <2>1. e[head] = t /\ \A h \in Heads \ {head} : e[h] = d[h]
    BY <1>0, <1>e
  <2>2. /\ \A i \in 0..(k - 1) : At(e, head, i) = At(d, head, i)
        /\ \A i \in k..Len(d[head]) : At(e, head, i) = At(d, head, i + 1)
        /\ Len(t) = Len(d[head]) - 1
    <3>1. d \in [Heads -> Seq(Nodes)] /\ e[head] = t
      BY <1>0, <2>1
    <3>2. QED
      BY <3>1, RemovedPlaces
  <2>3. QED
    BY <1>3, <2>1, <2>2
<1>7. \A i \in 0..n : l.next[At(d, head, i)] = At(d, head, i + 1)
  BY <1>0, <1>3 DEF Walk
<1>8. At(d, head, k) = node
  BY <1>4, <1>5 DEF At
<1>9. l.prev[node] = At(d, head, k - 1) /\ l.next[node] = At(d, head, k + 1)
  <2>1. k - 1 \in 0..n /\ k - 1 \in 0..(n + 1) /\ k \in 0..n /\ (k - 1) + 1 = k
    BY <1>4
  <2>2. l.next[At(d, head, k - 1)] = node
    BY <2>1, <1>7, <1>8
  <2>3. At(d, head, k - 1) \in In(o)
    BY <2>1, <1>5
  <2>4. l.prev[node] = At(d, head, k - 1)
    BY <2>2, <2>3 DEF Sound, Closed
  <2>5. QED
    BY <2>1, <2>4, <1>7, <1>8
<1>10. /\ m.next[At(d, head, k - 1)] = At(d, head, k + 1)
       /\ \A x \in All : x # At(d, head, k - 1) => m.next[x] = l.next[x]
  <2>1. k - 1 \in 0..(n + 1)
    BY <1>4
  <2>2. At(d, head, k - 1) \in All
    BY <2>1, <1>5 DEF In
  <2>3. QED
    BY <2>2, <1>0, <1>2, <1>9
<1>11. \A h \in Heads : u[h] = o[h]
  BY <1>0 DEF All
<1> HIDE DEF m, u
<1>12. ASSUME NEW h \in Heads, u[h] # None, h # head, NEW i \in 0..Len(e[h])
       PROVE  m.next[At(e, h, i)] = At(e, h, i + 1)
  <2>1. o[h] # None /\ e[h] = d[h] /\ i \in 0..Len(d[h])
    BY <1>6, <1>11, <1>12
  <2>2. At(e, h, i) = At(d, h, i) /\ At(e, h, i + 1) = At(d, h, i + 1)
    BY <2>1 DEF At
  <2>3. At(d, h, i) \in In(o) /\ o[At(d, h, i)] = h
    <3>1. i \in 0..(Len(d[h]) + 1)
      BY <2>1, <1>0, AtOwned
    <3>2. QED
      BY <2>1, <3>1, <1>0, AtOwned
  <2>4. l.next[At(d, h, i)] = At(d, h, i + 1)
    BY <1>0, <2>1 DEF Walk
  <2>5. k - 1 \in 0..(n + 1)
    BY <1>4
  <2>6. At(d, h, i) \in All /\ At(d, h, i) # At(d, head, k - 1)
    BY <1>5, <1>12, <2>3, <2>5 DEF In
  <2>7. QED
    BY <1>10, <2>2, <2>4, <2>6
<1>13. ASSUME NEW i \in 0..(n - 1)
       PROVE  m.next[At(e, head, i)] = At(e, head, i + 1)
  <2>1. \A j \in 0..n : j # k - 1 => m.next[At(d, head, j)] = At(d, head, j + 1)
    <3>1. SUFFICES ASSUME NEW j \in 0..n, j # k - 1 PROVE m.next[At(d, head, j)] = At(d, head, j + 1)
      OBVIOUS
    <3>2. k - 1 \in 0..n /\ j \in 0..(n + 1)
      BY <1>4, <3>1
    <3>3. At(d, head, j) # At(d, head, k - 1) /\ At(d, head, j) \in All
      BY <1>5, <3>1, <3>2 DEF In
    <3>4. QED
      BY <1>7, <1>10, <3>1, <3>3
  <2>2. CASE i < k - 1
    <3>1. i \in 0..(k - 1) /\ i + 1 \in 0..(k - 1) /\ i \in 0..n /\ i # k - 1
      BY <1>4, <2>2
    <3>2. QED
      BY <1>6, <2>1, <3>1
  <2>3. CASE i = k - 1
    <3>1. i \in 0..(k - 1) /\ i + 1 \in k..n /\ i + 1 = k
      BY <1>4, <2>3
    <3>2. At(e, head, i) = At(d, head, k - 1) /\ At(e, head, i + 1) = At(d, head, k + 1)
      BY <1>6, <2>3, <3>1
    <3>3. QED
      BY <1>10, <3>2
  <2>4. CASE i > k - 1
    <3>1. i \in k..n /\ i + 1 \in k..n /\ i + 1 \in 0..n /\ i + 1 # k - 1
      BY <1>4, <2>4
    <3>2. At(e, head, i) = At(d, head, i + 1) /\ At(e, head, i + 1) = At(d, head, (i + 1) + 1)
      BY <1>6, <3>1
    <3>3. QED
      BY <2>1, <3>1, <3>2
  <2>5. QED
    BY <1>4, <2>2, <2>3, <2>4
<1>14. Walk(m, u, e)
  <2>1. \A i \in 0..Len(e[head]) : m.next[At(e, head, i)] = At(e, head, i + 1)
    BY <1>6, <1>13
  <2>2. QED
    BY <2>1, <1>12 DEF Walk
<1>15. InOrder(m, u, e)
  BY <1>1, <1>14 DEF InOrder
<1>16. QED
  BY <1>15, <1>e DEF m, u

-----------------------------------------------------------------------------
LEMMA ConcatJoins ==
  ASSUME NEW s \in Seq(Nodes), NEW t \in Seq(Nodes)
  PROVE  Joined(s, t, s \o t)
<1>1. PICK r : r = s \o t
  OBVIOUS
<1>2. /\ r \in Seq(Nodes) /\ Len(r) = Len(s) + Len(t)
      /\ \A i \in 1..(Len(s) + Len(t)) : r[i] = IF i <= Len(s) THEN s[i] ELSE t[i - Len(s)]
  BY <1>1, ConcatProperties
<1>3. Joined(s, t, r)
  BY <1>2 DEF Joined
<1>4. QED
  BY <1>1, <1>3

LEMMA JoinedPlaces ==
  ASSUME NEW d \in [Heads -> Seq(Nodes)], NEW list \in Heads, NEW head \in Heads, NEW e,
         Joined(d[list], d[head], e[head])
  PROVE  /\ At(e, head, 0) = head
         /\ \A i \in 1..Len(d[list]) : At(e, head, i) = At(d, list, i)
         /\ \A i \in 1..(Len(d[head]) + 1) : At(e, head, Len(d[list]) + i) = At(d, head, i)
<1>1. d[list] \in Seq(Nodes) /\ d[head] \in Seq(Nodes)
  OBVIOUS
<1>2. PICK a \in Nat : a = Len(d[list]) /\ DOMAIN d[list] = 1..a
  BY <1>1
<1>3. PICK b \in Nat : b = Len(d[head]) /\ DOMAIN d[head] = 1..b
  BY <1>1
<1>5. PICK s : s = e[head]
  OBVIOUS
<1>6. /\ s \in Seq(Nodes) /\ Len(s) = a + b /\ DOMAIN s = 1..(a + b)
      /\ \A i \in 1..(a + b) : s[i] = IF i <= a THEN d[list][i] ELSE d[head][i - a]
  <2>1. /\ s \in Seq(Nodes) /\ Len(s) = a + b
        /\ \A i \in 1..(a + b) : s[i] = IF i <= a THEN d[list][i] ELSE d[head][i - a]
    BY <1>2, <1>3, <1>5 DEF Joined
  <2>2. QED
    BY <2>1
<1>7. At(e, head, 0) = head
  <2>1. 0 \notin DOMAIN e[head]
    BY <1>5, <1>6
  <2>2. QED
    BY <2>1 DEF At
<1>8. ASSUME NEW i \in 1..a PROVE At(e, head, i) = At(d, list, i)
  <2>1. i \in DOMAIN e[head] /\ i \in DOMAIN d[list] /\ s[i] = d[list][i]
    BY <1>2, <1>5, <1>6, <1>8
  <2>2. QED
    BY <2>1, <1>5 DEF At
<1>9. ASSUME NEW i \in 1..(b + 1) PROVE At(e, head, a + i) = At(d, head, i)
  <2>1. CASE i \in 1..b
    <3>1. a + i \in 1..(a + b) /\ ~(a + i <= a) /\ (a + i) - a = i
      BY <2>1
    <3>2. a + i \in DOMAIN e[head] /\ i \in DOMAIN d[head] /\ s[a + i] = d[head][i]
      BY <1>3, <1>5, <1>6, <2>1, <3>1
    <3>3. QED
      BY <3>2, <1>5 DEF At
  <2>2. CASE i = b + 1
    <3>1. a + i \notin DOMAIN e[head] /\ i \notin DOMAIN d[head]
      BY <1>3, <1>5, <1>6, <2>2
    <3>2. QED
      BY <3>1 DEF At
  <2>3. QED
    BY <2>1, <2>2
<1>10. QED
  BY <1>2, <1>3, <1>7, <1>8, <1>9

LEMMA JoinMembers ==
  ASSUME NEW o \in [All -> Heads \cup {None}], NEW d, NEW list \in Heads, NEW head \in Heads,
         NEW u, NEW e,
         OwnHeads(o), Members(o, d), list # head, o[list] # None, o[head] # None, d[list] # <<>>,
         u = [x \in All |-> IF x = list THEN None ELSE IF o[x] = list THEN head ELSE o[x]],
         e = [d EXCEPT ![head] = d[list] \o d[head], ![list] = <<>>]
  PROVE  Members(u, e)
<1> USE ListAssumption
<1>0. /\ d \in [Heads -> Seq(Nodes)] /\ d[list] \in Seq(Nodes) /\ d[head] \in Seq(Nodes)
      /\ o[list] = list /\ o[head] = head
  BY DEF Members, OwnHeads
<1>p. PICK s : s = d[list] \o d[head]
  OBVIOUS
<1>1. e[head] = s /\ e[list] = <<>> /\ \A h \in Heads : h # head /\ h # list => e[h] = d[h]
  BY <1>0, <1>p
<1>2. PICK a \in Nat : a = Len(d[list]) /\ DOMAIN d[list] = 1..a
  BY <1>0
<1>3. PICK b \in Nat : b = Len(d[head]) /\ DOMAIN d[head] = 1..b
  BY <1>0
<1>4. /\ s \in Seq(Nodes) /\ DOMAIN s = 1..(a + b)
      /\ \A i \in 1..(a + b) : s[i] = IF i <= a THEN d[list][i] ELSE d[head][i - a]
  <2>1. /\ s \in Seq(Nodes) /\ Len(s) = a + b
        /\ \A i \in 1..(a + b) : s[i] = IF i <= a THEN d[list][i] ELSE d[head][i - a]
    BY <1>0, <1>p, <1>2, <1>3, ConcatProperties
  <2>2. QED
    BY <2>1
<1>5. \A i \in DOMAIN s : \/ i \in DOMAIN d[list] /\ s[i] = d[list][i]
                          \/ i > a /\ i - a \in DOMAIN d[head] /\ s[i] = d[head][i - a]
  <2>1. \A i \in DOMAIN s : \/ i \in 1..a /\ i \in 1..(a + b) /\ i <= a
                            \/ i > a /\ i - a \in 1..b /\ i \in 1..(a + b) /\ ~(i <= a)
    BY <1>4
  <2>2. QED
    BY <2>1, <1>2, <1>3, <1>4
<1>z. \A i : i \notin DOMAIN e[list]
  <2>1. e[list] = <<>>
    BY <1>1
  <2>2. \A i : i \notin DOMAIN <<>>
    OBVIOUS
  <2>3. QED
    BY <2>1, <2>2
<1>6. \A h \in Heads : \A i \in DOMAIN d[h] : d[h][i] \in Nodes /\ o[d[h][i]] = h
  BY <1>0 DEF Members
<1>7. /\ u[list] = None
      /\ \A x \in All : x # list /\ o[x] = list => u[x] = head
      /\ \A x \in All : x # list /\ o[x] # list => u[x] = o[x]
  BY DEF All
<1>8. e \in [Heads -> Seq(Nodes)]
  <2>1. [d EXCEPT ![head] = s] \in [Heads -> Seq(Nodes)]
    BY <1>0, <1>4
  <2>2. <<>> \in Seq(Nodes)
    OBVIOUS
  <2>3. [[d EXCEPT ![head] = s] EXCEPT ![list] = <<>>] \in [Heads -> Seq(Nodes)]
    BY <2>1, <2>2
  <2>4. QED
    BY <2>3, <1>p
<1>9. \A h \in Heads : u[h] = None => e[h] = <<>>
  <2>1. SUFFICES ASSUME NEW h \in Heads, u[h] = None, h # list PROVE e[h] = <<>>
    BY <1>1
  <2>2. h \in All /\ o[h] # list
    BY <2>1 DEF All, OwnHeads
  <2>3. o[h] = None /\ h # head
    BY <1>7, <2>1, <2>2
  <2>4. QED
    BY <2>1, <2>3, <1>1 DEF Members
<1>10. \A h \in Heads : \A i \in DOMAIN e[h] : u[e[h][i]] = h
  <2>1. SUFFICES ASSUME NEW h \in Heads, NEW i \in DOMAIN e[h] PROVE u[e[h][i]] = h
    OBVIOUS
  <2>2. CASE h = head
    <3>1. s[i] \in Nodes /\ o[s[i]] \in {list, head}
      <4>1. i \in DOMAIN s
        BY <2>1, <2>2, <1>1
      <4>2. \E g \in {list, head} : \E j \in DOMAIN d[g] : s[i] = d[g][j]
        BY <4>1, <1>5
      <4>3. QED
        BY <4>2, <1>6
    <3>2. s[i] \in All /\ s[i] # list
      BY <3>1 DEF All
    <3>3. u[s[i]] = head
      BY <3>1, <3>2, <1>7
    <3>4. QED
      BY <2>2, <3>3, <1>1
  <2>3. CASE h # head
    <3>1. h # list
      BY <2>1, <1>z
    <3>2. e[h] = d[h]
      BY <2>3, <3>1, <1>1
    <3>3. d[h][i] \in Nodes /\ o[d[h][i]] = h
      BY <2>1, <3>2, <1>6
    <3>4. d[h][i] \in All /\ d[h][i] # list
      BY <3>3 DEF All
    <3>5. QED
      BY <3>1, <3>2, <3>3, <3>4, <1>7
  <2>4. QED
    BY <2>2, <2>3
<1>11. \A h \in Heads : \A i, j \in DOMAIN e[h] : e[h][i] = e[h][j] => i = j
  <2>1. SUFFICES ASSUME NEW h \in Heads, NEW i \in DOMAIN e[h], NEW j \in DOMAIN e[h], e[h][i] = e[h][j]
                 PROVE  i = j
    OBVIOUS
  <2>d. \A g \in Heads : \A x, y \in DOMAIN d[g] : d[g][x] = d[g][y] => x = y
    BY DEF Members
  <2>2. CASE h = head
    <3>1. i \in DOMAIN s /\ j \in DOMAIN s /\ s[i] = s[j]
      BY <2>1, <2>2, <1>1
    <3>2. \A x \in DOMAIN d[list], y \in DOMAIN d[head] : d[list][x] # d[head][y]
      BY <1>6
    <3>3. CASE i \in DOMAIN d[list] /\ s[i] = d[list][i]
      <4>1. j \in DOMAIN d[list] /\ s[j] = d[list][j]
        BY <3>1, <3>2, <3>3, <1>5
      <4>2. QED
        BY <3>1, <3>3, <4>1, <2>d
    <3>4. CASE i > a /\ i - a \in DOMAIN d[head] /\ s[i] = d[head][i - a]
      <4>1. j > a /\ j - a \in DOMAIN d[head] /\ s[j] = d[head][j - a]
        BY <3>1, <3>2, <3>4, <1>5
      <4>2. i - a = j - a
        BY <3>1, <3>4, <4>1, <2>d
      <4>3. i \in Nat /\ j \in Nat
        BY <3>1, <1>4
      <4>4. QED
        BY <4>2, <4>3
    <3>5. QED
      BY <3>1, <3>3, <3>4, <1>5
  <2>3. CASE h # head
    <3>1. h # list
      BY <2>1, <1>z
    <3>2. e[h] = d[h]
      BY <2>3, <3>1, <1>1
    <3>3. QED
      BY <2>1, <2>d, <3>2
  <2>4. QED
    BY <2>2, <2>3
<1>12. \A x \in Nodes : u[x] # None => \E i \in DOMAIN e[u[x]] : e[u[x]][i] = x
  <2>1. SUFFICES ASSUME NEW x \in Nodes, u[x] # None PROVE \E i \in DOMAIN e[u[x]] : e[u[x]][i] = x
    OBVIOUS
  <2>2. x \in All /\ x # list
    BY DEF All
  <2>3. o[x] \in Heads /\ o[x] # None
    BY <1>0, <1>7, <2>1, <2>2
  <2>4. PICK i \in DOMAIN d[o[x]] : d[o[x]][i] = x
    BY <2>3 DEF Members
  <2>5. CASE o[x] = list
    <3>1. i \in DOMAIN s /\ s[i] = x
      BY <2>4, <2>5, <1>2, <1>4
    <3>2. u[x] = head
      BY <2>2, <2>5, <1>7
    <3>3. QED
      BY <3>1, <3>2, <1>1
  <2>6. CASE o[x] = head
    <3>1. i \in 1..b
      BY <2>4, <2>6, <1>3
    <3>2. a + i \in 1..(a + b) /\ ~(a + i <= a) /\ (a + i) - a = i
      BY <3>1
    <3>3. a + i \in DOMAIN s /\ s[a + i] = x
      BY <2>4, <2>6, <3>2, <1>4
    <3>4. u[x] = head
      BY <2>2, <2>6, <1>7
    <3>5. QED
      BY <3>3, <3>4, <1>1
  <2>7. CASE o[x] # list /\ o[x] # head
    BY <2>2, <2>3, <2>4, <2>7, <1>1, <1>7
  <2>8. QED
    BY <2>5, <2>6, <2>7
<1>13. QED
  BY <1>8, <1>9, <1>10, <1>11, <1>12 DEF Members

(* The nodes of list put in front of those of head.                        *)
LEMMA JoinInOrder ==
  ASSUME NEW l, NEW o, NEW d, NEW list \in Heads, NEW head \in Heads,
         Sound(l, o), InOrder(l, o, d), list # head, o[list] # None, o[head] # None, d[list] # <<>>
  PROVE  InOrder(list_join(l, list, head),
                 [x \in All |-> IF x = list THEN None ELSE IF o[x] = list THEN head ELSE o[x]],
                 [d EXCEPT ![head] = d[list] \o d[head], ![list] = <<>>])
<1> USE ListAssumption
<1>u. PICK u : u = [x \in All |-> IF x = list THEN None ELSE IF o[x] = list THEN head ELSE o[x]]
  OBVIOUS
<1>e. PICK e : e = [d EXCEPT ![head] = d[list] \o d[head], ![list] = <<>>]
  OBVIOUS
<1>0. /\ o \in [All -> Heads \cup {None}] /\ OwnHeads(o) /\ Members(o, d) /\ Walk(l, o, d)
      /\ l.next \in [All -> All] /\ d \in [Heads -> Seq(Nodes)]
  BY DEF Sound, LinksTyped, InOrder, Members
<1>t. o \in [All -> Heads \cup {None}] /\ OwnHeads(o) /\ Members(o, d)
  BY <1>0
<1>1. Members(u, e)
  BY <1>0, <1>u, <1>e, JoinMembers
<1>2. e[head] = d[list] \o d[head] /\ \A h \in Heads : h # head /\ h # list => e[h] = d[h]
  BY <1>0, <1>e
<1>m. PICK m : m = list_join(l, list, head)
  OBVIOUS
<1>3. PICK a \in Nat : a = Len(d[list])
  BY <1>0, AtOwned
<1>4. PICK b \in Nat : b = Len(d[head])
  BY <1>0, AtOwned
<1>5. /\ a # 0 /\ Len(e[head]) = a + b /\ At(e, head, 0) = head
      /\ \A i \in 1..a : At(e, head, i) = At(d, list, i)
      /\ \A i \in 1..(b + 1) : At(e, head, a + i) = At(d, head, i)
  <2>0. Len(d[list]) # 0
    BY <1>0
  <2>1. d \in [Heads -> Seq(Nodes)] /\ d[list] \in Seq(Nodes) /\ d[head] \in Seq(Nodes)
    BY <1>0
  <2>2. Joined(d[list], d[head], d[list] \o d[head])
    BY <2>1, ConcatJoins
  <2>3. Joined(d[list], d[head], e[head])
    BY <1>2, <2>2
  <2>4. /\ At(e, head, 0) = head
        /\ \A i \in 1..Len(d[list]) : At(e, head, i) = At(d, list, i)
        /\ \A i \in 1..(Len(d[head]) + 1) : At(e, head, Len(d[list]) + i) = At(d, head, i)
    BY <2>1, <2>3, JoinedPlaces
  <2>5. Len(e[head]) = Len(d[list]) + Len(d[head])
    BY <2>3 DEF Joined
  <2>6. QED
    BY <2>0, <2>4, <2>5, <1>3, <1>4
<1>6. /\ At(d, list, 0) = list /\ At(d, list, a + 1) = list
      /\ \A i \in 0..(a + 1) : At(d, list, i) \in In(o) /\ o[At(d, list, i)] = list
      /\ \A i, j \in 0..a : At(d, list, i) = At(d, list, j) => i = j
  <2>1. /\ At(d, list, 0) = list /\ At(d, list, Len(d[list]) + 1) = list
        /\ \A i \in 0..(Len(d[list]) + 1) : At(d, list, i) \in In(o) /\ o[At(d, list, i)] = list
        /\ \A i, j \in 0..Len(d[list]) : At(d, list, i) = At(d, list, j) => i = j
    BY <1>t, AtOwned
  <2>2. QED
    BY <2>1, <1>3
<1>7. /\ At(d, head, 0) = head
      /\ \A i \in 0..(b + 1) : At(d, head, i) \in In(o) /\ o[At(d, head, i)] = head
      /\ \A i, j \in 0..b : At(d, head, i) = At(d, head, j) => i = j
  <2>1. /\ At(d, head, 0) = head /\ At(d, head, Len(d[head]) + 1) = head
        /\ \A i \in 0..(Len(d[head]) + 1) : At(d, head, i) \in In(o) /\ o[At(d, head, i)] = head
        /\ \A i, j \in 0..Len(d[head]) : At(d, head, i) = At(d, head, j) => i = j
    BY <1>t, AtOwned
  <2>2. QED
    BY <2>1, <1>4
<1>8. \A i \in 0..a : l.next[At(d, list, i)] = At(d, list, i + 1)
  BY <1>0, <1>3 DEF Walk
<1>9. \A i \in 0..b : l.next[At(d, head, i)] = At(d, head, i + 1)
  BY <1>0, <1>4 DEF Walk
<1>10. l.next[list] = At(d, list, 1) /\ l.next[head] = At(d, head, 1)
  <2>1. 0 \in 0..a /\ 0 \in 0..b /\ 0 + 1 = 1
    OBVIOUS
  <2>2. QED
    BY <2>1, <1>6, <1>7, <1>8, <1>9
<1>11. PICK y : y = At(d, list, a)
  OBVIOUS
<1>12. /\ l.prev[list] = y /\ y \in All /\ head \in All /\ y # head
       /\ \A i \in 0..a : At(d, list, i) = y => i = a
  <2>1. a \in 0..a /\ a \in 0..(a + 1)
    OBVIOUS
  <2>2. l.next[y] = list
    BY <2>1, <1>6, <1>8, <1>11
  <2>3. y \in In(o) /\ o[y] = list
    BY <2>1, <1>6, <1>11
  <2>4. l.prev[list] = y
    BY <2>2, <2>3 DEF Sound, Closed
  <2>5. o[head] = head
    BY <1>0 DEF OwnHeads
  <2>6. QED
    BY <2>1, <2>3, <2>4, <2>5, <1>6, <1>11 DEF In, All
<1>13. /\ m.next[head] = At(d, list, 1) /\ m.next[y] = At(d, head, 1)
       /\ \A x \in All : x # head /\ x # y => m.next[x] = l.next[x]
  <2>1. m.next = [[l.next EXCEPT ![head] = l.next[list]] EXCEPT ![l.prev[list]] = l.next[head]]
    BY <1>m DEF list_join
  <2>2. QED
    BY <2>1, <1>0, <1>10, <1>12
<1>14. ASSUME NEW h \in Heads, u[h] # None, h # head, NEW i \in 0..Len(e[h])
       PROVE  m.next[At(e, h, i)] = At(e, h, i + 1)
  <2>1. h # list /\ h \in All
    BY <1>14, <1>u DEF All
  <2>2. e[h] = d[h] /\ i \in 0..Len(d[h]) /\ o[h] # None
    BY <1>2, <1>14, <2>1, <1>u
  <2>3. At(e, h, i) = At(d, h, i) /\ At(e, h, i + 1) = At(d, h, i + 1)
    BY <2>2 DEF At
  <2>4. At(d, h, i) \in In(o) /\ o[At(d, h, i)] = h
    <3>1. i \in 0..(Len(d[h]) + 1)
      BY <2>2, <1>t, AtOwned
    <3>2. QED
      BY <2>2, <3>1, <1>t, AtOwned
  <2>5. l.next[At(d, h, i)] = At(d, h, i + 1)
    BY <1>0, <2>2 DEF Walk
  <2>6. o[head] = head /\ o[y] = list
    BY <1>0, <1>6, <1>11 DEF OwnHeads
  <2>7. At(d, h, i) \in All /\ At(d, h, i) # head /\ At(d, h, i) # y
    BY <1>14, <2>1, <2>4, <2>6 DEF In
  <2>8. QED
    BY <1>13, <2>3, <2>5, <2>7
<1>15. ASSUME NEW i \in 0..(a + b) PROVE m.next[At(e, head, i)] = At(e, head, i + 1)
  <2>1. CASE i = 0
    <3>1. 1 \in 1..a
      BY <1>5
    <3>2. At(e, head, 0) = head /\ At(e, head, 1) = At(d, list, 1) /\ i = 0 /\ i + 1 = 1
      <4>1. At(e, head, 1) = At(d, list, 1)
        BY <1>5, <3>1
      <4>2. QED
        BY <4>1, <1>5, <2>1
    <3>3. QED
      BY <1>13, <3>2
  <2>2. CASE i \in 1..a /\ i # a
    <3>1. i \in 1..a /\ i + 1 \in 1..a /\ i \in 0..a /\ i \in 0..(a + 1)
      BY <2>2
    <3>2. At(e, head, i) = At(d, list, i) /\ At(e, head, i + 1) = At(d, list, i + 1)
      BY <1>5, <3>1
    <3>3. At(d, list, i) \in All /\ o[At(d, list, i)] = list /\ At(d, list, i) # y
      BY <1>6, <1>12, <2>2, <3>1 DEF In
    <3>4. At(d, list, i) # head
      BY <3>3, <1>0 DEF OwnHeads
    <3>5. QED
      BY <1>8, <1>13, <3>1, <3>2, <3>3, <3>4
  <2>3. CASE i = a
    <3>1. i \in 1..a /\ 1 \in 1..(b + 1)
      BY <1>5, <2>3
    <3>2. At(e, head, i) = y /\ At(e, head, i + 1) = At(d, head, 1)
      BY <1>5, <1>11, <2>3, <3>1
    <3>3. QED
      BY <1>13, <3>2
  <2>4. CASE i > a
    <3>1. PICK j \in 1..b : i = a + j
      <4>1. i - a \in 1..b /\ i = a + (i - a)
        BY <2>4
      <4>2. QED
        BY <4>1
    <3>2. j \in 1..(b + 1) /\ j + 1 \in 1..(b + 1) /\ i + 1 = a + (j + 1) /\ j \in 0..b /\ j # 0 /\ 0 \in 0..b
          /\ j \in 0..(b + 1)
      BY <3>1
    <3>3. At(e, head, i) = At(d, head, j) /\ At(e, head, i + 1) = At(d, head, j + 1)
      BY <1>5, <3>1, <3>2
    <3>4. At(d, head, j) \in All /\ o[At(d, head, j)] = head /\ At(d, head, j) # head
      BY <1>7, <3>2 DEF In
    <3>5. o[y] = list
      BY <1>6, <1>11
    <3>6. QED
      BY <1>9, <1>13, <3>2, <3>3, <3>4, <3>5
  <2>5. QED
    BY <2>1, <2>2, <2>3, <2>4
<1>16. Walk(m, u, e)
  <2>1. \A i \in 0..Len(e[head]) : m.next[At(e, head, i)] = At(e, head, i + 1)
    BY <1>5, <1>15
  <2>2. QED
    BY <2>1, <1>14 DEF Walk
<1>17. QED
  BY <1>1, <1>16, <1>m, <1>u, <1>e DEF InOrder

(* A head out of use initialised: an empty list, the others as they were.  *)
LEMMA InitInOrder ==
  ASSUME NEW l, NEW o, NEW d, NEW h \in Heads, Sound(l, o), InOrder(l, o, d), o[h] = None
  PROVE  InOrder(INIT_LIST_HEAD(l, h), [o EXCEPT ![h] = h], d)
<1> USE ListAssumption
<1>m. PICK m : m = INIT_LIST_HEAD(l, h)
  OBVIOUS
<1>u. PICK u : u = [o EXCEPT ![h] = h]
  OBVIOUS
<1>0. /\ o \in [All -> Heads \cup {None}] /\ OwnHeads(o) /\ Members(o, d) /\ Walk(l, o, d)
      /\ l.next \in [All -> All] /\ d \in [Heads -> Seq(Nodes)] /\ h \in All
  BY DEF Sound, LinksTyped, InOrder, Members, All
<1>1. /\ u[h] = h /\ \A x \in All \ {h} : u[x] = o[x]
      /\ d[h] = <<>> /\ m.next[h] = h /\ \A x \in All \ {h} : m.next[x] = l.next[x]
  <2>1. m.next = [l.next EXCEPT ![h] = h]
    BY <1>m DEF INIT_LIST_HEAD
  <2>2. d[h] = <<>>
    BY <1>0 DEF Members
  <2>3. QED
    BY <1>0, <1>u, <2>1, <2>2
<1>2. Members(u, d)
  <2>1. \A g \in Heads : \A i \in DOMAIN d[g] : d[g][i] \in Nodes /\ o[d[g][i]] = g
    BY <1>0 DEF Members
  <2>2. \A x \in Nodes : u[x] = o[x]
    BY <1>1 DEF All
  <2>3. \A g \in Heads : u[g] = None => d[g] = <<>>
    BY <1>0, <1>1 DEF Members, All
  <2>4. \A g \in Heads : \A i \in DOMAIN d[g] : u[d[g][i]] = g
    BY <2>1, <2>2
  <2>5. \A x \in Nodes : u[x] # None => \E i \in DOMAIN d[u[x]] : d[u[x]][i] = x
    BY <1>0, <2>2 DEF Members
  <2>6. QED
    BY <1>0, <2>3, <2>4, <2>5 DEF Members
<1>3. ASSUME NEW g \in Heads, u[g] # None, NEW i \in 0..Len(d[g])
      PROVE  m.next[At(d, g, i)] = At(d, g, i + 1)
  <2>1. CASE g = h
    <3>1. 0 \notin DOMAIN d[h] /\ 1 \notin DOMAIN d[h] /\ Len(d[h]) = 0
      BY <1>1
    <3>2. i = 0 /\ i + 1 = 1
      BY <1>3, <2>1, <3>1
    <3>3. QED
      BY <1>1, <2>1, <3>1, <3>2 DEF At
  <2>2. CASE g # h
    <3>1. o[g] # None
      BY <1>1, <1>3, <2>2 DEF All
    <3>2. i \in 0..(Len(d[g]) + 1)
      BY <3>1, <1>0, AtOwned
    <3>3. At(d, g, i) \in In(o)
      BY <3>1, <3>2, <1>0, AtOwned
    <3>4. At(d, g, i) \in All \ {h}
      BY <3>3 DEF In
    <3>5. QED
      BY <3>1, <3>4, <1>0, <1>1 DEF Walk
  <2>3. QED
    BY <2>1, <2>2
<1>4. QED
  BY <1>2, <1>3, <1>m, <1>u DEF InOrder, Walk

-----------------------------------------------------------------------------
(* list_add_tail inserts behind prev[head]: the last place of the list.    *)
LEMMA PrevIsLast ==
  ASSUME NEW l, NEW o, NEW d, NEW h \in Heads, Sound(l, o), InOrder(l, o, d), o[h] # None
  PROVE  l.prev[h] = At(d, h, Len(d[h]))
<1>0. /\ o \in [All -> Heads \cup {None}] /\ OwnHeads(o) /\ Members(o, d) /\ Walk(l, o, d)
  BY DEF Sound, LinksTyped, InOrder
<1>1. /\ Len(d[h]) \in Nat /\ At(d, h, Len(d[h]) + 1) = h
      /\ \A i \in 0..(Len(d[h]) + 1) : At(d, h, i) \in In(o)
  BY <1>0, AtOwned
<1>2. PICK n \in Nat : n = Len(d[h])
  BY <1>1
<1>3. n \in 0..n /\ n \in 0..(n + 1)
  BY <1>2
<1>4. l.next[At(d, h, n)] = At(d, h, n + 1)
  BY <1>0, <1>2, <1>3 DEF Walk
<1>5. l.next[At(d, h, n)] = h /\ At(d, h, n) \in In(o)
  BY <1>1, <1>2, <1>3, <1>4
<1>6. QED
  BY <1>2, <1>5 DEF Sound, Closed

LEMMA WithoutRemoves ==
  ASSUME NEW o, NEW d, NEW x \in Nodes, NEW h \in Heads, Members(o, d), o[x] = h, h # None
  PROVE  \E k \in 1..Len(d[h]) : d[h][k] = x /\ Removed(d[h], k, Without(d[h], x))
<1>1. d[h] \in Seq(Nodes) /\ \E i \in DOMAIN d[h] : d[h][i] = x
  BY DEF Members
<1>2. PICK s \in Seq(Nodes) : s = d[h]
  BY <1>1
<1>3. PICK k : k = CHOOSE i \in DOMAIN s : s[i] = x
  OBVIOUS
<1>4. k \in DOMAIN s /\ s[k] = x
  BY <1>1, <1>2, <1>3
<1>5. k \in 1..Len(s)
  BY <1>4
<1>6. Without(s, x) = RemoveAt(s, k)
  BY <1>3 DEF Without
<1>7. Removed(s, k, Without(s, x))
  BY <1>5, <1>6, RemoveAtRemoves
<1>8. QED
  BY <1>2, <1>4, <1>5, <1>7

OrderInv == ListInv /\ InOrder(Links, owner, order)

(* A node that leaves its list, in the middle of list_move too.            *)
LEMMA TakeOutInOrder ==
  ASSUME OrderInv, NEW x \in Nodes \cap linked
  PROVE  InOrder(list_unlink(Links, prev[x], next[x]), [owner EXCEPT ![x] = None], OrderWithout(x))
<1> USE ListAssumption
<1>1. owner \in [All -> Heads \cup {None}] /\ Members(owner, order)
  BY DEF OrderInv, ListInv, Sound, LinksTyped, InOrder
<1>2. PICK h \in Heads : h = owner[x] /\ h # None
  BY <1>1 DEF linked
<1>3. PICK k \in 1..Len(order[h]) : order[h][k] = x /\ Removed(order[h], k, Without(order[h], x))
  BY <1>1, <1>2, WithoutRemoves
<1>4. owner[h] # None
  <2>1. order[h] \in Seq(Nodes)
    BY <1>1 DEF Members
  <2>2. k \in DOMAIN order[h] /\ k \notin DOMAIN <<>>
    BY <2>1
  <2>3. order[h] # <<>>
    BY <2>2
  <2>4. QED
    BY <2>3, <1>1 DEF Members
<1>5. PICK t : t = Without(order[h], x)
  OBVIOUS
<1>6. Removed(order[h], k, t)
  BY <1>3, <1>5
<1>7. Sound(Links, owner) /\ InOrder(Links, owner, order) /\ owner[x] = h /\ order[h][k] = x
  BY <1>2, <1>3 DEF OrderInv, ListInv
<1>8. InOrder(list_unlink(Links, Links.prev[x], Links.next[x]), [owner EXCEPT ![x] = None], [order EXCEPT ![h] = t])
  BY <1>4, <1>6, <1>7, UnlinkInOrder
<1>9. OrderWithout(x) = [order EXCEPT ![h] = t]
  BY <1>2, <1>5 DEF OrderWithout
<1>10. QED
  BY <1>8, <1>9 DEF Links

LEMMA FrontInOrder ==
  ASSUME NEW l, NEW o, NEW d, NEW node \in Nodes, NEW head \in Heads,
         Sound(l, o), InOrder(l, o, d), o[node] = None, o[head] # None
  PROVE  InOrder(list_insert(l, node, head, l.next[head]), [o EXCEPT ![node] = head],
                 [d EXCEPT ![head] = <<node>> \o d[head]])
<1>1. /\ d[head] \in Seq(Nodes)
      /\ o \in [All -> Heads \cup {None}] /\ OwnHeads(o) /\ Members(o, d)
  BY DEF InOrder, Members, Sound, LinksTyped
<1>2. PICK t : t = <<node>> \o d[head]
  OBVIOUS
<1>3. Inserted(d[head], 0, node, t)
  <2>1. Inserted(d[head], 0, node, <<node>> \o d[head])
    BY <1>1, PrependInserts
  <2>2. QED
    BY <1>2, <2>1
<1>4. head = At(d, head, 0) /\ 0 \in 0..Len(d[head])
  <2>1. At(d, head, 0) = head
    BY <1>1, AtOwned
  <2>2. Len(d[head]) \in Nat
    BY <1>1
  <2>3. QED
    BY <2>1, <2>2
<1>5. InOrder(list_insert(l, node, head, l.next[head]), [o EXCEPT ![node] = head], [d EXCEPT ![head] = t])
  BY <1>3, <1>4, InsertInOrder
<1>6. QED
  BY <1>2, <1>5

LEMMA BackInOrder ==
  ASSUME NEW l, NEW o, NEW d, NEW node \in Nodes, NEW head \in Heads,
         Sound(l, o), InOrder(l, o, d), o[node] = None, o[head] # None
  PROVE  InOrder(list_insert(l, node, l.prev[head], head), [o EXCEPT ![node] = head],
                 [d EXCEPT ![head] = Append(d[head], node)])
<1>1. d[head] \in Seq(Nodes) /\ Len(d[head]) \in Nat
  BY DEF InOrder, Members
<1>2. PICK t : t = Append(d[head], node)
  OBVIOUS
<1>3. PICK k \in 0..Len(d[head]) : k = Len(d[head])
  BY <1>1
<1>4. Inserted(d[head], k, node, t)
  <2>1. Inserted(d[head], Len(d[head]), node, Append(d[head], node))
    BY <1>1, AppendInserts
  <2>2. QED
    BY <1>2, <1>3, <2>1
<1>5. l.prev[head] = At(d, head, k)
  BY <1>3, PrevIsLast
<1>6. l.next[l.prev[head]] = head
  BY DEF Sound, Closed, In, OwnHeads, All
<1>7. InOrder(list_insert(l, node, l.prev[head], l.next[l.prev[head]]), [o EXCEPT ![node] = head],
              [d EXCEPT ![head] = t])
  BY <1>4, <1>5, InsertInOrder
<1>8. QED
  BY <1>2, <1>6, <1>7

LEMMA OrderInit == ListInit => OrderInv
<1> SUFFICES ASSUME ListInit PROVE OrderInv
  OBVIOUS
<1> USE ListAssumption
<1>1. ListInv
  BY ListInitSound
<1>2. /\ \A h \in Heads : order[h] = <<>> /\ owner[h] = h /\ next[h] = h
      /\ \A x \in Nodes : owner[x] = None
      /\ order \in [Heads -> Seq(Nodes)]
  BY DEF ListInit, All
<1>3. \A i : i \notin DOMAIN <<>>
  OBVIOUS
<1>4. \A h \in Heads : \A i : i \notin DOMAIN order[h]
  BY <1>2, <1>3
<1>5. Members(owner, order)
  BY <1>2, <1>4 DEF Members
<1>6. Walk(Links, owner, order)
  BY <1>2, <1>4 DEF Walk, At, Links
<1>7. QED
  BY <1>1, <1>5, <1>6 DEF OrderInv, InOrder

LEMMA OrderStep == OrderInv /\ [ListNext]_listVars => OrderInv'
<1> SUFFICES ASSUME OrderInv, [ListNext]_listVars PROVE OrderInv'
  OBVIOUS
<1> USE ListAssumption
<1>0. /\ ListInv /\ Sound(Links, owner) /\ InOrder(Links, owner, order)
      /\ Links.next = next /\ Links.prev = prev
      /\ owner \in [All -> Heads \cup {None}] /\ OwnHeads(owner) /\ order \in [Heads -> Seq(Nodes)]
  BY DEF OrderInv, ListInv, Sound, LinksTyped, InOrder, Members, Links
<1>i. ListInv'
  BY <1>0, ListStep
<1>a. ASSUME NEW m, m = [next |-> m.next, prev |-> m.prev], Become(m), InOrder(m, owner', order') PROVE OrderInv'
  <2>1. Links' = m
    BY <1>a DEF Become, Links
  <2>2. QED
    BY <1>a, <1>i, <2>1 DEF OrderInv
<1>b. \A l, node, p, n : LET m == list_insert(l, node, p, n) IN m = [next |-> m.next, prev |-> m.prev]
  BY DEF list_insert
<1>c. \A h \in Heads : h \in linked => owner[h] # None /\ owner[h] = h
  BY <1>0 DEF linked, OwnHeads
<1>1. ASSUME NEW x \in Nodes, NEW h \in Heads, list_add(x, h) PROVE OrderInv'
  <2>1. /\ owner[x] = None /\ owner[h] # None /\ Become(list_insert(Links, x, h, Links.next[h]))
        /\ owner' = [owner EXCEPT ![x] = h] /\ order' = [order EXCEPT ![h] = <<x>> \o order[h]]
    BY <1>0, <1>1 DEF list_add, linked, All
  <2>2. InOrder(list_insert(Links, x, h, Links.next[h]), owner', order')
    BY <1>0, <2>1, FrontInOrder
  <2>3. QED
    BY <1>a, <1>b, <2>1, <2>2
<1>2. ASSUME NEW x \in Nodes, NEW h \in Heads, list_add_tail(x, h) PROVE OrderInv'
  <2>1. /\ owner[x] = None /\ owner[h] # None /\ Become(list_insert(Links, x, Links.prev[h], h))
        /\ owner' = [owner EXCEPT ![x] = h] /\ order' = [order EXCEPT ![h] = Append(order[h], x)]
    BY <1>0, <1>2 DEF list_add_tail, linked, All
  <2>2. InOrder(list_insert(Links, x, Links.prev[h], h), owner', order')
    BY <1>0, <2>1, BackInOrder
  <2>3. QED
    BY <1>a, <1>b, <2>1, <2>2
<1>3. ASSUME NEW x \in Nodes, list_del(x) PROVE OrderInv'
  <2>1. InOrder(list_unlink(Links, prev[x], next[x]), owner', order')
    BY <1>3, TakeOutInOrder DEF list_del
  <2>2. QED
    BY <1>3, <1>a, <2>1 DEF list_del, list_unlink
<1>4. ASSUME NEW x \in Nodes \cap linked, NEW h \in Heads \cap linked
      PROVE  LET l == list_unlink(Links, prev[x], next[x])
                 o == [owner EXCEPT ![x] = None]
             IN  /\ Sound(l, o) /\ InOrder(l, o, OrderWithout(x)) /\ o[x] = None /\ o[h] # None
                 /\ [o EXCEPT ![x] = h] = [owner EXCEPT ![x] = h]
  <2> DEFINE l == list_unlink(Links, prev[x], next[x])
             o == [owner EXCEPT ![x] = None]
  <2>1. Sound(l, o)
    <3>1. Sound(list_unlink(Links, Links.prev[x], Links.next[x]), [owner EXCEPT ![x] = None])
      BY <1>0, <1>4, UnlinkKeeps DEF linked
    <3>2. QED
      BY <1>0, <3>1
  <2>2. InOrder(l, o, OrderWithout(x))
    BY <1>4, TakeOutInOrder
  <2>3. o[x] = None /\ o[h] # None /\ [o EXCEPT ![x] = h] = [owner EXCEPT ![x] = h]
    BY <1>0, <1>4, <1>c DEF All
  <2>4. QED
    BY <2>1, <2>2, <2>3
<1>5. ASSUME NEW x \in Nodes, NEW h \in Heads, list_move(x, h) PROVE OrderInv'
  <2>1. PICK l : l = list_unlink(Links, prev[x], next[x])
    OBVIOUS
  <2>2. PICK o : o = [owner EXCEPT ![x] = None]
    OBVIOUS
  <2>3. PICK d : d = OrderWithout(x)
    OBVIOUS
  <2>4. x \in Nodes \cap linked /\ h \in Heads \cap linked
    BY <1>5 DEF list_move
  <2>5. /\ Sound(l, o) /\ InOrder(l, o, d) /\ o[x] = None /\ o[h] # None
        /\ [o EXCEPT ![x] = h] = [owner EXCEPT ![x] = h]
    BY <1>4, <2>1, <2>2, <2>3, <2>4
  <2>6. Become(list_insert(l, x, h, l.next[h])) /\ owner' = [o EXCEPT ![x] = h]
    BY <1>5, <2>1, <2>5 DEF list_move
  <2>7. order' = [d EXCEPT ![h] = <<x>> \o d[h]]
    BY <1>5, <2>3 DEF list_move
  <2>8. InOrder(list_insert(l, x, h, l.next[h]), owner', order')
    BY <2>5, <2>6, <2>7, FrontInOrder
  <2>9. QED
    BY <1>a, <1>b, <2>6, <2>8
<1>6. ASSUME NEW x \in Nodes, NEW h \in Heads, list_move_tail(x, h) PROVE OrderInv'
  <2>1. PICK l : l = list_unlink(Links, prev[x], next[x])
    OBVIOUS
  <2>2. PICK o : o = [owner EXCEPT ![x] = None]
    OBVIOUS
  <2>3. PICK d : d = OrderWithout(x)
    OBVIOUS
  <2>4. x \in Nodes \cap linked /\ h \in Heads \cap linked
    BY <1>6 DEF list_move_tail
  <2>5. /\ Sound(l, o) /\ InOrder(l, o, d) /\ o[x] = None /\ o[h] # None
        /\ [o EXCEPT ![x] = h] = [owner EXCEPT ![x] = h]
    BY <1>4, <2>1, <2>2, <2>3, <2>4
  <2>6. Become(list_insert(l, x, l.prev[h], h)) /\ owner' = [o EXCEPT ![x] = h]
    BY <1>6, <2>1, <2>5 DEF list_move_tail
  <2>7. order' = [d EXCEPT ![h] = Append(d[h], x)]
    BY <1>6, <2>3 DEF list_move_tail
  <2>8. InOrder(list_insert(l, x, l.prev[h], h), owner', order')
    BY <2>5, <2>6, <2>7, BackInOrder
  <2>9. QED
    BY <1>a, <1>b, <2>6, <2>8
<1>7. ASSUME NEW s \in Heads, NEW h \in Heads, {s, h} \subseteq linked, s # h, ~list_empty(s)
      PROVE  InOrder(list_join(Links, s, h),
                     [x \in All |-> IF x = s THEN None ELSE IF owner[x] = s THEN h ELSE owner[x]],
                     [order EXCEPT ![h] = order[s] \o order[h], ![s] = <<>>])
  <2>1. order[s] # <<>>
    <3>1. SUFFICES ASSUME order[s] = <<>> PROVE FALSE
      OBVIOUS
    <3>2. \A i : i \notin DOMAIN <<>>
      OBVIOUS
    <3>3. Len(order[s]) = 0 /\ \A i : i \notin DOMAIN order[s]
      BY <3>1, <3>2
    <3>4. 0 \in 0..Len(order[s])
      BY <3>3
    <3>5. Links.next[At(order, s, 0)] = At(order, s, 0 + 1)
      BY <1>0, <1>c, <1>7, <3>4 DEF InOrder, Walk
    <3>6. next[s] = s
      BY <1>0, <3>3, <3>5 DEF At
    <3>7. QED
      BY <1>7, <3>6 DEF list_empty
  <2>2. QED
    BY <1>0, <1>c, <1>7, <2>1, JoinInOrder
<1>8. ASSUME NEW s \in Heads, NEW h \in Heads, list_splice(s, h) PROVE OrderInv'
  <2>1. CASE list_empty(s)
    BY <1>8, <1>i, <2>1 DEF list_splice, listVars, Links, OrderInv
  <2>2. CASE ~list_empty(s)
    <3>1. InOrder(list_join(Links, s, h), owner', order')
      BY <1>7, <1>8, <2>2 DEF list_splice
    <3>2. QED
      BY <1>a, <1>8, <2>2, <3>1 DEF list_splice, list_join
  <2>3. QED
    BY <2>1, <2>2
<1>9. ASSUME NEW s \in Heads, NEW h \in Heads, list_splice_init(s, h) PROVE OrderInv'
  <2>1. CASE list_empty(s)
    BY <1>9, <1>i, <2>1 DEF list_splice_init, listVars, Links, OrderInv
  <2>2. CASE ~list_empty(s)
    <3>1. PICK l : l = list_join(Links, s, h)
      OBVIOUS
    <3>2. PICK o : o = [x \in All |-> IF x = s THEN None ELSE IF owner[x] = s THEN h ELSE owner[x]]
      OBVIOUS
    <3>3. s # h /\ owner[s] = s /\ owner[s] # None /\ owner[h] # None /\ next[s] # s /\ s \in All
      BY <1>9, <1>c, <2>2 DEF list_splice_init, list_empty, All
    <3>4. Sound(l, o)
      BY <1>0, <3>1, <3>2, <3>3, JoinKeeps
    <3>5. order' = [order EXCEPT ![h] = order[s] \o order[h], ![s] = <<>>]
      BY <1>9, <2>2 DEF list_splice_init
    <3>6. InOrder(l, o, order')
      <4>1. {s, h} \subseteq linked
        BY <1>9 DEF list_splice_init
      <4>2. QED
        BY <1>7, <2>2, <3>1, <3>2, <3>3, <3>5, <4>1
    <3>7. o[s] = None /\ owner' = [o EXCEPT ![s] = s]
      <4>1. owner' = [x \in All |-> IF x # s /\ owner[x] = s THEN h ELSE owner[x]]
        BY <1>9, <2>2 DEF list_splice_init
      <4>2. QED
        BY <3>2, <3>3, <4>1
    <3>8. InOrder(INIT_LIST_HEAD(l, s), owner', order')
      BY <3>4, <3>6, <3>7, InitInOrder
    <3>9. QED
      BY <1>a, <1>9, <2>2, <3>1, <3>8 DEF list_splice_init, INIT_LIST_HEAD
  <2>3. QED
    BY <2>1, <2>2
<1>10. ASSUME NEW h \in Heads, Reinit(h) PROVE OrderInv'
  <2>1. InOrder(INIT_LIST_HEAD(Links, h), owner', order')
    BY <1>0, <1>10, InitInOrder DEF Reinit, linked, All
  <2>2. QED
    BY <1>a, <1>10, <2>1 DEF Reinit, INIT_LIST_HEAD
<1>11. CASE UNCHANGED listVars
  BY <1>11, <1>i DEF listVars, Links, OrderInv
<1>12. QED
  BY <1>1, <1>2, <1>3, <1>5, <1>6, <1>8, <1>9, <1>10, <1>11 DEF ListNext

(* A walk along the list of a head in use meets the places in their order, *)
(* back along prev too, and ends at the head.                              *)
LEMMA OrderIsWalk == OrderInv => WalkIsOrder
<1> SUFFICES ASSUME OrderInv, NEW h \in Heads \cap linked, NEW i \in DOMAIN Ring(h)
             PROVE  LET r == Ring(h)
                    IN  next[r[i]] = r[(i % Len(r)) + 1] /\ prev[r[(i % Len(r)) + 1]] = r[i]
  BY DEF WalkIsOrder
<1>0. /\ owner \in [All -> Heads \cup {None}] /\ OwnHeads(owner) /\ Members(owner, order)
      /\ owner[h] # None /\ Walk(Links, owner, order) /\ h \in Heads
      /\ \A x \in In(owner) : prev[next[x]] = x
  BY DEF OrderInv, ListInv, Sound, LinksTyped, Closed, InOrder, linked, Links
<1>1. PICK n \in Nat : n = Len(order[h])
  BY <1>0, AtOwned
<1>2. /\ order[h] \in Seq(Nodes) /\ DOMAIN order[h] = 1..n
      /\ At(order, h, 0) = h /\ At(order, h, n + 1) = h
      /\ \A j \in 0..(n + 1) : At(order, h, j) \in In(owner)
  BY <1>0, <1>1, AtOwned
<1>3. PICK r : r = Ring(h)
  OBVIOUS
<1>4. DOMAIN r = 1..(n + 1) /\ Len(r) = n + 1 /\ r[1] = h /\ \A j \in 1..n : r[j + 1] = order[h][j]
  BY <1>1, <1>2, <1>3 DEF Ring
<1>5. \A j \in 0..n : r[j + 1] = At(order, h, j)
  <2>1. \A j \in 0..n : j = 0 \/ j \in 1..n
    OBVIOUS
  <2>2. \A j \in 1..n : r[j + 1] = At(order, h, j)
    BY <1>2, <1>4 DEF At
  <2>3. r[0 + 1] = At(order, h, 0)
    BY <1>2, <1>4
  <2>4. QED
    BY <2>1, <2>2, <2>3
<1>6. PICK j \in 0..n : i = j + 1
  <2>1. i - 1 \in 0..n /\ i = (i - 1) + 1
    BY <1>3, <1>4
  <2>2. QED
    BY <2>1
<1>7. r[(i % Len(r)) + 1] = At(order, h, j + 1)
  <2>1. CASE j = n
    <3>1. i % Len(r) = 0
      BY <1>4, <1>6, <2>1
    <3>2. QED
      BY <1>2, <1>4, <2>1, <3>1
  <2>2. CASE j # n
    <3>1. i % Len(r) = i /\ j + 1 \in 0..n
      BY <1>4, <1>6, <2>2
    <3>2. r[(j + 1) + 1] = At(order, h, j + 1)
      BY <1>5, <3>1
    <3>3. QED
      BY <1>6, <3>1, <3>2
  <2>3. QED
    BY <2>1, <2>2
<1>8. next[At(order, h, j)] = At(order, h, j + 1)
  BY <1>0, <1>1 DEF Walk, Links
<1>9. r[i] = At(order, h, j)
  BY <1>5, <1>6
<1>10. prev[At(order, h, j + 1)] = At(order, h, j)
  <2>1. j \in 0..(n + 1)
    OBVIOUS
  <2>2. QED
    BY <2>1, <1>0, <1>2, <1>8
<1>11. QED
  BY <1>3, <1>7, <1>8, <1>9, <1>10

(* list_for_each and list_for_each_prev meet exactly the nodes the caller  *)
(* put into a list, in the order it put them, after any sequence of adds,  *)
(* deletes, moves and splices: no call loses a node or meets one twice.    *)
THEOREM WalksMeetTheOrder == ListSpec => []WalkIsOrder
<1>1. QED
  BY OrderInit, OrderStep, OrderIsWalk, PTL DEF ListSpec
=============================================================================
