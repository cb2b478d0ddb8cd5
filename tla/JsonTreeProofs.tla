--------------------------- MODULE JsonTreeProofs ----------------------------
(*****************************************************************************)
(* The calls of cJSON.c keep the memory a forest, and each changes it by one *)
(* step of JsonForest, for any number of items, strings, keys and calls.     *)
(*                                                                           *)
(* LinksSound and NoLeak are not inductive: they speak of lists as the code  *)
(* walks them, which says nothing once a link is wrong, and a reference may  *)
(* show what another call frees.  The invariant IInv is that memory holds    *)
(* some forest k (Heap of JsonHeapProofs): every item has one place, the     *)
(* pointers are what k says, references show items of the forest, what is    *)
(* out of reach is a lost reference, and as many strings are allocated as    *)
(* the items own.                                                            *)
(*                                                                           *)
(* Every call ends in an Outcome: a memory that holds a forest one move away. *)
(* A call that makes several items is followed through the memories between  *)
(* (Growing: what was there before is as it was), also where it fails and    *)
(* deletes what it has made.  cJSON_Duplicate and cJSON_Create...Array are   *)
(* loops; the lemma Induction takes a fact about one turn to all of them.    *)
(* What cJSON_Duplicate makes is followed a second time, item by item        *)
(* (Duplicating): a copy has the data of its original, and links to copies.  *)
(*                                                                           *)
(* cJSON_Compare and the values of items are taken level by level: if the    *)
(* calls on members compare values, so does the call that makes them         *)
(* (CompareOnce).  A look-up by name finds the one member that has it        *)
(* (FoundIs), so each object has the members of the other.                   *)
(*****************************************************************************)
EXTENDS JsonHeapProofs, JsonCompare

-----------------------------------------------------------------------------
(* Single items. *)

(* m with the item i as it is, new or in place of the old one. *)
With(m, i, it, s) == [at |-> [j \in DOMAIN m.at \cup {i} |-> IF j = i THEN it ELSE m.at[j]], strs |-> s]

(* A memory is itself with one of its items as it is. *)
LEMMA WithSelf ==
  ASSUME NEW m, IsMemory(m), NEW i \in DOMAIN m.at
  PROVE  m = With(m, i, m.at[i], m.strs)
<1>1. DOMAIN m.at \cup {i} = DOMAIN m.at
  OBVIOUS
<1>2. [j \in DOMAIN m.at \cup {i} |-> IF j = i THEN m.at[i] ELSE m.at[j]] = [j \in DOMAIN m.at |-> m.at[j]]
  BY <1>1
<1>3. m = [at |-> m.at, strs |-> m.strs] /\ m.at = [j \in DOMAIN m.at |-> m.at[j]]
  BY DEF IsMemory
<1> QED BY <1>2, <1>3 DEF With

(* The item with another value in a field. *)
Changed(it, f, v) == [it EXCEPT ![f] = v]

(* Storing into the item i of With. *)
LEMMA WithPut ==
  ASSUME NEW m, NEW i, NEW it, NEW s, NEW f, NEW v
  PROVE  Put(With(m, i, it, s), i, f, v) = With(m, i, Changed(it, f, v), s)
<1> DEFINE D == DOMAIN m.at \cup {i}
           F == [j \in D |-> IF j = i THEN it ELSE m.at[j]]
           e == [it EXCEPT ![f] = v]
           w == With(m, i, it, s)
<1>1. w = [at |-> F, strs |-> s]
  BY DEF With
<1>2. F[i] = it /\ i \in D
  OBVIOUS
<1>3. Put(w, i, f, v) = [w EXCEPT !.at = [F EXCEPT ![i] = e]]
  BY <1>1, <1>2 DEF Put
<1>4. [F EXCEPT ![i] = e] = [j \in D |-> IF j = i THEN e ELSE m.at[j]]
  <2> HIDE DEF e, D
  <2> QED OBVIOUS
<1>5. [w EXCEPT !.at = [F EXCEPT ![i] = e]] = [at |-> [F EXCEPT ![i] = e], strs |-> s]
  <2> DEFINE G == [F EXCEPT ![i] = e]
  <2> HIDE DEF F, G, w
  <2>1. [[at |-> F, strs |-> s] EXCEPT !.at = G] = [at |-> G, strs |-> s]
    OBVIOUS
  <2> QED BY <1>1, <2>1 DEF G
<1> QED BY <1>3, <1>4, <1>5 DEF With, Changed

(* Allocating and freeing a string of the item i of With. *)
LEMMA WithDup ==
  ASSUME NEW m, NEW i, NEW it, NEW s, NEW f, NEW v
  PROVE  /\ cJSON_strdup(With(m, i, it, s), i, f, v) = With(m, i, Changed(it, f, v), s + 1)
         /\ FreeString(With(m, i, it, s), i, f) = With(m, i, Changed(it, f, Null), s - 1)
<1>1. \A u : Put(With(m, i, it, s), i, f, u) = With(m, i, Changed(it, f, u), s)
  BY WithPut
<1>2. \A e : [With(m, i, e, s) EXCEPT !.strs = @ + 1] = With(m, i, e, s + 1)
  <2> TAKE e
  <2> DEFINE F == [j \in DOMAIN m.at \cup {i} |-> IF j = i THEN e ELSE m.at[j]]
  <2>1. With(m, i, e, s) = [at |-> F, strs |-> s] /\ With(m, i, e, s + 1) = [at |-> F, strs |-> s + 1]
    BY DEF With
  <2> HIDE DEF F
  <2> QED BY <2>1
<1>3. \A e : [With(m, i, e, s) EXCEPT !.strs = @ - 1] = With(m, i, e, s - 1)
  <2> TAKE e
  <2> DEFINE F == [j \in DOMAIN m.at \cup {i} |-> IF j = i THEN e ELSE m.at[j]]
  <2>1. With(m, i, e, s) = [at |-> F, strs |-> s] /\ With(m, i, e, s - 1) = [at |-> F, strs |-> s - 1]
    BY DEF With
  <2> HIDE DEF F
  <2> QED BY <2>1
<1> QED BY <1>1, <1>2, <1>3 DEF cJSON_strdup, FreeString

(* What With holds. *)
LEMMA WithIs ==
  ASSUME NEW m, IsMemory(m), NEW i \in Items, NEW it \in ItemOf, NEW s \in Int
  PROVE  /\ IsMemory(With(m, i, it, s))
         /\ DOMAIN With(m, i, it, s).at = DOMAIN m.at \cup {i}
         /\ With(m, i, it, s).at[i] = it
         /\ \A j \in DOMAIN m.at : j # i => With(m, i, it, s).at[j] = m.at[j]
         /\ With(m, i, it, s).strs = s
<1> DEFINE D == DOMAIN m.at \cup {i}
           F == [j \in D |-> IF j = i THEN it ELSE m.at[j]]
<1>1. With(m, i, it, s) = [at |-> F, strs |-> s]
  BY DEF With
<1>2. /\ DOMAIN F = D /\ F = [j \in D |-> F[j]] /\ F[i] = it /\ \A j \in DOMAIN m.at : j # i => F[j] = m.at[j]
      /\ \A j \in D : F[j] \in ItemOf
  BY DEF IsMemory
<1>3. D \in SUBSET Items
  BY DEF IsMemory
<1> HIDE DEF F, D
<1>4. IsMemory([at |-> F, strs |-> s])
  BY <1>2, <1>3, MemoryOf
<1> QED BY <1>1, <1>2, <1>4 DEF D

(* With, where the strings of the item are accounted for. *)
LEMMA WithBalance ==
  ASSUME NEW m, IsMemory(m), NEW i \in Items, NEW it \in ItemOf, NEW s \in Int,
         s = m.strs - (IF i \in DOMAIN m.at THEN Weight(m.at[i]) ELSE 0) + Weight(it)
  PROVE  Balance(With(m, i, it, s)) = Balance(m)
<1> DEFINE n == With(m, i, it, s)
<1>1. /\ IsMemory(n) /\ DOMAIN n.at = DOMAIN m.at \cup {i} /\ n.at[i] = it
      /\ (\A j \in DOMAIN m.at : j # i => n.at[j] = m.at[j]) /\ n.strs = s
  BY WithIs
<1> HIDE DEF n
<1>2. AlikeBut(m, n, i) /\ i \in DOMAIN n.at
  BY <1>1 DEF AlikeBut
<1>3. n.strs - Weight(n.at[i]) = m.strs - (IF i \in DOMAIN m.at THEN Weight(m.at[i]) ELSE 0)
  <2>1. m.strs \in Int /\ (i \in DOMAIN m.at => Weight(m.at[i]) \in Nat)
    BY BalanceSplit
  <2>2. Weight(n.at[i]) \in Nat
    BY <1>1, <1>2, BalanceSplit
  <2> QED BY <1>1, <2>1, <2>2
<1>4. Balance(n) = Balance(m)
  BY <1>2, <1>3, BalanceKept
<1> QED BY <1>4 DEF n

(* A new item that has nothing below it is deleted again. *)
LEMMA DeleteNew ==
  ASSUME NEW m, IsMemory(m), NEW i \in Items \ DOMAIN m.at, NEW it \in ItemOf, NEW s \in Int,
         s = m.strs + Weight(it), it.next = Null, it.ref \/ it.child = Null
  PROVE  cJSON_Delete(With(m, i, it, s), i) = m
<1> DEFINE w == With(m, i, it, s)
           n == cJSON_Delete(w, i)
<1>1. /\ IsMemory(w) /\ DOMAIN w.at = DOMAIN m.at \cup {i} /\ w.at[i] = it
      /\ \A j \in DOMAIN m.at : w.at[j] = m.at[j]
  BY WithIs
<1>2. Balance(w) = Balance(m)
  BY WithBalance DEF IsMemory
<1> HIDE DEF w
<1>3. Tidy(w, i, {i})
  <2>1. Closed(w, {i})
    BY <1>1 DEF Closed
  <2>2. ~Leads(w, i, i)
    BY <1>1, TreeAssumption DEF Leads
  <2> QED BY <1>1, <2>1, <2>2 DEF Tidy
<1>4. Freed(w, n, {i})
  BY <1>1, <1>3, DeleteTidy
<1> HIDE DEF n
<1>5. IsMemory(n) /\ DOMAIN n.at = DOMAIN m.at /\ (\A j \in DOMAIN m.at : n.at[j] = m.at[j]) /\ Balance(n) = Balance(m)
  BY <1>1, <1>2, <1>4 DEF Freed
<1>6. n.at = m.at
  BY <1>5 DEF IsMemory
<1>7. n.strs = m.strs
  <2>1. n.strs \in Int /\ m.strs \in Int
    BY <1>5 DEF IsMemory
  <2>2. /\ Others(m, i) \in Nat
        /\ Balance(m) = m.strs - Others(m, i) - IF i \in DOMAIN m.at THEN Weight(m.at[i]) ELSE 0
    BY BalanceSplit
  <2>3. Balance(n) = n.strs - Others(n, i) - IF i \in DOMAIN n.at THEN Weight(n.at[i]) ELSE 0
    BY <1>5, BalanceSplit
  <2>4. Others(n, i) = Others(m, i)
    BY <1>6 DEF Others
  <2> QED BY <1>5, <2>1, <2>2, <2>3, <2>4
<1> QED BY <1>5, <1>6, <1>7 DEF IsMemory, n, w

(* m with another item at i. *)
Exchanged(m, i, it) == [m EXCEPT !.at[i] = it]

LEMMA WithExchanged ==
  ASSUME NEW m, NEW i, NEW it, NEW s, NEW e
  PROVE  Exchanged(With(m, i, it, s), i, e) = With(m, i, e, s)
<1> DEFINE D == DOMAIN m.at \cup {i}
           F == [j \in D |-> IF j = i THEN it ELSE m.at[j]]
           G == [j \in D |-> IF j = i THEN e ELSE m.at[j]]
<1>1. [F EXCEPT ![i] = e] = G
  OBVIOUS
<1>2. With(m, i, it, s) = [at |-> F, strs |-> s] /\ With(m, i, e, s) = [at |-> G, strs |-> s]
  BY DEF With
<1> HIDE DEF F, G
<1>3. [[at |-> F, strs |-> s] EXCEPT !.at[i] = e] = [at |-> [F EXCEPT ![i] = e], strs |-> s]
  OBVIOUS
<1> QED BY <1>1, <1>2, <1>3 DEF Exchanged

-----------------------------------------------------------------------------
(* Creating. *)

(* cJSON_New_Item finds an unused address, or there is none. *)
LEMMA NewItemIs ==
  ASSUME NEW m, IsMemory(m)
  PROVE  \/ cJSON_New_Item(m) = Result(m, Null)
         \/ \E i \in Items \ DOMAIN m.at : cJSON_New_Item(m) = Result(With(m, i, Blank, m.strs), i)
<1>1. CASE Unused(m) = {}
  BY <1>1 DEF cJSON_New_Item
<1>2. CASE Unused(m) # {}
  <2> DEFINE i == CHOOSE j \in Unused(m) : TRUE
             F == [j \in DOMAIN m.at \cup {i} |-> IF j = i THEN Blank ELSE m.at[j]]
  <2>1. i \in Items \ DOMAIN m.at
    BY <1>2 DEF Unused
  <2>2. cJSON_New_Item(m) = Result([m EXCEPT !.at = F], i)
    BY <1>2 DEF cJSON_New_Item
  <2>3. [m EXCEPT !.at = F] = [at |-> F, strs |-> m.strs]
    <3> HIDE DEF F
    <3>1. PICK a, b : m = [at |-> a, strs |-> b]
      BY DEF IsMemory
    <3>2. [[at |-> a, strs |-> b] EXCEPT !.at = F] = [at |-> F, strs |-> b]
      OBVIOUS
    <3> QED BY <3>1, <3>2
  <2> HIDE DEF i
  <2>4. cJSON_New_Item(m) = Result(With(m, i, Blank, m.strs), i)
    BY <2>2, <2>3 DEF With
  <2> QED BY <2>1, <2>4
<1> QED BY <1>1, <1>2

Bare(t, v) == Changed(Changed(Blank, "type", t), "value", v)

IsBare(e, t, v) ==
  /\ e \in ItemOf /\ e.next = Null /\ e.prev = Null /\ e.child = Null /\ e.type = t /\ e.ref = FALSE
  /\ e.const = FALSE /\ e.valuestring = Null /\ e.value = v /\ e.string = Null

(* The fields of a new item with a type and a value. *)
LEMMA BareIs ==
  ASSUME NEW t \in ItemTypes, NEW v \in Nat
  PROVE  IsBare(Bare(t, v), t, v)
<1>1. PICK e : e = Bare(t, v)
  OBVIOUS
<1>2. IsBare(e, t, v)
  BY <1>1 DEF IsBare, Bare, Blank, Changed, ItemOf, Pointer, Null
<1> QED BY <1>1, <1>2

(* A new item has its type and value, and everything else is as it was. *)
LEMMA TypedIs ==
  ASSUME NEW m, IsMemory(m), NEW t, NEW v
  PROVE  \/ Typed(m, t, v) = Result(m, Null)
         \/ \E i \in Items \ DOMAIN m.at : Typed(m, t, v) = Result(With(m, i, Bare(t, v), m.strs), i)
<1>0. Null \notin Items
  BY TreeAssumption
<1>1. CASE cJSON_New_Item(m) = Result(m, Null)
  BY <1>1 DEF Typed, Result
<1>2. CASE cJSON_New_Item(m) # Result(m, Null)
  <2>1. PICK i \in Items \ DOMAIN m.at : cJSON_New_Item(m) = Result(With(m, i, Blank, m.strs), i)
    BY <1>2, NewItemIs
  <2>2. cJSON_New_Item(m).ret = i /\ cJSON_New_Item(m).m = With(m, i, Blank, m.strs) /\ i # Null
    BY <1>0, <2>1 DEF Result
  <2>3. Typed(m, t, v) = Result(Put(Put(With(m, i, Blank, m.strs), i, "type", t), i, "value", v), i)
    BY <2>2 DEF Typed
  <2>4. Put(Put(With(m, i, Blank, m.strs), i, "type", t), i, "value", v) = With(m, i, Bare(t, v), m.strs)
    BY WithPut DEF Bare
  <2> QED BY <2>3, <2>4
<1> QED BY <1>1, <1>2

(* A new item with data of its own. *)
LEMMA FreshIs ==
  ASSUME NEW m, IsMemory(m), NEW i \in Items \ DOMAIN m.at, NEW it \in ItemOf, NEW s \in Int,
         s = m.strs + Weight(it), it.next = Null, it.prev = Null, ~it.ref => it.child = Null,
         DataFits(it)
  PROVE  Fresh(m, With(m, i, it, s), i) /\ With(m, i, it, s).at[i] = it
<1> DEFINE n == With(m, i, it, s)
<1>1. /\ IsMemory(n) /\ DOMAIN n.at = DOMAIN m.at \cup {i} /\ n.at[i] = it
      /\ \A j \in DOMAIN m.at : n.at[j] = m.at[j]
  BY WithIs
<1>2. Balance(n) = Balance(m)
  BY WithBalance DEF IsMemory
<1> HIDE DEF n
<1>3. Fresh(m, n, i)
  BY <1>1, <1>2 DEF Fresh
<1> QED BY <1>1, <1>3 DEF n

(* r is a call that made an item, no reference, or did nothing. *)
NewPlain(m, r) ==
  IF r.ret = Null THEN r.m = m ELSE Fresh(m, r.m, r.ret) /\ ~r.m.at[r.ret].ref

(* cJSON_Create...: a new item that stands alone, or nothing has changed,  *)
(* also where the text could not be copied.                                *)
LEMMA CreateIs ==
  ASSUME NEW m, IsMemory(m), NEW t \in ItemTypes, NEW v \in Nat, t \in {"string", "raw"} => v # Null
  PROVE  NewPlain(m, Create(m, t, v))
<1>0. Null \notin Items /\ m.strs \in Int /\ 0 \in Nat
  BY TreeAssumption DEF IsMemory
<1>1. CASE t \in {"string", "raw"}
  <2>0. Create(m, t, v) = cJSON_CreateString(m, t, v)
    BY <1>1 DEF Create
  <2>1. CASE Typed(m, t, 0) = Result(m, Null)
    BY <2>0, <2>1 DEF cJSON_CreateString, NewPlain, Result
  <2>2. CASE Typed(m, t, 0) # Result(m, Null)
    <3> DEFINE e == Bare(t, 0)
               f == Changed(e, "valuestring", v)
    <3>1. PICK i \in Items \ DOMAIN m.at : Typed(m, t, 0) = Result(With(m, i, e, m.strs), i)
      BY <2>2, TypedIs
    <3>2. /\ e \in ItemOf /\ e.next = Null /\ e.prev = Null /\ e.child = Null /\ e.type = t
          /\ e.ref = FALSE /\ e.valuestring = Null /\ e.value = 0 /\ e.string = Null
      <4>1. IsBare(e, t, 0)
        BY <1>0, BareIs
      <4> HIDE DEF e
      <4> QED BY <4>1 DEF IsBare
    <3> HIDE DEF e
    <3>3. /\ f \in ItemOf /\ f.next = Null /\ f.prev = Null /\ f.child = Null /\ f.type = t
          /\ f.ref = FALSE /\ f.valuestring = v /\ f.value = 0 /\ f.string = Null
      BY <3>2 DEF ItemOf, Changed
    <3> HIDE DEF f
    <3>4. Weight(e) = 0 /\ Weight(f) = 1
      BY <1>1, <3>2, <3>3 DEF Weight, OwnsString, OwnsValue
    <3>5. i # Null /\ Typed(m, t, 0).ret = i /\ Typed(m, t, 0).m = With(m, i, e, m.strs)
      BY <1>0, <3>1 DEF Result
    <3>6. CASE CanDup(Typed(m, t, 0).m)
      <4>1. cJSON_CreateString(m, t, v) = Result(cJSON_strdup(With(m, i, e, m.strs), i, "valuestring", v), i)
        BY <3>5, <3>6 DEF cJSON_CreateString
      <4>2. cJSON_CreateString(m, t, v) = Result(With(m, i, f, m.strs + 1), i)
        BY <4>1, WithDup DEF f
      <4>3. Fresh(m, With(m, i, f, m.strs + 1), i) /\ With(m, i, f, m.strs + 1).at[i] = f
        <5>1. m.strs + 1 \in Int /\ m.strs + 1 = m.strs + Weight(f) /\ DataFits(f)
          BY <1>0, <1>1, <3>3, <3>4 DEF DataFits
        <5> QED BY <5>1, <3>3, FreshIs
      <4> QED BY <2>0, <3>3, <3>5, <4>2, <4>3 DEF NewPlain, Result
    <3>7. CASE ~CanDup(Typed(m, t, 0).m)
      <4>1. cJSON_CreateString(m, t, v) = Result(cJSON_Delete(With(m, i, e, m.strs), i), Null)
        BY <3>5, <3>7 DEF cJSON_CreateString
      <4>2. cJSON_Delete(With(m, i, e, m.strs), i) = m
        <5>1. m.strs = m.strs + Weight(e)
          BY <1>0, <3>4
        <5> QED BY <5>1, <1>0, <3>2, DeleteNew
      <4> QED BY <2>0, <4>1, <4>2 DEF NewPlain, Result
    <3> QED BY <3>6, <3>7
  <2> QED BY <2>1, <2>2
<1>2. CASE t \notin {"string", "raw"}
  <2> DEFINE u == IF t = "number" THEN v ELSE 0
  <2>0. Create(m, t, v) = Typed(m, t, u) /\ u \in Nat /\ (u # 0 => t = "number")
    BY <1>2 DEF Create
  <2> HIDE DEF u
  <2>1. CASE Typed(m, t, u) = Result(m, Null)
    BY <2>0, <2>1 DEF NewPlain, Result
  <2>2. CASE Typed(m, t, u) # Result(m, Null)
    <3> DEFINE e == Bare(t, u)
    <3>1. PICK i \in Items \ DOMAIN m.at : Typed(m, t, u) = Result(With(m, i, e, m.strs), i)
      BY <2>2, TypedIs
    <3>2. /\ e \in ItemOf /\ e.next = Null /\ e.prev = Null /\ e.child = Null /\ e.type = t
          /\ e.ref = FALSE /\ e.valuestring = Null /\ e.value = u /\ e.string = Null
      <4>1. IsBare(e, t, u)
        BY <2>0, BareIs
      <4> HIDE DEF e
      <4> QED BY <4>1 DEF IsBare
    <3> HIDE DEF e
    <3>3. Weight(e) = 0
      BY <3>2 DEF Weight, OwnsString, OwnsValue
    <3>4. m.strs = m.strs + Weight(e) /\ DataFits(e)
      BY <1>0, <1>2, <2>0, <3>2, <3>3 DEF DataFits
    <3>5. Fresh(m, With(m, i, e, m.strs), i) /\ With(m, i, e, m.strs).at[i] = e
      BY <1>0, <3>2, <3>4, FreshIs
    <3> QED BY <1>0, <2>0, <3>1, <3>2, <3>5 DEF NewPlain, Result
  <2> QED BY <2>1, <2>2
<1> QED BY <1>1, <1>2

(* r is a call that made a reference to what is at c, or did nothing. *)
NewRef(m, r, c) ==
  IF r.ret = Null THEN r.m = m
  ELSE /\ Fresh(m, r.m, r.ret)
       /\ r.m.at[r.ret].ref /\ r.m.at[r.ret].string = Null /\ r.m.at[r.ret].child = c

(* create_reference: an item that shows what x shows, without a name, or   *)
(* nothing has changed.                                                    *)
LEMMA ReferenceIs ==
  ASSUME NEW m, IsMemory(m), NEW x \in DOMAIN m.at, DataFits(m.at[x])
  PROVE  NewRef(m, create_reference(m, x), m.at[x].child)
<1>0. Null \notin Items /\ m.strs \in Int
  BY TreeAssumption DEF IsMemory
<1>1. CASE cJSON_New_Item(m) = Result(m, Null)
  BY <1>1 DEF create_reference, Result, NewRef
<1>2. CASE cJSON_New_Item(m) # Result(m, Null)
  <2> DEFINE e == [m.at[x] EXCEPT !.string = Null, !.ref = TRUE, !.next = Null, !.prev = Null]
  <2>1. PICK i \in Items \ DOMAIN m.at : cJSON_New_Item(m) = Result(With(m, i, Blank, m.strs), i)
    BY <1>2, NewItemIs
  <2>2. i # Null /\ cJSON_New_Item(m).ret = i /\ cJSON_New_Item(m).m = With(m, i, Blank, m.strs)
    BY <1>0, <2>1 DEF Result
  <2>3. create_reference(m, x) = Result(Exchanged(With(m, i, Blank, m.strs), i, e), i)
    BY <2>2 DEF create_reference, Exchanged
  <2>4. m.at[x] \in ItemOf
    BY DEF IsMemory
  <2>5. /\ e \in ItemOf /\ e.next = Null /\ e.prev = Null /\ e.ref = TRUE /\ e.string = Null
        /\ e.child = m.at[x].child /\ DataFits(e)
    BY <2>4 DEF ItemOf, Pointer, DataFits
  <2> HIDE DEF e
  <2>6. create_reference(m, x) = Result(With(m, i, e, m.strs), i)
    BY <2>3, WithExchanged
  <2>7. Weight(e) = 0
    BY <2>5 DEF Weight, OwnsString, OwnsValue
  <2>8. m.strs = m.strs + Weight(e)
    BY <1>0, <2>7
  <2>9. Fresh(m, With(m, i, e, m.strs), i) /\ With(m, i, e, m.strs).at[i] = e
    BY <1>0, <2>5, <2>8, FreshIs
  <2> QED BY <2>2, <2>5, <2>6, <2>9 DEF NewRef, Result
<1> QED BY <1>1, <1>2

(* cJSON_CreateStringReference shows no items. *)
LEMMA StringReferenceIs ==
  ASSUME NEW m, IsMemory(m), NEW v \in Nat, v # Null
  PROVE  NewRef(m, cJSON_CreateStringReference(m, v), Null)
<1>0. Null \notin Items /\ m.strs \in Int /\ 0 \in Nat /\ "string" \in ItemTypes
  BY TreeAssumption DEF IsMemory, ItemTypes
<1>1. CASE Typed(m, "string", 0) = Result(m, Null)
  BY <1>1 DEF cJSON_CreateStringReference, Result, NewRef
<1>2. CASE Typed(m, "string", 0) # Result(m, Null)
  <2> DEFINE b == Bare("string", 0)
             e == [b EXCEPT !.valuestring = v, !.ref = TRUE]
  <2>1. PICK i \in Items \ DOMAIN m.at : Typed(m, "string", 0) = Result(With(m, i, b, m.strs), i)
    BY <1>2, TypedIs
  <2>2. i # Null /\ Typed(m, "string", 0).ret = i /\ Typed(m, "string", 0).m = With(m, i, b, m.strs)
    BY <1>0, <2>1 DEF Result
  <2>3. /\ b \in ItemOf /\ b.next = Null /\ b.prev = Null /\ b.child = Null /\ b.string = Null
        /\ b.type = "string" /\ b.value = 0
    <3>1. PICK t \in ItemTypes : t = "string"
      BY <1>0
    <3>2. b = Bare(t, 0)
      BY <3>1
    <3> HIDE DEF b
    <3>3. IsBare(b, t, 0)
      BY <1>0, <3>2, BareIs
    <3> QED BY <3>1, <3>3 DEF IsBare
  <2> HIDE DEF b
  <2>4. /\ e \in ItemOf /\ e.next = Null /\ e.prev = Null /\ e.ref = TRUE /\ e.string = Null
        /\ e.child = Null /\ DataFits(e)
    BY <2>3 DEF ItemOf, DataFits
  <2> HIDE DEF e
  <2>5. cJSON_CreateStringReference(m, v) = Result(With(m, i, e, m.strs), i)
    <3> DEFINE w == With(m, i, b, m.strs)
    <3>1. w.at[i] = b
      BY <1>0, <2>3, WithIs
    <3> HIDE DEF w
    <3>2. cJSON_CreateStringReference(m, v) = Result(Exchanged(w, i, [w.at[i] EXCEPT !.valuestring = v, !.ref = TRUE]), i)
      BY <2>2 DEF cJSON_CreateStringReference, Exchanged, w
    <3>3. cJSON_CreateStringReference(m, v) = Result(Exchanged(w, i, e), i)
      BY <3>1, <3>2 DEF e
    <3> QED BY <3>3, WithExchanged DEF w
  <2>6. Weight(e) = 0
    BY <2>4 DEF Weight, OwnsString, OwnsValue
  <2>7. m.strs = m.strs + Weight(e)
    BY <1>0, <2>6
  <2>8. Fresh(m, With(m, i, e, m.strs), i) /\ With(m, i, e, m.strs).at[i] = e
    BY <1>0, <2>4, <2>7, FreshIs
  <2> QED BY <2>2, <2>4, <2>5, <2>8 DEF NewRef, Result
<1> QED BY <1>1, <1>2

(* cJSON_CreateArrayReference shows the items from c on. *)
LEMMA ArrayReferenceIs ==
  ASSUME NEW m, IsMemory(m), NEW c \in Pointer
  PROVE  NewRef(m, cJSON_CreateArrayReference(m, c), c)
<1>0. Null \notin Items /\ m.strs \in Int /\ 0 \in Nat /\ "array" \in ItemTypes
  BY TreeAssumption DEF IsMemory, ItemTypes
<1>1. CASE Typed(m, "array", 0) = Result(m, Null)
  BY <1>1 DEF cJSON_CreateArrayReference, Result, NewRef
<1>2. CASE Typed(m, "array", 0) # Result(m, Null)
  <2> DEFINE b == Bare("array", 0)
             e == [b EXCEPT !.child = c, !.ref = TRUE]
  <2>1. PICK i \in Items \ DOMAIN m.at : Typed(m, "array", 0) = Result(With(m, i, b, m.strs), i)
    BY <1>2, TypedIs
  <2>2. i # Null /\ Typed(m, "array", 0).ret = i /\ Typed(m, "array", 0).m = With(m, i, b, m.strs)
    BY <1>0, <2>1 DEF Result
  <2>3. /\ b \in ItemOf /\ b.next = Null /\ b.prev = Null /\ b.string = Null /\ b.type = "array"
        /\ b.valuestring = Null /\ b.value = 0
    <3>1. PICK t \in ItemTypes : t = "array"
      BY <1>0
    <3>2. b = Bare(t, 0)
      BY <3>1
    <3> HIDE DEF b
    <3>3. IsBare(b, t, 0)
      BY <1>0, <3>2, BareIs
    <3> QED BY <3>1, <3>3 DEF IsBare
  <2> HIDE DEF b
  <2>4. /\ e \in ItemOf /\ e.next = Null /\ e.prev = Null /\ e.ref = TRUE /\ e.string = Null
        /\ e.child = c /\ DataFits(e)
    BY <2>3 DEF ItemOf, DataFits
  <2> HIDE DEF e
  <2>5. cJSON_CreateArrayReference(m, c) = Result(With(m, i, e, m.strs), i)
    <3> DEFINE w == With(m, i, b, m.strs)
    <3>1. w.at[i] = b
      BY <1>0, <2>3, WithIs
    <3> HIDE DEF w
    <3>2. cJSON_CreateArrayReference(m, c) = Result(Exchanged(w, i, [w.at[i] EXCEPT !.child = c, !.ref = TRUE]), i)
      BY <2>2 DEF cJSON_CreateArrayReference, Exchanged, w
    <3>3. cJSON_CreateArrayReference(m, c) = Result(Exchanged(w, i, e), i)
      BY <3>1, <3>2 DEF e
    <3> QED BY <3>3, WithExchanged DEF w
  <2>6. Weight(e) = 0
    BY <2>4 DEF Weight, OwnsString, OwnsValue
  <2>7. m.strs = m.strs + Weight(e)
    BY <1>0, <2>6
  <2>8. Fresh(m, With(m, i, e, m.strs), i) /\ With(m, i, e, m.strs).at[i] = e
    BY <1>0, <2>4, <2>7, FreshIs
  <2> QED BY <2>2, <2>4, <2>5, <2>8 DEF NewRef, Result
<1> QED BY <1>1, <1>2

(* A copy owns its texts. *)
LEMMA CopyItemIs ==
  ASSUME NEW m, IsMemory(m), NEW x \in DOMAIN m.at, DataFits(m.at[x])
  PROVE  /\ NewPlain(m, CopyItem(m, x))
         /\ CopyItem(m, x).ret # Null => SameItem(CopyItem(m, x).m.at[CopyItem(m, x).ret], m.at[x])
<1> DEFINE it == m.at[x]
           n  == Typed(m, it.type, it.value)
           e0 == Bare(it.type, it.value)
           e1 == Changed(e0, "const", it.const)
           e2 == IF it.valuestring = Null THEN e1 ELSE Changed(e1, "valuestring", it.valuestring)
           e3 == Changed(e2, "string", it.string)
           s2 == IF it.valuestring = Null THEN m.strs ELSE m.strs + 1
           s3 == IF OwnsString(it) THEN s2 + 1 ELSE s2
<1>0. Null \notin Items /\ m.strs \in Int /\ it \in ItemOf
  BY TreeAssumption DEF IsMemory
<1>1. CASE n = Result(m, Null)
  <2>1. n.ret = Null /\ n.m = m
    BY <1>1 DEF Result
  <2>2. CopyItem(m, x) = n
    BY <2>1, SMTT(20) DEF CopyItem
  <2> HIDE DEF n
  <2> QED BY <2>1, <2>2 DEF NewPlain
<1>2. CASE n # Result(m, Null)
  <2>1. PICK i \in Items \ DOMAIN m.at : n = Result(With(m, i, e0, m.strs), i)
    BY <1>2, TypedIs
  <2>2. i # Null /\ n.ret = i /\ n.m = With(m, i, e0, m.strs)
    BY <1>0, <2>1 DEF Result
  <2> DEFINE m1 == Put(n.m, n.ret, "const", it.const)
             m2 == IF it.valuestring = Null THEN m1 ELSE cJSON_strdup(m1, n.ret, "valuestring", it.valuestring)
             m3 == IF it.string = Null \/ it.const THEN Put(m2, n.ret, "string", it.string)
                   ELSE cJSON_strdup(m2, n.ret, "string", it.string)
  <2>3. CopyItem(m, x) =
          IF it.valuestring # Null /\ ~CanDup(m1) THEN Result(cJSON_Delete(m1, i), Null)
          ELSE IF OwnsString(it) /\ ~CanDup(m2) THEN Result(cJSON_Delete(m2, i), Null)
          ELSE Result(m3, i)
    BY <2>2 DEF CopyItem
  <2>4. m1 = With(m, i, e1, m.strs)
    BY <2>2, WithPut
  <2> HIDE DEF e1, n, m1
  <2>5. m2 = With(m, i, e2, s2)
    BY <2>1, <2>2, <2>4, WithDup DEF n
  <2> HIDE DEF e2, m2, s2
  <2>6. m3 = With(m, i, e3, s3)
    BY <2>1, <2>2, <2>5, WithDup, WithPut DEF n, OwnsString
  <2> HIDE DEF e3, m3, s3
  <2>7. e0 \in ItemOf /\ e0.next = Null /\ e0.prev = Null /\ e0.child = Null /\ e0.type = it.type /\ e0.value = it.value
        /\ e0.ref = FALSE /\ e0.valuestring = Null /\ e0.string = Null
    <3>1. it.type \in ItemTypes /\ it.value \in Nat
      BY <1>0 DEF ItemOf
    <3>2. PICK t \in ItemTypes, u \in Nat : t = it.type /\ u = it.value
      BY <3>1
    <3>3. IsBare(e0, t, u)
      BY <3>2, BareIs
    <3> QED BY <3>2, <3>3 DEF IsBare
  <2> HIDE DEF e0
  <2>8. e1 \in ItemOf /\ e1.next = Null /\ e1.prev = Null /\ e1.child = Null /\ e1.type = it.type /\ e1.value = it.value
        /\ e1.ref = FALSE /\ e1.valuestring = Null /\ e1.string = Null /\ e1.const = it.const
    BY <1>0, <2>7 DEF ItemOf, Changed, e1
  <2>9. e2 \in ItemOf /\ e2.next = Null /\ e2.prev = Null /\ e2.child = Null /\ e2.type = it.type /\ e2.value = it.value
        /\ e2.ref = FALSE /\ e2.valuestring = it.valuestring /\ e2.string = Null /\ e2.const = it.const
    <3>1. CASE it.valuestring = Null
      BY <2>8, <3>1 DEF e2
    <3>2. CASE it.valuestring # Null
      BY <1>0, <2>8, <3>2 DEF ItemOf, Changed, e2
    <3> QED BY <3>1, <3>2
  <2>10. e3 \in ItemOf /\ e3.next = Null /\ e3.prev = Null /\ e3.child = Null /\ e3.type = it.type /\ e3.value = it.value
         /\ e3.ref = FALSE /\ e3.valuestring = it.valuestring /\ e3.string = it.string /\ e3.const = it.const
    BY <1>0, <2>9 DEF ItemOf, Changed, e3
  <2>11. Weight(e1) = 0
    BY <2>8 DEF Weight, OwnsString, OwnsValue
  <2>12. Weight(e2) = IF it.valuestring = Null THEN 0 ELSE 1
    BY <2>9 DEF Weight, OwnsString, OwnsValue
  <2>13. s2 \in Int /\ s2 = m.strs + Weight(e2)
    BY <1>0, <2>12 DEF s2
  <2>14. Weight(e3) = (IF it.valuestring = Null THEN 0 ELSE 1) + (IF OwnsString(it) THEN 1 ELSE 0)
    BY <2>10 DEF Weight, OwnsString, OwnsValue
  <2>15. s3 \in Int /\ s3 = m.strs + Weight(e3)
    <3>1. CASE OwnsString(it)
      BY <1>0, <2>12, <2>13, <2>14, <3>1 DEF s3
    <3>2. CASE ~OwnsString(it)
      BY <1>0, <2>12, <2>13, <2>14, <3>2 DEF s3
    <3> QED BY <3>1, <3>2
  <2>16. CASE it.valuestring # Null /\ ~CanDup(m1)
    <3>1. cJSON_Delete(With(m, i, e1, m.strs), i) = m
      <4>1. m.strs = m.strs + Weight(e1)
        BY <1>0, <2>11
      <4> QED BY <4>1, <1>0, <2>8, DeleteNew
    <3> QED BY <2>3, <2>4, <2>16, <3>1 DEF NewPlain, Result
  <2>17. CASE ~(it.valuestring # Null /\ ~CanDup(m1)) /\ OwnsString(it) /\ ~CanDup(m2)
    <3>1. cJSON_Delete(With(m, i, e2, s2), i) = m
      BY <2>9, <2>13, DeleteNew
    <3> QED BY <2>3, <2>5, <2>17, <3>1 DEF NewPlain, Result
  <2>18. CASE ~(it.valuestring # Null /\ ~CanDup(m1)) /\ ~(OwnsString(it) /\ ~CanDup(m2))
    <3>1. CopyItem(m, x) = Result(With(m, i, e3, s3), i)
      BY <2>3, <2>6, <2>18
    <3>2. Fresh(m, With(m, i, e3, s3), i) /\ With(m, i, e3, s3).at[i] = e3
      <4>1. DataFits(e3)
        BY <2>10 DEF DataFits
      <4> QED BY <2>10, <2>15, <4>1, FreshIs
    <3>3. SameItem(e3, it)
      BY <2>10 DEF SameItem
    <3> QED BY <2>2, <2>10, <3>1, <3>2, <3>3 DEF NewPlain, Result
  <2> QED BY <2>16, <2>17, <2>18
<1> QED BY <1>1, <1>2

-----------------------------------------------------------------------------
(* Trees in the making. *)

(* m holds the forest g with the roots Q, of which k and R have been there *)
(* before; the new items are no references, and only their lists are open. *)
Growing(m, g, Q, O, k, R) ==
  /\ Heap(m, g, Q, O) /\ IsForestOf(k, R)
  /\ DOMAIN k \subseteq DOMAIN g /\ \A i \in DOMAIN k : g[i] = k[i]
  /\ \A i \in DOMAIN k : i \in Q <=> i \in R
  /\ \A i \in DOMAIN k : i \notin O
  /\ \A i \in DOMAIN g : m.at[i].ref => i \in DOMAIN k /\ m.at[i].child \in DOMAIN k \cup {Null}

(* At the start of a call nothing is new. *)
LEMMA GrownStart ==
  ASSUME NEW m, NEW k, NEW R, Heap(m, k, R, {})
  PROVE  Growing(m, k, R, {}, k, R)
BY DEF Growing, Heap

(* New items are not above old ones. *)
LEMMA NewBelow ==
  ASSUME NEW m, NEW g, NEW Q, NEW O, NEW k, NEW R, Growing(m, g, Q, O, k, R), NEW x \in Q, x \notin DOMAIN k
  PROVE  x \in DOMAIN g /\ Under(g, {x}) \subseteq DOMAIN g /\ Under(g, {x}) \cap DOMAIN k = {}
<1> DEFINE U == Under(g, {x})
           T == U \ DOMAIN k
<1>1. IsForestOf(g, Q) /\ x \in DOMAIN g
  BY DEF Growing, Heap, IsForestOf
<1>2. /\ U \subseteq DOMAIN g /\ x \in U /\ ClosedIn(g, U)
      /\ \A S \in SUBSET DOMAIN g : x \in S /\ ClosedIn(g, S) => U \subseteq S
  BY <1>1, UnderOne
<1> HIDE DEF U
<1>3. ASSUME NEW i \in T, NEW a \in DOMAIN g[i], g[i][a] \in DOMAIN k PROVE FALSE
  <2> DEFINE j == g[i][a]
  <2>1. i \in DOMAIN g /\ i \notin DOMAIN k
    BY <1>2
  <2>2. j \notin R
    BY <1>1, <1>3, <2>1 DEF IsForestOf, Growing
  <2>3. PICK p \in DOMAIN k : \E b \in DOMAIN k[p] : k[p][b] = j
    BY <1>3, <2>2, HasPlace DEF Growing
  <2>4. p \in DOMAIN g /\ g[p] = k[p]
    BY DEF Growing
  <2>5. p = i
    BY <1>1, <2>1, <2>3, <2>4 DEF IsForestOf
  <2> QED BY <2>1, <2>5
<1>4. ClosedIn(g, T)
  BY <1>2, <1>3 DEF ClosedIn
<1>5. U \subseteq T
  BY <1>2, <1>4
<1> QED BY <1>1, <1>2, <1>5 DEF U

(* When one new root is left, all that is new is below it. *)
LEMMA GrownUnder ==
  ASSUME NEW m, NEW g, NEW O, NEW k, NEW R, NEW x, Growing(m, g, R \cup {x}, O, k, R), x \notin DOMAIN k
  PROVE  Under(g, {x}) = DOMAIN g \ DOMAIN k
<1> DEFINE U == Under(g, {x})
           S == DOMAIN k \cup U
<1>1. x \in DOMAIN g /\ U \subseteq DOMAIN g /\ U \cap DOMAIN k = {}
  BY NewBelow
<1>2. IsForestOf(g, R \cup {x}) /\ IsForestOf(k, R)
  BY DEF Growing, Heap
<1>3. x \in U /\ ClosedIn(g, U)
  BY <1>1, <1>2, UnderOne
<1> HIDE DEF U
<1>4. ClosedIn(g, S)
  <2> SUFFICES ASSUME NEW i \in S, NEW a \in DOMAIN g[i] PROVE g[i][a] \in S
    BY DEF ClosedIn
  <2>1. CASE i \in DOMAIN k
    <3>1. g[i] = k[i]
      BY <2>1 DEF Growing
    <3> QED BY <1>2, <2>1, <3>1, ForestFacts
  <2>2. CASE i \in U
    BY <2>2, <1>3 DEF ClosedIn
  <2> QED BY <2>1, <2>2
<1>5. R \cup {x} \subseteq S /\ S \subseteq DOMAIN g
  BY <1>1, <1>2, <1>3 DEF Growing, IsForestOf
<1>6. DOMAIN g \subseteq S
  BY <1>2, <1>4, <1>5 DEF IsForestOf
<1> QED BY <1>1, <1>6 DEF U

(* With the old roots only, the forest is the old one. *)
LEMMA GrownDone ==
  ASSUME NEW m, NEW g, NEW O, NEW k, NEW R, Growing(m, g, R, O, k, R)
  PROVE  g = k
<1>1. IsForestOf(g, R) /\ IsForestOf(k, R)
  BY DEF Growing, Heap
<1>2. ClosedIn(g, DOMAIN k)
  <2> SUFFICES ASSUME NEW i \in DOMAIN k, NEW a \in DOMAIN g[i] PROVE g[i][a] \in DOMAIN k
    BY DEF ClosedIn
  <2>1. g[i] = k[i]
    BY DEF Growing
  <2> QED BY <1>1, <2>1, ForestFacts
<1>3. DOMAIN g \subseteq DOMAIN k /\ DOMAIN k \subseteq DOMAIN g
  BY <1>1, <1>2 DEF IsForestOf, Growing
<1>4. g = [i \in DOMAIN g |-> g[i]] /\ k = [i \in DOMAIN k |-> k[i]]
  BY <1>1 DEF IsForestOf
<1>5. \A i \in DOMAIN k : g[i] = k[i]
  BY DEF Growing
<1> QED BY <1>3, <1>4, <1>5

(* P is O, apart from items that are not in the forest. *)
Agree(g, O, P) == \A q \in DOMAIN g : q \in P <=> q \in O

(* The item i has been made, and is no reference. *)
FreshPlain(m, n, i) == Fresh(m, n, i) /\ ~n.at[i].ref

(* h has the item i with no members more than g. *)
Grown(g, i, h, k) ==
  /\ i \notin DOMAIN g /\ i \notin DOMAIN k /\ i \in DOMAIN h /\ i \in Items /\ h[i] = <<>>
  /\ \A j \in DOMAIN g : j \in DOMAIN h /\ h[j] = g[j]

(* A new item joins what is in the making. *)
LEMMA GrownFresh ==
  ASSUME NEW m, NEW n, NEW g, NEW Q, NEW O, NEW P, NEW k, NEW R, Growing(m, g, Q, O, k, R),
         NEW i, FreshPlain(m, n, i), Agree(g, O, P)
  PROVE  Growing(n, Grow(g, i), Q \cup {i}, P, k, R) /\ Grown(g, i, Grow(g, i), k)
<1> DEFINE h == Grow(g, i)
<1>0. Fresh(m, n, i) /\ ~n.at[i].ref /\ \A q \in DOMAIN g : q \in P <=> q \in O
  BY DEF FreshPlain, Agree
<1>1. Heap(n, h, Q \cup {i}, P)
  BY <1>0, HeapFresh DEF Growing
<1>2. i \notin DOMAIN g /\ i \notin DOMAIN k /\ i \in Items /\ DOMAIN k \subseteq DOMAIN g /\ DOMAIN g \subseteq DOMAIN m.at
  BY <1>0 DEF Growing, Heap, Linked, Fresh
<1>3. DOMAIN h = DOMAIN g \cup {i} /\ h[i] = <<>> /\ \A j \in DOMAIN g : h[j] = g[j]
  BY <1>2 DEF Grow
<1> HIDE DEF h
<1>4. \A j \in DOMAIN g : n.at[j] = m.at[j]
  BY <1>0, <1>2 DEF Fresh
<1>5. \A j \in DOMAIN h : n.at[j].ref => j \in DOMAIN k /\ n.at[j].child \in DOMAIN k \cup {Null}
  BY <1>0, <1>3, <1>4 DEF Growing
<1>6. \A j \in DOMAIN k : h[j] = k[j] /\ (j \in Q \cup {i} <=> j \in R) /\ j \notin P
  BY <1>0, <1>2, <1>3 DEF Growing
<1>7. Growing(n, h, Q \cup {i}, P, k, R)
  BY <1>1, <1>2, <1>3, <1>5, <1>6 DEF Growing
<1>8. Grown(g, i, h, k)
  BY <1>2, <1>3 DEF Grown
<1> QED BY <1>7, <1>8 DEF h

(* A root is not below another one. *)
LEMMA RootNotBelow ==
  ASSUME NEW g, NEW Q, IsForestOf(g, Q), NEW x \in Q, NEW p \in Q, p # x
  PROVE  p \notin Under(g, {x})
<1> SUFFICES ASSUME p \in Under(g, {x}) PROVE FALSE
  OBVIOUS
<1>1. x \in DOMAIN g
  BY DEF IsForestOf
<1>2. PICK q \in Under(g, {x}) : \E a \in DOMAIN g[q] : g[q][a] = p
  BY <1>1, HasPlaceBelow
<1>3. q \in DOMAIN g
  BY <1>1, UnderOne
<1> QED BY <1>2, <1>3 DEF IsForestOf

LEMMA LastOfAppend ==
  ASSUME NEW D, NEW s \in Seq(D), NEW x \in D
  PROVE  LastOf(Append(s, x)) = x
<1>1. Append(s, x) # <<>> /\ Len(Append(s, x)) = Len(s) + 1 /\ Append(s, x)[Len(s) + 1] = x
  BY AppendIs
<1> QED BY <1>1 DEF LastOf

(* x is the last member of p in place of a root. *)
Hung(g, p, x) == [g EXCEPT ![p] = Append(g[p], x)]

HungOn(m, n, g, h, p, x) ==
  /\ DOMAIN n.at = DOMAIN m.at /\ DOMAIN h = DOMAIN g /\ LastOf(h[p]) = x
  /\ \A j \in DOMAIN g : j # p => h[j] = g[j]

(* A new root becomes the last member of an open list. *)
LEMMA GrownChain ==
  ASSUME NEW m, NEW g, NEW Q, NEW O, NEW k, NEW R, Growing(m, g, Q, O, k, R),
         NEW x \in Q, x \notin DOMAIN k, NEW p \in Q, p # x, p \in O
  PROVE  /\ Growing(Chain(m, p, LastOf(g[p]), x), Hung(g, p, x), Q \ {x}, O, k, R)
         /\ HungOn(m, Chain(m, p, LastOf(g[p]), x), g, Hung(g, p, x), p, x)
<1> DEFINE n == Chain(m, p, LastOf(g[p]), x)
           h == [g EXCEPT ![p] = Append(g[p], x)]
<1>1. Heap(m, g, Q, O) /\ IsForestOf(g, Q) /\ x \in DOMAIN g /\ p \in DOMAIN g /\ p \notin DOMAIN k
  BY DEF Growing, Heap, IsForestOf
<1>2. ~m.at[p].ref
  BY <1>1 DEF Growing
<1>3. p \notin Under(g, {x})
  BY <1>1, RootNotBelow
<1>4. SameData(m, n) /\ Linked(n, h, Q \ {x}, O) /\ IsForestOf(h, Q \ {x})
  BY <1>1, <1>2, <1>3, LinkChain DEF Heap
<1>5. g[p] \in Seq(DOMAIN g) /\ DOMAIN h = DOMAIN g /\ h[p] = Append(g[p], x) /\ \A j \in DOMAIN g : j # p => h[j] = g[j]
  BY <1>1, ForestFacts
<1>6. LastOf(h[p]) = x
  BY <1>1, <1>5, LastOfAppend
<1> HIDE DEF n, h
<1>7. Heap(n, h, Q \ {x}, O)
  BY <1>1, <1>4, <1>5, HeapLinks
<1>8. \A j \in DOMAIN h : n.at[j].ref => j \in DOMAIN k /\ n.at[j].child \in DOMAIN k \cup {Null}
  <2>1. \A j \in DOMAIN g : n.at[j].ref = m.at[j].ref /\ (m.at[j].ref => n.at[j].child = m.at[j].child)
    BY <1>1, <1>4 DEF SameData, Heap, Linked
  <2> QED BY <2>1, <1>5 DEF Growing
<1>9. \A j \in DOMAIN k : h[j] = k[j] /\ (j \in Q \ {x} <=> j \in R) /\ j \notin O
  BY <1>1, <1>5 DEF Growing
<1>10. Growing(n, h, Q \ {x}, O, k, R)
  BY <1>5, <1>7, <1>8, <1>9 DEF Growing
<1>11. DOMAIN n.at = DOMAIN m.at
  BY <1>4 DEF SameData
<1>12. HungOn(m, n, g, h, p, x)
  BY <1>5, <1>6, <1>11 DEF HungOn
<1> QED BY <1>10, <1>12 DEF n, h, Hung

(* The list of a new container is closed. *)
LEMMA GrownClose ==
  ASSUME NEW m, NEW g, NEW Q, NEW O, NEW k, NEW R, Growing(m, g, Q, O, k, R), NEW p \in Q, p \notin DOMAIN k
  PROVE  /\ Growing(CloseList(m, p, LastOf(g[p])), g, Q, O \ {p}, k, R)
         /\ DOMAIN CloseList(m, p, LastOf(g[p])).at = DOMAIN m.at
<1> DEFINE n == CloseList(m, p, LastOf(g[p]))
<1>1. Heap(m, g, Q, O) /\ IsForestOf(g, Q) /\ p \in DOMAIN g
  BY DEF Growing, Heap, IsForestOf
<1>2. ~m.at[p].ref
  BY <1>1 DEF Growing
<1>3. SameData(m, n) /\ Linked(n, g, Q, O \ {p})
  BY <1>1, <1>2, LinkClose DEF Heap
<1> HIDE DEF n
<1>4. Heap(n, g, Q, O \ {p})
  BY <1>1, <1>3, HeapLinks
<1>5. \A j \in DOMAIN g : n.at[j].ref => j \in DOMAIN k /\ n.at[j].child \in DOMAIN k \cup {Null}
  <2>1. \A j \in DOMAIN g : n.at[j].ref = m.at[j].ref /\ (m.at[j].ref => n.at[j].child = m.at[j].child)
    BY <1>1, <1>3 DEF SameData, Heap, Linked
  <2> QED BY <2>1 DEF Growing
<1>6. Growing(n, g, Q, O \ {p}, k, R)
  BY <1>4, <1>5 DEF Growing
<1>7. DOMAIN n.at = DOMAIN m.at
  BY <1>3 DEF SameData
<1> QED BY <1>6, <1>7 DEF n

(* Only the items of the forest can be open. *)
LEMMA OpenSame ==
  ASSUME NEW m, NEW g, NEW Q, NEW O, NEW P, Heap(m, g, Q, O), \A q \in DOMAIN g : q \in P <=> q \in O
  PROVE  Heap(m, g, Q, P)
<1>1. Linked(m, g, Q, P)
  BY DEF Heap, Linked, ListOf
<1> QED BY <1>1 DEF Heap

(* Deleting a new root frees what is below it, all of which is new. *)
LEMMA GrownFreed ==
  ASSUME NEW m, NEW g, NEW Q, NEW O, NEW k, NEW R, Growing(m, g, Q, O, k, R), NEW x \in Q, x \notin DOMAIN k
  PROVE  /\ Freed(m, cJSON_Delete(m, x), Under(g, {x}))
         /\ Under(g, {x}) \subseteq DOMAIN g /\ Under(g, {x}) \cap DOMAIN k = {}
<1>1. x \in DOMAIN g /\ Under(g, {x}) \subseteq DOMAIN g /\ Under(g, {x}) \cap DOMAIN k = {}
  BY NewBelow
<1>2. Heap(m, g, Q, O)
  BY DEF Growing
<1>3. Tidy(m, x, Under(g, {x}))
  BY <1>2, TidyTree DEF Heap
<1>4. Freed(m, cJSON_Delete(m, x), Under(g, {x}))
  BY <1>2, <1>3, DeleteTidy DEF Heap
<1> QED BY <1>1, <1>4

(* A new root is deleted. *)
LEMMA GrownDelete ==
  ASSUME NEW m, NEW g, NEW Q, NEW O, NEW k, NEW R, Growing(m, g, Q, O, k, R), NEW x \in Q, x \notin DOMAIN k
  PROVE  \E h : Growing(cJSON_Delete(m, x), h, Q \ {x}, O \ {x}, k, R)
<1> DEFINE U == Under(g, {x})
           h == Without(g, U)
           n == cJSON_Delete(m, x)
<1>1. x \in DOMAIN g /\ U \subseteq DOMAIN g /\ U \cap DOMAIN k = {}
  BY NewBelow
<1>2. Heap(m, g, Q, O) /\ IsForestOf(g, Q) /\ x \in U /\ DOMAIN k \subseteq DOMAIN g
  BY <1>1, UnderOne DEF Growing, Heap
<1>3. ASSUME NEW i \in DOMAIN g \ U, m.at[i].ref PROVE m.at[i].child \notin U
  <2>1. m.at[i].child \in DOMAIN k \cup {Null}
    BY <1>3 DEF Growing
  <2>2. Null \notin U
    <3>1. U \subseteq Items
      BY <1>1, <1>2 DEF Heap, Linked, IsMemory
    <3> QED BY <3>1, TreeAssumption
  <2> QED BY <1>1, <2>1, <2>2
<1>4. Heap(n, h, Q \ {x}, O)
  BY <1>2, <1>3, HeapDelete
<1>5. Freed(m, n, U)
  BY GrownFreed
<1>6. DOMAIN h = DOMAIN g \ U /\ \A i \in DOMAIN h : h[i] = g[i]
  BY DEF Without, Forest!Without
<1> HIDE DEF U, h, n
<1>7. Heap(n, h, Q \ {x}, O \ {x})
  <2>1. \A q \in DOMAIN h : q \in O \ {x} <=> q \in O
    BY <1>2, <1>6
  <2> QED BY <2>1, <1>4, OpenSame
<1>8. \A i \in DOMAIN h : n.at[i] = m.at[i] /\ i \in DOMAIN g
  <2>1. DOMAIN h \subseteq DOMAIN n.at
    BY <1>7 DEF Heap, Linked
  <2> QED BY <2>1, <1>5, <1>6 DEF Freed
<1>9. \A i \in DOMAIN h : n.at[i].ref => i \in DOMAIN k /\ n.at[i].child \in DOMAIN k \cup {Null}
  BY <1>8 DEF Growing
<1>10. \A j \in DOMAIN k : j \in DOMAIN h /\ h[j] = k[j] /\ (j \in Q \ {x} <=> j \in R) /\ j \notin O \ {x}
  BY <1>1, <1>2, <1>6 DEF Growing
<1>11. Growing(n, h, Q \ {x}, O \ {x}, k, R)
  BY <1>7, <1>9, <1>10 DEF Growing
<1> QED BY <1>11 DEF n

(* r is a call that made a tree of new items, or has left the forest as it *)
(* was.                                                                    *)
Made(r, k, R) ==
  IF r.ret = Null THEN Heap(r.m, k, R, {})
  ELSE r.ret \notin DOMAIN k /\ \E g : Growing(r.m, g, R \cup {r.ret}, {}, k, R)

(* A new item is a new tree. *)
LEMMA PlainMade ==
  ASSUME NEW m, NEW k, NEW R, Heap(m, k, R, {}), NEW r, NewPlain(m, r)
  PROVE  Made(r, k, R)
<1>1. CASE r.ret = Null
  BY <1>1 DEF NewPlain, Made
<1>2. CASE r.ret # Null
  <2>1. Growing(m, k, R, {}, k, R)
    BY GrownStart
  <2>2. PICK n, i : n = r.m /\ i = r.ret
    OBVIOUS
  <2>3. FreshPlain(m, n, i)
    BY <1>2, <2>2 DEF NewPlain, FreshPlain
  <2>4. Agree(k, {}, {})
    BY DEF Agree
  <2>5. Growing(n, Grow(k, i), R \cup {i}, {}, k, R) /\ Grown(k, i, Grow(k, i), k)
    BY <2>1, <2>3, <2>4, GrownFresh
  <2>6. i \notin DOMAIN k
    BY <2>5 DEF Grown
  <2> QED BY <1>2, <2>2, <2>5, <2>6 DEF Made
<1> QED BY <1>1, <1>2

(* An item without a text is made whole at once. *)
LEMMA TypedPlain ==
  ASSUME NEW m, IsMemory(m), NEW t \in ItemTypes, t \notin {"string", "raw"}, NEW v \in Nat, v # 0 => t = "number"
  PROVE  NewPlain(m, Typed(m, t, v))
<1>1. CASE Typed(m, t, v) = Result(m, Null)
  BY <1>1 DEF NewPlain, Result
<1>2. CASE Typed(m, t, v) # Result(m, Null)
  <2> DEFINE e == Bare(t, v)
  <2>1. PICK i \in Items \ DOMAIN m.at : Typed(m, t, v) = Result(With(m, i, e, m.strs), i)
    BY <1>2, TypedIs
  <2>0. i # Null
    BY TreeAssumption
  <2>2. /\ e \in ItemOf /\ e.next = Null /\ e.prev = Null /\ e.child = Null /\ e.type = t
        /\ e.ref = FALSE /\ e.valuestring = Null /\ e.value = v /\ e.string = Null
    <3>1. IsBare(e, t, v)
      BY BareIs
    <3> HIDE DEF e
    <3> QED BY <3>1 DEF IsBare
  <2> HIDE DEF e
  <2>3. Weight(e) = 0
    BY <2>2 DEF Weight, OwnsString, OwnsValue
  <2>4. m.strs = m.strs + Weight(e) /\ DataFits(e) /\ m.strs \in Int
    BY <2>2, <2>3 DEF IsMemory, DataFits
  <2>5. Fresh(m, With(m, i, e, m.strs), i) /\ With(m, i, e, m.strs).at[i] = e
    BY <2>2, <2>4, FreshIs
  <2>6. Typed(m, t, v).m = With(m, i, e, m.strs) /\ Typed(m, t, v).ret = i
    BY <2>1 DEF Result
  <2> QED BY <2>0, <2>2, <2>5, <2>6 DEF NewPlain
<1> QED BY <1>1, <1>2

-----------------------------------------------------------------------------
(* Arrays that are made in one call. *)

(* The turns of the loop in CreateFilledArray. *)
LEMMA FillRun ==
  ASSUME NEW m, NEW t, NEW v, NEW count \in Nat, NEW a, a = Typed(m, "array", 0), a.ret # Null
  PROVE  \E run : /\ run[0] = [m |-> a.m, last |-> Null, failed |-> FALSE]
                  /\ \A n \in Nat : n + 1 <= count => run[n + 1] = FillStep(run[n], a.ret, t, v)
                  /\ CreateFilledArray(m, t, v, count) =
                       IF run[count].failed THEN Result(run[count].m, Null)
                       ELSE Result(CloseList(run[count].m, a.ret, run[count].last), a.ret)
<1> DEFINE s0 == [m |-> a.m, last |-> Null, failed |-> FALSE]
           Turn(f, n) == IF n = 0 THEN s0 ELSE FillStep(f[n - 1], a.ret, t, v)
           run == CHOOSE f : f = [n \in 0 .. count |-> Turn(f, n)]
<1>2. CreateFilledArray(m, t, v, count) =
        IF run[count].failed THEN Result(run[count].m, Null)
        ELSE Result(CloseList(run[count].m, a.ret, run[count].last), a.ret)
  BY DEF CreateFilledArray
<1> HIDE DEF s0
<1> DEFINE S == {n \in Nat : \E f : f = [k \in 0 .. n |-> Turn(f, k)]}
<1>3. 0 \in S
  <2> DEFINE f == [k \in 0 .. 0 |-> s0]
  <2>1. f = [k \in 0 .. 0 |-> Turn(f, k)]
    OBVIOUS
  <2> QED BY <2>1
<1>4. ASSUME NEW n \in Nat, n \in S PROVE n + 1 \in S
  <2>1. PICK f : f = [k \in 0 .. n |-> Turn(f, k)]
    BY <1>4
  <2> DEFINE g == [k \in 0 .. n + 1 |-> IF k = n + 1 THEN FillStep(f[n], a.ret, t, v) ELSE f[k]]
  <2>2. ASSUME NEW k \in 0 .. n + 1 PROVE g[k] = Turn(g, k)
    <3>1. CASE k = n + 1
      <4>1. k - 1 = n /\ k # 0 /\ n \in 0 .. n + 1 /\ n # n + 1
        BY <3>1
      <4>2. g[k] = FillStep(f[n], a.ret, t, v) /\ g[n] = f[n]
        BY <3>1, <4>1
      <4> HIDE DEF g
      <4> QED BY <4>1, <4>2
    <3>2. CASE k = 0
      <4>1. 0 \in 0 .. n /\ 0 # n + 1
        OBVIOUS
      <4>2. f[0] = Turn(f, 0)
        BY <2>1, <4>1
      <4>3. g[0] = f[0]
        BY <3>2, <4>1
      <4> HIDE DEF g
      <4> QED BY <3>2, <4>2, <4>3
    <3>3. CASE k # 0 /\ k # n + 1
      <4>1. k \in 0 .. n /\ k - 1 \in 0 .. n + 1 /\ k - 1 # n + 1
        BY <3>3
      <4>2. f[k] = Turn(f, k)
        BY <2>1, <4>1
      <4>3. g[k] = f[k] /\ g[k - 1] = f[k - 1]
        BY <3>3, <4>1
      <4> HIDE DEF g
      <4> QED BY <3>3, <4>2, <4>3
    <3> QED BY <3>1, <3>2, <3>3
  <2>3. g = [k \in 0 .. n + 1 |-> Turn(g, k)]
    <3>1. g = [k \in 0 .. n + 1 |-> g[k]]
      OBVIOUS
    <3> HIDE DEF g, Turn
    <3> QED BY <2>2, <3>1
  <2> HIDE DEF g, Turn
  <2> QED BY <2>3
<1> HIDE DEF S, Turn
<1>5. Nat \subseteq S
  BY <1>3, <1>4, Induction
<1>6. \E f : f = [n \in 0 .. count |-> Turn(f, n)]
  BY <1>5 DEF S
<1>7. run = [n \in 0 .. count |-> Turn(run, n)]
  BY <1>6
<1> HIDE DEF run
<1>8. run[0] = s0
  <2>1. run[0] = Turn(run, 0)
    BY <1>7
  <2> QED BY <2>1 DEF Turn
<1>9. ASSUME NEW n \in Nat, n + 1 <= count PROVE run[n + 1] = FillStep(run[n], a.ret, t, v)
  <2>1. n + 1 \in 0 .. count /\ n + 1 # 0 /\ (n + 1) - 1 = n
    BY <1>9
  <2>2. run[n + 1] = Turn(run, n + 1)
    BY <1>7, <2>1
  <2> QED BY <2>1, <2>2 DEF Turn
<1> QED BY <1>2, <1>8, <1>9 DEF s0

(* The array a has the items made so far, and its list is open; or it has  *)
(* been deleted with them.                                                 *)
Filling(s, a, k, R) ==
  IF s.failed THEN Heap(s.m, k, R, {})
  ELSE a \notin DOMAIN k /\ \E g : Growing(s.m, g, R \cup {a}, {a}, k, R) /\ s.last = LastOf(g[a])

(* One turn of the loop of cJSON_Create...Array. *)
LEMMA FillingStep ==
  ASSUME NEW s, NEW a, NEW k, NEW R, Filling(s, a, k, R),
         NEW t \in ItemTypes, NEW v \in Nat, t \in {"string", "raw"} => v # Null
  PROVE  Filling(FillStep(s, a, t, v), a, k, R)
<1> DEFINE new == Create(s.m, t, v)
<1>1. CASE s.failed
  <2>1. FillStep(s, a, t, v) = s
    BY <1>1 DEF FillStep
  <2> QED BY <2>1
<1>2. CASE ~s.failed
  <2>1. PICK g : Growing(s.m, g, R \cup {a}, {a}, k, R) /\ s.last = LastOf(g[a]) /\ a \notin DOMAIN k
    BY <1>2 DEF Filling
  <2>2. NewPlain(s.m, new)
    BY <2>1, CreateIs DEF Growing, Heap
  <2>3. FillStep(s, a, t, v) =
          IF new.ret = Null THEN [m |-> cJSON_Delete(new.m, a), last |-> Null, failed |-> TRUE]
          ELSE [m |-> Chain(new.m, a, s.last, new.ret), last |-> new.ret, failed |-> FALSE]
    BY <1>2 DEF FillStep
  <2> HIDE DEF new
  <2>4. CASE new.ret = Null
    <3>1. new.m = s.m
      BY <2>2, <2>4 DEF NewPlain
    <3>2. PICK h : Growing(cJSON_Delete(s.m, a), h, (R \cup {a}) \ {a}, {a} \ {a}, k, R)
      <4>1. a \in R \cup {a}
        OBVIOUS
      <4> QED BY <2>1, <4>1, GrownDelete
    <3>3. (R \cup {a}) \ {a} = R /\ {a} \ {a} = {}
      <4>1. a \notin R
        BY <2>1 DEF Growing, IsForestOf
      <4> QED BY <4>1
    <3>4. Growing(cJSON_Delete(s.m, a), h, R, {}, k, R)
      BY <3>2, <3>3
    <3>5. h = k
      BY <3>4, GrownDone
    <3> QED BY <2>3, <2>4, <3>1, <3>4, <3>5 DEF Filling, Growing
  <2>5. CASE new.ret # Null
    <3> DEFINE P == R \cup {a}
    <3>0. PICK i, w : i = new.ret /\ w = new.m
      OBVIOUS
    <3> DEFINE h == Grow(g, i)
               n == Chain(w, a, LastOf(h[a]), i)
    <3>1. FreshPlain(s.m, w, i)
      BY <2>2, <2>5, <3>0 DEF NewPlain, FreshPlain
    <3>2. Growing(w, h, P \cup {i}, {a}, k, R) /\ i \notin DOMAIN g /\ i \notin DOMAIN k /\ \A j \in DOMAIN g : h[j] = g[j]
      <4> HIDE DEF P
      <4>1. PICK O : O = {a}
        OBVIOUS
      <4>2. Growing(s.m, g, P, O, k, R) /\ Agree(g, O, O)
        BY <2>1, <4>1 DEF P, Agree
      <4>3. Growing(w, h, P \cup {i}, O, k, R) /\ Grown(g, i, h, k)
        BY <3>1, <4>2, GrownFresh
      <4> QED BY <4>1, <4>3 DEF Grown
    <3>3. a \in DOMAIN g /\ a # i
      BY <2>1, <3>2 DEF Growing, Heap, IsForestOf
    <3>4. s.last = LastOf(h[a])
      BY <2>1, <3>2, <3>3
    <3> HIDE DEF h
    <3>5. PICK Q : Q = (R \cup {a}) \cup {i}
      OBVIOUS
    <3>6. i \in Q /\ a \in Q /\ a \in {a} /\ Q \ {i} = R \cup {a} /\ Growing(w, h, Q, {a}, k, R)
      <4>1. i \notin R
        BY <3>2 DEF Growing, IsForestOf
      <4> QED BY <3>2, <3>3, <3>5, <4>1
    <3>7. /\ Growing(n, Hung(h, a, i), Q \ {i}, {a}, k, R)
          /\ LastOf(Hung(h, a, i)[a]) = i
      <4>1. PICK O : O = {a}
        OBVIOUS
      <4>2. Growing(w, h, Q, O, k, R) /\ i \in Q /\ i \notin DOMAIN k /\ a \in Q /\ a # i /\ a \in O
        BY <3>2, <3>3, <3>6, <4>1
      <4>3. /\ Growing(n, Hung(h, a, i), Q \ {i}, O, k, R)
            /\ HungOn(w, n, h, Hung(h, a, i), a, i)
        BY <4>2, GrownChain
      <4> QED BY <4>1, <4>3 DEF HungOn
    <3>8. FillStep(s, a, t, v) = [m |-> n, last |-> i, failed |-> FALSE]
      BY <2>3, <2>5, <3>0, <3>4
    <3> HIDE DEF n
    <3>9. \E f : Growing(n, f, R \cup {a}, {a}, k, R) /\ i = LastOf(f[a])
      BY <3>6, <3>7
    <3> QED BY <2>1, <3>8, <3>9 DEF Filling
  <2> QED BY <2>4, <2>5
<1> QED BY <1>1, <1>2

(* cJSON_Create...Array makes a tree, or leaves everything as it was. *)
LEMMA FilledMade ==
  ASSUME NEW m, NEW k, NEW R, Heap(m, k, R, {}), NEW count \in Nat,
         NEW t \in ItemTypes, NEW v \in Nat, t \in {"string", "raw"} => v # Null
  PROVE  Made(CreateFilledArray(m, t, v, count), k, R)
<1>1. PICK a : a = Typed(m, "array", 0)
  OBVIOUS
<1>2. NewPlain(m, a)
  <2>1. PICK u \in ItemTypes : u = "array"
    BY DEF ItemTypes
  <2>2. u \notin {"string", "raw"} /\ IsMemory(m) /\ 0 \in Nat /\ a = Typed(m, u, 0)
    BY <1>1, <2>1 DEF Heap
  <2> QED BY <2>2, TypedPlain
<1>3. CASE a.ret = Null
  <2>1. CreateFilledArray(m, t, v, count) = a
    BY <1>1, <1>3 DEF CreateFilledArray
  <2> QED BY <1>2, <2>1, PlainMade
<1>4. CASE a.ret # Null
  <2>1. PICK run : /\ run[0] = [m |-> a.m, last |-> Null, failed |-> FALSE]
                   /\ \A n \in Nat : n + 1 <= count => run[n + 1] = FillStep(run[n], a.ret, t, v)
                   /\ CreateFilledArray(m, t, v, count) =
                        IF run[count].failed THEN Result(run[count].m, Null)
                        ELSE Result(CloseList(run[count].m, a.ret, run[count].last), a.ret)
    BY <1>1, <1>4, FillRun
  <2> DEFINE S == {n \in Nat : n <= count => Filling(run[n], a.ret, k, R)}
  <2>2. 0 \in S
    <3>1. Growing(m, k, R, {}, k, R)
      BY GrownStart
    <3>2. PICK w, i : w = a.m /\ i = a.ret
      OBVIOUS
    <3>8. FreshPlain(m, w, i)
      BY <1>2, <1>4, <3>2 DEF NewPlain, FreshPlain
    <3>10. PICK O, P : O = {} /\ P = {i}
      OBVIOUS
    <3>3. Agree(k, O, P)
      BY <3>8, <3>10 DEF Heap, Linked, Fresh, FreshPlain, Agree
    <3>11. Growing(w, Grow(k, i), R \cup {i}, P, k, R) /\ Grown(k, i, Grow(k, i), k)
      BY <3>1, <3>8, <3>3, <3>10, GrownFresh
    <3>9. Growing(w, Grow(k, i), R \cup {i}, {i}, k, R) /\ i \notin DOMAIN k /\ Grow(k, i)[i] = <<>>
      BY <3>10, <3>11 DEF Grown
    <3>4. /\ Growing(a.m, Grow(k, a.ret), R \cup {a.ret}, {a.ret}, k, R)
          /\ a.ret \notin DOMAIN k /\ Grow(k, a.ret)[a.ret] = <<>>
      BY <3>2, <3>9
    <3>5. LastOf(<<>>) = Null
      BY DEF LastOf
    <3>6. run[0].m = a.m /\ run[0].last = Null /\ ~run[0].failed
      BY <2>1
    <3>7. Filling(run[0], a.ret, k, R)
      BY <3>4, <3>5, <3>6 DEF Filling
    <3> QED BY <3>7
  <2>3. ASSUME NEW n \in Nat, n \in S PROVE n + 1 \in S
    <3> SUFFICES ASSUME n + 1 <= count PROVE Filling(run[n + 1], a.ret, k, R)
      OBVIOUS
    <3>1. run[n + 1] = FillStep(run[n], a.ret, t, v) /\ n <= count
      BY <2>1
    <3>2. Filling(run[n], a.ret, k, R)
      BY <2>3, <3>1
    <3>3. Filling(FillStep(run[n], a.ret, t, v), a.ret, k, R)
      BY <3>2, FillingStep
    <3> QED BY <3>1, <3>3
  <2> HIDE DEF S
  <2>4. count \in S
    BY <2>2, <2>3, Induction
  <2>5. Filling(run[count], a.ret, k, R)
    BY <2>4 DEF S
  <2>6. CASE run[count].failed
    BY <2>1, <2>5, <2>6 DEF Filling, Made, Result
  <2>7. CASE ~run[count].failed
    <3>1. PICK g : Growing(run[count].m, g, R \cup {a.ret}, {a.ret}, k, R) /\ run[count].last = LastOf(g[a.ret]) /\ a.ret \notin DOMAIN k
      BY <2>5, <2>7 DEF Filling
    <3>2. a.ret \in R \cup {a.ret}
      OBVIOUS
    <3>3. Growing(CloseList(run[count].m, a.ret, LastOf(g[a.ret])), g, R \cup {a.ret}, {a.ret} \ {a.ret}, k, R)
      BY <3>1, <3>2, GrownClose
    <3>4. {a.ret} \ {a.ret} = {}
      OBVIOUS
    <3>5. CreateFilledArray(m, t, v, count) = Result(CloseList(run[count].m, a.ret, LastOf(g[a.ret])), a.ret)
      BY <2>1, <2>7, <3>1
    <3> QED BY <1>4, <3>1, <3>3, <3>4, <3>5 DEF Made, Result
  <2> QED BY <2>6, <2>7
<1> QED BY <1>3, <1>4

-----------------------------------------------------------------------------
(* The stack of calls of cJSON_Duplicate. *)

Loop == [child : Pointer, new : Items, last : Pointer]

News(st) == {st[a].new : a \in DOMAIN st}

(* The copies are different, and none of them is an item of k. *)
Loops(st, k) ==
  /\ st \in Seq(Loop)
  /\ \A a, b \in DOMAIN st : st[a].new = st[b].new => a = b
  /\ \A a \in DOMAIN st : st[a].new \notin DOMAIN k

(* Each call is behind the last member its copy has in g; all but the      *)
(* innermost are at a child.                                               *)
At(f, g) == f.last = LastOf(g[f.new]) /\ f.child \in DOMAIN g \cup {Null}

Following(st, g) ==
  /\ \A a \in DOMAIN st : At(st[a], g)
  /\ \A a \in DOMAIN st : a # 1 => st[a].child # Null

(* The stack of calls with one more. *)
LEMMA Pushed ==
  ASSUME NEW D, NEW s \in Seq(D), NEW f \in D
  PROVE  /\ <<f>> \o s \in Seq(D) /\ Len(<<f>> \o s) = Len(s) + 1 /\ Len(s) \in Nat /\ <<f>> \o s # <<>>
         /\ 1 \in DOMAIN (<<f>> \o s) /\ (<<f>> \o s)[1] = f
         /\ \A a \in DOMAIN (<<f>> \o s) : a # 1 => a - 1 \in DOMAIN s /\ (<<f>> \o s)[a] = s[a - 1]
         /\ \A a \in DOMAIN s : a + 1 \in DOMAIN (<<f>> \o s) /\ (<<f>> \o s)[a + 1] = s[a]
<1> DEFINE t == <<f>> \o s
<1>1. PICK l \in Nat : l = Len(s)
  OBVIOUS
<1>2. /\ t \in Seq(D) /\ Len(t) = l + 1 /\ DOMAIN t = 1 .. l + 1 /\ DOMAIN s = 1 .. l
      /\ t[1] = f /\ \A a \in 1 .. l : t[a + 1] = s[a]
  BY <1>1
<1> HIDE DEF t
<1>3. t # <<>>
  BY <1>2
<1>4. ASSUME NEW a \in DOMAIN t, a # 1 PROVE a - 1 \in DOMAIN s /\ t[a] = s[a - 1]
  <2>1. a - 1 \in 1 .. l /\ (a - 1) + 1 = a
    BY <1>2, <1>4
  <2>2. t[(a - 1) + 1] = s[a - 1]
    BY <1>2, <2>1
  <2> QED BY <1>2, <2>1, <2>2
<1> QED BY <1>1, <1>2, <1>3, <1>4 DEF t

(* And with one less. *)
LEMMA Popped ==
  ASSUME NEW D, NEW s \in Seq(D), s # <<>>
  PROVE  /\ Tail(s) \in Seq(D) /\ Len(Tail(s)) + 1 = Len(s) /\ Len(Tail(s)) \in Nat /\ Len(s) \in Nat
         /\ (Tail(s) = <<>> <=> Len(s) = 1)
         /\ 1 \in DOMAIN s /\ Head(s) = s[1] /\ Head(s) \in D
         /\ \A a \in DOMAIN Tail(s) : a + 1 \in DOMAIN s /\ a + 1 # 1 /\ Tail(s)[a] = s[a + 1]
         /\ \A a \in DOMAIN s : a # 1 => a - 1 \in DOMAIN Tail(s) /\ Tail(s)[a - 1] = s[a]
         /\ Tail(s) # <<>> => 2 \in DOMAIN s /\ Tail(s)[1] = s[2]
<1> DEFINE t == Tail(s)
<1>1. PICK l \in Nat : l = Len(s)
  OBVIOUS
<1>2. /\ l >= 1 /\ DOMAIN s = 1 .. l /\ Head(s) = s[1] /\ t \in Seq(D) /\ Len(t) = l - 1 /\ DOMAIN t = 1 .. l - 1
      /\ \A a \in 1 .. l - 1 : t[a] = s[a + 1]
  BY <1>1
<1> HIDE DEF t
<1>3. t = <<>> <=> Len(t) = 0
  BY <1>2
<1>4. ASSUME NEW a \in DOMAIN s, a # 1 PROVE a - 1 \in DOMAIN t /\ t[a - 1] = s[a]
  <2>1. a - 1 \in 1 .. l - 1 /\ (a - 1) + 1 = a
    BY <1>2, <1>4
  <2>2. t[a - 1] = s[(a - 1) + 1]
    BY <1>2, <2>1
  <2> QED BY <1>2, <2>1, <2>2
<1>5. ASSUME NEW a \in DOMAIN t PROVE a + 1 \in DOMAIN s /\ a + 1 # 1 /\ t[a] = s[a + 1]
  BY <1>2, <1>5
<1>6. l - 1 \in Nat /\ Len(t) + 1 = l /\ (t = <<>> <=> l = 1)
  BY <1>2, <1>3
<1>7. 1 \in DOMAIN s /\ s[1] \in D
  BY <1>2
<1>8. ASSUME t # <<>> PROVE 2 \in DOMAIN s /\ t[1] = s[2]
  <2>1. l # 1 /\ 1 \in 1 .. l - 1 /\ 2 \in 1 .. l
    BY <1>2, <1>6, <1>8
  <2> QED BY <1>2, <2>1
<1> QED BY <1>1, <1>2, <1>4, <1>5, <1>6, <1>7, <1>8 DEF t

LEMMA LoopsPush ==
  ASSUME NEW st, NEW k, Loops(st, k), NEW f \in Loop, f.new \notin News(st), f.new \notin DOMAIN k
  PROVE  Loops(<<f>> \o st, k) /\ News(<<f>> \o st) = News(st) \cup {f.new}
<1> DEFINE t == <<f>> \o st
<1>1. /\ t \in Seq(Loop) /\ 1 \in DOMAIN t /\ t[1] = f
      /\ \A a \in DOMAIN t : a # 1 => a - 1 \in DOMAIN st /\ t[a] = st[a - 1]
      /\ \A a \in DOMAIN st : a + 1 \in DOMAIN t /\ t[a + 1] = st[a]
  BY Pushed DEF Loops
<1>2. DOMAIN t \subseteq Nat
  BY <1>1
<1> HIDE DEF t
<1>3. ASSUME NEW a \in DOMAIN t, NEW b \in DOMAIN t, t[a].new = t[b].new PROVE a = b
  <2>1. CASE a = 1 /\ b = 1
    BY <2>1
  <2>2. CASE a = 1 /\ b # 1
    BY <1>1, <1>3, <2>2 DEF News
  <2>3. CASE a # 1 /\ b = 1
    BY <1>1, <1>3, <2>3 DEF News
  <2>4. CASE a # 1 /\ b # 1
    <3>1. \A c, d \in DOMAIN st : st[c].new = st[d].new => c = d
      BY DEF Loops
    <3>2. a - 1 = b - 1
      BY ONLY <1>1, <1>3, <2>4, <3>1
    <3> QED BY <1>2, <3>2
  <2> QED BY <2>1, <2>2, <2>3, <2>4
<1>4. \A a \in DOMAIN t : t[a].new \notin DOMAIN k
  BY <1>1 DEF Loops
<1>5. Loops(t, k)
  BY <1>1, <1>3, <1>4 DEF Loops
<1>6. News(t) \subseteq News(st) \cup {f.new}
  <2> SUFFICES ASSUME NEW a \in DOMAIN t PROVE t[a].new \in News(st) \cup {f.new}
    BY DEF News
  <2> QED BY <1>1 DEF News
<1>7. News(st) \cup {f.new} \subseteq News(t)
  <2>1. \A a \in DOMAIN st : st[a].new \in News(t)
    <3> TAKE a \in DOMAIN st
    <3>1. a + 1 \in DOMAIN t /\ t[a + 1].new = st[a].new
      BY <1>1
    <3> QED BY <3>1 DEF News
  <2>2. f.new \in News(t)
    BY <1>1 DEF News
  <2> QED BY <2>1, <2>2 DEF News
<1> QED BY <1>5, <1>6, <1>7 DEF t

LEMMA LoopsPop ==
  ASSUME NEW st, NEW k, Loops(st, k), st # <<>>
  PROVE  Loops(Tail(st), k) /\ News(Tail(st)) = News(st) \ {Head(st).new} /\ Head(st).new \in News(st)
<1> DEFINE t == Tail(st)
<1>1. /\ t \in Seq(Loop) /\ 1 \in DOMAIN st /\ Head(st) = st[1]
      /\ \A a \in DOMAIN t : a + 1 \in DOMAIN st /\ a + 1 # 1 /\ t[a] = st[a + 1]
      /\ \A a \in DOMAIN st : a # 1 => a - 1 \in DOMAIN t /\ t[a - 1] = st[a]
  BY Popped DEF Loops
<1>2. DOMAIN t \subseteq Nat
  BY <1>1
<1> HIDE DEF t
<1>3. ASSUME NEW a \in DOMAIN t, NEW b \in DOMAIN t, t[a].new = t[b].new PROVE a = b
  <2>1. \A c, d \in DOMAIN st : st[c].new = st[d].new => c = d
    BY DEF Loops
  <2>2. a + 1 = b + 1
    BY ONLY <1>1, <1>3, <2>1
  <2> QED BY <1>2, <2>2
<1>4. Loops(t, k)
  BY <1>1, <1>3 DEF Loops
<1>5. \A a \in DOMAIN t : t[a].new \in News(st) /\ t[a].new # st[1].new
  <2> TAKE a \in DOMAIN t
  <2>1. a + 1 \in DOMAIN st /\ a + 1 # 1 /\ t[a] = st[a + 1]
    BY <1>1
  <2>2. st[a + 1].new # st[1].new
    BY <1>1, <2>1 DEF Loops
  <2> QED BY <2>1, <2>2 DEF News
<1>6. \A a \in DOMAIN st : st[a].new # st[1].new => st[a].new \in News(t)
  <2> TAKE a \in DOMAIN st
  <2> HAVE st[a].new # st[1].new
  <2>1. a - 1 \in DOMAIN t /\ t[a - 1] = st[a]
    BY <1>1
  <2> QED BY <2>1 DEF News
<1>7. News(t) \subseteq News(st) \ {Head(st).new}
  BY <1>1, <1>5 DEF News
<1>8. News(st) \ {Head(st).new} \subseteq News(t)
  BY <1>1, <1>6 DEF News
<1> QED BY <1>1, <1>4, <1>7, <1>8 DEF t, News

-----------------------------------------------------------------------------
(* Copies of trees. *)

(* The turns of cJSON_Duplicate. *)
Turns(m, i, c, run) ==
  /\ run[0] = [m |-> c.m, stack |-> <<CopyLoop(m.at[i].child, c.ret, Null)>>, ret |-> Null, failed |-> FALSE]
  /\ \A n \in Nat : n + 1 <= MaxSteps => run[n + 1] = DuplicateStep(run[n])
  /\ cJSON_Duplicate(m, i, TRUE) = Result(run[MaxSteps].m, run[MaxSteps].ret)

(* cJSON_Duplicate as the run of its turns. *)
LEMMA CopyRun ==
  ASSUME NEW m, NEW i, NEW c, c = CopyItem(m, i), c.ret # Null
  PROVE  \E run : Turns(m, i, c, run)
<1> DEFINE s0 == [m |-> c.m, stack |-> <<CopyLoop(m.at[i].child, c.ret, Null)>>, ret |-> Null, failed |-> FALSE]
           Turn(f, k) == IF k = 0 THEN s0 ELSE DuplicateStep(f[k - 1])
           run == CHOOSE f : f = [k \in 0 .. MaxSteps |-> Turn(f, k)]
<1>1. MaxSteps \in Nat
  BY ItemsFinite DEF MaxSteps
<1>2. cJSON_Duplicate(m, i, TRUE) = Result(run[MaxSteps].m, run[MaxSteps].ret)
  BY DEF cJSON_Duplicate
<1> HIDE DEF s0
<1> DEFINE S == {n \in Nat : \E f : f = [k \in 0 .. n |-> Turn(f, k)]}
<1>3. 0 \in S
  <2> DEFINE f == [k \in 0 .. 0 |-> s0]
  <2>1. f = [k \in 0 .. 0 |-> Turn(f, k)]
    OBVIOUS
  <2> QED BY <2>1
<1>4. ASSUME NEW n \in Nat, n \in S PROVE n + 1 \in S
  <2>1. PICK f : f = [k \in 0 .. n |-> Turn(f, k)]
    BY <1>4
  <2> DEFINE g == [k \in 0 .. n + 1 |-> IF k = n + 1 THEN DuplicateStep(f[n]) ELSE f[k]]
  <2>2. ASSUME NEW k \in 0 .. n + 1 PROVE g[k] = Turn(g, k)
    <3>1. CASE k = n + 1
      <4>1. k - 1 = n /\ k # 0 /\ n \in 0 .. n + 1 /\ n # n + 1
        BY <3>1
      <4>2. g[k] = DuplicateStep(f[n]) /\ g[n] = f[n]
        BY <3>1, <4>1
      <4> HIDE DEF g
      <4> QED BY <4>1, <4>2
    <3>2. CASE k = 0
      <4>1. 0 \in 0 .. n /\ 0 # n + 1
        OBVIOUS
      <4>2. f[0] = Turn(f, 0)
        BY <2>1, <4>1
      <4>3. g[0] = f[0]
        BY <3>2, <4>1
      <4> HIDE DEF g
      <4> QED BY <3>2, <4>2, <4>3
    <3>3. CASE k # 0 /\ k # n + 1
      <4>1. k \in 0 .. n /\ k - 1 \in 0 .. n + 1 /\ k - 1 # n + 1
        BY <3>3
      <4>2. f[k] = Turn(f, k)
        BY <2>1, <4>1
      <4>3. g[k] = f[k] /\ g[k - 1] = f[k - 1]
        BY <3>3, <4>1
      <4> HIDE DEF g
      <4> QED BY <3>3, <4>2, <4>3
    <3> QED BY <3>1, <3>2, <3>3
  <2>3. g = [k \in 0 .. n + 1 |-> Turn(g, k)]
    <3>1. g = [k \in 0 .. n + 1 |-> g[k]]
      OBVIOUS
    <3> HIDE DEF g, Turn
    <3> QED BY <2>2, <3>1
  <2> HIDE DEF g, Turn
  <2> QED BY <2>3
<1> HIDE DEF S, Turn
<1>5. Nat \subseteq S
  BY <1>3, <1>4, Induction
<1>6. \E f : f = [k \in 0 .. MaxSteps |-> Turn(f, k)]
  BY <1>1, <1>5 DEF S
<1>7. run = [k \in 0 .. MaxSteps |-> Turn(run, k)]
  BY <1>6
<1> HIDE DEF run
<1>8. run[0] = s0
  <2>1. run[0] = Turn(run, 0)
    BY <1>1, <1>7
  <2> QED BY <2>1 DEF Turn
<1>9. ASSUME NEW n \in Nat, n + 1 <= MaxSteps PROVE run[n + 1] = DuplicateStep(run[n])
  <2>1. n + 1 \in 0 .. MaxSteps /\ n + 1 # 0 /\ (n + 1) - 1 = n
    BY <1>1, <1>9
  <2>2. run[n + 1] = Turn(run, n + 1)
    BY <1>7, <2>1
  <2> QED BY <2>1, <2>2 DEF Turn
<1>10. Turns(m, i, c, run)
  BY <1>2, <1>8, <1>9 DEF s0, Turns
<1> QED BY <1>10

(* The copies made so far, after n turns: n is bounded, for each turn      *)
(* makes a copy, returns one or gives one back.                            *)
Copying(s, n, k, R) ==
  /\ s = [m |-> s.m, stack |-> s.stack, ret |-> s.ret, failed |-> s.failed]
  /\ s.stack = <<>> => Made(Result(s.m, s.ret), k, R)
  /\ s.stack # <<>> =>
       /\ s.ret = Null /\ Loops(s.stack, k)
       /\ \E g : /\ Growing(s.m, g, R \cup News(s.stack), News(s.stack), k, R)
                 /\ ~s.failed => Following(s.stack, g)
       /\ n + Len(s.stack) <= IF s.failed THEN 2 * Cardinality(Items) + 1 ELSE 2 * Cardinality(DOMAIN s.m.at)

(* After a failure. *)
LEMMA GiveBackStep ==
  ASSUME NEW s, NEW n \in Nat, NEW k, NEW R, Copying(s, n, k, R), s.stack # <<>>, s.failed = TRUE
  PROVE  Copying(GiveBack(s), n + 1, k, R)
<1> DEFINE x == Head(s.stack).new
           st == Tail(s.stack)
           d == cJSON_Delete(s.m, x)
<1>1. /\ s = [m |-> s.m, stack |-> s.stack, ret |-> s.ret, failed |-> s.failed] /\ s.ret = Null
      /\ Loops(s.stack, k) /\ n + Len(s.stack) <= 2 * Cardinality(Items) + 1
  BY DEF Copying
<1>2. GiveBack(s) = [m |-> d, stack |-> st, ret |-> Null, failed |-> TRUE]
  <2>1. GiveBack(s) = [[m |-> s.m, stack |-> s.stack, ret |-> Null, failed |-> TRUE] EXCEPT !.m = d, !.stack = st]
    BY <1>1 DEF GiveBack
  <2> HIDE DEF d, st
  <2> QED BY <2>1
<1>3. Loops(st, k) /\ News(st) = News(s.stack) \ {x} /\ x \in News(s.stack)
  BY <1>1, LoopsPop
<1>4. Len(st) + 1 = Len(s.stack) /\ Len(st) \in Nat
  BY <1>1, Popped DEF Loops
<1>5. \A a \in News(s.stack) : a \notin DOMAIN k
  BY <1>1 DEF Loops, News
<1> HIDE DEF x, st
<1>6. PICK g, Q, O : Growing(s.m, g, Q, O, k, R) /\ Q = R \cup News(s.stack) /\ O = News(s.stack)
  BY DEF Copying
<1>7. x \in Q /\ x \notin DOMAIN k /\ Q \ {x} = R \cup News(st) /\ O \ {x} = News(st)
  <2>1. R \subseteq DOMAIN k
    BY <1>6 DEF Growing, IsForestOf
  <2> QED BY <2>1, <1>3, <1>5, <1>6
<1>8. PICK h : Growing(d, h, Q \ {x}, O \ {x}, k, R)
  BY <1>6, <1>7, GrownDelete
<1> HIDE DEF d
<1>9. Growing(d, h, R \cup News(st), News(st), k, R)
  BY <1>7, <1>8
<1>10. CASE st = <<>>
  <2>1. News(st) = {} /\ R \cup News(st) = R
    BY <1>10 DEF News
  <2>2. Growing(d, h, R, {}, k, R)
    BY <1>9, <2>1
  <2>3. h = k
    BY <2>2, GrownDone
  <2>4. Heap(d, k, R, {})
    BY <2>2, <2>3 DEF Growing
  <2>5. Made(Result(d, Null), k, R)
    BY <2>4 DEF Made, Result
  <2> QED BY <1>2, <1>10, <2>5 DEF Copying
<1>11. CASE st # <<>>
  <2>1. (n + 1) + Len(st) <= 2 * Cardinality(Items) + 1
    <3>1. (n + 1) + Len(st) = n + Len(s.stack)
      BY <1>4
    <3> QED BY <1>1, <3>1
  <2>2. PICK t : t = GiveBack(s)
    OBVIOUS
  <2>3. t.m = d /\ t.stack = st /\ t.ret = Null /\ t.failed = TRUE /\ t = [m |-> t.m, stack |-> t.stack, ret |-> t.ret, failed |-> t.failed]
    BY <1>2, <2>2
  <2>4. Copying(t, n + 1, k, R)
    BY <1>3, <1>9, <1>11, <2>1, <2>3 DEF Copying
  <2> QED BY <2>2, <2>4
<1> QED BY <1>10, <1>11

LEMMA Follows ==
  ASSUME NEW st, NEW g, Following(st, g), NEW D, st \in Seq(D), st # <<>>
  PROVE  At(Head(st), g) /\ Following(Tail(st), g) /\ \A a \in DOMAIN Tail(st) : Tail(st)[a].child # Null
BY Popped DEF Following

(* A call that begins joins those on the stack. *)
LEMMA FollowsPush ==
  ASSUME NEW st, NEW g, Following(st, g), NEW D, st \in Seq(D), NEW f \in D, At(f, g),
         \A a \in DOMAIN st : st[a].child # Null
  PROVE  Following(<<f>> \o st, g)
<1> DEFINE t == <<f>> \o st
<1>1. t[1] = f /\ \A a \in DOMAIN t : a # 1 => a - 1 \in DOMAIN st /\ t[a] = st[a - 1]
  BY Pushed
<1> HIDE DEF t
<1>2. \A a \in DOMAIN t : At(t[a], g)
  <2> TAKE a \in DOMAIN t
  <2>1. CASE a = 1
    BY <1>1, <2>1
  <2>2. CASE a # 1
    <3>1. a - 1 \in DOMAIN st /\ t[a] = st[a - 1]
      BY <1>1, <2>2
    <3>2. At(st[a - 1], g)
      BY <3>1 DEF Following
    <3> QED BY <3>1, <3>2
  <2> QED BY <2>1, <2>2
<1>3. \A a \in DOMAIN t : a # 1 => t[a].child # Null
  BY <1>1
<1>4. Following(t, g)
  BY <1>2, <1>3 DEF Following
<1> QED BY <1>4 DEF t

(* The calls are behind the same members in h. *)
LEMMA FollowsSame ==
  ASSUME NEW st, NEW g, NEW h, Following(st, g), DOMAIN g \subseteq DOMAIN h,
         \A a \in DOMAIN st : h[st[a].new] = g[st[a].new]
  PROVE  Following(st, h)
BY DEF Following, At

(* A turn that makes the copy of a child. *)
LEMMA CopyChildStep ==
  ASSUME NEW s, NEW n \in Nat, NEW k, NEW R, Copying(s, n, k, R), s.stack # <<>>, s.failed = FALSE,
         Head(s.stack).child # Null
  PROVE  Copying(CopyChild(s), n + 1, k, R)
<1>1. PICK st, m : st = s.stack /\ m = s.m
  OBVIOUS
<1>2. /\ s = [m |-> m, stack |-> st, ret |-> Null, failed |-> FALSE]
      /\ Loops(st, k) /\ n + Len(st) <= 2 * Cardinality(DOMAIN m.at)
  BY <1>1 DEF Copying
<1>3. PICK g : Growing(m, g, R \cup News(st), News(st), k, R) /\ Following(st, g)
  BY <1>1 DEF Copying
<1>4. Heap(m, g, R \cup News(st), News(st))
  BY <1>3 DEF Growing
<1>5. st \in Seq(Loop) /\ Len(st) \in Nat /\ At(Head(st), g) /\ Head(st) = st[1]
  <2>1. st \in Seq(Loop) /\ st # <<>>
    BY <1>1, <1>2 DEF Loops
  <2>2. Len(st) \in Nat /\ Head(st) = st[1]
    BY <2>1, Popped
  <2>3. At(Head(st), g)
    BY <1>3, <2>1, Follows
  <2> QED BY <2>1, <2>2, <2>3
<1>6. PICK child : child = Head(st).child
  OBVIOUS
<1>7. child \in DOMAIN g /\ child \in DOMAIN m.at /\ DOMAIN g \subseteq DOMAIN m.at
  BY <1>1, <1>4, <1>5, <1>6 DEF At, Heap, Linked
<1>8. PICK c : c = CopyItem(m, child)
  OBVIOUS
<1>9. NewPlain(m, c)
  BY <1>4, <1>7, <1>8, CopyItemIs DEF Heap
<1>10. DOMAIN m.at \in SUBSET Items
  BY <1>4 DEF Heap, IsMemory
<1>11. CASE c.ret = Null
  <2>1. c.m = m
    BY <1>9, <1>11 DEF NewPlain
  <2>2. CopyChild(s) = [m |-> m, stack |-> st, ret |-> Null, failed |-> TRUE]
    <3>1. CopyChild(s) = [s EXCEPT !.m = m, !.failed = TRUE]
      BY <1>1, <1>6, <1>8, <1>11, <2>1 DEF CopyChild
    <3>2. s = [m |-> m, stack |-> st, ret |-> Null, failed |-> FALSE]
      BY <1>2
    <3> QED BY <3>1, <3>2
  <2>3. (n + 1) + Len(st) <= 2 * Cardinality(Items) + 1
    <3>1. Cardinality(DOMAIN m.at) \in Nat /\ Cardinality(DOMAIN m.at) <= Cardinality(Items) /\ Cardinality(Items) \in Nat
      BY <1>10, ItemsFinite
    <3> QED BY <1>2, <1>5, <3>1
  <2>4. PICK t : t = CopyChild(s)
    OBVIOUS
  <2>5. t.m = m /\ t.stack = st /\ t.ret = Null /\ t.failed = TRUE /\ t = [m |-> t.m, stack |-> t.stack, ret |-> t.ret, failed |-> t.failed]
    BY <2>2, <2>4
  <2>6. Copying(t, n + 1, k, R)
    BY <1>1, <1>2, <1>3, <2>3, <2>5 DEF Copying
  <2> QED BY <2>4, <2>6
<1>12. CASE c.ret # Null
  <2>1. PICK i, w : i = c.ret /\ w = c.m
    OBVIOUS
  <2>2. PICK f : f = CopyLoop(m.at[child].child, i, Null)
    OBVIOUS
  <2> DEFINE u == <<f>> \o st
             h == Grow(g, i)
             Q == R \cup News(st)
             O == News(st)
             P == News(st) \cup {i}
  <2>3. FreshPlain(m, w, i)
    BY <1>9, <1>12, <2>1 DEF NewPlain, FreshPlain
  <2>4. i \notin DOMAIN m.at /\ DOMAIN w.at = DOMAIN m.at \cup {i}
    BY <2>3 DEF FreshPlain, Fresh
  <2>5. Agree(g, O, P)
    BY <1>7, <2>4 DEF Agree
  <2>6. Growing(m, g, Q, O, k, R) /\ Q \cup {i} = R \cup P
    BY <1>3
  <2> HIDE DEF Q, O, P
  <2>7. Growing(w, h, Q \cup {i}, P, k, R) /\ Grown(g, i, h, k)
    BY <2>3, <2>5, <2>6, GrownFresh
  <2> HIDE DEF h
  <2>8. Growing(w, h, R \cup P, P, k, R)
    BY <2>6, <2>7
  <2>9. /\ i \notin DOMAIN g /\ i \notin DOMAIN k /\ i \in DOMAIN h /\ i \in Items /\ h[i] = <<>>
        /\ \A j \in DOMAIN g : j \in DOMAIN h /\ h[j] = g[j]
    BY <2>7 DEF Grown
  <2>10. m.at[child].child \in DOMAIN g \cup {Null}
    <3>1. CASE m.at[child].ref
      BY <1>4, <1>7, <3>1 DEF Heap
    <3>2. CASE ~m.at[child].ref
      BY <1>4, <1>7, <3>2, LinksInside DEF Heap
    <3> QED BY <3>1, <3>2
  <2>11. f.child = m.at[child].child /\ f.new = i /\ f.last = Null /\ f \in Loop
    <3>1. m.at[child].child \in Pointer /\ Null \in Pointer
      BY <1>7, <1>10, <2>10 DEF Pointer
    <3>2. f = [child |-> m.at[child].child, new |-> i, last |-> Null]
      BY <2>2 DEF CopyLoop
    <3> QED BY <2>9, <3>1, <3>2 DEF Loop
  <2>12. News(st) \subseteq DOMAIN g
    BY <1>4 DEF Heap, IsForestOf
  <2>13. Loops(u, k) /\ News(u) = P
    BY <1>2, <2>9, <2>11, <2>12, LoopsPush DEF P
  <2>14. Following(u, h)
    <3>1. Following(st, h)
      <4>1. \A a \in DOMAIN st : h[st[a].new] = g[st[a].new]
        BY <2>9, <2>12 DEF News
      <4>2. DOMAIN g \subseteq DOMAIN h
        BY <2>9
      <4> QED BY <1>3, <4>1, <4>2, FollowsSame
    <3>2. At(f, h)
      BY <2>9, <2>10, <2>11 DEF At, LastOf
    <3>3. \A a \in DOMAIN st : st[a].child # Null
      <4> TAKE a \in DOMAIN st
      <4>1. CASE a = 1
        BY <1>1, <1>5, <4>1
      <4>2. CASE a # 1
        BY <1>3, <4>2 DEF Following
      <4> QED BY <4>1, <4>2
    <3> QED BY <1>5, <2>11, <3>1, <3>2, <3>3, FollowsPush
  <2>15. (n + 1) + Len(u) <= 2 * Cardinality(DOMAIN w.at)
    <3>1. IsFiniteSet(DOMAIN m.at) /\ Cardinality(DOMAIN m.at) \in Nat
      BY <1>10, ItemsFinite
    <3>2. Cardinality(DOMAIN w.at) = Cardinality(DOMAIN m.at) + 1
      BY <2>4, <3>1, FS_AddElement
    <3>3. Len(u) = Len(st) + 1
      BY <1>5, <2>11, Pushed
    <3> QED BY <1>2, <1>5, <3>1, <3>2, <3>3
  <2>16. CopyChild(s) = [m |-> w, stack |-> u, ret |-> Null, failed |-> FALSE]
    <3>1. CopyChild(s) = [s EXCEPT !.m = w, !.stack = <<f>> \o st]
      <4>1. CopyChild(s) = [s EXCEPT !.m = w, !.stack = <<f>> \o @]
        BY <1>1, <1>6, <1>8, <1>12, <2>1, <2>2 DEF CopyChild
      <4> QED BY <1>1, <1>2, <4>1
    <3>2. s = [m |-> m, stack |-> st, ret |-> Null, failed |-> FALSE]
      BY <1>2
    <3>4. CopyChild(s) = [s EXCEPT !.m = w, !.stack = u]
      BY <3>1 DEF u
    <3> HIDE DEF u
    <3> QED BY <3>2, <3>4
  <2>17. u # <<>>
    BY <1>5, <2>11, Pushed
  <2> HIDE DEF u
  <2>18. PICK t : t = CopyChild(s)
    OBVIOUS
  <2>19. t.m = w /\ t.stack = u /\ t.ret = Null /\ t.failed = FALSE /\ t = [m |-> t.m, stack |-> t.stack, ret |-> t.ret, failed |-> t.failed]
    BY <2>16, <2>18
  <2>20. Copying(t, n + 1, k, R)
    BY <2>8, <2>13, <2>14, <2>15, <2>17, <2>19 DEF Copying
  <2> QED BY <2>18, <2>20
<1> QED BY <1>11, <1>12

(* A turn that hands a copy to the call above, or to the caller of         *)
(* cJSON_Duplicate.                                                        *)
LEMMA CopyReturnStep ==
  ASSUME NEW s, NEW n \in Nat, NEW k, NEW R, Copying(s, n, k, R), s.stack # <<>>, s.failed = FALSE
  PROVE  Copying(CopyReturn(s), n + 1, k, R)
<1>1. PICK st, m, f : st = s.stack /\ m = s.m /\ f = Head(s.stack)
  OBVIOUS
<1>2. /\ s = [m |-> m, stack |-> st, ret |-> Null, failed |-> FALSE]
      /\ Loops(st, k) /\ n + Len(st) <= 2 * Cardinality(DOMAIN m.at) /\ st # <<>>
  BY <1>1 DEF Copying
<1>3. PICK g, Q, O : Growing(m, g, Q, O, k, R) /\ Following(st, g) /\ Q = R \cup News(st) /\ O = News(st)
  BY <1>1 DEF Copying
<1>4. PICK rest : rest = Tail(st)
  OBVIOUS
<1>5. Loops(rest, k) /\ News(rest) = News(st) \ {f.new} /\ f.new \in News(st)
  BY <1>1, <1>2, <1>4, LoopsPop
<1>6. At(f, g) /\ Following(rest, g) /\ \A a \in DOMAIN rest : rest[a].child # Null
  BY <1>1, <1>2, <1>3, <1>4, Follows DEF Loops
<1>7. \A a \in News(st) : a \notin DOMAIN k /\ a \in DOMAIN g
  BY <1>2, <1>3 DEF Loops, News, Growing, Heap, IsForestOf
<1>8. PICK x : x = f.new
  OBVIOUS
<1>9. x \in Q /\ x \notin DOMAIN k /\ x \in DOMAIN g /\ Q \ {x} = R \cup News(rest) /\ O \ {x} = News(rest)
  <2>1. R \subseteq DOMAIN k
    BY <1>3 DEF Growing, IsForestOf
  <2> QED BY <2>1, <1>3, <1>5, <1>7, <1>8
<1> DEFINE d == CloseList(m, x, LastOf(g[x]))
<1>10. Growing(d, g, Q, O \ {x}, k, R) /\ DOMAIN d.at = DOMAIN m.at
  <2>1. Growing(m, g, Q, O, k, R)
    BY <1>3
  <2>2. x \in Q
    BY <1>9
  <2>3. x \notin DOMAIN k
    BY <1>9
  <2> QED BY <2>1, <2>2, <2>3, GrownClose
<1>11. CloseList(s.m, f.new, f.last) = d
  BY <1>1, <1>6, <1>8 DEF At
<1>12. /\ Len(st) \in Nat /\ Len(rest) + 1 = Len(st) /\ Len(rest) \in Nat /\ (rest = <<>> <=> Len(st) = 1)
       /\ rest \in Seq(Loop) /\ (rest # <<>> => rest[1] = st[2])
  BY <1>2, <1>4, Popped DEF Loops
<1>13. x \in Items /\ x # Null /\ DOMAIN g \subseteq Items
  BY <1>3, <1>9, TreeAssumption DEF Growing, Heap, Linked, IsMemory
<1> HIDE DEF d
<1>14. CASE rest = <<>>
  <2>1. News(rest) = {}
    BY <1>14 DEF News
  <2>2. Q = R \cup {x} /\ O \ {x} = {}
    BY <1>3, <1>5, <1>8, <1>9, <2>1
  <2>3. Growing(d, g, R \cup {x}, {}, k, R)
    BY <1>10, <2>2
  <2>4. Made(Result(d, x), k, R)
    BY <1>9, <1>13, <2>3 DEF Made, Result
  <2>5. CopyReturn(s) = [m |-> d, stack |-> <<>>, ret |-> x, failed |-> FALSE]
    <3>1. CopyReturn(s) = [s EXCEPT !.m = d, !.stack = <<>>, !.ret = x]
      BY <1>1, <1>8, <1>11, <1>12, <1>14 DEF CopyReturn
    <3>2. s = [m |-> m, stack |-> st, ret |-> Null, failed |-> FALSE]
      BY <1>2
    <3> QED BY <3>1, <3>2
  <2> QED BY <2>4, <2>5 DEF Copying
<1>15. CASE rest # <<>>
  <2>1. PICK e, p, low : e = Head(rest) /\ p = e.new /\ low = Tail(rest)
    OBVIOUS
  <2>2. Loops(low, k) /\ News(low) = News(rest) \ {p} /\ p \in News(rest)
    BY <1>5, <1>15, <2>1, LoopsPop
  <2>3. At(e, g) /\ Following(low, g) /\ \A a \in DOMAIN low : low[a].child # Null
    BY <1>6, <1>12, <1>15, <2>1, Follows
  <2>4. 1 \in DOMAIN rest /\ e = rest[1] /\ e = st[2] /\ low \in Seq(Loop) /\ Len(low) + 1 = Len(rest) /\ Len(low) \in Nat
    BY <1>12, <1>15, <2>1, Popped
  <2>5. e.child \in DOMAIN g
    BY <1>6, <2>3, <2>4 DEF At
  <2>6. p \in Q /\ p # x /\ p \in O \ {x} /\ p \in DOMAIN g /\ p \in Items
    BY <1>3, <1>5, <1>7, <1>8, <1>9, <1>13, <2>2
  <2> DEFINE h == Hung(g, p, x)
             w == Chain(d, p, LastOf(g[p]), x)
  <2>7. PICK P : P = O \ {x}
    OBVIOUS
  <2>8. Growing(d, g, Q, P, k, R) /\ p \in P
    BY <1>10, <2>6, <2>7
  <2>9. /\ Growing(w, h, Q \ {x}, P, k, R) /\ DOMAIN w.at = DOMAIN d.at
        /\ DOMAIN h = DOMAIN g /\ LastOf(h[p]) = x /\ \A j \in DOMAIN g : j # p => h[j] = g[j]
    <3>1. x \in Q /\ x \notin DOMAIN k
      BY <1>9
    <3>2. p \in Q /\ p # x /\ p \in P
      BY <2>6, <2>8
    <3>3. Growing(d, g, Q, P, k, R)
      BY <2>8
    <3>4. Growing(w, h, Q \ {x}, P, k, R) /\ HungOn(d, w, g, h, p, x)
      BY <3>1, <3>2, <3>3, GrownChain
    <3> QED BY <3>4 DEF HungOn
  <2>10. Chain(d, e.new, e.last, x) = w
    BY <2>1, <2>3 DEF At
  <2> HIDE DEF h, w
  <2>11. PICK fr : fr = CopyLoop(d.at[e.child].next, p, x)
    OBVIOUS
  <2>12. d.at[e.child].next \in DOMAIN g \cup {Null}
    BY <1>10, <2>5, LinksInside DEF Growing, Heap
  <2>13. fr.child = d.at[e.child].next /\ fr.new = p /\ fr.last = x /\ fr \in Loop
    <3>1. d.at[e.child].next \in Pointer /\ x \in Pointer
      BY <1>13, <2>12 DEF Pointer
    <3>2. fr = [child |-> d.at[e.child].next, new |-> p, last |-> x]
      BY <2>11 DEF CopyLoop
    <3> QED BY <2>6, <3>1, <3>2 DEF Loop
  <2> DEFINE u == <<fr>> \o low
  <2>14. Loops(u, k) /\ News(u) = News(rest)
    <3>1. fr.new \notin News(low) /\ fr.new \notin DOMAIN k /\ News(low) \cup {fr.new} = News(rest)
      BY <1>5, <1>7, <2>2, <2>13
    <3> QED BY <2>2, <2>13, <3>1, LoopsPush
  <2>15. Following(u, h)
    <3>1. Following(low, h)
      <4>1. \A a \in DOMAIN low : h[low[a].new] = g[low[a].new]
        <5> TAKE a \in DOMAIN low
        <5>1. low[a].new \in News(low)
          BY DEF News
        <5>2. low[a].new # p /\ low[a].new \in DOMAIN g
          BY <1>5, <1>7, <2>2, <5>1
        <5> QED BY <2>9, <5>2
      <4>2. DOMAIN g \subseteq DOMAIN h
        BY <2>9
      <4> QED BY <2>3, <4>1, <4>2, FollowsSame
    <3>2. At(fr, h)
      BY <2>9, <2>12, <2>13 DEF At
    <3> QED BY <2>3, <2>4, <2>13, <3>1, <3>2, FollowsPush
  <2>16. u # <<>> /\ Len(u) + 1 = Len(st) /\ Len(u) \in Nat
    <3>1. u # <<>> /\ Len(u) = Len(low) + 1
      BY <2>4, <2>13, Pushed
    <3> QED BY <1>12, <2>4, <3>1
  <2>17. (n + 1) + Len(u) <= 2 * Cardinality(DOMAIN w.at)
    <3>1. (n + 1) + Len(u) = n + Len(st)
      BY <1>12, <2>16
    <3> QED BY <1>2, <1>10, <2>9, <3>1
  <2>18. CopyReturn(s) = [m |-> w, stack |-> u, ret |-> Null, failed |-> FALSE]
    <3>1. Len(st) # 1 /\ s.stack[2] = e /\ Tail(Tail(s.stack)) = low
      BY <1>1, <1>4, <1>12, <1>15, <2>1, <2>4
    <3>2. CopyReturn(s) = [s EXCEPT !.m = w, !.stack = <<fr>> \o low]
      <4>1. CopyReturn(s) = [s EXCEPT !.m = Chain(d, e.new, e.last, x),
                                      !.stack = <<CopyLoop(d.at[e.child].next, e.new, x)>> \o Tail(Tail(@))]
        BY <1>1, <1>8, <1>11, <3>1 DEF CopyReturn
      <4>2. CopyLoop(d.at[e.child].next, e.new, x) = fr
        BY <2>1, <2>11
      <4> QED BY <1>1, <1>2, <2>10, <3>1, <4>1, <4>2
    <3>3. s = [m |-> m, stack |-> st, ret |-> Null, failed |-> FALSE]
      BY <1>2
    <3>5. CopyReturn(s) = [s EXCEPT !.m = w, !.stack = u]
      BY <3>2 DEF u
    <3> HIDE DEF u
    <3> QED BY <3>3, <3>5
  <2> HIDE DEF u
  <2>19. Growing(w, h, R \cup News(u), News(u), k, R)
    BY <1>9, <2>7, <2>9, <2>14
  <2>20. PICK t : t = CopyReturn(s)
    OBVIOUS
  <2>21. t.m = w /\ t.stack = u /\ t.ret = Null /\ t.failed = FALSE /\ t = [m |-> t.m, stack |-> t.stack, ret |-> t.ret, failed |-> t.failed]
    BY <2>18, <2>20
  <2>22. Copying(t, n + 1, k, R)
    BY <2>14, <2>15, <2>16, <2>17, <2>19, <2>21 DEF Copying
  <2> QED BY <2>20, <2>22
<1> QED BY <1>14, <1>15

(* One turn of cJSON_Duplicate, also after a failure. *)
LEMMA CopyingStep ==
  ASSUME NEW s, NEW n \in Nat, NEW k, NEW R, Copying(s, n, k, R), s.failed \in BOOLEAN
  PROVE  Copying(DuplicateStep(s), n + 1, k, R) /\ DuplicateStep(s).failed \in BOOLEAN
<1>1. CASE s.stack = <<>>
  <2>1. DuplicateStep(s) = s
    BY <1>1 DEF DuplicateStep
  <2>2. Copying(s, n + 1, k, R)
    BY <1>1 DEF Copying
  <2> QED BY <2>1, <2>2
<1>2. CASE s.stack # <<>> /\ s.failed = TRUE
  <2>1. DuplicateStep(s) = GiveBack(s)
    BY <1>2 DEF DuplicateStep
  <2>2. Copying(GiveBack(s), n + 1, k, R)
    BY <1>2, GiveBackStep
  <2>3. GiveBack(s).failed = s.failed
    <3>1. s = [m |-> s.m, stack |-> s.stack, ret |-> s.ret, failed |-> s.failed]
      BY DEF Copying
    <3> QED BY <3>1 DEF GiveBack
  <2> QED BY <2>1, <2>2, <2>3
<1>3. CASE s.stack # <<>> /\ s.failed = FALSE /\ Head(s.stack).child # Null
  <2>1. DuplicateStep(s) = CopyChild(s)
    BY <1>3 DEF DuplicateStep
  <2>2. Copying(CopyChild(s), n + 1, k, R)
    BY <1>3, CopyChildStep
  <2>3. CopyChild(s).failed \in BOOLEAN
    <3>1. s = [m |-> s.m, stack |-> s.stack, ret |-> s.ret, failed |-> s.failed]
      BY DEF Copying
    <3> QED BY <1>3, <3>1 DEF CopyChild
  <2> QED BY <2>1, <2>2, <2>3
<1>4. CASE s.stack # <<>> /\ s.failed = FALSE /\ Head(s.stack).child = Null
  <2>1. DuplicateStep(s) = CopyReturn(s)
    BY <1>4 DEF DuplicateStep
  <2>2. Copying(CopyReturn(s), n + 1, k, R)
    BY <1>4, CopyReturnStep
  <2>3. CopyReturn(s).failed \in BOOLEAN
    <3>1. s = [m |-> s.m, stack |-> s.stack, ret |-> s.ret, failed |-> s.failed]
      BY DEF Copying
    <3> QED BY <1>4, <3>1 DEF CopyReturn
  <2> QED BY <2>1, <2>2, <2>3
<1> QED BY <1>1, <1>2, <1>3, <1>4

(* The turns of a call that has made its first copy: at the end no call is *)
(* left on the stack.                                                      *)
LEMMA CopyingRun ==
  ASSUME NEW m, NEW k, NEW R, Heap(m, k, R, {}), NEW i \in DOMAIN k, NEW c, c = CopyItem(m, i), c.ret # Null
  PROVE  \E run : /\ Turns(m, i, c, run)
                  /\ \A n \in 0 .. MaxSteps : Copying(run[n], n, k, R) /\ run[n].failed \in BOOLEAN
                  /\ run[MaxSteps].stack = <<>>
<1>8. i \in DOMAIN m.at /\ IsMemory(m)
  BY DEF Heap, Linked
<1>9. NewPlain(m, c)
  BY <1>8, CopyItemIs DEF Heap
<1>10. PICK run : Turns(m, i, c, run)
  BY CopyRun
<1>1. /\ run[0] = [m |-> c.m, stack |-> <<CopyLoop(m.at[i].child, c.ret, Null)>>, ret |-> Null, failed |-> FALSE]
      /\ \A n \in Nat : n + 1 <= MaxSteps => run[n + 1] = DuplicateStep(run[n])
  BY <1>10 DEF Turns
<1> DEFINE S == {n \in Nat : n <= MaxSteps => Copying(run[n], n, k, R) /\ run[n].failed \in BOOLEAN}
<1>2. 0 \in S
  <2>1. PICK w, x, f : w = c.m /\ x = c.ret /\ f = CopyLoop(m.at[i].child, x, Null)
    OBVIOUS
  <2>2. PICK st : st = <<f>>
    OBVIOUS
  <2> DEFINE g == Grow(k, x)
  <2>3. FreshPlain(m, w, x)
    BY <1>9, <2>1 DEF NewPlain, FreshPlain
  <2>4. Growing(m, k, R, {}, k, R)
    BY GrownStart
  <2>5. PICK O, P : O = {} /\ P = {x}
    OBVIOUS
  <2>6. Agree(k, O, P)
    BY <2>3, <2>5 DEF FreshPlain, Fresh, Heap, Linked, Agree
  <2>7. Growing(w, g, R \cup {x}, P, k, R) /\ Grown(k, x, g, k)
    BY <2>3, <2>4, <2>5, <2>6, GrownFresh
  <2> HIDE DEF g
  <2>8. x \notin DOMAIN k /\ x \in DOMAIN g /\ x \in Items /\ g[x] = <<>> /\ \A j \in DOMAIN k : j \in DOMAIN g
    BY <2>7 DEF Grown
  <2>9. m.at[i].child \in DOMAIN k \cup {Null}
    <3>1. CASE m.at[i].ref
      BY <3>1 DEF Heap
    <3>2. CASE ~m.at[i].ref
      BY <3>2, LinksInside DEF Heap
    <3> QED BY <3>1, <3>2
  <2>10. f.child = m.at[i].child /\ f.new = x /\ f.last = Null /\ f \in Loop
    <3>1. m.at[i].child \in Pointer /\ Null \in Pointer
      BY <2>9 DEF Heap, Linked, IsMemory, Pointer
    <3>2. f = [child |-> m.at[i].child, new |-> x, last |-> Null]
      BY <2>1 DEF CopyLoop
    <3> QED BY <2>8, <3>1, <3>2 DEF Loop
  <2>11. st \in Seq(Loop) /\ Len(st) = 1 /\ DOMAIN st = {1} /\ st[1] = f /\ st # <<>>
    BY <2>2, <2>10
  <2>12. Loops(st, k) /\ News(st) = P
    BY <2>5, <2>8, <2>10, <2>11 DEF Loops, News
  <2>13. At(f, g)
    BY <2>8, <2>9, <2>10 DEF At, LastOf
  <2>14. Following(st, g)
    BY <2>11, <2>13 DEF Following
  <2>15. Growing(w, g, R \cup News(st), News(st), k, R)
    BY <2>5, <2>7, <2>12
  <2>16. 0 + Len(st) <= 2 * Cardinality(DOMAIN w.at)
    <3>1. DOMAIN w.at = DOMAIN m.at \cup {x} /\ x \notin DOMAIN m.at /\ DOMAIN m.at \in SUBSET Items
      BY <1>8, <2>3 DEF FreshPlain, Fresh, IsMemory
    <3>2. Cardinality(DOMAIN w.at) = Cardinality(DOMAIN m.at) + 1 /\ Cardinality(DOMAIN m.at) \in Nat
      BY <3>1, ItemsFinite, FS_AddElement
    <3> QED BY <2>11, <3>2
  <2>17. run[0] = [m |-> w, stack |-> st, ret |-> Null, failed |-> FALSE]
    BY <1>1, <2>1, <2>2
  <2>18. PICK s : s = run[0]
    OBVIOUS
  <2>19. s.m = w /\ s.stack = st /\ s.ret = Null /\ s.failed = FALSE /\ s = [m |-> s.m, stack |-> s.stack, ret |-> s.ret, failed |-> s.failed]
    BY <2>17, <2>18
  <2>20. Copying(s, 0, k, R)
    BY <2>11, <2>12, <2>14, <2>15, <2>16, <2>19 DEF Copying
  <2>21. Copying(run[0], 0, k, R) /\ run[0].failed \in BOOLEAN
    BY <2>18, <2>19, <2>20
  <2> QED BY <2>21
<1>3. ASSUME NEW n \in Nat, n \in S PROVE n + 1 \in S
  <2>0. MaxSteps \in Nat
    BY ItemsFinite DEF MaxSteps
  <2> SUFFICES ASSUME n + 1 <= MaxSteps PROVE Copying(run[n + 1], n + 1, k, R) /\ run[n + 1].failed \in BOOLEAN
    OBVIOUS
  <2>1. run[n + 1] = DuplicateStep(run[n]) /\ n <= MaxSteps
    BY <1>1, <2>0
  <2>2. Copying(run[n], n, k, R) /\ run[n].failed \in BOOLEAN
    BY <1>3, <2>1
  <2>3. Copying(DuplicateStep(run[n]), n + 1, k, R) /\ DuplicateStep(run[n]).failed \in BOOLEAN
    BY <2>2, CopyingStep
  <2> QED BY <2>1, <2>3
<1> HIDE DEF S
<1>4. MaxSteps \in S /\ MaxSteps \in Nat
  <2>1. MaxSteps \in Nat
    BY ItemsFinite DEF MaxSteps
  <2>2. Nat \subseteq S
    BY <1>2, <1>3, Induction
  <2> QED BY <2>1, <2>2
<1>5. PICK s : s = run[MaxSteps]
  OBVIOUS
<1>6. Copying(s, MaxSteps, k, R) /\ s.failed \in BOOLEAN
  BY <1>4, <1>5 DEF S
<1>7. s.stack = <<>>
  <2> SUFFICES ASSUME s.stack # <<>> PROVE FALSE
    OBVIOUS
  <2>1. Loops(s.stack, k) /\ \E g : Growing(s.m, g, R \cup News(s.stack), News(s.stack), k, R)
    BY <1>6 DEF Copying
  <2>2. DOMAIN s.m.at \in SUBSET Items
    BY <2>1 DEF Growing, Heap, IsMemory
  <2>3. PICK N, c1, l : N = Cardinality(Items) /\ c1 = Cardinality(DOMAIN s.m.at) /\ l = Len(s.stack)
    OBVIOUS
  <2>4. N \in Nat /\ c1 \in Nat /\ c1 <= N /\ MaxSteps = 3 * N + 1
    BY <2>2, <2>3, ItemsFinite DEF MaxSteps
  <2>5. l \in Nat /\ l >= 1
    <3>1. s.stack \in Seq(Loop)
      BY <2>1 DEF Loops
    <3>2. Len(Tail(s.stack)) + 1 = Len(s.stack) /\ Len(Tail(s.stack)) \in Nat
      BY <3>1, Popped
    <3> QED BY <2>3, <3>2
  <2>6. MaxSteps + l <= IF s.failed THEN 2 * N + 1 ELSE 2 * c1
    BY <1>6, <2>3 DEF Copying
  <2> QED BY <2>4, <2>5, <2>6
<1>11. \A n \in 0 .. MaxSteps : Copying(run[n], n, k, R) /\ run[n].failed \in BOOLEAN
  <2>1. Nat \subseteq S
    BY <1>2, <1>3, Induction
  <2> QED BY <1>4, <2>1 DEF S
<1> QED BY <1>5, <1>7, <1>10, <1>11

(* The call makes a whole copy or leaves nothing behind. *)
LEMMA CopyMade ==
  ASSUME NEW m, NEW k, NEW R, Heap(m, k, R, {}), NEW i \in DOMAIN k, NEW recurse \in BOOLEAN
  PROVE  Made(cJSON_Duplicate(m, i, recurse), k, R)
<1>1. PICK c : c = CopyItem(m, i)
  OBVIOUS
<1>2. i \in DOMAIN m.at /\ IsMemory(m)
  BY DEF Heap, Linked
<1>3. NewPlain(m, c)
  BY <1>1, <1>2, CopyItemIs DEF Heap
<1>4. CASE c.ret = Null \/ ~recurse
  <2>1. cJSON_Duplicate(m, i, recurse) = c
    BY <1>1, <1>4 DEF cJSON_Duplicate
  <2> QED BY <1>3, <2>1, PlainMade
<1>5. CASE c.ret # Null /\ recurse = TRUE
  <2>1. PICK run : /\ Turns(m, i, c, run)
                   /\ \A n \in 0 .. MaxSteps : Copying(run[n], n, k, R) /\ run[n].failed \in BOOLEAN
                   /\ run[MaxSteps].stack = <<>>
    BY <1>1, <1>5, CopyingRun
  <2>2. PICK s : s = run[MaxSteps]
    OBVIOUS
  <2>3. MaxSteps \in 0 .. MaxSteps
    BY ItemsFinite DEF MaxSteps
  <2>4. Made(Result(s.m, s.ret), k, R)
    BY <2>1, <2>2, <2>3 DEF Copying
  <2>5. cJSON_Duplicate(m, i, TRUE) = Result(s.m, s.ret)
    BY <2>1, <2>2 DEF Turns
  <2> QED BY <1>5, <2>4, <2>5
<1> QED BY <1>4, <1>5

-----------------------------------------------------------------------------
(* Copies that are like their originals. *)

(* The items of m are in n as they are, and the others of n are no         *)
(* references.                                                             *)
Kept(m, n) ==
  /\ \A j \in DOMAIN m.at : j \in DOMAIN n.at /\ n.at[j] = m.at[j]
  /\ \A j \in DOMAIN n.at \ DOMAIN m.at : ~n.at[j].ref

Lasts(st) == {st[a].last : a \in DOMAIN st}

(* The call e has copied the children of its original in m up to e.child;  *)
(* n is the memory, and f maps a copy to its original.                     *)
Stage(e, f, m, n, k) ==
  /\ e.new \in DOMAIN f /\ e.child \in DOMAIN k \cup {Null}
  /\ IF e.last = Null THEN n.at[e.new].child = Null /\ m.at[f[e.new]].child = e.child
     ELSE /\ e.last \in DOMAIN f /\ m.at[f[e.last]].next = e.child
          /\ n.at[e.new].child \in DOMAIN f /\ f[n.at[e.new].child] = m.at[f[e.new]].child

(* Copies are like their originals, also in the children of all but those  *)
(* in C, and in the siblings of all but those in S.                        *)
Resemble(f, m, n, C, S) ==
  /\ \A x \in DOMAIN f : SameItem(n.at[x], m.at[f[x]])
  /\ \A x \in DOMAIN f : x \notin C => CopyOf(f, n.at[x].child, m.at[f[x]].child)
  /\ \A x \in DOMAIN f : x \notin S => CopyOf(f, n.at[x].next, m.at[f[x]].next)

(* The calls on the stack are at the children they copy. *)
Stages(st, f, m, n, k) ==
  /\ \A a \in DOMAIN st : Stage(st[a], f, m, n, k)
  /\ \A a \in DOMAIN st : a # 1 => st[a].child = f[st[a - 1].new]

(* f maps the new items of n to items of k, and c to i. *)
Originals(f, m, n, i, c, k) ==
  /\ f \in [DOMAIN n.at \ DOMAIN m.at -> DOMAIN k]
  /\ c \in DOMAIN f /\ f[c] = i /\ n.at[c].next = Null

(* What has been copied in n, for the calls on the stack; the siblings of  *)
(* the copies in S may be missing.                                         *)
Copies(f, m, n, i, c, k, st, S) ==
  Originals(f, m, n, i, c, k) /\ Stages(st, f, m, n, k) /\ Resemble(f, m, n, News(st), S)

(* c is the copy of the outermost call. *)
Outermost(s, c) == IF s.stack = <<>> THEN s.ret = c ELSE s.stack[Len(s.stack)].new = c

Open(st, c) == {c} \cup News(st) \cup Lasts(st)

(* The copies made so far from i, of which c is the top. *)
Duplicating(s, m, i, c, k) ==
  /\ Kept(m, s.m)
  /\ s.failed => s.ret = Null
  /\ ~s.failed => Outermost(s, c) /\ \E f : Copies(f, m, s.m, i, c, k, s.stack, Open(s.stack, c))

(* Storing into an item leaves the others as they are. *)
LEMMA PutElsewhere ==
  ASSUME NEW m, IsMemory(m), NEW i \in DOMAIN m.at, NEW f, NEW v
  PROVE  \A j \in DOMAIN m.at : j # i => Put(m, i, f, v).at[j] = m.at[j]
<1> DEFINE it == [m.at[i] EXCEPT ![f] = v]
           h  == [j \in DOMAIN m.at |-> IF j = i THEN it ELSE m.at[j]]
<1>1. Put(m, i, f, v).at = h
  BY PutIs
<1> HIDE DEF it
<1>2. \A j \in DOMAIN m.at : j # i => h[j] = m.at[j]
  OBVIOUS
<1> HIDE DEF h
<1> QED BY <1>1, <1>2

(* What closing a list changes. *)
LEMMA CloseIs ==
  ASSUME NEW m, IsMemory(m), NEW p, NEW l \in DOMAIN m.at \cup {Null},
         l # Null => m.at[p].child \in DOMAIN m.at
  PROVE  /\ SameData(m, CloseList(m, p, l))
         /\ \A j \in DOMAIN m.at : /\ CloseList(m, p, l).at[j].next = m.at[j].next
                                   /\ CloseList(m, p, l).at[j].child = m.at[j].child
                                   /\ j # m.at[p].child \/ l = Null => CloseList(m, p, l).at[j] = m.at[j]
<1>1. CASE l = Null
  BY <1>1, SameDataRefl DEF CloseList
<1>2. CASE l # Null
  <2>1. PICK q : q = m.at[p].child
    OBVIOUS
  <2>2. CloseList(m, p, l) = Put(m, q, "prev", l)
    BY <1>2, <2>1 DEF CloseList
  <2>3. q \in DOMAIN m.at /\ l \in Pointer
    BY <1>2, <2>1 DEF IsMemory, Pointer
  <2>4. \A j \in DOMAIN m.at : j # q => Put(m, q, "prev", l).at[j] = m.at[j]
    BY <2>3, PutElsewhere
  <2> QED BY <1>2, <2>1, <2>2, <2>3, <2>4, PutPrev
<1> QED BY <1>1, <1>2

(* What linking an item as the last one changes. *)
LEMMA ChainIs ==
  ASSUME NEW m, IsMemory(m), NEW p \in DOMAIN m.at, ~m.at[p].ref, NEW l \in DOMAIN m.at \cup {Null},
         NEW x \in DOMAIN m.at
  PROVE  /\ SameData(m, Chain(m, p, l, x))
         /\ \A j \in DOMAIN m.at :
              /\ Chain(m, p, l, x).at[j].next = IF j = l THEN x ELSE m.at[j].next
              /\ Chain(m, p, l, x).at[j].child = IF j = p /\ l = Null THEN x ELSE m.at[j].child
              /\ j \notin {p, l, x} => Chain(m, p, l, x).at[j] = m.at[j]
<1>0. x \in Pointer /\ l \in Pointer /\ Null \notin DOMAIN m.at
  BY TreeAssumption DEF IsMemory, Pointer
<1>1. CASE l = Null
  <2>1. Chain(m, p, l, x) = Put(m, p, "child", x)
    BY <1>1 DEF Chain
  <2>2. \A j \in DOMAIN m.at : j # p => Put(m, p, "child", x).at[j] = m.at[j]
    BY PutElsewhere
  <2>3. \A j \in DOMAIN m.at : j # l
    BY <1>0, <1>1
  <2> QED BY <1>0, <1>1, <2>1, <2>2, <2>3, PutChild
<1>2. CASE l # Null
  <2>1. PICK n, w : n = Put(m, l, "next", x) /\ w = Put(n, x, "prev", l)
    OBVIOUS
  <2>2. Chain(m, p, l, x) = w
    BY <1>2, <2>1 DEF Chain, suffix_object
  <2>3. l \in DOMAIN m.at
    BY <1>2
  <2>4. SameData(m, n) /\ \A j \in DOMAIN m.at : n.at[j].next = IF j = l THEN x ELSE m.at[j].next
    BY <1>0, <2>1, <2>3, PutNext
  <2>5. \A j \in DOMAIN m.at : n.at[j].child = m.at[j].child
    BY <1>0, <2>1, <2>3, PutNext
  <2>6. \A j \in DOMAIN m.at : j # l => n.at[j] = m.at[j]
    BY <2>1, <2>3, PutElsewhere
  <2>7. IsMemory(n) /\ DOMAIN n.at = DOMAIN m.at
    BY <2>4 DEF SameData
  <2>8. SameData(n, w) /\ \A j \in DOMAIN n.at : w.at[j].next = n.at[j].next /\ w.at[j].child = n.at[j].child
    BY <1>0, <2>1, <2>7, PutPrev
  <2>9. \A j \in DOMAIN n.at : j # x => w.at[j] = n.at[j]
    BY <2>1, <2>7, PutElsewhere
  <2>10. SameData(m, w)
    BY <2>4, <2>8, SameDataTrans
  <2> QED BY <1>2, <2>2, <2>4, <2>5, <2>6, <2>7, <2>8, <2>9, <2>10
<1> QED BY <1>1, <1>2

(* The calls on the stack have roots as copies, and members as last ones. *)
LEMMA StackApart ==
  ASSUME NEW m, NEW g, NEW st, NEW k, NEW R, Growing(m, g, R \cup News(st), News(st), k, R), Following(st, g)
  PROVE  /\ IsMemory(m) /\ DOMAIN g \subseteq DOMAIN m.at /\ Null \notin DOMAIN m.at
         /\ News(st) \subseteq DOMAIN g /\ Lasts(st) \subseteq DOMAIN g \cup {Null}
         /\ Lasts(st) \cap News(st) = {}
         /\ \A a \in DOMAIN st : st[a].last # Null => m.at[st[a].last].next = Null
<1>1. PICK Q, O : Q = R \cup News(st) /\ O = News(st)
  OBVIOUS
<1>2. Growing(m, g, Q, O, k, R)
  BY <1>1
<1>3. IsMemory(m) /\ IsForestOf(g, Q) /\ Linked(m, g, Q, O) /\ DOMAIN g \subseteq DOMAIN m.at
  BY <1>2 DEF Growing, Heap, Linked
<1>4. Null \notin DOMAIN m.at
  BY <1>3, TreeAssumption DEF IsMemory
<1>5. News(st) \subseteq DOMAIN g
  BY <1>1, <1>3 DEF IsForestOf
<1>6. ASSUME NEW a \in DOMAIN st, st[a].last # Null
      PROVE  /\ st[a].last \in DOMAIN g /\ st[a].last \notin Q /\ m.at[st[a].last].next = Null
  <2>1. PICK p, l : p = st[a].new /\ l = st[a].last
    OBVIOUS
  <2>2. p \in DOMAIN g /\ l = LastOf(g[p]) /\ l # Null
    BY <1>5, <1>6, <2>1 DEF News, Following, At
  <2>3. g[p] # <<>> /\ l = g[p][Len(g[p])]
    BY <2>2 DEF LastOf
  <2>4. DOMAIN g[p] = 1 .. Len(g[p]) /\ Len(g[p]) \in Nat /\ g[p] \in Seq(DOMAIN g)
    BY <1>3, <2>2, ForestFacts
  <2>5. Len(g[p]) \in DOMAIN g[p]
    BY <2>3, <2>4
  <2>6. l \in DOMAIN g /\ l \notin Q
    BY <1>3, <2>2, <2>3, <2>5, ForestFacts DEF IsForestOf
  <2>7. ~m.at[p].ref
    BY <1>3, <2>2, <2>3 DEF Linked
  <2>8. ListOf(m, p, g[p], O)
    BY <1>3, <2>2, <2>7 DEF Linked
  <2>9. m.at[l].next = Null
    BY <2>3, <2>4, <2>5, <2>8 DEF ListOf
  <2> QED BY <2>1, <2>6, <2>9
<1>7. Null \notin News(st)
  BY <1>3, <1>4, <1>5
<1>8. Lasts(st) \subseteq DOMAIN g \cup {Null} /\ Lasts(st) \cap News(st) = {}
  BY <1>1, <1>6, <1>7 DEF Lasts
<1> QED BY <1>3, <1>4, <1>5, <1>6, <1>8
(* The copies of a stack and the last members, with one call less.         *)
LEMMA PartsPop ==
  ASSUME NEW D, NEW st \in Seq(D), st # <<>>
  PROVE  News(st) = News(Tail(st)) \cup {Head(st).new} /\ Lasts(st) = Lasts(Tail(st)) \cup {Head(st).last}
<1>1. PICK t : t = Tail(st)
  OBVIOUS
<1>2. /\ 1 \in DOMAIN st /\ Head(st) = st[1] /\ \A a \in DOMAIN t : a + 1 \in DOMAIN st /\ t[a] = st[a + 1]
      /\ \A a \in DOMAIN st : a # 1 => a - 1 \in DOMAIN t /\ t[a - 1] = st[a]
  BY <1>1, Popped
<1>3. \A a \in DOMAIN t : t[a].new \in News(st) /\ t[a].last \in Lasts(st)
  BY <1>2 DEF News, Lasts
<1>4. ASSUME NEW a \in DOMAIN st
      PROVE st[a].new \in News(t) \cup {st[1].new} /\ st[a].last \in Lasts(t) \cup {st[1].last}
  <2>1. a # 1 => \E b \in DOMAIN t : t[b] = st[a]
    BY <1>2
  <2> QED BY <2>1 DEF News, Lasts
<1>5. st[1].new \in News(st) /\ st[1].last \in Lasts(st)
  BY <1>2 DEF News, Lasts
<1>6. News(t) \subseteq News(st) /\ Lasts(t) \subseteq Lasts(st)
  BY <1>3 DEF News, Lasts
<1>7. News(st) \subseteq News(t) \cup {st[1].new} /\ Lasts(st) \subseteq Lasts(t) \cup {st[1].last}
  <2>1. \A x \in News(st) : \E a \in DOMAIN st : x = st[a].new
    BY DEF News
  <2>2. \A x \in Lasts(st) : \E a \in DOMAIN st : x = st[a].last
    BY DEF Lasts
  <2> QED BY <1>4, <2>1, <2>2
<1> QED BY <1>1, <1>2, <1>5, <1>6, <1>7

(* And with one more. *)
LEMMA PartsPush ==
  ASSUME NEW D, NEW st \in Seq(D), NEW e \in D
  PROVE  News(<<e>> \o st) = News(st) \cup {e.new} /\ Lasts(<<e>> \o st) = Lasts(st) \cup {e.last}
<1>1. PICK u : u = <<e>> \o st
  OBVIOUS
<1>2. u \in Seq(D) /\ u # <<>>
  BY <1>1, Pushed
<1>3. Tail(u) = st /\ Head(u) = e
  BY <1>1
<1>4. News(u) = News(Tail(u)) \cup {Head(u).new} /\ Lasts(u) = Lasts(Tail(u)) \cup {Head(u).last}
  BY <1>2, PartsPop
<1> QED BY <1>1, <1>3, <1>4

(* The call e is at the end of its children. *)
Closing(m, k, n, f, i, c, st, e) ==
  /\ IsMemory(n) /\ Null \notin DOMAIN n.at /\ Kept(m, n)
  /\ st \in Seq(Loop) /\ st # <<>> /\ Copies(f, m, n, i, c, k, st, Open(st, c))
  /\ e = Head(st) /\ e.child = Null /\ (e.last # Null => n.at[e.last].next = Null)

(* It closes the list of its copy. *)
LEMMA CloseLike ==
  ASSUME NEW m, NEW k, NEW n, NEW f, NEW i, NEW c, NEW st, NEW e, Closing(m, k, n, f, i, c, st, e)
  PROVE  /\ SameData(n, CloseList(n, e.new, e.last)) /\ Kept(m, CloseList(n, e.new, e.last))
         /\ Copies(f, m, CloseList(n, e.new, e.last), i, c, k, Tail(st), Open(Tail(st), c) \cup {e.new})
         /\ Tail(st) # <<>> => Tail(st)[1].child = f[e.new]
         /\ e.new \in DOMAIN f
<1> /\ IsMemory(n) /\ Null \notin DOMAIN n.at /\ Kept(m, n)
    /\ st \in Seq(Loop) /\ st # <<>> /\ Copies(f, m, n, i, c, k, st, Open(st, c))
    /\ e = Head(st) /\ e.child = Null /\ (e.last # Null => n.at[e.last].next = Null)
  BY DEF Closing
<1>1. PICK rest, d, p, l : rest = Tail(st) /\ d = CloseList(n, e.new, e.last) /\ p = e.new /\ l = e.last
  OBVIOUS
<1>2. /\ 1 \in DOMAIN st /\ e = st[1] /\ e \in Loop
      /\ \A a \in DOMAIN rest : a + 1 \in DOMAIN st /\ a + 1 # 1 /\ rest[a] = st[a + 1]
      /\ rest # <<>> => 2 \in DOMAIN st /\ rest[1] = st[2]
      /\ rest \in Seq(Loop)
  BY <1>1, Popped
<1>3. Originals(f, m, n, i, c, k) /\ Stages(st, f, m, n, k) /\ Resemble(f, m, n, News(st), Open(st, c))
  BY DEF Copies
<1>4. f \in [DOMAIN n.at \ DOMAIN m.at -> DOMAIN k] /\ c \in DOMAIN f /\ DOMAIN f = DOMAIN n.at \ DOMAIN m.at
  BY <1>3 DEF Originals
<1>5. Stage(e, f, m, n, k)
  BY <1>2, <1>3 DEF Stages
<1>6. p \in DOMAIN f /\ (l # Null => l \in DOMAIN f /\ n.at[p].child \in DOMAIN f)
  BY <1>1, <1>5 DEF Stage
<1>7. /\ SameData(n, d)
      /\ \A j \in DOMAIN n.at : /\ d.at[j].next = n.at[j].next /\ d.at[j].child = n.at[j].child
                                /\ j # n.at[p].child \/ l = Null => d.at[j] = n.at[j]
  <2>1. l \in DOMAIN n.at \cup {Null} /\ (l # Null => n.at[p].child \in DOMAIN n.at)
    BY <1>4, <1>6
  <2> QED BY <1>1, <2>1, CloseIs
<1>8. DOMAIN d.at = DOMAIN n.at /\ \A j \in DOMAIN n.at : d.at[j].ref = n.at[j].ref
  BY <1>7 DEF SameData
<1>9. Kept(m, d)
  <2>1. ASSUME NEW j \in DOMAIN m.at PROVE j \in DOMAIN n.at /\ d.at[j] = n.at[j]
    <3>1. j \in DOMAIN n.at /\ j \notin DOMAIN f
      BY <1>4 DEF Kept
    <3>2. j # n.at[p].child \/ l = Null
      BY <1>6, <3>1
    <3> QED BY <1>7, <3>1, <3>2
  <2> QED BY <1>8, <2>1 DEF Kept
<1>10. Originals(f, m, d, i, c, k)
  BY <1>3, <1>4, <1>7, <1>8 DEF Originals
<1>11. \A x \in DOMAIN f : x \in DOMAIN n.at /\ d.at[x].next = n.at[x].next /\ d.at[x].child = n.at[x].child
  BY <1>4, <1>7
<1>12. Stages(rest, f, m, d, k)
  <2>1. ASSUME NEW a \in DOMAIN rest PROVE Stage(rest[a], f, m, d, k)
    <3>1. Stage(rest[a], f, m, n, k)
      BY <1>2, <1>3 DEF Stages
    <3> QED BY <1>11, <3>1 DEF Stage
  <2>2. ASSUME NEW a \in DOMAIN rest, a # 1 PROVE rest[a].child = f[rest[a - 1].new]
    <3>1. DOMAIN rest = 1 .. Len(rest) /\ Len(rest) \in Nat
      BY <1>2
    <3>2. a - 1 \in DOMAIN rest /\ (a - 1) + 1 = a /\ (a + 1) - 1 = a /\ a + 1 # 1
      BY <2>2, <3>1
    <3>3. a + 1 \in DOMAIN st /\ rest[a] = st[a + 1] /\ rest[a - 1] = st[a]
      BY <1>2, <3>2
    <3>4. st[a + 1].child = f[st[(a + 1) - 1].new]
      BY <1>3, <3>2, <3>3 DEF Stages
    <3> QED BY <3>2, <3>3, <3>4
  <2>3. \A a \in DOMAIN rest : a # 1 => rest[a].child = f[rest[a - 1].new]
    BY <2>2
  <2> QED BY <2>1, <2>3 DEF Stages
<1>13. News(st) = News(rest) \cup {p} /\ Lasts(st) = Lasts(rest) \cup {l}
  BY <1>1, PartsPop
<1>14. Resemble(f, m, d, News(rest), Open(rest, c) \cup {p})
  <2>1. ASSUME NEW x \in DOMAIN f PROVE SameItem(d.at[x], m.at[f[x]])
    <3>1. SameItem(n.at[x], m.at[f[x]])
      BY <1>3 DEF Resemble
    <3> QED BY <1>7, <1>11, <3>1 DEF SameItem, SameData
  <2>2. ASSUME NEW x \in DOMAIN f, x \notin News(rest) PROVE CopyOf(f, d.at[x].child, m.at[f[x]].child)
    <3>1. CASE x = p
      <4>1. Null \notin DOMAIN f
        BY <1>4
      <4>2. CASE l = Null
        BY <1>1, <1>5, <1>11, <3>1, <4>2 DEF Stage, CopyOf
      <4>3. CASE l # Null
        BY <1>1, <1>5, <1>11, <3>1, <4>1, <4>3 DEF Stage, CopyOf
      <4> QED BY <4>2, <4>3
    <3>2. CASE x # p
      <4>1. CopyOf(f, n.at[x].child, m.at[f[x]].child)
        BY <1>3, <1>13, <2>2, <3>2 DEF Resemble
      <4> QED BY <1>11, <4>1
    <3> QED BY <3>1, <3>2
  <2>3. ASSUME NEW x \in DOMAIN f, x \notin Open(rest, c) \cup {p} PROVE CopyOf(f, d.at[x].next, m.at[f[x]].next)
    <3>1. CASE x = l
      <4>1. l # Null /\ n.at[l].next = Null /\ m.at[f[l]].next = Null
        BY <1>1, <1>4, <1>5, <3>1 DEF Stage
      <4> QED BY <1>11, <3>1, <4>1 DEF CopyOf
    <3>2. CASE x # l
      <4>1. x \notin Open(st, c)
        BY <1>13, <2>3, <3>2 DEF Open
      <4>2. CopyOf(f, n.at[x].next, m.at[f[x]].next)
        BY <1>3, <4>1 DEF Resemble
      <4> QED BY <1>11, <4>2
    <3> QED BY <3>1, <3>2
  <2> QED BY <2>1, <2>2, <2>3 DEF Resemble
<1>15. ASSUME rest # <<>> PROVE rest[1].child = f[p]
  <2>1. PICK b : b = 2
    OBVIOUS
  <2>2. b \in DOMAIN st /\ b # 1 /\ b - 1 = 1 /\ rest[1] = st[b]
    BY <1>2, <1>15, <2>1
  <2>3. st[b].child = f[st[b - 1].new]
    BY <1>3, <2>2 DEF Stages
  <2> QED BY <1>1, <1>2, <2>2, <2>3
<1>16. Copies(f, m, d, i, c, k, rest, Open(rest, c) \cup {p})
  BY <1>10, <1>12, <1>14 DEF Copies
<1> QED BY <1>1, <1>6, <1>7, <1>9, <1>15, <1>16
(* The call e gets the copy x of the child it is at; h is the call at the  *)
(* next child.                                                             *)
Chaining(m, k, n, f, i, c, st, x, e, h) ==
  /\ DOMAIN k \subseteq DOMAIN m.at /\ IsMemory(n) /\ Null \notin DOMAIN n.at /\ Kept(m, n)
  /\ st \in Seq(Loop) /\ st # <<>> /\ x \in DOMAIN f /\ Copies(f, m, n, i, c, k, st, Open(st, c) \cup {x})
  /\ e = Head(st) /\ e.child # Null /\ e.child = f[x] /\ e.last # c /\ ~n.at[e.new].ref
  /\ \A a \in DOMAIN Tail(st) : Tail(st)[a].new # e.new
  /\ h.child = n.at[e.child].next /\ h.new = e.new /\ h.last = x /\ h \in Loop /\ h.child \in DOMAIN k \cup {Null}

(* It links x behind the last member of its copy. *)
LEMMA ChainLike ==
  ASSUME NEW m, NEW k, NEW n, NEW f, NEW i, NEW c, NEW st, NEW x, NEW e, NEW h,
         Chaining(m, k, n, f, i, c, st, x, e, h)
  PROVE  /\ Kept(m, Chain(n, e.new, e.last, x))
         /\ Copies(f, m, Chain(n, e.new, e.last, x), i, c, k, <<h>> \o Tail(st), Open(<<h>> \o Tail(st), c))
<1> /\ DOMAIN k \subseteq DOMAIN m.at /\ IsMemory(n) /\ Null \notin DOMAIN n.at /\ Kept(m, n)
    /\ st \in Seq(Loop) /\ st # <<>> /\ x \in DOMAIN f /\ Copies(f, m, n, i, c, k, st, Open(st, c) \cup {x})
    /\ e = Head(st) /\ e.child # Null /\ e.child = f[x] /\ e.last # c /\ ~n.at[e.new].ref
    /\ \A a \in DOMAIN Tail(st) : Tail(st)[a].new # e.new
    /\ h.child = n.at[e.child].next /\ h.new = e.new /\ h.last = x /\ h \in Loop /\ h.child \in DOMAIN k \cup {Null}
  BY DEF Chaining
<1>1. PICK low, w, p, l : low = Tail(st) /\ w = Chain(n, e.new, e.last, x) /\ p = e.new /\ l = e.last
  OBVIOUS
<1> DEFINE u == <<h>> \o low
<1>2. /\ 1 \in DOMAIN st /\ e = st[1] /\ e \in Loop /\ low \in Seq(Loop)
      /\ \A a \in DOMAIN low : a + 1 \in DOMAIN st /\ a + 1 # 1 /\ low[a] = st[a + 1]
  BY <1>1, Popped
<1>3. /\ u \in Seq(Loop) /\ u[1] = h /\ \A a \in DOMAIN u : a # 1 => a - 1 \in DOMAIN low /\ u[a] = low[a - 1]
  BY <1>2, Pushed
<1>4. /\ News(st) = News(low) \cup {p} /\ Lasts(st) = Lasts(low) \cup {l}
      /\ News(u) = News(low) \cup {p} /\ Lasts(u) = Lasts(low) \cup {x}
  <2>1. News(st) = News(low) \cup {p} /\ Lasts(st) = Lasts(low) \cup {l}
    BY <1>1, PartsPop
  <2>2. News(u) = News(low) \cup {h.new} /\ Lasts(u) = Lasts(low) \cup {h.last}
    BY <1>2, PartsPush
  <2> QED BY <1>1, <2>1, <2>2
<1> HIDE DEF u
<1>5. /\ Originals(f, m, n, i, c, k) /\ Stages(st, f, m, n, k)
      /\ Resemble(f, m, n, News(st), Open(st, c) \cup {x})
  BY DEF Copies
<1>6. /\ f \in [DOMAIN n.at \ DOMAIN m.at -> DOMAIN k] /\ c \in DOMAIN f /\ DOMAIN f = DOMAIN n.at \ DOMAIN m.at
      /\ Null \notin DOMAIN f
  BY <1>5 DEF Originals
<1>7. Stage(e, f, m, n, k)
  BY <1>2, <1>5 DEF Stages
<1>8. p \in DOMAIN f /\ (l # Null => l \in DOMAIN f)
  BY <1>1, <1>7 DEF Stage
<1>9. /\ SameData(n, w)
      /\ \A j \in DOMAIN n.at : /\ w.at[j].next = IF j = l THEN x ELSE n.at[j].next
                                /\ w.at[j].child = IF j = p /\ l = Null THEN x ELSE n.at[j].child
                                /\ j \notin {p, l, x} => w.at[j] = n.at[j]
  <2>1. p \in DOMAIN n.at /\ ~n.at[p].ref /\ l \in DOMAIN n.at \cup {Null} /\ x \in DOMAIN n.at
    BY <1>1, <1>6, <1>8
  <2> QED BY <1>1, <2>1, ChainIs
<1>10. DOMAIN w.at = DOMAIN n.at /\ \A j \in DOMAIN n.at : w.at[j].ref = n.at[j].ref
  BY <1>9 DEF SameData
<1>11. Kept(m, w)
  <2>1. ASSUME NEW j \in DOMAIN m.at PROVE j \in DOMAIN n.at /\ w.at[j] = n.at[j]
    <3>1. j \in DOMAIN n.at /\ j \notin DOMAIN f
      BY <1>6 DEF Kept
    <3>2. j \notin {p, l, x}
      <4>1. l = Null => j # l
        BY <3>1
      <4> QED BY <1>8, <3>1, <4>1
    <3> QED BY <1>9, <3>1, <3>2
  <2> QED BY <1>10, <2>1 DEF Kept
<1>12. Originals(f, m, w, i, c, k)
  <2>1. c \in DOMAIN n.at /\ c # l
    BY <1>1, <1>6
  <2>2. w.at[c].next = n.at[c].next
    BY <1>9, <2>1
  <2> QED BY <1>5, <1>6, <1>10, <2>2 DEF Originals
<1>13. /\ \A y \in DOMAIN f : y \in DOMAIN n.at /\ w.at[y].next = IF y = l THEN x ELSE n.at[y].next
       /\ \A y \in DOMAIN f : y # p => w.at[y].child = n.at[y].child
       /\ w.at[p].child = IF l = Null THEN x ELSE n.at[p].child
  BY <1>6, <1>8, <1>9
<1>14. m.at[f[x]].next = h.child /\ n.at[f[x]].next = m.at[f[x]].next
  <2>1. f[x] \in DOMAIN m.at
    BY <1>6
  <2> QED BY <2>1 DEF Kept
<1>15. Stages(u, f, m, w, k)
  <2>1. ASSUME NEW a \in DOMAIN u PROVE Stage(u[a], f, m, w, k)
    <3>1. CASE a = 1
      <4>1. w.at[p].child \in DOMAIN f /\ f[w.at[p].child] = m.at[f[p]].child
        <5>1. CASE l = Null
          BY <1>1, <1>7, <1>13, <5>1 DEF Stage
        <5>2. CASE l # Null
          BY <1>1, <1>7, <1>13, <5>2 DEF Stage
        <5> QED BY <5>1, <5>2
      <4>2. h.last # Null /\ h.last = x /\ h.new = p
        BY <1>1, <1>6
      <4> QED BY <1>3, <1>8, <1>14, <3>1, <4>1, <4>2 DEF Stage
    <3>2. CASE a # 1
      <4>1. a - 1 \in DOMAIN low /\ u[a] = low[a - 1]
        BY <1>3, <3>2
      <4>2. PICK b : b \in DOMAIN low /\ u[a] = low[b]
        BY <4>1
      <4>3. Stage(low[b], f, m, n, k)
        BY <1>2, <1>5, <4>2 DEF Stages
      <4>4. low[b].new # p /\ low[b].new \in DOMAIN f
        BY <1>1, <4>2, <4>3 DEF Stage
      <4>5. w.at[low[b].new].child = n.at[low[b].new].child
        BY <1>13, <4>4
      <4> QED BY <4>2, <4>3, <4>5 DEF Stage
    <3> QED BY <3>1, <3>2
  <2>2. ASSUME NEW a \in DOMAIN u, a # 1 PROVE u[a].child = f[u[a - 1].new]
    <3>1. DOMAIN u = 1 .. Len(u) /\ Len(u) \in Nat
      BY <1>3
    <3>2. a - 1 \in DOMAIN u /\ a - 1 \in DOMAIN low /\ (a - 1) + 1 = a
      BY <1>3, <2>2, <3>1
    <3>3. a \in DOMAIN st /\ u[a] = st[a]
      BY <1>2, <1>3, <2>2, <3>2
    <3>4. u[a - 1].new = st[a - 1].new
      <4>1. CASE a - 1 = 1
        BY <1>2, <1>3, <4>1
      <4>2. CASE a - 1 # 1
        <5>1. PICK b : b = a - 1
          OBVIOUS
        <5>2. b \in DOMAIN u /\ b # 1
          BY <3>2, <4>2, <5>1
        <5>3. b - 1 \in DOMAIN low /\ u[b] = low[b - 1] /\ (b - 1) + 1 = b
          BY <1>3, <3>1, <5>2
        <5>4. low[b - 1] = st[b]
          BY <1>2, <5>3
        <5> QED BY <5>1, <5>3, <5>4
      <4> QED BY <4>1, <4>2
    <3>5. st[a].child = f[st[a - 1].new]
      BY <1>5, <2>2, <3>3 DEF Stages
    <3> QED BY <3>3, <3>4, <3>5
  <2>3. \A a \in DOMAIN u : a # 1 => u[a].child = f[u[a - 1].new]
    BY <2>2
  <2> QED BY <2>1, <2>3 DEF Stages
<1>16. Resemble(f, m, w, News(u), Open(u, c))
  <2>1. ASSUME NEW y \in DOMAIN f PROVE SameItem(w.at[y], m.at[f[y]])
    <3>1. SameItem(n.at[y], m.at[f[y]])
      BY <1>5 DEF Resemble
    <3> QED BY <1>9, <1>13, <3>1 DEF SameItem, SameData
  <2>2. ASSUME NEW y \in DOMAIN f, y \notin News(u) PROVE CopyOf(f, w.at[y].child, m.at[f[y]].child)
    <3>1. CopyOf(f, n.at[y].child, m.at[f[y]].child)
      BY <1>4, <1>5, <2>2 DEF Resemble
    <3>2. y # p
      BY <1>4, <2>2
    <3> QED BY <1>13, <3>1, <3>2
  <2>3. ASSUME NEW y \in DOMAIN f, y \notin Open(u, c) PROVE CopyOf(f, w.at[y].next, m.at[f[y]].next)
    <3>1. CASE y = l
      <4>1. l # Null /\ m.at[f[l]].next = f[x] /\ w.at[l].next = x /\ x # Null
        BY <1>1, <1>6, <1>7, <1>13, <3>1 DEF Stage
      <4> QED BY <3>1, <4>1 DEF CopyOf
    <3>2. CASE y # l
      <4>1. y \notin Open(st, c) \cup {x}
        BY <1>4, <2>3, <3>2 DEF Open
      <4>2. CopyOf(f, n.at[y].next, m.at[f[y]].next)
        BY <1>5, <4>1 DEF Resemble
      <4> QED BY <1>13, <3>2, <4>2
    <3> QED BY <3>1, <3>2
  <2> QED BY <2>1, <2>2, <2>3 DEF Resemble
<1>17. Copies(f, m, w, i, c, k, u, Open(u, c))
  BY <1>12, <1>15, <1>16 DEF Copies
<1> QED BY <1>1, <1>11, <1>17 DEF u
(* The copy x of the child e is at has been made: its call is the inner-   *)
(* most one, with x as the copy.                                           *)
LEMMA ChildLike ==
  ASSUME NEW m, NEW k, DOMAIN k \subseteq DOMAIN m.at, NEW n, Kept(m, n),
         NEW f, NEW i, NEW c, NEW st \in Seq(Loop), st # <<>>, Copies(f, m, n, i, c, k, st, Open(st, c)),
         NEW e, e = Head(st), e.child \in DOMAIN k,
         NEW w, NEW x, FreshPlain(n, w, x), SameItem(w.at[x], n.at[e.child]), Null \notin DOMAIN n.at,
         NEW h, h.child = n.at[e.child].child, h.new = x, h.last = Null, h \in Loop, h.child \in DOMAIN k \cup {Null}
  PROVE  Kept(m, w) /\ \E g : Copies(g, m, w, i, c, k, <<h>> \o st, Open(<<h>> \o st, c))
<1> DEFINE u == <<h>> \o st
           g == [y \in DOMAIN f \cup {x} |-> IF y = x THEN e.child ELSE f[y]]
<1>1. /\ u[1] = h /\ \A a \in DOMAIN u : a # 1 => a - 1 \in DOMAIN st /\ u[a] = st[a - 1]
      /\ u \in Seq(Loop)
  BY Pushed
<1>2. News(u) = News(st) \cup {x} /\ Lasts(u) = Lasts(st) \cup {Null}
  BY PartsPush
<1>3. 1 \in DOMAIN st /\ e = st[1]
  BY Popped
<1> HIDE DEF u
<1>4. Originals(f, m, n, i, c, k) /\ Stages(st, f, m, n, k) /\ Resemble(f, m, n, News(st), Open(st, c))
  BY DEF Copies
<1>5. /\ f \in [DOMAIN n.at \ DOMAIN m.at -> DOMAIN k] /\ c \in DOMAIN f /\ DOMAIN f = DOMAIN n.at \ DOMAIN m.at
      /\ f[c] = i /\ n.at[c].next = Null /\ Null \notin DOMAIN f
  BY <1>4 DEF Originals
<1>6. /\ x \in Items \ DOMAIN n.at /\ DOMAIN w.at = DOMAIN n.at \cup {x} /\ \A j \in DOMAIN n.at : w.at[j] = n.at[j]
      /\ ~w.at[x].ref /\ w.at[x].child = Null /\ x # Null
  BY TreeAssumption DEF FreshPlain, Fresh
<1>7. \A j \in DOMAIN m.at : j \in DOMAIN n.at /\ n.at[j] = m.at[j]
  BY DEF Kept
<1>8. Kept(m, w)
  BY <1>6, <1>7 DEF Kept
<1>9. x \notin DOMAIN f /\ x \notin DOMAIN m.at
  BY <1>5, <1>6, <1>7
<1>10. g[x] = e.child /\ DOMAIN g = DOMAIN f \cup {x} /\ \A y \in DOMAIN f : g[y] = f[y]
  BY <1>9
<1>11. g \in [DOMAIN w.at \ DOMAIN m.at -> DOMAIN k]
  <2>1. \A y \in DOMAIN f \cup {x} : (IF y = x THEN e.child ELSE f[y]) \in DOMAIN k
    BY <1>5
  <2>2. g \in [DOMAIN f \cup {x} -> DOMAIN k]
    BY <2>1
  <2>3. DOMAIN f \cup {x} = DOMAIN w.at \ DOMAIN m.at
    BY <1>5, <1>6, <1>9
  <2> QED BY <2>2, <2>3
<1> HIDE DEF g
<1>12. \A y \in DOMAIN f : y # x /\ y \in DOMAIN n.at /\ w.at[y] = n.at[y]
  BY <1>5, <1>6, <1>9
<1>13. n.at[e.child] = m.at[e.child]
  BY <1>7
<1>14. Originals(g, m, w, i, c, k)
  BY <1>5, <1>10, <1>11, <1>12 DEF Originals
<1>15. Stages(u, g, m, w, k)
  <2>1. ASSUME NEW a \in DOMAIN st PROVE Stage(st[a], g, m, w, k) /\ st[a].new \in DOMAIN f
    <3>1. PICK q : q = st[a]
      OBVIOUS
    <3>2. Stage(q, f, m, n, k)
      BY <1>4, <3>1 DEF Stages
    <3>3. q.new \in DOMAIN f /\ w.at[q.new] = n.at[q.new] /\ g[q.new] = f[q.new]
      BY <1>10, <1>12, <3>2 DEF Stage
    <3>4. CASE q.last = Null
      BY <1>10, <3>1, <3>2, <3>3, <3>4 DEF Stage
    <3>5. CASE q.last # Null
      BY <1>10, <3>1, <3>2, <3>3, <3>5 DEF Stage
    <3> QED BY <3>4, <3>5
  <2>2. ASSUME NEW a \in DOMAIN u PROVE Stage(u[a], g, m, w, k)
    <3>1. CASE a = 1
      BY <1>1, <1>6, <1>10, <1>13, <3>1 DEF Stage
    <3>2. CASE a # 1
      <4>1. a - 1 \in DOMAIN st /\ u[a] = st[a - 1]
        BY <1>1, <3>2
      <4>2. PICK b : b \in DOMAIN st /\ u[a] = st[b]
        BY <4>1
      <4> QED BY <2>1, <4>2
    <3> QED BY <3>1, <3>2
  <2>3. ASSUME NEW a \in DOMAIN u, a # 1 PROVE u[a].child = g[u[a - 1].new]
    <3>1. DOMAIN u = 1 .. Len(u) /\ Len(u) \in Nat
      BY <1>1
    <3>2. PICK b : b = a - 1
      OBVIOUS
    <3>3. b \in DOMAIN u /\ b \in DOMAIN st /\ u[a] = st[b]
      BY <1>1, <2>3, <3>1, <3>2
    <3>4. CASE b = 1
      BY <1>1, <1>3, <1>10, <3>2, <3>3, <3>4
    <3>5. CASE b # 1
      <4>1. u[b] = st[b - 1] /\ b - 1 \in DOMAIN st
        BY <1>1, <3>3, <3>5
      <4>2. st[b].child = f[st[b - 1].new]
        BY <1>4, <3>3, <3>5 DEF Stages
      <4>3. g[st[b - 1].new] = f[st[b - 1].new]
        BY <1>10, <2>1, <4>1
      <4> QED BY <3>2, <3>3, <4>1, <4>2, <4>3
    <3> QED BY <3>4, <3>5
  <2>4. \A a \in DOMAIN u : a # 1 => u[a].child = g[u[a - 1].new]
    BY <2>3
  <2> QED BY <2>2, <2>4 DEF Stages
<1>16. Resemble(g, m, w, News(u), Open(u, c))
  <2>1. x \in News(u) /\ x \in Open(u, c)
    BY <1>2 DEF Open
  <2>2. ASSUME NEW y \in DOMAIN g PROVE SameItem(w.at[y], m.at[g[y]])
    <3>1. CASE y = x
      BY <1>10, <1>13, <3>1
    <3>2. CASE y # x
      <4>1. y \in DOMAIN f /\ SameItem(n.at[y], m.at[f[y]])
        BY <1>4, <1>10, <3>2 DEF Resemble
      <4> QED BY <1>10, <1>12, <4>1
    <3> QED BY <3>1, <3>2
  <2>3. ASSUME NEW v, NEW o, CopyOf(f, v, o) PROVE CopyOf(g, v, o)
    BY <1>10, <2>3 DEF CopyOf
  <2>4. ASSUME NEW y \in DOMAIN g, y \notin News(u) PROVE CopyOf(g, w.at[y].child, m.at[g[y]].child)
    <3>1. y \in DOMAIN f /\ y \notin News(st)
      BY <1>2, <1>10, <2>4
    <3>2. CopyOf(f, n.at[y].child, m.at[f[y]].child)
      BY <1>4, <3>1 DEF Resemble
    <3> QED BY <1>10, <1>12, <2>3, <3>1, <3>2
  <2>5. ASSUME NEW y \in DOMAIN g, y \notin Open(u, c) PROVE CopyOf(g, w.at[y].next, m.at[g[y]].next)
    <3>1. y \in DOMAIN f /\ y \notin Open(st, c)
      BY <1>2, <1>10, <2>5 DEF Open
    <3>2. CopyOf(f, n.at[y].next, m.at[f[y]].next)
      BY <1>4, <3>1 DEF Resemble
    <3> QED BY <1>10, <1>12, <2>3, <3>1, <3>2
  <2> QED BY <2>2, <2>4, <2>5 DEF Resemble
<1>17. Copies(g, m, w, i, c, k, u, Open(u, c))
  BY <1>14, <1>15, <1>16 DEF Copies
<1> QED BY <1>8, <1>17 DEF u
(* The links of an item lead to items. *)
LEMMA OldLinks ==
  ASSUME NEW m, NEW k, NEW R, Heap(m, k, R, {}), NEW j \in DOMAIN k
  PROVE  /\ m.at[j].child \in DOMAIN k \cup {Null} /\ m.at[j].next \in DOMAIN k \cup {Null}
         /\ DOMAIN k \cup {Null} \subseteq Pointer /\ DOMAIN k \subseteq DOMAIN m.at /\ j \in DOMAIN m.at
<1>1. PICK O : O = {}
  OBVIOUS
<1>2. IsForestOf(k, R) /\ Linked(m, k, R, O) /\ IsMemory(m)
  BY <1>1 DEF Heap
<1>3. m.at[j].next \in DOMAIN k \cup {Null} /\ (~m.at[j].ref => m.at[j].child \in DOMAIN k \cup {Null})
  BY <1>2, LinksInside
<1>4. m.at[j].ref => m.at[j].child \in DOMAIN k \cup {Null}
  BY DEF Heap
<1>5. DOMAIN k \subseteq DOMAIN m.at /\ DOMAIN m.at \subseteq Items
  BY <1>2 DEF Linked, IsMemory
<1> QED BY <1>3, <1>4, <1>5 DEF Pointer

(* A turn that makes the copy of a child. *)
LEMMA DuplicatingChild ==
  ASSUME NEW m, NEW k, NEW R, Heap(m, k, R, {}), NEW i, NEW c, NEW s, NEW t, Copying(s, t, k, R), s.stack # <<>>,
         s.failed = FALSE, Head(s.stack).child # Null, Duplicating(s, m, i, c, k)
  PROVE  Duplicating(CopyChild(s), m, i, c, k)
<1>1. PICK st, n, e, q : st = s.stack /\ n = s.m /\ e = Head(st) /\ q = CopyItem(n, e.child)
  OBVIOUS
<1>2. s = [m |-> n, stack |-> st, ret |-> Null, failed |-> FALSE] /\ Loops(st, k) /\ st # <<>> /\ st \in Seq(Loop)
  BY <1>1 DEF Copying, Loops
<1>3. PICK g : Growing(n, g, R \cup News(st), News(st), k, R) /\ Following(st, g)
  BY <1>1 DEF Copying
<1>4. IsMemory(n) /\ Null \notin DOMAIN n.at
  BY <1>3, StackApart
<1>5. PICK f : Copies(f, m, n, i, c, k, st, Open(st, c))
  BY <1>1 DEF Duplicating
<1>6. Kept(m, n) /\ st[Len(st)].new = c
  BY <1>1 DEF Duplicating, Outermost
<1>7. e = st[1] /\ 1 \in DOMAIN st
  BY <1>1, <1>2, Popped
<1>8. e.child \in DOMAIN k
  <2>1. Stage(e, f, m, n, k)
    BY <1>5, <1>7 DEF Copies, Stages
  <2> QED BY <1>1, <2>1 DEF Stage
<1>9. /\ DOMAIN k \subseteq DOMAIN m.at /\ e.child \in DOMAIN m.at
      /\ e.child \in DOMAIN n.at /\ n.at[e.child] = m.at[e.child]
      /\ n.at[e.child].child \in DOMAIN k \cup {Null} /\ DOMAIN k \cup {Null} \subseteq Pointer
  <2>1. /\ m.at[e.child].child \in DOMAIN k \cup {Null} /\ DOMAIN k \cup {Null} \subseteq Pointer
        /\ DOMAIN k \subseteq DOMAIN m.at /\ e.child \in DOMAIN m.at
    BY <1>8, OldLinks
  <2> QED BY <1>6, <2>1 DEF Kept
<1>10. /\ NewPlain(n, q)
       /\ q.ret # Null => SameItem(q.m.at[q.ret], n.at[e.child])
  <2>1. DataFits(n.at[e.child])
    BY <1>9 DEF Heap
  <2> QED BY <1>1, <1>4, <1>9, <2>1, CopyItemIs
<1>11. CASE q.ret = Null
  <2>1. q.m = n
    BY <1>10, <1>11 DEF NewPlain
  <2>2. CopyChild(s) = [s EXCEPT !.m = n, !.failed = TRUE]
    BY <1>1, <1>11, <2>1 DEF CopyChild
  <2>3. CopyChild(s) = [m |-> n, stack |-> st, ret |-> Null, failed |-> TRUE]
    BY <1>2, <2>2
  <2> QED BY <1>6, <2>3 DEF Duplicating
<1>12. CASE q.ret # Null
  <2>1. PICK x, w, h : x = q.ret /\ w = q.m /\ h = CopyLoop(n.at[e.child].child, x, Null)
    OBVIOUS
  <2>2. FreshPlain(n, w, x) /\ SameItem(w.at[x], n.at[e.child]) /\ x \in Items
    BY <1>10, <1>12, <2>1 DEF NewPlain, FreshPlain, Fresh
  <2>3. h.child = n.at[e.child].child /\ h.new = x /\ h.last = Null /\ h \in Loop
    <3>1. h = [child |-> n.at[e.child].child, new |-> x, last |-> Null]
      BY <2>1 DEF CopyLoop
    <3> QED BY <1>9, <2>2, <3>1 DEF Loop
  <2> DEFINE u == <<h>> \o st
  <2>4. Kept(m, w) /\ \E y : Copies(y, m, w, i, c, k, u, Open(u, c))
    <3>1. /\ DOMAIN k \subseteq DOMAIN m.at /\ Kept(m, n) /\ st \in Seq(Loop) /\ st # <<>>
          /\ Copies(f, m, n, i, c, k, st, Open(st, c)) /\ Null \notin DOMAIN n.at
      BY <1>2, <1>4, <1>5, <1>6, <1>9
    <3>2. e = Head(st) /\ e.child \in DOMAIN k /\ FreshPlain(n, w, x) /\ SameItem(w.at[x], n.at[e.child])
      BY <1>1, <1>8, <2>2
    <3>3. h.child = n.at[e.child].child /\ h.new = x /\ h.last = Null /\ h \in Loop /\ h.child \in DOMAIN k \cup {Null}
      BY <1>9, <2>3
    <3> HIDE DEF u
    <3> QED BY <3>1, <3>2, <3>3, ChildLike DEF u
  <2>5. u # <<>> /\ Len(u) = Len(st) + 1 /\ Len(st) \in Nat /\ (\A a \in DOMAIN st : u[a + 1] = st[a]) /\ u \in Seq(Loop)
    BY <1>2, <2>3, Pushed
  <2> HIDE DEF u
  <2>6. u[Len(u)].new = c
    <3>1. Len(st) \in DOMAIN st
      BY <1>2
    <3> QED BY <1>6, <2>5, <3>1
  <2>7. CopyChild(s) = [m |-> w, stack |-> u, ret |-> Null, failed |-> FALSE]
    <3>1. CopyChild(s) = [s EXCEPT !.m = w, !.stack = <<h>> \o @]
      BY <1>1, <1>12, <2>1 DEF CopyChild
    <3>2. CopyChild(s) = [s EXCEPT !.m = w, !.stack = u]
      BY <1>1, <1>2, <3>1 DEF u
    <3> QED BY <1>2, <3>2
  <2>8. PICK d : d = CopyChild(s)
    OBVIOUS
  <2>9. d.m = w /\ d.stack = u /\ d.ret = Null /\ d.failed = FALSE
    BY <2>7, <2>8
  <2>10. Outermost(d, c)
    BY <2>5, <2>6, <2>9 DEF Outermost
  <2>11. Duplicating(d, m, i, c, k)
    BY <2>4, <2>9, <2>10 DEF Duplicating
  <2> QED BY <2>8, <2>11
<1> QED BY <1>11, <1>12

(* A turn that hands a copy on. *)
LEMMA DuplicatingReturn ==
  ASSUME NEW m, NEW k, NEW R, Heap(m, k, R, {}), NEW i, NEW c, NEW s, NEW t, Copying(s, t, k, R), s.stack # <<>>,
         s.failed = FALSE, Head(s.stack).child = Null, Duplicating(s, m, i, c, k)
  PROVE  Duplicating(CopyReturn(s), m, i, c, k)
<1>1. PICK st, n, e, rest : st = s.stack /\ n = s.m /\ e = Head(st) /\ rest = Tail(st)
  OBVIOUS
<1>2. s = [m |-> n, stack |-> st, ret |-> Null, failed |-> FALSE] /\ Loops(st, k) /\ st # <<>> /\ st \in Seq(Loop)
  BY <1>1 DEF Copying, Loops
<1>3. PICK g : Growing(n, g, R \cup News(st), News(st), k, R) /\ Following(st, g)
  BY <1>1 DEF Copying
<1>4. /\ IsMemory(n) /\ DOMAIN g \subseteq DOMAIN n.at /\ Null \notin DOMAIN n.at
      /\ News(st) \subseteq DOMAIN g /\ Lasts(st) \cap News(st) = {}
      /\ \A a \in DOMAIN st : st[a].last # Null => n.at[st[a].last].next = Null
  BY <1>3, StackApart
<1>5. PICK f : Copies(f, m, n, i, c, k, st, Open(st, c))
  BY <1>1 DEF Duplicating
<1>6. Kept(m, n) /\ st[Len(st)].new = c
  BY <1>1 DEF Duplicating, Outermost
<1>7. /\ 1 \in DOMAIN st /\ e = st[1] /\ rest \in Seq(Loop) /\ Len(st) \in Nat /\ Len(rest) + 1 = Len(st)
      /\ (rest = <<>> <=> Len(st) = 1)
      /\ \A a \in DOMAIN rest : a + 1 \in DOMAIN st /\ a + 1 # 1 /\ rest[a] = st[a + 1]
      /\ rest # <<>> => 2 \in DOMAIN st /\ rest[1] = st[2]
  BY <1>1, <1>2, Popped
<1>8. PICK d, x : d = CloseList(n, e.new, e.last) /\ x = e.new
  OBVIOUS
<1>9. /\ SameData(n, d) /\ Kept(m, d) /\ x \in DOMAIN f
      /\ Copies(f, m, d, i, c, k, rest, Open(rest, c) \cup {x})
      /\ rest # <<>> => rest[1].child = f[x]
  <2>1. e.last # Null => n.at[e.last].next = Null
    BY <1>4, <1>7
  <2>2. /\ IsMemory(n) /\ Null \notin DOMAIN n.at /\ Kept(m, n) /\ st \in Seq(Loop) /\ st # <<>>
        /\ Copies(f, m, n, i, c, k, st, Open(st, c))
    BY <1>2, <1>4, <1>5, <1>6
  <2>3. e = Head(st) /\ e.child = Null
    BY <1>1
  <2>4. /\ SameData(n, CloseList(n, e.new, e.last)) /\ Kept(m, CloseList(n, e.new, e.last))
        /\ Copies(f, m, CloseList(n, e.new, e.last), i, c, k, Tail(st), Open(Tail(st), c) \cup {e.new})
        /\ Tail(st) # <<>> => Tail(st)[1].child = f[e.new]
        /\ e.new \in DOMAIN f
    <3>1. Closing(m, k, n, f, i, c, st, e)
      BY <2>1, <2>2, <2>3 DEF Closing
    <3> QED BY <3>1, CloseLike
  <2> QED BY <1>1, <1>8, <2>4
<1>10. CASE rest = <<>>
  <2>1. x = c
    BY <1>6, <1>7, <1>8, <1>10
  <2>2. Open(rest, c) \cup {x} = Open(<<>>, c)
    BY <1>10, <2>1 DEF Open
  <2>3. Copies(f, m, d, i, c, k, <<>>, Open(<<>>, c))
    BY <1>9, <1>10, <2>2
  <2>4. CopyReturn(s) = [m |-> d, stack |-> <<>>, ret |-> x, failed |-> FALSE]
    <3>1. CopyReturn(s) = [s EXCEPT !.m = d, !.stack = <<>>, !.ret = x]
      BY <1>1, <1>7, <1>8, <1>10 DEF CopyReturn
    <3> QED BY <1>2, <3>1
  <2>5. PICK z : z = CopyReturn(s)
    OBVIOUS
  <2>6. z.m = d /\ z.stack = <<>> /\ z.ret = x /\ z.failed = FALSE
    BY <2>4, <2>5
  <2>7. Outermost(z, c)
    BY <2>1, <2>6 DEF Outermost
  <2>8. Duplicating(z, m, i, c, k)
    BY <1>9, <2>3, <2>6, <2>7 DEF Duplicating
  <2> QED BY <2>5, <2>8
<1>11. CASE rest # <<>>
  <2>1. PICK p, low : p = Head(rest) /\ low = Tail(rest)
    OBVIOUS
  <2>2. /\ 1 \in DOMAIN rest /\ p = rest[1] /\ p = st[2] /\ 2 \in DOMAIN st /\ p \in Loop /\ low \in Seq(Loop)
        /\ Len(low) + 1 = Len(rest) /\ Len(low) \in Nat
        /\ \A a \in DOMAIN low : a + 1 \in DOMAIN rest /\ a + 1 # 1 /\ low[a] = rest[a + 1]
    BY <1>7, <1>11, <2>1, Popped
  <2>3. p.child = f[x] /\ p.child # Null
    <3>1. p.child = f[x]
      BY <1>9, <1>11, <2>2
    <3>2. p.child # Null
      BY <1>3, <2>2 DEF Following
    <3> QED BY <3>1, <3>2
  <2>4. c \in News(st) /\ p.last # c
    <3>1. Len(st) \in DOMAIN st
      BY <1>2
    <3>2. c \in News(st)
      BY <1>6, <3>1 DEF News
    <3>3. p.last \in Lasts(st)
      BY <2>2 DEF Lasts
    <3> QED BY <1>4, <3>2, <3>3
  <2>5. ~d.at[p.new].ref
    <3>1. p.new \in News(st) /\ p.new \notin DOMAIN k
      BY <1>2, <2>2 DEF News, Loops
    <3>2. p.new \in DOMAIN g /\ p.new \in DOMAIN n.at
      BY <1>4, <3>1
    <3>3. ~n.at[p.new].ref
      BY <1>3, <3>1, <3>2 DEF Growing
    <3> QED BY <1>9, <3>2, <3>3 DEF SameData
  <2>6. \A a \in DOMAIN low : low[a].new # p.new
    <3>1. Loops(rest, k)
      BY <1>1, <1>2, LoopsPop
    <3> QED BY <2>2, <3>1 DEF Loops
  <2>7. IsMemory(d) /\ DOMAIN d.at = DOMAIN n.at /\ Null \notin DOMAIN d.at
    BY <1>4, <1>9 DEF SameData
  <2>8. f[x] \in DOMAIN k
    BY <1>9 DEF Copies, Originals
  <2>9. /\ d.at[p.child].next \in DOMAIN k \cup {Null} /\ DOMAIN k \subseteq DOMAIN m.at
        /\ DOMAIN k \cup {Null} \subseteq Pointer
    <3>1. /\ m.at[p.child].next \in DOMAIN k \cup {Null} /\ DOMAIN k \cup {Null} \subseteq Pointer
          /\ DOMAIN k \subseteq DOMAIN m.at /\ p.child \in DOMAIN m.at
      BY <2>3, <2>8, OldLinks
    <3> QED BY <1>9, <3>1 DEF Kept
  <2>10. x \in Items /\ p.new \in Items
    <3>1. e \in Loop
      BY <1>1, <1>2, Popped
    <3> QED BY <1>8, <2>2, <3>1 DEF Loop
  <2>11. PICK h : h = CopyLoop(d.at[p.child].next, p.new, x)
    OBVIOUS
  <2>12. h.child = d.at[p.child].next /\ h.new = p.new /\ h.last = x /\ h \in Loop
    <3>1. h = [child |-> d.at[p.child].next, new |-> p.new, last |-> x]
      BY <2>11 DEF CopyLoop
    <3> QED BY <2>9, <2>10, <3>1 DEF Loop, Pointer
  <2> DEFINE u == <<h>> \o low
  <2>13. PICK w : w = Chain(d, p.new, p.last, x)
    OBVIOUS
  <2>14. Kept(m, w) /\ Copies(f, m, w, i, c, k, u, Open(u, c))
    <3>1. /\ DOMAIN k \subseteq DOMAIN m.at /\ IsMemory(d) /\ Null \notin DOMAIN d.at /\ Kept(m, d)
          /\ rest \in Seq(Loop) /\ rest # <<>> /\ x \in DOMAIN f
          /\ Copies(f, m, d, i, c, k, rest, Open(rest, c) \cup {x})
      BY <1>7, <1>9, <1>11, <2>7, <2>9
    <3>2. p = Head(rest) /\ p.child # Null /\ p.child = f[x] /\ p.last # c /\ ~d.at[p.new].ref
      BY <2>1, <2>3, <2>4, <2>5
    <3>3. \A a \in DOMAIN Tail(rest) : Tail(rest)[a].new # p.new
      BY <2>1, <2>6
    <3>4. h.child = d.at[p.child].next /\ h.new = p.new /\ h.last = x /\ h \in Loop /\ h.child \in DOMAIN k \cup {Null}
      BY <2>9, <2>12
    <3>5. /\ Kept(m, Chain(d, p.new, p.last, x))
          /\ Copies(f, m, Chain(d, p.new, p.last, x), i, c, k, <<h>> \o Tail(rest), Open(<<h>> \o Tail(rest), c))
      <4>1. Chaining(m, k, d, f, i, c, rest, x, p, h)
        BY <3>1, <3>2, <3>3, <3>4 DEF Chaining
      <4> QED BY <4>1, ChainLike
    <3> QED BY <2>1, <2>13, <3>5
  <2>15. /\ u # <<>> /\ Len(u) = Len(low) + 1 /\ u[1] = h /\ \A a \in DOMAIN low : u[a + 1] = low[a]
         /\ u \in Seq(Loop)
    BY <2>2, <2>12, Pushed
  <2> HIDE DEF u
  <2>16. u[Len(u)].new = c
    <3>1. PICK l : l = Len(low)
      OBVIOUS
    <3>2. l \in Nat /\ Len(u) = l + 1 /\ Len(st) = l + 2 /\ Len(rest) = l + 1
      BY <1>7, <2>2, <2>15, <3>1
    <3>3. CASE l = 0
      BY <1>6, <2>2, <2>12, <2>15, <3>2, <3>3
    <3>4. CASE l # 0
      <4>1. l \in DOMAIN low
        BY <2>2, <3>1, <3>2, <3>4
      <4>2. u[l + 1] = low[l] /\ low[l] = rest[l + 1] /\ l + 1 \in DOMAIN rest
        BY <2>2, <2>15, <4>1
      <4>3. rest[l + 1] = st[(l + 1) + 1] /\ (l + 1) + 1 = l + 2
        BY <1>7, <3>2, <4>2
      <4> QED BY <1>6, <3>2, <4>2, <4>3
    <3> QED BY <3>3, <3>4
  <2>17. CopyReturn(s) = [m |-> w, stack |-> u, ret |-> Null, failed |-> FALSE]
    <3>1. Len(st) # 1 /\ s.stack[2] = p /\ Tail(Tail(s.stack)) = low
      BY <1>1, <1>7, <1>11, <2>1, <2>2
    <3>2. CopyReturn(s) = [s EXCEPT !.m = w, !.stack = <<h>> \o low]
      <4>1. CopyReturn(s) = [s EXCEPT !.m = w, !.stack = <<h>> \o Tail(Tail(@))]
        BY <1>1, <1>8, <2>11, <2>13, <3>1 DEF CopyReturn
      <4> QED BY <1>1, <1>2, <3>1, <4>1
    <3>3. CopyReturn(s) = [s EXCEPT !.m = w, !.stack = u]
      BY <3>2 DEF u
    <3>4. s = [m |-> n, stack |-> st, ret |-> Null, failed |-> FALSE]
      BY <1>2
    <3> QED BY ONLY <3>3, <3>4
  <2>18. PICK z : z = CopyReturn(s)
    OBVIOUS
  <2>19. z.m = w /\ z.stack = u /\ z.ret = Null /\ z.failed = FALSE
    BY <2>17, <2>18
  <2>20. Outermost(z, c)
    BY <2>15, <2>16, <2>19 DEF Outermost
  <2>21. Duplicating(z, m, i, c, k)
    BY <2>14, <2>19, <2>20 DEF Duplicating
  <2> QED BY <2>18, <2>21
<1> QED BY <1>10, <1>11
(* A turn that gives back a copy leaves what was there before. *)
LEMMA DuplicatingBack ==
  ASSUME NEW m, NEW k, NEW R, Heap(m, k, R, {}), NEW i, NEW c, NEW s, NEW t, Copying(s, t, k, R), s.stack # <<>>,
         s.failed = TRUE, Duplicating(s, m, i, c, k)
  PROVE  Duplicating(GiveBack(s), m, i, c, k)
<1>1. PICK st, n, x : st = s.stack /\ n = s.m /\ x = Head(st).new
  OBVIOUS
<1>2. s = [m |-> n, stack |-> st, ret |-> Null, failed |-> TRUE] /\ Loops(st, k)
  BY <1>1 DEF Copying
<1>3. PICK g, Q, O : Growing(n, g, Q, O, k, R) /\ Q = R \cup News(st)
  BY <1>1 DEF Copying
<1>4. x \in Q /\ x \notin DOMAIN k
  <2>1. x \in News(st)
    BY <1>1, <1>2, LoopsPop
  <2> QED BY <1>2, <1>3, <2>1 DEF Loops, News
<1>5. PICK d, U : d = cJSON_Delete(n, x) /\ U = Under(g, {x})
  OBVIOUS
<1>6. Freed(n, d, U) /\ U \subseteq DOMAIN g /\ U \cap DOMAIN k = {}
  BY <1>3, <1>4, <1>5, GrownFreed
<1>7. Kept(m, n)
  BY <1>1 DEF Duplicating
<1>8. Kept(m, d)
  <2>1. ASSUME NEW j \in DOMAIN m.at PROVE j \in DOMAIN d.at /\ d.at[j] = m.at[j]
    <3>1. j \in DOMAIN n.at /\ n.at[j] = m.at[j]
      BY <1>7 DEF Kept
    <3>2. j \notin U
      <4> SUFFICES ASSUME j \in U PROVE FALSE
        OBVIOUS
      <4>1. j \in DOMAIN g /\ j \notin DOMAIN k
        BY <1>6
      <4>2. m.at[j].ref
        BY <4>1 DEF Heap
      <4> QED BY <1>3, <3>1, <4>1, <4>2 DEF Growing
    <3> QED BY <1>6, <3>1, <3>2 DEF Freed
  <2>2. ASSUME NEW j \in DOMAIN d.at \ DOMAIN m.at PROVE ~d.at[j].ref
    BY <1>6, <1>7 DEF Freed, Kept
  <2> QED BY <2>1, <2>2 DEF Kept
<1>9. GiveBack(s) = [m |-> d, stack |-> Tail(st), ret |-> Null, failed |-> TRUE]
  <2>1. GiveBack(s) = [s EXCEPT !.m = d, !.stack = Tail(st)]
    BY <1>1, <1>2, <1>5 DEF GiveBack
  <2>2. PICK l : l = Tail(st)
    OBVIOUS
  <2>3. GiveBack(s) = [s EXCEPT !.m = d, !.stack = l]
    BY <2>1, <2>2
  <2> QED BY <1>2, <2>2, <2>3
<1>10. PICK z : z = GiveBack(s)
  OBVIOUS
<1>11. z.m = d /\ z.ret = Null /\ z.failed = TRUE
  BY <1>9, <1>10
<1>12. Duplicating(z, m, i, c, k)
  BY <1>8, <1>11 DEF Duplicating
<1> QED BY <1>10, <1>12

(* One turn of cJSON_Duplicate. *)
LEMMA DuplicatingStep ==
  ASSUME NEW m, NEW k, NEW R, Heap(m, k, R, {}), NEW i, NEW c, NEW s, NEW t, Copying(s, t, k, R),
         s.failed \in BOOLEAN, Duplicating(s, m, i, c, k)
  PROVE  Duplicating(DuplicateStep(s), m, i, c, k)
<1>1. CASE s.stack = <<>>
  BY <1>1 DEF DuplicateStep
<1>2. CASE s.stack # <<>> /\ s.failed = TRUE
  <2>1. Duplicating(GiveBack(s), m, i, c, k)
    BY <1>2, DuplicatingBack
  <2> QED BY <1>2, <2>1 DEF DuplicateStep
<1>3. CASE s.stack # <<>> /\ s.failed = FALSE /\ Head(s.stack).child # Null
  <2>1. Duplicating(CopyChild(s), m, i, c, k)
    BY <1>3, DuplicatingChild
  <2> QED BY <1>3, <2>1 DEF DuplicateStep
<1>4. CASE s.stack # <<>> /\ s.failed = FALSE /\ Head(s.stack).child = Null
  <2>1. Duplicating(CopyReturn(s), m, i, c, k)
    BY <1>4, DuplicatingReturn
  <2> QED BY <1>4, <2>1 DEF DuplicateStep
<1> QED BY <1>1, <1>2, <1>3, <1>4

(* The first copy has been made. *)
LEMMA DuplicatingStart ==
  ASSUME NEW m, NEW k, NEW R, Heap(m, k, R, {}), NEW i \in DOMAIN k, NEW q, q = CopyItem(m, i), q.ret # Null,
         NEW s, s = [m |-> q.m, stack |-> <<CopyLoop(m.at[i].child, q.ret, Null)>>, ret |-> Null, failed |-> FALSE]
  PROVE  Duplicating(s, m, i, q.ret, k)
<1>1. PICK w, c, h : w = q.m /\ c = q.ret /\ h = CopyLoop(m.at[i].child, c, Null)
  OBVIOUS
<1>2. /\ m.at[i].child \in DOMAIN k \cup {Null} /\ DOMAIN k \cup {Null} \subseteq Pointer /\ i \in DOMAIN m.at
      /\ DOMAIN k \subseteq DOMAIN m.at
  BY OldLinks
<1>3. /\ NewPlain(m, q) /\ SameItem(w.at[c], m.at[i])
  <2>1. IsMemory(m) /\ DataFits(m.at[i])
    BY <1>2 DEF Heap
  <2> QED BY <1>1, <1>2, <2>1, CopyItemIs
<1>4. /\ c \in Items \ DOMAIN m.at /\ DOMAIN w.at = DOMAIN m.at \cup {c} /\ \A j \in DOMAIN m.at : w.at[j] = m.at[j]
      /\ ~w.at[c].ref /\ w.at[c].next = Null /\ w.at[c].child = Null
  BY <1>1, <1>3 DEF NewPlain, Fresh
<1>5. h.child = m.at[i].child /\ h.new = c /\ h.last = Null
  BY <1>1 DEF CopyLoop
<1>6. PICK st : st = <<h>>
  OBVIOUS
<1>7. s.m = w /\ s.stack = st /\ s.ret = Null /\ s.failed = FALSE
  BY <1>1, <1>6
<1>8. DOMAIN st = {1} /\ st[1] = h /\ Len(st) = 1 /\ st # <<>>
  BY <1>6
<1>9. News(st) = {c} /\ Lasts(st) = {Null}
  BY <1>5, <1>8 DEF News, Lasts
<1>10. Kept(m, w)
  BY <1>4 DEF Kept
<1> DEFINE f == [x \in {c} |-> i]
<1>11. DOMAIN f = {c} /\ f[c] = i /\ f \in [DOMAIN w.at \ DOMAIN m.at -> DOMAIN k]
  <2>1. DOMAIN w.at \ DOMAIN m.at = {c}
    BY <1>4
  <2> QED BY <2>1
<1> HIDE DEF f
<1>12. Originals(f, m, w, i, c, k)
  BY <1>4, <1>11 DEF Originals
<1>13. Stages(st, f, m, w, k)
  <2>1. Stage(h, f, m, w, k)
    BY <1>2, <1>4, <1>5, <1>11 DEF Stage
  <2> QED BY <1>8, <2>1 DEF Stages
<1>14. Resemble(f, m, w, News(st), Open(st, c))
  BY <1>3, <1>9, <1>11 DEF Resemble, Open
<1>15. Copies(f, m, w, i, c, k, st, Open(st, c))
  BY <1>12, <1>13, <1>14 DEF Copies
<1>16. Outermost(s, c)
  BY <1>5, <1>7, <1>8 DEF Outermost
<1>17. Duplicating(s, m, i, c, k)
  BY <1>7, <1>10, <1>15, <1>16 DEF Duplicating
<1> QED BY <1>1, <1>17

(* Memory that holds the same forest and has kept its items is the same. *)
LEMMA KeptSame ==
  ASSUME NEW m, NEW n, NEW k, NEW R, Heap(m, k, R, {}), Heap(n, k, R, {}), Kept(m, n)
  PROVE  n = m
<1>1. IsMemory(m) /\ IsMemory(n) /\ Balance(m) = 0 /\ Balance(n) = 0
  BY DEF Heap
<1>2. DOMAIN k \subseteq DOMAIN m.at
  BY DEF Heap, Linked
<1>3. \A j \in DOMAIN n.at : j \in DOMAIN m.at
  BY <1>2 DEF Heap, Kept
<1>4. DOMAIN n.at = DOMAIN m.at /\ \A j \in DOMAIN m.at : n.at[j] = m.at[j]
  BY <1>3 DEF Kept
<1>5. n.at = m.at
  BY <1>1, <1>4 DEF IsMemory
<1>6. n.strs = m.strs
  <2> DEFINE A == {j \in DOMAIN m.at : OwnsString(m.at[j])}
             B == {j \in DOMAIN m.at : OwnsValue(m.at[j])}
  <2>1. A \in SUBSET Items /\ B \in SUBSET Items
    BY <1>1 DEF IsMemory
  <2> HIDE DEF A, B
  <2>2. Cardinality(A) \in Nat /\ Cardinality(B) \in Nat
    BY <2>1, ItemsFinite
  <2>3. m.strs - Cardinality(A) - Cardinality(B) = 0 /\ n.strs - Cardinality(A) - Cardinality(B) = 0
    BY <1>1, <1>5 DEF Balance, A, B
  <2>4. m.strs \in Int /\ n.strs \in Int
    BY <1>1 DEF IsMemory
  <2> QED BY <2>2, <2>3, <2>4
<1> QED BY <1>1, <1>5, <1>6 DEF IsMemory

(* cJSON_Duplicate makes a copy of the whole tree, or changes nothing. *)
LEMMA CopyIs ==
  ASSUME NEW m, NEW k, NEW R, Heap(m, k, R, {}), NEW i \in DOMAIN k
  PROVE  Copied(m, i, cJSON_Duplicate(m, i, TRUE))
<1>1. PICK q : q = CopyItem(m, i)
  OBVIOUS
<1>2. i \in DOMAIN m.at /\ IsMemory(m) /\ DOMAIN k \subseteq DOMAIN m.at
  BY DEF Heap, Linked
<1>3. CASE q.ret = Null
  <2>1. cJSON_Duplicate(m, i, TRUE) = q
    BY <1>1, <1>3 DEF cJSON_Duplicate
  <2>2. NewPlain(m, q)
    BY <1>1, <1>2, CopyItemIs DEF Heap
  <2> QED BY <1>3, <2>1, <2>2 DEF NewPlain, Copied
<1>4. CASE q.ret # Null
  <2>1. PICK run : /\ Turns(m, i, q, run)
                   /\ \A n \in 0 .. MaxSteps : Copying(run[n], n, k, R) /\ run[n].failed \in BOOLEAN
                   /\ run[MaxSteps].stack = <<>>
    BY <1>1, <1>4, CopyingRun
  <2>2. PICK c, M : c = q.ret /\ M = MaxSteps
    OBVIOUS
  <2>3. M \in Nat
    BY <2>2, ItemsFinite DEF MaxSteps
  <2> DEFINE S == {n \in Nat : n <= M => Duplicating(run[n], m, i, c, k)}
  <2>4. 0 \in S
    <3>1. Duplicating(run[0], m, i, c, k)
      BY <1>1, <1>4, <2>1, <2>2, DuplicatingStart DEF Turns
    <3> QED BY <3>1
  <2>5. ASSUME NEW n \in Nat, n \in S PROVE n + 1 \in S
    <3> SUFFICES ASSUME n + 1 <= M PROVE Duplicating(run[n + 1], m, i, c, k)
      OBVIOUS
    <3>1. n <= M /\ n \in 0 .. M
      BY <2>3
    <3>2. run[n + 1] = DuplicateStep(run[n])
      BY <2>1, <2>2 DEF Turns
    <3>3. Copying(run[n], n, k, R) /\ run[n].failed \in BOOLEAN
      BY <2>1, <2>2, <3>1
    <3>4. Duplicating(run[n], m, i, c, k)
      BY <2>5, <3>1
    <3>5. Duplicating(DuplicateStep(run[n]), m, i, c, k)
      BY <3>3, <3>4, DuplicatingStep
    <3> QED BY <3>2, <3>5
  <2> HIDE DEF S
  <2>6. M \in S
    <3>1. Nat \subseteq S
      BY <2>4, <2>5, Induction
    <3> QED BY <2>3, <3>1
  <2>7. PICK s : s = run[M]
    OBVIOUS
  <2>8. Duplicating(s, m, i, c, k) /\ s.stack = <<>> /\ s.failed \in BOOLEAN /\ Made(Result(s.m, s.ret), k, R)
    <3>1. Duplicating(s, m, i, c, k)
      BY <2>3, <2>6, <2>7 DEF S
    <3>2. M \in 0 .. M
      BY <2>3
    <3>3. Copying(s, M, k, R) /\ s.failed \in BOOLEAN /\ s.stack = <<>>
      BY <2>1, <2>2, <2>7, <3>2
    <3> QED BY <3>1, <3>3 DEF Copying
  <2>9. PICK r : r = cJSON_Duplicate(m, i, TRUE)
    OBVIOUS
  <2>10. r.m = s.m /\ r.ret = s.ret
    <3>1. cJSON_Duplicate(m, i, TRUE) = Result(run[MaxSteps].m, run[MaxSteps].ret)
      BY <2>1 DEF Turns
    <3>2. r = Result(s.m, s.ret)
      BY <2>2, <2>7, <2>9, <3>1
    <3> QED BY <3>2 DEF Result
  <2>11. CASE s.ret = Null
    <3>1. Heap(s.m, k, R, {})
      BY <2>8, <2>11 DEF Made, Result
    <3>2. s.m = m
      BY <2>8, <3>1, KeptSame DEF Duplicating
    <3>3. Copied(m, i, r)
      BY <2>10, <2>11, <3>2 DEF Copied
    <3> QED BY <2>9, <3>3
  <2>12. CASE s.ret # Null
    <3>1. s.failed = FALSE
      BY <2>8, <2>12 DEF Duplicating
    <3>2. s.ret = c /\ Kept(m, s.m)
      BY <2>8, <3>1 DEF Duplicating, Outermost
    <3>3. PICK f : Copies(f, m, s.m, i, c, k, <<>>, Open(<<>>, c))
      BY <2>8, <3>1 DEF Duplicating
    <3>4. News(<<>>) = {} /\ Lasts(<<>>) = {}
      BY DEF News, Lasts
    <3>5. Originals(f, m, s.m, i, c, k) /\ Resemble(f, m, s.m, {}, {c})
      BY <3>3, <3>4 DEF Copies, Open
    <3>6. f \in [DOMAIN s.m.at \ DOMAIN m.at -> DOMAIN m.at] /\ c \in DOMAIN f /\ f[c] = i /\ s.m.at[c].next = Null
      BY <1>2, <3>5 DEF Originals
    <3>7. ASSUME NEW x \in DOMAIN f
          PROVE  /\ SameItem(s.m.at[x], m.at[f[x]]) /\ CopyOf(f, s.m.at[x].child, m.at[f[x]].child)
                 /\ IF x = c THEN s.m.at[x].next = Null ELSE CopyOf(f, s.m.at[x].next, m.at[f[x]].next)
      BY <3>5, <3>6 DEF Resemble
    <3>8. \A j \in DOMAIN m.at : j \in DOMAIN s.m.at /\ s.m.at[j] = m.at[j]
      BY <3>2 DEF Kept
    <3>9. IsCopy(m, i, s.m, c)
      BY <3>6, <3>7, <3>8 DEF IsCopy
    <3>10. Copied(m, i, r)
      BY <2>10, <2>12, <3>2, <3>9 DEF Copied
    <3> QED BY <2>9, <3>10
  <2> QED BY <2>11, <2>12
<1> QED BY <1>3, <1>4

-----------------------------------------------------------------------------
(* Names and values. *)

(* n is m with other data in the item i. *)
Edited(m, n, i, k, R, O) ==
  Heap(n, k, R, O) /\ SameLinks(m, n) /\ \A j \in DOMAIN m.at : j # i => n.at[j] = m.at[j]

(* An item is changed where nothing depends on it, with its strings        *)
(* accounted for.                                                          *)
LEMMA EditIs ==
  ASSUME NEW m, NEW k, NEW R, NEW O, Heap(m, k, R, O), NEW i \in DOMAIN k, NEW it \in ItemOf, NEW s \in Int,
         it.next = m.at[i].next, it.prev = m.at[i].prev, it.child = m.at[i].child, it.ref = m.at[i].ref,
         DataFits(it),
         s = m.strs - Weight(m.at[i]) + Weight(it)
  PROVE  Edited(m, With(m, i, it, s), i, k, R, O)
<1> DEFINE n == With(m, i, it, s)
<1>1. IsMemory(m) /\ i \in DOMAIN m.at /\ i \in Items
  BY DEF Heap, Linked, IsMemory
<1>2. /\ IsMemory(n) /\ DOMAIN n.at = DOMAIN m.at \cup {i} /\ n.at[i] = it
      /\ \A j \in DOMAIN m.at : j # i => n.at[j] = m.at[j]
  BY <1>1, WithIs
<1>3. Balance(n) = Balance(m)
  BY <1>1, WithBalance
<1> HIDE DEF n
<1>4. DOMAIN n.at = DOMAIN m.at
  BY <1>1, <1>2
<1>5. \A j \in DOMAIN m.at : j = i \/ n.at[j] = m.at[j]
  BY <1>2
<1>6. SameLinks(m, n)
  <2>1. ASSUME NEW j \in DOMAIN m.at
        PROVE  /\ n.at[j].next = m.at[j].next /\ n.at[j].prev = m.at[j].prev
               /\ n.at[j].child = m.at[j].child /\ n.at[j].ref = m.at[j].ref
    <3>1. CASE j = i
      BY <1>2, <3>1
    <3>2. CASE n.at[j] = m.at[j]
      BY <3>2
    <3> QED BY <1>5, <3>1, <3>2
  <2> QED BY <1>2, <1>4, <2>1 DEF SameLinks
<1>7. \A j \in DOMAIN m.at : DataFits(n.at[j])
  BY <1>2, <1>5 DEF Heap
<1>8. \A j \in DOMAIN m.at \ DOMAIN k : n.at[j].string = m.at[j].string
  BY <1>2
<1>9. Heap(n, k, R, O)
  BY <1>3, <1>6, <1>7, <1>8, HeapData
<1> QED BY <1>2, <1>6, <1>9 DEF Edited, n

(* The item with another name. *)
NamedItem(it, name, c) == Changed(Changed(it, "string", name), "const", c)

(* An item with another name has everything else as it was. *)
LEMMA NamedItemIs ==
  ASSUME NEW it \in ItemOf, NEW name \in Keys \cup {Null}, NEW c \in BOOLEAN
  PROVE  /\ Changed(it, "string", name) \in ItemOf /\ NamedItem(it, name, c) \in ItemOf
         /\ Changed(it, "string", name).string = name /\ Changed(it, "string", name).const = it.const
         /\ Changed(it, "string", name).next = it.next /\ Changed(it, "string", name).prev = it.prev
         /\ Changed(it, "string", name).child = it.child /\ Changed(it, "string", name).ref = it.ref
         /\ Changed(it, "string", name).type = it.type /\ Changed(it, "string", name).valuestring = it.valuestring
         /\ DataFits(it) => DataFits(Changed(it, "string", name)) /\ DataFits(NamedItem(it, name, c))
         /\ NamedItem(it, name, c).string = name /\ NamedItem(it, name, c).const = c
         /\ NamedItem(it, name, c).next = it.next /\ NamedItem(it, name, c).prev = it.prev
         /\ NamedItem(it, name, c).child = it.child /\ NamedItem(it, name, c).ref = it.ref
         /\ NamedItem(it, name, c).type = it.type /\ NamedItem(it, name, c).valuestring = it.valuestring
BY DEF Changed, NamedItem, ItemOf, DataFits

(* Clearing the name first makes no difference. *)
LEMMA NamedTwice ==
  ASSUME NEW it \in ItemOf, NEW name, NEW c
  PROVE  NamedItem(Changed(it, "string", Null), name, c) = NamedItem(it, name, c)
<1>1. Changed(Changed(it, "string", Null), "string", name) = Changed(it, "string", name)
  BY DEF Changed, ItemOf
<1> QED BY <1>1 DEF NamedItem

(* The strings of a renamed item. *)
LEMMA NamedWeight ==
  ASSUME NEW it \in ItemOf, NEW name \in Keys, NEW c \in BOOLEAN
  PROVE  /\ Weight(it) \in Nat /\ Weight(NamedItem(it, name, c)) \in Nat
         /\ Weight(NamedItem(it, name, c)) =
              Weight(it) - (IF OwnsString(it) THEN 1 ELSE 0) + (IF c THEN 0 ELSE 1)
         /\ Weight(Changed(it, "string", Null)) = Weight(it) - (IF OwnsString(it) THEN 1 ELSE 0)
<1> DEFINE e == NamedItem(it, name, c)
           b == Changed(it, "string", Null)
<1>1. /\ e.string = name /\ e.const = c /\ e.ref = it.ref /\ e.valuestring = it.valuestring
      /\ b.string = Null /\ b.ref = it.ref /\ b.valuestring = it.valuestring
  BY NamedItemIs
<1> HIDE DEF e, b
<1>2. name # Null
  BY TreeAssumption
<1>3. (OwnsValue(e) <=> OwnsValue(it)) /\ (OwnsString(e) <=> ~c) /\ (OwnsValue(b) <=> OwnsValue(it)) /\ ~OwnsString(b)
  BY <1>1, <1>2 DEF OwnsValue, OwnsString
<1>4. Weight(e) = (IF c THEN 0 ELSE 1) + (IF OwnsValue(it) THEN 1 ELSE 0)
  BY <1>3 DEF Weight
<1>5. Weight(b) = IF OwnsValue(it) THEN 1 ELSE 0
  BY <1>3 DEF Weight
<1>6. Weight(it) = (IF OwnsString(it) THEN 1 ELSE 0) + (IF OwnsValue(it) THEN 1 ELSE 0)
  BY DEF Weight
<1> QED BY <1>4, <1>5, <1>6 DEF e, b

(* What SetName stores, and how many strings that takes. *)
LEMMA SetNameIs ==
  ASSUME NEW m, IsMemory(m), NEW i \in DOMAIN m.at, NEW name \in Keys, NEW c \in BOOLEAN
  PROVE  SetName(m, i, name, c) =
           With(m, i, NamedItem(m.at[i], name, c),
                m.strs - (IF OwnsString(m.at[i]) THEN 1 ELSE 0) + (IF c THEN 0 ELSE 1))
<1> DEFINE it == m.at[i]
           b == Changed(it, "string", Null)
           freed == IF OwnsString(it) THEN FreeString(m, i, "string") ELSE m
           s1 == m.strs - (IF OwnsString(it) THEN 1 ELSE 0)
           e1 == IF OwnsString(it) THEN b ELSE it
           named == IF c THEN Put(freed, i, "string", name) ELSE cJSON_strdup(freed, i, "string", name)
           s2 == s1 + IF c THEN 0 ELSE 1
           e2 == Changed(e1, "string", name)
<1>0. it \in ItemOf /\ m.strs \in Int /\ m = With(m, i, it, m.strs)
  BY WithSelf DEF IsMemory
<1>1. freed = With(m, i, e1, s1)
  <2>1. CASE OwnsString(it)
    <3>1. FreeString(With(m, i, it, m.strs), i, "string") = With(m, i, b, m.strs - 1)
      BY WithDup
    <3> QED BY <1>0, <2>1, <3>1
  <2>2. CASE ~OwnsString(it)
    <3>1. s1 = m.strs
      BY <1>0, <2>2
    <3> QED BY <1>0, <2>2, <3>1
  <2> QED BY <2>1, <2>2
<1>2. s1 \in Int
  BY <1>0
<1> HIDE DEF freed, e1, s1
<1>3. named = With(m, i, e2, s2)
  <2>1. CASE c
    <3>1. Put(With(m, i, e1, s1), i, "string", name) = With(m, i, e2, s1)
      BY WithPut
    <3>2. s2 = s1
      BY <1>2, <2>1
    <3> QED BY <1>1, <2>1, <3>1, <3>2
  <2>2. CASE ~c
    <3>1. cJSON_strdup(With(m, i, e1, s1), i, "string", name) = With(m, i, e2, s1 + 1)
      BY WithDup
    <3>2. s2 = s1 + 1
      BY <2>2
    <3> QED BY <1>1, <2>2, <3>1, <3>2
  <2> QED BY <2>1, <2>2
<1>4. SetName(m, i, name, c) = Put(named, i, "const", c)
  BY DEF SetName, freed
<1> HIDE DEF named, s2
<1>5. Put(With(m, i, e2, s2), i, "const", c) = With(m, i, Changed(e2, "const", c), s2)
  BY WithPut
<1>6. Changed(e2, "const", c) = NamedItem(it, name, c)
  <2>1. CASE OwnsString(it)
    <3>1. Changed(e2, "const", c) = NamedItem(b, name, c)
      BY <2>1 DEF NamedItem, e1
    <3>2. NamedItem(b, name, c) = NamedItem(it, name, c)
      BY <1>0, NamedTwice
    <3> QED BY <3>1, <3>2
  <2>2. CASE ~OwnsString(it)
    BY <2>2 DEF NamedItem, e1
  <2> QED BY <2>1, <2>2
<1> QED BY <1>3, <1>4, <1>5, <1>6 DEF s1, s2

(* SetName changes no links. *)
LEMMA SetNameEdits ==
  ASSUME NEW m, NEW k, NEW R, NEW O, Heap(m, k, R, O), NEW i \in DOMAIN k, NEW name \in Keys, NEW c \in BOOLEAN
  PROVE  Edited(m, SetName(m, i, name, c), i, k, R, O)
<1>1. IsMemory(m) /\ i \in DOMAIN m.at /\ m.at[i] \in ItemOf /\ m.strs \in Int
      /\ DataFits(m.at[i])
  BY DEF Heap, Linked, IsMemory
<1>2. PICK it : it = m.at[i]
  OBVIOUS
<1>3. PICK e, s : e = NamedItem(it, name, c) /\ s = m.strs - (IF OwnsString(it) THEN 1 ELSE 0) + (IF c THEN 0 ELSE 1)
  OBVIOUS
<1>4. /\ e \in ItemOf /\ e.next = it.next /\ e.prev = it.prev /\ e.child = it.child /\ e.ref = it.ref
      /\ DataFits(e)
  BY <1>1, <1>2, <1>3, NamedItemIs
<1>5. /\ Weight(it) \in Nat /\ Weight(e) = Weight(it) - (IF OwnsString(it) THEN 1 ELSE 0) + (IF c THEN 0 ELSE 1)
  BY <1>1, <1>2, <1>3, NamedWeight
<1>6. s \in Int /\ s = m.strs - Weight(it) + Weight(e)
  BY <1>1, <1>3, <1>5
<1>7. SetName(m, i, name, c) = With(m, i, e, s)
  BY <1>1, <1>2, <1>3, SetNameIs
<1>8. Edited(m, With(m, i, e, s), i, k, R, O)
  BY <1>1, <1>2, <1>4, <1>6, EditIs
<1> QED BY <1>7, <1>8

(* What replace_item_in_object does to the new item's name. *)
Unnamed(m, i) == IF OwnsString(m.at[i]) THEN FreeString(m, i, "string") ELSE Put(m, i, "string", Null)

Renamed(m, i, name) == Put(cJSON_strdup(Unnamed(m, i), i, "string", name), i, "const", FALSE)

(* What freeing the name stores. *)
LEMMA UnnamedIs ==
  ASSUME NEW m, IsMemory(m), NEW i \in DOMAIN m.at
  PROVE  Unnamed(m, i) = With(m, i, Changed(m.at[i], "string", Null),
                              m.strs - (IF OwnsString(m.at[i]) THEN 1 ELSE 0))
<1> DEFINE it == m.at[i]
           b == Changed(it, "string", Null)
<1>1. m.strs \in Int /\ m = With(m, i, it, m.strs)
  BY WithSelf DEF IsMemory
<1>2. CASE OwnsString(it)
  <2>1. FreeString(With(m, i, it, m.strs), i, "string") = With(m, i, b, m.strs - 1)
    BY WithDup
  <2> QED BY <1>1, <1>2, <2>1 DEF Unnamed
<1>3. CASE ~OwnsString(it)
  <2>1. Put(With(m, i, it, m.strs), i, "string", Null) = With(m, i, b, m.strs)
    BY WithPut
  <2>2. m.strs - (IF OwnsString(it) THEN 1 ELSE 0) = m.strs
    BY <1>1, <1>3
  <2> QED BY <1>1, <1>3, <2>1, <2>2 DEF Unnamed
<1> QED BY <1>2, <1>3

(* A replacement that has lost its name is as good as before. *)
LEMMA UnnamedEdits ==
  ASSUME NEW m, NEW k, NEW R, NEW O, Heap(m, k, R, O), NEW i \in DOMAIN k
  PROVE  Edited(m, Unnamed(m, i), i, k, R, O)
<1>1. IsMemory(m) /\ i \in DOMAIN m.at /\ m.at[i] \in ItemOf /\ m.strs \in Int
      /\ DataFits(m.at[i])
  BY DEF Heap, Linked, IsMemory
<1>2. PICK it : it = m.at[i]
  OBVIOUS
<1>3. PICK e, s : e = Changed(it, "string", Null) /\ s = m.strs - (IF OwnsString(it) THEN 1 ELSE 0)
  OBVIOUS
<1>4. /\ e \in ItemOf /\ e.next = it.next /\ e.prev = it.prev /\ e.child = it.child /\ e.ref = it.ref
      /\ e.valuestring = it.valuestring /\ e.string = Null /\ DataFits(e)
  <2>1. Null \in Keys \cup {Null} /\ FALSE \in BOOLEAN
    OBVIOUS
  <2> QED BY <1>1, <1>2, <1>3, <2>1, NamedItemIs
<1>5. Weight(it) \in Nat /\ Weight(e) \in Nat /\ Weight(e) = Weight(it) - (IF OwnsString(it) THEN 1 ELSE 0)
  <2>1. (OwnsValue(e) <=> OwnsValue(it)) /\ ~OwnsString(e)
    BY <1>4 DEF OwnsValue, OwnsString
  <2> QED BY <2>1 DEF Weight
<1>6. s \in Int /\ s = m.strs - Weight(it) + Weight(e)
  BY <1>1, <1>3, <1>5
<1>7. Unnamed(m, i) = With(m, i, e, s)
  BY <1>1, <1>2, <1>3, UnnamedIs
<1>8. Edited(m, With(m, i, e, s), i, k, R, O)
  BY <1>1, <1>2, <1>4, <1>6, EditIs
<1> QED BY <1>7, <1>8

(* And one that has got the new name. *)
LEMMA RenamedEdits ==
  ASSUME NEW m, NEW k, NEW R, NEW O, Heap(m, k, R, O), NEW i \in DOMAIN k, NEW name \in Keys
  PROVE  Edited(m, Renamed(m, i, name), i, k, R, O)
<1>1. IsMemory(m) /\ i \in DOMAIN m.at /\ m.at[i] \in ItemOf /\ m.strs \in Int
      /\ DataFits(m.at[i])
  BY DEF Heap, Linked, IsMemory
<1>2. PICK it : it = m.at[i]
  OBVIOUS
<1>3. PICK c \in BOOLEAN : c = FALSE
  OBVIOUS
<1>4. PICK b, s, e : /\ b = Changed(it, "string", Null)
                     /\ s = m.strs - (IF OwnsString(it) THEN 1 ELSE 0)
                     /\ e = NamedItem(it, name, c)
  OBVIOUS
<1>5. Unnamed(m, i) = With(m, i, b, s)
  BY <1>1, <1>2, <1>4, UnnamedIs
<1>6. cJSON_strdup(With(m, i, b, s), i, "string", name) = With(m, i, Changed(b, "string", name), s + 1)
  BY WithDup
<1>7. Put(With(m, i, Changed(b, "string", name), s + 1), i, "const", c) = With(m, i, Changed(Changed(b, "string", name), "const", c), s + 1)
  BY WithPut
<1>8. Changed(Changed(b, "string", name), "const", c) = e
  <2>1. NamedItem(b, name, c) = NamedItem(it, name, c)
    BY <1>1, <1>2, <1>4, NamedTwice
  <2> QED BY <1>4, <2>1 DEF NamedItem
<1>9. Renamed(m, i, name) = With(m, i, e, s + 1)
  BY <1>3, <1>5, <1>6, <1>7, <1>8 DEF Renamed
<1>10. /\ e \in ItemOf /\ e.next = it.next /\ e.prev = it.prev /\ e.child = it.child /\ e.ref = it.ref
       /\ DataFits(e)
  <2>1. it \in ItemOf /\ name \in Keys \cup {Null} /\ DataFits(it)
    BY <1>1, <1>2
  <2> QED BY <1>4, <2>1, NamedItemIs
<1>11. /\ Weight(it) \in Nat /\ Weight(e) \in Nat
       /\ Weight(e) = Weight(it) - (IF OwnsString(it) THEN 1 ELSE 0) + (IF c THEN 0 ELSE 1)
  BY <1>1, <1>2, <1>3, <1>4, NamedWeight
<1>12. s + 1 \in Int /\ s + 1 = m.strs - Weight(it) + Weight(e)
  BY <1>1, <1>3, <1>4, <1>11
<1>13. Edited(m, With(m, i, e, s + 1), i, k, R, O)
  BY <1>1, <1>2, <1>10, <1>12, EditIs
<1> QED BY <1>9, <1>13

(* A new value, or a text over an old one. *)
LEMMA ValueEdits ==
  ASSUME NEW m, NEW k, NEW R, NEW O, Heap(m, k, R, O), NEW i \in DOMAIN k, NEW v \in Nat, m.at[i].type = "number"
  PROVE  Edited(m, Put(m, i, "value", v), i, k, R, O)
<1>1. IsMemory(m) /\ i \in DOMAIN m.at /\ m.at[i] \in ItemOf /\ m.strs \in Int
      /\ DataFits(m.at[i])
  BY DEF Heap, Linked, IsMemory
<1>2. PICK it, e : it = m.at[i] /\ e = Changed(it, "value", v)
  OBVIOUS
<1>3. /\ e \in ItemOf /\ e.next = it.next /\ e.prev = it.prev /\ e.child = it.child /\ e.ref = it.ref
      /\ e.valuestring = it.valuestring /\ e.string = it.string /\ e.const = it.const /\ DataFits(e)
  BY <1>1, <1>2 DEF Changed, ItemOf, DataFits
<1>4. Weight(it) \in Nat /\ Weight(e) = Weight(it)
  BY <1>3 DEF Weight, OwnsString, OwnsValue
<1>5. m = With(m, i, it, m.strs)
  BY <1>1, <1>2, WithSelf
<1>6. Put(With(m, i, it, m.strs), i, "value", v) = With(m, i, e, m.strs)
  BY <1>2, WithPut
<1>7. m.strs = m.strs - Weight(it) + Weight(e)
  BY <1>1, <1>4
<1>8. Edited(m, With(m, i, e, m.strs), i, k, R, O)
  BY <1>1, <1>2, <1>3, <1>7, EditIs
<1> QED BY <1>5, <1>6, <1>8

(* cJSON_SetValuestring changes no links. *)
LEMMA TextEdits ==
  ASSUME NEW m, NEW k, NEW R, NEW O, Heap(m, k, R, O), NEW i \in DOMAIN k, NEW v \in Nat, v # Null
  PROVE  cJSON_SetValuestring(m, i, v) = m \/ Edited(m, cJSON_SetValuestring(m, i, v), i, k, R, O)
<1>1. IsMemory(m) /\ i \in DOMAIN m.at /\ m.at[i] \in ItemOf /\ m.strs \in Int
      /\ DataFits(m.at[i])
  BY DEF Heap, Linked, IsMemory
<1>2. CASE m.at[i].type # "string" \/ m.at[i].ref \/ (v > m.at[i].valuestring /\ ~CanDup(m))
  BY <1>2 DEF cJSON_SetValuestring
<1>3. CASE ~(m.at[i].type # "string" \/ m.at[i].ref \/ (v > m.at[i].valuestring /\ ~CanDup(m)))
  <2>1. cJSON_SetValuestring(m, i, v) = Put(m, i, "valuestring", v) /\ m.at[i].type = "string"
    BY <1>3 DEF cJSON_SetValuestring
  <2>2. PICK it, e : it = m.at[i] /\ e = Changed(it, "valuestring", v)
    OBVIOUS
  <2>3. /\ e \in ItemOf /\ e.next = it.next /\ e.prev = it.prev /\ e.child = it.child /\ e.ref = it.ref
        /\ e.valuestring = v /\ e.string = it.string /\ e.const = it.const /\ DataFits(e)
    BY <1>1, <2>1, <2>2 DEF Changed, ItemOf, DataFits
  <2>4. Weight(it) \in Nat /\ Weight(e) = Weight(it)
    <3>1. it.valuestring # Null /\ e.valuestring # Null
      BY <1>1, <2>1, <2>2, <2>3 DEF DataFits
    <3> QED BY <2>3, <3>1 DEF Weight, OwnsString, OwnsValue
  <2>5. m = With(m, i, it, m.strs)
    BY <1>1, <2>2, WithSelf
  <2>6. Put(With(m, i, it, m.strs), i, "valuestring", v) = With(m, i, e, m.strs)
    BY <2>2, WithPut
  <2>7. m.strs = m.strs - Weight(it) + Weight(e)
    BY <1>1, <2>4
  <2>8. Edited(m, With(m, i, e, m.strs), i, k, R, O)
    BY <1>1, <2>2, <2>3, <2>7, EditIs
  <2> QED BY <2>1, <2>5, <2>6, <2>8
<1> QED BY <1>2, <1>3

-----------------------------------------------------------------------------
(* The steps of the forest, from k with the roots R to g with the roots Q. *)

NewTree(k, R, g, Q) ==
  \E r \in DOMAIN g \ DOMAIN k :
    /\ Q = R \cup {r} /\ Without(g, DOMAIN g \ DOMAIN k) = k
    /\ Under(g, {r}) = DOMAIN g \ DOMAIN k

(* The item x is new, and the last member of p. *)
WithLast(k, p, x) == [i \in DOMAIN k \cup {x} |-> IF i = x THEN <<>> ELSE IF i = p THEN Append(k[p], x) ELSE k[i]]

NewMember(k, R, g, Q) == Q = R /\ \E x \in Items \ DOMAIN k, p \in DOMAIN k : g = WithLast(k, p, x)

(* The forest with another list for p. *)
Relist(k, p, t) == [k EXCEPT ![p] = t]

Placed(k, R, g, Q) ==
  \E x \in R : /\ Q = R \ {x}
               /\ \E p \in DOMAIN k \ Under(k, {x}) : \E j \in 1 .. Len(k[p]) + 1 : g = Relist(k, p, InsertAt(k[p], j, x))

Taken(k, R, g, Q) ==
  \E p \in DOMAIN k : \E j \in DOMAIN k[p] : Q = R \cup {k[p][j]} /\ g = Relist(k, p, RemoveAt(k[p], j))

Dropped(k, R, g, Q) ==
  \/ Q = R /\ \E p \in DOMAIN k : \E j \in DOMAIN k[p] :
       g = Without(Relist(k, p, RemoveAt(k[p], j)), Under(k, {k[p][j]}))
  \/ \E x \in R : Q = R \ {x} /\ g = Without(k, Under(k, {x}))

Exchange(k, p, j, x) == Relist(k, p, [k[p] EXCEPT ![j] = x])

Swapped(k, R, g, Q) ==
  \E x \in R : /\ Q = R \ {x}
               /\ \E p \in DOMAIN k \ Under(k, {x}) : \E j \in DOMAIN k[p] :
                    g = Without(Exchange(k, p, j, x), Under(k, {k[p][j]}))

Moves(k, R, g, Q) ==
  \/ g = k /\ Q = R
  \/ NewTree(k, R, g, Q) \/ NewMember(k, R, g, Q) \/ Placed(k, R, g, Q)
  \/ Taken(k, R, g, Q) \/ Dropped(k, R, g, Q) \/ Swapped(k, R, g, Q)

(* After a call, n holds a forest that is one step away. *)
Outcome(n, Q, k, R) == \E g : Heap(n, g, Q, {}) /\ Moves(k, R, g, Q)

(* A call that does not change the forest. *)
LEMMA Stays ==
  ASSUME NEW n, NEW k, NEW R, Heap(n, k, R, {})
  PROVE  Outcome(n, R, k, R)
BY DEF Outcome, Moves

-----------------------------------------------------------------------------
(* New trees. *)

(* A call that makes a tree. *)
LEMMA MadeOutcome ==
  ASSUME NEW r, NEW k, NEW R, Made(r, k, R), IsForestOf(k, R)
  PROVE  Outcome(r.m, R \cup ({r.ret} \ {Null}), k, R)
<1>1. CASE r.ret = Null
  <2>1. R \cup ({r.ret} \ {Null}) = R
    BY <1>1
  <2>2. Heap(r.m, k, R, {})
    BY <1>1 DEF Made
  <2> QED BY <2>1, <2>2, Stays
<1>2. CASE r.ret # Null
  <2>1. PICK x, g : x = r.ret /\ x \notin DOMAIN k /\ Growing(r.m, g, R \cup {x}, {}, k, R)
    BY <1>2 DEF Made
  <2>2. Under(g, {x}) = DOMAIN g \ DOMAIN k
    BY <2>1, GrownUnder
  <2>3. DOMAIN k \subseteq DOMAIN g /\ (\A i \in DOMAIN k : g[i] = k[i]) /\ Heap(r.m, g, R \cup {x}, {})
    BY <2>1 DEF Growing
  <2>4. x \in DOMAIN g
    BY <2>3 DEF Heap, IsForestOf
  <2>5. Without(g, DOMAIN g \ DOMAIN k) = k
    <3>1. DOMAIN g \ (DOMAIN g \ DOMAIN k) = DOMAIN k
      BY <2>3
    <3>2. Without(g, DOMAIN g \ DOMAIN k) = [i \in DOMAIN k |-> g[i]]
      BY <3>1 DEF Without, Forest!Without
    <3>3. k = [i \in DOMAIN k |-> k[i]]
      BY DEF IsForestOf
    <3>4. [i \in DOMAIN k |-> g[i]] = [i \in DOMAIN k |-> k[i]]
      BY <2>3
    <3> QED BY <3>2, <3>3, <3>4
  <2>6. NewTree(k, R, g, R \cup {x})
    BY <2>1, <2>2, <2>4, <2>5 DEF NewTree
  <2>7. R \cup ({r.ret} \ {Null}) = R \cup {x}
    BY <1>2, <2>1
  <2>8. Moves(k, R, g, R \cup {x})
    BY <2>6 DEF Moves
  <2> QED BY <2>3, <2>7, <2>8 DEF Outcome
<1> QED BY <1>1, <1>2

(* A new item has nothing below it. *)
LEMMA UnderNew ==
  ASSUME NEW k, NEW R, IsForestOf(k, R), NEW i, i \notin DOMAIN k
  PROVE  /\ IsForestOf(Grow(k, i), R \cup {i}) /\ Under(Grow(k, i), {i}) = {i}
         /\ DOMAIN Grow(k, i) = DOMAIN k \cup {i} /\ Grow(k, i)[i] = <<>>
         /\ \A j \in DOMAIN k : Grow(k, i)[j] = k[j]
<1> DEFINE g == Grow(k, i)
<1>1. DOMAIN g = DOMAIN k \cup {i} /\ g[i] = <<>> /\ \A j \in DOMAIN k : g[j] = k[j]
  BY DEF Grow
<1>2. IsForestOf(g, R \cup {i})
  BY ForestNew DEF Grow
<1> HIDE DEF g
<1>3. ClosedIn(g, {i})
  BY <1>1 DEF ClosedIn
<1>4. i \in Under(g, {i}) /\ Under(g, {i}) \subseteq {i}
  BY <1>1, <1>2, <1>3, UnderOne
<1> QED BY <1>1, <1>2, <1>4 DEF g

(* A tree of one item. *)
LEMMA GrowMoves ==
  ASSUME NEW k, NEW R, IsForestOf(k, R), NEW i, i \notin DOMAIN k
  PROVE  Moves(k, R, Grow(k, i), R \cup {i})
<1> DEFINE g == Grow(k, i)
<1>1. /\ Under(g, {i}) = {i} /\ DOMAIN g = DOMAIN k \cup {i} /\ \A j \in DOMAIN k : g[j] = k[j]
  BY UnderNew
<1> HIDE DEF g
<1>2. DOMAIN g \ DOMAIN k = {i} /\ DOMAIN g \ {i} = DOMAIN k
  BY <1>1
<1>3. Without(g, {i}) = k
  <2>1. Without(g, {i}) = [j \in DOMAIN k |-> g[j]]
    BY <1>2 DEF Without, Forest!Without
  <2>2. k = [j \in DOMAIN k |-> k[j]]
    BY DEF IsForestOf
  <2>3. [j \in DOMAIN k |-> g[j]] = [j \in DOMAIN k |-> k[j]]
    BY <1>1
  <2> QED BY <2>1, <2>2, <2>3
<1>4. NewTree(k, R, g, R \cup {i})
  BY <1>1, <1>2, <1>3 DEF NewTree
<1> QED BY <1>4 DEF Moves, g

(* A new reference, which is either a root or out of reach: both leave     *)
(* memory whole.                                                           *)
LEMMA ReferenceOutcome ==
  ASSUME NEW m, NEW k, NEW R, Heap(m, k, R, {}), NEW r, NEW c \in DOMAIN k \cup {Null}, NewRef(m, r, c)
  PROVE  /\ Outcome(r.m, R \cup ({r.ret} \ {Null}), k, R)
         /\ r.ret # Null => /\ r.ret \in Items \ DOMAIN k /\ Heap(r.m, k, R, {})
                            /\ Heap(r.m, Grow(k, r.ret), R \cup {r.ret}, {})
<1>1. CASE r.ret = Null
  <2>1. R \cup ({r.ret} \ {Null}) = R
    BY <1>1
  <2>2. Heap(r.m, k, R, {})
    BY <1>1 DEF NewRef
  <2> QED BY <1>1, <2>1, <2>2, Stays
<1>2. CASE r.ret # Null
  <2>1. PICK i, n : i = r.ret /\ n = r.m
    OBVIOUS
  <2>2. Fresh(m, n, i) /\ n.at[i].ref /\ n.at[i].string = Null /\ n.at[i].child \in DOMAIN k \cup {Null}
    BY <1>2, <2>1 DEF NewRef
  <2>3. i \in Items \ DOMAIN k /\ IsForestOf(k, R)
    BY <2>2 DEF Fresh, Heap, Linked
  <2>4. Heap(n, k, R, {})
    BY <2>2, HeapLeak
  <2>5. Heap(n, Grow(k, i), R \cup {i}, {})
    <3>1. PICK O : O = {}
      OBVIOUS
    <3>2. Heap(m, k, R, O) /\ \A q \in DOMAIN k : q \in O <=> q \in O
      BY <3>1
    <3>3. Heap(n, Grow(k, i), R \cup {i}, O)
      BY <2>2, <3>2, HeapFresh
    <3> QED BY <3>1, <3>3
  <2>6. Moves(k, R, Grow(k, i), R \cup {i})
    BY <2>3, GrowMoves
  <2>7. R \cup ({r.ret} \ {Null}) = R \cup {i}
    BY <1>2, <2>1
  <2>8. Outcome(n, R \cup {i}, k, R)
    BY <2>5, <2>6 DEF Outcome
  <2> QED BY <2>1, <2>3, <2>4, <2>5, <2>7, <2>8
<1> QED BY <1>1, <1>2

-----------------------------------------------------------------------------
(* Lists with one member more or less. *)

(* u is s, of length l, and t, of length n, behind it. *)
Joined(D, s, t, u, l, n) ==
  /\ u \in Seq(D) /\ Len(u) = l + n
  /\ \A c \in 1 .. l : u[c] = s[c]
  /\ \A c \in l + 1 .. l + n : u[c] = t[c - l]

(* The places of a concatenation. *)
LEMMA ConcatIs ==
  ASSUME NEW D, NEW s \in Seq(D), NEW t \in Seq(D), NEW l, l = Len(s), NEW n, n = Len(t)
  PROVE  Joined(D, s, t, s \o t, l, n)
BY DEF Joined

(* InsertAt, place by place. *)
LEMMA InsertIs ==
  ASSUME NEW D, NEW s \in Seq(D), NEW x \in D, NEW j \in 1 .. Len(s) + 1
  PROVE  InsertAt(s, j, x) \in Seq(D) /\ Inserted(s, InsertAt(s, j, x), j, x)
<1>1. PICK l \in Nat : l = Len(s)
  OBVIOUS
<1>2. j \in 1 .. l + 1 /\ j \in Nat /\ j - 1 \in 0 .. l
  BY <1>1
<1> DEFINE a == SubSeq(s, 1, j - 1)
           b == SubSeq(s, j, l)
           t == (a \o <<x>>) \o b
<1>3. /\ a \in Seq(D) /\ Len(a) = j - 1 /\ \A c \in 1 .. j - 1 : a[c] = s[c]
  BY <1>1, <1>2
<1>4. /\ b \in Seq(D) /\ Len(b) = l - j + 1 /\ \A c \in 1 .. l - j + 1 : b[c] = s[j + c - 1]
  BY <1>1, <1>2
<1>5. InsertAt(s, j, x) = t
  BY <1>1 DEF InsertAt
<1> HIDE DEF a, b
<1>6. a \o <<x>> \in Seq(D) /\ Len(a \o <<x>>) = j /\ (\A c \in 1 .. j - 1 : (a \o <<x>>)[c] = a[c]) /\ (a \o <<x>>)[j] = x
  BY <1>2, <1>3
<1> DEFINE u == a \o <<x>>
<1> HIDE DEF u
<1>7. u \in Seq(D) /\ Len(u) = j /\ (\A c \in 1 .. j - 1 : u[c] = s[c]) /\ u[j] = x
  BY <1>3, <1>6 DEF u
<1>8. t = u \o b
  BY DEF u
<1> HIDE DEF t
<1>9. t \in Seq(D) /\ Len(t) = l + 1 /\ (\A c \in 1 .. j : t[c] = u[c]) /\ \A c \in j + 1 .. l + 1 : t[c] = b[c - j]
  <2>1. l - j + 1 \in Nat /\ j + (l - j + 1) = l + 1
    BY <1>2
  <2>2. /\ t \in Seq(D) /\ Len(t) = j + (l - j + 1) /\ (\A c \in 1 .. j : t[c] = u[c])
        /\ \A c \in j + 1 .. j + (l - j + 1) : t[c] = b[c - j]
    <3>1. PICK n : n = l - j + 1
      OBVIOUS
    <3>2. u \in Seq(D) /\ b \in Seq(D) /\ j = Len(u) /\ n = Len(b)
      BY <1>4, <1>7, <3>1
    <3>3. Joined(D, u, b, u \o b, j, n)
      BY <3>2, ConcatIs
    <3> QED BY <1>8, <3>1, <3>3 DEF Joined
  <2> QED BY <2>1, <2>2
<1>10. ASSUME NEW c \in 1 .. l + 1 PROVE t[c] = IF c < j THEN s[c] ELSE IF c = j THEN x ELSE s[c - 1]
  <2>1. CASE c < j
    <3>1. c \in 1 .. j - 1 /\ c \in 1 .. j
      BY <1>2, <2>1
    <3> QED BY <1>7, <1>9, <2>1, <3>1
  <2>2. CASE c = j
    <3>1. c \in 1 .. j
      BY <1>2, <2>2
    <3> QED BY <1>7, <1>9, <2>2, <3>1
  <2>3. CASE c > j
    <3>1. c \in j + 1 .. l + 1 /\ c - j \in 1 .. l - j + 1 /\ j + (c - j) - 1 = c - 1 /\ ~(c < j) /\ c # j
      BY <1>2, <2>3
    <3>2. t[c] = b[c - j] /\ b[c - j] = s[j + (c - j) - 1]
      BY <1>4, <1>9, <3>1
    <3> QED BY <3>1, <3>2
  <2> QED BY <1>2, <2>1, <2>2, <2>3
<1> QED BY <1>1, <1>2, <1>5, <1>9, <1>10 DEF Inserted

(* RemoveAt, place by place. *)
LEMMA RemoveIs ==
  ASSUME NEW D, NEW s \in Seq(D), NEW j \in DOMAIN s
  PROVE  RemoveAt(s, j) \in Seq(D) /\ Removed(s, RemoveAt(s, j), j)
<1>1. PICK l \in Nat : l = Len(s)
  OBVIOUS
<1>2. j \in 1 .. l /\ j \in Nat /\ l >= 1
  BY <1>1
<1> DEFINE a == SubSeq(s, 1, j - 1)
           b == SubSeq(s, j + 1, l)
           t == a \o b
<1>3. /\ a \in Seq(D) /\ Len(a) = j - 1 /\ \A c \in 1 .. j - 1 : a[c] = s[c]
  BY <1>1, <1>2
<1>4. /\ b \in Seq(D) /\ Len(b) = l - j /\ \A c \in 1 .. l - j : b[c] = s[j + c]
  BY <1>1, <1>2
<1>5. RemoveAt(s, j) = t
  BY <1>1 DEF RemoveAt
<1> HIDE DEF a, b
<1>6. t \in Seq(D) /\ Len(t) = l - 1 /\ (\A c \in 1 .. j - 1 : t[c] = a[c]) /\ \A c \in j .. l - 1 : t[c] = b[c - (j - 1)]
  <2>1. PICK i, n : i = j - 1 /\ n = l - j
    OBVIOUS
  <2>2. i \in Nat /\ n \in Nat /\ i + n = l - 1 /\ i + 1 = j
    BY <1>2, <2>1
  <2>3. /\ t \in Seq(D) /\ Len(t) = i + n /\ (\A c \in 1 .. i : t[c] = a[c])
        /\ \A c \in i + 1 .. i + n : t[c] = b[c - i]
    <3>1. a \in Seq(D) /\ b \in Seq(D) /\ i = Len(a) /\ n = Len(b)
      BY <1>3, <1>4, <2>1
    <3>2. Joined(D, a, b, a \o b, i, n)
      BY <3>1, ConcatIs
    <3> QED BY <3>2 DEF Joined
  <2> QED BY <2>1, <2>2, <2>3
<1> HIDE DEF t
<1>7. ASSUME NEW c \in 1 .. l - 1 PROVE t[c] = IF c < j THEN s[c] ELSE s[c + 1]
  <2>1. CASE c < j
    <3>1. c \in 1 .. j - 1
      BY <1>2, <2>1
    <3> QED BY <1>3, <1>6, <2>1, <3>1
  <2>2. CASE c >= j
    <3>1. c \in j .. l - 1 /\ c - (j - 1) \in 1 .. l - j /\ j + (c - (j - 1)) = c + 1 /\ ~(c < j)
      BY <1>2, <2>2
    <3>2. t[c] = b[c - (j - 1)] /\ b[c - (j - 1)] = s[j + (c - (j - 1))]
      BY <1>4, <1>6, <3>1
    <3> QED BY <3>1, <3>2
  <2> QED BY <1>2, <2>1, <2>2
<1> QED BY <1>1, <1>2, <1>5, <1>6, <1>7 DEF Removed

(* Inserting behind the last place is appending. *)
LEMMA InsertLast ==
  ASSUME NEW D, NEW s \in Seq(D), NEW x \in D
  PROVE  InsertAt(s, Len(s) + 1, x) = Append(s, x)
<1> DEFINE l == Len(s)
           t == InsertAt(s, l + 1, x)
           u == Append(s, x)
<1>0. l \in Nat /\ l + 1 \in 1 .. l + 1
  OBVIOUS
<1>1. t \in Seq(D) /\ Inserted(s, t, l + 1, x)
  BY <1>0, InsertIs
<1>2. u \in Seq(D) /\ Inserted(s, u, l + 1, x)
  BY AppendIs
<1> HIDE DEF t, u, l
<1>3. Len(t) = Len(s) + 1 /\ Len(u) = Len(s) + 1
  BY <1>1, <1>2 DEF Inserted
<1>4. t = [a \in 1 .. Len(s) + 1 |-> t[a]] /\ u = [a \in 1 .. Len(s) + 1 |-> u[a]]
  BY <1>1, <1>2, <1>3
<1>5. \A a \in 1 .. Len(s) + 1 : t[a] = u[a]
  BY <1>1, <1>2 DEF Inserted
<1>6. t = u
  BY <1>4, <1>5
<1> QED BY <1>6 DEF t, u, l

-----------------------------------------------------------------------------
(* Adding. *)

(* x has become the last member of p. *)
Added(r, g, Q, p, x) == r.ret = TRUE /\ Heap(r.m, Hung(g, p, x), Q \ {x}, {})

(* add_item_to_array makes the root x the last member of p. *)
LEMMA AddArray ==
  ASSUME NEW m, NEW g, NEW Q, Heap(m, g, Q, {}), NEW x \in Q, NEW p \in DOMAIN g, p \notin Under(g, {x}), ~m.at[p].ref
  PROVE  Added(add_item_to_array(m, p, x), g, Q, p, x)
<1> DEFINE r == add_item_to_array(m, p, x)
           h == Hung(g, p, x)
<1>1. PICK O : O = {}
  OBVIOUS
<1>2. IsMemory(m) /\ IsForestOf(g, Q) /\ Linked(m, g, Q, O) /\ p \notin O
  BY <1>1 DEF Heap
<1>3. r.ret = TRUE /\ SameData(m, r.m) /\ Linked(r.m, h, Q \ {x}, O) /\ IsForestOf(h, Q \ {x})
  BY <1>2, LinkAppend DEF Hung
<1>4. DOMAIN h = DOMAIN g
  BY DEF Hung
<1> HIDE DEF r, h
<1>5. Heap(r.m, h, Q \ {x}, O)
  BY <1>1, <1>3, <1>4, HeapLinks
<1> QED BY <1>1, <1>3, <1>5 DEF Added, r, h

(* add_item_to_object names x and adds it, or changes nothing. *)
LEMMA AddObject ==
  ASSUME NEW m, NEW g, NEW Q, Heap(m, g, Q, {}), NEW x \in Q, NEW p \in DOMAIN g, p \notin Under(g, {x}), ~m.at[p].ref,
         NEW name \in Keys, NEW c \in BOOLEAN
  PROVE  \/ add_item_to_object(m, p, name, x, c) = Result(m, FALSE)
         \/ Added(add_item_to_object(m, p, name, x, c), g, Q, p, x)
<1>0. IsForestOf(g, Q) /\ x \in DOMAIN g /\ x \in Under(g, {x}) /\ x # Null /\ p # x /\ p \in DOMAIN m.at
  <2>1. IsForestOf(g, Q) /\ x \in DOMAIN g /\ DOMAIN g \subseteq DOMAIN m.at /\ DOMAIN m.at \subseteq Items
    BY DEF Heap, IsForestOf, Linked, IsMemory
  <2>2. x \in Under(g, {x})
    BY <2>1, UnderOne
  <2> QED BY <2>1, <2>2, TreeAssumption
<1>1. CASE ~c /\ ~CanDup(m)
  BY <1>1 DEF add_item_to_object
<1>2. CASE ~(~c /\ ~CanDup(m))
  <2> DEFINE n == SetName(m, x, name, c)
  <2>1. add_item_to_object(m, p, name, x, c) = add_item_to_array(n, p, x)
    BY <1>0, <1>2 DEF add_item_to_object
  <2>2. Edited(m, n, x, g, Q, {})
    <3>1. PICK O : O = {}
      OBVIOUS
    <3>2. Heap(m, g, Q, O) /\ x \in DOMAIN g
      BY <1>0, <3>1
    <3> QED BY <3>1, <3>2, SetNameEdits
  <2> HIDE DEF n
  <2>3. Heap(n, g, Q, {}) /\ ~n.at[p].ref
    BY <1>0, <2>2 DEF Edited
  <2>4. Added(add_item_to_array(n, p, x), g, Q, p, x)
    BY <2>3, AddArray
  <2> QED BY <2>1, <2>4
<1> QED BY <1>1, <1>2

(* A root has been added. *)
LEMMA AddedMoves ==
  ASSUME NEW k, NEW R, IsForestOf(k, R), NEW x \in R, NEW p \in DOMAIN k, p \notin Under(k, {x})
  PROVE  Moves(k, R, Hung(k, p, x), R \ {x})
<1>1. k[p] \in Seq(DOMAIN k) /\ Len(k[p]) \in Nat /\ x \in DOMAIN k
  BY ForestFacts DEF IsForestOf
<1>2. Append(k[p], x) = InsertAt(k[p], Len(k[p]) + 1, x)
  BY <1>1, InsertLast
<1>3. Len(k[p]) + 1 \in 1 .. Len(k[p]) + 1
  BY <1>1
<1>4. Hung(k, p, x) = Relist(k, p, InsertAt(k[p], Len(k[p]) + 1, x))
  BY <1>2 DEF Hung, Relist
<1>5. Placed(k, R, Hung(k, p, x), R \ {x})
  BY <1>3, <1>4 DEF Placed
<1> QED BY <1>5 DEF Moves

(* Adding x is a move of the forest. *)
LEMMA AddedOutcome ==
  ASSUME NEW r, NEW k, NEW R, IsForestOf(k, R), NEW x \in R, NEW p \in DOMAIN k, p \notin Under(k, {x}),
         Added(r, k, R, p, x)
  PROVE  Outcome(r.m, R \ {x}, k, R)
BY AddedMoves DEF Added, Outcome

(* A new item has been added. *)
LEMMA NewAddedOutcome ==
  ASSUME NEW k, NEW R, IsForestOf(k, R), NEW i \in Items \ DOMAIN k, NEW p \in DOMAIN k, NEW r, Added(r, Grow(k, i), R \cup {i}, p, i)
  PROVE  Outcome(r.m, R, k, R)
<1>1. /\ DOMAIN Grow(k, i) = DOMAIN k \cup {i} /\ Grow(k, i)[i] = <<>>
      /\ \A j \in DOMAIN k : Grow(k, i)[j] = k[j]
  BY UnderNew
<1>2. PICK g : g = Grow(k, i)
  OBVIOUS
<1>3. Hung(g, p, i) = WithLast(k, p, i)
  <2>1. Hung(g, p, i) = [j \in DOMAIN g |-> IF j = p THEN Append(g[p], i) ELSE g[j]]
    <3>1. g = [j \in DOMAIN g |-> g[j]]
      BY <1>2 DEF Grow
    <3> QED BY <3>1 DEF Hung
  <2>2. \A j \in DOMAIN k \cup {i} : (IF j = p THEN Append(g[p], i) ELSE g[j])
                                       = IF j = i THEN <<>> ELSE IF j = p THEN Append(k[p], i) ELSE k[j]
    <3> TAKE j \in DOMAIN k \cup {i}
    <3>1. CASE j = i
      BY <1>1, <1>2, <3>1
    <3>2. CASE j = p
      BY <1>1, <1>2, <3>2
    <3>3. CASE j # i /\ j # p
      BY <1>1, <1>2, <3>3
    <3> QED BY <3>1, <3>2, <3>3
  <2>3. DOMAIN g = DOMAIN k \cup {i}
    BY <1>1, <1>2
  <2> QED BY <2>1, <2>2, <2>3 DEF WithLast
<1>4. (R \cup {i}) \ {i} = R
  BY DEF IsForestOf
<1>5. Heap(r.m, WithLast(k, p, i), R, {})
  BY <1>2, <1>3, <1>4 DEF Added
<1>6. Moves(k, R, WithLast(k, p, i), R)
  BY DEF Moves, NewMember
<1> QED BY <1>5, <1>6 DEF Outcome

-----------------------------------------------------------------------------
(* Detaching, deleting, inserting and replacing. *)

(* No reference from elsewhere leads into U. *)
Unborrowed(m, k, U) == \A i \in DOMAIN k \ U : m.at[i].ref => m.at[i].child \notin U

(* A member is no root, and does not stand above its parent. *)
LEMMA MemberIs ==
  ASSUME NEW k, NEW R, IsForestOf(k, R), NEW p \in DOMAIN k, NEW j \in DOMAIN k[p]
  PROVE  /\ k[p] \in Seq(DOMAIN k) /\ k[p][j] \in DOMAIN k /\ k[p][j] \notin R
         /\ p \notin Under(k, {k[p][j]}) /\ Under(k, {k[p][j]}) \subseteq DOMAIN k
<1>1. k[p] \in Seq(DOMAIN k) /\ k[p][j] \in DOMAIN k
  BY ForestFacts
<1>2. p \notin Under(k, {k[p][j]})
  BY NotBelowMember
<1>3. Under(k, {k[p][j]}) \subseteq DOMAIN k
  BY <1>1, UnderOne
<1> QED BY <1>1, <1>2, <1>3 DEF IsForestOf

(* cJSON_DetachItemViaPointer makes a member a root. *)
LEMMA DetachHeap ==
  ASSUME NEW m, NEW k, NEW R, Heap(m, k, R, {}), NEW p \in DOMAIN k, ~m.at[p].ref, NEW j \in DOMAIN k[p]
  PROVE  /\ Heap(cJSON_DetachItemViaPointer(m, p, k[p][j]), Relist(k, p, RemoveAt(k[p], j)), R \cup {k[p][j]}, {})
         /\ SameData(m, cJSON_DetachItemViaPointer(m, p, k[p][j]))
<1>1. PICK O : O = {}
  OBVIOUS
<1>2. IsMemory(m) /\ IsForestOf(k, R) /\ Linked(m, k, R, O) /\ Heap(m, k, R, O) /\ p \notin O
  BY <1>1 DEF Heap
<1>3. k[p] \in Seq(DOMAIN k)
  BY <1>2, MemberIs
<1>4. PICK t : t = RemoveAt(k[p], j)
  OBVIOUS
<1>5. t \in Seq(DOMAIN k) /\ Removed(k[p], t, j)
  BY <1>3, <1>4, RemoveIs
<1> DEFINE n == cJSON_DetachItemViaPointer(m, p, k[p][j])
           h == Relist(k, p, t)
<1>6. SameData(m, n)
  BY <1>2, <1>5, LinkDetach
<1>7. Linked(n, h, R \cup {k[p][j]}, O) /\ IsForestOf(h, R \cup {k[p][j]})
  BY <1>2, <1>5, LinkDetach DEF Relist
<1>8. DOMAIN h = DOMAIN k
  BY DEF Relist
<1> HIDE DEF n, h
<1>9. Heap(n, h, R \cup {k[p][j]}, O)
  BY <1>2, <1>6, <1>7, <1>8, HeapLinks
<1> QED BY <1>1, <1>4, <1>6, <1>9 DEF n, h

(* That is a move of the forest. *)
LEMMA DetachOutcome ==
  ASSUME NEW m, NEW k, NEW R, Heap(m, k, R, {}), NEW p \in DOMAIN k, ~m.at[p].ref, NEW j \in DOMAIN k[p]
  PROVE  Outcome(cJSON_DetachItemViaPointer(m, p, k[p][j]), R \cup {k[p][j]}, k, R)
<1>1. Heap(cJSON_DetachItemViaPointer(m, p, k[p][j]), Relist(k, p, RemoveAt(k[p], j)), R \cup {k[p][j]}, {})
  BY DetachHeap
<1>2. Moves(k, R, Relist(k, p, RemoveAt(k[p], j)), R \cup {k[p][j]})
  BY DEF Moves, Taken
<1> QED BY <1>1, <1>2 DEF Outcome

(* The items that a member stands above are not changed by taking it out. *)
LEMMA UnderApart ==
  ASSUME NEW k, NEW R, IsForestOf(k, R), NEW p \in DOMAIN k, NEW j \in DOMAIN k[p],
         NEW t, NEW Q, IsForestOf(Relist(k, p, t), Q)
  PROVE  Under(Relist(k, p, t), {k[p][j]}) = Under(k, {k[p][j]})
<1> DEFINE g == Relist(k, p, t)
           x == k[p][j]
<1>1. x \in DOMAIN k /\ p \notin Under(k, {x}) /\ Under(k, {x}) \subseteq DOMAIN k
  BY MemberIs
<1>2. DOMAIN g = DOMAIN k /\ \A i \in DOMAIN k : i # p => g[i] = k[i]
  BY DEF Relist
<1> HIDE DEF g, x
<1>3. \A i \in Under(k, {x}) : g[i] = k[i]
  BY <1>1, <1>2
<1>4. IsForestOf(g, Q)
  BY DEF g
<1>5. Under(g, {x}) = Under(k, {x})
  BY <1>1, <1>2, <1>3, <1>4, UnderSame
<1> QED BY <1>5 DEF g, x

(* A root of n, which was a member in m, goes. *)
LEMMA MemberDelete ==
  ASSUME NEW m, NEW n, NEW k, NEW R, Heap(m, k, R, {}), NEW p \in DOMAIN k, NEW j \in DOMAIN k[p],
         NEW h, NEW Q, Heap(n, h, Q, {}), SameData(m, n), k[p][j] \in Q, DOMAIN h = DOMAIN k,
         Under(h, {k[p][j]}) = Under(k, {k[p][j]}), Unborrowed(m, k, Under(k, {k[p][j]}))
  PROVE  Heap(cJSON_Delete(n, k[p][j]), Without(h, Under(k, {k[p][j]})), Q \ {k[p][j]}, {})
<1>1. PICK x, U, O : x = k[p][j] /\ U = Under(k, {x}) /\ O = {}
  OBVIOUS
<1>2. Heap(n, h, Q, O) /\ x \in Q /\ U = Under(h, {x}) /\ Unborrowed(m, k, U)
  BY <1>1
<1>3. ASSUME NEW i \in DOMAIN h \ U, n.at[i].ref PROVE n.at[i].child \notin U
  <2>1. i \in DOMAIN k \ U /\ i \in DOMAIN m.at
    BY <1>3 DEF Heap, Linked
  <2>2. m.at[i].ref /\ n.at[i].child = m.at[i].child
    BY <1>3, <2>1 DEF SameData
  <2> QED BY <1>2, <2>1, <2>2 DEF Unborrowed
<1>4. \A i \in DOMAIN h \ Under(h, {x}) : n.at[i].ref => n.at[i].child \notin Under(h, {x})
  BY <1>2, <1>3
<1>5. Heap(cJSON_Delete(n, x), Without(h, Under(h, {x})), Q \ {x}, O)
  BY <1>2, <1>4, HeapDelete
<1> QED BY <1>1, <1>2, <1>5

(* Detaching a member and deleting it is one move. *)
LEMMA DeleteMemberOutcome ==
  ASSUME NEW m, NEW k, NEW R, Heap(m, k, R, {}), NEW p \in DOMAIN k, ~m.at[p].ref, NEW j \in DOMAIN k[p],
         Unborrowed(m, k, Under(k, {k[p][j]}))
  PROVE  Outcome(cJSON_Delete(cJSON_DetachItemViaPointer(m, p, k[p][j]), k[p][j]), R, k, R)
<1>1. PICK x, n, t : x = k[p][j] /\ n = cJSON_DetachItemViaPointer(m, p, k[p][j]) /\ t = RemoveAt(k[p], j)
  OBVIOUS
<1>2. PICK h, Q : h = Relist(k, p, t) /\ Q = R \cup {x}
  OBVIOUS
<1>3. Heap(n, h, Q, {}) /\ SameData(m, n)
  BY <1>1, <1>2, DetachHeap
<1>4. IsForestOf(k, R) /\ IsForestOf(Relist(k, p, t), Q)
  BY <1>2, <1>3 DEF Heap
<1>5. x \in DOMAIN k /\ x \notin R
  BY <1>1, <1>4, MemberIs
<1>6. Under(h, {k[p][j]}) = Under(k, {k[p][j]})
  BY <1>2, <1>4, UnderApart
<1>7. DOMAIN h = DOMAIN k /\ k[p][j] \in Q
  BY <1>1, <1>2 DEF Relist
<1>8. Heap(cJSON_Delete(n, k[p][j]), Without(h, Under(k, {k[p][j]})), Q \ {k[p][j]}, {})
  BY <1>3, <1>6, <1>7, MemberDelete
<1>9. Q \ {k[p][j]} = R
  BY <1>1, <1>2, <1>5
<1>10. Dropped(k, R, Without(h, Under(k, {k[p][j]})), R)
  BY <1>1, <1>2 DEF Dropped
<1>11. Moves(k, R, Without(h, Under(k, {k[p][j]})), R)
  BY <1>10 DEF Moves
<1>12. Heap(cJSON_Delete(n, k[p][j]), Without(h, Under(k, {k[p][j]})), R, {})
  BY <1>8, <1>9
<1> QED BY <1>1, <1>11, <1>12 DEF Outcome

(* So is deleting a root. *)
LEMMA DeleteRootOutcome ==
  ASSUME NEW m, NEW k, NEW R, Heap(m, k, R, {}), NEW x \in R, Unborrowed(m, k, Under(k, {x}))
  PROVE  Outcome(cJSON_Delete(m, x), R \ {x}, k, R)
<1>1. PICK O : O = {}
  OBVIOUS
<1>2. Heap(m, k, R, O) /\ \A i \in DOMAIN k \ Under(k, {x}) : m.at[i].ref => m.at[i].child \notin Under(k, {x})
  BY <1>1 DEF Unborrowed
<1>3. Heap(cJSON_Delete(m, x), Without(k, Under(k, {x})), R \ {x}, O)
  BY <1>2, HeapDelete
<1>4. Moves(k, R, Without(k, Under(k, {x})), R \ {x})
  BY DEF Moves, Dropped
<1> QED BY <1>1, <1>3, <1>4 DEF Outcome

(* cJSON_InsertItemInArray puts x before the member it finds, or at the    *)
(* end.                                                                    *)
LEMMA InsertOutcome ==
  ASSUME NEW m, NEW k, NEW R, Heap(m, k, R, {}), NEW p \in DOMAIN k, ~m.at[p].ref,
         NEW x \in R, p \notin Under(k, {x}), NEW w \in Nat
  PROVE  cJSON_InsertItemInArray(m, p, w, x).ret = TRUE /\ Outcome(cJSON_InsertItemInArray(m, p, w, x).m, R \ {x}, k, R)
<1>1. PICK O : O = {}
  OBVIOUS
<1>2. IsMemory(m) /\ IsForestOf(k, R) /\ Linked(m, k, R, O) /\ Heap(m, k, R, O) /\ p \notin O
  BY <1>1 DEF Heap
<1>3. \/ get_array_item(m, p, w) = Null
      \/ w + 1 \in DOMAIN k[p] /\ get_array_item(m, p, w) = k[p][w + 1]
  BY <1>2, Found
<1>4. CASE get_array_item(m, p, w) = Null
  <2>1. cJSON_InsertItemInArray(m, p, w, x) = add_item_to_array(m, p, x)
    BY <1>4 DEF cJSON_InsertItemInArray
  <2>2. Added(add_item_to_array(m, p, x), k, R, p, x)
    BY AddArray
  <2>3. Outcome(add_item_to_array(m, p, x).m, R \ {x}, k, R)
    BY <1>2, <2>2, AddedOutcome
  <2> QED BY <2>1, <2>2, <2>3 DEF Added
<1>5. CASE w + 1 \in DOMAIN k[p] /\ get_array_item(m, p, w) = k[p][w + 1]
  <2>1. PICK j : j = w + 1
    OBVIOUS
  <2>2. j \in DOMAIN k[p] /\ get_array_item(m, p, w) = k[p][j]
    BY <1>5, <2>1
  <2>3. k[p] \in Seq(DOMAIN k) /\ x \in DOMAIN k /\ j \in 1 .. Len(k[p]) + 1
    <3>1. k[p] \in Seq(DOMAIN k) /\ Len(k[p]) \in Nat /\ DOMAIN k[p] = 1 .. Len(k[p]) /\ x \in DOMAIN k
      BY <1>2, ForestFacts DEF IsForestOf
    <3> QED BY <2>2, <3>1
  <2>4. PICK t : t = InsertAt(k[p], j, x)
    OBVIOUS
  <2>5. t \in Seq(DOMAIN k) /\ Inserted(k[p], t, j, x)
    BY <2>3, <2>4, InsertIs
  <2>6. PICK r : r = cJSON_InsertItemInArray(m, p, w, x)
    OBVIOUS
  <2>7. r.ret = TRUE /\ SameData(m, r.m)
    BY <1>2, <2>2, <2>5, <2>6, LinkInsert
  <2>8. Linked(r.m, Relist(k, p, t), R \ {x}, O) /\ IsForestOf(Relist(k, p, t), R \ {x})
    <3>1. Linked(r.m, Relist(k, p, t), R \ {x}, O)
      BY <1>2, <2>2, <2>5, <2>6, LinkInsert DEF Relist
    <3>2. IsForestOf(Relist(k, p, t), R \ {x})
      BY <1>2, <2>2, <2>5, ForestInsert DEF Relist
    <3> QED BY <3>1, <3>2
  <2>9. DOMAIN Relist(k, p, t) = DOMAIN k
    BY DEF Relist
  <2>10. Heap(r.m, Relist(k, p, t), R \ {x}, O)
    BY <1>2, <2>7, <2>8, <2>9, HeapLinks
  <2>11. Placed(k, R, Relist(k, p, t), R \ {x})
    BY <2>3, <2>4 DEF Placed
  <2>12. Outcome(r.m, R \ {x}, k, R)
    BY <1>1, <2>10, <2>11 DEF Outcome, Moves
  <2> QED BY <2>6, <2>7, <2>12
<1> QED BY <1>3, <1>4, <1>5

(* cJSON_ReplaceItemViaPointer puts x in the place of a member and deletes *)
(* that.                                                                   *)
LEMMA ReplaceOutcome ==
  ASSUME NEW m, NEW k, NEW R, Heap(m, k, R, {}), NEW p \in DOMAIN k, ~m.at[p].ref,
         NEW x \in R, p \notin Under(k, {x}), NEW j \in DOMAIN k[p], Unborrowed(m, k, Under(k, {k[p][j]}))
  PROVE  /\ cJSON_ReplaceItemViaPointer(m, p, k[p][j], x).ret = TRUE
         /\ Outcome(cJSON_ReplaceItemViaPointer(m, p, k[p][j], x).m, R \ {x}, k, R)
<1>1. PICK O : O = {}
  OBVIOUS
<1>2. IsMemory(m) /\ IsForestOf(k, R) /\ Linked(m, k, R, O) /\ Heap(m, k, R, O) /\ p \notin O
  BY <1>1 DEF Heap
<1>3. PICK old, Q : old = k[p][j] /\ Q = (R \ {x}) \cup {k[p][j]}
  OBVIOUS
<1> DEFINE h == Exchange(k, p, j, x)
<1>4. PICK n : /\ cJSON_ReplaceItemViaPointer(m, p, k[p][j], x) = Result(cJSON_Delete(n, k[p][j]), TRUE)
               /\ SameData(m, n) /\ Linked(n, h, Q, O) /\ IsForestOf(h, Q)
  BY <1>2, <1>3, LinkReplace DEF Exchange, Relist
<1>5. DOMAIN h = DOMAIN k
  BY DEF Exchange, Relist
<1>6. Under(h, {k[p][j]}) = Under(k, {k[p][j]})
  <2>1. PICK t : h = Relist(k, p, t)
    BY DEF Exchange
  <2> HIDE DEF h
  <2>2. IsForestOf(Relist(k, p, t), Q)
    BY <1>4, <2>1
  <2>3. Under(Relist(k, p, t), {k[p][j]}) = Under(k, {k[p][j]})
    BY <1>2, <2>2, UnderApart
  <2> QED BY <2>1, <2>3
<1> HIDE DEF h
<1>7. Heap(n, h, Q, O)
  BY <1>2, <1>4, <1>5, HeapLinks
<1>8. old \notin R /\ k[p][j] \in Q
  BY <1>2, <1>3, MemberIs
<1>9. Heap(n, h, Q, {})
  BY <1>1, <1>7
<1>10. Heap(cJSON_Delete(n, k[p][j]), Without(h, Under(k, {k[p][j]})), Q \ {k[p][j]}, {})
  BY <1>4, <1>5, <1>6, <1>8, <1>9, MemberDelete
<1>11. Q \ {k[p][j]} = R \ {x}
  BY <1>3, <1>8
<1>12. Heap(cJSON_Delete(n, k[p][j]), Without(h, Under(k, {k[p][j]})), R \ {x}, {})
  BY <1>10, <1>11
<1>13. Swapped(k, R, Without(h, Under(k, {k[p][j]})), R \ {x})
  BY DEF Swapped, h
<1>14. Moves(k, R, Without(h, Under(k, {k[p][j]})), R \ {x})
  BY <1>13 DEF Moves
<1>15. Outcome(cJSON_Delete(n, k[p][j]), R \ {x}, k, R)
  BY <1>12, <1>14 DEF Outcome
<1>16. cJSON_ReplaceItemViaPointer(m, p, k[p][j], x).ret = TRUE /\ cJSON_ReplaceItemViaPointer(m, p, k[p][j], x).m = cJSON_Delete(n, k[p][j])
  BY <1>4 DEF Result
<1> QED BY <1>15, <1>16

-----------------------------------------------------------------------------
(* The calls of the application. *)

(* What the actions take for the items in use and for trees is the forest. *)
LEMMA LiveIs ==
  ASSUME NEW k, Heap(mem, k, held, {})
  PROVE  /\ Live = DOMAIN k /\ \A x \in DOMAIN k : Tree(mem, x) = Under(k, {x})
         /\ IsForestOf(k, held) /\ IsMemory(mem) /\ held \subseteq DOMAIN k
         /\ DOMAIN k \subseteq DOMAIN mem.at /\ DOMAIN k \subseteq Items /\ Null \notin DOMAIN k
<1>1. PICK O : O = {}
  OBVIOUS
<1>2. IsMemory(mem) /\ IsForestOf(k, held) /\ Linked(mem, k, held, O)
  BY <1>1 DEF Heap
<1>3. UNION {Tree(mem, i) : i \in held} = DOMAIN k
  BY <1>2, TreesAre
<1>4. \A x \in DOMAIN k : Tree(mem, x) = Under(k, {x})
  BY <1>2, TreeIs
<1>5. DOMAIN k \subseteq DOMAIN mem.at /\ DOMAIN mem.at \subseteq Items /\ held \subseteq DOMAIN k
  BY <1>2 DEF Linked, IsMemory, IsForestOf
<1> QED BY <1>2, <1>3, <1>4, <1>5, TreeAssumption DEF Live

(* What a reference would show. *)
LEMMA ChildInside ==
  ASSUME NEW k, Heap(mem, k, held, {}), NEW x \in DOMAIN k
  PROVE  mem.at[x].child \in DOMAIN k \cup {Null}
<1>1. PICK O : O = {}
  OBVIOUS
<1>2. IsForestOf(k, held) /\ Linked(mem, k, held, O)
  BY <1>1 DEF Heap
<1>3. CASE mem.at[x].ref
  BY <1>3 DEF Heap
<1>4. CASE ~mem.at[x].ref
  BY <1>2, <1>4, LinksInside
<1> QED BY <1>3, <1>4

(* The application deletes no tree that a reference shows items of. *)
LEMMA MayDeleteIs ==
  ASSUME NEW k, Heap(mem, k, held, {}), NEW x \in DOMAIN k, MayDelete(x)
  PROVE  Unborrowed(mem, k, Under(k, {x}))
<1>1. Live = DOMAIN k /\ Tree(mem, x) = Under(k, {x}) /\ DOMAIN k \subseteq DOMAIN mem.at /\ Null \notin DOMAIN k
  BY LiveIs
<1> DEFINE U == Under(k, {x})
<1>2. U \cap Borrowed(U) = {}
  BY <1>1 DEF MayDelete
<1>3. U \subseteq DOMAIN k
  BY LiveIs, UnderOne
<1> HIDE DEF U
<1>4. ASSUME NEW r \in DOMAIN k \ U, mem.at[r].ref, mem.at[r].child \in U PROVE FALSE
  <2>1. PICK c : c = mem.at[r].child
    OBVIOUS
  <2>2. c \in U /\ c \in DOMAIN mem.at /\ c # Null
    BY <1>1, <1>3, <1>4, <2>1
  <2>3. c \in From(mem, c)
    BY <2>2 DEF From
  <2>4. r \in {i \in Live \ U : mem.at[i].ref}
    BY <1>1, <1>4
  <2>5. c \in Borrowed(U)
    BY <2>1, <2>3, <2>4 DEF Borrowed
  <2> QED BY <1>2, <2>2, <2>5
<1> QED BY <1>4 DEF Unborrowed, U

(* The application adds to containers that own their members, never an     *)
(* item below itself.                                                      *)
LEMMA MayAddIs ==
  ASSUME NEW k, Heap(mem, k, held, {}), NEW p \in DOMAIN k, NEW x \in DOMAIN k, MayAdd(p, x)
  PROVE  ~mem.at[p].ref /\ p \notin Under(k, {x})
BY LiveIs DEF MayAdd, MayChange

(* What the application creates has a type and a value of the model. *)
LEMMA KindsAre ==
  /\ \A t \in Kinds : t[1] \in ItemTypes /\ t[2] \in Nat /\ (t[1] \in {"string", "raw"} => t[2] # Null)
  /\ Scalars \subseteq Kinds
<1>1. ASSUME NEW t \in Scalars
      PROVE  t[1] \in ItemTypes /\ t[2] \in Nat /\ (t[1] \in {"string", "raw"} => t[2] # Null)
  <2>1. t[1] \in Types /\ t[2] \in Vals
    BY DEF Scalars
  <2> QED BY <2>1, TreeAssumption DEF ItemTypes, Null
<1>2. ASSUME NEW t \in (Types \cap {"array", "object", "null"}) \X {0}
      PROVE  t[1] \in ItemTypes /\ t[2] \in Nat /\ (t[1] \in {"string", "raw"} => t[2] # Null)
  <2>1. t[1] \in {"array", "object", "null"} /\ t[2] = 0
    OBVIOUS
  <2> QED BY <2>1 DEF ItemTypes
<1> QED BY <1>1, <1>2 DEF Kinds

(* The application receives a new tree, or nothing. *)
LEMMA ReceiveMade ==
  ASSUME NEW k, Heap(mem, k, held, {}), NEW r, Made(r, k, held), Receive(r)
  PROVE  Outcome(mem', held', k, held)
<1>1. Outcome(r.m, held \cup ({r.ret} \ {Null}), k, held)
  BY LiveIs, MadeOutcome
<1> QED BY <1>1 DEF Receive, Become

(* One lemma for every action: from a forest, it ends in a memory that     *)
(* holds a forest one move away.                                           *)
LEMMA CreateItemMoves ==
  ASSUME NEW k, Heap(mem, k, held, {}), CreateItem
  PROVE  Outcome(mem', held', k, held)
<1>1. PICK t \in Kinds : Receive(Create(mem, t[1], t[2]))
  BY DEF CreateItem
<1>2. NewPlain(mem, Create(mem, t[1], t[2]))
  BY LiveIs, KindsAre, CreateIs
<1>3. Made(Create(mem, t[1], t[2]), k, held)
  BY <1>2, PlainMade
<1> QED BY <1>1, <1>3, ReceiveMade

LEMMA CreateArrayMoves ==
  ASSUME NEW k, Heap(mem, k, held, {}), CreateArray
  PROVE  Outcome(mem', held', k, held)
<1>1. PICK t \in Scalars, n \in 0 .. 2 : Receive(CreateFilledArray(mem, t[1], t[2], n))
  BY DEF CreateArray
<1>2. t[1] \in ItemTypes /\ t[2] \in Nat /\ (t[1] \in {"string", "raw"} => t[2] # Null) /\ n \in Nat
  BY KindsAre
<1>3. Made(CreateFilledArray(mem, t[1], t[2], n), k, held)
  BY <1>2, FilledMade
<1> QED BY <1>1, <1>3, ReceiveMade

LEMMA CreateReferenceMoves ==
  ASSUME NEW k, Heap(mem, k, held, {}), CreateReference
  PROVE  Outcome(mem', held', k, held)
<1>1. PICK r, c : Receive(r) /\ NewRef(mem, r, c) /\ c \in DOMAIN k \cup {Null}
  <2>1. CASE \E v \in Vals : Receive(cJSON_CreateStringReference(mem, v))
    <3>1. PICK v \in Vals : Receive(cJSON_CreateStringReference(mem, v))
      BY <2>1
    <3>2. v \in Nat /\ v # Null
      BY TreeAssumption DEF Null
    <3>3. NewRef(mem, cJSON_CreateStringReference(mem, v), Null)
      BY <3>2, LiveIs, StringReferenceIs
    <3> QED BY <3>1, <3>3
  <2>2. CASE \E p \in Live : Container(p) /\ Receive(cJSON_CreateArrayReference(mem, mem.at[p].child))
    <3>1. PICK p \in DOMAIN k : Receive(cJSON_CreateArrayReference(mem, mem.at[p].child))
      BY <2>2, LiveIs
    <3>2. mem.at[p].child \in DOMAIN k \cup {Null}
      BY ChildInside
    <3>3. mem.at[p].child \in Pointer
      BY <3>2, LiveIs DEF Pointer
    <3>4. NewRef(mem, cJSON_CreateArrayReference(mem, mem.at[p].child), mem.at[p].child)
      BY <3>3, LiveIs, ArrayReferenceIs
    <3> QED BY <3>1, <3>2, <3>4
  <2> QED BY <2>1, <2>2 DEF CreateReference
<1>2. Outcome(r.m, held \cup ({r.ret} \ {Null}), k, held)
  BY <1>1, ReferenceOutcome
<1> QED BY <1>1, <1>2 DEF Receive, Become

LEMMA AddItemToArrayMoves ==
  ASSUME NEW k, Heap(mem, k, held, {}), AddItemToArray
  PROVE  Outcome(mem', held', k, held)
<1>1. PICK p \in DOMAIN k, x \in held : MayAdd(p, x) /\ GiveUp(add_item_to_array(mem, p, x), x)
  BY LiveIs DEF AddItemToArray
<1>2. x \in DOMAIN k /\ ~mem.at[p].ref /\ p \notin Under(k, {x})
  BY <1>1, LiveIs, MayAddIs
<1>3. Added(add_item_to_array(mem, p, x), k, held, p, x)
  BY <1>2, AddArray
<1>4. Outcome(add_item_to_array(mem, p, x).m, held \ {x}, k, held)
  BY <1>2, <1>3, LiveIs, AddedOutcome
<1> QED BY <1>1, <1>3, <1>4 DEF GiveUp, Become, Added

LEMMA AddItemToObjectMoves ==
  ASSUME NEW k, Heap(mem, k, held, {}), AddItemToObject
  PROVE  Outcome(mem', held', k, held)
<1>1. PICK p \in DOMAIN k, x \in held, name \in Keys, c \in BOOLEAN :
        MayAdd(p, x) /\ GiveUp(add_item_to_object(mem, p, name, x, c), x)
  BY LiveIs DEF AddItemToObject
<1>2. x \in DOMAIN k /\ ~mem.at[p].ref /\ p \notin Under(k, {x})
  BY <1>1, LiveIs, MayAddIs
<1>3. \/ add_item_to_object(mem, p, name, x, c) = Result(mem, FALSE)
      \/ Added(add_item_to_object(mem, p, name, x, c), k, held, p, x)
  BY <1>2, AddObject
<1>4. CASE add_item_to_object(mem, p, name, x, c) = Result(mem, FALSE)
  <2>1. mem' = mem /\ held' = held
    BY <1>1, <1>4 DEF GiveUp, Become, Result
  <2> QED BY <2>1, Stays
<1>5. CASE Added(add_item_to_object(mem, p, name, x, c), k, held, p, x)
  <2>1. Outcome(add_item_to_object(mem, p, name, x, c).m, held \ {x}, k, held)
    BY <1>2, <1>5, LiveIs, AddedOutcome
  <2> QED BY <1>1, <1>5, <2>1 DEF GiveUp, Become, Added
<1> QED BY <1>3, <1>4, <1>5

-----------------------------------------------------------------------------
(* A new item i, and nothing else, stands alone in n and is added to p. *)

LEMMA AddFresh ==
  ASSUME NEW n, NEW k, NEW R, IsForestOf(k, R), NEW i \in Items \ DOMAIN k,
         Heap(n, Grow(k, i), R \cup {i}, {}), NEW p \in DOMAIN k, ~n.at[p].ref
  PROVE  /\ Outcome(add_item_to_array(n, p, i).m, R, k, R)
         /\ \A name \in Keys, c \in BOOLEAN :
              \/ add_item_to_object(n, p, name, i, c) = Result(n, FALSE)
              \/ add_item_to_object(n, p, name, i, c).ret = TRUE /\ Outcome(add_item_to_object(n, p, name, i, c).m, R, k, R)
<1>1. PICK g, Q : g = Grow(k, i) /\ Q = R \cup {i}
  OBVIOUS
<1>2. Under(Grow(k, i), {i}) = {i} /\ DOMAIN Grow(k, i) = DOMAIN k \cup {i}
  BY UnderNew
<1>3. Heap(n, g, Q, {}) /\ i \in Q /\ p \in DOMAIN g /\ p \notin Under(g, {i})
  BY <1>1, <1>2
<1>4. Added(add_item_to_array(n, p, i), g, Q, p, i)
  BY <1>3, AddArray
<1>5. Outcome(add_item_to_array(n, p, i).m, R, k, R)
  BY <1>1, <1>4, NewAddedOutcome
<1>6. ASSUME NEW name \in Keys, NEW c \in BOOLEAN, add_item_to_object(n, p, name, i, c) # Result(n, FALSE)
      PROVE  add_item_to_object(n, p, name, i, c).ret = TRUE /\ Outcome(add_item_to_object(n, p, name, i, c).m, R, k, R)
  <2>1. Added(add_item_to_object(n, p, name, i, c), g, Q, p, i)
    BY <1>3, <1>6, AddObject
  <2>2. Added(add_item_to_object(n, p, name, i, c), Grow(k, i), R \cup {i}, p, i)
    BY <1>1, <2>1
  <2>3. Outcome(add_item_to_object(n, p, name, i, c).m, R, k, R)
    BY <2>2, NewAddedOutcome
  <2> QED BY <2>1, <2>3 DEF Added
<1> QED BY <1>5, <1>6

(* An item that could not be created is not added. *)
LEMMA AddNothing ==
  ASSUME NEW m, NEW p
  PROVE  /\ add_item_to_array(m, p, Null) = Result(m, FALSE)
         /\ \A name, c : add_item_to_object(m, p, name, Null, c) = Result(m, FALSE)
BY DEF add_item_to_array, add_item_to_object

(* The reference is added, or without room for its name it is lost. *)
LEMMA AddItemReferenceMoves ==
  ASSUME NEW k, Heap(mem, k, held, {}), AddItemReference
  PROVE  Outcome(mem', held', k, held)
<1> DEFINE After(r, p, name) == (IF name = Null THEN add_item_to_array(r.m, p, r.ret)
                                 ELSE add_item_to_object(r.m, p, name, r.ret, FALSE)).m
<1>1. PICK p, x \in DOMAIN k, name \in Keys \cup {Null} :
        MayAdd(p, x) /\ Become(After(create_reference(mem, x), p, name), held)
  BY LiveIs DEF AddItemReference
<1>2. PICK r : r = create_reference(mem, x)
  OBVIOUS
<1>3. mem' = After(r, p, name) /\ held' = held
  BY <1>1, <1>2 DEF Become
<1>4. ~mem.at[p].ref /\ x \in DOMAIN mem.at /\ p \in DOMAIN mem.at /\ mem.at[x].child \in DOMAIN k \cup {Null}
  BY <1>1, LiveIs, MayAddIs, ChildInside
<1>5. DataFits(mem.at[x])
  BY <1>4 DEF Heap
<1>6. NewRef(mem, r, mem.at[x].child)
  BY <1>2, <1>4, <1>5, LiveIs, ReferenceIs
<1>7. CASE r.ret = Null
  <2>1. r.m = mem
    BY <1>6, <1>7 DEF NewRef
  <2>2. mem' = mem
    <3>0. PICK c \in BOOLEAN : c = FALSE
      OBVIOUS
    <3>1. add_item_to_array(mem, p, Null).m = mem /\ add_item_to_object(mem, p, name, Null, c).m = mem
      <4>1. add_item_to_array(mem, p, Null) = Result(mem, FALSE) /\ add_item_to_object(mem, p, name, Null, c) = Result(mem, FALSE)
        BY AddNothing
      <4>2. Result(mem, FALSE).m = mem
        BY DEF Result
      <4> QED BY <4>1, <4>2
    <3>2. CASE name = Null
      BY <1>3, <1>7, <2>1, <3>1, <3>2
    <3>3. CASE name # Null
      BY <1>3, <1>7, <2>1, <3>0, <3>1, <3>3
    <3> QED BY <3>2, <3>3
  <2> QED BY <1>3, <2>2, Stays
<1>8. CASE r.ret # Null
  <2>1. PICK i : i = r.ret
    OBVIOUS
  <2>2. i \in Items \ DOMAIN k /\ Heap(r.m, k, held, {}) /\ Heap(r.m, Grow(k, i), held \cup {i}, {})
    BY <1>4, <1>6, <1>8, <2>1, ReferenceOutcome
  <2>3. ~r.m.at[p].ref
    BY <1>4, <1>6, <1>8 DEF NewRef, Fresh
  <2>4. IsForestOf(k, held)
    BY LiveIs
  <2>5. CASE name = Null
    <3>1. Outcome(add_item_to_array(r.m, p, i).m, held, k, held)
      BY <2>2, <2>3, <2>4, AddFresh
    <3> QED BY <1>3, <2>1, <2>5, <3>1
  <2>6. CASE name # Null
    <3>0. PICK c \in BOOLEAN : c = FALSE
      OBVIOUS
    <3>1. mem' = add_item_to_object(r.m, p, name, i, c).m /\ name \in Keys
      BY <1>3, <2>1, <2>6, <3>0
    <3>2. \/ add_item_to_object(r.m, p, name, i, c) = Result(r.m, FALSE)
          \/ Outcome(add_item_to_object(r.m, p, name, i, c).m, held, k, held)
      BY <2>2, <2>3, <2>4, <3>1, AddFresh
    <3>3. CASE add_item_to_object(r.m, p, name, i, c) = Result(r.m, FALSE)
      <4>1. mem' = r.m
        BY <3>1, <3>3 DEF Result
      <4> QED BY <1>3, <2>2, <4>1, Stays
    <3> QED BY <1>3, <3>1, <3>2, <3>3
  <2> QED BY <2>5, <2>6
<1> QED BY <1>7, <1>8

(* The new item is added, or deleted again. *)
LEMMA AddNewMoves ==
  ASSUME NEW k, Heap(mem, k, held, {}), AddNew
  PROVE  Outcome(mem', held', k, held)
<1>1. PICK p \in DOMAIN k, name \in Keys, t \in Kinds :
        MayChange(p) /\ Become(AddNewToObject(mem, p, name, t[1], t[2]), held)
  BY LiveIs DEF AddNew
<1>2. PICK n : n = Create(mem, t[1], t[2])
  OBVIOUS
<1>3. PICK c \in BOOLEAN : c = FALSE
  OBVIOUS
<1>4. PICK r : r = add_item_to_object(n.m, p, name, n.ret, c)
  OBVIOUS
<1>5. mem' = (IF r.ret THEN r.m ELSE cJSON_Delete(r.m, n.ret)) /\ held' = held
  BY <1>1, <1>2, <1>3, <1>4 DEF Become, AddNewToObject
<1>6. NewPlain(mem, n)
  BY <1>2, LiveIs, KindsAre, CreateIs
<1>7. ~mem.at[p].ref /\ p \in DOMAIN mem.at /\ IsForestOf(k, held)
  BY <1>1, LiveIs DEF MayChange
<1>8. CASE n.ret = Null
  <2>1. r = Result(n.m, FALSE) /\ n.m = mem
    BY <1>4, <1>6, <1>8, AddNothing DEF NewPlain
  <2>2. mem' = cJSON_Delete(mem, Null)
    BY <1>5, <1>8, <2>1 DEF Result
  <2>3. mem' = mem
    BY <2>2, DeleteNull
  <2> QED BY <1>5, <2>3, Stays
<1>9. CASE n.ret # Null
  <2>1. PICK i, O : i = n.ret /\ O = {}
    OBVIOUS
  <2>2. FreshPlain(mem, n.m, i)
    BY <1>6, <1>9, <2>1 DEF NewPlain, FreshPlain
  <2>3. Growing(mem, k, held, O, k, held)
    BY <2>1, GrownStart
  <2>4. Growing(n.m, Grow(k, i), held \cup {i}, O, k, held) /\ Grown(k, i, Grow(k, i), k)
    BY <2>2, <2>3, GrownFresh DEF Agree
  <2>5. i \in Items \ DOMAIN k /\ i \notin held
    BY <2>4, LiveIs DEF Grown
  <2>6. Heap(n.m, Grow(k, i), held \cup {i}, {})
    BY <2>1, <2>4 DEF Growing
  <2>7. ~n.m.at[p].ref
    BY <1>7, <2>2 DEF FreshPlain, Fresh
  <2>8. \/ r = Result(n.m, FALSE)
        \/ r.ret = TRUE /\ Outcome(r.m, held, k, held)
    BY <1>4, <1>7, <2>1, <2>5, <2>6, <2>7, AddFresh
  <2>9. CASE r = Result(n.m, FALSE)
    <3>1. mem' = cJSON_Delete(n.m, i)
      BY <1>5, <2>1, <2>9 DEF Result
    <3>2. PICK Q : Q = held \cup {i}
      OBVIOUS
    <3>3. PICK h : Growing(cJSON_Delete(n.m, i), h, Q \ {i}, O \ {i}, k, held)
      <4>1. Growing(n.m, Grow(k, i), Q, O, k, held) /\ i \in Q /\ i \notin DOMAIN k
        BY <2>4, <2>5, <3>2
      <4> QED BY <4>1, GrownDelete
    <3>4. Q \ {i} = held /\ O \ {i} = {}
      BY <2>1, <2>5, <3>2
    <3>5. Growing(cJSON_Delete(n.m, i), h, held, {}, k, held)
      BY <3>3, <3>4
    <3>6. h = k
      <4>1. PICK P : P = {}
        OBVIOUS
      <4>2. Growing(cJSON_Delete(n.m, i), h, held, P, k, held)
        BY <3>5, <4>1
      <4> QED BY <4>2, GrownDone
    <3>7. Heap(cJSON_Delete(n.m, i), k, held, {})
      BY <3>5, <3>6 DEF Growing
    <3> QED BY <1>5, <3>1, <3>7, Stays
  <2> QED BY <1>5, <2>8, <2>9
<1> QED BY <1>8, <1>9

-----------------------------------------------------------------------------
(* The member a call names. *)

(* The walks find members, or nothing. *)
LEMMA ArrayMemberIs ==
  ASSUME NEW k, Heap(mem, k, held, {}), NEW p \in DOMAIN k, ~mem.at[p].ref
  PROVE  /\ Members(mem, p) = k[p] /\ 0 .. Len(Members(mem, p)) \subseteq Nat
         /\ \A w \in Nat : \/ get_array_item(mem, p, w) = Null
                           \/ \E j \in DOMAIN k[p] : get_array_item(mem, p, w) = k[p][j]
         /\ \A name, c : \/ get_object_item(mem, p, name, c) = Null
                         \/ \E j \in DOMAIN k[p] : get_object_item(mem, p, name, c) = k[p][j]
<1>1. PICK O : O = {}
  OBVIOUS
<1>2. IsMemory(mem) /\ IsForestOf(k, held) /\ Linked(mem, k, held, O)
  BY <1>1 DEF Heap
<1>3. Members(mem, p) = k[p]
  BY <1>2, MembersAre
<1>4. Len(k[p]) \in Nat
  BY <1>2, ForestFacts
<1>5. \A w \in Nat : \/ get_array_item(mem, p, w) = Null
                     \/ \E j \in DOMAIN k[p] : get_array_item(mem, p, w) = k[p][j]
  BY <1>2, Found
<1>6. \A name, c : \/ get_object_item(mem, p, name, c) = Null
                   \/ \E j \in DOMAIN k[p] : get_object_item(mem, p, name, c) = k[p][j]
  BY <1>2, Found
<1> QED BY <1>3, <1>4, <1>5, <1>6

(* A member that a call names is at some place of the list. *)
LEMMA NamedIs ==
  ASSUME NEW k, Heap(mem, k, held, {}), NEW p \in DOMAIN k, ~mem.at[p].ref, NEW x \in Named(mem, p) \ {Null}
  PROVE  \E j \in DOMAIN k[p] : x = k[p][j]
<1>1. CASE \E w \in 0 .. Len(Members(mem, p)) : x = get_array_item(mem, p, w)
  BY <1>1, ArrayMemberIs
<1>2. CASE \E name \in Keys, c \in BOOLEAN : x = get_object_item(mem, p, name, c)
  BY <1>2, ArrayMemberIs
<1> QED BY <1>1, <1>2 DEF Named

LEMMA DetachItemMoves ==
  ASSUME NEW k, Heap(mem, k, held, {}), DetachItem
  PROVE  Outcome(mem', held', k, held)
<1>1. PICK p, x :
        /\ p \in DOMAIN k /\ x \in Named(mem, p) \ {Null} /\ MayChange(p)
        /\ Become(cJSON_DetachItemViaPointer(mem, p, x), held \cup {x})
  BY LiveIs DEF DetachItem
<1>2. ~mem.at[p].ref
  BY <1>1 DEF MayChange
<1>3. PICK j \in DOMAIN k[p] : x = k[p][j]
  BY <1>1, <1>2, NamedIs
<1>4. Outcome(cJSON_DetachItemViaPointer(mem, p, k[p][j]), held \cup {k[p][j]}, k, held)
  BY <1>1, <1>2, <1>3, DetachOutcome
<1> QED BY <1>1, <1>3, <1>4 DEF Become

LEMMA DeleteItemMoves ==
  ASSUME NEW k, Heap(mem, k, held, {}), DeleteItem
  PROVE  Outcome(mem', held', k, held)
<1>1. PICK p, x :
        /\ p \in DOMAIN k /\ x \in Named(mem, p) \ {Null} /\ MayChange(p)
        /\ MayDelete(x) /\ Become(cJSON_Delete(cJSON_DetachItemViaPointer(mem, p, x), x), held)
  BY LiveIs DEF DeleteItem
<1>2. ~mem.at[p].ref
  BY <1>1 DEF MayChange
<1>3. PICK j \in DOMAIN k[p] : x = k[p][j]
  BY <1>1, <1>2, NamedIs
<1>4. x \in DOMAIN k
  BY <1>1, <1>3, LiveIs, MemberIs
<1>5. Unborrowed(mem, k, Under(k, {k[p][j]}))
  BY <1>1, <1>3, <1>4, MayDeleteIs
<1>6. Outcome(cJSON_Delete(cJSON_DetachItemViaPointer(mem, p, k[p][j]), k[p][j]), held, k, held)
  BY <1>1, <1>2, <1>3, <1>5, DeleteMemberOutcome
<1> QED BY <1>1, <1>3, <1>6 DEF Become

LEMMA DeleteMoves ==
  ASSUME NEW k, Heap(mem, k, held, {}), Delete
  PROVE  Outcome(mem', held', k, held)
<1>1. PICK x \in held : MayDelete(x) /\ Become(cJSON_Delete(mem, x), held \ {x})
  BY DEF Delete
<1>2. Unborrowed(mem, k, Under(k, {x}))
  BY <1>1, LiveIs, MayDeleteIs
<1>3. Outcome(cJSON_Delete(mem, x), held \ {x}, k, held)
  BY <1>2, DeleteRootOutcome
<1> QED BY <1>1, <1>3 DEF Become

-----------------------------------------------------------------------------
(* Inserting, replacing, copying and changing. *)

LEMMA InsertItemInArrayMoves ==
  ASSUME NEW k, Heap(mem, k, held, {}), InsertItemInArray
  PROVE  Outcome(mem', held', k, held)
<1>1. PICK p \in DOMAIN k, x \in held :
        MayAdd(p, x) /\ \E w \in 0 .. Len(Members(mem, p)) : GiveUp(cJSON_InsertItemInArray(mem, p, w, x), x)
  BY LiveIs DEF InsertItemInArray
<1>2. x \in DOMAIN k /\ ~mem.at[p].ref /\ p \notin Under(k, {x})
  BY <1>1, LiveIs, MayAddIs
<1>3. PICK w \in Nat : GiveUp(cJSON_InsertItemInArray(mem, p, w, x), x)
  BY <1>1, <1>2, ArrayMemberIs
<1>4. cJSON_InsertItemInArray(mem, p, w, x).ret = TRUE /\ Outcome(cJSON_InsertItemInArray(mem, p, w, x).m, held \ {x}, k, held)
  BY <1>2, InsertOutcome
<1> QED BY <1>3, <1>4 DEF GiveUp, Become

LEMMA ReplaceItemInArrayMoves ==
  ASSUME NEW k, Heap(mem, k, held, {}), ReplaceItemInArray
  PROVE  Outcome(mem', held', k, held)
<1>1. PICK p \in DOMAIN k, x \in held :
        /\ MayAdd(p, x)
        /\ \E w \in 0 .. Len(Members(mem, p)) :
             /\ MayDelete(get_array_item(mem, p, w))
             /\ GiveUp(cJSON_ReplaceItemViaPointer(mem, p, get_array_item(mem, p, w), x), x)
  BY LiveIs DEF ReplaceItemInArray
<1>2. x \in DOMAIN k /\ ~mem.at[p].ref /\ p \notin Under(k, {x})
  BY <1>1, LiveIs, MayAddIs
<1>3. PICK old : /\ MayDelete(old) /\ GiveUp(cJSON_ReplaceItemViaPointer(mem, p, old, x), x)
                 /\ old = Null \/ \E j \in DOMAIN k[p] : old = k[p][j]
  BY <1>1, <1>2, ArrayMemberIs
<1>4. CASE old = Null
  <2>1. mem' = mem /\ held' = held
    BY <1>3, <1>4 DEF GiveUp, Become, Result, cJSON_ReplaceItemViaPointer
  <2> QED BY <2>1, Stays
<1>5. CASE \E j \in DOMAIN k[p] : old = k[p][j]
  <2>1. PICK j \in DOMAIN k[p] : old = k[p][j]
    BY <1>5
  <2>2. old \in DOMAIN k
    BY <2>1, LiveIs, MemberIs
  <2>3. Unborrowed(mem, k, Under(k, {k[p][j]}))
    BY <1>3, <2>1, <2>2, MayDeleteIs
  <2>4. /\ cJSON_ReplaceItemViaPointer(mem, p, k[p][j], x).ret = TRUE
        /\ Outcome(cJSON_ReplaceItemViaPointer(mem, p, k[p][j], x).m, held \ {x}, k, held)
    BY <1>2, <2>3, ReplaceOutcome
  <2> QED BY <1>3, <2>1, <2>4 DEF GiveUp, Become
<1> QED BY <1>3, <1>4, <1>5

(* A search finds the same member where the names of the members are.      *)
LEMMA LookupSame ==
  ASSUME NEW m, NEW n, NEW o, Members(n, o) = Members(m, o),
         \A j \in DOMAIN Members(m, o) : n.at[Members(m, o)[j]].string = m.at[Members(m, o)[j]].string,
         NEW name, NEW c
  PROVE  get_object_item(n, o, name, c) = get_object_item(m, o, name, c)
<1> DEFINE s == Members(m, o)
           Stop(l, j) == IF c THEN l.at[s[j]].string \in {Null, name}
                         ELSE case_insensitive_strcmp(name, l.at[s[j]].string)
           Stops(l) == {j \in DOMAIN s : Stop(l, j)}
<1>1. Stops(n) = Stops(m)
  OBVIOUS
<1>2. /\ get_object_item(n, o, name, c) =
           IF Stops(n) = {} \/ n.at[s[Min(Stops(n))]].string = Null THEN Null ELSE s[Min(Stops(n))]
      /\ get_object_item(m, o, name, c) =
           IF Stops(m) = {} \/ m.at[s[Min(Stops(m))]].string = Null THEN Null ELSE s[Min(Stops(m))]
  BY DEF get_object_item
<1>3. Stops(m) = {} \/ Min(Stops(m)) \in DOMAIN s
  <2>1. Stops(m) \subseteq Nat
    <3>1. PICK i : s = Siblings(m, i)
      BY DEF Members
    <3>2. PICK l : DOMAIN Siblings(m, i) = 1 .. l
      BY DEF Siblings
    <3>3. 1 .. l \subseteq Nat
      OBVIOUS
    <3> HIDE DEF s
    <3> QED BY <3>1, <3>2, <3>3
  <2> HIDE DEF Stops
  <2>2. Stops(m) # {} => Min(Stops(m)) \in Stops(m)
    BY <2>1, LeastOf
  <2> QED BY <2>2 DEF Stops
<1> HIDE DEF Stops
<1> QED BY <1>1, <1>2, <1>3

(* Renaming a root leaves the lists and what their members are called.     *)
LEMMA RootRenamed ==
  ASSUME NEW m, NEW n, NEW k, NEW R, NEW x \in R, Heap(m, k, R, {}), Edited(m, n, x, k, R, {}),
         NEW p \in DOMAIN k, ~m.at[p].ref, NEW name, NEW c
  PROVE  get_object_item(n, p, name, c) = get_object_item(m, p, name, c)
<1>1. PICK O : O = {}
  OBVIOUS
<1>2. IsMemory(m) /\ IsForestOf(k, R) /\ Linked(m, k, R, O)
  BY <1>1 DEF Heap
<1>3. IsMemory(n) /\ Linked(n, k, R, O) /\ p \in DOMAIN m.at /\ ~n.at[p].ref
  BY <1>1, <1>2 DEF Edited, Heap, SameLinks, Linked
<1>4. Members(m, p) = k[p] /\ Members(n, p) = k[p]
  BY <1>2, <1>3, MembersAre
<1>5. \A j \in DOMAIN k[p] : k[p][j] \in DOMAIN m.at /\ k[p][j] # x
  <2> TAKE j \in DOMAIN k[p]
  <2>1. k[p][j] \in DOMAIN k /\ k[p][j] \notin R
    BY <1>2, MemberIs
  <2> QED BY <1>2, <2>1 DEF Linked
<1>6. \A j \in DOMAIN Members(m, p) : n.at[Members(m, p)[j]].string = m.at[Members(m, p)[j]].string
  BY <1>4, <1>5 DEF Edited
<1> QED BY <1>4, <1>6, LookupSame

(* The replacement gets its new name before the member is looked up, which *)
(* makes no difference to what is found.                                   *)
LEMMA ReplaceItemInObjectMoves ==
  ASSUME NEW k, Heap(mem, k, held, {}), ReplaceItemInObject
  PROVE  Outcome(mem', held', k, held)
<1>1. PICK p \in DOMAIN k, x \in held, name \in Keys, c \in BOOLEAN :
        /\ MayAdd(p, x) /\ MayDelete(get_object_item(mem, p, name, c))
        /\ GiveUp(replace_item_in_object(mem, p, name, x, c), x)
  BY LiveIs DEF ReplaceItemInObject
<1>2. x \in DOMAIN k /\ ~mem.at[p].ref /\ p \notin Under(k, {x}) /\ p \in DOMAIN mem.at /\ IsForestOf(k, held)
  BY <1>1, LiveIs, MayAddIs
<1>3. PICK O : O = {}
  OBVIOUS
<1>4. PICK n, l : n = Renamed(mem, x, name) /\ l = Unnamed(mem, x)
  OBVIOUS
<1>5. Edited(mem, n, x, k, held, O) /\ Edited(mem, l, x, k, held, O)
  BY <1>2, <1>3, <1>4, UnnamedEdits, RenamedEdits
<1>6. replace_item_in_object(mem, p, name, x, c) =
        IF ~CanDup(l) THEN Result(l, FALSE)
        ELSE cJSON_ReplaceItemViaPointer(n, p, get_object_item(n, p, name, c), x)
  BY <1>4 DEF replace_item_in_object, Renamed, Unnamed
<1>7. CASE ~CanDup(l)
  <2>1. mem' = l /\ held' = held
    BY <1>1, <1>6, <1>7 DEF GiveUp, Become, Result
  <2> QED BY <1>3, <1>5, <2>1, Stays DEF Edited
<1>8. CASE CanDup(l)
  <2>1. Heap(n, k, held, {}) /\ ~n.at[p].ref
    BY <1>2, <1>3, <1>5 DEF Edited, SameLinks
  <2>2. get_object_item(n, p, name, c) = get_object_item(mem, p, name, c)
    BY <1>2, <1>3, <1>5, RootRenamed
  <2>3. PICK old : old = get_object_item(mem, p, name, c)
    OBVIOUS
  <2>4. GiveUp(cJSON_ReplaceItemViaPointer(n, p, old, x), x) /\ MayDelete(old)
    BY <1>1, <1>6, <1>8, <2>2, <2>3
  <2>5. CASE old = Null
    <3>1. mem' = n /\ held' = held
      BY <2>4, <2>5 DEF GiveUp, Become, Result, cJSON_ReplaceItemViaPointer
    <3> QED BY <2>1, <3>1, Stays
  <2>6. CASE old # Null
    <3>1. PICK j \in DOMAIN k[p] : old = k[p][j]
      BY <1>2, <2>3, <2>6, ArrayMemberIs
    <3>2. old \in DOMAIN k
      BY <1>2, <3>1, MemberIs
    <3>3. Unborrowed(mem, k, Under(k, {k[p][j]}))
      BY <2>4, <3>1, <3>2, MayDeleteIs
    <3>4. Unborrowed(n, k, Under(k, {k[p][j]}))
      BY <1>5, <3>3, LiveIs DEF Unborrowed, Edited, SameLinks
    <3>5. /\ cJSON_ReplaceItemViaPointer(n, p, k[p][j], x).ret = TRUE
          /\ Outcome(cJSON_ReplaceItemViaPointer(n, p, k[p][j], x).m, held \ {x}, k, held)
      BY <1>2, <2>1, <3>4, ReplaceOutcome
    <3> QED BY <2>4, <3>1, <3>5 DEF GiveUp, Become
  <2> QED BY <2>5, <2>6
<1> QED BY <1>7, <1>8

LEMMA DuplicateMoves ==
  ASSUME NEW k, Heap(mem, k, held, {}), Duplicate
  PROVE  Outcome(mem', held', k, held)
<1>1. PICK i \in DOMAIN k, recurse \in BOOLEAN : Receive(cJSON_Duplicate(mem, i, recurse))
  BY LiveIs DEF Duplicate
<1>2. Made(cJSON_Duplicate(mem, i, recurse), k, held)
  BY CopyMade
<1> QED BY <1>1, <1>2, ReceiveMade

LEMMA SetValueMoves ==
  ASSUME NEW k, Heap(mem, k, held, {}), SetValue
  PROVE  Outcome(mem', held', k, held)
<1>1. PICK i \in DOMAIN k, v \in Vals :
        Become(IF mem.at[i].type = "number" THEN Put(mem, i, "value", v) ELSE cJSON_SetValuestring(mem, i, v), held)
  BY LiveIs DEF SetValue
<1>2. v \in Nat /\ v # Null
  BY TreeAssumption DEF Null
<1>3. PICK O : O = {}
  OBVIOUS
<1>4. mem.at[i].type = "number" => Edited(mem, Put(mem, i, "value", v), i, k, held, O)
  BY <1>2, <1>3, ValueEdits
<1>5. cJSON_SetValuestring(mem, i, v) = mem \/ Edited(mem, cJSON_SetValuestring(mem, i, v), i, k, held, O)
  BY <1>2, <1>3, TextEdits
<1>6. Heap(mem', k, held, {}) /\ held' = held
  BY <1>1, <1>3, <1>4, <1>5 DEF Become, Edited
<1> QED BY <1>6, Stays

-----------------------------------------------------------------------------
(* Every call of the application. *)
LEMMA CallMoves ==
  ASSUME NEW k, Heap(mem, k, held, {}), Call
  PROVE  Outcome(mem', held', k, held)
<1>1. CASE CreateItem
  BY <1>1, CreateItemMoves
<1>2. CASE CreateArray
  BY <1>2, CreateArrayMoves
<1>3. CASE CreateReference
  BY <1>3, CreateReferenceMoves
<1>4. CASE AddItemToArray
  BY <1>4, AddItemToArrayMoves
<1>5. CASE AddItemToObject
  BY <1>5, AddItemToObjectMoves
<1>6. CASE AddItemReference
  BY <1>6, AddItemReferenceMoves
<1>7. CASE AddNew
  BY <1>7, AddNewMoves
<1>8. CASE DetachItem
  BY <1>8, DetachItemMoves
<1>9. CASE DeleteItem
  BY <1>9, DeleteItemMoves
<1>10. CASE InsertItemInArray
  BY <1>10, InsertItemInArrayMoves
<1>11. CASE ReplaceItemInArray
  BY <1>11, ReplaceItemInArrayMoves
<1>12. CASE ReplaceItemInObject
  BY <1>12, ReplaceItemInObjectMoves
<1>13. CASE Delete
  BY <1>13, DeleteMoves
<1>14. CASE Duplicate
  BY <1>14, DuplicateMoves
<1>15. CASE SetValue
  BY <1>15, SetValueMoves
<1> QED BY <1>1, <1>2, <1>3, <1>4, <1>5, <1>6, <1>7, <1>8, <1>9, <1>10, <1>11, <1>12, <1>13, <1>14, <1>15 DEF Call

-----------------------------------------------------------------------------
(* The invariant. *)

(* Some forest stands in memory, its roots the items that are held. *)
IInv == \E k : Heap(mem, k, held, {})

(* At first there is nothing. *)
LEMMA InitHeap ==
  ASSUME Init
  PROVE  Heap(mem, <<>>, held, {})
<1> DEFINE k == <<>>
<1>1. mem = [at |-> <<>>, strs |-> 0] /\ held = {}
  BY DEF Init
<1>2. DOMAIN mem.at = {} /\ DOMAIN k = {} /\ mem.strs = 0
  BY <1>1
<1>3. IsMemory(mem)
  <2>1. mem.at = [i \in DOMAIN mem.at |-> mem.at[i]]
    BY <1>1
  <2> QED BY <1>1, <1>2, <2>1 DEF IsMemory
<1>4. IsForestOf(k, held)
  <2>1. k \in [DOMAIN k -> Seq(DOMAIN k)]
    OBVIOUS
  <2> QED BY <1>1, <1>2, <2>1 DEF IsForestOf
<1>5. Linked(mem, k, held, {})
  BY <1>1, <1>2 DEF Linked
<1>6. Balance(mem) = 0
  <2>1. {i \in DOMAIN mem.at : OwnsString(mem.at[i])} = {} /\ {i \in DOMAIN mem.at : OwnsValue(mem.at[i])} = {}
    BY <1>2
  <2> QED BY <1>2, <2>1, FS_EmptySet DEF Balance
<1> QED BY <1>2, <1>3, <1>4, <1>5, <1>6 DEF Heap

(* Every step. *)
LEMMA StepHeap ==
  ASSUME NEW k, Heap(mem, k, held, {}), [Next]_vars
  PROVE  Outcome(mem', held', k, held)
<1>1. CASE Next
  BY <1>1, CallMoves DEF Next
<1>2. CASE UNCHANGED vars
  BY <1>2, Stays DEF vars
<1> QED BY <1>1, <1>2

-----------------------------------------------------------------------------
(* The members that the items show. *)

KidsOf(m, R) == [i \in UNION {Tree(m, j) : j \in R} |-> IF m.at[i].ref THEN <<>> ELSE Members(m, i)]

(* What the walks of the code show is the forest. *)
LEMMA KidsAre ==
  ASSUME NEW m, NEW k, NEW R, Heap(m, k, R, {})
  PROVE  KidsOf(m, R) = k
<1>1. PICK O : O = {}
  OBVIOUS
<1>2. IsMemory(m) /\ IsForestOf(k, R) /\ Linked(m, k, R, O)
  BY <1>1 DEF Heap
<1>3. UNION {Tree(m, i) : i \in R} = DOMAIN k
  BY <1>2, TreesAre
<1>4. ASSUME NEW i \in DOMAIN k PROVE (IF m.at[i].ref THEN <<>> ELSE Members(m, i)) = k[i]
  <2>1. CASE m.at[i].ref
    BY <1>2, <2>1 DEF Linked
  <2>2. CASE ~m.at[i].ref
    BY <1>2, <2>2, MembersAre
  <2> QED BY <2>1, <2>2
<1>5. k = [i \in DOMAIN k |-> k[i]]
  BY <1>2 DEF IsForestOf
<1> QED BY <1>3, <1>4, <1>5 DEF KidsOf

(* No list has more places than there are addresses. *)
LEMMA PlaceIs ==
  ASSUME NEW k, NEW R, IsForestOf(k, R), DOMAIN k \subseteq Items, NEW p \in DOMAIN k, NEW j \in DOMAIN k[p]
  PROVE  j \in 1 .. Cardinality(Items)
<1>1. k[p] \in Seq(DOMAIN k) /\ Len(k[p]) \in Nat /\ DOMAIN k[p] = 1 .. Len(k[p])
  BY ForestFacts
<1>2. k[p] \in Seq(Items)
  BY <1>1
<1>3. \A a, b \in DOMAIN k[p] : k[p][a] = k[p][b] => a = b
  BY DEF IsForestOf
<1>4. Len(k[p]) <= Cardinality(Items)
  BY <1>2, <1>3, LengthBound
<1> QED BY <1>1, <1>4, ItemsFinite

(* The forest's operators are those of this module. *)
LEMMA ForestOperators ==
  /\ \A s, j : Forest!RemoveAt(s, j) = RemoveAt(s, j)
  /\ \A s, j, x : Forest!InsertAt(s, j, x) = InsertAt(s, j, x)
  /\ Forest!Cardinality(Items) = Cardinality(Items)
<1>1. \A s, j : Forest!RemoveAt(s, j) = RemoveAt(s, j)
  BY DEF Forest!RemoveAt, RemoveAt
<1>2. \A s, j, x : Forest!InsertAt(s, j, x) = InsertAt(s, j, x)
  BY DEF Forest!InsertAt, InsertAt
<1>3. Forest!Cardinality(Items) = Cardinality(Items)
  BY Zenon DEF Forest!Cardinality, Cardinality
<1> QED BY <1>1, <1>2, <1>3

(* A move is a step of JsonForest, or none. *)
LEMMA MovesForest ==
  ASSUME NEW k, NEW g, Kids = k, Kids' = g, Moves(k, held, g, held'), IsForestOf(k, held), DOMAIN k \subseteq Items
  PROVE  [Forest!ForestNext]_(Forest!forestVars)
<1>0. \A p \in DOMAIN k : \A j \in DOMAIN k[p] : <<p, j>> \in Forest!Places
  BY PlaceIs, ForestOperators DEF Forest!Places
<1>1. CASE g = k /\ held' = held
  BY <1>1 DEF Forest!forestVars
<1>2. CASE NewTree(k, held, g, held')
  <2>1. Forest!Make
    BY <1>2 DEF NewTree, Forest!Make, Under, Without
  <2> QED BY <2>1 DEF Forest!ForestNext
<1>3. CASE NewMember(k, held, g, held')
  <2>1. Forest!AppendNew
    BY <1>3 DEF NewMember, WithLast, Forest!AppendNew
  <2> QED BY <2>1 DEF Forest!ForestNext
<1>4. CASE Placed(k, held, g, held')
  <2>1. PICK x \in held, p \in DOMAIN k : /\ held' = held \ {x} /\ p \notin Under(k, {x})
                                          /\ \E j \in 1 .. Len(k[p]) + 1 : g = Relist(k, p, InsertAt(k[p], j, x))
    BY <1>4 DEF Placed
  <2>2. PICK j \in 1 .. Len(k[p]) + 1 : g = Relist(k, p, InsertAt(k[p], j, x))
    BY <2>1
  <2>3. g = [Kids EXCEPT ![p] = InsertAt(@, j, x)]
    BY <2>2 DEF Relist
  <2>4. Kids' = [Kids EXCEPT ![p] = Forest!InsertAt(Kids[p], j, x)]
    <3>1. Forest!InsertAt(Kids[p], j, x) = InsertAt(Kids[p], j, x)
      BY ForestOperators
    <3> QED BY <2>3, <3>1
  <2>5. p \in DOMAIN Kids \ Forest!Under(Kids, {x}) /\ j \in 1 .. Len(Kids[p]) + 1
    BY <2>1, <2>2 DEF Under
  <2>6. Forest!Insert
    BY <2>1, <2>4, <2>5 DEF Forest!Insert
  <2> QED BY <2>6 DEF Forest!ForestNext
<1>5. CASE Taken(k, held, g, held')
  <2>1. PICK p \in DOMAIN k : \E j \in DOMAIN k[p] : held' = held \cup {k[p][j]} /\ g = Relist(k, p, RemoveAt(k[p], j))
    BY <1>5 DEF Taken
  <2>2. PICK j \in DOMAIN k[p] : held' = held \cup {k[p][j]} /\ g = Relist(k, p, RemoveAt(k[p], j))
    BY <2>1
  <2>3. PICK s : s = <<p, j>>
    OBVIOUS
  <2>4. s \in Forest!Places /\ s[1] = p /\ s[2] = j
    BY <1>0, <2>3
  <2>5. g = [Kids EXCEPT ![s[1]] = RemoveAt(@, s[2])] /\ held' = held \cup {Kids[s[1]][s[2]]}
    BY <2>2, <2>4 DEF Relist
  <2>6. Forest!Detach
    BY <2>4, <2>5, ForestOperators DEF Forest!Detach
  <2> QED BY <2>6 DEF Forest!ForestNext
<1>6. CASE Dropped(k, held, g, held')
  <2>1. CASE held' = held /\ \E p \in DOMAIN k : \E j \in DOMAIN k[p] :
               g = Without(Relist(k, p, RemoveAt(k[p], j)), Under(k, {k[p][j]}))
    <3>1. PICK p \in DOMAIN k : \E j \in DOMAIN k[p] : g = Without(Relist(k, p, RemoveAt(k[p], j)), Under(k, {k[p][j]}))
      BY <2>1
    <3>2. PICK j \in DOMAIN k[p] : g = Without(Relist(k, p, RemoveAt(k[p], j)), Under(k, {k[p][j]}))
      BY <3>1
    <3>3. PICK s : s = <<p, j>>
      OBVIOUS
    <3>4. s \in Forest!Places /\ s[1] = p /\ s[2] = j
      BY <1>0, <3>3
    <3>5. Relist(k, p, RemoveAt(k[p], j)) = [Kids EXCEPT ![s[1]] = RemoveAt(@, s[2])] /\ k[p][j] = Kids[s[1]][s[2]]
      BY <3>4 DEF Relist
    <3>6. g = Forest!Without([Kids EXCEPT ![s[1]] = RemoveAt(@, s[2])], Forest!Under(Kids, {Kids[s[1]][s[2]]}))
      BY <3>2, <3>5 DEF Under, Without
    <3>7. Forest!Discard
      BY <2>1, <3>4, <3>6, ForestOperators DEF Forest!Discard
    <3> QED BY <3>7 DEF Forest!ForestNext
  <2>2. CASE \E x \in held : held' = held \ {x} /\ g = Without(k, Under(k, {x}))
    <3>1. Forest!Discard
      BY <2>2 DEF Forest!Discard, Under, Without
    <3> QED BY <3>1 DEF Forest!ForestNext
  <2> QED BY <1>6, <2>1, <2>2 DEF Dropped
<1>7. CASE Swapped(k, held, g, held')
  <2>1. PICK x \in held, p \in DOMAIN k : /\ held' = held \ {x} /\ p \notin Under(k, {x})
                                          /\ \E j \in DOMAIN k[p] : g = Without(Exchange(k, p, j, x), Under(k, {k[p][j]}))
    BY <1>7 DEF Swapped
  <2>2. PICK j \in DOMAIN k[p] : g = Without(Exchange(k, p, j, x), Under(k, {k[p][j]}))
    BY <2>1
  <2>3. PICK s : s = <<p, j>>
    OBVIOUS
  <2>4. s \in Forest!Places /\ s[1] = p /\ s[2] = j
    BY <1>0, <2>3
  <2>5. Exchange(k, p, j, x) = [Kids EXCEPT ![s[1]][s[2]] = x] /\ k[p][j] = Kids[s[1]][s[2]]
    BY <2>4 DEF Exchange, Relist
  <2>6. g = Forest!Without([Kids EXCEPT ![s[1]][s[2]] = x], Forest!Under(Kids, {Kids[s[1]][s[2]]}))
    BY <2>2, <2>5 DEF Under, Without
  <2>7. s[1] \notin Forest!Under(Kids, {x})
    BY <2>1, <2>4 DEF Under
  <2>8. Forest!Replace
    BY <2>1, <2>4, <2>6, <2>7 DEF Forest!Replace
  <2> QED BY <2>8 DEF Forest!ForestNext
<1> QED BY <1>1, <1>2, <1>3, <1>4, <1>5, <1>6, <1>7 DEF Moves

-----------------------------------------------------------------------------
(* What the invariant says of the links and of what is allocated. *)

(* prev leads to an item of the forest, or nowhere. *)
LEMMA PrevInside ==
  ASSUME NEW k, Heap(mem, k, held, {}), NEW i \in DOMAIN k
  PROVE  mem.at[i].prev \in DOMAIN k \cup {Null}
<1>1. PICK O : O = {}
  OBVIOUS
<1>2. IsMemory(mem) /\ IsForestOf(k, held) /\ Linked(mem, k, held, O)
  BY <1>1 DEF Heap
<1>3. CASE i \in held
  BY <1>2, <1>3 DEF Linked
<1>4. CASE i \notin held
  <2>1. PICK p \in DOMAIN k : \E a \in DOMAIN k[p] : k[p][a] = i
    BY <1>2, <1>4, HasPlace
  <2>2. PICK a \in DOMAIN k[p] : k[p][a] = i
    BY <2>1
  <2>3. ~mem.at[p].ref
    BY <1>2, <2>2, NextIs
  <2>4. ListOf(mem, p, k[p], O)
    BY <1>2, <2>3 DEF Linked
  <2>5. Len(k[p]) \in Nat /\ DOMAIN k[p] = 1 .. Len(k[p]) /\ \A b \in DOMAIN k[p] : k[p][b] \in DOMAIN k
    BY <1>2, ForestFacts
  <2>6. CASE a = 1
    <3>1. k[p] # <<>> /\ Len(k[p]) \in DOMAIN k[p]
      BY <2>2, <2>5
    <3>2. mem.at[k[p][1]].prev = k[p][Len(k[p])]
      BY <1>1, <2>4, <3>1 DEF ListOf
    <3> QED BY <2>2, <2>5, <2>6, <3>1, <3>2
  <2>7. CASE a # 1
    <3>1. a \in 2 .. Len(k[p]) /\ a - 1 \in DOMAIN k[p]
      BY <2>2, <2>5, <2>7
    <3>2. mem.at[k[p][a]].prev = k[p][a - 1]
      BY <2>4, <3>1 DEF ListOf
    <3> QED BY <2>2, <2>5, <3>1, <3>2
  <2> QED BY <2>6, <2>7
<1> QED BY <1>3, <1>4

(* Where memory holds a forest, the links agree. *)
LEMMA HeapSound ==
  ASSUME NEW k, Heap(mem, k, held, {})
  PROVE  LinksSound
<1>1. PICK O : O = {}
  OBVIOUS
<1>2. IsMemory(mem) /\ IsForestOf(k, held) /\ Linked(mem, k, held, O)
  BY <1>1 DEF Heap
<1>3. Live = DOMAIN k /\ held \subseteq DOMAIN k /\ DOMAIN k \subseteq DOMAIN mem.at
  BY LiveIs
<1>4. \A i \in held : mem.at[i].next = Null /\ mem.at[i].prev = Null
  BY <1>2 DEF Linked
<1>5. \A i \in Live : {mem.at[i].next, mem.at[i].prev, mem.at[i].child} \subseteq DOMAIN mem.at \cup {Null}
  <2> TAKE i \in Live
  <2>1. i \in DOMAIN k
    BY <1>3
  <2>2. mem.at[i].next \in DOMAIN k \cup {Null}
    BY <1>2, <2>1, LinksInside
  <2>3. mem.at[i].prev \in DOMAIN k \cup {Null} /\ mem.at[i].child \in DOMAIN k \cup {Null}
    BY <2>1, PrevInside, ChildInside
  <2> QED BY <1>3, <2>2, <2>3
<1>6. ASSUME NEW p \in Live, NEW s, s = Members(mem, p), ~mem.at[p].ref, s # <<>>
      PROVE  /\ mem.at[s[1]].prev = s[Len(s)]
             /\ \A j \in 2 .. Len(s) : mem.at[s[j]].prev = s[j - 1]
  <2>1. p \in DOMAIN k
    BY <1>3
  <2>2. s = k[p]
    BY <1>2, <1>6, <2>1, MembersAre
  <2>3. ListOf(mem, p, s, O)
    BY <1>2, <1>6, <2>1, <2>2 DEF Linked
  <2> QED BY <1>1, <1>6, <2>3 DEF ListOf
<1> QED BY <1>3, <1>4, <1>5, <1>6 DEF LinksSound

(* And everything that is allocated is accounted for. *)
LEMMA HeapKept ==
  ASSUME NEW k, Heap(mem, k, held, {})
  PROVE  NoLeak
<1>1. IsMemory(mem) /\ Live = DOMAIN k
  BY LiveIs
<1>2. \A i \in DOMAIN mem.at \ Live : mem.at[i].ref /\ mem.at[i].string = Null
  BY <1>1 DEF Heap
<1>3. PICK a, b : /\ a = Cardinality({i \in DOMAIN mem.at : OwnsString(mem.at[i])})
                  /\ b = Cardinality({i \in DOMAIN mem.at : OwnsValue(mem.at[i])})
  OBVIOUS
<1>4. a \in Nat /\ b \in Nat /\ mem.strs \in Int
  <2>1. {i \in DOMAIN mem.at : OwnsString(mem.at[i])} \in SUBSET Items /\ {i \in DOMAIN mem.at : OwnsValue(mem.at[i])} \in SUBSET Items
    BY <1>1 DEF IsMemory
  <2> QED BY <1>1, <1>3, <2>1, ItemsFinite DEF IsMemory
<1>5. mem.strs - a - b = 0
  BY <1>3 DEF Heap, Balance
<1>6. mem.strs = a + b
  BY <1>4, <1>5
<1> QED BY <1>2, <1>3, <1>6 DEF NoLeak

-----------------------------------------------------------------------------
(* cJSON_Compare, level by level of its calls. *)

(* The levels of calls of cJSON_Compare, of values, and of names. *)
CompareLevels(m, c, same) ==
  /\ \A a, b \in DOMAIN m.at : same[0][<<a, b>>] <=> a = b
  /\ \A n \in Nat : n + 1 <= Cardinality(Items) =>
       \A a, b \in DOMAIN m.at : same[n + 1][<<a, b>>] <=> CompareItems(m, a, b, c, same[n])
  /\ \A a, b : cJSON_Compare(m, a, b, c) = same[Cardinality(Items)][<<a, b>>]

ValueLevels(m, c, value) ==
  /\ \A a \in DOMAIN m.at : value[0][a] = a
  /\ \A n \in Nat : n + 1 <= Cardinality(Items) =>
       \A a \in DOMAIN m.at : value[n + 1][a] = ValueOf(m, a, c, value[n])
  /\ \A a : Value(m, a, c) = value[Cardinality(Items)][a]

NamedLevels(m, c, named) ==
  /\ \A n \in Nat : n + 1 <= Cardinality(Items) =>
       \A a \in DOMAIN m.at :
         named[n + 1][a] <=> /\ m.at[a].type = "object" => NamesApart(m, a, c)
                             /\ \A l \in ToSet(Members(m, a)) : named[n][l]
  /\ \A a : WellNamed(m, a, c) = named[Cardinality(Items)][a]

(* cJSON_Compare has such levels, since each is a function of the last. *)
LEMMA CompareRun ==
  ASSUME NEW m, NEW c
  PROVE  \E same : CompareLevels(m, c, same)
<1> DEFINE N == Cardinality(Items)
           D == (DOMAIN m.at) \X (DOMAIN m.at)
           Turn(f, n) == [p \in D |-> IF n = 0 THEN p[1] = p[2] ELSE CompareItems(m, p[1], p[2], c, f[n - 1])]
           run == CHOOSE f : f = [n \in 0 .. N |-> Turn(f, n)]
<1>1. N \in Nat
  BY ItemsFinite
<1>2. \A a, b : cJSON_Compare(m, a, b, c) = run[N][<<a, b>>]
  BY DEF cJSON_Compare
<1> HIDE DEF N, D
<1>a. ASSUME NEW f PROVE Turn(f, 0) = [p \in D |-> p[1] = p[2]]
  OBVIOUS
<1>b. ASSUME NEW f, NEW g, NEW n \in Nat, n # 0, f[n - 1] = g[n - 1] PROVE Turn(f, n) = Turn(g, n)
  BY <1>b
<1>c. ASSUME NEW f, NEW n \in Nat PROVE Turn(f, n + 1) = [p \in D |-> CompareItems(m, p[1], p[2], c, f[n])]
  <2>1. n + 1 # 0 /\ (n + 1) - 1 = n
    OBVIOUS
  <2> QED BY <2>1
<1>d. \A f, g : Turn(f, 0) = Turn(g, 0)
  BY <1>a
<1>e. \A f, g : \A n \in Nat \ {0} : f[n - 1] = g[n - 1] => Turn(f, n) = Turn(g, n)
  BY <1>b
<1> HIDE DEF Turn
<1> DEFINE S == {n \in Nat : \E f : f = [j \in 0 .. n |-> Turn(f, j)]}
<1>3. 0 \in S
  <2> DEFINE f == [j \in 0 .. 0 |-> Turn(<<>>, 0)]
  <2>1. f[0] = Turn(f, 0)
    BY <1>d
  <2>2. f = [j \in 0 .. 0 |-> f[j]] /\ \A j \in 0 .. 0 : j = 0
    OBVIOUS
  <2> HIDE DEF f
  <2>3. f = [j \in 0 .. 0 |-> Turn(f, j)]
    BY <2>1, <2>2
  <2> QED BY <2>3
<1>4. ASSUME NEW n \in Nat, n \in S PROVE n + 1 \in S
  <2>1. PICK f : f = [j \in 0 .. n |-> Turn(f, j)]
    BY <1>4
  <2> DEFINE g == [j \in 0 .. n + 1 |-> IF j = n + 1 THEN Turn(f, j) ELSE f[j]]
  <2>2. g = [j \in 0 .. n + 1 |-> g[j]] /\ g[n + 1] = Turn(f, n + 1) /\ \A j \in 0 .. n : g[j] = f[j]
    OBVIOUS
  <2> HIDE DEF g
  <2>3. ASSUME NEW j \in 0 .. n + 1 PROVE g[j] = Turn(g, j)
    <3>1. g[j] = Turn(f, j)
      <4>1. \A x \in 0 .. n : g[x] = Turn(f, x)
        BY <2>1, <2>2
      <4>2. j = n + 1 \/ j \in 0 .. n
        OBVIOUS
      <4> QED BY <2>2, <4>1, <4>2
    <3>2. CASE j = 0
      BY <3>1, <3>2, <1>d
    <3>3. CASE j # 0
      <4>1. j \in Nat \ {0} /\ j - 1 \in 0 .. n
        BY <3>3
      <4> QED BY <3>1, <4>1, <2>2, <1>e
    <3> QED BY <3>2, <3>3
  <2>4. g = [j \in 0 .. n + 1 |-> Turn(g, j)]
    BY <2>2, <2>3
  <2> QED BY <2>4
<1> HIDE DEF S
<1>5. Nat \subseteq S
  BY <1>3, <1>4, Induction
<1>6. \E f : f = [n \in 0 .. N |-> Turn(f, n)]
  BY <1>1, <1>5 DEF S
<1>7. run = [n \in 0 .. N |-> Turn(run, n)]
  BY <1>6
<1> HIDE DEF run
<1>8. run[0] = [p \in D |-> p[1] = p[2]]
  <2>1. 0 \in 0 .. N
    BY <1>1
  <2>2. run[0] = Turn(run, 0)
    BY <1>7, <2>1
  <2> QED BY <2>2, <1>a
<1>9. ASSUME NEW n \in Nat, n + 1 <= N PROVE run[n + 1] = [p \in D |-> CompareItems(m, p[1], p[2], c, run[n])]
  <2>1. n + 1 \in 0 .. N
    BY <1>1, <1>9
  <2>2. run[n + 1] = Turn(run, n + 1)
    BY <1>7, <2>1
  <2> QED BY <2>2, <1>c
<1>10. ASSUME NEW a \in DOMAIN m.at, NEW b \in DOMAIN m.at
       PROVE  /\ run[0][<<a, b>>] <=> a = b
              /\ \A n \in Nat : n + 1 <= N => (run[n + 1][<<a, b>>] <=> CompareItems(m, a, b, c, run[n]))
  <2>p. PICK p : p = <<a, b>>
    OBVIOUS
  <2>1. p \in D /\ p = <<a, b>> /\ p[1] = a /\ p[2] = b
    BY <2>p DEF D
  <2>2. run[0][p] <=> p[1] = p[2]
    BY <1>8, <2>1
  <2>3. ASSUME NEW n \in Nat, n + 1 <= N PROVE run[n + 1][p] <=> CompareItems(m, p[1], p[2], c, run[n])
    BY <1>9, <2>1, <2>3
  <2> QED BY <2>1, <2>2, <2>3
<1>11. PICK r : r = run
  OBVIOUS
<1>12. CompareLevels(m, c, r)
  BY <1>2, <1>10, <1>11 DEF CompareLevels, N
<1> QED BY <1>12

(* So have values. *)
LEMMA ValueRun ==
  ASSUME NEW m, NEW c
  PROVE  \E value : ValueLevels(m, c, value)
<1> DEFINE N == Cardinality(Items)
           D == DOMAIN m.at
           Turn(f, n) == [j \in D |-> IF n = 0 THEN j ELSE ValueOf(m, j, c, f[n - 1])]
           run == CHOOSE f : f = [n \in 0 .. N |-> Turn(f, n)]
<1>1. N \in Nat
  BY ItemsFinite
<1>2. \A i : Value(m, i, c) = run[N][i]
  BY DEF Value
<1> HIDE DEF N, D
<1>a. ASSUME NEW f PROVE Turn(f, 0) = [j \in D |-> j]
  OBVIOUS
<1>b. ASSUME NEW f, NEW g, NEW n \in Nat, n # 0, f[n - 1] = g[n - 1] PROVE Turn(f, n) = Turn(g, n)
  BY <1>b
<1>c. ASSUME NEW f, NEW n \in Nat PROVE Turn(f, n + 1) = [j \in D |-> ValueOf(m, j, c, f[n])]
  <2>1. n + 1 # 0 /\ (n + 1) - 1 = n
    OBVIOUS
  <2> QED BY <2>1
<1>d. \A f, g : Turn(f, 0) = Turn(g, 0)
  BY <1>a
<1>e. \A f, g : \A n \in Nat \ {0} : f[n - 1] = g[n - 1] => Turn(f, n) = Turn(g, n)
  BY <1>b
<1> HIDE DEF Turn
<1> DEFINE S == {n \in Nat : \E f : f = [j \in 0 .. n |-> Turn(f, j)]}
<1>3. 0 \in S
  <2> DEFINE f == [j \in 0 .. 0 |-> Turn(<<>>, 0)]
  <2>1. f[0] = Turn(f, 0)
    BY <1>d
  <2>2. f = [j \in 0 .. 0 |-> f[j]] /\ \A j \in 0 .. 0 : j = 0
    OBVIOUS
  <2> HIDE DEF f
  <2>3. f = [j \in 0 .. 0 |-> Turn(f, j)]
    BY <2>1, <2>2
  <2> QED BY <2>3
<1>4. ASSUME NEW n \in Nat, n \in S PROVE n + 1 \in S
  <2>1. PICK f : f = [j \in 0 .. n |-> Turn(f, j)]
    BY <1>4
  <2> DEFINE g == [j \in 0 .. n + 1 |-> IF j = n + 1 THEN Turn(f, j) ELSE f[j]]
  <2>2. g = [j \in 0 .. n + 1 |-> g[j]] /\ g[n + 1] = Turn(f, n + 1) /\ \A j \in 0 .. n : g[j] = f[j]
    OBVIOUS
  <2> HIDE DEF g
  <2>3. ASSUME NEW j \in 0 .. n + 1 PROVE g[j] = Turn(g, j)
    <3>1. g[j] = Turn(f, j)
      <4>1. \A x \in 0 .. n : g[x] = Turn(f, x)
        BY <2>1, <2>2
      <4>2. j = n + 1 \/ j \in 0 .. n
        OBVIOUS
      <4> QED BY <2>2, <4>1, <4>2
    <3>2. CASE j = 0
      BY <3>1, <3>2, <1>d
    <3>3. CASE j # 0
      <4>1. j \in Nat \ {0} /\ j - 1 \in 0 .. n
        BY <3>3
      <4> QED BY <3>1, <4>1, <2>2, <1>e
    <3> QED BY <3>2, <3>3
  <2>4. g = [j \in 0 .. n + 1 |-> Turn(g, j)]
    BY <2>2, <2>3
  <2> QED BY <2>4
<1> HIDE DEF S
<1>5. Nat \subseteq S
  BY <1>3, <1>4, Induction
<1>6. \E f : f = [n \in 0 .. N |-> Turn(f, n)]
  BY <1>1, <1>5 DEF S
<1>7. run = [n \in 0 .. N |-> Turn(run, n)]
  BY <1>6
<1> HIDE DEF run
<1>8. run[0] = [j \in D |-> j]
  <2>1. 0 \in 0 .. N
    BY <1>1
  <2>2. run[0] = Turn(run, 0)
    BY <1>7, <2>1
  <2> QED BY <2>2, <1>a
<1>9. ASSUME NEW n \in Nat, n + 1 <= N PROVE run[n + 1] = [j \in D |-> ValueOf(m, j, c, run[n])]
  <2>1. n + 1 \in 0 .. N
    BY <1>1, <1>9
  <2>2. run[n + 1] = Turn(run, n + 1)
    BY <1>7, <2>1
  <2> QED BY <2>2, <1>c
<1>10. ASSUME NEW a \in DOMAIN m.at
       PROVE  run[0][a] = a /\ \A n \in Nat : n + 1 <= N => run[n + 1][a] = ValueOf(m, a, c, run[n])
  <2>1. a \in D
    BY DEF D
  <2>2. run[0][a] = a
    BY <1>8, <2>1
  <2>3. ASSUME NEW n \in Nat, n + 1 <= N PROVE run[n + 1][a] = ValueOf(m, a, c, run[n])
    BY <1>9, <2>1, <2>3
  <2> QED BY <2>2, <2>3
<1>11. PICK r : r = run
  OBVIOUS
<1>12. ValueLevels(m, c, r)
  BY <1>2, <1>10, <1>11 DEF ValueLevels, N
<1> QED BY <1>12

(* And names. *)
LEMMA NamedRun ==
  ASSUME NEW m, NEW c
  PROVE  \E named : NamedLevels(m, c, named)
<1> DEFINE N == Cardinality(Items)
           D == DOMAIN m.at
           Turn(f, n) == [j \in D |-> n = 0 \/ ((m.at[j].type = "object" => NamesApart(m, j, c)) /\ \A l \in ToSet(Members(m, j)) : f[n - 1][l])]
           run == CHOOSE f : f = [n \in 0 .. N |-> Turn(f, n)]
<1>1. N \in Nat
  BY ItemsFinite
<1>2. \A i : WellNamed(m, i, c) = run[N][i]
  BY DEF WellNamed
<1> HIDE DEF N, D
<1>a. ASSUME NEW f PROVE Turn(f, 0) = [j \in D |-> TRUE]
  OBVIOUS
<1>b. ASSUME NEW f, NEW g, NEW n \in Nat, n # 0, f[n - 1] = g[n - 1] PROVE Turn(f, n) = Turn(g, n)
  BY <1>b
<1>c. ASSUME NEW f, NEW n \in Nat PROVE Turn(f, n + 1) = [j \in D |-> (m.at[j].type = "object" => NamesApart(m, j, c)) /\ \A l \in ToSet(Members(m, j)) : f[n][l]]
  <2>1. n + 1 # 0 /\ (n + 1) - 1 = n
    OBVIOUS
  <2> QED BY <2>1
<1>d. \A f, g : Turn(f, 0) = Turn(g, 0)
  BY <1>a
<1>e. \A f, g : \A n \in Nat \ {0} : f[n - 1] = g[n - 1] => Turn(f, n) = Turn(g, n)
  BY <1>b
<1> HIDE DEF Turn
<1> DEFINE S == {n \in Nat : \E f : f = [j \in 0 .. n |-> Turn(f, j)]}
<1>3. 0 \in S
  <2> DEFINE f == [j \in 0 .. 0 |-> Turn(<<>>, 0)]
  <2>1. f[0] = Turn(f, 0)
    BY <1>d
  <2>2. f = [j \in 0 .. 0 |-> f[j]] /\ \A j \in 0 .. 0 : j = 0
    OBVIOUS
  <2> HIDE DEF f
  <2>3. f = [j \in 0 .. 0 |-> Turn(f, j)]
    BY <2>1, <2>2
  <2> QED BY <2>3
<1>4. ASSUME NEW n \in Nat, n \in S PROVE n + 1 \in S
  <2>1. PICK f : f = [j \in 0 .. n |-> Turn(f, j)]
    BY <1>4
  <2> DEFINE g == [j \in 0 .. n + 1 |-> IF j = n + 1 THEN Turn(f, j) ELSE f[j]]
  <2>2. g = [j \in 0 .. n + 1 |-> g[j]] /\ g[n + 1] = Turn(f, n + 1) /\ \A j \in 0 .. n : g[j] = f[j]
    OBVIOUS
  <2> HIDE DEF g
  <2>3. ASSUME NEW j \in 0 .. n + 1 PROVE g[j] = Turn(g, j)
    <3>1. g[j] = Turn(f, j)
      <4>1. \A x \in 0 .. n : g[x] = Turn(f, x)
        BY <2>1, <2>2
      <4>2. j = n + 1 \/ j \in 0 .. n
        OBVIOUS
      <4> QED BY <2>2, <4>1, <4>2
    <3>2. CASE j = 0
      BY <3>1, <3>2, <1>d
    <3>3. CASE j # 0
      <4>1. j \in Nat \ {0} /\ j - 1 \in 0 .. n
        BY <3>3
      <4> QED BY <3>1, <4>1, <2>2, <1>e
    <3> QED BY <3>2, <3>3
  <2>4. g = [j \in 0 .. n + 1 |-> Turn(g, j)]
    BY <2>2, <2>3
  <2> QED BY <2>4
<1> HIDE DEF S
<1>5. Nat \subseteq S
  BY <1>3, <1>4, Induction
<1>6. \E f : f = [n \in 0 .. N |-> Turn(f, n)]
  BY <1>1, <1>5 DEF S
<1>7. run = [n \in 0 .. N |-> Turn(run, n)]
  BY <1>6
<1> HIDE DEF run
<1>8. run[0] = [j \in D |-> TRUE]
  <2>1. 0 \in 0 .. N
    BY <1>1
  <2>2. run[0] = Turn(run, 0)
    BY <1>7, <2>1
  <2> QED BY <2>2, <1>a
<1>9. ASSUME NEW n \in Nat, n + 1 <= N PROVE run[n + 1] = [j \in D |-> (m.at[j].type = "object" => NamesApart(m, j, c)) /\ \A l \in ToSet(Members(m, j)) : run[n][l]]
  <2>1. n + 1 \in 0 .. N
    BY <1>1, <1>9
  <2>2. run[n + 1] = Turn(run, n + 1)
    BY <1>7, <2>1
  <2> QED BY <2>2, <1>c
<1>10. ASSUME NEW a \in DOMAIN m.at, NEW n \in Nat, n + 1 <= N
       PROVE  run[n + 1][a] <=> /\ m.at[a].type = "object" => NamesApart(m, a, c)
                                /\ \A l \in ToSet(Members(m, a)) : run[n][l]
  BY <1>9, <1>10 DEF D
<1>11. PICK r : r = run
  OBVIOUS
<1>12. NamedLevels(m, c, r)
  BY <1>2, <1>10, <1>11 DEF NamedLevels, N
<1> QED BY <1>12

(* Also the walk along what a reference shows stays in the forest. *)
LEMMA MembersInside ==
  ASSUME NEW m, NEW k, NEW R, Heap(m, k, R, {}), NEW i \in DOMAIN k
  PROVE  Members(m, i) \in Seq(DOMAIN k)
<1>1. PICK O : O = {}
  OBVIOUS
<1>2. IsMemory(m) /\ IsForestOf(k, R) /\ Linked(m, k, R, O)
  BY <1>1 DEF Heap
<1>3. DOMAIN k \subseteq Items /\ Null \notin DOMAIN k
  BY <1>2, TreeAssumption DEF Linked, IsMemory
<1>4. CASE ~m.at[i].ref
  <2>1. Members(m, i) = k[i]
    BY <1>2, <1>4, MembersAre
  <2> QED BY <1>2, <2>1 DEF IsForestOf
<1>5. ASSUME NEW s \in Seq(DOMAIN k), Distinct(s), NextAre(m, s), m.at[i].child = FirstOf(s)
      PROVE  Members(m, i) = s
  <2>1. s \in Seq(Items)
    BY <1>3
  <2>2. Siblings(m, FirstOf(s)) = s
    BY <1>5, <2>1, SiblingsIs
  <2> QED BY <1>5, <2>2 DEF Members
<1>6. PICK c : c = m.at[i].child
  OBVIOUS
<1>7. CASE m.at[i].ref /\ c = Null
  <2>1. PICK s : s = <<>>
    OBVIOUS
  <2>2. s \in Seq(DOMAIN k) /\ Distinct(s) /\ NextAre(m, s) /\ FirstOf(s) = Null
    BY <2>1 DEF Distinct, NextAre, FirstOf
  <2> QED BY <1>5, <1>6, <1>7, <2>2
<1>8. CASE m.at[i].ref /\ c \in R
  <2>1. PICK s : s = <<c>>
    OBVIOUS
  <2>2. m.at[c].next = Null /\ c \in DOMAIN k
    BY <1>2, <1>8 DEF Linked, IsForestOf
  <2>3. s \in Seq(DOMAIN k) /\ Len(s) = 1 /\ DOMAIN s = {1} /\ s[1] = c /\ s # <<>>
    BY <2>1, <2>2
  <2>4. Distinct(s) /\ NextAre(m, s) /\ FirstOf(s) = c
    BY <2>2, <2>3 DEF Distinct, NextAre, FirstOf
  <2> QED BY <1>5, <1>6, <2>3, <2>4
<1>9. CASE m.at[i].ref /\ c \in DOMAIN k \ R
  <2>1. PICK p \in DOMAIN k : \E a \in DOMAIN k[p] : k[p][a] = c
    BY <1>2, <1>9, HasPlace
  <2>2. PICK a \in DOMAIN k[p] : k[p][a] = c
    BY <2>1
  <2>3. ~m.at[p].ref
    BY <1>2, <2>2, NextIs
  <2>4. PICK l \in Nat : l = Len(k[p]) /\ DOMAIN k[p] = 1 .. l
    BY <1>2, ForestFacts
  <2>5. /\ \A x, y \in 1 .. l : k[p][x] = k[p][y] => x = y
        /\ \A x \in 1 .. l : k[p][x] \in DOMAIN k
    BY <1>2, <2>3, <2>4, ListFacts
  <2>6. \A x \in 1 .. l : m.at[k[p][x]].next = IF x = l THEN Null ELSE k[p][x + 1]
    BY <1>2, <2>3, <2>4 DEF Linked, ListOf
  <2>7. a \in 1 .. l /\ a \in Nat
    BY <2>4
  <2>8. PICK n \in Nat : n = l - a + 1
    BY <2>7
  <2>9. PICK s : s = [b \in 1 .. n |-> k[p][a + b - 1]]
    OBVIOUS
  <2>10. \A b \in 1 .. n : a + b - 1 \in 1 .. l /\ s[b] = k[p][a + b - 1]
    BY <2>7, <2>8, <2>9
  <2>11. s \in Seq(DOMAIN k) /\ Len(s) = n /\ DOMAIN s = 1 .. n
    BY <2>5, <2>9, <2>10
  <2>12. Distinct(s)
    <3> SUFFICES ASSUME NEW x \in 1 .. n, NEW y \in 1 .. n, s[x] = s[y] PROVE x = y
      BY <2>11 DEF Distinct
    <3>1. a + x - 1 = a + y - 1
      BY <2>5, <2>10
    <3> QED BY <2>7, <3>1
  <2>13. NextAre(m, s)
    <3> SUFFICES ASSUME NEW b \in 1 .. n PROVE m.at[s[b]].next = IF b = n THEN Null ELSE s[b + 1]
      BY <2>11 DEF NextAre
    <3>1. m.at[s[b]].next = IF a + b - 1 = l THEN Null ELSE k[p][a + b - 1 + 1]
      BY <2>6, <2>10
    <3>2. a + b - 1 = l <=> b = n
      BY <2>7, <2>8
    <3>3. b # n => b + 1 \in 1 .. n /\ a + b - 1 + 1 = a + (b + 1) - 1
      BY <2>7
    <3> QED BY <2>10, <3>1, <3>2, <3>3
  <2>14. FirstOf(s) = c
    <3>1. 1 \in 1 .. n /\ a + 1 - 1 = a /\ s # <<>>
      BY <2>7, <2>8, <2>11
    <3> QED BY <2>2, <2>10, <3>1 DEF FirstOf
  <2> QED BY <1>5, <1>6, <2>11, <2>12, <2>13, <2>14
<1>10. m.at[i].ref => c \in DOMAIN k \cup {Null}
  BY <1>6 DEF Heap
<1> QED BY <1>4, <1>7, <1>8, <1>9, <1>10

(* An item with a name has one that can be compared. *)
LEMMA NameIs ==
  ASSUME NEW m, IsMemory(m), NEW i \in DOMAIN m.at, NEW c \in BOOLEAN, NEW name \in Keys
  PROVE  /\ m.at[i].string \in Keys \cup {Null} /\ Null \notin Keys
         /\ m.at[i].string # Null =>
              (Name(m, i, c) = (IF c THEN name ELSE Fold[name])
                 <=> IF c THEN m.at[i].string \in {Null, name} ELSE case_insensitive_strcmp(name, m.at[i].string))
<1>1. m.at[i] \in ItemOf /\ Null \notin Keys
  BY TreeAssumption DEF IsMemory
<1>2. m.at[i].string \in Keys \cup {Null}
  BY <1>1 DEF ItemOf
<1> QED BY <1>1, <1>2 DEF Name, case_insensitive_strcmp

(* A look-up by the name of e finds the member that has it. *)
LEMMA FoundIs ==
  ASSUME NEW m, NEW k, NEW R, Heap(m, k, R, {}), NEW o \in DOMAIN k, NEW e \in DOMAIN k, m.at[e].string # Null,
         NEW c \in BOOLEAN, NamesApart(m, o, c), NEW same
  PROVE  FoundIn(m, e, o, c, same) <=>
           \E l \in DOMAIN Members(m, o) : Name(m, Members(m, o)[l], c) = Name(m, e, c) /\ same[<<e, Members(m, o)[l]>>]
<1>1. PICK s, name : s = Members(m, o) /\ name = m.at[e].string
  OBVIOUS
<1>2. /\ s \in Seq(DOMAIN k) /\ DOMAIN s \subseteq Nat /\ \A l \in DOMAIN s : s[l] \in DOMAIN k
      /\ IsMemory(m) /\ DOMAIN k \subseteq DOMAIN m.at /\ Null \notin DOMAIN k
  <2>1. s \in Seq(DOMAIN k)
    BY <1>1, MembersInside
  <2>2. IsMemory(m) /\ DOMAIN k \subseteq DOMAIN m.at
    BY DEF Heap, Linked
  <2>3. Null \notin DOMAIN k
    BY <2>2, TreeAssumption DEF IsMemory
  <2> QED BY <2>1, <2>2, <2>3
<1>3. name \in Keys /\ Null \notin Keys
  <2>1. m.at[e] \in ItemOf
    BY <1>2 DEF IsMemory
  <2> QED BY <1>1, <2>1, TreeAssumption DEF ItemOf
<1>4. Name(m, e, c) = IF c THEN name ELSE Fold[name]
  BY <1>1 DEF Name
<1> DEFINE stop(j) == IF c THEN m.at[s[j]].string \in {Null, name}
                      ELSE case_insensitive_strcmp(name, m.at[s[j]].string)
           stops == {j \in DOMAIN s : stop(j)}
<1>5. \A l \in DOMAIN s : m.at[s[l]].string # Null
  BY <1>1 DEF NamesApart
<1>6. ASSUME NEW l \in DOMAIN s PROVE l \in stops <=> Name(m, s[l], c) = Name(m, e, c)
  <2>1. s[l] \in DOMAIN m.at
    BY <1>2
  <2> QED BY <1>2, <1>3, <1>4, <1>5, <2>1, NameIs
<1>7. get_object_item(m, o, name, c) = IF stops = {} \/ m.at[s[Min(stops)]].string = Null THEN Null ELSE s[Min(stops)]
  BY <1>1 DEF get_object_item
<1>8. stops \subseteq DOMAIN s
  OBVIOUS
<1> HIDE DEF stops
<1>9. \A l, j \in DOMAIN s : Name(m, s[l], c) = Name(m, s[j], c) => l = j
  BY <1>1 DEF NamesApart
<1>10. CASE stops = {}
  <2>1. ~FoundIn(m, e, o, c, same)
    BY <1>1, <1>7, <1>10 DEF FoundIn
  <2> QED BY <1>1, <1>6, <1>10, <2>1
<1>11. CASE stops # {}
  <2>1. PICK j : j = Min(stops)
    OBVIOUS
  <2>2. j \in stops
    <3>1. stops \in SUBSET Nat
      BY <1>2, <1>8
    <3> QED BY <1>11, <2>1, <3>1, LeastOf
  <2>3. j \in DOMAIN s /\ Name(m, s[j], c) = Name(m, e, c) /\ s[j] # Null
    BY <1>2, <1>6, <1>8, <2>2
  <2>4. get_object_item(m, o, name, c) = s[j]
    BY <1>5, <1>7, <1>11, <2>1, <2>3
  <2>5. FoundIn(m, e, o, c, same) <=> same[<<e, s[j]>>]
    BY <1>1, <1>3, <2>3, <2>4 DEF FoundIn
  <2>6. \A l \in DOMAIN s : Name(m, s[l], c) = Name(m, e, c) => l = j
    BY <1>9, <2>3
  <2> QED BY <1>1, <2>3, <2>5, <2>6
<1> QED BY <1>10, <1>11

(* The answers of the calls on the members of i and j are as their values. *)
Answers(m, i, j, same, value) ==
  \A a \in DOMAIN Members(m, i), b \in DOMAIN Members(m, j) :
    /\ same[<<Members(m, i)[a], Members(m, j)[b]>>] <=> value[Members(m, i)[a]] = value[Members(m, j)[b]]
    /\ same[<<Members(m, j)[b], Members(m, i)[a]>>] <=> value[Members(m, i)[a]] = value[Members(m, j)[b]]

AnswersFor(s, u, same, value) ==
  \A a \in DOMAIN s, b \in DOMAIN u : same[<<s[a], u[b]>>] <=> value[s[a]] = value[u[b]]

(* Two arrays are the same if they have the same members in the same order. *)
LEMMA ArraysAlike ==
  ASSUME NEW m, NEW D, NEW s \in Seq(D), NEW u \in Seq(D), NEW same, NEW value,
         AnswersFor(s, u, same, value)
  PROVE  (Len(s) = Len(u) /\ \A a \in DOMAIN s : same[<<s[a], u[a]>>])
           <=> [a \in DOMAIN s |-> value[s[a]]] = [b \in DOMAIN u |-> value[u[b]]]
<1>1. PICK f, g : f = [a \in DOMAIN s |-> value[s[a]]] /\ g = [b \in DOMAIN u |-> value[u[b]]]
  OBVIOUS
<1>2. DOMAIN s = 1 .. Len(s) /\ DOMAIN u = 1 .. Len(u) /\ Len(s) \in Nat /\ Len(u) \in Nat
  OBVIOUS
<1>3. DOMAIN f = DOMAIN s /\ DOMAIN g = DOMAIN u /\ \A a \in DOMAIN s : f[a] = value[s[a]] /\ \A b \in DOMAIN u : g[b] = value[u[b]]
  BY <1>1
<1>4. ASSUME Len(s) = Len(u), \A a \in DOMAIN s : same[<<s[a], u[a]>>] PROVE f = g
  <2>1. DOMAIN s = DOMAIN u
    BY <1>2, <1>4
  <2>2. \A a \in DOMAIN s : value[s[a]] = value[u[a]]
    <3> SUFFICES ASSUME NEW a \in DOMAIN s PROVE value[s[a]] = value[u[a]]
      OBVIOUS
    <3> QED BY <1>4, <2>1 DEF AnswersFor
  <2>3. PICK E : E = DOMAIN s
    OBVIOUS
  <2>4. f = [a \in E |-> f[a]] /\ g = [a \in E |-> g[a]]
    <3>1. f = [a \in DOMAIN f |-> f[a]] /\ g = [a \in DOMAIN g |-> g[a]]
      BY <1>1
    <3> QED BY <1>3, <2>1, <2>3, <3>1
  <2>5. \A a \in E : f[a] = g[a]
    BY <1>3, <2>1, <2>2, <2>3
  <2> QED BY ONLY <2>4, <2>5
<1>5. ASSUME f = g PROVE Len(s) = Len(u) /\ \A a \in DOMAIN s : same[<<s[a], u[a]>>]
  <2>1. DOMAIN s = DOMAIN u
    BY <1>3, <1>5
  <2>2. Len(s) = Len(u)
    <3>1. \A x \in Nat : x # 0 => x \in 1 .. x
      OBVIOUS
    <3>2. PICK x, y : x = Len(s) /\ y = Len(u) /\ x \in Nat /\ y \in Nat
      BY <1>2
    <3>3. (x # 0 => x \in 1 .. y) /\ (y # 0 => y \in 1 .. x)
      BY <1>2, <2>1, <3>1, <3>2
    <3>4. x = y
      BY ONLY <3>2, <3>3
    <3> QED BY <3>2, <3>4
  <2>3. \A a \in DOMAIN s : value[s[a]] = value[u[a]]
    BY <1>3, <1>5, <2>1
  <2> QED BY <2>1, <2>2, <2>3 DEF AnswersFor
<1> QED BY <1>1, <1>4, <1>5

(* Two objects are if each has the members of the other. *)
LEMMA ObjectsAlike ==
  ASSUME NEW m, NEW k, NEW R, Heap(m, k, R, {}), NEW i \in DOMAIN k, NEW j \in DOMAIN k, NEW c \in BOOLEAN,
         NamesApart(m, i, c), NamesApart(m, j, c), NEW same, NEW value, Answers(m, i, j, same, value),
         NEW s, s = Members(m, i), NEW u, u = Members(m, j)
  PROVE  ((\A a \in DOMAIN s : FoundIn(m, s[a], j, c, same)) /\ (\A b \in DOMAIN u : FoundIn(m, u[b], i, c, same)))
           <=> {<<Name(m, s[a], c), value[s[a]]>> : a \in DOMAIN s} = {<<Name(m, u[b], c), value[u[b]]>> : b \in DOMAIN u}
<1>1. /\ s \in Seq(DOMAIN k) /\ u \in Seq(DOMAIN k)
      /\ \A a \in DOMAIN s : s[a] \in DOMAIN k /\ m.at[s[a]].string # Null
      /\ \A b \in DOMAIN u : u[b] \in DOMAIN k /\ m.at[u[b]].string # Null
  <2>1. s \in Seq(DOMAIN k) /\ u \in Seq(DOMAIN k)
    BY MembersInside
  <2> QED BY <2>1 DEF NamesApart
<1>2. ASSUME NEW a \in DOMAIN s
      PROVE  FoundIn(m, s[a], j, c, same) <=> \E b \in DOMAIN u : Name(m, u[b], c) = Name(m, s[a], c) /\ value[s[a]] = value[u[b]]
  <2>1. PICK e : e = s[a]
    OBVIOUS
  <2>2. FoundIn(m, e, j, c, same) <=> \E b \in DOMAIN u : Name(m, u[b], c) = Name(m, e, c) /\ same[<<e, u[b]>>]
    BY <1>1, <2>1, FoundIs
  <2>3. \A b \in DOMAIN u : same[<<e, u[b]>>] <=> value[e] = value[u[b]]
    BY <2>1 DEF Answers
  <2> QED BY <2>1, <2>2, <2>3
<1>3. ASSUME NEW b \in DOMAIN u
      PROVE  FoundIn(m, u[b], i, c, same) <=> \E a \in DOMAIN s : Name(m, s[a], c) = Name(m, u[b], c) /\ value[s[a]] = value[u[b]]
  <2>1. PICK e : e = u[b]
    OBVIOUS
  <2>2. FoundIn(m, e, i, c, same) <=> \E a \in DOMAIN s : Name(m, s[a], c) = Name(m, e, c) /\ same[<<e, s[a]>>]
    BY <1>1, <2>1, FoundIs
  <2>3. \A a \in DOMAIN s : same[<<e, s[a]>>] <=> value[s[a]] = value[e]
    BY <2>1 DEF Answers
  <2> QED BY <2>1, <2>2, <2>3
<1> DEFINE S == {<<Name(m, s[a], c), value[s[a]]>> : a \in DOMAIN s}
           U == {<<Name(m, u[b], c), value[u[b]]>> : b \in DOMAIN u}
<1>p. \A v, w, x, y : <<v, w>> = <<x, y>> <=> v = x /\ w = y
  OBVIOUS
<1>f. PICK f, g : f = [a \in DOMAIN s |-> <<Name(m, s[a], c), value[s[a]]>>] /\ g = [b \in DOMAIN u |-> <<Name(m, u[b], c), value[u[b]]>>]
  OBVIOUS
<1>g. S = {f[a] : a \in DOMAIN s} /\ U = {g[b] : b \in DOMAIN u}
  BY <1>f
<1>h. \A a \in DOMAIN s, b \in DOMAIN u : f[a] = g[b] <=> Name(m, u[b], c) = Name(m, s[a], c) /\ value[s[a]] = value[u[b]]
  BY <1>f, <1>p
<1> HIDE DEF S, U
<1>4. S \subseteq U <=> \A a \in DOMAIN s : \E b \in DOMAIN u : Name(m, u[b], c) = Name(m, s[a], c) /\ value[s[a]] = value[u[b]]
  <2>1. S \subseteq U <=> \A a \in DOMAIN s : \E b \in DOMAIN u : f[a] = g[b]
    BY ONLY <1>g
  <2> QED BY <2>1, <1>h
<1>5. U \subseteq S <=> \A b \in DOMAIN u : \E a \in DOMAIN s : Name(m, s[a], c) = Name(m, u[b], c) /\ value[s[a]] = value[u[b]]
  <2>1. U \subseteq S <=> \A b \in DOMAIN u : \E a \in DOMAIN s : f[a] = g[b]
    BY ONLY <1>g
  <2> QED BY <2>1, <1>h
<1>6. S = U <=> S \subseteq U /\ U \subseteq S
  OBVIOUS
<1>7. ((\A a \in DOMAIN s : FoundIn(m, s[a], j, c, same)) /\ (\A b \in DOMAIN u : FoundIn(m, u[b], i, c, same))) <=> S = U
  BY <1>2, <1>3, <1>4, <1>5, <1>6
<1> QED BY <1>7 DEF S, U

(* One call says whether the values are the same, if the calls it makes do. *)
LEMMA CompareOnce ==
  ASSUME NEW m, NEW k, NEW R, Heap(m, k, R, {}), NEW i \in DOMAIN k, NEW j \in DOMAIN k, NEW c \in BOOLEAN,
         m.at[i].type = "object" => NamesApart(m, i, c), m.at[j].type = "object" => NamesApart(m, j, c),
         NEW same, NEW value, Answers(m, i, j, same, value)
  PROVE  CompareItems(m, i, j, c, same) <=> ValueOf(m, i, c, value) = ValueOf(m, j, c, value)
<1>1. PICK x, y, s, u : x = m.at[i] /\ y = m.at[j] /\ s = Members(m, i) /\ u = Members(m, j)
  OBVIOUS
<1>2. DataFits(x) /\ DataFits(y) /\ x \in ItemOf /\ y \in ItemOf
  BY <1>1 DEF Heap, Linked, IsMemory
<1>3. PICK lx, ly, mx, my :
        /\ lx = IF x.type = "array" THEN [a \in DOMAIN s |-> value[s[a]]] ELSE <<>>
        /\ ly = IF y.type = "array" THEN [a \in DOMAIN u |-> value[u[a]]] ELSE <<>>
        /\ mx = IF x.type = "object" THEN {<<Name(m, s[a], c), value[s[a]]>> : a \in DOMAIN s} ELSE {}
        /\ my = IF y.type = "object" THEN {<<Name(m, u[a], c), value[u[a]]>> : a \in DOMAIN u} ELSE {}
  OBVIOUS
<1>4. /\ ValueOf(m, i, c, value) = [type |-> x.type, scalar |-> <<x.valuestring, x.value>>, list |-> lx, members |-> mx]
      /\ ValueOf(m, j, c, value) = [type |-> y.type, scalar |-> <<y.valuestring, y.value>>, list |-> ly, members |-> my]
  BY <1>1, <1>3 DEF ValueOf
<1>5. ValueOf(m, i, c, value) = ValueOf(m, j, c, value)
        <=> x.type = y.type /\ x.valuestring = y.valuestring /\ x.value = y.value /\ lx = ly /\ mx = my
  <2>1. PICK a, b : a = <<x.valuestring, x.value>> /\ b = <<y.valuestring, y.value>>
    OBVIOUS
  <2>2. a = b <=> x.valuestring = y.valuestring /\ x.value = y.value
    BY <2>1
  <2>3. [type |-> x.type, scalar |-> a, list |-> lx, members |-> mx] = [type |-> y.type, scalar |-> b, list |-> ly, members |-> my]
          <=> x.type = y.type /\ a = b /\ lx = ly /\ mx = my
    OBVIOUS
  <2> QED BY <1>4, <2>1, <2>2, <2>3
<1>6. PICK L, B : /\ L <=> Len(s) = Len(u) /\ \A a \in DOMAIN s : same[<<s[a], u[a]>>]
                  /\ B <=> (\A a \in DOMAIN s : FoundIn(m, s[a], j, c, same)) /\ (\A b \in DOMAIN u : FoundIn(m, u[b], i, c, same))
  OBVIOUS
<1>7. CompareItems(m, i, j, c, same) <=>
        /\ x.type = y.type
        /\ \/ i = j
           \/ x.type = "null"
           \/ x.type = "number" /\ x.value = y.value
           \/ x.type \in {"string", "raw"} /\ Null # x.valuestring /\ x.valuestring = y.valuestring
           \/ x.type = "array" /\ L
           \/ x.type = "object" /\ B
  BY <1>1, <1>6 DEF CompareItems
<1>8. CASE i = j
  BY <1>7, <1>1, <1>8
<1>9. CASE i # j /\ x.type # y.type
  BY <1>5, <1>7, <1>9
<1>10. CASE i # j /\ x.type = y.type /\ x.type \notin {"array", "object"}
  <2>1. lx = <<>> /\ ly = <<>> /\ mx = {} /\ my = {}
    BY <1>3, <1>10
  <2>2. x.type \in {"null", "number", "string", "raw"}
    BY <1>2, <1>10 DEF ItemOf, ItemTypes
  <2> QED BY <1>2, <1>5, <1>7, <1>10, <2>1, <2>2 DEF DataFits
<1>11. CASE i # j /\ x.type = y.type /\ x.type = "array"
  <2>1. L <=> lx = ly
    <3>1. s \in Seq(DOMAIN k) /\ u \in Seq(DOMAIN k)
      BY <1>1, MembersInside
    <3>2. AnswersFor(s, u, same, value)
      BY <1>1 DEF Answers, AnswersFor
    <3>3. (Len(s) = Len(u) /\ \A a \in DOMAIN s : same[<<s[a], u[a]>>])
            <=> [a \in DOMAIN s |-> value[s[a]]] = [b \in DOMAIN u |-> value[u[b]]]
      BY <3>1, <3>2, ArraysAlike
    <3> QED BY <1>3, <1>6, <1>11, <3>3
  <2>2. mx = my
    BY <1>3, <1>11
  <2>3. x.valuestring = y.valuestring /\ x.value = y.value
    BY <1>2, <1>11 DEF DataFits
  <2> QED BY <1>5, <1>7, <1>11, <2>1, <2>2, <2>3
<1>12. CASE i # j /\ x.type = y.type /\ x.type = "object"
  <2>1. B <=> mx = my
    <3>1. NamesApart(m, i, c) /\ NamesApart(m, j, c)
      BY <1>1, <1>12
    <3>2. ((\A a \in DOMAIN s : FoundIn(m, s[a], j, c, same)) /\ (\A b \in DOMAIN u : FoundIn(m, u[b], i, c, same)))
            <=> {<<Name(m, s[a], c), value[s[a]]>> : a \in DOMAIN s} = {<<Name(m, u[b], c), value[u[b]]>> : b \in DOMAIN u}
      BY <1>1, <3>1, ObjectsAlike
    <3> QED BY <1>3, <1>6, <1>12, <3>2
  <2>2. lx = ly
    BY <1>3, <1>12
  <2>3. x.valuestring = y.valuestring /\ x.value = y.value
    BY <1>2, <1>12 DEF DataFits
  <2> QED BY <1>5, <1>7, <1>12, <2>1, <2>2, <2>3
<1> QED BY <1>8, <1>9, <1>10, <1>11, <1>12


(* So do n levels of calls, where n levels have names. *)
LEMMA LevelsCompare ==
  ASSUME NEW m, NEW k, NEW R, Heap(m, k, R, {}), NEW c \in BOOLEAN, NEW same, NEW value, NEW named,
         CompareLevels(m, c, same), ValueLevels(m, c, value), NamedLevels(m, c, named),
         NEW i \in DOMAIN k, NEW j \in DOMAIN k, WellNamed(m, i, c), WellNamed(m, j, c)
  PROVE  cJSON_Compare(m, i, j, c) <=> Value(m, i, c) = Value(m, j, c)
<1>1. PICK M \in Nat : M = Cardinality(Items)
  BY ItemsFinite
<1>2. DOMAIN k \subseteq DOMAIN m.at
  BY DEF Heap, Linked
<1> DEFINE Right(n) == \A x, y \in DOMAIN k : named[n][x] /\ named[n][y] => (same[n][<<x, y>>] <=> value[n][x] = value[n][y])
           S == {n \in Nat : n <= M => Right(n)}
<1>3. 0 \in S
  <2>1. \A x, y \in DOMAIN k : same[0][<<x, y>>] <=> x = y
    <3>1. \A x, y \in DOMAIN m.at : same[0][<<x, y>>] <=> x = y
      BY Zenon DEF CompareLevels
    <3> SUFFICES ASSUME NEW x \in DOMAIN k, NEW y \in DOMAIN k PROVE same[0][<<x, y>>] <=> x = y
      OBVIOUS
    <3>2. x \in DOMAIN m.at /\ y \in DOMAIN m.at
      BY <1>2
    <3> QED BY <3>1, <3>2, Zenon
  <2>2. \A x \in DOMAIN k : value[0][x] = x
    BY <1>2 DEF ValueLevels
  <2> QED BY <2>1, <2>2
<1>4. ASSUME NEW n \in Nat, n \in S PROVE n + 1 \in S
  <2> SUFFICES ASSUME n + 1 <= M, NEW x \in DOMAIN k, NEW y \in DOMAIN k, named[n + 1][x], named[n + 1][y]
               PROVE  same[n + 1][<<x, y>>] <=> value[n + 1][x] = value[n + 1][y]
    OBVIOUS
  <2>1. \A v, w \in DOMAIN k : named[n][v] /\ named[n][w] => (same[n][<<v, w>>] <=> value[n][v] = value[n][w])
    BY <1>4
  <2> HIDE DEF S
  <2>2. PICK f, g, h : f = same[n] /\ g = value[n] /\ h = named[n]
    OBVIOUS
  <2>3. /\ m.at[x].type = "object" => NamesApart(m, x, c)
        /\ m.at[y].type = "object" => NamesApart(m, y, c)
        /\ \A l \in ToSet(Members(m, x)) : h[l]
        /\ \A l \in ToSet(Members(m, y)) : h[l]
    BY <1>1, <1>2, <2>2 DEF NamedLevels
  <2>4. Members(m, x) \in Seq(DOMAIN k) /\ Members(m, y) \in Seq(DOMAIN k)
    BY MembersInside
  <2>5. /\ \A a \in DOMAIN Members(m, x) : Members(m, x)[a] \in DOMAIN k /\ h[Members(m, x)[a]]
        /\ \A b \in DOMAIN Members(m, y) : Members(m, y)[b] \in DOMAIN k /\ h[Members(m, y)[b]]
    BY <2>3, <2>4 DEF ToSet
  <2>6. Answers(m, x, y, f, g)
    <3> SUFFICES ASSUME NEW a \in DOMAIN Members(m, x), NEW b \in DOMAIN Members(m, y)
                 PROVE  /\ f[<<Members(m, x)[a], Members(m, y)[b]>>] <=> g[Members(m, x)[a]] = g[Members(m, y)[b]]
                        /\ f[<<Members(m, y)[b], Members(m, x)[a]>>] <=> g[Members(m, x)[a]] = g[Members(m, y)[b]]
      BY DEF Answers
    <3>1. PICK v, w : v = Members(m, x)[a] /\ w = Members(m, y)[b]
      OBVIOUS
    <3>2. v \in DOMAIN k /\ w \in DOMAIN k /\ h[v] /\ h[w]
      BY <2>5, <3>1
    <3>3. (f[<<v, w>>] <=> g[v] = g[w]) /\ (f[<<w, v>>] <=> g[w] = g[v])
      BY <2>1, <2>2, <3>2
    <3> QED BY <3>1, <3>3
  <2>7. CompareItems(m, x, y, c, f) <=> ValueOf(m, x, c, g) = ValueOf(m, y, c, g)
    BY <2>3, <2>6, CompareOnce
  <2>8. same[n + 1][<<x, y>>] <=> CompareItems(m, x, y, c, f)
    BY <1>1, <1>2, <2>2 DEF CompareLevels
  <2>9. value[n + 1][x] = ValueOf(m, x, c, g) /\ value[n + 1][y] = ValueOf(m, y, c, g)
    BY <1>1, <1>2, <2>2 DEF ValueLevels
  <2> QED BY <2>7, <2>8, <2>9
<1> HIDE DEF S
<1>5. Nat \subseteq S
  BY <1>3, <1>4, Induction
<1>6. Right(M)
  BY <1>5 DEF S
<1>7. named[M][i] /\ named[M][j]
  BY <1>1 DEF NamedLevels
<1>8. cJSON_Compare(m, i, j, c) = same[M][<<i, j>>]
  BY <1>1 DEF CompareLevels
<1>9. Value(m, i, c) = value[M][i] /\ Value(m, j, c) = value[M][j]
  BY <1>1 DEF ValueLevels
<1> QED BY <1>6, <1>7, <1>8, <1>9

-----------------------------------------------------------------------------
(* The theorems. *)

(* After any sequence of calls, with failures of the allocator in any of   *)
(* them, memory holds a forest of which the application has the roots.     *)
THEOREM ForestStands == Spec => []IInv
<1>1. Init => IInv
  BY InitHeap DEF IInv
<1>2. IInv /\ [Next]_vars => IInv'
  <2> SUFFICES ASSUME IInv, [Next]_vars PROVE IInv'
    OBVIOUS
  <2>1. PICK k : Heap(mem, k, held, {})
    BY DEF IInv
  <2>2. PICK g : Heap(mem', g, held', {})
    BY <2>1, StepHeap DEF Outcome
  <2> QED BY <2>2 DEF IInv
<1> QED BY <1>1, <1>2, PTL DEF Spec

(* The links of every list agree after any sequence of calls: the first    *)
(* prev is the last item, next and prev are inverse, and no link leads to  *)
(* an item that was freed.                                                 *)
THEOREM LinksAgree == Spec => []LinksSound
<1>1. IInv => LinksSound
  BY HeapSound DEF IInv
<1> QED BY <1>1, ForestStands, PTL

(* No call loses an item, but for the references that                      *)
(* cJSON_AddItemReferenceToObject drops, and no string is lost or freed    *)
(* twice, also where a call fails half way.                                *)
THEOREM NothingLost == Spec => []NoLeak
<1>1. IInv => NoLeak
  BY HeapKept DEF IInv
<1> QED BY <1>1, ForestStands, PTL

(* A copy is whole and like its original, or there is none and nothing of  *)
(* it is left, wherever in the tree the allocator fails.                   *)
THEOREM CopiesOrNothing == Spec => []CopyOrNothing
<1>1. IInv => CopyOrNothing
  <2> SUFFICES ASSUME IInv, NEW i \in Live PROVE Copied(mem, i, cJSON_Duplicate(mem, i, TRUE))
    BY DEF CopyOrNothing
  <2>1. PICK k : Heap(mem, k, held, {})
    BY DEF IInv
  <2>2. i \in DOMAIN k
    BY <2>1, LiveIs
  <2> QED BY <2>1, <2>2, CopyIs
<1> QED BY <1>1, ForestStands, PTL

(* cJSON_Compare answers whether two items stand for the same value,       *)
(* whatever the order of the members of their objects, if no object has    *)
(* two members of one name, with and without case.                         *)
THEOREM ComparesValues == Spec => []CompareIsEquality
<1>1. IInv => CompareIsEquality
  <2> SUFFICES ASSUME IInv, NEW a \in Live, NEW b \in Live, NEW c \in BOOLEAN,
                      WellNamed(mem, a, c), WellNamed(mem, b, c)
               PROVE  cJSON_Compare(mem, a, b, c) <=> Value(mem, a, c) = Value(mem, b, c)
    BY DEF CompareIsEquality
  <2>1. PICK k : Heap(mem, k, held, {})
    BY DEF IInv
  <2>2. a \in DOMAIN k /\ b \in DOMAIN k
    BY <2>1, LiveIs
  <2>3. PICK same : CompareLevels(mem, c, same)
    BY CompareRun
  <2>4. PICK value : ValueLevels(mem, c, value)
    BY ValueRun
  <2>5. PICK named : NamedLevels(mem, c, named)
    BY NamedRun
  <2> QED BY <2>1, <2>2, <2>3, <2>4, <2>5, LevelsCompare
<1> QED BY <1>1, ForestStands, PTL

(* Every call does to the lists what one step of JsonForest does: one      *)
(* member added, moved, detached or replaced, or one tree made or freed.   *)
THEOREM ImplementsForest == Spec => IsForest
<1>1. Init => Forest!ForestInit
  <2> SUFFICES ASSUME Init PROVE Forest!ForestInit
    OBVIOUS
  <2>1. Heap(mem, <<>>, held, {})
    BY InitHeap
  <2>2. PICK k : k = <<>>
    OBVIOUS
  <2>3. KidsOf(mem, held) = k
    BY <2>1, <2>2, KidsAre
  <2>4. Kids = <<>>
    BY <2>2, <2>3 DEF Kids, KidsOf, Live
  <2> QED BY <2>4 DEF Forest!ForestInit, Init
<1>2. IInv /\ [Next]_vars => [Forest!ForestNext]_(Forest!forestVars)
  <2> SUFFICES ASSUME IInv, [Next]_vars PROVE [Forest!ForestNext]_(Forest!forestVars)
    OBVIOUS
  <2>1. PICK k : Heap(mem, k, held, {})
    BY DEF IInv
  <2>2. PICK g : Heap(mem', g, held', {}) /\ Moves(k, held, g, held')
    BY <2>1, StepHeap DEF Outcome
  <2>3. KidsOf(mem, held) = k /\ KidsOf(mem', held') = g
    BY <2>1, <2>2, KidsAre
  <2>4. Kids = k
    BY <2>3 DEF Kids, KidsOf, Live
  <2>5. Kids' = g
    BY <2>3 DEF Kids, KidsOf, Live
  <2>6. IsForestOf(k, held) /\ DOMAIN k \subseteq Items
    BY <2>1, LiveIs
  <2> QED BY <2>2, <2>4, <2>5, <2>6, MovesForest
<1> QED BY <1>1, <1>2, ForestStands, PTL DEF Spec, IsForest, Forest!ForestSpec

==============================================================================
