------------------------------ MODULE JsonTree ------------------------------
(***************************************************************************)
(* The trees of cJSON.c: items linked by next, prev and child, and the     *)
(* calls that create, add, insert, detach, replace, copy, compare and      *)
(* delete them.  The first item of a list has the last one as its prev,    *)
(* and the last one has no next.                                           *)
(*                                                                         *)
(* Each C function is an operator from a memory to a memory, or to a pair  *)
(* of a memory m and a result ret.  An action is one call of the           *)
(* application, which keeps to what cJSON.h asks: it adds items that stand *)
(* alone, never below themselves, and leaves a tree as it is while there   *)
(* are references into it.                                                 *)
(***************************************************************************)
EXTENDS Integers, Sequences, FiniteSets, SequencesExt

CONSTANTS
  Items,     \* addresses of items
  MaxCalls,  \* bound: calls the application makes
  MaxStrs,   \* strings the allocator has room for
  Types,     \* item types the application creates
  Vals,      \* lengths of valuestrings, or numbers
  Keys,      \* names of members
  Literals,  \* names that are constants of the application
  Fold       \* [Keys -> Keys]: tolower

Null == 0

ASSUME TreeAssumption ==
  /\ IsFiniteSet(Items) /\ Null \notin Items
  /\ MaxStrs \in Nat /\ MaxCalls \in Nat /\ Vals \subseteq Nat \ {0}
  /\ Types \subseteq {"null", "number", "string", "raw", "array", "object"}
  /\ Literals \subseteq Keys /\ Fold \in [Keys -> Keys] /\ Null \notin Keys

VARIABLES
  mem,   \* [at |-> the live items, strs |-> how many strings are allocated]
  held,  \* items the application has a pointer to and that stand alone
  calls  \* how many calls it has made

vars == <<mem, held, calls>>

-----------------------------------------------------------------------------
(* Memory. *)

(* cJSON_New_Item clears the item. *)
Blank == [next |-> Null, prev |-> Null, child |-> Null, type |-> "null", ref |-> FALSE,
          const |-> FALSE, valuestring |-> Null, value |-> 0, string |-> Null]

Put(m, i, field, v) == [m EXCEPT !.at[i][field] = v]

Result(m, r) == [m |-> m, ret |-> r]

Unused(m) == Items \ DOMAIN m.at

(* The address does not matter: unused ones are alike. *)
cJSON_New_Item(m) ==
  IF Unused(m) = {} THEN Result(m, Null)
  ELSE LET i == CHOOSE j \in Unused(m) : TRUE
       IN  Result([m EXCEPT !.at = [j \in DOMAIN m.at \cup {i} |-> IF j = i THEN Blank ELSE m.at[j]]], i)

CanDup(m) == m.strs < MaxStrs

(* cJSON_strdup into a field of item i, where there is room. *)
cJSON_strdup(m, i, field, s) == [Put(m, i, field, s) EXCEPT !.strs = @ + 1]

FreeString(m, i, field) == [Put(m, i, field, Null) EXCEPT !.strs = @ - 1]

OwnsString(it) == it.string # Null /\ ~it.const
OwnsValue(it)  == it.valuestring # Null /\ ~it.ref

Release(m, i) ==
  [at   |-> [j \in DOMAIN m.at \ {i} |-> m.at[j]],
   strs |-> m.strs - Cardinality({f \in {"key", "value"} :
              IF f = "key" THEN OwnsString(m.at[i]) ELSE OwnsValue(m.at[i])})]

Push(i, stack) == IF i = Null THEN stack ELSE <<i>> \o stack

(* An item is freed; what is below it is next, then the sibling after it. *)
DeleteStep(s) ==
  LET i    == Head(s.stack)
      rest == Push(s.m.at[i].next, Tail(s.stack))
  IN  IF s.stack = <<>> THEN s
      ELSE [m |-> Release(s.m, i), stack |-> IF s.m.at[i].ref THEN rest ELSE Push(s.m.at[i].child, rest)]

(* Deletes an item, what is below it, and the siblings after it: calls of  *)
(* its own are the stack.                                                  *)
cJSON_Delete(m, i) ==
  LET run[n \in 0 .. Cardinality(Items)] ==
        IF n = 0 THEN [m |-> m, stack |-> Push(i, <<>>)] ELSE DeleteStep(run[n - 1])
  IN  run[Cardinality(Items)].m

-----------------------------------------------------------------------------
(* Looking up. *)

(* The walk along next from i. *)
Siblings(m, i) ==
  LET walk[n \in 0 .. Cardinality(Items)] ==
        IF n = 0 THEN i
        ELSE LET j == walk[n - 1] IN IF j = Null THEN Null ELSE m.at[j].next
      length == Cardinality({n \in 0 .. Cardinality(Items) : walk[n] # Null})
  IN  [n \in 1 .. length |-> walk[n - 1]]

Members(m, a) == Siblings(m, m.at[a].child)

get_array_item(m, a, which) ==
  IF which < Len(Members(m, a)) THEN Members(m, a)[which + 1] ELSE Null

case_insensitive_strcmp(k, l) == k # Null /\ l # Null /\ Fold[k] = Fold[l]

(* The first member with the name; a search that minds the case gives up   *)
(* at a member without a name.                                             *)
get_object_item(m, o, k, case_sensitive) ==
  LET s       == Members(m, o)
      stop(j) == IF case_sensitive THEN m.at[s[j]].string \in {Null, k}
                 ELSE case_insensitive_strcmp(k, m.at[s[j]].string)
      stops   == {j \in DOMAIN s : stop(j)}
  IN  IF stops = {} \/ m.at[s[Min(stops)]].string = Null THEN Null ELSE s[Min(stops)]

-----------------------------------------------------------------------------
(* Lists. *)

suffix_object(m, prev, item) == Put(Put(m, prev, "next", item), item, "prev", prev)

(* The first item does not learn of the new last one. *)
MutAddToArray(m, a, item) ==
  IF item = Null \/ a = item THEN Result(m, FALSE)
  ELSE IF m.at[a].child = Null
       THEN Result(Put(Put(Put(m, a, "child", item), item, "prev", item), item, "next", Null), TRUE)
       ELSE Result(suffix_object(m, m.at[m.at[a].child].prev, item), TRUE)

add_item_to_array(m, a, item) ==
  IF item = Null \/ a = item THEN Result(m, FALSE)
  ELSE IF m.at[a].child = Null
       THEN Result(Put(Put(Put(m, a, "child", item), item, "prev", item), item, "next", Null), TRUE)
       ELSE LET c == m.at[a].child
            IN  Result(IF m.at[c].prev = Null THEN m
                       ELSE Put(suffix_object(m, m.at[c].prev, item), c, "prev", item), TRUE)

(* The old name is not freed. *)
MutSetName(m, item, k, constant) ==
  Put(IF constant THEN Put(m, item, "string", k) ELSE cJSON_strdup(m, item, "string", k), item, "const", constant)

(* The item's new name, allocated or constant, in place of its old one. *)
SetName(m, item, k, constant) ==
  LET freed == IF OwnsString(m.at[item]) THEN FreeString(m, item, "string") ELSE m
      named == IF constant THEN Put(freed, item, "string", k) ELSE cJSON_strdup(freed, item, "string", k)
  IN  Put(named, item, "const", constant)

(* The copy of the name is made before the old name is freed. *)
add_item_to_object(m, o, k, item, constant) ==
  IF item = Null \/ o = item \/ (~constant /\ ~CanDup(m)) THEN Result(m, FALSE)
  ELSE add_item_to_array(SetName(m, item, k, constant), o, item)

(* A copy that shares child and valuestring with the item. *)
create_reference(m, item) ==
  LET n == cJSON_New_Item(m)
  IN  IF n.ret = Null THEN n
      ELSE Result([n.m EXCEPT !.at[n.ret] =
             [m.at[item] EXCEPT !.string = Null, !.ref = TRUE, !.next = Null, !.prev = Null]], n.ret)

(* The item before the detached one still leads to it. *)
MutDetach(m, p, item) ==
  LET it == m.at[item]
      m2 == IF it.next # Null THEN Put(m, it.next, "prev", it.prev) ELSE m
      m3 == IF item = m.at[p].child THEN Put(m2, p, "child", it.next)
            ELSE IF it.next = Null THEN Put(m2, m2.at[p].child, "prev", it.prev) ELSE m2
  IN  Put(Put(m3, item, "prev", Null), item, "next", Null)

cJSON_DetachItemViaPointer(m, p, item) ==
  LET it == m.at[item]
      m1 == IF item # m.at[p].child THEN Put(m, it.prev, "next", it.next) ELSE m
      m2 == IF it.next # Null THEN Put(m1, it.next, "prev", it.prev) ELSE m1
      m3 == IF item = m.at[p].child THEN Put(m2, p, "child", it.next)
            ELSE IF it.next = Null THEN Put(m2, m2.at[p].child, "prev", it.prev) ELSE m2
  IN  Put(Put(m3, item, "prev", Null), item, "next", Null)

cJSON_InsertItemInArray(m, a, which, new) ==
  LET after == get_array_item(m, a, which)
  IN  IF after = Null THEN add_item_to_array(m, a, new)
      ELSE LET m1 == Put(Put(m, new, "next", after), new, "prev", m.at[after].prev)
               m2 == Put(m1, after, "prev", new)
           IN  Result(IF after = m.at[a].child THEN Put(m2, a, "child", new)
                      ELSE Put(m2, m2.at[new].prev, "next", new), TRUE)

cJSON_ReplaceItemViaPointer(m, p, item, new) ==
  IF item = Null THEN Result(m, FALSE)
  ELSE LET it == m.at[item]
           m1 == Put(Put(m, new, "next", it.next), new, "prev", it.prev)
           m2 == IF it.next # Null THEN Put(m1, it.next, "prev", new) ELSE m1
           m3 == IF m.at[p].child = item
                 THEN Put(IF m2.at[item].prev = item THEN Put(m2, new, "prev", new) ELSE m2, p, "child", new)
                 ELSE LET m4 == IF it.prev # Null THEN Put(m2, it.prev, "next", new) ELSE m2
                      IN  IF it.next = Null THEN Put(m4, m4.at[p].child, "prev", new) ELSE m4
       IN  Result(cJSON_Delete(Put(Put(m3, item, "next", Null), item, "prev", Null), item), TRUE)

(* The replacement loses its name first; without room for a copy of the    *)
(* new one it is left without.                                             *)
replace_item_in_object(m, o, k, new, case_sensitive) ==
  LET freed == IF OwnsString(m.at[new]) THEN FreeString(m, new, "string")
               ELSE Put(m, new, "string", Null)
  IN  IF ~CanDup(freed) THEN Result(freed, FALSE)
      ELSE LET named == Put(cJSON_strdup(freed, new, "string", k), new, "const", FALSE)
           IN  cJSON_ReplaceItemViaPointer(named, o, get_object_item(named, o, k, case_sensitive), new)

-----------------------------------------------------------------------------
(* Creating and copying. *)

Typed(m, t, v) ==
  LET n == cJSON_New_Item(m)
  IN  IF n.ret = Null THEN n
      ELSE Result(Put(Put(n.m, n.ret, "type", t), n.ret, "value", v), n.ret)

(* cJSON_CreateString and cJSON_CreateRaw: without room for the text the   *)
(* item is deleted again.                                                  *)
cJSON_CreateString(m, t, v) ==
  LET n == Typed(m, t, 0)
  IN  IF n.ret = Null THEN n
      ELSE IF CanDup(n.m) THEN Result(cJSON_strdup(n.m, n.ret, "valuestring", v), n.ret)
           ELSE Result(cJSON_Delete(n.m, n.ret), Null)

Create(m, t, v) == IF t \in {"string", "raw"} THEN cJSON_CreateString(m, t, v)
                   ELSE Typed(m, t, IF t = "number" THEN v ELSE 0)

cJSON_CreateStringReference(m, v) ==
  LET n == Typed(m, "string", 0)
  IN  IF n.ret = Null THEN n
      ELSE Result([n.m EXCEPT !.at[n.ret] = [@ EXCEPT !.valuestring = v, !.ref = TRUE]], n.ret)

cJSON_CreateArrayReference(m, c) ==
  LET n == Typed(m, "array", 0)
  IN  IF n.ret = Null THEN n
      ELSE Result([n.m EXCEPT !.at[n.ret] = [@ EXCEPT !.child = c, !.ref = TRUE]], n.ret)

(* Linking item after last, or as the first of a's list. *)
Chain(m, a, last, item) == IF last = Null THEN Put(m, a, "child", item)
                           ELSE suffix_object(m, last, item)

CloseList(m, a, last) == IF last = Null THEN m ELSE Put(m, m.at[a].child, "prev", last)

(* One turn of the loop, after which the call has failed or is behind last. *)
FillStep(s, a, t, v) ==
  LET new == Create(s.m, t, v)
  IN  IF s.failed THEN s
      ELSE IF new.ret = Null THEN [m |-> cJSON_Delete(new.m, a), last |-> Null, failed |-> TRUE]
      ELSE [m |-> Chain(new.m, a, s.last, new.ret), last |-> new.ret, failed |-> FALSE]

(* cJSON_CreateIntArray, FloatArray, DoubleArray and StringArray. *)
CreateFilledArray(m, t, v, count) ==
  LET a == Typed(m, "array", 0)
      run[n \in 0 .. count] ==
        IF n = 0 THEN [m |-> a.m, last |-> Null, failed |-> FALSE] ELSE FillStep(run[n - 1], a.ret, t, v)
      end == run[count]
  IN  IF a.ret = Null THEN a
      ELSE IF end.failed THEN Result(end.m, Null)
      ELSE Result(CloseList(end.m, a.ret, end.last), a.ret)

(* Not a reference: it owns its text, and what is below it. *)
CopyItem(m, i) ==
  LET it == m.at[i]
      n  == Typed(m, it.type, it.value)
      m1 == Put(n.m, n.ret, "const", it.const)
      m2 == IF it.valuestring = Null THEN m1
            ELSE cJSON_strdup(m1, n.ret, "valuestring", it.valuestring)
      m3 == IF it.string = Null \/ it.const THEN Put(m2, n.ret, "string", it.string)
            ELSE cJSON_strdup(m2, n.ret, "string", it.string)
  IN  IF n.ret = Null THEN n
      ELSE IF it.valuestring # Null /\ ~CanDup(m1) THEN Result(cJSON_Delete(m1, n.ret), Null)
      ELSE IF OwnsString(it) /\ ~CanDup(m2) THEN Result(cJSON_Delete(m2, n.ret), Null)
      ELSE Result(m3, n.ret)

(* A call of cJSON_Duplicate in its loop: the copy, the next child to copy  *)
(* and the copy of the one before.                                         *)
CopyLoop(child, new, last) == [child |-> child, new |-> new, last |-> last]

(* The copies are left where they are. *)
MutGiveBack(s) == [s EXCEPT !.stack = Tail(@)]

(* On a failure every call deletes its copy and fails. *)
GiveBack(s) == [s EXCEPT !.m = cJSON_Delete(@, Head(s.stack).new), !.stack = Tail(@)]

(* No child is left: the call returns its copy to the one that made it.    *)
CopyReturn(s) ==
  LET f == Head(s.stack)
      m == CloseList(s.m, f.new, f.last)
      g == s.stack[2]
  IN  IF Len(s.stack) = 1 THEN [s EXCEPT !.m = m, !.stack = <<>>, !.ret = f.new]
      ELSE [s EXCEPT !.m = Chain(m, g.new, g.last, f.new),
                     !.stack = <<CopyLoop(m.at[g.child].next, g.new, f.new)>> \o Tail(Tail(@))]

CopyChild(s) ==
  LET child == Head(s.stack).child
      n     == CopyItem(s.m, child)
  IN  IF n.ret = Null THEN [s EXCEPT !.m = n.m, !.failed = TRUE]
      ELSE [s EXCEPT !.m = n.m, !.stack = <<CopyLoop(s.m.at[child].child, n.ret, Null)>> \o @]

DuplicateStep(s) == IF s.stack = <<>> THEN s
                    ELSE IF s.failed THEN GiveBack(s)
                    ELSE IF Head(s.stack).child = Null THEN CopyReturn(s) ELSE CopyChild(s)

(* Enough to make, to return and to give back as many copies as there are  *)
(* items.                                                                  *)
MaxSteps == 3 * Cardinality(Items) + 1

cJSON_Duplicate(m, i, recurse) ==
  LET n == CopyItem(m, i)
      run[k \in 0 .. MaxSteps] ==
        IF k = 0 THEN [m |-> n.m, stack |-> <<CopyLoop(m.at[i].child, n.ret, Null)>>, ret |-> Null, failed |-> FALSE]
        ELSE DuplicateStep(run[k - 1])
      end == run[MaxSteps]
  IN  IF n.ret = Null \/ ~recurse THEN n ELSE Result(end.m, end.ret)

(* A shorter text, or one as long, is copied over the old one. *)
cJSON_SetValuestring(m, i, v) ==
  IF m.at[i].type # "string" \/ m.at[i].ref \/ (v > m.at[i].valuestring /\ ~CanDup(m)) THEN m
  ELSE Put(m, i, "valuestring", v)

-----------------------------------------------------------------------------
(* What the application may do. *)

(* Whatever the links of items in S lead to is in S too. *)
Closed(m, S) == \A j \in S : /\ m.at[j].next \in S \cup {Null}
                             /\ m.at[j].ref \/ m.at[j].child \in S \cup {Null}

(* The siblings from i on, and what they own below them. *)
From(m, i) ==
  LET closed == {S \in SUBSET DOMAIN m.at : i \in S /\ Closed(m, S)}
  IN  {j \in DOMAIN m.at : i # Null /\ \A S \in closed : j \in S}

(* An item and what it owns below it. *)
Tree(m, i) == {i} \cup (IF m.at[i].ref THEN {} ELSE From(m, m.at[i].child))

Live == UNION {Tree(mem, i) : i \in held}

Container(i) == mem.at[i].type \in {"array", "object"}

(* What references outside of S show. *)
Borrowed(S) == UNION {From(mem, mem.at[r].child) : r \in {i \in Live \ S : mem.at[i].ref}}

MayChange(p) == /\ Container(p) /\ ~mem.at[p].ref
                /\ ({p} \cup ToSet(Members(mem, p))) \cap Borrowed({}) = {}

MayDelete(i) == IF i = Null THEN TRUE ELSE Tree(mem, i) \cap Borrowed(Tree(mem, i)) = {}

MayAdd(p, x) == MayChange(p) /\ p \notin Tree(mem, x)

Become(m, h) == mem' = m /\ held' = h

(* The application gets the new item, if there is one. *)
Receive(r) == Become(r.m, held \cup ({r.ret} \ {Null}))

(* The item is handed over if the call succeeds. *)
GiveUp(r, x) == Become(r.m, IF r.ret THEN held \ {x} ELSE held)

-----------------------------------------------------------------------------
(* The calls. *)

(* Types with the values they come with. *)
Scalars == (Types \ {"array", "object", "null"}) \X Vals
Kinds   == Scalars \cup ((Types \cap {"array", "object", "null"}) \X {0})

CreateItem == \E k \in Kinds : Receive(Create(mem, k[1], k[2]))

CreateArray == \E k \in Scalars, n \in 0 .. 2 : Receive(CreateFilledArray(mem, k[1], k[2], n))

CreateReference ==
  \/ \E v \in Vals : Receive(cJSON_CreateStringReference(mem, v))
  \/ \E p \in Live : Container(p) /\ Receive(cJSON_CreateArrayReference(mem, mem.at[p].child))

AddItemToArray == \E p \in Live, x \in held : MayAdd(p, x) /\ GiveUp(add_item_to_array(mem, p, x), x)

AddItemToObject ==
  \E p \in Live, x \in held, k \in Keys, constant \in BOOLEAN :
    /\ MayAdd(p, x) /\ mem.at[p].type = "object" /\ constant = (k \in Literals)
    /\ GiveUp(add_item_to_object(mem, p, k, x, constant), x)

(* A reference whose name cannot be copied is lost. *)
AddItemReference ==
  \E p, x \in Live, k \in (Keys \ Literals) \cup {Null} :
    /\ MayAdd(p, x)
    /\ mem.at[x].ref \/ mem.at[x].valuestring = Null
    /\ k = Null \/ mem.at[p].type = "object"
    /\ LET r == create_reference(mem, x)
       IN  Become((IF k = Null THEN add_item_to_array(r.m, p, r.ret)
                   ELSE add_item_to_object(r.m, p, k, r.ret, FALSE)).m, held)

(* The item a cJSON_Add...ToObject creates is deleted when it is not added. *)
AddNewToObject(m, o, k, t, v) ==
  LET n == Create(m, t, v)
      r == add_item_to_object(n.m, o, k, n.ret, FALSE)
  IN  IF r.ret THEN r.m ELSE cJSON_Delete(r.m, n.ret)

AddNew ==
  \E p \in Live, k \in Keys \ Literals, t \in Kinds :
    MayChange(p) /\ mem.at[p].type = "object" /\ Become(AddNewToObject(mem, p, k, t[1], t[2]), held)

(* The member a call names, by its place or by its name. *)
Named(m, p) ==
  {get_array_item(m, p, which) : which \in 0 .. Len(Members(m, p))}
    \cup {get_object_item(m, p, k, c) : k \in Keys, c \in BOOLEAN}

DetachItem ==
  \E p \in Live : \E x \in Named(mem, p) \ {Null} :
    MayChange(p) /\ Become(cJSON_DetachItemViaPointer(mem, p, x), held \cup {x})

DeleteItem ==
  \E p \in Live : \E x \in Named(mem, p) \ {Null} :
    /\ MayChange(p) /\ MayDelete(x)
    /\ Become(cJSON_Delete(cJSON_DetachItemViaPointer(mem, p, x), x), held)

InsertItemInArray ==
  \E p \in Live, x \in held : MayAdd(p, x) /\ \E which \in 0 .. Len(Members(mem, p)) :
    GiveUp(cJSON_InsertItemInArray(mem, p, which, x), x)

ReplaceItemInArray ==
  \E p \in Live, x \in held : MayAdd(p, x) /\ \E which \in 0 .. Len(Members(mem, p)) :
       LET old == get_array_item(mem, p, which)
       IN  MayDelete(old) /\ GiveUp(cJSON_ReplaceItemViaPointer(mem, p, old, x), x)

ReplaceItemInObject ==
  \E p \in Live, x \in held, k \in Keys \ Literals, c \in BOOLEAN :
    /\ MayAdd(p, x)
    /\ LET old == get_object_item(mem, p, k, c)
       IN  MayDelete(old) /\ GiveUp(replace_item_in_object(mem, p, k, x, c), x)

Delete == \E x \in held : MayDelete(x) /\ Become(cJSON_Delete(mem, x), held \ {x})

Duplicate == \E i \in Live, recurse \in BOOLEAN : Receive(cJSON_Duplicate(mem, i, recurse))

SetValue ==
  \E i \in Live \ Borrowed({}), v \in Vals :
    Become(IF mem.at[i].type = "number" THEN Put(mem, i, "value", v)
           ELSE cJSON_SetValuestring(mem, i, v), held)

Init == mem = [at |-> <<>>, strs |-> 0] /\ held = {} /\ calls = 0

Call ==
  \/ CreateItem \/ CreateArray \/ CreateReference
  \/ AddItemToArray \/ AddItemToObject \/ AddItemReference \/ AddNew
  \/ DetachItem \/ DeleteItem \/ InsertItemInArray \/ ReplaceItemInArray \/ ReplaceItemInObject
  \/ Delete \/ Duplicate \/ SetValue

Next == calls < MaxCalls /\ calls' = calls + 1 /\ Call

Spec == Init /\ [][Next]_vars

-----------------------------------------------------------------------------
(* Properties. *)

(* The links of every list agree after any sequence of calls: next and     *)
(* prev are inverse, the first item's prev is the last item (what append   *)
(* relies on), an item that stands alone links to nobody, and no pointer   *)
(* of an item in use leads to one that was freed.                          *)
LinksSound ==
  /\ held \subseteq DOMAIN mem.at
  /\ \A i \in held : mem.at[i].next = Null /\ mem.at[i].prev = Null
  /\ \A i \in Live : {mem.at[i].next, mem.at[i].prev, mem.at[i].child} \subseteq DOMAIN mem.at \cup {Null}
  /\ \A p \in Live :
       LET s == Members(mem, p)
       IN  ~mem.at[p].ref /\ s # <<>> =>
             /\ mem.at[s[1]].prev = s[Len(s)]
             /\ \A j \in 2 .. Len(s) : mem.at[s[j]].prev = s[j - 1]

(* No call loses an item, also not the ones that fail half way: what is    *)
(* out of the application's reach are references to an item, which         *)
(* cJSON_AddItemReferenceToObject drops without room for the name.  Every  *)
(* allocated string belongs to exactly one item, and every name and text   *)
(* that is to be freed is allocated: none is lost or freed twice when      *)
(* items are renamed, replaced, copied or referred to.                     *)
NoLeak ==
  /\ \A i \in DOMAIN mem.at \ Live : mem.at[i].ref /\ mem.at[i].string = Null
  /\ mem.strs = Cardinality({i \in DOMAIN mem.at : OwnsString(mem.at[i])})
                + Cardinality({i \in DOMAIN mem.at : OwnsValue(mem.at[i])})

(* A copy owns what its original has, also where that is a reference. *)
SameItem(e, it) == /\ e.type = it.type /\ e.value = it.value /\ e.valuestring = it.valuestring
                   /\ e.string = it.string /\ e.const = it.const /\ ~e.ref

(* The link of a copy leads to a copy of what the original's leads to. *)
CopyOf(f, link, original) == IF link = Null THEN original = Null ELSE link \in DOMAIN f /\ f[link] = original

(* The new items of n are a copy of i, with c at its top: each has an      *)
(* original in m, of which it has the data, the children and the siblings. *)
IsCopy(m, i, n, c) ==
  /\ \A j \in DOMAIN m.at : j \in DOMAIN n.at /\ n.at[j] = m.at[j]
  /\ \E f \in [DOMAIN n.at \ DOMAIN m.at -> DOMAIN m.at] :
       /\ c \in DOMAIN f /\ f[c] = i
       /\ \A x \in DOMAIN f :
            /\ SameItem(n.at[x], m.at[f[x]])
            /\ CopyOf(f, n.at[x].child, m.at[f[x]].child)
            /\ IF x = c THEN n.at[x].next = Null ELSE CopyOf(f, n.at[x].next, m.at[f[x]].next)

Copied(m, i, r) == IF r.ret = Null THEN r.m = m ELSE IsCopy(m, i, r.m, r.ret)

(* cJSON_Duplicate either copies the whole tree, item by item and without  *)
(* a change to what was there, or it fails and gives back all it had       *)
(* allocated on the way.                                                   *)
CopyOrNothing == \A i \in Live : Copied(mem, i, cJSON_Duplicate(mem, i, TRUE))

(* The members of the items in use; a reference owns none. *)
Kids == [i \in Live |-> IF mem.at[i].ref THEN <<>> ELSE Members(mem, i)]

Forest == INSTANCE JsonForest WITH kids <- Kids, roots <- held

(* The calls on linked items implement the forest: each call changes one   *)
(* list by one member, or makes or frees one whole tree, or does nothing.  *)
IsForest == Forest!ForestSpec

=============================================================================
