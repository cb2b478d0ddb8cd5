---------------------------- MODULE JsonCompare ----------------------------
(***************************************************************************)
(* cJSON_Compare, on the trees of JsonTree.                                *)
(***************************************************************************)
EXTENDS JsonTree

(* Objects are compared one way only. *)
MutCompareItems(m, a, b, case_sensitive, same) ==
  LET x == m.at[a]  y == m.at[b]
      s == Members(m, a)  u == Members(m, b)
  IN  /\ x.type = y.type
      /\ \/ a = b
         \/ x.type = "null"
         \/ x.type = "number" /\ x.value = y.value
         \/ x.type \in {"string", "raw"} /\ Null # x.valuestring /\ x.valuestring = y.valuestring
         \/ /\ x.type = "array" /\ Len(s) = Len(u)
            /\ \A j \in DOMAIN s : same[<<s[j], u[j]>>]
         \/ /\ x.type = "object"
            /\ \A j \in DOMAIN s :
                 LET e == get_object_item(m, b, m.at[s[j]].string, case_sensitive)
                 IN  e # Null /\ same[<<s[j], e>>]

(* A member, with a member of object o that has its name. *)
FoundIn(m, e, o, case_sensitive, same) ==
  LET f == get_object_item(m, o, m.at[e].string, case_sensitive)
  IN  m.at[e].string # Null /\ f # Null /\ same[<<e, f>>]

(* One call of cJSON_Compare; same are the answers of the calls it makes. *)
CompareItems(m, a, b, case_sensitive, same) ==
  LET x == m.at[a]  y == m.at[b]
      s == Members(m, a)  u == Members(m, b)
  IN  /\ x.type = y.type
      /\ \/ a = b
         \/ x.type = "null"
         \/ x.type = "number" /\ x.value = y.value
         \/ x.type \in {"string", "raw"} /\ Null # x.valuestring /\ x.valuestring = y.valuestring
         \/ /\ x.type = "array" /\ Len(s) = Len(u)
            /\ \A j \in DOMAIN s : same[<<s[j], u[j]>>]
         \/ /\ x.type = "object"
            /\ \A j \in DOMAIN s : FoundIn(m, s[j], b, case_sensitive, same)
            /\ \A j \in DOMAIN u : FoundIn(m, u[j], a, case_sensitive, same)

(* A call with n levels of calls below it, for every two items.  There are *)
(* no more levels than items, since no tree leads back to itself.          *)
cJSON_Compare(m, a, b, case_sensitive) ==
  LET same[n \in 0 .. Cardinality(Items)] ==
        [p \in (DOMAIN m.at) \X (DOMAIN m.at) |->
           IF n = 0 THEN p[1] = p[2] ELSE CompareItems(m, p[1], p[2], case_sensitive, same[n - 1])]
  IN  same[Cardinality(Items)][<<a, b>>]

-----------------------------------------------------------------------------
(* Properties. *)

Name(m, i, case_sensitive) ==
  LET k == m.at[i].string IN IF case_sensitive \/ k = Null THEN k ELSE Fold[k]

(* What an item stands for, with the values of its members: those of an    *)
(* object have no order.                                                   *)
ValueOf(m, i, case_sensitive, value) ==
  LET it == m.at[i]  s == Members(m, i)
  IN  [type    |-> it.type,
       scalar  |-> <<it.valuestring, it.value>>,
       list    |-> IF it.type = "array" THEN [j \in DOMAIN s |-> value[s[j]]] ELSE <<>>,
       members |-> IF it.type = "object"
                   THEN {<<Name(m, s[j], case_sensitive), value[s[j]]>> : j \in DOMAIN s} ELSE {}]

Value(m, i, case_sensitive) ==
  LET value[n \in 0 .. Cardinality(Items)] ==
        [j \in DOMAIN m.at |-> IF n = 0 THEN j ELSE ValueOf(m, j, case_sensitive, value[n - 1])]
  IN  value[Cardinality(Items)][i]

(* All members of an object have names, no two the same. *)
NamesApart(m, i, case_sensitive) ==
  LET s == Members(m, i)
  IN  /\ \A j \in DOMAIN s : m.at[s[j]].string # Null
      /\ \A j, l \in DOMAIN s :
           j # l => Name(m, s[j], case_sensitive) # Name(m, s[l], case_sensitive)

(* So it is for each object an item leads to. *)
WellNamed(m, i, case_sensitive) ==
  LET named[n \in 0 .. Cardinality(Items)] ==
        [j \in DOMAIN m.at |->
           n = 0 \/ /\ m.at[j].type = "object" => NamesApart(m, j, case_sensitive)
                    /\ \A l \in ToSet(Members(m, j)) : named[n - 1][l]]
  IN  named[Cardinality(Items)][i]

(* cJSON_Compare, which looks every member of one object up in the other,  *)
(* is equality of values where names are distinct, with and without case.  *)
CompareIsEquality ==
  \A a, b \in Live, c \in BOOLEAN :
    WellNamed(mem, a, c) /\ WellNamed(mem, b, c)
      => (cJSON_Compare(mem, a, b, c) <=> Value(mem, a, c) = Value(mem, b, c))

=============================================================================
