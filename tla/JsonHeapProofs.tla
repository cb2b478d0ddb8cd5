--------------------------- MODULE JsonHeapProofs ----------------------------
(*****************************************************************************)
(* The memory of cJSON.c as a forest of linked items.                        *)
(*                                                                           *)
(* Heap says that a memory m holds a forest: k gives every item its members  *)
(* in their order, R are the items that stand alone, and O the containers    *)
(* whose list is not closed yet, which is so only while an array is filled   *)
(* or a tree is copied.  IsForestOf is about k and R alone: every member     *)
(* has one place, no root has one, and the roots reach every item.  Linked   *)
(* is about the pointers: next, prev and child are what k says.              *)
(*                                                                           *)
(* The parts follow each other: numbers, forests, items and their fields,    *)
(* the pointer operations that change one list, what the walks of the code   *)
(* find, strings, and cJSON_Delete, whose loop frees exactly the items below *)
(* a root.                                                                   *)
(*****************************************************************************)
EXTENDS JsonTree, FiniteSetTheorems, SequenceTheorems, WellFoundedInduction, TLAPS

-----------------------------------------------------------------------------
(* Numbers. *)

(* Induction over Nat, for a set of numbers. *)
LEMMA Induction ==
  ASSUME NEW S, 0 \in S, \A n \in Nat : n \in S => n + 1 \in S
  PROVE  Nat \subseteq S
<1> SUFFICES ASSUME Nat \ S # {} PROVE FALSE
  OBVIOUS
<1> DEFINE R == OpToRel(<, Nat)
<1>1. PICK x \in Nat \ S : \A y \in Nat \ S : ~ (<<y, x>> \in R)
  <2>1. IsWellFoundedOn(R, Nat)
    BY NatLessThanWellFounded
  <2> HIDE DEF R
  <2> QED BY ONLY <2>1, WFMin, Nat \ S # {}, Zenon
<1>2. x \in Nat /\ x \notin S
  BY <1>1
<1>3. x - 1 \in Nat /\ x - 1 \notin S
  <2>1. x # 0
    BY <1>2
  <2>2. x - 1 \in Nat /\ (x - 1) + 1 = x
    BY <2>1, <1>2
  <2> QED BY <2>2, <1>2
<1>4. <<x - 1, x>> \in R
  BY <1>2, <1>3 DEF OpToRel
<1> QED BY <1>1, <1>3, <1>4

(* Min of FiniteSetsExt is the least number of a set that is not empty. *)
LEMMA LeastOf ==
  ASSUME NEW T \in SUBSET Nat, T # {}
  PROVE  Min(T) \in T
<1> DEFINE S == {n \in Nat : \A x \in 0 .. n : x \in T => \E y \in T : \A z \in T : y <= z}
<1>1. 0 \in S
  OBVIOUS
<1>2. ASSUME NEW n \in Nat, n \in S PROVE n + 1 \in S
  <2> SUFFICES ASSUME n + 1 \in T, \A x \in 0 .. n : x \notin T
               PROVE  \A z \in T : n + 1 <= z
    BY <1>2
  <2>1. ASSUME NEW z \in T PROVE n + 1 <= z
    <3>1. z \in Nat /\ z \notin 0 .. n
      OBVIOUS
    <3> QED BY <3>1
  <2> QED BY <2>1
<1> HIDE DEF S
<1>3. Nat \subseteq S
  BY <1>1, <1>2, Induction
<1>4. PICK x \in T : x \in Nat
  OBVIOUS
<1>5. \E y \in T : \A z \in T : y <= z
  BY <1>3, <1>4 DEF S
<1> QED BY <1>5 DEF Min

-----------------------------------------------------------------------------
(* Forests. *)

Under(k, S) == Forest!Under(k, S)

(* The members of items in T are in T. *)
ClosedIn(k, T) == \A i \in T : \A a \in DOMAIN k[i] : k[i][a] \in T

(* A forest k with the roots R: every item is below a root, in one place. *)
IsForestOf(k, R) ==
  /\ k \in [DOMAIN k -> Seq(DOMAIN k)]
  /\ R \subseteq DOMAIN k
  /\ \A p, q \in DOMAIN k : \A a \in DOMAIN k[p], b \in DOMAIN k[q] : k[p][a] = k[q][b] => p = q /\ a = b
  /\ \A p \in DOMAIN k : \A a \in DOMAIN k[p] : k[p][a] \notin R
  /\ \A T \in SUBSET DOMAIN k : R \subseteq T /\ ClosedIn(k, T) => DOMAIN k \subseteq T

(* Under is the least set around S that is closed under taking members. *)
LEMMA UnderFacts ==
  ASSUME NEW k, k \in [DOMAIN k -> Seq(DOMAIN k)], NEW S \in SUBSET DOMAIN k
  PROVE  /\ Under(k, S) \subseteq DOMAIN k
         /\ S \subseteq Under(k, S)
         /\ ClosedIn(k, Under(k, S))
         /\ \A T \in SUBSET DOMAIN k : S \subseteq T /\ ClosedIn(k, T) => Under(k, S) \subseteq T
<1>1. \A T \in SUBSET DOMAIN k : ClosedIn(k, T) <=> \A i \in T : Forest!ToSet(k[i]) \subseteq T
  BY DEF ClosedIn, Forest!ToSet
<1>2. \A i \in DOMAIN k : i \in Under(k, S)
            <=> \A T \in SUBSET DOMAIN k : S \subseteq T /\ ClosedIn(k, T) => i \in T
  BY <1>1 DEF Under, Forest!Under
<1>3. Under(k, S) \subseteq DOMAIN k
  BY DEF Under, Forest!Under
<1>4. ClosedIn(k, Under(k, S))
  <2> SUFFICES ASSUME NEW i \in Under(k, S), NEW a \in DOMAIN k[i],
                      NEW T \in SUBSET DOMAIN k, S \subseteq T, ClosedIn(k, T)
               PROVE  k[i][a] \in DOMAIN k /\ k[i][a] \in T
    BY <1>2, <1>3, SMTT(20) DEF ClosedIn
  <2>1. i \in DOMAIN k /\ i \in T
    BY <1>2, <1>3
  <2>2. k[i] \in Seq(DOMAIN k)
    BY <2>1
  <2> QED BY <2>1, <2>2 DEF ClosedIn
<1> QED BY <1>2, <1>3, <1>4

(* The lists of a forest are sequences of its items. *)
LEMMA ForestFacts ==
  ASSUME NEW k, NEW R, IsForestOf(k, R)
  PROVE  /\ \A p \in DOMAIN k : k[p] \in Seq(DOMAIN k) /\ Len(k[p]) \in Nat /\ DOMAIN k[p] = 1 .. Len(k[p])
         /\ \A p \in DOMAIN k : \A a \in DOMAIN k[p] : k[p][a] \in DOMAIN k
<1>1. \A p \in DOMAIN k : k[p] \in Seq(DOMAIN k)
  BY DEF IsForestOf
<1> QED BY <1>1

(* Every item that is no root has a place. *)
LEMMA HasPlace ==
  ASSUME NEW k, NEW R, IsForestOf(k, R), NEW i \in DOMAIN k, i \notin R
  PROVE  \E p \in DOMAIN k : \E a \in DOMAIN k[p] : k[p][a] = i
<1> SUFFICES ASSUME \A p \in DOMAIN k : \A a \in DOMAIN k[p] : k[p][a] # i
             PROVE  FALSE
  OBVIOUS
<1> DEFINE T == DOMAIN k \ {i}
<1>1. ClosedIn(k, T)
  BY ForestFacts DEF ClosedIn
<1>2. R \subseteq T
  BY DEF IsForestOf
<1> QED BY <1>1, <1>2 DEF IsForestOf

(* An item below x other than x has its place below x. *)
LEMMA HasPlaceBelow ==
  ASSUME NEW k, NEW R, IsForestOf(k, R), NEW x \in DOMAIN k,
         NEW i \in Under(k, {x}), i # x
  PROVE  \E p \in Under(k, {x}) : \E a \in DOMAIN k[p] : k[p][a] = i
<1> SUFFICES ASSUME \A p \in Under(k, {x}) : \A a \in DOMAIN k[p] : k[p][a] # i
             PROVE  FALSE
  OBVIOUS
<1> DEFINE T == Under(k, {x}) \ {i}
<1>0. k \in [DOMAIN k -> Seq(DOMAIN k)]
  BY DEF IsForestOf
<1>1. /\ Under(k, {x}) \subseteq DOMAIN k /\ x \in Under(k, {x}) /\ ClosedIn(k, Under(k, {x}))
      /\ \A S \in SUBSET DOMAIN k : {x} \subseteq S /\ ClosedIn(k, S) => Under(k, {x}) \subseteq S
  BY <1>0, UnderFacts
<1>2. ClosedIn(k, T)
  BY <1>1 DEF ClosedIn
<1> QED BY <1>1, <1>2

(* The same for the items below one item. *)
LEMMA UnderOne ==
  ASSUME NEW k, NEW R, IsForestOf(k, R), NEW x \in DOMAIN k
  PROVE  /\ Under(k, {x}) \subseteq DOMAIN k /\ x \in Under(k, {x}) /\ ClosedIn(k, Under(k, {x}))
         /\ \A S \in SUBSET DOMAIN k : x \in S /\ ClosedIn(k, S) => Under(k, {x}) \subseteq S
<1>0. k \in [DOMAIN k -> Seq(DOMAIN k)]
  BY DEF IsForestOf
<1>1. PICK S : S = {x}
  OBVIOUS
<1>2. S \in SUBSET DOMAIN k
  BY <1>1
<1>3. /\ Under(k, S) \subseteq DOMAIN k /\ S \subseteq Under(k, S) /\ ClosedIn(k, Under(k, S))
      /\ \A T \in SUBSET DOMAIN k : S \subseteq T /\ ClosedIn(k, T) => Under(k, S) \subseteq T
  BY <1>0, <1>2, UnderFacts
<1> QED BY <1>1, <1>3

(* A new item is a tree of its own. *)
LEMMA ForestNew ==
  ASSUME NEW k, NEW R, IsForestOf(k, R), NEW i, i \notin DOMAIN k
  PROVE  IsForestOf([j \in DOMAIN k \cup {i} |-> IF j = i THEN <<>> ELSE k[j]], R \cup {i})
<1> DEFINE g == [j \in DOMAIN k \cup {i} |-> IF j = i THEN <<>> ELSE k[j]]
<1>0. /\ DOMAIN g = DOMAIN k \cup {i} /\ g[i] = <<>>
      /\ \A j \in DOMAIN k : g[j] = k[j]
  OBVIOUS
<1>1. g \in [DOMAIN g -> Seq(DOMAIN g)]
  <2> SUFFICES ASSUME NEW j \in DOMAIN g PROVE g[j] \in Seq(DOMAIN g)
    OBVIOUS
  <2>1. CASE j = i
    BY <2>1
  <2>2. CASE j \in DOMAIN k
    <3>1. k[j] \in Seq(DOMAIN k)
      BY <2>2, ForestFacts
    <3> QED BY <3>1, <2>2
  <2> QED BY <2>1, <2>2
<1>2. \A p, q \in DOMAIN g : \A a \in DOMAIN g[p], b \in DOMAIN g[q] : g[p][a] = g[q][b] => p = q /\ a = b
  <2>1. \A p \in DOMAIN g : \A a \in DOMAIN g[p] : p \in DOMAIN k
    BY <1>0
  <2> HIDE DEF g
  <2> QED BY <1>0, <2>1 DEF IsForestOf
<1>3. \A p \in DOMAIN g : \A a \in DOMAIN g[p] : g[p][a] \notin R \cup {i}
  <2>1. \A p \in DOMAIN g : \A a \in DOMAIN g[p] : p \in DOMAIN k
    BY <1>0
  <2> HIDE DEF g
  <2> QED BY <1>0, <2>1, ForestFacts DEF IsForestOf
<1>4. ASSUME NEW T \in SUBSET DOMAIN g, R \cup {i} \subseteq T, ClosedIn(g, T)
      PROVE  DOMAIN g \subseteq T
  <2>1. ClosedIn(k, T \ {i})
    <3> SUFFICES ASSUME NEW j \in T \ {i}, NEW a \in DOMAIN k[j] PROVE k[j][a] \in T \ {i}
      BY DEF ClosedIn
    <3>1. j \in DOMAIN k /\ g[j] = k[j]
      BY <1>0
    <3>2. k[j][a] \in DOMAIN k
      BY <3>1, ForestFacts
    <3> QED BY <3>1, <3>2, <1>4 DEF ClosedIn
  <2>2. R \subseteq T \ {i} /\ T \ {i} \subseteq DOMAIN k
    BY <1>0, <1>4 DEF IsForestOf
  <2>3. DOMAIN k \subseteq T \ {i}
    BY <2>1, <2>2 DEF IsForestOf
  <2> QED BY <2>3, <1>4, <1>0
<1>5. R \cup {i} \subseteq DOMAIN g
  BY DEF IsForestOf
<1> HIDE DEF g
<1>6. IsForestOf(g, R \cup {i})
  BY <1>1, <1>2, <1>3, <1>4, <1>5 DEF IsForestOf
<1> QED BY <1>6 DEF g

(* t is s with x as its member j. *)
Inserted(s, t, j, x) ==
  /\ j \in 1 .. Len(s) + 1
  /\ Len(t) = Len(s) + 1
  /\ \A a \in 1 .. Len(s) + 1 : t[a] = IF a < j THEN s[a] ELSE IF a = j THEN x ELSE s[a - 1]

(* t is s without its member j. *)
Removed(s, t, j) ==
  /\ j \in 1 .. Len(s)
  /\ Len(t) = Len(s) - 1
  /\ \A a \in 1 .. Len(s) - 1 : t[a] = IF a < j THEN s[a] ELSE s[a + 1]

(* A root becomes a member of an item that is not below it. *)
LEMMA ForestInsert ==
  ASSUME NEW k, NEW R, IsForestOf(k, R), NEW x \in R, NEW p \in DOMAIN k, p \notin Under(k, {x}),
         NEW t \in Seq(DOMAIN k), NEW j, Inserted(k[p], t, j, x)
  PROVE  IsForestOf([k EXCEPT ![p] = t], R \ {x})
<1> DEFINE g == [k EXCEPT ![p] = t]
<1>0. /\ DOMAIN g = DOMAIN k /\ g[p] = t
      /\ \A q \in DOMAIN k : q # p => g[q] = k[q]
  BY DEF IsForestOf
<1> HIDE DEF g
<1>a. /\ Len(k[p]) \in Nat /\ DOMAIN k[p] = 1 .. Len(k[p]) /\ DOMAIN t = 1 .. Len(k[p]) + 1
      /\ \A a \in DOMAIN t : a # j => \E c \in DOMAIN k[p] : t[a] = k[p][c] /\ c = IF a < j THEN a ELSE a - 1
      /\ t[j] = x /\ j \in DOMAIN t /\ j \in Nat
      /\ \A c \in DOMAIN k[p] : \E a \in DOMAIN t : t[a] = k[p][c]
  <2>1. /\ Len(k[p]) \in Nat /\ DOMAIN k[p] = 1 .. Len(k[p]) /\ DOMAIN t = 1 .. Len(k[p]) + 1
    BY ForestFacts DEF Inserted
  <2>2. t[j] = x /\ j \in DOMAIN t /\ j \in Nat
    BY <2>1 DEF Inserted
  <2>3. ASSUME NEW a \in DOMAIN t, a # j
        PROVE  \E c \in DOMAIN k[p] : t[a] = k[p][c] /\ c = IF a < j THEN a ELSE a - 1
    <3> DEFINE c == IF a < j THEN a ELSE a - 1
    <3>1. c \in DOMAIN k[p]
      BY <2>1, <2>2, <2>3
    <3>2. t[a] = k[p][c]
      BY <2>1, <2>2, <2>3 DEF Inserted
    <3> QED BY <3>1, <3>2
  <2>4. ASSUME NEW c \in DOMAIN k[p]
        PROVE  \E a \in DOMAIN t : t[a] = k[p][c]
    <3> DEFINE a == IF c < j THEN c ELSE c + 1
    <3>1. a \in DOMAIN t /\ a # j
      BY <2>1, <2>2
    <3>2. t[a] = k[p][c]
      BY <2>1, <2>2, <3>1 DEF Inserted
    <3> QED BY <3>1, <3>2
  <2> QED BY <2>1, <2>2, <2>3, <2>4
<1>b. \A q \in DOMAIN k : \A c \in DOMAIN k[q] : k[q][c] # x
  BY DEF IsForestOf
<1>1. g \in [DOMAIN g -> Seq(DOMAIN g)]
  <2>1. g \in [DOMAIN k -> Seq(DOMAIN k)]
    BY DEF IsForestOf, g
  <2> QED BY <2>1, <1>0
(* Where each member of g was. *)
<1>c. ASSUME NEW q \in DOMAIN g, NEW a \in DOMAIN g[q], g[q][a] # x
      PROVE  \E c \in DOMAIN k[q] : k[q][c] = g[q][a] /\ c = IF q # p \/ a < j THEN a ELSE a - 1
  <2>1. CASE q = p
    <3>1. a \in DOMAIN t /\ a # j
      BY <1>0, <1>c, <2>1, <1>a
    <3> QED BY <3>1, <1>a, <1>0, <2>1
  <2>2. CASE q # p
    BY <2>2, <1>0
  <2> QED BY <2>1, <2>2
<1>d. ASSUME NEW q \in DOMAIN g, NEW a \in DOMAIN g[q], g[q][a] = x
      PROVE  q = p /\ a = j
  <2>1. q = p
    BY <1>d, <1>0, <1>b
  <2>2. a = j
    <3>1. a \in DOMAIN t /\ t[a] = x
      BY <2>1, <1>0, <1>d
    <3> QED BY <3>1, <1>a, <1>b
  <2> QED BY <2>1, <2>2
<1>2. ASSUME NEW q \in DOMAIN g, NEW r \in DOMAIN g, NEW a \in DOMAIN g[q], NEW b \in DOMAIN g[r], g[q][a] = g[r][b]
      PROVE  q = r /\ a = b
  <2>1. CASE g[q][a] = x
    BY <2>1, <1>2, <1>d
  <2>2. CASE g[q][a] # x
    <3>1. PICK c \in DOMAIN k[q] : k[q][c] = g[q][a] /\ c = IF q # p \/ a < j THEN a ELSE a - 1
      BY <2>2, <1>c
    <3>2. PICK d \in DOMAIN k[r] : k[r][d] = g[r][b] /\ d = IF r # p \/ b < j THEN b ELSE b - 1
      BY <2>2, <1>2, <1>c
    <3>3. q = r /\ c = d
      BY <3>1, <3>2, <1>0, <1>2, SMTT(20) DEF IsForestOf
    <3>4. CASE q # p
      BY <3>1, <3>2, <3>3, <3>4
    <3>5. CASE q = p
      <4>1. a \in DOMAIN t /\ b \in DOMAIN t /\ a # j /\ b # j
        BY <3>5, <3>3, <1>0, <2>2, <1>2, <1>a
      <4>2. a \in Nat /\ b \in Nat /\ j \in Nat
        BY <4>1, <1>a
      <4> QED BY <3>1, <3>2, <3>3, <3>5, <4>1, <4>2
    <3> QED BY <3>4, <3>5
  <2> QED BY <2>1, <2>2
<1>3. \A q \in DOMAIN g : \A a \in DOMAIN g[q] : g[q][a] \notin R \ {x}
  BY <1>c, <1>0 DEF IsForestOf
<1>4. ASSUME NEW T \in SUBSET DOMAIN g, R \ {x} \subseteq T, ClosedIn(g, T)
      PROVE  DOMAIN g \subseteq T
  <2> DEFINE U == Under(k, {x})
  <2>0. x \in DOMAIN k
    BY DEF IsForestOf
  <2>1. /\ U \subseteq DOMAIN k /\ x \in U /\ ClosedIn(k, U)
        /\ \A S \in SUBSET DOMAIN k : x \in S /\ ClosedIn(k, S) => U \subseteq S
    BY <2>0, UnderOne
  <2> HIDE DEF U
  <2>2. ClosedIn(k, T)
    <3> SUFFICES ASSUME NEW i \in T, NEW c \in DOMAIN k[i] PROVE k[i][c] \in T
      BY DEF ClosedIn
    <3>1. \E a \in DOMAIN g[i] : g[i][a] = k[i][c]
      BY <1>0, <1>a
    <3> QED BY <3>1, <1>4 DEF ClosedIn
  <2>3. DOMAIN k \subseteq T \cup U
    <3>1. ClosedIn(k, T \cup U)
      BY <2>1, <2>2 DEF ClosedIn
    <3>2. R \subseteq T \cup U /\ T \cup U \subseteq DOMAIN k
      BY <1>4, <2>1, <1>0
    <3> QED BY <3>1, <3>2 DEF IsForestOf
  <2>4. p \in T
    BY <2>3 DEF U
  <2>5. x \in T
    BY <2>4, <1>0, <1>a, <1>4 DEF ClosedIn
  <2> QED BY <2>1, <2>2, <2>3, <2>5, <1>0
<1>5. R \ {x} \subseteq DOMAIN g
  BY <1>0 DEF IsForestOf
<1>6. IsForestOf(g, R \ {x})
  BY <1>1, <1>2, <1>3, <1>4, <1>5 DEF IsForestOf
<1> QED BY <1>6 DEF g

(* A member becomes a root. *)
LEMMA ForestDetach ==
  ASSUME NEW k, NEW R, IsForestOf(k, R), NEW p \in DOMAIN k,
         NEW t \in Seq(DOMAIN k), NEW j, Removed(k[p], t, j)
  PROVE  IsForestOf([k EXCEPT ![p] = t], R \cup {k[p][j]})
<1> DEFINE g == [k EXCEPT ![p] = t]
           x == k[p][j]
<1>0. /\ DOMAIN g = DOMAIN k /\ g[p] = t
      /\ \A q \in DOMAIN k : q # p => g[q] = k[q]
  BY DEF IsForestOf
<1>1. g \in [DOMAIN g -> Seq(DOMAIN g)]
  <2>1. g \in [DOMAIN k -> Seq(DOMAIN k)]
    BY DEF IsForestOf, g
  <2> QED BY <2>1, <1>0
<1> HIDE DEF g
<1>a. /\ Len(k[p]) \in Nat /\ DOMAIN k[p] = 1 .. Len(k[p]) /\ DOMAIN t = 1 .. Len(k[p]) - 1
      /\ \A a \in DOMAIN t : \E c \in DOMAIN k[p] : t[a] = k[p][c] /\ c = IF a < j THEN a ELSE a + 1
      /\ j \in DOMAIN k[p] /\ j \in Nat
      /\ \A c \in DOMAIN k[p] : c # j => \E a \in DOMAIN t : t[a] = k[p][c]
  <2>1. /\ Len(k[p]) \in Nat /\ DOMAIN k[p] = 1 .. Len(k[p]) /\ DOMAIN t = 1 .. Len(k[p]) - 1
    BY ForestFacts DEF Removed
  <2>2. j \in DOMAIN k[p] /\ j \in Nat
    BY <2>1 DEF Removed
  <2>3. ASSUME NEW a \in DOMAIN t
        PROVE  \E c \in DOMAIN k[p] : t[a] = k[p][c] /\ c = IF a < j THEN a ELSE a + 1
    <3> DEFINE c == IF a < j THEN a ELSE a + 1
    <3>1. c \in DOMAIN k[p]
      BY <2>1, <2>2
    <3>2. t[a] = k[p][c]
      BY <2>1, <2>2 DEF Removed
    <3> QED BY <3>1, <3>2
  <2>4. ASSUME NEW c \in DOMAIN k[p], c # j
        PROVE  \E a \in DOMAIN t : t[a] = k[p][c]
    <3> DEFINE a == IF c < j THEN c ELSE c - 1
    <3>1. a \in DOMAIN t
      BY <2>1, <2>2, <2>4
    <3>2. t[a] = k[p][c]
      BY <2>1, <2>2, <2>4, <3>1 DEF Removed
    <3> QED BY <3>1, <3>2
  <2> QED BY <2>1, <2>2, <2>3, <2>4
<1>b. x \in DOMAIN k
  BY <1>a, ForestFacts
<1> HIDE DEF x
(* Where each member of g was. *)
<1>c. ASSUME NEW q \in DOMAIN g, NEW a \in DOMAIN g[q]
      PROVE  \E c \in DOMAIN k[q] : k[q][c] = g[q][a] /\ c = IF q # p \/ a < j THEN a ELSE a + 1
  <2>1. CASE q = p
    <3>1. a \in DOMAIN t
      BY <1>0, <2>1, <1>a
    <3> QED BY <3>1, <1>a, <1>0, <2>1
  <2>2. CASE q # p
    BY <2>2, <1>0
  <2> QED BY <2>1, <2>2
<1>2. ASSUME NEW q \in DOMAIN g, NEW r \in DOMAIN g, NEW a \in DOMAIN g[q], NEW b \in DOMAIN g[r], g[q][a] = g[r][b]
      PROVE  q = r /\ a = b
  <2>1. PICK c \in DOMAIN k[q] : k[q][c] = g[q][a] /\ c = IF q # p \/ a < j THEN a ELSE a + 1
    BY <1>c
  <2>2. PICK d \in DOMAIN k[r] : k[r][d] = g[r][b] /\ d = IF r # p \/ b < j THEN b ELSE b + 1
    BY <1>c
  <2>3. q = r /\ c = d
    BY <2>1, <2>2, <1>0, <1>2, SMTT(20) DEF IsForestOf
  <2>4. CASE q # p
    BY <2>1, <2>2, <2>3, <2>4
  <2>5. CASE q = p
    <3>1. a \in Nat /\ b \in Nat /\ j \in Nat
      BY <2>5, <2>3, <1>0, <1>a
    <3> QED BY <2>1, <2>2, <2>3, <2>5, <3>1
  <2> QED BY <2>4, <2>5
<1>3. ASSUME NEW q \in DOMAIN g, NEW a \in DOMAIN g[q]
      PROVE  g[q][a] \notin R \cup {x}
  <2>1. PICK c \in DOMAIN k[q] : k[q][c] = g[q][a] /\ c = IF q # p \/ a < j THEN a ELSE a + 1
    BY <1>c
  <2>2. k[q][c] \notin R
    BY <1>0 DEF IsForestOf
  <2>3. ASSUME k[q][c] = x PROVE FALSE
    <3>1. q = p /\ c = j
      BY <2>3, <1>0, <1>a DEF x, IsForestOf
    <3>2. a \in Nat /\ j \in Nat
      BY <3>1, <1>0, <1>a
    <3> QED BY <3>1, <3>2, <2>1
  <2> QED BY <2>1, <2>2, <2>3
<1>4. ASSUME NEW T \in SUBSET DOMAIN g, R \cup {x} \subseteq T, ClosedIn(g, T)
      PROVE  DOMAIN g \subseteq T
  <2>1. ClosedIn(k, T)
    <3> SUFFICES ASSUME NEW i \in T, NEW c \in DOMAIN k[i], k[i][c] # x PROVE k[i][c] \in T
      BY <1>4 DEF ClosedIn
    <3>1. \E a \in DOMAIN g[i] : g[i][a] = k[i][c]
      BY <1>0, <1>a DEF x
    <3> QED BY <3>1, <1>4 DEF ClosedIn
  <2> QED BY <2>1, <1>4, <1>0 DEF IsForestOf
<1>5. R \cup {x} \subseteq DOMAIN g
  BY <1>0, <1>b DEF IsForestOf
<1>6. IsForestOf(g, R \cup {x})
  BY <1>1, <1>2, <1>3, <1>4, <1>5 DEF IsForestOf
<1> QED BY <1>6 DEF g, x

(* A root takes the place of a member, which becomes a root. *)
LEMMA ForestReplace ==
  ASSUME NEW k, NEW R, IsForestOf(k, R), NEW x \in R, NEW p \in DOMAIN k, p \notin Under(k, {x}),
         NEW j \in DOMAIN k[p]
  PROVE  IsForestOf([k EXCEPT ![p] = [@ EXCEPT ![j] = x]], (R \ {x}) \cup {k[p][j]})
<1> DEFINE t == [k[p] EXCEPT ![j] = x]
           g == [k EXCEPT ![p] = t]
           old == k[p][j]
<1>a. /\ Len(k[p]) \in Nat /\ DOMAIN k[p] = 1 .. Len(k[p]) /\ x \in DOMAIN k /\ old \in DOMAIN k
      /\ k[p] \in Seq(DOMAIN k)
  BY ForestFacts DEF IsForestOf
<1>b. /\ t \in Seq(DOMAIN k) /\ DOMAIN t = DOMAIN k[p] /\ t[j] = x
      /\ \A a \in DOMAIN k[p] : a # j => t[a] = k[p][a]
  BY <1>a
<1> HIDE DEF t
<1>0. /\ DOMAIN g = DOMAIN k /\ g[p] = t
      /\ \A q \in DOMAIN k : q # p => g[q] = k[q]
  BY DEF IsForestOf
<1>1. g \in [DOMAIN g -> Seq(DOMAIN g)]
  <2>1. g \in [DOMAIN k -> Seq(DOMAIN k)]
    BY <1>b DEF IsForestOf, g
  <2> QED BY <2>1, <1>0
<1> HIDE DEF g
<1>c. /\ \A q \in DOMAIN k : DOMAIN g[q] = DOMAIN k[q]
      /\ \A q \in DOMAIN k : \A a \in DOMAIN k[q] : g[q][a] = IF q = p /\ a = j THEN x ELSE k[q][a]
  BY <1>0, <1>b
<1>d. \A q \in DOMAIN k : \A a \in DOMAIN k[q] : k[q][a] # x
  BY DEF IsForestOf
<1>2. ASSUME NEW q \in DOMAIN g, NEW r \in DOMAIN g, NEW a \in DOMAIN g[q], NEW b \in DOMAIN g[r], g[q][a] = g[r][b]
      PROVE  q = r /\ a = b
  <2>1. q \in DOMAIN k /\ r \in DOMAIN k /\ a \in DOMAIN k[q] /\ b \in DOMAIN k[r]
    BY <1>0, <1>c
  <2>2. CASE g[q][a] = x
    BY <2>1, <2>2, <1>2, <1>c, <1>d
  <2>3. CASE g[q][a] # x
    <3>1. g[q][a] = k[q][a] /\ g[r][b] = k[r][b]
      BY <2>1, <2>3, <1>2, <1>c
    <3>2. k[q][a] = k[r][b]
      BY <3>1, <1>2
    <3> HIDE <1>2
    <3> QED BY <3>2, <2>1 DEF IsForestOf
  <2> QED BY <2>2, <2>3
<1>3. \A q \in DOMAIN g : \A a \in DOMAIN g[q] : g[q][a] \notin (R \ {x}) \cup {old}
  <2>1. x # old
    BY <1>d
  <2> QED BY <2>1, <1>0, <1>c DEF IsForestOf
<1>4. ASSUME NEW T \in SUBSET DOMAIN g, (R \ {x}) \cup {old} \subseteq T, ClosedIn(g, T)
      PROVE  DOMAIN g \subseteq T
  <2> DEFINE U == Under(k, {x})
  <2>1. /\ U \subseteq DOMAIN k /\ x \in U /\ ClosedIn(k, U)
        /\ \A S \in SUBSET DOMAIN k : x \in S /\ ClosedIn(k, S) => U \subseteq S
    BY <1>a, UnderOne
  <2> HIDE DEF U
  <2>2. ClosedIn(k, T)
    <3> SUFFICES ASSUME NEW i \in T, NEW c \in DOMAIN k[i] PROVE k[i][c] \in T
      BY DEF ClosedIn
    <3>1. CASE i = p /\ c = j
      BY <3>1, <1>4
    <3>2. CASE ~(i = p /\ c = j)
      <4>1. g[i][c] = k[i][c] /\ c \in DOMAIN g[i]
        BY <3>2, <1>0, <1>c
      <4> QED BY <4>1, <1>4 DEF ClosedIn
    <3> QED BY <3>1, <3>2
  <2>3. DOMAIN k \subseteq T \cup U
    <3>1. ClosedIn(k, T \cup U)
      BY <2>1, <2>2 DEF ClosedIn
    <3>2. R \subseteq T \cup U /\ T \cup U \subseteq DOMAIN k
      BY <1>4, <2>1, <1>0
    <3> QED BY <3>1, <3>2 DEF IsForestOf
  <2>4. p \in T
    BY <2>3 DEF U
  <2>5. x \in T
    BY <2>4, <1>0, <1>b, <1>4 DEF ClosedIn
  <2> QED BY <2>1, <2>2, <2>3, <2>5, <1>0
<1>5. (R \ {x}) \cup {old} \subseteq DOMAIN g
  BY <1>0, <1>a DEF IsForestOf
<1>6. IsForestOf(g, (R \ {x}) \cup {old})
  BY <1>1, <1>2, <1>3, <1>4, <1>5 DEF IsForestOf
<1> QED BY <1>6 DEF g, t, old

(* A root goes with what is below it. *)
LEMMA ForestDelete ==
  ASSUME NEW k, NEW R, IsForestOf(k, R), NEW x \in R
  PROVE  IsForestOf([i \in DOMAIN k \ Under(k, {x}) |-> k[i]], R \ {x})
<1> DEFINE U == Under(k, {x})
           g == [i \in DOMAIN k \ U |-> k[i]]
<1>0. x \in DOMAIN k
  BY DEF IsForestOf
<1>a. /\ U \subseteq DOMAIN k /\ x \in U /\ ClosedIn(k, U)
      /\ \A S \in SUBSET DOMAIN k : x \in S /\ ClosedIn(k, S) => U \subseteq S
  BY <1>0, UnderOne
<1>b. \A i \in U : i # x => \E p \in U : \E a \in DOMAIN k[p] : k[p][a] = i
  BY <1>0, HasPlaceBelow
<1> HIDE DEF U
<1>c. DOMAIN g = DOMAIN k \ U /\ \A i \in DOMAIN g : g[i] = k[i]
  OBVIOUS
<1> HIDE DEF g
<1>d. ASSUME NEW i \in DOMAIN g, NEW a \in DOMAIN k[i]
      PROVE  k[i][a] \in DOMAIN g
  <2>1. i \in DOMAIN k /\ i \notin U /\ k[i][a] \in DOMAIN k
    BY <1>c, ForestFacts
  <2>2. k[i][a] # x
    BY <2>1 DEF IsForestOf
  <2>3. ASSUME k[i][a] \in U PROVE FALSE
    <3>1. PICK p \in U : \E b \in DOMAIN k[p] : k[p][b] = k[i][a]
      BY <1>b, <2>2, <2>3
    <3>2. p = i
      BY <3>1, <1>a, <2>1 DEF IsForestOf
    <3> QED BY <3>2, <2>1
  <2> QED BY <2>1, <2>3, <1>c
<1>1. g \in [DOMAIN g -> Seq(DOMAIN g)]
  <2>1. ASSUME NEW i \in DOMAIN g PROVE g[i] \in Seq(DOMAIN g)
    <3>1. k[i] \in Seq(DOMAIN k) /\ g[i] = k[i] /\ DOMAIN k[i] = 1 .. Len(k[i]) /\ Len(k[i]) \in Nat
      BY <1>c, ForestFacts
    <3>2. k[i] = [a \in 1 .. Len(k[i]) |-> k[i][a]]
      BY <3>1
    <3>3. k[i] \in [1 .. Len(k[i]) -> DOMAIN g]
      BY <3>1, <3>2, <1>d
    <3> QED BY <3>1, <3>3
  <2> QED BY <2>1 DEF g
<1>2. \A q, r \in DOMAIN g : \A a \in DOMAIN g[q], b \in DOMAIN g[r] : g[q][a] = g[r][b] => q = r /\ a = b
  BY <1>c DEF IsForestOf
<1>3. \A q \in DOMAIN g : \A a \in DOMAIN g[q] : g[q][a] \notin R \ {x}
  BY <1>c DEF IsForestOf
<1>4. ASSUME NEW T \in SUBSET DOMAIN g, R \ {x} \subseteq T, ClosedIn(g, T)
      PROVE  DOMAIN g \subseteq T
  <2>1. ClosedIn(k, T \cup U)
    BY <1>4, <1>c, <1>a DEF ClosedIn
  <2>2. R \subseteq T \cup U /\ T \cup U \subseteq DOMAIN k
    BY <1>4, <1>a, <1>c
  <2>3. DOMAIN k \subseteq T \cup U
    BY <2>1, <2>2 DEF IsForestOf
  <2> QED BY <2>3, <1>c
<1>5. R \ {x} \subseteq DOMAIN g
  <2>1. ASSUME NEW r \in R, r # x PROVE r \notin U
    <3>1. r \in U => \E p \in U : \E a \in DOMAIN k[p] : k[p][a] = r
      BY <2>1, <1>b
    <3> QED BY <3>1, <1>a DEF IsForestOf
  <2> QED BY <2>1, <1>c DEF IsForestOf
<1>6. IsForestOf(g, R \ {x})
  BY <1>1, <1>2, <1>3, <1>4, <1>5 DEF IsForestOf
<1> QED BY <1>6 DEF g, U

(* No item is below one of its members. *)
LEMMA NotBelowMember ==
  ASSUME NEW k, NEW R, IsForestOf(k, R), NEW p \in DOMAIN k, NEW j \in DOMAIN k[p]
  PROVE  p \notin Under(k, {k[p][j]})
<1> DEFINE x == k[p][j]
           U == Under(k, {x})
<1>0. x \in DOMAIN k
  BY ForestFacts
<1>a. /\ U \subseteq DOMAIN k /\ x \in U /\ ClosedIn(k, U)
      /\ \A S \in SUBSET DOMAIN k : x \in S /\ ClosedIn(k, S) => U \subseteq S
  BY <1>0, UnderOne
<1>b. \A i \in U : i # x => \E q \in U : \E a \in DOMAIN k[q] : k[q][a] = i
  BY <1>0, HasPlaceBelow
<1> HIDE DEF U
<1> SUFFICES ASSUME p \in U PROVE FALSE
  BY DEF U
<1>1. ClosedIn(k, DOMAIN k \ U)
  <2> SUFFICES ASSUME NEW i \in DOMAIN k \ U, NEW a \in DOMAIN k[i], k[i][a] \in U PROVE FALSE
    BY ForestFacts DEF ClosedIn
  <2>1. PICK q \in U : \E b \in DOMAIN k[q] : k[q][b] = k[i][a]
    BY <1>b
  <2>2. q = i
    BY <2>1, <1>a DEF IsForestOf
  <2> QED BY <2>2
<1>2. R \subseteq DOMAIN k \ U
  <2> SUFFICES ASSUME NEW r \in R, r \in U PROVE FALSE
    BY DEF IsForestOf
  <2>1. r # x
    BY DEF IsForestOf
  <2>2. PICK q \in U : \E b \in DOMAIN k[q] : k[q][b] = r
    BY <2>1, <1>b
  <2> QED BY <2>2, <1>a DEF IsForestOf
<1>3. DOMAIN k \subseteq DOMAIN k \ U
  BY <1>1, <1>2 DEF IsForestOf
<1> QED BY <1>3, <1>a

(* What is below x depends on nothing else. *)
LEMMA UnderSame ==
  ASSUME NEW k, NEW R, IsForestOf(k, R), NEW g, NEW Q, IsForestOf(g, Q), NEW x \in DOMAIN k,
         Under(k, {x}) \subseteq DOMAIN g, \A i \in Under(k, {x}) : g[i] = k[i]
  PROVE  Under(g, {x}) = Under(k, {x})
<1> DEFINE U == Under(k, {x})
           V == Under(g, {x})
<1>1. /\ U \subseteq DOMAIN k /\ x \in U /\ ClosedIn(k, U)
      /\ \A S \in SUBSET DOMAIN k : x \in S /\ ClosedIn(k, S) => U \subseteq S
  BY UnderOne
<1>2. /\ V \subseteq DOMAIN g /\ x \in V /\ ClosedIn(g, V)
      /\ \A S \in SUBSET DOMAIN g : x \in S /\ ClosedIn(g, S) => V \subseteq S
  <2>1. x \in DOMAIN g
    BY <1>1
  <2> QED BY <2>1, UnderOne
<1> HIDE DEF U, V
<1>3. V \subseteq U
  <2>1. ClosedIn(g, U)
    BY <1>1 DEF ClosedIn, U
  <2> QED BY <2>1, <1>1, <1>2 DEF U
<1>4. U \subseteq V
  <2>1. ClosedIn(k, V)
    BY <1>2, <1>3 DEF ClosedIn, U
  <2> QED BY <2>1, <1>1, <1>2, <1>3
<1> QED BY <1>3, <1>4 DEF U, V

-----------------------------------------------------------------------------
(* Memory. *)

Pointer == Items \cup {Null}

ItemTypes == {"null", "number", "string", "raw", "array", "object"}

ItemOf == [next : Pointer, prev : Pointer, child : Pointer, type : ItemTypes, ref : BOOLEAN, const : BOOLEAN,
           valuestring : Nat, value : Nat, string : Keys \cup {Null}]

IsMemory(m) ==
  /\ m = [at |-> m.at, strs |-> m.strs]
  /\ m.at = [i \in DOMAIN m.at |-> m.at[i]]
  /\ DOMAIN m.at \subseteq Items
  /\ \A i \in DOMAIN m.at : m.at[i] \in ItemOf
  /\ m.strs \in Int

(* What is in the items of m, other than their own links, is in those of n. *)
SameData(m, n) ==
  /\ IsMemory(n)
  /\ DOMAIN n.at = DOMAIN m.at
  /\ n.strs = m.strs
  /\ \A i \in DOMAIN m.at :
       /\ n.at[i].type = m.at[i].type /\ n.at[i].ref = m.at[i].ref /\ n.at[i].const = m.at[i].const
       /\ n.at[i].valuestring = m.at[i].valuestring /\ n.at[i].value = m.at[i].value
       /\ n.at[i].string = m.at[i].string
       /\ m.at[i].ref => n.at[i].child = m.at[i].child

(* The links of the items of m are those of n. *)
SameLinks(m, n) ==
  /\ IsMemory(n)
  /\ DOMAIN n.at = DOMAIN m.at
  /\ \A i \in DOMAIN m.at :
       /\ n.at[i].next = m.at[i].next /\ n.at[i].prev = m.at[i].prev
       /\ n.at[i].child = m.at[i].child /\ n.at[i].ref = m.at[i].ref

(* What storing into one field of one item makes of the memory. *)
LEMMA PutIs ==
  ASSUME NEW m, IsMemory(m), NEW i \in DOMAIN m.at, NEW f, NEW v
  PROVE  Put(m, i, f, v) =
           [at |-> [j \in DOMAIN m.at |-> IF j = i THEN [m.at[j] EXCEPT ![f] = v] ELSE m.at[j]],
            strs |-> m.strs]
<1> DEFINE it == [m.at[i] EXCEPT ![f] = v]
           g  == [m.at EXCEPT ![i] = it]
           h  == [j \in DOMAIN m.at |-> IF j = i THEN it ELSE m.at[j]]
<1>1. g = h
  <2> HIDE DEF it
  <2> QED BY DEF IsMemory
<1>2. Put(m, i, f, v) = [m EXCEPT !.at = g]
  BY DEF Put
<1>3. [m EXCEPT !.at = g] = [at |-> g, strs |-> m.strs]
  <2> HIDE DEF g
  <2>1. PICK a, b : m = [at |-> a, strs |-> b]
    BY DEF IsMemory
  <2>2. [[at |-> a, strs |-> b] EXCEPT !.at = g] = [at |-> g, strs |-> b]
    OBVIOUS
  <2> QED BY <2>1, <2>2
<1> QED BY <1>1, <1>2, <1>3

(* Memory whose items are typed. *)
LEMMA MemoryOf ==
  ASSUME NEW D \in SUBSET Items, NEW F, DOMAIN F = D, F = [i \in D |-> F[i]],
         \A i \in D : F[i] \in ItemOf, NEW s \in Int
  PROVE  IsMemory([at |-> F, strs |-> s])
BY DEF IsMemory

LEMMA PutAt ==
  ASSUME NEW m, IsMemory(m), NEW i \in DOMAIN m.at, NEW f, NEW v, [m.at[i] EXCEPT ![f] = v] \in ItemOf
  PROVE  /\ IsMemory(Put(m, i, f, v))
         /\ DOMAIN Put(m, i, f, v).at = DOMAIN m.at
         /\ Put(m, i, f, v).strs = m.strs
         /\ Put(m, i, f, v).at[i] = [m.at[i] EXCEPT ![f] = v]
         /\ \A j \in DOMAIN m.at : j # i => Put(m, i, f, v).at[j] = m.at[j]
<1> DEFINE it == [m.at[i] EXCEPT ![f] = v]
           h  == [j \in DOMAIN m.at |-> IF j = i THEN it ELSE m.at[j]]
<1>1. Put(m, i, f, v) = [at |-> h, strs |-> m.strs]
  BY PutIs
<1> HIDE DEF it
<1>2. /\ DOMAIN h = DOMAIN m.at /\ h = [j \in DOMAIN m.at |-> h[j]]
      /\ h[i] = it /\ \A j \in DOMAIN m.at : j # i => h[j] = m.at[j]
  OBVIOUS
<1>3. \A j \in DOMAIN m.at : h[j] \in ItemOf
  BY <1>2 DEF IsMemory, it
<1> HIDE DEF h
<1>4. IsMemory([at |-> h, strs |-> m.strs])
  BY <1>2, <1>3, MemoryOf DEF IsMemory
<1> QED BY <1>1, <1>2, <1>4 DEF it

(* Storing a link leaves everything but that link, here next. *)
LEMMA PutNext ==
  ASSUME NEW m, IsMemory(m), NEW i \in DOMAIN m.at, NEW v \in Pointer
  PROVE  /\ SameData(m, Put(m, i, "next", v))
         /\ Put(m, i, "next", v).at[i].next = v
         /\ \A j \in DOMAIN m.at : j # i => Put(m, i, "next", v).at[j].next = m.at[j].next
         /\ \A j \in DOMAIN m.at : Put(m, i, "next", v).at[j].prev = m.at[j].prev
         /\ \A j \in DOMAIN m.at : Put(m, i, "next", v).at[j].child = m.at[j].child
<1> DEFINE it == [m.at[i] EXCEPT !["next"] = v]
<1>0. m.at[i] \in ItemOf
  BY DEF IsMemory
<1>1. /\ it \in ItemOf /\ it.next = v /\ it.prev = m.at[i].prev /\ it.child = m.at[i].child
      /\ it.type = m.at[i].type /\ it.ref = m.at[i].ref /\ it.const = m.at[i].const
      /\ it.valuestring = m.at[i].valuestring /\ it.value = m.at[i].value /\ it.string = m.at[i].string
  BY <1>0 DEF ItemOf
<1> DEFINE n == Put(m, i, "next", v)
<1>2. /\ IsMemory(n) /\ DOMAIN n.at = DOMAIN m.at /\ n.strs = m.strs /\ n.at[i] = it
      /\ \A j \in DOMAIN m.at : j # i => n.at[j] = m.at[j]
  BY <1>1, PutAt
<1> HIDE DEF n, it
<1>3. SameData(m, n)
  BY <1>1, <1>2 DEF SameData
<1> QED BY <1>1, <1>2, <1>3 DEF n

(* Storing prev. *)
LEMMA PutPrev ==
  ASSUME NEW m, IsMemory(m), NEW i \in DOMAIN m.at, NEW v \in Pointer
  PROVE  /\ SameData(m, Put(m, i, "prev", v))
         /\ Put(m, i, "prev", v).at[i].prev = v
         /\ \A j \in DOMAIN m.at : j # i => Put(m, i, "prev", v).at[j].prev = m.at[j].prev
         /\ \A j \in DOMAIN m.at : Put(m, i, "prev", v).at[j].next = m.at[j].next
         /\ \A j \in DOMAIN m.at : Put(m, i, "prev", v).at[j].child = m.at[j].child
<1> DEFINE it == [m.at[i] EXCEPT !["prev"] = v]
<1>0. m.at[i] \in ItemOf
  BY DEF IsMemory
<1>1. /\ it \in ItemOf /\ it.prev = v /\ it.next = m.at[i].next /\ it.child = m.at[i].child
      /\ it.type = m.at[i].type /\ it.ref = m.at[i].ref /\ it.const = m.at[i].const
      /\ it.valuestring = m.at[i].valuestring /\ it.value = m.at[i].value /\ it.string = m.at[i].string
  BY <1>0 DEF ItemOf
<1> DEFINE n == Put(m, i, "prev", v)
<1>2. /\ IsMemory(n) /\ DOMAIN n.at = DOMAIN m.at /\ n.strs = m.strs /\ n.at[i] = it
      /\ \A j \in DOMAIN m.at : j # i => n.at[j] = m.at[j]
  BY <1>1, PutAt
<1> HIDE DEF n, it
<1>3. SameData(m, n)
  BY <1>1, <1>2 DEF SameData
<1> QED BY <1>1, <1>2, <1>3 DEF n

(* Storing child, of an item that is no reference. *)
LEMMA PutChild ==
  ASSUME NEW m, IsMemory(m), NEW i \in DOMAIN m.at, NEW v \in Pointer, ~m.at[i].ref
  PROVE  /\ SameData(m, Put(m, i, "child", v))
         /\ Put(m, i, "child", v).at[i].child = v
         /\ \A j \in DOMAIN m.at : j # i => Put(m, i, "child", v).at[j].child = m.at[j].child
         /\ \A j \in DOMAIN m.at : Put(m, i, "child", v).at[j].next = m.at[j].next
         /\ \A j \in DOMAIN m.at : Put(m, i, "child", v).at[j].prev = m.at[j].prev
<1> DEFINE it == [m.at[i] EXCEPT !["child"] = v]
<1>0. m.at[i] \in ItemOf
  BY DEF IsMemory
<1>1. /\ it \in ItemOf /\ it.child = v /\ it.next = m.at[i].next /\ it.prev = m.at[i].prev
      /\ it.type = m.at[i].type /\ it.ref = m.at[i].ref /\ it.const = m.at[i].const
      /\ it.valuestring = m.at[i].valuestring /\ it.value = m.at[i].value /\ it.string = m.at[i].string
  BY <1>0 DEF ItemOf
<1> DEFINE n == Put(m, i, "child", v)
<1>2. /\ IsMemory(n) /\ DOMAIN n.at = DOMAIN m.at /\ n.strs = m.strs /\ n.at[i] = it
      /\ \A j \in DOMAIN m.at : j # i => n.at[j] = m.at[j]
  BY <1>1, PutAt
<1> HIDE DEF n, it
<1>3. SameData(m, n)
  BY <1>1, <1>2 DEF SameData
<1> QED BY <1>1, <1>2, <1>3 DEF n

LEMMA SameDataTrans ==
  ASSUME NEW l, NEW m, NEW n, SameData(l, m), SameData(m, n)
  PROVE  SameData(l, n)
BY DEF SameData

-----------------------------------------------------------------------------
(* Linked lists. *)

(* The links of the list s below p.  While a list is open (p is in O), its *)
(* first item does not have the last one as its prev yet.                  *)
ListOf(m, p, s, O) ==
  /\ m.at[p].child = IF s = <<>> THEN Null ELSE s[1]
  /\ \A a \in 1 .. Len(s) : m.at[s[a]].next = IF a = Len(s) THEN Null ELSE s[a + 1]
  /\ \A a \in 2 .. Len(s) : m.at[s[a]].prev = s[a - 1]
  /\ s # <<>> => m.at[s[1]].prev = IF p \in O THEN Null ELSE s[Len(s)]

(* The links of m are those of the forest k with roots R; the lists of the *)
(* items in O are open.                                                    *)
Linked(m, k, R, O) ==
  /\ DOMAIN k \subseteq DOMAIN m.at
  /\ \A r \in R : m.at[r].next = Null /\ m.at[r].prev = Null
  /\ \A p \in DOMAIN k : m.at[p].ref => k[p] = <<>>
  /\ \A p \in DOMAIN k : ~m.at[p].ref => ListOf(m, p, k[p], O)

(* Of the links of m only those of items in S, and the child of p, change. *)
Elsewhere(m, n, p, S) ==
  /\ \A i \in DOMAIN m.at : i \notin S => n.at[i].next = m.at[i].next /\ n.at[i].prev = m.at[i].prev
  /\ \A i \in DOMAIN m.at : i # p => n.at[i].child = m.at[i].child

(* The list of p becomes t. *)
LEMMA Relink ==
  ASSUME NEW m, NEW n, NEW k, NEW R, NEW Q, NEW O, NEW p \in DOMAIN k, NEW t \in Seq(DOMAIN k), NEW P, \A q \in DOMAIN k \ {p} : q \in P <=> q \in O,
         IsForestOf(k, R), IsForestOf([k EXCEPT ![p] = t], Q), Linked(m, k, R, O),
         SameData(m, n), Elsewhere(m, n, p, {k[p][a] : a \in DOMAIN k[p]} \cup {t[a] : a \in DOMAIN t}),
         ~m.at[p].ref, ListOf(n, p, t, P),
         \A r \in Q : n.at[r].next = Null /\ n.at[r].prev = Null
  PROVE  Linked(n, [k EXCEPT ![p] = t], Q, P)
<1> DEFINE g == [k EXCEPT ![p] = t]
           S == {k[p][a] : a \in DOMAIN k[p]} \cup {t[a] : a \in DOMAIN t}
<1>0. /\ DOMAIN g = DOMAIN k /\ g[p] = t
      /\ \A q \in DOMAIN k : q # p => g[q] = k[q]
  BY DEF IsForestOf
<1>1. /\ DOMAIN g \subseteq DOMAIN n.at
      /\ \A q \in DOMAIN g : n.at[q].ref = m.at[q].ref
  BY <1>0 DEF Linked, SameData
<1> HIDE DEF g
<1>2. ASSUME NEW q \in DOMAIN g, n.at[q].ref PROVE g[q] = <<>>
  BY <1>0, <1>1, <1>2 DEF Linked
<1>3. ASSUME NEW q \in DOMAIN k, q # p, NEW a \in DOMAIN k[q] PROVE k[q][a] \notin S
  <2>1. ASSUME NEW b \in DOMAIN k[p] PROVE k[q][a] # k[p][b]
    BY <1>3 DEF IsForestOf
  <2>2. ASSUME NEW b \in DOMAIN t PROVE k[q][a] # t[b]
    <3>1. g[q] = k[q] /\ g[p] = t /\ q \in DOMAIN g /\ p \in DOMAIN g
      BY <1>0, <1>3
    <3>2. IsForestOf(g, Q)
      BY DEF g
    <3> QED BY <3>1, <3>2, <1>3 DEF IsForestOf
  <2> QED BY <2>1, <2>2
<1> HIDE DEF S
<1>4. ASSUME NEW q \in DOMAIN g, ~n.at[q].ref PROVE ListOf(n, q, g[q], P)
  <2>1. CASE q = p
    BY <2>1, <1>0
  <2>2. CASE q # p
    <3>1. ListOf(m, q, k[q], O) /\ q \in DOMAIN k /\ g[q] = k[q] /\ (q \in P <=> q \in O)
      BY <1>0, <1>1, <1>4, <2>2 DEF Linked
    <3>2. n.at[q].child = m.at[q].child
      BY <2>2, <3>1, <1>1, <1>0 DEF Elsewhere, SameData
    <3>3. ASSUME NEW a \in DOMAIN k[q]
          PROVE  n.at[k[q][a]].next = m.at[k[q][a]].next /\ n.at[k[q][a]].prev = m.at[k[q][a]].prev
      <4>1. k[q][a] \in DOMAIN k
        BY <3>1, ForestFacts
      <4>2. k[q][a] \in DOMAIN m.at
        BY <4>1 DEF Linked
      <4> QED BY <4>2, <1>3, <2>2, <3>1 DEF Elsewhere, S
    <3>4. DOMAIN k[q] = 1 .. Len(k[q]) /\ Len(k[q]) \in Nat /\ k[q] \in Seq(DOMAIN k)
      BY <3>1, ForestFacts
    <3>5. k[q] # <<>> => 1 \in DOMAIN k[q]
      BY <3>4
    <3> QED BY <3>1, <3>2, <3>3, <3>4, <3>5 DEF ListOf
  <2> QED BY <2>1, <2>2
<1>5. Linked(n, g, Q, P)
  BY <1>1, <1>2, <1>4 DEF Linked
<1> QED BY <1>5 DEF g

(* The list of an item that is no reference. *)
LEMMA ListFacts ==
  ASSUME NEW m, NEW k, NEW R, NEW O, IsMemory(m), IsForestOf(k, R), Linked(m, k, R, O),
         NEW p \in DOMAIN k, ~m.at[p].ref
  PROVE  /\ k[p] \in Seq(DOMAIN k) /\ Len(k[p]) \in Nat /\ DOMAIN k[p] = 1 .. Len(k[p])
         /\ (k[p] = <<>> <=> Len(k[p]) = 0)
         /\ \A a, b \in DOMAIN k[p] : k[p][a] = k[p][b] => a = b
         /\ \A a \in DOMAIN k[p] : k[p][a] \in DOMAIN k /\ k[p][a] \notin R /\ k[p][a] # p
         /\ DOMAIN k \subseteq DOMAIN m.at /\ DOMAIN m.at \subseteq Items /\ Null \notin Items
<1>1. k[p] \in Seq(DOMAIN k) /\ Len(k[p]) \in Nat /\ DOMAIN k[p] = 1 .. Len(k[p])
  BY ForestFacts
<1>2. k[p] = <<>> <=> Len(k[p]) = 0
  BY <1>1
<1>3. \A a, b \in DOMAIN k[p] : k[p][a] = k[p][b] => a = b
  BY DEF IsForestOf
<1>4. ASSUME NEW a \in DOMAIN k[p] PROVE k[p][a] \in DOMAIN k /\ k[p][a] \notin R /\ k[p][a] # p
  <2>1. k[p][a] \in DOMAIN k /\ k[p][a] \notin R
    BY ForestFacts DEF IsForestOf
  <2>2. p \notin Under(k, {k[p][a]}) /\ k[p][a] \in Under(k, {k[p][a]})
    BY <2>1, NotBelowMember, UnderOne
  <2> QED BY <2>1, <2>2
<1>5. DOMAIN k \subseteq DOMAIN m.at /\ DOMAIN m.at \subseteq Items /\ Null \notin Items
  BY TreeAssumption DEF Linked, IsMemory
<1> QED BY <1>1, <1>2, <1>3, <1>4, <1>5

(* A root is linked to nobody, and is in no list. *)
LEMMA RootFacts ==
  ASSUME NEW m, NEW k, NEW R, NEW O, IsMemory(m), IsForestOf(k, R), Linked(m, k, R, O), NEW x \in R
  PROVE  /\ x \in DOMAIN k /\ x \in DOMAIN m.at /\ x \in Items /\ x # Null
         /\ m.at[x].next = Null /\ m.at[x].prev = Null
         /\ \A p \in DOMAIN k : \A a \in DOMAIN k[p] : k[p][a] # x
BY TreeAssumption DEF Linked, IsMemory, IsForestOf

(* Append puts x behind the last place. *)
LEMMA AppendIs ==
  ASSUME NEW D, NEW s \in Seq(D), NEW x \in D
  PROVE  /\ Append(s, x) \in Seq(D) /\ Len(Append(s, x)) = Len(s) + 1
         /\ DOMAIN Append(s, x) = 1 .. Len(s) + 1 /\ DOMAIN s = 1 .. Len(s) /\ Len(s) \in Nat
         /\ \A a \in 1 .. Len(s) : Append(s, x)[a] = s[a]
         /\ Append(s, x)[Len(s) + 1] = x
         /\ Append(s, x) # <<>>
         /\ Inserted(s, Append(s, x), Len(s) + 1, x)
<1> DEFINE t == Append(s, x)
<1>1. t \in Seq(D) /\ Len(t) = Len(s) + 1 /\ DOMAIN t = 1 .. Len(s) + 1 /\ DOMAIN s = 1 .. Len(s) /\ Len(s) \in Nat
  OBVIOUS
<1>2. /\ \A a \in 1 .. Len(s) : t[a] = s[a]
      /\ t[Len(s) + 1] = x
  OBVIOUS
<1> HIDE DEF t
<1>3. t # <<>>
  BY <1>1
<1>4. Inserted(s, t, Len(s) + 1, x)
  BY <1>1, <1>2 DEF Inserted
<1> QED BY <1>1, <1>2, <1>3, <1>4 DEF t

(* A root becomes the last member of a list. *)
LEMMA LinkAppend ==
  ASSUME NEW m, NEW k, NEW R, NEW O, IsMemory(m), IsForestOf(k, R), Linked(m, k, R, O),
         NEW x \in R, NEW p \in DOMAIN k, p \notin Under(k, {x}), ~m.at[p].ref, p \notin O
  PROVE  /\ add_item_to_array(m, p, x).ret = TRUE
         /\ SameData(m, add_item_to_array(m, p, x).m)
         /\ Linked(add_item_to_array(m, p, x).m, [k EXCEPT ![p] = Append(k[p], x)], R \ {x}, O)
         /\ IsForestOf([k EXCEPT ![p] = Append(k[p], x)], R \ {x})
<1> DEFINE s == k[p]
           t == Append(s, x)
           n == add_item_to_array(m, p, x).m
<1>1. /\ s \in Seq(DOMAIN k) /\ Len(s) \in Nat /\ DOMAIN s = 1 .. Len(s)
      /\ (s = <<>> <=> Len(s) = 0)
      /\ ListOf(m, p, s, O)
      /\ \A a, b \in DOMAIN s : s[a] = s[b] => a = b
      /\ \A a \in DOMAIN s : s[a] \in DOMAIN k /\ s[a] \notin R /\ s[a] # p
      /\ DOMAIN k \subseteq DOMAIN m.at /\ DOMAIN m.at \subseteq Items /\ Null \notin Items
  <2>1. ListOf(m, p, s, O)
    BY DEF Linked
  <2> QED BY <2>1, ListFacts
<1>2. /\ x \in DOMAIN k /\ x \in DOMAIN m.at /\ x \in Items /\ x # Null
      /\ m.at[x].next = Null /\ m.at[x].prev = Null
      /\ \A a \in DOMAIN s : s[a] # x
  BY RootFacts
<1>3. x # p
  BY <1>2, UnderOne
<1>4. /\ t \in Seq(DOMAIN k) /\ Len(t) = Len(s) + 1
      /\ DOMAIN t = 1 .. Len(s) + 1
      /\ \A a \in 1 .. Len(s) : t[a] = s[a]
      /\ t[Len(s) + 1] = x /\ t # <<>> /\ Inserted(s, t, Len(s) + 1, x)
  BY <1>1, <1>2, AppendIs
<1>5. IsForestOf([k EXCEPT ![p] = t], R \ {x})
  BY <1>4, ForestInsert
<1> HIDE DEF t
<1>6. /\ add_item_to_array(m, p, x).ret = TRUE /\ SameData(m, n)
      /\ Elsewhere(m, n, p, {s[a] : a \in DOMAIN s} \cup {t[a] : a \in DOMAIN t})
      /\ ListOf(n, p, t, O)
      /\ \A r \in R \ {x} : n.at[r].next = m.at[r].next /\ n.at[r].prev = m.at[r].prev
  <2>1. CASE s = <<>>
    <3> DEFINE m1 == Put(m, p, "child", x)
               m2 == Put(m1, x, "prev", x)
               m3 == Put(m2, x, "next", Null)
    <3>1. m.at[p].child = Null
      BY <1>1, <2>1 DEF ListOf
    <3>2. n = m3 /\ add_item_to_array(m, p, x).ret = TRUE
      BY <3>1, <1>2, <1>3 DEF add_item_to_array, Result
    <3>3. /\ SameData(m, m1) /\ m1.at[p].child = x
          /\ \A j \in DOMAIN m.at : j # p => m1.at[j].child = m.at[j].child
          /\ \A j \in DOMAIN m.at : m1.at[j].next = m.at[j].next /\ m1.at[j].prev = m.at[j].prev
      BY <1>1, <1>2, PutChild DEF Pointer
    <3> HIDE DEF m1
    <3>4. /\ SameData(m1, m2) /\ m2.at[x].prev = x
          /\ \A j \in DOMAIN m.at : m2.at[j].child = m1.at[j].child /\ m2.at[j].next = m1.at[j].next
          /\ \A j \in DOMAIN m.at : j # x => m2.at[j].prev = m1.at[j].prev
      BY <1>2, <3>3, PutPrev DEF Pointer, SameData
    <3> HIDE DEF m2
    <3>5. /\ SameData(m2, m3) /\ m3.at[x].next = Null
          /\ \A j \in DOMAIN m.at : m3.at[j].child = m2.at[j].child /\ m3.at[j].prev = m2.at[j].prev
          /\ \A j \in DOMAIN m.at : j # x => m3.at[j].next = m2.at[j].next
      BY <1>2, <3>3, <3>4, PutNext DEF Pointer, SameData
    <3> HIDE DEF m3
    <3>6. SameData(m, m3)
      BY <3>3, <3>4, <3>5, SameDataTrans
    <3>7. Len(s) = 0 /\ DOMAIN t = {1} /\ t[1] = x /\ Len(t) = 1
      BY <2>1, <1>1, <1>4
    <3>8. Elsewhere(m, m3, p, {s[a] : a \in DOMAIN s} \cup {t[a] : a \in DOMAIN t})
      BY <3>3, <3>4, <3>5, <3>7, <1>2 DEF Elsewhere
    <3>9. ListOf(m3, p, t, O)
      BY <3>3, <3>4, <3>5, <3>7, <1>1, <1>2, <1>4 DEF ListOf
    <3>10. \A r \in R \ {x} : m3.at[r].next = m.at[r].next /\ m3.at[r].prev = m.at[r].prev
      BY <3>3, <3>4, <3>5, <1>1 DEF IsForestOf
    <3> QED BY <3>2, <3>6, <3>8, <3>9, <3>10
  <2>2. CASE s # <<>>
    <3> DEFINE c  == s[1]
               l  == s[Len(s)]
               m1 == Put(m, l, "next", x)
               m2 == Put(m1, x, "prev", l)
               m3 == Put(m2, c, "prev", x)
    <3>0. 1 \in DOMAIN s /\ Len(s) \in DOMAIN s /\ c \in DOMAIN m.at /\ l \in DOMAIN m.at /\ c # Null /\ l # Null
      BY <1>1, <2>2
    <3>1. m.at[p].child = c /\ m.at[c].prev = l
      BY <1>1, <2>2 DEF ListOf
    <3>2. n = m3 /\ add_item_to_array(m, p, x).ret = TRUE
      BY <3>0, <3>1, <1>2, <1>3 DEF add_item_to_array, Result, suffix_object
    <3>3. /\ SameData(m, m1) /\ m1.at[l].next = x
          /\ \A j \in DOMAIN m.at : j # l => m1.at[j].next = m.at[j].next
          /\ \A j \in DOMAIN m.at : m1.at[j].child = m.at[j].child /\ m1.at[j].prev = m.at[j].prev
      BY <1>2, <3>0, PutNext DEF Pointer
    <3> HIDE DEF m1
    <3>4. /\ SameData(m1, m2) /\ m2.at[x].prev = l
          /\ \A j \in DOMAIN m.at : m2.at[j].child = m1.at[j].child /\ m2.at[j].next = m1.at[j].next
          /\ \A j \in DOMAIN m.at : j # x => m2.at[j].prev = m1.at[j].prev
      <4>1. l \in Pointer /\ IsMemory(m1) /\ x \in DOMAIN m1.at /\ DOMAIN m1.at = DOMAIN m.at
        BY <1>1, <1>2, <3>0, <3>3 DEF Pointer, SameData
      <4> HIDE DEF l
      <4> QED BY <4>1, PutPrev
    <3> HIDE DEF m2
    <3>5. /\ SameData(m2, m3) /\ m3.at[c].prev = x
          /\ \A j \in DOMAIN m.at : m3.at[j].child = m2.at[j].child /\ m3.at[j].next = m2.at[j].next
          /\ \A j \in DOMAIN m.at : j # c => m3.at[j].prev = m2.at[j].prev
      BY <1>2, <3>0, <3>3, <3>4, PutPrev DEF Pointer, SameData
    <3> HIDE DEF m3
    <3>6. SameData(m, m3)
      BY <3>3, <3>4, <3>5, SameDataTrans
    <3>7. t[1] = c /\ c # x /\ l # x /\ Len(s) >= 1
      BY <2>2, <1>1, <1>2, <1>4, <3>0
    <3>8. Elsewhere(m, m3, p, {s[a] : a \in DOMAIN s} \cup {t[a] : a \in DOMAIN t})
      <4>1. /\ c \in {s[a] : a \in DOMAIN s} /\ l \in {s[a] : a \in DOMAIN s}
            /\ x \in {t[a] : a \in DOMAIN t}
        BY <3>0, <1>4, <1>1
      <4> HIDE DEF c, l
      <4> QED BY <3>3, <3>4, <3>5, <4>1 DEF Elsewhere
    <3>9. ListOf(m3, p, t, O)
      <4>1. m3.at[p].child = t[1]
        BY <3>1, <3>3, <3>4, <3>5, <3>7, <1>1
      <4>2. ASSUME NEW a \in 1 .. Len(t) PROVE m3.at[t[a]].next = IF a = Len(t) THEN Null ELSE t[a + 1]
        <5>1. CASE a = Len(t)
          <6>1. t[a] = x /\ m3.at[x].next = Null
            BY <5>1, <1>1, <1>2, <1>4, <3>3, <3>4, <3>5, <3>7
          <6> QED BY <6>1, <5>1
        <5>2. CASE a = Len(s)
          BY <5>2, <1>1, <1>4, <3>0, <3>3, <3>4, <3>5, <3>7
        <5>3. CASE a # Len(t) /\ a # Len(s)
          <6>1. a \in DOMAIN s /\ a + 1 \in DOMAIN s /\ t[a] = s[a] /\ t[a + 1] = s[a + 1] /\ s[a] \in DOMAIN m.at
            <7>1. a \in DOMAIN s /\ a + 1 \in DOMAIN s
              <8>1. a \in Nat /\ a >= 1 /\ a <= Len(s) + 1
                BY <1>1, <1>4
              <8> QED BY ONLY <8>1, <5>3, <1>1, <1>4
            <7> QED BY <7>1, <1>1, <1>4
          <6>2. s[a] # l
            BY <6>1, <3>0, <1>1, <5>3
          <6>3. m.at[s[a]].next = s[a + 1]
            BY <6>1, <1>1, <5>3 DEF ListOf
          <6> QED BY <6>1, <6>2, <6>3, <3>3, <3>4, <3>5, <5>3
        <5> QED BY <5>1, <5>2, <5>3
      <4>3. ASSUME NEW a \in 2 .. Len(t) PROVE m3.at[t[a]].prev = t[a - 1]
        <5>1. CASE a = Len(t)
          BY <5>1, <1>1, <1>2, <1>4, <3>3, <3>4, <3>5, <3>7
        <5>2. CASE a # Len(t)
          <6>1. a \in DOMAIN s /\ a - 1 \in DOMAIN s /\ t[a] = s[a] /\ t[a - 1] = s[a - 1] /\ s[a] \in DOMAIN m.at /\ a \in 2 .. Len(s)
            BY <5>2, <1>1, <1>4
          <6>2. s[a] # c /\ s[a] # x
            BY <6>1, <3>0, <1>1, <1>2
          <6>3. m.at[s[a]].prev = s[a - 1]
            BY <6>1, <1>1 DEF ListOf
          <6> QED BY <6>1, <6>2, <6>3, <3>3, <3>4, <3>5
        <5> QED BY <5>1, <5>2
      <4>4. m3.at[t[1]].prev = t[Len(t)]
        BY <3>7, <3>5, <1>4
      <4> QED BY <4>1, <4>2, <4>3, <4>4, <1>4 DEF ListOf
    <3>10. \A r \in R \ {x} : m3.at[r].next = m.at[r].next /\ m3.at[r].prev = m.at[r].prev
      <4>1. \A r \in R : r \in DOMAIN m.at /\ r # c /\ r # l
        BY <3>0, <1>1 DEF IsForestOf
      <4> QED BY <4>1, <3>3, <3>4, <3>5
    <3> QED BY <3>2, <3>6, <3>8, <3>9, <3>10
  <2> QED BY <2>1, <2>2
<1> HIDE DEF n
<1>7. \A r \in R \ {x} : n.at[r].next = Null /\ n.at[r].prev = Null
  BY <1>6 DEF Linked
<1>8. Linked(n, [k EXCEPT ![p] = t], R \ {x}, O)
  BY <1>4, <1>5, <1>6, <1>7, Relink
<1> QED BY <1>5, <1>6, <1>8 DEF n, t

(* A root becomes the member j of a list, before the one that was. *)
LEMMA LinkInsert ==
  ASSUME NEW m, NEW k, NEW R, NEW O, IsMemory(m), IsForestOf(k, R), Linked(m, k, R, O),
         NEW x \in R, NEW p \in DOMAIN k, p \notin Under(k, {x}), ~m.at[p].ref, p \notin O,
         NEW j \in DOMAIN k[p], NEW t \in Seq(DOMAIN k), Inserted(k[p], t, j, x),
         NEW w, get_array_item(m, p, w) = k[p][j]
  PROVE  /\ cJSON_InsertItemInArray(m, p, w, x).ret = TRUE
         /\ SameData(m, cJSON_InsertItemInArray(m, p, w, x).m)
         /\ Linked(cJSON_InsertItemInArray(m, p, w, x).m, [k EXCEPT ![p] = t], R \ {x}, O)
         /\ IsForestOf([k EXCEPT ![p] = t], R \ {x})
<1> DEFINE s == k[p]
           n == cJSON_InsertItemInArray(m, p, w, x).m
           y == s[j]
           z == m.at[y].prev
<1>1. /\ s \in Seq(DOMAIN k) /\ Len(s) \in Nat /\ DOMAIN s = 1 .. Len(s)
      /\ \A a, b \in DOMAIN s : s[a] = s[b] => a = b
      /\ \A a \in DOMAIN s : s[a] \in DOMAIN k /\ s[a] \notin R /\ s[a] # p
      /\ DOMAIN k \subseteq DOMAIN m.at /\ DOMAIN m.at \subseteq Items /\ Null \notin Items
  BY ListFacts
<1>2. /\ x \in DOMAIN k /\ x \in DOMAIN m.at /\ x \in Items /\ x # Null
      /\ m.at[x].next = Null /\ m.at[x].prev = Null
      /\ \A a \in DOMAIN s : s[a] # x
  BY RootFacts
<1>3. x # p
  BY <1>2, UnderOne
<1>4. /\ j \in Nat /\ j >= 1 /\ j <= Len(s) /\ Len(t) = Len(s) + 1 /\ DOMAIN t = 1 .. Len(s) + 1
      /\ \A a \in DOMAIN t : t[a] = IF a < j THEN s[a] ELSE IF a = j THEN x ELSE s[a - 1]
  BY <1>1 DEF Inserted
<1>5. IsForestOf([k EXCEPT ![p] = t], R \ {x})
  BY ForestInsert
<1>6. /\ m.at[p].child = s[1]
      /\ \A a \in 1 .. Len(s) : m.at[s[a]].next = IF a = Len(s) THEN Null ELSE s[a + 1]
      /\ \A a \in 2 .. Len(s) : m.at[s[a]].prev = s[a - 1]
      /\ m.at[s[1]].prev = s[Len(s)]
  <2>1. ListOf(m, p, s, O) /\ s # <<>>
    BY <1>4 DEF Linked
  <2> QED BY <2>1 DEF ListOf
<1>7. /\ y \in DOMAIN m.at /\ y # Null /\ y # x /\ y # p
      /\ z = IF j = 1 THEN s[Len(s)] ELSE s[j - 1]
      /\ z \in DOMAIN m.at /\ z # x /\ z \in Pointer /\ y \in Pointer /\ x \in Pointer
  <2>1. y \in DOMAIN m.at /\ y # Null /\ y # x /\ y # p
    BY <1>1, <1>2
  <2>2. z = IF j = 1 THEN s[Len(s)] ELSE s[j - 1]
    BY <1>4, <1>6
  <2>3. Len(s) \in DOMAIN s /\ (j # 1 => j - 1 \in DOMAIN s)
    BY <1>1, <1>4
  <2>4. \E a \in DOMAIN s : z = s[a]
    BY <2>2, <2>3
  <2> HIDE DEF z, y
  <2> QED BY <2>1, <2>2, <2>4, <1>1, <1>2 DEF Pointer
<1>8. /\ cJSON_InsertItemInArray(m, p, w, x).ret = TRUE /\ SameData(m, n)
      /\ \A i \in DOMAIN m.at :
           /\ n.at[i].next = IF i = x THEN y ELSE IF j > 1 /\ i = s[j - 1] THEN x ELSE m.at[i].next
           /\ n.at[i].prev = IF i = x THEN z ELSE IF i = y THEN x ELSE m.at[i].prev
           /\ n.at[i].child = IF i = p /\ j = 1 THEN x ELSE m.at[i].child
  <2> DEFINE m1 == Put(m, x, "next", y)
             m2 == Put(m1, x, "prev", z)
             m3 == Put(m2, y, "prev", x)
             m4 == IF y = m.at[p].child THEN Put(m3, p, "child", x) ELSE Put(m3, m3.at[x].prev, "next", x)
  <2>1. n = m4 /\ cJSON_InsertItemInArray(m, p, w, x).ret = TRUE
    BY <1>7 DEF cJSON_InsertItemInArray, Result
  <2>2. y = m.at[p].child <=> j = 1
    <3>1. 1 \in DOMAIN s /\ j \in DOMAIN s
      BY <1>1, <1>4
    <3> QED BY <3>1, <1>1, <1>6
  <2> HIDE DEF y, z
  <2>3. /\ SameData(m, m1) /\ m1.at[x].next = y
        /\ \A i \in DOMAIN m.at : i # x => m1.at[i].next = m.at[i].next
        /\ \A i \in DOMAIN m.at : m1.at[i].child = m.at[i].child /\ m1.at[i].prev = m.at[i].prev
    BY <1>2, <1>7, PutNext
  <2> HIDE DEF m1
  <2>4. /\ SameData(m1, m2) /\ m2.at[x].prev = z
        /\ \A i \in DOMAIN m.at : i # x => m2.at[i].prev = m1.at[i].prev
        /\ \A i \in DOMAIN m.at : m2.at[i].child = m1.at[i].child /\ m2.at[i].next = m1.at[i].next
    <3>1. IsMemory(m1) /\ DOMAIN m1.at = DOMAIN m.at /\ x \in DOMAIN m1.at
      BY <1>2, <2>3 DEF SameData
    <3> QED BY <1>7, <3>1, PutPrev
  <2> HIDE DEF m2
  <2>5. /\ SameData(m2, m3) /\ m3.at[y].prev = x
        /\ \A i \in DOMAIN m.at : i # y => m3.at[i].prev = m2.at[i].prev
        /\ \A i \in DOMAIN m.at : m3.at[i].child = m2.at[i].child /\ m3.at[i].next = m2.at[i].next
    <3>1. IsMemory(m2) /\ DOMAIN m2.at = DOMAIN m.at /\ y \in DOMAIN m2.at
      BY <1>7, <2>3, <2>4 DEF SameData
    <3> QED BY <1>7, <3>1, PutPrev
  <2> HIDE DEF m3
  <2>6. SameData(m, m3)
    BY <2>3, <2>4, <2>5, SameDataTrans
  <2>7. CASE j = 1
    <3>1. m4 = Put(m3, p, "child", x)
      BY <2>2, <2>7
    <3>2. /\ SameData(m3, m4) /\ m4.at[p].child = x
          /\ \A i \in DOMAIN m.at : i # p => m4.at[i].child = m3.at[i].child
          /\ \A i \in DOMAIN m.at : m4.at[i].prev = m3.at[i].prev /\ m4.at[i].next = m3.at[i].next
      <4>1. IsMemory(m3) /\ DOMAIN m3.at = DOMAIN m.at /\ p \in DOMAIN m3.at /\ ~m3.at[p].ref
        BY <2>6, <1>1 DEF SameData
      <4> HIDE DEF m4
      <4> QED BY <3>1, <4>1, <1>7, PutChild
    <3> HIDE DEF m4
    <3>3. SameData(m, m4)
      BY <2>6, <3>2, SameDataTrans
    <3> QED BY <2>1, <2>3, <2>4, <2>5, <2>7, <3>2, <3>3, <1>7
  <2>8. CASE j # 1
    <3>1. m4 = Put(m3, z, "next", x) /\ z = s[j - 1] /\ j > 1
      BY <2>2, <2>8, <2>4, <2>5, <1>7, <1>2, <1>4
    <3>2. /\ SameData(m3, m4) /\ m4.at[z].next = x
          /\ \A i \in DOMAIN m.at : i # z => m4.at[i].next = m3.at[i].next
          /\ \A i \in DOMAIN m.at : m4.at[i].prev = m3.at[i].prev /\ m4.at[i].child = m3.at[i].child
      <4>1. IsMemory(m3) /\ DOMAIN m3.at = DOMAIN m.at /\ z \in DOMAIN m3.at
        BY <2>6, <1>7 DEF SameData
      <4> HIDE DEF m4
      <4> QED BY <3>1, <4>1, <1>7, PutNext
    <3> HIDE DEF m4
    <3>3. SameData(m, m4)
      BY <2>6, <3>2, SameDataTrans
    <3> QED BY <2>1, <2>3, <2>4, <2>5, <2>8, <3>1, <3>2, <3>3, <1>7
  <2> QED BY <2>7, <2>8
<1> HIDE DEF n, z
<1>9. Elsewhere(m, n, p, {s[a] : a \in DOMAIN s} \cup {t[a] : a \in DOMAIN t})
  <2>1. /\ y \in {s[a] : a \in DOMAIN s}
        /\ j > 1 => s[j - 1] \in {s[a] : a \in DOMAIN s}
        /\ x \in {t[a] : a \in DOMAIN t}
    BY <1>1, <1>4
  <2> HIDE DEF y
  <2> QED BY <1>8, <2>1 DEF Elsewhere
<1>10. ListOf(n, p, t, O)
  <2>1. n.at[p].child = t[1] /\ t # <<>>
    <3>1. 1 \in DOMAIN t /\ t # <<>> /\ p \in DOMAIN m.at
      BY <1>1, <1>4
    <3>2. t[1] = IF j = 1 THEN x ELSE s[1]
      <4>1. t[1] = IF 1 < j THEN s[1] ELSE IF 1 = j THEN x ELSE s[1 - 1]
        BY <3>1, <1>4
      <4> QED BY ONLY <4>1, <1>4
    <3> QED BY <3>1, <3>2, <1>6, <1>8
  <2>2. ASSUME NEW a \in 1 .. Len(t) PROVE n.at[t[a]].next = IF a = Len(t) THEN Null ELSE t[a + 1]
    <3>0. a \in Nat /\ a >= 1 /\ a <= Len(s) + 1 /\ a \in DOMAIN t
      BY <1>4, <1>1
    <3>1. CASE a = j
      <4>1. t[a] = x /\ t[a + 1] = y /\ a # Len(t)
        BY ONLY <3>0, <3>1, <1>4, <1>1, SMTT(20)
      <4> QED BY <4>1, <1>8, <1>2
    <3>2. CASE a = j - 1
      <4>1. t[a] = s[a] /\ t[a + 1] = x /\ a # Len(t) /\ a \in DOMAIN s /\ j > 1
        BY ONLY <3>0, <3>2, <1>4, <1>1, SMTT(20)
      <4>2. s[a] # x /\ s[a] \in DOMAIN m.at
        BY <4>1, <1>1, <1>2
      <4> QED BY <4>1, <4>2, <3>2, <1>8
    <3>3. CASE a < j - 1
      <4>1. t[a] = s[a] /\ t[a + 1] = s[a + 1] /\ a # Len(t) /\ a \in DOMAIN s /\ a # Len(s) /\ j - 1 \in DOMAIN s /\ a # j - 1
        <5>1. a \in DOMAIN t /\ a + 1 \in DOMAIN t /\ a \in DOMAIN s /\ j - 1 \in DOMAIN s
          BY ONLY <3>0, <3>3, <1>4, <1>1
        <5>2. t[a] = s[a] /\ t[a + 1] = s[a + 1]
          BY ONLY <5>1, <3>0, <3>3, <1>4
        <5> QED BY ONLY <5>1, <5>2, <3>0, <3>3, <1>4, <1>1
      <4>2. s[a] # x /\ s[a] \in DOMAIN m.at /\ s[a] # s[j - 1]
        BY <4>1, <1>1, <1>2
      <4>3. m.at[s[a]].next = s[a + 1]
        BY <4>1, <1>1, <1>6
      <4> QED BY <4>1, <4>2, <4>3, <1>8
    <3>4. CASE a > j
      <4>1. /\ t[a] = s[a - 1] /\ (a # Len(t) => t[a + 1] = s[a]) /\ a - 1 \in DOMAIN s /\ a - 1 # j - 1
            /\ (a = Len(t) <=> a - 1 = Len(s)) /\ (j > 1 => j - 1 \in DOMAIN s) /\ (a - 1) + 1 = a
        <5>1. a - 1 \in DOMAIN s /\ (j > 1 => j - 1 \in DOMAIN s) /\ (a # Len(t) => a + 1 \in DOMAIN t)
          BY ONLY <3>0, <3>4, <1>4, <1>1
        <5>2. t[a] = s[a - 1]
          BY ONLY <3>0, <3>4, <1>4
        <5>3. a # Len(t) => t[a + 1] = s[(a + 1) - 1] /\ (a + 1) - 1 = a
          BY ONLY <5>1, <3>0, <3>4, <1>4
        <5> QED BY ONLY <5>1, <5>2, <5>3, <3>0, <3>4, <1>4, <1>1
      <4>2. s[a - 1] # x /\ s[a - 1] \in DOMAIN m.at /\ (j > 1 => s[a - 1] # s[j - 1])
        BY <4>1, <1>1, <1>2
      <4>3. m.at[s[a - 1]].next = IF a - 1 = Len(s) THEN Null ELSE s[a]
        <5>1. PICK b : b = a - 1
          OBVIOUS
        <5>2. b \in 1 .. Len(s) /\ b + 1 = a
          BY <3>0, <3>4, <4>1, <5>1, <1>1
        <5>3. m.at[s[b]].next = IF b = Len(s) THEN Null ELSE s[b + 1]
          BY ONLY <5>2, <1>6
        <5> QED BY <5>1, <5>2, <5>3
      <4> QED BY <4>1, <4>2, <4>3, <1>8
    <3>5. a = j \/ a = j - 1 \/ a < j - 1 \/ a > j
      BY ONLY <3>0, <1>4
    <3> QED BY ONLY <3>5, <3>1, <3>2, <3>3, <3>4
  <2>3. ASSUME NEW a \in 2 .. Len(t) PROVE n.at[t[a]].prev = t[a - 1]
    <3>0. a \in Nat /\ a >= 2 /\ a <= Len(s) + 1 /\ a \in DOMAIN t
      BY <1>4, <1>1
    <3>1. CASE a = j
      <4>1. t[a] = x /\ t[a - 1] = s[j - 1] /\ j # 1
        BY ONLY <3>0, <3>1, <1>4, <1>1
      <4> QED BY <4>1, <1>8, <1>2, <1>7
    <3>2. CASE a = j + 1
      <4>1. t[a] = y /\ t[a - 1] = x
        BY ONLY <3>0, <3>2, <1>4, <1>1
      <4> QED BY <4>1, <1>7, <1>8
    <3>3. CASE a < j
      <4>1. t[a] = s[a] /\ t[a - 1] = s[a - 1] /\ a \in DOMAIN s /\ a \in 2 .. Len(s)
        BY ONLY <3>0, <3>3, <1>4, <1>1, SMTT(20)
      <4>2. s[a] # x /\ s[a] \in DOMAIN m.at /\ s[a] # y
        BY <4>1, <3>3, <3>0, <1>1, <1>2, <1>4
      <4>3. m.at[s[a]].prev = s[a - 1]
        BY <4>1, <1>1, <1>6
      <4> QED BY <4>1, <4>2, <4>3, <1>8
    <3>4. CASE a > j + 1
      <4>1. t[a] = s[a - 1] /\ t[a - 1] = s[a - 2] /\ a - 1 \in DOMAIN s /\ a - 1 \in 2 .. Len(s) /\ a - 1 # j /\ (a - 1) - 1 = a - 2
        <5>1. a - 1 \in DOMAIN s /\ a - 1 \in DOMAIN t
          BY ONLY <3>0, <3>4, <1>4, <1>1
        <5>2. t[a] = s[a - 1]
          BY ONLY <3>0, <3>4, <1>4
        <5>3. t[a - 1] = s[(a - 1) - 1] /\ (a - 1) - 1 = a - 2
          <6>1. t[a - 1] = IF a - 1 < j THEN s[a - 1] ELSE IF a - 1 = j THEN x ELSE s[(a - 1) - 1]
            BY ONLY <5>1, <1>4
          <6>2. ~(a - 1 < j) /\ a - 1 # j /\ (a - 1) - 1 = a - 2
            BY ONLY <3>0, <3>4, <1>4
          <6> QED BY ONLY <6>1, <6>2
        <5> QED BY ONLY <5>1, <5>2, <5>3, <3>0, <3>4, <1>4, <1>1
      <4>2. s[a - 1] # x /\ s[a - 1] \in DOMAIN m.at /\ s[a - 1] # y
        BY <4>1, <1>1, <1>2
      <4>3. m.at[s[a - 1]].prev = s[a - 2]
        BY <4>1, <1>6
      <4> QED BY <4>1, <4>2, <4>3, <1>8
    <3> QED BY <3>0, <3>1, <3>2, <3>3, <3>4, <1>4
  <2>4. n.at[t[1]].prev = t[Len(t)]
    <3>0. 1 \in DOMAIN t /\ Len(t) \in DOMAIN t /\ 1 \in DOMAIN s /\ t[Len(t)] = s[Len(s)]
      BY <1>1, <1>4
    <3>1. CASE j = 1
      <4>1. t[1] = x
        BY <3>0, <3>1, <1>4
      <4> QED BY <4>1, <3>0, <3>1, <1>2, <1>7, <1>8
    <3>2. CASE j # 1
      <4>1. t[1] = s[1] /\ s[1] # x /\ s[1] # y /\ s[1] \in DOMAIN m.at
        BY <3>0, <3>2, <1>1, <1>2, <1>4
      <4> QED BY <4>1, <3>0, <1>6, <1>8
    <3> QED BY <3>1, <3>2
  <2>5. \A a \in 1 .. Len(t) : n.at[t[a]].next = IF a = Len(t) THEN Null ELSE t[a + 1]
    BY <2>2
  <2>6. \A a \in 2 .. Len(t) : n.at[t[a]].prev = t[a - 1]
    BY <2>3
  <2> QED BY ONLY <2>1, <2>4, <2>5, <2>6, p \notin O DEF ListOf
<1>11. \A r \in R \ {x} : n.at[r].next = Null /\ n.at[r].prev = Null
  <2>1. \A r \in R : r \in DOMAIN m.at /\ r # y /\ (j > 1 => r # s[j - 1])
    <3>1. j > 1 => j - 1 \in DOMAIN s
      BY <1>1, <1>4
    <3> QED BY <3>1, <1>1 DEF IsForestOf
  <2> HIDE DEF y
  <2> QED BY <2>1, <1>8 DEF Linked
<1>12. Linked(n, [k EXCEPT ![p] = t], R \ {x}, O)
  BY <1>5, <1>8, <1>9, <1>10, <1>11, Relink
<1> QED BY <1>5, <1>8, <1>12 DEF n

LEMMA SameDataRefl ==
  ASSUME NEW m, IsMemory(m)
  PROVE  SameData(m, m)
BY DEF SameData

(* The neighbours of a member, as its links show them. *)
Chained(m, p, s, R) ==
  /\ DOMAIN s = 1 .. Len(s)
  /\ m.at[p].child = s[1]
  /\ \A j \in DOMAIN s : m.at[s[j]].next = IF j = Len(s) THEN Null ELSE s[j + 1]
  /\ \A j \in DOMAIN s : m.at[s[j]].prev = IF j = 1 THEN s[Len(s)] ELSE s[j - 1]
  /\ \A j \in DOMAIN s : s[j] \in DOMAIN m.at /\ s[j] # Null /\ s[j] # p /\ s[j] \notin R
  /\ \A a, b \in DOMAIN s : s[a] = s[b] => a = b

(* The links of a closed list that is not empty, place by place. *)
LEMMA Neighbours ==
  ASSUME NEW m, NEW k, NEW R, NEW O, IsMemory(m), IsForestOf(k, R), Linked(m, k, R, O),
         NEW p \in DOMAIN k, ~m.at[p].ref, p \notin O, k[p] # <<>>
  PROVE  Chained(m, p, k[p], R)
<1>1. /\ k[p] \in Seq(DOMAIN k) /\ Len(k[p]) \in Nat /\ DOMAIN k[p] = 1 .. Len(k[p])
      /\ \A a, b \in DOMAIN k[p] : k[p][a] = k[p][b] => a = b
      /\ \A a \in DOMAIN k[p] : k[p][a] \in DOMAIN k /\ k[p][a] \notin R /\ k[p][a] # p
      /\ DOMAIN k \subseteq DOMAIN m.at /\ DOMAIN m.at \subseteq Items /\ Null \notin Items
  BY ListFacts
<1>2. PICK l \in Nat : l = Len(k[p])
  BY <1>1
<1>3. ListOf(m, p, k[p], O) /\ k[p] # <<>> /\ DOMAIN k[p] = 1 .. l
  BY <1>1, <1>2 DEF Linked
<1>4. \A j \in DOMAIN k[p] : m.at[k[p][j]].prev = IF j = 1 THEN k[p][l] ELSE k[p][j - 1]
  <2>1. \A j \in DOMAIN k[p] : j # 1 => j \in 2 .. Len(k[p])
    BY <1>3, <1>2
  <2> QED BY <2>1, <1>2, <1>3 DEF ListOf
<1>5. \A j \in DOMAIN k[p] : m.at[k[p][j]].next = IF j = l THEN Null ELSE k[p][j + 1]
  BY <1>1, <1>2, <1>3 DEF ListOf
<1>6. m.at[p].child = k[p][1]
  BY <1>3 DEF ListOf
<1>7. \A j \in DOMAIN k[p] : k[p][j] \in DOMAIN m.at /\ k[p][j] # Null /\ k[p][j] # p /\ k[p][j] \notin R
  BY <1>1
<1> QED BY <1>1, <1>2, <1>4, <1>5, <1>6, <1>7 DEF Chained

(* A member becomes a root. *)
LEMMA LinkDetach ==
  ASSUME NEW m, NEW k, NEW R, NEW O, IsMemory(m), IsForestOf(k, R), Linked(m, k, R, O),
         NEW p \in DOMAIN k, ~m.at[p].ref, p \notin O,
         NEW j \in DOMAIN k[p], NEW t \in Seq(DOMAIN k), Removed(k[p], t, j)
  PROVE  /\ SameData(m, cJSON_DetachItemViaPointer(m, p, k[p][j]))
         /\ Linked(cJSON_DetachItemViaPointer(m, p, k[p][j]), [k EXCEPT ![p] = t], R \cup {k[p][j]}, O)
         /\ IsForestOf([k EXCEPT ![p] = t], R \cup {k[p][j]})
<1>0. PICK l \in Nat : l = Len(k[p])
  BY ForestFacts
<1> DEFINE s  == k[p]
           y  == s[j]
           n  == cJSON_DetachItemViaPointer(m, p, y)
           z  == m.at[y].prev
           nx == m.at[y].next
           v  == IF j = l THEN s[1] ELSE s[j + 1]
<1>n. /\ DOMAIN s = 1 .. l /\ m.at[p].child = s[1]
      /\ \A a \in DOMAIN s : m.at[s[a]].next = IF a = l THEN Null ELSE s[a + 1]
      /\ \A a \in DOMAIN s : m.at[s[a]].prev = IF a = 1 THEN s[l] ELSE s[a - 1]
      /\ \A a \in DOMAIN s : s[a] \in DOMAIN m.at /\ s[a] # Null /\ s[a] # p
      /\ \A a, b \in DOMAIN s : s[a] = s[b] => a = b
  <2>1. k[p] # <<>>
    BY <1>0, ForestFacts
  <2>2. Chained(m, p, s, R)
    BY <2>1, Neighbours
  <2> QED BY <2>2, <1>0 DEF Chained
<1>1. /\ j \in Nat /\ j >= 1 /\ j <= l /\ DOMAIN s = 1 .. l
      /\ m.at[p].child = s[1] /\ 1 \in DOMAIN s /\ l \in DOMAIN s
      /\ nx = IF j = l THEN Null ELSE s[j + 1]
      /\ j # l => j + 1 \in DOMAIN s
      /\ z = IF j = 1 THEN s[l] ELSE s[j - 1]
      /\ j # 1 => j - 1 \in DOMAIN s
      /\ \A a \in DOMAIN s : s[a] \in DOMAIN m.at /\ s[a] # Null /\ s[a] # p
      /\ \A a, b \in DOMAIN s : s[a] = s[b] => a = b
  <2>1. j \in Nat /\ j >= 1 /\ j <= l /\ 1 \in DOMAIN s /\ l \in DOMAIN s /\ (j # l => j + 1 \in DOMAIN s) /\ (j # 1 => j - 1 \in DOMAIN s)
    BY <1>n
  <2> QED BY <2>1, <1>n
<1>2. p \in DOMAIN m.at /\ s \in Seq(DOMAIN k) /\ DOMAIN m.at \subseteq Items /\ \A a \in DOMAIN s : s[a] \notin R
  BY ListFacts
<1>4. /\ Len(t) = l - 1 /\ DOMAIN t = 1 .. l - 1
      /\ \A a \in DOMAIN t : t[a] = IF a < j THEN s[a] ELSE s[a + 1]
  BY <1>0, <1>1 DEF Removed
<1>a. j \in Nat /\ j >= 1 /\ j <= l /\ l \in Nat /\ DOMAIN s = 1 .. l /\ l - 1 \in Nat /\ DOMAIN t = 1 .. l - 1
  BY <1>1, <1>4
<1>b. \A a \in DOMAIN t : (a < j => t[a] = s[a]) /\ (a >= j => t[a] = s[a + 1])
  BY <1>a, <1>4
<1>5. IsForestOf([k EXCEPT ![p] = t], R \cup {y})
  BY ForestDetach
<1>7. /\ y \in DOMAIN m.at /\ y # Null /\ y # p /\ z \in DOMAIN m.at /\ v \in DOMAIN m.at
      /\ nx \in Pointer /\ z \in Pointer /\ Null \in Pointer
      /\ (j # l => nx \in DOMAIN m.at /\ nx # Null) /\ (nx = Null <=> j = l)
      /\ (y = s[1] <=> j = 1)
  BY <1>1, <1>2 DEF Pointer
<1>8. /\ SameData(m, n)
      /\ \A i \in DOMAIN m.at :
           /\ n.at[i].next = IF i = y THEN Null ELSE IF j # 1 /\ i = z THEN nx ELSE m.at[i].next
           /\ n.at[i].prev = IF i = y THEN Null ELSE IF i = v THEN z ELSE m.at[i].prev
           /\ n.at[i].child = IF i = p /\ j = 1 THEN nx ELSE m.at[i].child
  <2> DEFINE m1 == IF y # m.at[p].child THEN Put(m, z, "next", nx) ELSE m
             m2 == IF nx # Null THEN Put(m1, nx, "prev", z) ELSE m1
             m3 == IF y = m.at[p].child THEN Put(m2, p, "child", nx)
                   ELSE IF nx = Null THEN Put(m2, m2.at[p].child, "prev", z) ELSE m2
             m4 == Put(m3, y, "prev", Null)
             m5 == Put(m4, y, "next", Null)
  <2>1. n = m5
    BY DEF cJSON_DetachItemViaPointer
  <2>2. (y = m.at[p].child <=> j = 1) /\ (nx = Null <=> j = l) /\ (j # l => nx = v) /\ (j = l => m.at[p].child = v)
    BY <1>1, <1>7
  <2> HIDE DEF y, z, nx, v
  <2>3. /\ SameData(m, m1)
        /\ \A i \in DOMAIN m.at : m1.at[i].next = IF j # 1 /\ i = z THEN nx ELSE m.at[i].next
        /\ \A i \in DOMAIN m.at : m1.at[i].child = m.at[i].child /\ m1.at[i].prev = m.at[i].prev
    <3>1. CASE j # 1
      <4>1. m1 = Put(m, z, "next", nx)
        BY <3>1, <2>2
      <4> HIDE DEF m1
      <4> QED BY <4>1, <3>1, <1>7, PutNext
    <3>2. CASE j = 1
      BY <3>2, <2>2, SameDataRefl
    <3> QED BY <3>1, <3>2
  <2> HIDE DEF m1
  <2>a. IsMemory(m1) /\ DOMAIN m1.at = DOMAIN m.at
    BY <2>3 DEF SameData
  <2>4. /\ SameData(m1, m2)
        /\ \A i \in DOMAIN m.at : m2.at[i].prev = IF j # l /\ i = v THEN z ELSE m1.at[i].prev
        /\ \A i \in DOMAIN m.at : m2.at[i].child = m1.at[i].child /\ m2.at[i].next = m1.at[i].next
    <3>1. CASE j # l
      <4>1. m2 = Put(m1, v, "prev", z)
        BY <3>1, <2>2
      <4> HIDE DEF m2
      <4> QED BY <4>1, <3>1, <1>7, <2>a, PutPrev
    <3>2. CASE j = l
      BY <3>2, <2>2, <2>a, SameDataRefl
    <3> QED BY <3>1, <3>2
  <2> HIDE DEF m2
  <2>b. IsMemory(m2) /\ DOMAIN m2.at = DOMAIN m.at /\ ~m2.at[p].ref
    <3>1. p \in DOMAIN m.at /\ p \in DOMAIN m1.at
      BY <1>2, <2>a
    <3>2. m1.at[p].ref = m.at[p].ref /\ m2.at[p].ref = m1.at[p].ref
      BY <3>1, <2>3, <2>4 DEF SameData
    <3> QED BY <2>a, <2>4, <3>2 DEF SameData
  <2>5. /\ SameData(m2, m3)
        /\ \A i \in DOMAIN m.at : m3.at[i].prev = IF j # 1 /\ j = l /\ i = v THEN z ELSE m2.at[i].prev
        /\ \A i \in DOMAIN m.at : m3.at[i].child = IF j = 1 /\ i = p THEN nx ELSE m2.at[i].child
        /\ \A i \in DOMAIN m.at : m3.at[i].next = m2.at[i].next
    <3>1. CASE j = 1
      <4>1. m3 = Put(m2, p, "child", nx)
        BY <3>1, <2>2
      <4> HIDE DEF m3
      <4> QED BY <4>1, <3>1, <1>2, <1>7, <2>b, PutChild
    <3>2. CASE j # 1 /\ j = l
      <4>1. m3 = Put(m2, v, "prev", z)
        BY <3>2, <2>2, <2>3, <2>4, <1>2
      <4> HIDE DEF m3
      <4> QED BY <4>1, <3>2, <1>7, <2>b, PutPrev
    <3>3. CASE j # 1 /\ j # l
      BY <3>3, <2>2, <2>b, SameDataRefl
    <3> QED BY <3>1, <3>2, <3>3
  <2> HIDE DEF m3
  <2>c. IsMemory(m3) /\ DOMAIN m3.at = DOMAIN m.at
    BY <2>b, <2>5 DEF SameData
  <2>6. /\ SameData(m3, m4) /\ m4.at[y].prev = Null
        /\ \A i \in DOMAIN m.at : i # y => m4.at[i].prev = m3.at[i].prev
        /\ \A i \in DOMAIN m.at : m4.at[i].next = m3.at[i].next /\ m4.at[i].child = m3.at[i].child
    BY <2>c, <1>7, PutPrev
  <2> HIDE DEF m4
  <2>d. IsMemory(m4) /\ DOMAIN m4.at = DOMAIN m.at
    BY <2>c, <2>6 DEF SameData
  <2>7. /\ SameData(m4, m5) /\ m5.at[y].next = Null
        /\ \A i \in DOMAIN m.at : i # y => m5.at[i].next = m4.at[i].next
        /\ \A i \in DOMAIN m.at : m5.at[i].prev = m4.at[i].prev /\ m5.at[i].child = m4.at[i].child
    BY <2>d, <1>7, PutNext
  <2> HIDE DEF m5
  <2>8. SameData(m, m5)
    BY <2>3, <2>4, <2>5, <2>6, <2>7, SameDataTrans
  <2>9. j = 1 /\ j = l => v = y
    BY <1>1 DEF v, y
  <2>10. ASSUME NEW i \in DOMAIN m.at
         PROVE  /\ m5.at[i].next = IF i = y THEN Null ELSE IF j # 1 /\ i = z THEN nx ELSE m.at[i].next
                /\ m5.at[i].prev = IF i = y THEN Null ELSE IF i = v THEN z ELSE m.at[i].prev
                /\ m5.at[i].child = IF i = p /\ j = 1 THEN nx ELSE m.at[i].child
    <3>1. m5.at[i].next = IF i = y THEN Null ELSE IF j # 1 /\ i = z THEN nx ELSE m.at[i].next
      BY <2>3, <2>4, <2>5, <2>6, <2>7
    <3>2. m5.at[i].child = IF i = p /\ j = 1 THEN nx ELSE m.at[i].child
      BY <2>3, <2>4, <2>5, <2>6, <2>7
    <3>3. m5.at[i].prev = IF i = y THEN Null ELSE IF i = v THEN z ELSE m.at[i].prev
      BY <2>3, <2>4, <2>5, <2>6, <2>7, <2>9
    <3> QED BY <3>1, <3>2, <3>3
  <2> QED BY <2>1, <2>8, <2>10
<1> HIDE DEF n
<1>9. Elsewhere(m, n, p, {s[a] : a \in DOMAIN s} \cup {t[a] : a \in DOMAIN t})
  <2>1. y \in {s[a] : a \in DOMAIN s} /\ v \in {s[a] : a \in DOMAIN s} /\ z \in {s[a] : a \in DOMAIN s}
    BY <1>1
  <2> HIDE DEF y, z, v
  <2> QED BY <1>8, <2>1 DEF Elsewhere
<1>10. ListOf(n, p, t, O)
  <2>0. t = <<>> <=> l = 1
    <3>1. t = <<>> <=> Len(t) = 0
      OBVIOUS
    <3> QED BY <3>1, <1>1, <1>4
  <2>1. n.at[p].child = IF t = <<>> THEN Null ELSE t[1]
    <3>1. CASE j = 1
      <4>1. l # 1 => t[1] = s[j + 1]
        BY <3>1, <1>1, <1>4
      <4> QED BY <4>1, <3>1, <2>0, <1>1, <1>2, <1>8
    <3>2. CASE j # 1
      <4>1. l # 1 /\ t[1] = s[1]
        BY <3>2, <1>1, <1>4
      <4> QED BY <4>1, <3>2, <2>0, <1>1, <1>2, <1>8
    <3> QED BY <3>1, <3>2
  <2>2. ASSUME NEW a \in 1 .. l - 1 PROVE n.at[t[a]].next = IF a = l - 1 THEN Null ELSE t[a + 1]
    <3>0. a \in Nat /\ a >= 1 /\ a <= l - 1 /\ a \in DOMAIN t
      BY <1>4, <1>1
    <3>1. CASE a = j - 1
      <4>1. t[a] = s[j - 1] /\ j - 1 \in DOMAIN s /\ j # 1 /\ (a # l - 1 => t[a + 1] = s[j + 1]) /\ (a = l - 1 <=> j = l)
        <5>1. a \in DOMAIN t /\ (a # l - 1 => a + 1 \in DOMAIN t /\ a + 1 = j)
          BY ONLY <3>0, <3>1, <1>a
        <5> QED BY ONLY <5>1, <3>0, <3>1, <1>a, <1>4
      <4>2. t[a] = z /\ z # y /\ z \in DOMAIN m.at
        BY <4>1, <1>1, <3>1, <1>a
      <4>3. n.at[z].next = nx
        BY <4>1, <4>2, <1>8
      <4> QED BY <4>1, <4>2, <4>3, <1>1
    <3>2. CASE a < j - 1
      <4>1. t[a] = s[a] /\ t[a + 1] = s[a + 1] /\ a # l - 1 /\ a # l /\ a \in DOMAIN s /\ j # 1
        <5>1. a \in DOMAIN t /\ a + 1 \in DOMAIN t /\ a \in DOMAIN s
          BY ONLY <3>0, <3>2, <1>1, <1>4
        <5>2. t[a] = s[a] /\ t[a + 1] = s[a + 1]
          BY ONLY <5>1, <3>0, <3>2, <1>a, <1>b
        <5> QED BY ONLY <5>1, <5>2, <3>0, <3>2, <1>a
      <4>2. s[a] # y /\ s[a] # z /\ s[a] \in DOMAIN m.at
        BY <4>1, <3>0, <3>2, <1>1
      <4>3. m.at[s[a]].next = s[a + 1]
        BY <4>1, <1>n
      <4> QED BY <4>1, <4>2, <4>3, <1>8
    <3>3. CASE a >= j
      <4>1. /\ t[a] = s[a + 1] /\ a + 1 \in DOMAIN s /\ (a = l - 1 <=> a + 1 = l)
            /\ (a # l - 1 => t[a + 1] = s[(a + 1) + 1]) /\ a + 1 # j /\ (j # 1 => a + 1 # j - 1)
        <5>1. a \in DOMAIN t /\ (a # l - 1 => a + 1 \in DOMAIN t) /\ a + 1 \in DOMAIN s
          BY ONLY <3>0, <3>3, <1>a
        <5>2. t[a] = s[a + 1] /\ (a # l - 1 => t[a + 1] = s[(a + 1) + 1])
          BY ONLY <5>1, <3>0, <3>3, <1>a, <1>b
        <5> QED BY ONLY <5>1, <5>2, <3>0, <3>3, <1>a
      <4>2. s[a + 1] # y /\ (j # 1 => s[a + 1] # z) /\ s[a + 1] \in DOMAIN m.at
        BY <4>1, <1>1, SMTT(20)
      <4>3. m.at[s[a + 1]].next = IF a + 1 = l THEN Null ELSE s[(a + 1) + 1]
        BY <4>1, <1>n
      <4> QED BY <4>1, <4>2, <4>3, <1>8
    <3>4. a = j - 1 \/ a < j - 1 \/ a >= j
      BY ONLY <3>0, <1>1
    <3> QED BY ONLY <3>4, <3>1, <3>2, <3>3
  <2>3. ASSUME NEW a \in 2 .. l - 1 PROVE n.at[t[a]].prev = t[a - 1]
    <3>0. a \in Nat /\ a >= 2 /\ a <= l - 1 /\ a \in DOMAIN t /\ a - 1 \in DOMAIN t
      BY <1>4, <1>1
    <3>1. CASE a < j
      <4>1. t[a] = s[a] /\ t[a - 1] = s[a - 1] /\ a \in DOMAIN s /\ a # 1 /\ a # j /\ (j # l => a # j + 1)
        <5>1. t[a] = s[a] /\ t[a - 1] = s[a - 1]
          BY ONLY <3>0, <3>1, <1>1, <1>4
        <5> QED BY ONLY <5>1, <3>0, <3>1, <1>a
      <4>2. s[a] # y /\ s[a] # v /\ s[a] \in DOMAIN m.at
        BY <4>1, <1>1
      <4>3. m.at[s[a]].prev = s[a - 1]
        BY <4>1, <1>n
      <4> QED BY <4>1, <4>2, <4>3, <1>8
    <3>2. CASE a = j
      <4>1. t[a] = v /\ v # y /\ t[a - 1] = z
        <5>1. t[a] = s[j + 1] /\ t[a - 1] = s[j - 1] /\ j # l /\ j # 1
          BY ONLY <3>0, <3>2, <1>a, <1>b
        <5> QED BY <5>1, <1>1
      <4> QED BY <4>1, <1>7, <1>8
    <3>3. CASE a > j
      <4>1. t[a] = s[a + 1] /\ t[a - 1] = s[a] /\ a + 1 \in DOMAIN s /\ a + 1 # 1 /\ a + 1 # j /\ a + 1 # j + 1 /\ (a + 1) - 1 = a
        <5>1. t[a] = s[a + 1] /\ t[a - 1] = s[(a - 1) + 1] /\ (a - 1) + 1 = a
          <6>1. t[a - 1] = IF a - 1 < j THEN s[a - 1] ELSE s[(a - 1) + 1]
            BY ONLY <3>0, <1>4
          <6>2. ~(a - 1 < j) /\ ~(a < j) /\ (a - 1) + 1 = a
            BY ONLY <3>0, <3>3, <1>1
          <6> QED BY ONLY <6>1, <6>2, <3>0, <1>4
        <5> QED BY ONLY <5>1, <3>0, <3>3, <1>1, <1>4
      <4>2. s[a + 1] # y /\ s[a + 1] # v /\ s[a + 1] \in DOMAIN m.at
        BY <4>1, <1>1
      <4>3. m.at[s[a + 1]].prev = s[a]
        BY <4>1, <1>n, SMTT(20)
      <4> QED BY <4>1, <4>2, <4>3, <1>8
    <3>4. a < j \/ a = j \/ a > j
      BY ONLY <3>0, <1>1
    <3> QED BY ONLY <3>4, <3>1, <3>2, <3>3
  <2>4. ASSUME t # <<>> PROVE n.at[t[1]].prev = t[l - 1]
    <3>0. l # 1 /\ 1 \in DOMAIN t /\ l - 1 \in DOMAIN t /\ l - 1 = l - 1
      BY <2>0, <2>4, <1>1, <1>4
    <3>1. CASE j = 1
      <4>1. t[1] = v /\ t[l - 1] = s[l] /\ v # y
        <5>1. t[1] = s[j + 1] /\ j # l
          BY <3>0, <3>1, <1>1, <1>4
        <5>2. t[l - 1] = s[l - 1 + 1] /\ l - 1 + 1 = l
          BY <3>0, <3>1, <1>1, <1>4
        <5> QED BY <5>1, <5>2, <1>1
      <4> QED BY <4>1, <3>1, <1>1, <1>7, <1>8
    <3>2. CASE j # 1 /\ j = l
      <4>1. t[1] = v /\ t[l - 1] = z /\ v # y
        <5>1. t[1] = s[1]
          BY <3>0, <3>2, <1>1, <1>4
        <5>2. t[l - 1] = s[l - 1] /\ l - 1 = j - 1
          BY <3>0, <3>2, <1>1, <1>4
        <5> QED BY <5>1, <5>2, <3>2, <1>1
      <4> QED BY <4>1, <1>7, <1>8
    <3>3. CASE j # 1 /\ j # l
      <4>1. t[1] = s[1] /\ t[l - 1] = s[l] /\ s[1] # v /\ s[1] # y
        <5>1. t[1] = s[1] /\ 1 # j + 1
          BY <3>0, <3>3, <1>1, <1>4
        <5>2. t[l - 1] = s[l - 1 + 1] /\ l - 1 + 1 = l
          BY <3>0, <3>3, <1>1, <1>4
        <5> QED BY <5>1, <5>2, <3>3, <1>1
      <4>2. m.at[s[1]].prev = s[l]
        BY <1>1, <1>n
      <4> QED BY <4>1, <4>2, <1>1, <1>8
    <3> QED BY <3>1, <3>2, <3>3
  <2>5. \A a \in 1 .. l - 1 : n.at[t[a]].next = IF a = l - 1 THEN Null ELSE t[a + 1]
    BY <2>2
  <2>6. \A a \in 2 .. l - 1 : n.at[t[a]].prev = t[a - 1]
    BY <2>3
  <2> QED BY ONLY <2>1, <2>4, <2>5, <2>6, <1>4, p \notin O DEF ListOf
<1>11. \A r \in R \cup {y} : n.at[r].next = Null /\ n.at[r].prev = Null
  <2>1. \A r \in R : r \in DOMAIN m.at /\ r # y /\ r # v /\ r # z
    BY <1>1, <1>2 DEF IsForestOf, Linked
  <2> HIDE DEF y, v, z, nx
  <2> QED BY <2>1, <1>7, <1>8 DEF Linked
<1>12. Linked(n, [k EXCEPT ![p] = t], R \cup {y}, O)
  BY <1>5, <1>8, <1>9, <1>10, <1>11, Relink
<1> QED BY <1>5, <1>8, <1>12 DEF n

(* A root takes the place of a member, which becomes a root and is deleted. *)
LEMMA LinkReplace ==
  ASSUME NEW m, NEW k, NEW R, NEW O, IsMemory(m), IsForestOf(k, R), Linked(m, k, R, O),
         NEW x \in R, NEW p \in DOMAIN k, p \notin Under(k, {x}), ~m.at[p].ref, p \notin O, NEW j \in DOMAIN k[p]
  PROVE  \E n : /\ cJSON_ReplaceItemViaPointer(m, p, k[p][j], x) = Result(cJSON_Delete(n, k[p][j]), TRUE)
                /\ SameData(m, n)
                /\ Linked(n, [k EXCEPT ![p] = [@ EXCEPT ![j] = x]], (R \ {x}) \cup {k[p][j]}, O)
                /\ IsForestOf([k EXCEPT ![p] = [@ EXCEPT ![j] = x]], (R \ {x}) \cup {k[p][j]})
<1>0. PICK l \in Nat : l = Len(k[p])
  BY ForestFacts
<1> DEFINE s  == k[p]
           t  == [s EXCEPT ![j] = x]
           y  == s[j]
           z  == m.at[y].prev
           nx == m.at[y].next
           v  == IF j = l THEN s[1] ELSE s[j + 1]
           m0 == Put(m, x, "next", nx)
           m1 == Put(m0, x, "prev", z)
           m2 == IF nx # Null THEN Put(m1, nx, "prev", x) ELSE m1
           m3 == IF m.at[p].child = y
                 THEN Put(IF m2.at[y].prev = y THEN Put(m2, x, "prev", x) ELSE m2, p, "child", x)
                 ELSE LET m4 == IF z # Null THEN Put(m2, z, "next", x) ELSE m2
                      IN  IF nx = Null THEN Put(m4, m4.at[p].child, "prev", x) ELSE m4
           m5 == Put(m3, y, "next", Null)
           n  == Put(m5, y, "prev", Null)
<1>n. /\ DOMAIN s = 1 .. l /\ m.at[p].child = s[1]
      /\ \A a \in DOMAIN s : m.at[s[a]].next = IF a = l THEN Null ELSE s[a + 1]
      /\ \A a \in DOMAIN s : m.at[s[a]].prev = IF a = 1 THEN s[l] ELSE s[a - 1]
      /\ \A a \in DOMAIN s : s[a] \in DOMAIN m.at /\ s[a] # Null /\ s[a] # p
      /\ \A a, b \in DOMAIN s : s[a] = s[b] => a = b
  <2>1. k[p] # <<>>
    BY <1>0, ForestFacts
  <2>2. Chained(m, p, s, R)
    BY <2>1, Neighbours
  <2> QED BY <2>2, <1>0 DEF Chained
<1>1. /\ j \in Nat /\ j >= 1 /\ j <= l /\ DOMAIN s = 1 .. l
      /\ m.at[p].child = s[1] /\ 1 \in DOMAIN s /\ l \in DOMAIN s
      /\ nx = IF j = l THEN Null ELSE s[j + 1]
      /\ j # l => j + 1 \in DOMAIN s
      /\ z = IF j = 1 THEN s[l] ELSE s[j - 1]
      /\ j # 1 => j - 1 \in DOMAIN s
      /\ \A a \in DOMAIN s : s[a] \in DOMAIN m.at /\ s[a] # Null /\ s[a] # p
      /\ \A a, b \in DOMAIN s : s[a] = s[b] => a = b
  <2>1. j \in Nat /\ j >= 1 /\ j <= l /\ 1 \in DOMAIN s /\ l \in DOMAIN s /\ (j # l => j + 1 \in DOMAIN s) /\ (j # 1 => j - 1 \in DOMAIN s)
    BY <1>n
  <2> QED BY <2>1, <1>n
<1>2. p \in DOMAIN m.at /\ s \in Seq(DOMAIN k) /\ DOMAIN m.at \subseteq Items /\ \A a \in DOMAIN s : s[a] \notin R
  BY ListFacts
<1>3. /\ x \in DOMAIN k /\ x \in DOMAIN m.at /\ x \in Items /\ x # Null
      /\ m.at[x].next = Null /\ m.at[x].prev = Null
      /\ \A a \in DOMAIN s : s[a] # x
  BY RootFacts
<1>4. x # p
  BY <1>3, UnderOne
<1>5. /\ t \in Seq(DOMAIN k) /\ DOMAIN t = 1 .. l /\ Len(t) = l /\ t # <<>> /\ t[j] = x
      /\ \A a \in DOMAIN s : a # j => t[a] = s[a]
  <2>1. t \in Seq(DOMAIN k) /\ DOMAIN t = DOMAIN s /\ Len(t) = Len(s)
    BY <1>2, <1>3
  <2>2. \A a \in DOMAIN s : t[a] = IF a = j THEN x ELSE s[a]
    BY <1>2
  <2> HIDE DEF t
  <2>3. t # <<>>
    BY <2>1, <1>1
  <2> QED BY <2>1, <2>2, <2>3, <1>0, <1>1
<1>6. [k EXCEPT ![p] = [@ EXCEPT ![j] = x]] = [k EXCEPT ![p] = t]
  OBVIOUS
<1>7. IsForestOf([k EXCEPT ![p] = t], (R \ {x}) \cup {y})
  BY <1>6, ForestReplace
<1> HIDE DEF t
<1>8. /\ y \in DOMAIN m.at /\ y # Null /\ y # p /\ y # x /\ z \in DOMAIN m.at /\ z # Null /\ z # x /\ v \in DOMAIN m.at /\ v # x
      /\ nx \in Pointer /\ z \in Pointer /\ x \in Pointer /\ Null \in Pointer
      /\ (j # l => nx \in DOMAIN m.at /\ nx # Null /\ nx = v) /\ (nx = Null <=> j = l)
      /\ (y = s[1] <=> j = 1) /\ (z = y <=> l = 1) /\ (j = l => m.at[p].child = v) /\ (l = 1 => v = y)
  <2>1. y \in DOMAIN m.at /\ y # Null /\ y # p /\ y # x /\ z \in DOMAIN m.at /\ z # Null /\ z # x /\ v \in DOMAIN m.at /\ v # x
    BY <1>1, <1>3
  <2>2. nx \in Pointer /\ z \in Pointer /\ x \in Pointer /\ Null \in Pointer
    BY <1>1, <1>2, <1>3 DEF Pointer
  <2>3. (j # l => nx \in DOMAIN m.at /\ nx # Null /\ nx = v) /\ (nx = Null <=> j = l)
    BY <1>1
  <2>4. (y = s[1] <=> j = 1) /\ (j = l => m.at[p].child = v)
    BY <1>1
  <2>5. z = y <=> l = 1
    BY <1>1
  <2>6. l = 1 => v = y
    BY <1>1
  <2> QED BY <2>1, <2>2, <2>3, <2>4, <2>5, <2>6
<1>9. cJSON_ReplaceItemViaPointer(m, p, y, x) = Result(cJSON_Delete(n, y), TRUE)
  BY <1>8 DEF cJSON_ReplaceItemViaPointer
<1>10. /\ SameData(m, n)
       /\ \A i \in DOMAIN m.at :
            /\ n.at[i].next = IF i = y THEN Null ELSE IF i = x THEN nx ELSE IF j # 1 /\ i = z THEN x ELSE m.at[i].next
            /\ n.at[i].prev = IF i = y THEN Null ELSE IF i = x THEN (IF l = 1 THEN x ELSE z)
                              ELSE IF i = v THEN x ELSE m.at[i].prev
            /\ n.at[i].child = IF i = p /\ j = 1 THEN x ELSE m.at[i].child
  <2>1. m.at[p].child = y <=> j = 1
    BY <1>1, <1>8
  <2> HIDE DEF y, z, nx, v
  <2>2. /\ SameData(m, m0)
        /\ \A i \in DOMAIN m.at : m0.at[i].next = IF i = x THEN nx ELSE m.at[i].next
        /\ \A i \in DOMAIN m.at : m0.at[i].child = m.at[i].child /\ m0.at[i].prev = m.at[i].prev
    BY <1>3, <1>8, PutNext
  <2> HIDE DEF m0
  <2>a. IsMemory(m0) /\ DOMAIN m0.at = DOMAIN m.at
    BY <2>2 DEF SameData
  <2>3. /\ SameData(m0, m1)
        /\ \A i \in DOMAIN m.at : m1.at[i].prev = IF i = x THEN z ELSE m0.at[i].prev
        /\ \A i \in DOMAIN m.at : m1.at[i].child = m0.at[i].child /\ m1.at[i].next = m0.at[i].next
    BY <2>a, <1>3, <1>8, PutPrev
  <2> HIDE DEF m1
  <2>b. IsMemory(m1) /\ DOMAIN m1.at = DOMAIN m.at
    BY <2>a, <2>3 DEF SameData
  <2>4. /\ SameData(m1, m2)
        /\ \A i \in DOMAIN m.at : m2.at[i].prev = IF j # l /\ i = v THEN x ELSE m1.at[i].prev
        /\ \A i \in DOMAIN m.at : m2.at[i].child = m1.at[i].child /\ m2.at[i].next = m1.at[i].next
    <3>1. CASE j # l
      <4>1. m2 = Put(m1, v, "prev", x)
        BY <3>1, <1>8
      <4> HIDE DEF m2
      <4> QED BY <4>1, <3>1, <1>8, <2>b, PutPrev
    <3>2. CASE j = l
      BY <3>2, <1>8, <2>b, SameDataRefl
    <3> QED BY <3>1, <3>2
  <2> HIDE DEF m2
  <2>c. IsMemory(m2) /\ DOMAIN m2.at = DOMAIN m.at
    BY <2>b, <2>4 DEF SameData
  <2>p. p \in DOMAIN m2.at /\ ~m2.at[p].ref
    <3>1. p \in DOMAIN m.at /\ p \in DOMAIN m0.at /\ p \in DOMAIN m1.at
      BY <1>2, <2>a, <2>b
    <3>2. m0.at[p].ref = m.at[p].ref /\ m1.at[p].ref = m0.at[p].ref /\ m2.at[p].ref = m1.at[p].ref
      BY <3>1, <2>2, <2>3, <2>4 DEF SameData
    <3> QED BY <3>1, <3>2, <2>c
  <2>5. m2.at[y].prev = y <=> l = 1
    <3>1. m2.at[y].prev = IF j # l /\ y = v THEN x ELSE z
      BY <2>2, <2>3, <2>4, <1>8 DEF z
    <3>2. j # l => y # v
      BY <1>1 DEF y, v
    <3> QED BY <3>1, <3>2, <1>8
  <2>6. /\ SameData(m2, m3)
        /\ \A i \in DOMAIN m.at : m3.at[i].next = IF j # 1 /\ i = z THEN x ELSE m2.at[i].next
        /\ \A i \in DOMAIN m.at : m3.at[i].prev = IF l = 1 /\ i = x THEN x ELSE IF j # 1 /\ j = l /\ i = v THEN x
                                                  ELSE m2.at[i].prev
        /\ \A i \in DOMAIN m.at : m3.at[i].child = IF j = 1 /\ i = p THEN x ELSE m2.at[i].child
    <3>1. CASE j = 1
      <4> DEFINE m4 == IF m2.at[y].prev = y THEN Put(m2, x, "prev", x) ELSE m2
      <4>1. m3 = Put(m4, p, "child", x)
        BY <3>1, <2>1
      <4> HIDE DEF m3
      <4>2. /\ SameData(m2, m4)
            /\ \A i \in DOMAIN m.at : m4.at[i].prev = IF l = 1 /\ i = x THEN x ELSE m2.at[i].prev
            /\ \A i \in DOMAIN m.at : m4.at[i].child = m2.at[i].child /\ m4.at[i].next = m2.at[i].next
        <5>1. CASE l = 1
          <6>1. m4 = Put(m2, x, "prev", x)
            BY <5>1, <2>5
          <6> HIDE DEF m4
          <6> QED BY <6>1, <5>1, <1>3, <1>8, <2>c, PutPrev
        <5>2. CASE l # 1
          BY <5>2, <2>5, <2>c, SameDataRefl
        <5> QED BY <5>1, <5>2
      <4> HIDE DEF m4
      <4>a. IsMemory(m4) /\ DOMAIN m4.at = DOMAIN m.at /\ ~m4.at[p].ref
        BY <2>c, <4>2, <2>p DEF SameData
      <4>3. /\ SameData(m4, m3) /\ m3.at[p].child = x
            /\ \A i \in DOMAIN m.at : i # p => m3.at[i].child = m4.at[i].child
            /\ \A i \in DOMAIN m.at : m3.at[i].prev = m4.at[i].prev /\ m3.at[i].next = m4.at[i].next
        BY <4>1, <4>a, <1>2, <1>8, PutChild
      <4>4. SameData(m2, m3)
        BY <4>2, <4>3, SameDataTrans
      <4> QED BY <4>2, <4>3, <4>4, <3>1
    <3>2. CASE j # 1
      <4> DEFINE m4 == IF z # Null THEN Put(m2, z, "next", x) ELSE m2
      <4>1. m4 = Put(m2, z, "next", x) /\ m3 = IF nx = Null THEN Put(m4, m4.at[p].child, "prev", x) ELSE m4
        BY <3>2, <2>1, <1>8
      <4> HIDE DEF m3, m4
      <4>2. /\ SameData(m2, m4) /\ m4.at[z].next = x
            /\ \A i \in DOMAIN m.at : i # z => m4.at[i].next = m2.at[i].next
            /\ \A i \in DOMAIN m.at : m4.at[i].child = m2.at[i].child /\ m4.at[i].prev = m2.at[i].prev
        BY <4>1, <2>c, <1>8, PutNext
      <4>a. IsMemory(m4) /\ DOMAIN m4.at = DOMAIN m.at
        BY <2>c, <4>2 DEF SameData
      <4>b. l # 1
        BY <3>2, <1>1
      <4>3. CASE j = l
        <5>1. m3 = Put(m4, v, "prev", x)
          BY <4>1, <4>3, <1>8, <1>2, <2>2, <2>3, <2>4, <4>2
        <5>2. /\ SameData(m4, m3) /\ m3.at[v].prev = x
              /\ \A i \in DOMAIN m.at : i # v => m3.at[i].prev = m4.at[i].prev
              /\ \A i \in DOMAIN m.at : m3.at[i].child = m4.at[i].child /\ m3.at[i].next = m4.at[i].next
          BY <5>1, <4>a, <1>8, PutPrev
        <5>3. SameData(m2, m3)
          BY <4>2, <5>2, SameDataTrans
        <5> QED BY <4>2, <4>3, <4>b, <5>2, <5>3, <3>2
      <4>4. CASE j # l
        <5>1. m3 = m4
          BY <4>1, <4>4, <1>8
        <5> QED BY <5>1, <4>2, <4>4, <4>b, <3>2
      <4> QED BY <4>3, <4>4
    <3> QED BY <3>1, <3>2
  <2> HIDE DEF m3
  <2>d. IsMemory(m3) /\ DOMAIN m3.at = DOMAIN m.at
    BY <2>c, <2>6 DEF SameData
  <2>7. /\ SameData(m3, m5) /\ m5.at[y].next = Null
        /\ \A i \in DOMAIN m.at : i # y => m5.at[i].next = m3.at[i].next
        /\ \A i \in DOMAIN m.at : m5.at[i].prev = m3.at[i].prev /\ m5.at[i].child = m3.at[i].child
    BY <2>d, <1>8, PutNext
  <2> HIDE DEF m5
  <2>e. IsMemory(m5) /\ DOMAIN m5.at = DOMAIN m.at
    BY <2>d, <2>7 DEF SameData
  <2>8. /\ SameData(m5, n) /\ n.at[y].prev = Null
        /\ \A i \in DOMAIN m.at : i # y => n.at[i].prev = m5.at[i].prev
        /\ \A i \in DOMAIN m.at : n.at[i].next = m5.at[i].next /\ n.at[i].child = m5.at[i].child
    BY <2>e, <1>8, PutPrev
  <2> HIDE DEF n
  <2>9. SameData(m, n)
    BY <2>2, <2>3, <2>4, <2>6, <2>7, <2>8, SameDataTrans
  <2>10. ASSUME NEW i \in DOMAIN m.at
         PROVE  /\ n.at[i].next = IF i = y THEN Null ELSE IF i = x THEN nx ELSE IF j # 1 /\ i = z THEN x ELSE m.at[i].next
                /\ n.at[i].prev = IF i = y THEN Null ELSE IF i = x THEN (IF l = 1 THEN x ELSE z)
                                  ELSE IF i = v THEN x ELSE m.at[i].prev
                /\ n.at[i].child = IF i = p /\ j = 1 THEN x ELSE m.at[i].child
    <3>1. n.at[i].next = IF i = y THEN Null ELSE IF i = x THEN nx ELSE IF j # 1 /\ i = z THEN x ELSE m.at[i].next
      BY <2>2, <2>3, <2>4, <2>6, <2>7, <2>8, <1>8
    <3>2. n.at[i].child = IF i = p /\ j = 1 THEN x ELSE m.at[i].child
      BY <2>2, <2>3, <2>4, <2>6, <2>7, <2>8
    <3>3. j = l /\ j = 1 => v = y
      BY <1>8
    <3>4. n.at[i].prev = IF i = y THEN Null ELSE IF i = x THEN (IF l = 1 THEN x ELSE z)
                         ELSE IF i = v THEN x ELSE m.at[i].prev
      BY <2>2, <2>3, <2>4, <2>6, <2>7, <2>8, <3>3, <1>8
    <3> QED BY <3>1, <3>2, <3>4
  <2> QED BY <2>9, <2>10
<1> HIDE DEF n
<1>11. Elsewhere(m, n, p, {s[a] : a \in DOMAIN s} \cup {t[a] : a \in DOMAIN t})
  <2>1. /\ y \in {s[a] : a \in DOMAIN s} /\ v \in {s[a] : a \in DOMAIN s} /\ z \in {s[a] : a \in DOMAIN s}
        /\ x \in {t[a] : a \in DOMAIN t}
    BY <1>1, <1>5
  <2> HIDE DEF y, z, v
  <2> QED BY <1>10, <2>1 DEF Elsewhere
<1>12. ListOf(n, p, t, O)
  <2>1. n.at[p].child = IF t = <<>> THEN Null ELSE t[1]
    <3>1. CASE j = 1
      BY <3>1, <1>1, <1>2, <1>5, <1>10
    <3>2. CASE j # 1
      <4>1. t[1] = s[1]
        BY <3>2, <1>1, <1>5
      <4> QED BY <4>1, <3>2, <1>1, <1>2, <1>5, <1>10
    <3> QED BY <3>1, <3>2
  <2>2. ASSUME NEW a \in DOMAIN s PROVE n.at[t[a]].next = IF a = l THEN Null ELSE t[a + 1]
    <3>0. a \in Nat /\ a >= 1 /\ a <= l /\ (a # l => a + 1 \in DOMAIN s)
      BY <1>1
    <3>1. CASE a = j
      <4>1. t[a] = x /\ (a # l => t[a + 1] = s[j + 1])
        BY <3>0, <3>1, <1>5
      <4> QED BY <4>1, <3>1, <1>1, <1>3, <1>8, <1>10
    <3>2. CASE j # 1 /\ a = j - 1
      <4>1. t[a] = s[a] /\ s[a] = z /\ a + 1 = j /\ a # l /\ a # j
        BY <3>0, <3>2, <1>1, <1>5
      <4>2. z # y
        BY <3>2, <1>1, <1>8
      <4> QED BY <4>1, <4>2, <3>2, <1>5, <1>8, <1>10
    <3>3. CASE a # j /\ (j # 1 => a # j - 1)
      <4>1. t[a] = s[a] /\ s[a] # x /\ s[a] # y /\ (j # 1 => s[a] # z) /\ s[a] \in DOMAIN m.at
        BY <3>3, <1>1, <1>3, <1>5
      <4>2. a # l => t[a + 1] = s[a + 1]
        <5>1. a # l => a + 1 # j
          BY <3>0, <3>3, <1>1
        <5> QED BY <5>1, <3>0, <1>5
      <4>3. m.at[s[a]].next = IF a = l THEN Null ELSE s[a + 1]
        BY <1>n
      <4> QED BY <4>1, <4>2, <4>3, <1>10
    <3> QED BY <3>1, <3>2, <3>3
  <2>3. ASSUME NEW a \in DOMAIN s, a # 1 PROVE n.at[t[a]].prev = t[a - 1]
    <3>0. a \in Nat /\ a > 1 /\ a <= l /\ a - 1 \in DOMAIN s
      BY <1>1, <2>3
    <3>1. CASE a = j
      <4>1. t[a] = x /\ t[a - 1] = s[j - 1] /\ l # 1
        BY <3>0, <3>1, <1>5
      <4> QED BY <4>1, <3>1, <2>3, <1>1, <1>3, <1>8, <1>10
    <3>2. CASE a = j + 1
      <4>1. t[a] = v /\ t[a - 1] = x /\ v # y
        <5>1. j # l /\ t[a] = s[a] /\ a - 1 = j
          BY <3>0, <3>2, <1>1, <1>5
        <5> QED BY <5>1, <3>2, <1>1, <1>5
      <4> QED BY <4>1, <1>8, <1>10
    <3>3. CASE a # j /\ a # j + 1
      <4>1. t[a] = s[a] /\ t[a - 1] = s[a - 1]
        <5>1. a - 1 # j
          BY <3>0, <3>3, <1>1
        <5> QED BY <5>1, <3>0, <3>3, <1>5
      <4>2. s[a] # x /\ s[a] # y /\ s[a] # v /\ s[a] \in DOMAIN m.at
        BY <3>3, <2>3, <1>1, <1>3
      <4>3. m.at[s[a]].prev = s[a - 1]
        BY <1>n, <2>3
      <4> QED BY <4>1, <4>2, <4>3, <1>10
    <3> QED BY <3>1, <3>2, <3>3
  <2>4. n.at[t[1]].prev = t[l]
    <3>1. CASE j = 1
      <4>1. t[1] = x /\ t[l] = IF l = 1 THEN x ELSE s[l]
        BY <3>1, <1>1, <1>5
      <4> QED BY <4>1, <3>1, <1>1, <1>3, <1>8, <1>10
    <3>2. CASE j # 1 /\ j = l
      <4>1. t[1] = v /\ t[l] = x /\ v # y
        BY <3>2, <1>1, <1>5
      <4> QED BY <4>1, <1>8, <1>10
    <3>3. CASE j # 1 /\ j # l
      <4>1. t[1] = s[1] /\ t[l] = s[l] /\ s[1] # v /\ s[1] # y /\ s[1] # x /\ s[1] \in DOMAIN m.at
        <5>1. 1 # j + 1
          BY <1>1
        <5> QED BY <5>1, <3>3, <1>1, <1>3, <1>5
      <4>2. m.at[s[1]].prev = s[l]
        BY <1>n, <1>1
      <4> QED BY <4>1, <4>2, <1>10
    <3> QED BY <3>1, <3>2, <3>3
  <2>5. \A a \in 1 .. Len(t) : n.at[t[a]].next = IF a = Len(t) THEN Null ELSE t[a + 1]
    BY <2>2, <1>1, <1>5
  <2>6. \A a \in 2 .. Len(t) : n.at[t[a]].prev = t[a - 1]
    <3>1. \A a \in 2 .. Len(t) : a \in DOMAIN s /\ a # 1
      BY <1>1, <1>5
    <3> QED BY <2>3, <3>1
  <2> QED BY ONLY <2>1, <2>4, <2>5, <2>6, <1>5, p \notin O DEF ListOf
<1>13. \A r \in (R \ {x}) \cup {y} : n.at[r].next = Null /\ n.at[r].prev = Null
  <2>1. \A r \in R : r \in DOMAIN m.at /\ r # y /\ r # v /\ r # z
    BY <1>1, <1>2 DEF IsForestOf, Linked
  <2> HIDE DEF y, v, z, nx
  <2> QED BY <2>1, <1>8, <1>10 DEF Linked
<1>14. Linked(n, [k EXCEPT ![p] = t], (R \ {x}) \cup {y}, O)
  BY <1>5, <1>7, <1>10, <1>11, <1>12, <1>13, Relink
<1> HIDE DEF y
<1> QED BY <1>6, <1>7, <1>9, <1>10, <1>14 DEF y

(* The last member of a list. *)
LastOf(s) == IF s = <<>> THEN Null ELSE s[Len(s)]

(* A root becomes the last member of an open list. *)
LEMMA LinkChain ==
  ASSUME NEW m, NEW k, NEW R, NEW O, IsMemory(m), IsForestOf(k, R), Linked(m, k, R, O),
         NEW x \in R, NEW p \in DOMAIN k, p \notin Under(k, {x}), ~m.at[p].ref, p \in O
  PROVE  /\ SameData(m, Chain(m, p, LastOf(k[p]), x))
         /\ Linked(Chain(m, p, LastOf(k[p]), x), [k EXCEPT ![p] = Append(k[p], x)], R \ {x}, O)
         /\ IsForestOf([k EXCEPT ![p] = Append(k[p], x)], R \ {x})
<1>0. PICK l \in Nat : l = Len(k[p])
  BY ForestFacts
<1> DEFINE s == k[p]
           t == Append(s, x)
           n == Chain(m, p, LastOf(s), x)
<1>1. /\ s \in Seq(DOMAIN k) /\ DOMAIN s = 1 .. l
      /\ (s = <<>> <=> l = 0)
      /\ \A a, b \in DOMAIN s : s[a] = s[b] => a = b
      /\ \A a \in DOMAIN s : s[a] \in DOMAIN k /\ s[a] \notin R /\ s[a] # p
      /\ DOMAIN k \subseteq DOMAIN m.at /\ DOMAIN m.at \subseteq Items /\ Null \notin Items
  BY <1>0, ListFacts
<1>2. /\ x \in DOMAIN k /\ x \in DOMAIN m.at /\ x \in Items /\ x # Null
      /\ m.at[x].next = Null /\ m.at[x].prev = Null
      /\ \A a \in DOMAIN s : s[a] # x
  BY RootFacts
<1>3. x # p /\ p \in DOMAIN m.at /\ x \in Pointer
  BY <1>1, <1>2, UnderOne DEF Pointer
<1>4. /\ t \in Seq(DOMAIN k) /\ Len(t) = l + 1
      /\ DOMAIN t = 1 .. l + 1
      /\ \A a \in 1 .. l : t[a] = s[a]
      /\ t[l + 1] = x /\ t # <<>> /\ Inserted(s, t, l + 1, x)
  BY <1>0, <1>1, <1>2, AppendIs
<1>5. IsForestOf([k EXCEPT ![p] = t], R \ {x})
  BY <1>4, ForestInsert
<1> HIDE DEF t
<1>a. ListOf(m, p, s, O)
  BY DEF Linked
<1>6. /\ SameData(m, n)
      /\ Elsewhere(m, n, p, {s[a] : a \in DOMAIN s} \cup {t[a] : a \in DOMAIN t})
      /\ ListOf(n, p, t, O)
      /\ \A r \in R \ {x} : n.at[r].next = m.at[r].next /\ n.at[r].prev = m.at[r].prev
  <2>1. CASE s = <<>>
    <3>2. n = Put(m, p, "child", x)
      BY <2>1 DEF Chain, LastOf
    <3>3. /\ SameData(m, n) /\ n.at[p].child = x
          /\ \A j \in DOMAIN m.at : j # p => n.at[j].child = m.at[j].child
          /\ \A j \in DOMAIN m.at : n.at[j].next = m.at[j].next /\ n.at[j].prev = m.at[j].prev
      BY <1>3, <3>2, PutChild
    <3> HIDE DEF n
    <3>7. DOMAIN t = {1} /\ t[1] = x /\ Len(t) = 1
      BY <2>1, <1>1, <1>4
    <3>8. Elsewhere(m, n, p, {s[a] : a \in DOMAIN s} \cup {t[a] : a \in DOMAIN t})
      BY <3>3 DEF Elsewhere
    <3>9. ListOf(n, p, t, O)
      BY <3>3, <3>7, <1>2, <1>4 DEF ListOf
    <3> QED BY <3>3, <3>8, <3>9, <1>1 DEF IsForestOf
  <2>2. CASE s # <<>>
    <3> DEFINE y  == s[l]
               m1 == Put(m, y, "next", x)
    <3>0. l \in DOMAIN s /\ 1 \in DOMAIN s /\ y \in DOMAIN m.at /\ y # Null /\ y # x /\ y \in Pointer
      <4>1. l \in DOMAIN s /\ 1 \in DOMAIN s
        BY <1>1, <2>2
      <4> QED BY <4>1, <1>1, <1>2 DEF Pointer
    <3>2. n = Put(m1, x, "prev", y)
      BY <2>2, <3>0, <1>0 DEF Chain, LastOf, suffix_object
    <3>3. /\ SameData(m, m1) /\ m1.at[y].next = x
          /\ \A j \in DOMAIN m.at : j # y => m1.at[j].next = m.at[j].next
          /\ \A j \in DOMAIN m.at : m1.at[j].child = m.at[j].child /\ m1.at[j].prev = m.at[j].prev
      BY <3>0, <1>3, PutNext
    <3> HIDE DEF m1, y
    <3>a. IsMemory(m1) /\ DOMAIN m1.at = DOMAIN m.at
      BY <3>3 DEF SameData
    <3>4. /\ SameData(m1, n) /\ n.at[x].prev = y
          /\ \A j \in DOMAIN m.at : n.at[j].child = m1.at[j].child /\ n.at[j].next = m1.at[j].next
          /\ \A j \in DOMAIN m.at : j # x => n.at[j].prev = m1.at[j].prev
      BY <1>2, <3>a, <3>0, <3>2, PutPrev
    <3> HIDE DEF n
    <3>6. SameData(m, n)
      BY <3>3, <3>4, SameDataTrans
    <3>8. Elsewhere(m, n, p, {s[a] : a \in DOMAIN s} \cup {t[a] : a \in DOMAIN t})
      <4>1. y \in {s[a] : a \in DOMAIN s} /\ x \in {t[a] : a \in DOMAIN t}
        BY <3>0, <1>4 DEF y
      <4> QED BY <3>3, <3>4, <4>1 DEF Elsewhere
    <3>9. ListOf(n, p, t, O)
      <4>0. t[1] = s[1] /\ m.at[p].child = s[1] /\ m.at[s[1]].prev = Null
        BY <3>0, <1>1, <1>4, <1>a DEF ListOf
      <4>1. n.at[p].child = t[1]
        BY <4>0, <3>3, <3>4, <1>3
      <4>2. ASSUME NEW a \in 1 .. l + 1 PROVE n.at[t[a]].next = IF a = l + 1 THEN Null ELSE t[a + 1]
        <5>1. CASE a = l + 1
          <6>1. t[a] = x
            BY <5>1, <1>4
          <6> QED BY <6>1, <5>1, <1>2, <3>0, <3>3, <3>4
        <5>2. CASE a = l
          <6>1. t[a] = y /\ t[a + 1] = x /\ a # l + 1
            BY <5>2, <1>1, <1>4, <3>0 DEF y
          <6> QED BY <6>1, <3>0, <3>3, <3>4
        <5>3. CASE a # l + 1 /\ a # l
          <6>1. a \in 1 .. l /\ a + 1 \in 1 .. l
            BY <5>3
          <6>2. t[a] = s[a] /\ t[a + 1] = s[a + 1] /\ s[a] \in DOMAIN m.at /\ s[a] # y
            BY <6>1, <5>3, <1>1, <1>4, <3>0 DEF y
          <6>3. m.at[s[a]].next = s[a + 1]
            BY <6>1, <5>3, <1>0, <1>a DEF ListOf
          <6> QED BY <5>3, <6>2, <6>3, <3>3, <3>4
        <5> QED BY <5>1, <5>2, <5>3
      <4>3. ASSUME NEW a \in 2 .. l + 1 PROVE n.at[t[a]].prev = t[a - 1]
        <5>1. CASE a = l + 1
          <6>1. t[a] = x /\ t[a - 1] = y
            BY <5>1, <1>1, <1>4, <3>0 DEF y
          <6> QED BY <6>1, <3>4
        <5>2. CASE a # l + 1
          <6>1. a \in 2 .. l /\ a \in 1 .. l /\ a - 1 \in 1 .. l
            BY <5>2
          <6>2. t[a] = s[a] /\ t[a - 1] = s[a - 1] /\ s[a] \in DOMAIN m.at /\ s[a] # x
            BY <6>1, <1>1, <1>2, <1>4
          <6>3. m.at[s[a]].prev = s[a - 1]
            BY <6>1, <1>0, <1>a DEF ListOf
          <6> QED BY <6>2, <6>3, <3>3, <3>4
        <5> QED BY <5>1, <5>2
      <4>4. n.at[t[1]].prev = Null
        <5>1. s[1] # x /\ s[1] \in DOMAIN m.at
          BY <3>0, <1>1, <1>2
        <5> QED BY <5>1, <4>0, <3>3, <3>4
      <4>5. \A a \in 1 .. Len(t) : n.at[t[a]].next = IF a = Len(t) THEN Null ELSE t[a + 1]
        BY <4>2, <1>4
      <4>6. \A a \in 2 .. Len(t) : n.at[t[a]].prev = t[a - 1]
        BY <4>3, <1>4
      <4> QED BY ONLY <4>1, <4>4, <4>5, <4>6, <1>4, p \in O DEF ListOf
    <3>10. \A r \in R \ {x} : n.at[r].next = m.at[r].next /\ n.at[r].prev = m.at[r].prev
      <4>1. \A r \in R : r \in DOMAIN m.at /\ r # y
        BY <3>0, <1>1 DEF IsForestOf, y
      <4> QED BY <4>1, <3>3, <3>4
    <3> QED BY <3>6, <3>8, <3>9, <3>10
  <2> QED BY <2>1, <2>2
<1> HIDE DEF n
<1>7. \A r \in R \ {x} : n.at[r].next = Null /\ n.at[r].prev = Null
  BY <1>6 DEF Linked
<1>8. Linked(n, [k EXCEPT ![p] = t], R \ {x}, O)
  BY <1>4, <1>5, <1>6, <1>7, Relink
<1> QED BY <1>5, <1>6, <1>8 DEF n, t

(* The first item of an open list learns of the last one. *)
LEMMA LinkClose ==
  ASSUME NEW m, NEW k, NEW R, NEW O, IsMemory(m), IsForestOf(k, R), Linked(m, k, R, O),
         NEW p \in DOMAIN k, ~m.at[p].ref
  PROVE  /\ SameData(m, CloseList(m, p, LastOf(k[p])))
         /\ Linked(CloseList(m, p, LastOf(k[p])), k, R, O \ {p})
<1>0. PICK l \in Nat : l = Len(k[p])
  BY ForestFacts
<1> DEFINE s == k[p]
           n == CloseList(m, p, LastOf(s))
<1>1. /\ s \in Seq(DOMAIN k) /\ DOMAIN s = 1 .. l
      /\ (s = <<>> <=> l = 0)
      /\ \A a, b \in DOMAIN s : s[a] = s[b] => a = b
      /\ \A a \in DOMAIN s : s[a] \in DOMAIN k /\ s[a] \notin R /\ s[a] # p
      /\ DOMAIN k \subseteq DOMAIN m.at /\ DOMAIN m.at \subseteq Items /\ Null \notin Items
  BY <1>0, ListFacts
<1>a. ListOf(m, p, s, O)
  BY DEF Linked
<1>2. [k EXCEPT ![p] = s] = k
  BY DEF IsForestOf
<1>3. /\ SameData(m, n)
      /\ Elsewhere(m, n, p, {s[a] : a \in DOMAIN s} \cup {s[a] : a \in DOMAIN s})
      /\ ListOf(n, p, s, O \ {p})
      /\ \A r \in R : n.at[r].next = m.at[r].next /\ n.at[r].prev = m.at[r].prev
  <2>1. CASE s = <<>>
    <3>1. n = m
      BY <2>1 DEF CloseList, LastOf
    <3> QED BY <3>1, <2>1, <1>a, SameDataRefl DEF Elsewhere, ListOf
  <2>2. CASE s # <<>>
    <3> DEFINE y == s[l]
               c == s[1]
    <3>1. l \in DOMAIN s /\ 1 \in DOMAIN s
      BY <1>1, <2>2
    <3>2. y # Null /\ y \in Pointer /\ c \in DOMAIN m.at /\ m.at[p].child = c
      BY <3>1, <2>2, <1>1, <1>a DEF ListOf, Pointer
    <3>3. n = Put(m, c, "prev", y)
      BY <2>2, <3>2, <1>0 DEF CloseList, LastOf
    <3> HIDE DEF y, c
    <3>4. /\ SameData(m, n) /\ n.at[c].prev = y
          /\ \A j \in DOMAIN m.at : n.at[j].child = m.at[j].child /\ n.at[j].next = m.at[j].next
          /\ \A j \in DOMAIN m.at : j # c => n.at[j].prev = m.at[j].prev
      BY <3>2, <3>3, PutPrev
    <3> HIDE DEF n
    <3>5. Elsewhere(m, n, p, {s[a] : a \in DOMAIN s} \cup {s[a] : a \in DOMAIN s})
      BY <3>1, <3>4 DEF Elsewhere, c
    <3>6. ListOf(n, p, s, O \ {p})
      <4>1. \A a \in 1 .. Len(s) : s[a] \in DOMAIN m.at
        BY <1>0, <1>1
      <4>2. \A a \in 2 .. Len(s) : s[a] \in DOMAIN m.at /\ s[a] # c
        BY <1>0, <1>1, <3>1 DEF c
      <4>3. n.at[p].child = c /\ p \in DOMAIN m.at
        BY <3>2, <3>4, <1>1
      <4>4. \A a \in 2 .. Len(s) : n.at[s[a]].prev = s[a - 1]
        BY <1>a, <3>4, <4>2 DEF ListOf
      <4>5. \A a \in 1 .. Len(s) : n.at[s[a]].next = IF a = Len(s) THEN Null ELSE s[a + 1]
        BY <1>a, <3>4, <4>1 DEF ListOf
      <4>6. n.at[s[1]].prev = s[Len(s)]
        BY <1>0, <3>4 DEF c, y
      <4> QED BY <4>3, <4>4, <4>5, <4>6, <2>2 DEF ListOf, c
    <3>7. \A r \in R : n.at[r].next = m.at[r].next /\ n.at[r].prev = m.at[r].prev
      <4>1. \A r \in R : r \in DOMAIN m.at /\ r # c
        BY <3>1, <1>1 DEF IsForestOf, c
      <4> QED BY <4>1, <3>4
    <3> QED BY <3>4, <3>5, <3>6, <3>7
  <2> QED BY <2>1, <2>2
<1> HIDE DEF n
<1>4. \A r \in R : n.at[r].next = Null /\ n.at[r].prev = Null
  BY <1>3 DEF Linked
<1>5. Linked(n, [k EXCEPT ![p] = s], R, O \ {p})
  BY <1>1, <1>2, <1>3, <1>4, Relink
<1> QED BY <1>2, <1>3, <1>5 DEF n

(* Data may change. *)
LEMMA LinkSame ==
  ASSUME NEW m, NEW n, NEW k, NEW R, NEW O, IsForestOf(k, R), Linked(m, k, R, O), SameLinks(m, n)
  PROVE  Linked(n, k, R, O)
<1>1. DOMAIN k \subseteq DOMAIN m.at /\ DOMAIN n.at = DOMAIN m.at /\ R \subseteq DOMAIN k
  BY DEF Linked, SameLinks, IsForestOf
<1>2. \A i \in DOMAIN k : /\ n.at[i].next = m.at[i].next /\ n.at[i].prev = m.at[i].prev
                          /\ n.at[i].child = m.at[i].child /\ n.at[i].ref = m.at[i].ref
  BY <1>1 DEF SameLinks
<1>3. ASSUME NEW p \in DOMAIN k, ~n.at[p].ref PROVE ListOf(n, p, k[p], O)
  <2>1. ListOf(m, p, k[p], O)
    BY <1>2, <1>3 DEF Linked
  <2>2. DOMAIN k[p] = 1 .. Len(k[p]) /\ Len(k[p]) \in Nat /\ \A a \in DOMAIN k[p] : k[p][a] \in DOMAIN k
    BY ForestFacts
  <2>3. k[p] # <<>> => 1 \in DOMAIN k[p]
    BY <2>2, ForestFacts
  <2>4. \A a \in 1 .. Len(k[p]) : n.at[k[p][a]].next = m.at[k[p][a]].next /\ n.at[k[p][a]].prev = m.at[k[p][a]].prev
    BY <2>2, <1>2
  <2>5. \A a \in 2 .. Len(k[p]) : a \in 1 .. Len(k[p])
    BY <2>2
  <2>6. k[p] # <<>> => n.at[k[p][1]].prev = m.at[k[p][1]].prev
    BY <2>2, <2>3, <1>2
  <2>7. n.at[p].child = m.at[p].child
    BY <1>2
  <2> HIDE <1>2, <2>2
  <2> QED BY ONLY <2>1, <2>4, <2>5, <2>6, <2>7 DEF ListOf
<1> QED BY <1>1, <1>2, <1>3 DEF Linked

-----------------------------------------------------------------------------
(* Looking up. *)

(* There are finitely many addresses. *)
LEMMA ItemsFinite ==
  /\ IsFiniteSet(Items) /\ Cardinality(Items) \in Nat
  /\ \A S \in SUBSET Items : IsFiniteSet(S) /\ Cardinality(S) \in Nat /\ Cardinality(S) <= Cardinality(Items)
<1>1. IsFiniteSet(Items) /\ Cardinality(Items) \in Nat
  BY TreeAssumption, FS_CardinalityType
<1>2. ASSUME NEW S \in SUBSET Items
      PROVE  IsFiniteSet(S) /\ Cardinality(S) \in Nat /\ Cardinality(S) <= Cardinality(Items)
  <2>1. IsFiniteSet(S) /\ Cardinality(S) <= Cardinality(Items)
    BY <1>1, FS_Subset
  <2> QED BY <2>1, FS_CardinalityType
<1> QED BY <1>1, <1>2

(* A list without repetitions is no longer than there are items. *)
LEMMA LengthBound ==
  ASSUME NEW s \in Seq(Items), \A a, b \in DOMAIN s : s[a] = s[b] => a = b
  PROVE  Len(s) <= Cardinality(Items)
<1>1. Len(s) \in Nat /\ DOMAIN s = 1 .. Len(s) /\ s \in [1 .. Len(s) -> Items]
  OBVIOUS
<1>2. s \in Injection(1 .. Len(s), Items)
  BY <1>1 DEF Injection, IsInjective
<1>3. Cardinality(1 .. Len(s)) <= Cardinality(Items)
  BY <1>2, ItemsFinite, FS_Injection, Zenon
<1>4. Cardinality(1 .. Len(s)) = Len(s)
  BY <1>1, FS_Interval
<1> QED BY <1>3, <1>4

Distinct(s) == \A a, b \in DOMAIN s : s[a] = s[b] => a = b

FirstOf(s) == IF s = <<>> THEN Null ELSE s[1]

NextAre(m, s) == \A a \in DOMAIN s : m.at[s[a]].next = IF a = Len(s) THEN Null ELSE s[a + 1]

(* The walk along next is the list that the links make. *)
LEMMA SiblingsIs ==
  ASSUME NEW m, NEW s \in Seq(Items), Distinct(s), NextAre(m, s)
  PROVE  Siblings(m, FirstOf(s)) = s
<1> DEFINE N == Cardinality(Items)
           i == FirstOf(s)
<1>0. PICK l \in Nat : l = Len(s)
  OBVIOUS
<1>1. /\ DOMAIN s = 1 .. l /\ l <= N /\ N \in Nat /\ (s = <<>> <=> l = 0)
      /\ s = [a \in 1 .. l |-> s[a]]
  BY <1>0, LengthBound, ItemsFinite DEF Distinct
<1>2. /\ \A a \in 1 .. l : s[a] # Null
      /\ \A a \in 1 .. l : m.at[s[a]].next = IF a = l THEN Null ELSE s[a + 1]
      /\ i = IF l = 0 THEN Null ELSE s[1]
  <2>1. \A a \in 1 .. l : s[a] \in Items
    BY <1>1
  <2>2. \A a \in 1 .. l : s[a] # Null
    BY <2>1, TreeAssumption
  <2> QED BY <1>0, <1>1, <2>2 DEF NextAre, FirstOf
<1> HIDE DEF N, i
<1> DEFINE Turn(f, n) == IF n = 0 THEN i ELSE LET j == f[n - 1] IN IF j = Null THEN Null ELSE m.at[j].next
           g == [n \in 0 .. N |-> IF n < l THEN s[n + 1] ELSE Null]
           walk == CHOOSE f : f = [n \in 0 .. N |-> Turn(f, n)]
           length == Cardinality({n \in 0 .. N : walk[n] # Null})
<1>3. ASSUME NEW n \in 0 .. N PROVE g[n] = Turn(g, n)
  <2>1. CASE n = 0
    BY <2>1, <1>1, <1>2
  <2>2. CASE n # 0
    <3>1. n - 1 \in 0 .. N /\ n \in Nat
      BY <2>2, <1>1
    <3>2. g[n - 1] = IF n - 1 < l THEN s[n] ELSE Null
      BY <3>1
    <3>3. g[n] = IF n < l THEN s[n + 1] ELSE Null
      OBVIOUS
    <3> HIDE DEF g
    <3>4. CASE n - 1 < l
      <4>1. n \in 1 .. l
        BY <3>1, <3>4, <2>2
      <4>2. m.at[s[n]].next = (IF n = l THEN Null ELSE s[n + 1]) /\ s[n] # Null
        BY <4>1, <1>2
      <4> QED BY <2>2, <3>1, <3>2, <3>3, <3>4, <4>1, <4>2
    <3>5. CASE ~(n - 1 < l)
      BY <2>2, <3>1, <3>2, <3>3, <3>5
    <3> QED BY <3>4, <3>5
  <2> QED BY <2>1, <2>2
<1>4. g = [n \in 0 .. N |-> Turn(g, n)]
  BY <1>3
<1> HIDE DEF g, Turn
<1>5. walk = [n \in 0 .. N |-> Turn(walk, n)]
  BY <1>4
<1>6. Siblings(m, i) = [n \in 1 .. length |-> walk[n - 1]]
  BY DEF Siblings, Turn, N, i
<1> HIDE DEF walk
<1>7. \A n \in 0 .. N : walk[n] = g[n]
  <2> DEFINE S == {n \in Nat : n <= N => walk[n] = g[n]}
  <2>1. 0 \in S
    <3>1. 0 \in 0 .. N
      BY <1>1
    <3>2. walk[0] = Turn(walk, 0) /\ g[0] = Turn(g, 0)
      BY <3>1, <1>4, <1>5
    <3> QED BY <3>2 DEF Turn
  <2>2. ASSUME NEW n \in Nat, n \in S PROVE n + 1 \in S
    <3> SUFFICES ASSUME n + 1 <= N PROVE walk[n + 1] = g[n + 1]
      OBVIOUS
    <3>1. n + 1 \in 0 .. N /\ (n + 1) - 1 = n /\ n + 1 # 0 /\ walk[n] = g[n]
      BY <1>1, <2>2
    <3>2. walk[n + 1] = Turn(walk, n + 1) /\ g[n + 1] = Turn(g, n + 1)
      BY <3>1, <1>4, <1>5
    <3> QED BY <3>1, <3>2 DEF Turn
  <2> HIDE DEF S
  <2>3. Nat \subseteq S
    BY <2>1, <2>2, Induction
  <2> QED BY <2>3, <1>1 DEF S
<1>8. length = l
  <2>1. {n \in 0 .. N : walk[n] # Null} = 0 .. l - 1
    <3>1. ASSUME NEW n \in 0 .. N PROVE walk[n] # Null <=> n < l
      <4>1. walk[n] = IF n < l THEN s[n + 1] ELSE Null
        BY <1>7 DEF g
      <4>2. n < l => n + 1 \in 1 .. l
        BY <1>1
      <4> QED BY <4>1, <4>2, <1>2
    <3> QED BY <3>1, <1>1
  <2>2. Cardinality(0 .. l - 1) = l
    <3>1. 0 \in Int /\ l - 1 \in Int
      OBVIOUS
    <3>2. Cardinality(0 .. l - 1) = IF 0 > l - 1 THEN 0 ELSE (l - 1) - 0 + 1
      BY <3>1, FS_Interval
    <3> QED BY <3>2
  <2> QED BY <2>1, <2>2
<1> HIDE DEF length
<1>9. \A n \in 1 .. l : walk[n - 1] = s[n]
  <2> SUFFICES ASSUME NEW n \in 1 .. l PROVE walk[n - 1] = s[n]
    OBVIOUS
  <2>1. n - 1 \in 0 .. N /\ n - 1 < l /\ (n - 1) + 1 = n
    BY <1>1
  <2>2. g[n - 1] = s[n]
    BY <2>1 DEF g
  <2> QED BY <2>1, <2>2, <1>7
<1> QED BY <1>1, <1>6, <1>8, <1>9 DEF i

(* The members of an item are those of the forest. *)
LEMMA MembersAre ==
  ASSUME NEW m, NEW k, NEW R, NEW O, IsMemory(m), IsForestOf(k, R), Linked(m, k, R, O),
         NEW p \in DOMAIN k, ~m.at[p].ref
  PROVE  Members(m, p) = k[p]
<1>1. /\ k[p] \in Seq(DOMAIN k) /\ DOMAIN k[p] = 1 .. Len(k[p])
      /\ \A a, b \in DOMAIN k[p] : k[p][a] = k[p][b] => a = b
      /\ DOMAIN k \subseteq DOMAIN m.at /\ DOMAIN m.at \subseteq Items
  BY ListFacts
<1>2. ListOf(m, p, k[p], O)
  BY DEF Linked
<1>3. k[p] \in Seq(Items)
  BY <1>1
<1>4. Distinct(k[p]) /\ NextAre(m, k[p])
  BY <1>1, <1>2 DEF ListOf, Distinct, NextAre
<1>5. m.at[p].child = FirstOf(k[p])
  BY <1>2 DEF ListOf, FirstOf
<1>6. Siblings(m, m.at[p].child) = k[p]
  BY <1>3, <1>4, <1>5, SiblingsIs
<1> QED BY <1>6 DEF Members

(* A look-up finds a member or nothing. *)
LEMMA Found ==
  ASSUME NEW m, NEW k, NEW R, NEW O, IsMemory(m), IsForestOf(k, R), Linked(m, k, R, O),
         NEW p \in DOMAIN k, ~m.at[p].ref
  PROVE  /\ \A w \in Nat : \/ get_array_item(m, p, w) = Null /\ w >= Len(k[p])
                           \/ w + 1 \in DOMAIN k[p] /\ get_array_item(m, p, w) = k[p][w + 1]
         /\ \A name, c : \/ get_object_item(m, p, name, c) = Null
                         \/ \E j \in DOMAIN k[p] : get_object_item(m, p, name, c) = k[p][j]
<1>1. Members(m, p) = k[p]
  BY MembersAre
<1>2. Len(k[p]) \in Nat /\ DOMAIN k[p] = 1 .. Len(k[p])
  BY ForestFacts
<1>3. ASSUME NEW w \in Nat
      PROVE  \/ get_array_item(m, p, w) = Null /\ w >= Len(k[p])
             \/ w + 1 \in DOMAIN k[p] /\ get_array_item(m, p, w) = k[p][w + 1]
  BY <1>1, <1>2 DEF get_array_item
<1>4. ASSUME NEW name, NEW c, get_object_item(m, p, name, c) # Null
      PROVE  \E j \in DOMAIN k[p] : get_object_item(m, p, name, c) = k[p][j]
  <2> DEFINE stop(j) == IF c THEN m.at[k[p][j]].string \in {Null, name}
                        ELSE case_insensitive_strcmp(name, m.at[k[p][j]].string)
             stops   == {j \in DOMAIN k[p] : stop(j)}
  <2>1. stops # {} /\ get_object_item(m, p, name, c) = k[p][Min(stops)]
    BY <1>1, <1>4 DEF get_object_item
  <2>2. stops \in SUBSET Nat /\ stops \subseteq DOMAIN k[p]
    BY <1>2
  <2> HIDE DEF stops
  <2>3. Min(stops) \in stops
    BY <2>1, <2>2, LeastOf
  <2> QED BY <2>1, <2>2, <2>3
<1> QED BY <1>3, <1>4

(* Where the links of an item lead. *)
LEMMA NextIs ==
  ASSUME NEW m, NEW k, NEW R, NEW O, IsForestOf(k, R), Linked(m, k, R, O),
         NEW q \in DOMAIN k, NEW a \in DOMAIN k[q]
  PROVE  /\ ~m.at[q].ref
         /\ m.at[k[q][a]].next = Null \/ (a + 1 \in DOMAIN k[q] /\ m.at[k[q][a]].next = k[q][a + 1])
         /\ a + 1 \in DOMAIN k[q] => m.at[k[q][a]].next = k[q][a + 1]
<1>0. PICK l \in Nat : l = Len(k[q])
  BY ForestFacts
<1>1. DOMAIN k[q] = 1 .. l /\ k[q] # <<>>
  BY <1>0, ForestFacts
<1>2. ~m.at[q].ref
  BY <1>1 DEF Linked
<1>3. ListOf(m, q, k[q], O)
  BY <1>2 DEF Linked
<1>4. m.at[k[q][a]].next = IF a = l THEN Null ELSE k[q][a + 1]
  BY <1>0, <1>1, <1>3 DEF ListOf
<1>5. a + 1 \in DOMAIN k[q] <=> a # l
  BY <1>1
<1> QED BY <1>2, <1>4, <1>5

(* child leads to the first member. *)
LEMMA ChildIs ==
  ASSUME NEW m, NEW k, NEW R, NEW O, IsForestOf(k, R), Linked(m, k, R, O), NEW q \in DOMAIN k, ~m.at[q].ref
  PROVE  IF k[q] = <<>> THEN m.at[q].child = Null ELSE 1 \in DOMAIN k[q] /\ m.at[q].child = k[q][1]
<1>1. ListOf(m, q, k[q], O)
  BY DEF Linked
<1>2. k[q] # <<>> => 1 \in DOMAIN k[q]
  BY ForestFacts
<1> QED BY <1>1, <1>2 DEF ListOf

(* next and child lead to items of the forest, or nowhere. *)
LEMMA LinksInside ==
  ASSUME NEW m, NEW k, NEW R, NEW O, IsForestOf(k, R), Linked(m, k, R, O), NEW i \in DOMAIN k
  PROVE  /\ m.at[i].next \in DOMAIN k \cup {Null}
         /\ ~m.at[i].ref => m.at[i].child \in DOMAIN k \cup {Null}
<1>1. m.at[i].next \in DOMAIN k \cup {Null}
  <2>1. CASE i \in R
    BY <2>1 DEF Linked
  <2>2. CASE i \notin R
    <3>1. PICK q \in DOMAIN k : \E a \in DOMAIN k[q] : k[q][a] = i
      BY <2>2, HasPlace
    <3>2. PICK a \in DOMAIN k[q] : k[q][a] = i
      BY <3>1
    <3>3. m.at[k[q][a]].next = Null \/ (a + 1 \in DOMAIN k[q] /\ m.at[k[q][a]].next = k[q][a + 1])
      BY NextIs
    <3>4. \A b \in DOMAIN k[q] : k[q][b] \in DOMAIN k
      BY ForestFacts
    <3> QED BY <3>2, <3>3, <3>4
  <2> QED BY <2>1, <2>2
<1>2. ~m.at[i].ref => m.at[i].child \in DOMAIN k \cup {Null}
  BY ChildIs, ForestFacts
<1> QED BY <1>1, <1>2

(* A set closed under the links has the whole list of an item if it has    *)
(* the first member.                                                       *)
LEMMA WholeList ==
  ASSUME NEW m, NEW k, NEW R, NEW O, IsForestOf(k, R), Linked(m, k, R, O), TreeAssumption,
         DOMAIN m.at \subseteq Items,
         NEW S \in SUBSET DOMAIN m.at, Closed(m, S), NEW q \in DOMAIN k, k[q] # <<>> => k[q][1] \in S
  PROVE  \A a \in DOMAIN k[q] : k[q][a] \in S
<1>0. PICK l \in Nat : l = Len(k[q])
  BY ForestFacts
<1>1. DOMAIN k[q] = 1 .. l /\ (k[q] = <<>> <=> l = 0)
  BY <1>0, ForestFacts
<1> DEFINE T == {n \in Nat : n < l => k[q][n + 1] \in S}
<1>2. 0 \in T
  BY <1>1
<1>3. ASSUME NEW n \in Nat, n \in T PROVE n + 1 \in T
  <2> SUFFICES ASSUME n + 1 < l PROVE k[q][(n + 1) + 1] \in S
    OBVIOUS
  <2>1. n + 1 \in DOMAIN k[q] /\ (n + 1) + 1 \in DOMAIN k[q] /\ k[q][n + 1] \in S
    BY <1>1, <1>3
  <2>2. m.at[k[q][n + 1]].next = k[q][(n + 1) + 1]
    <3>1. PICK b \in DOMAIN k[q] : b = n + 1
      BY <2>1
    <3>2. b + 1 \in DOMAIN k[q] => m.at[k[q][b]].next = k[q][b + 1]
      BY NextIs
    <3> QED BY <2>1, <3>1, <3>2
  <2>3. k[q][(n + 1) + 1] # Null
    <3>1. k[q][(n + 1) + 1] \in DOMAIN k
      BY <2>1, ForestFacts
    <3> QED BY <3>1 DEF TreeAssumption, Linked
  <2> QED BY <2>1, <2>2, <2>3 DEF Closed
<1> HIDE DEF T
<1>4. Nat \subseteq T
  BY <1>2, <1>3, Induction
<1> SUFFICES ASSUME NEW a \in DOMAIN k[q] PROVE k[q][a] \in S
  OBVIOUS
<1>5. a - 1 \in T /\ a - 1 < l /\ (a - 1) + 1 = a
  BY <1>1, <1>4
<1> QED BY <1>5 DEF T

(* What the links say is below an item is what the forest says. *)
LEMMA TreeIs ==
  ASSUME NEW m, NEW k, NEW R, NEW O, IsMemory(m), IsForestOf(k, R), Linked(m, k, R, O), NEW p \in DOMAIN k
  PROVE  Tree(m, p) = Under(k, {p})
<1> DEFINE U == Under(k, {p})
<1>0. TreeAssumption /\ DOMAIN k \subseteq DOMAIN m.at /\ DOMAIN m.at \subseteq Items /\ \A i \in DOMAIN k : i # Null
  BY TreeAssumption DEF Linked, IsMemory, TreeAssumption
<1>1. /\ U \subseteq DOMAIN k /\ p \in U /\ ClosedIn(k, U)
      /\ \A T \in SUBSET DOMAIN k : p \in T /\ ClosedIn(k, T) => U \subseteq T
  BY UnderOne
<1>a. k[p] = <<>> => U = {p}
  <2> HAVE k[p] = <<>>
  <2>1. ClosedIn(k, {p})
    BY DEF ClosedIn
  <2>2. U \subseteq {p}
    BY <2>1, <1>1
  <2> QED BY <1>1, <2>2
<1> HIDE DEF U
<1>2. CASE m.at[p].ref
  <2>1. k[p] = <<>>
    BY <1>2 DEF Linked
  <2> QED BY <1>2, <2>1, <1>a DEF Tree, U
<1>3. CASE ~m.at[p].ref /\ k[p] = <<>>
  <2>1. m.at[p].child = Null
    BY <1>3, ChildIs
  <2>2. From(m, Null) = {}
    BY DEF From
  <2> QED BY <1>3, <2>1, <2>2, <1>a DEF Tree, U
<1>4. CASE ~m.at[p].ref /\ k[p] # <<>>
  <2> DEFINE c == k[p][1]
             D == U \ {p}
  <2>1. m.at[p].child = c /\ 1 \in DOMAIN k[p]
    BY <1>4, ChildIs
  <2>2. c \in DOMAIN k /\ c \in U /\ c # Null
    <3>1. c \in DOMAIN k
      BY <2>1, ForestFacts
    <3> QED BY <3>1, <2>1, <1>0, <1>1 DEF ClosedIn
(* No item below p has p as a member. *)
  <2>3. \A q \in U : \A a \in DOMAIN k[q] : k[q][a] \in D
    <3> SUFFICES ASSUME NEW q \in U, NEW a \in DOMAIN k[q], k[q][a] = p PROVE FALSE
      BY <1>1 DEF ClosedIn
    <3>1. q \notin Under(k, {k[q][a]})
      BY <1>1, NotBelowMember
    <3> QED BY <3>1 DEF U
  <2>4. D \in SUBSET DOMAIN m.at /\ c \in D /\ Closed(m, D)
    <3>1. c \in D
      BY <2>1, <2>3, <1>1
    <3>2. ASSUME NEW j \in D PROVE m.at[j].next \in D \cup {Null}
      <4>1. PICK q \in U : \E a \in DOMAIN k[q] : k[q][a] = j
        BY HasPlaceBelow DEF U
      <4>2. PICK a \in DOMAIN k[q] : k[q][a] = j
        BY <4>1
      <4>3. q \in DOMAIN k
        BY <1>1
      <4>4. m.at[k[q][a]].next = Null \/ (a + 1 \in DOMAIN k[q] /\ m.at[k[q][a]].next = k[q][a + 1])
        BY <4>3, NextIs
      <4> QED BY <4>2, <4>4, <2>3
    <3>3. ASSUME NEW j \in D, ~m.at[j].ref PROVE m.at[j].child \in D \cup {Null}
      <4>1. j \in DOMAIN k /\ j \in U
        BY <1>1
      <4> QED BY <4>1, <3>3, <2>3, ChildIs
    <3>4. D \in SUBSET DOMAIN m.at
      BY <1>0, <1>1
    <3> QED BY <3>1, <3>2, <3>3, <3>4 DEF Closed
  <2>5. ASSUME NEW S \in SUBSET DOMAIN m.at, c \in S, Closed(m, S) PROVE D \subseteq S
    <3> DEFINE T == (S \cap DOMAIN k) \cup {p}
    <3>1. ClosedIn(k, T)
      <4> SUFFICES ASSUME NEW q \in T PROVE \A a \in DOMAIN k[q] : k[q][a] \in T
        BY DEF ClosedIn
      <4>1. q \in DOMAIN k
        OBVIOUS
      <4>2. k[q] # <<>> => k[q][1] \in S
        <5> HAVE k[q] # <<>>
        <5>1. CASE q = p
          BY <5>1, <2>5
        <5>2. CASE q # p
          <6>1. ~m.at[q].ref /\ q \in S
            BY <5>2, <4>1 DEF Linked
          <6>2. 1 \in DOMAIN k[q] /\ m.at[q].child = k[q][1]
            BY <4>1, <6>1, ChildIs
          <6>3. k[q][1] # Null
            BY <4>1, <6>2, <1>0, ForestFacts
          <6> QED BY <6>1, <6>2, <6>3, <2>5 DEF Closed
        <5> QED BY <5>1, <5>2
      <4>3. \A a \in DOMAIN k[q] : k[q][a] \in S
        BY <1>0, <2>5, <4>1, <4>2, WholeList
      <4> QED BY <4>1, <4>3, ForestFacts
    <3>2. p \in T /\ T \subseteq DOMAIN k
      OBVIOUS
    <3>3. U \subseteq T
      BY <3>1, <3>2, <1>1
    <3> QED BY <3>3
  <2> HIDE DEF D, c
  <2>6. From(m, c) = D
    <3>1. From(m, c) \subseteq D
      BY <2>4 DEF From
    <3>2. D \subseteq From(m, c)
      BY <2>2, <2>4, <2>5 DEF From
    <3> QED BY <3>1, <3>2
  <2> QED BY <1>1, <1>4, <2>1, <2>6 DEF Tree, D, U
<1> QED BY <1>2, <1>3, <1>4 DEF U

(* The application's trees are the whole forest. *)
LEMMA TreesAre ==
  ASSUME NEW m, NEW k, NEW R, NEW O, IsMemory(m), IsForestOf(k, R), Linked(m, k, R, O)
  PROVE  UNION {Tree(m, i) : i \in R} = DOMAIN k
<1> DEFINE T == UNION {Tree(m, i) : i \in R}
<1>1. \A i \in R : i \in DOMAIN k /\ Tree(m, i) = Under(k, {i})
  BY TreeIs DEF IsForestOf
<1>2. ASSUME NEW i \in R PROVE Tree(m, i) \subseteq DOMAIN k /\ i \in Tree(m, i) /\ ClosedIn(k, Tree(m, i))
  <2>1. i \in DOMAIN k /\ Tree(m, i) = Under(k, {i})
    BY <1>1
  <2>2. Under(k, {i}) \subseteq DOMAIN k /\ i \in Under(k, {i}) /\ ClosedIn(k, Under(k, {i}))
    BY <2>1, UnderOne
  <2> QED BY <2>1, <2>2
<1>3. T \subseteq DOMAIN k /\ R \subseteq T /\ ClosedIn(k, T)
  <2>1. T \subseteq DOMAIN k
    BY <1>2
  <2>2. R \subseteq T
    BY <1>2
  <2>3. ClosedIn(k, T)
    <3> SUFFICES ASSUME NEW q \in T, NEW a \in DOMAIN k[q] PROVE k[q][a] \in T
      BY DEF ClosedIn
    <3>1. PICK i \in R : q \in Tree(m, i)
      OBVIOUS
    <3>2. k[q][a] \in Tree(m, i)
      BY <3>1, <1>2 DEF ClosedIn
    <3> QED BY <3>2
  <2> QED BY <2>1, <2>2, <2>3
<1> HIDE DEF T
<1>4. DOMAIN k \subseteq T
  BY <1>3 DEF IsForestOf
<1> QED BY <1>3, <1>4 DEF T

-----------------------------------------------------------------------------
(* Strings. *)

(* How many strings an item owns. *)
Weight(it) == (IF OwnsString(it) THEN 1 ELSE 0) + (IF OwnsValue(it) THEN 1 ELSE 0)

(* Strings that are allocated and that no item owns. *)
Balance(m) == m.strs - Cardinality({i \in DOMAIN m.at : OwnsString(m.at[i])})
                     - Cardinality({i \in DOMAIN m.at : OwnsValue(m.at[i])})

(* A finite set with one element less. *)
LEMMA WithoutOne ==
  ASSUME NEW S, IsFiniteSet(S), NEW i
  PROVE  /\ Cardinality(S) \in Nat /\ Cardinality(S \ {i}) \in Nat
         /\ Cardinality(S) = Cardinality(S \ {i}) + IF i \in S THEN 1 ELSE 0
<1>1. Cardinality(S) \in Nat /\ IsFiniteSet(S \ {i}) /\ Cardinality(S \ {i}) \in Nat
  BY FS_CardinalityType, FS_Difference, FS_Singleton
<1>2. CASE i \in S
  <2>1. Cardinality(S \ {i}) = Cardinality(S) - 1
    BY <1>2, FS_RemoveElement
  <2> QED BY <1>1, <1>2, <2>1
<1>3. CASE i \notin S
  <2>1. S \ {i} = S
    BY <1>3
  <2>2. Cardinality(S \ {i}) = Cardinality(S)
    BY <2>1
  <2> QED BY <1>1, <1>3, <2>2
<1> QED BY <1>2, <1>3

(* What the other items own. *)
Others(m, i) == Cardinality({j \in DOMAIN m.at \ {i} : OwnsString(m.at[j])})
                + Cardinality({j \in DOMAIN m.at \ {i} : OwnsValue(m.at[j])})

(* The strings that are allocated, item i apart from the others. *)
LEMMA BalanceSplit ==
  ASSUME NEW m, IsMemory(m), NEW i
  PROVE  /\ Others(m, i) \in Nat
         /\ Balance(m) = m.strs - Others(m, i) - IF i \in DOMAIN m.at THEN Weight(m.at[i]) ELSE 0
         /\ m.strs \in Int /\ (i \in DOMAIN m.at => Weight(m.at[i]) \in Nat)
<1> DEFINE A == {j \in DOMAIN m.at : OwnsString(m.at[j])}
           B == {j \in DOMAIN m.at : OwnsValue(m.at[j])}
<1>1. IsFiniteSet(A) /\ IsFiniteSet(B)
  BY ItemsFinite DEF IsMemory
<1>2. /\ A \ {i} = {j \in DOMAIN m.at \ {i} : OwnsString(m.at[j])}
      /\ B \ {i} = {j \in DOMAIN m.at \ {i} : OwnsValue(m.at[j])}
  OBVIOUS
<1>3. /\ i \in A <=> i \in DOMAIN m.at /\ OwnsString(m.at[i])
      /\ i \in B <=> i \in DOMAIN m.at /\ OwnsValue(m.at[i])
  OBVIOUS
<1>4. Balance(m) = m.strs - Cardinality(A) - Cardinality(B)
  BY DEF Balance
<1>5. Others(m, i) = Cardinality(A \ {i}) + Cardinality(B \ {i})
  BY <1>2 DEF Others
<1> HIDE DEF A, B
<1>6. /\ Cardinality(A) \in Nat /\ Cardinality(A \ {i}) \in Nat
      /\ Cardinality(A) = Cardinality(A \ {i}) + IF i \in A THEN 1 ELSE 0
  BY <1>1, WithoutOne
<1>7. /\ Cardinality(B) \in Nat /\ Cardinality(B \ {i}) \in Nat
      /\ Cardinality(B) = Cardinality(B \ {i}) + IF i \in B THEN 1 ELSE 0
  BY <1>1, WithoutOne
<1>8. m.strs \in Int
  BY DEF IsMemory
<1> DEFINE a == IF OwnsString(m.at[i]) THEN 1 ELSE 0
           b == IF OwnsValue(m.at[i]) THEN 1 ELSE 0
<1>9. a \in Nat /\ b \in Nat /\ Weight(m.at[i]) = a + b
  BY DEF Weight
<1>10. CASE i \in DOMAIN m.at
  <2>1. Cardinality(A) = Cardinality(A \ {i}) + a /\ Cardinality(B) = Cardinality(B \ {i}) + b
    BY <1>3, <1>6, <1>7, <1>10
  <2> HIDE DEF a, b
  <2> QED BY <2>1, <1>4, <1>5, <1>6, <1>7, <1>8, <1>9, <1>10
<1>11. CASE i \notin DOMAIN m.at
  <2>1. Cardinality(A) = Cardinality(A \ {i}) /\ Cardinality(B) = Cardinality(B \ {i})
    BY <1>3, <1>6, <1>7, <1>11
  <2> QED BY <2>1, <1>4, <1>5, <1>6, <1>7, <1>8, <1>11
<1> QED BY <1>10, <1>11

(* The items of m and n are the same, but for i. *)
AlikeBut(m, n, i) ==
  /\ IsMemory(m) /\ IsMemory(n)
  /\ DOMAIN n.at \ {i} = DOMAIN m.at \ {i}
  /\ \A j \in DOMAIN m.at \ {i} : n.at[j] = m.at[j]

(* A change to one item that accounts for its strings. *)
LEMMA BalanceKept ==
  ASSUME NEW m, NEW n, NEW i, AlikeBut(m, n, i),
         n.strs - (IF i \in DOMAIN n.at THEN Weight(n.at[i]) ELSE 0)
           = m.strs - (IF i \in DOMAIN m.at THEN Weight(m.at[i]) ELSE 0)
  PROVE  Balance(n) = Balance(m)
<1>1. /\ {j \in DOMAIN n.at \ {i} : OwnsString(n.at[j])} = {j \in DOMAIN m.at \ {i} : OwnsString(m.at[j])}
      /\ {j \in DOMAIN n.at \ {i} : OwnsValue(n.at[j])} = {j \in DOMAIN m.at \ {i} : OwnsValue(m.at[j])}
  BY DEF AlikeBut
<1>2. Others(n, i) = Others(m, i)
  BY <1>1 DEF Others
<1>3. /\ Others(m, i) \in Nat /\ m.strs \in Int
      /\ Balance(m) = m.strs - Others(m, i) - IF i \in DOMAIN m.at THEN Weight(m.at[i]) ELSE 0
      /\ i \in DOMAIN m.at => Weight(m.at[i]) \in Nat
  BY BalanceSplit DEF AlikeBut
<1>4. /\ n.strs \in Int
      /\ Balance(n) = n.strs - Others(n, i) - IF i \in DOMAIN n.at THEN Weight(n.at[i]) ELSE 0
      /\ i \in DOMAIN n.at => Weight(n.at[i]) \in Nat
  BY BalanceSplit DEF AlikeBut
<1> DEFINE a == IF i \in DOMAIN m.at THEN Weight(m.at[i]) ELSE 0
           b == IF i \in DOMAIN n.at THEN Weight(n.at[i]) ELSE 0
<1>5. a \in Nat /\ b \in Nat
  BY <1>3, <1>4
<1>6. n.strs - b = m.strs - a /\ Balance(m) = m.strs - Others(m, i) - a /\ Balance(n) = n.strs - Others(m, i) - b
  BY <1>2, <1>3, <1>4
<1> HIDE DEF a, b
<1> QED BY <1>3, <1>4, <1>5, <1>6

(* Where all data is the same, so is the balance. *)
LEMMA BalanceSame ==
  ASSUME NEW m, NEW n, IsMemory(m), SameData(m, n)
  PROVE  Balance(n) = Balance(m)
<1>1. /\ {j \in DOMAIN n.at : OwnsString(n.at[j])} = {j \in DOMAIN m.at : OwnsString(m.at[j])}
      /\ {j \in DOMAIN n.at : OwnsValue(n.at[j])} = {j \in DOMAIN m.at : OwnsValue(m.at[j])}
  BY DEF SameData, OwnsString, OwnsValue
<1> QED BY <1>1 DEF Balance, SameData

(* n is m without the items in V and what they own. *)
Freed(m, n, V) ==
  /\ IsMemory(n)
  /\ DOMAIN n.at = DOMAIN m.at \ V
  /\ \A j \in DOMAIN n.at : n.at[j] = m.at[j]
  /\ Balance(n) = Balance(m)

(* Freeing an item frees the strings it owns, and leaves the others. *)
LEMMA ReleaseIs ==
  ASSUME NEW m, IsMemory(m), NEW i \in DOMAIN m.at
  PROVE  Freed(m, Release(m, i), {i})
<1> DEFINE it == m.at[i]
           own == {f \in {"key", "value"} : IF f = "key" THEN OwnsString(it) ELSE OwnsValue(it)}
           F == [j \in DOMAIN m.at \ {i} |-> m.at[j]]
           n == [at |-> F, strs |-> m.strs - Cardinality(own)]
<1>1. Release(m, i) = n
  BY DEF Release
<1>2. Cardinality(own) = Weight(it) /\ Weight(it) \in Nat
  <2>1. CASE OwnsString(it) /\ OwnsValue(it)
    <3>1. own = {"key", "value"}
      BY <2>1
    <3>2. Cardinality({"key", "value"}) = 2
      <4>1. IsFiniteSet({"key"}) /\ Cardinality({"key"}) = 1 /\ "value" \notin {"key"}
        BY FS_Singleton
      <4>2. Cardinality({"key"} \cup {"value"}) = Cardinality({"key"}) + 1
        BY <4>1, FS_AddElement
      <4>3. {"key"} \cup {"value"} = {"key", "value"}
        OBVIOUS
      <4> QED BY <4>1, <4>2, <4>3
    <3> QED BY <2>1, <3>1, <3>2 DEF Weight
  <2>2. CASE OwnsString(it) /\ ~OwnsValue(it)
    <3>1. own = {"key"}
      BY <2>2
    <3>2. Cardinality({"key"}) = 1
      BY FS_Singleton
    <3> QED BY <2>2, <3>1, <3>2 DEF Weight
  <2>3. CASE ~OwnsString(it) /\ OwnsValue(it)
    <3>1. own = {"value"}
      BY <2>3
    <3>2. Cardinality({"value"}) = 1
      BY FS_Singleton
    <3> QED BY <2>3, <3>1, <3>2 DEF Weight
  <2>4. CASE ~OwnsString(it) /\ ~OwnsValue(it)
    <3>1. own = {}
      BY <2>4
    <3>2. Cardinality({}) = 0
      BY FS_EmptySet
    <3> QED BY <2>4, <3>1, <3>2 DEF Weight
  <2> QED BY <2>1, <2>2, <2>3, <2>4
<1> HIDE DEF own
<1>3. /\ n.at = F /\ n.strs = m.strs - Weight(it) /\ DOMAIN F = DOMAIN m.at \ {i}
      /\ \A j \in DOMAIN F : F[j] = m.at[j]
  BY <1>2
<1>4. IsMemory(n)
  <2>1. m.strs - Weight(it) \in Int
    BY <1>2 DEF IsMemory
  <2>2. DOMAIN F \in SUBSET Items /\ F = [j \in DOMAIN F |-> F[j]] /\ \A j \in DOMAIN F : F[j] \in ItemOf
    BY DEF IsMemory
  <2> HIDE DEF F
  <2>3. IsMemory([at |-> F, strs |-> m.strs - Weight(it)])
    BY <2>1, <2>2, MemoryOf
  <2> QED BY <2>3, <1>2
<1> HIDE DEF n, F, it
<1>5. AlikeBut(m, n, i)
  BY <1>3, <1>4 DEF AlikeBut
<1>6. Balance(n) = Balance(m)
  <2>1. i \notin DOMAIN n.at /\ n.strs - 0 = m.strs - Weight(m.at[i])
    BY <1>2, <1>3 DEF it, IsMemory
  <2> QED BY <2>1, <1>5, BalanceKept
<1> QED BY <1>1, <1>3, <1>4, <1>6 DEF Freed

-----------------------------------------------------------------------------
(* Deleting. *)

(* The turns of cJSON_Delete. *)
LEMMA DeleteRun ==
  ASSUME NEW m, NEW i
  PROVE  \E run : /\ run[0] = [m |-> m, stack |-> Push(i, <<>>)]
                  /\ \A n \in Nat : n + 1 <= Cardinality(Items) => run[n + 1] = DeleteStep(run[n])
                  /\ cJSON_Delete(m, i) = run[Cardinality(Items)].m
<1> DEFINE N == Cardinality(Items)
           s0 == [m |-> m, stack |-> Push(i, <<>>)]
           Turn(f, n) == IF n = 0 THEN s0 ELSE DeleteStep(f[n - 1])
           run == CHOOSE f : f = [n \in 0 .. N |-> Turn(f, n)]
<1>1. N \in Nat
  BY ItemsFinite
<1>2. cJSON_Delete(m, i) = run[N].m
  BY DEF cJSON_Delete
<1> HIDE DEF N, s0
<1> DEFINE S == {n \in Nat : \E f : f = [k \in 0 .. n |-> Turn(f, k)]}
<1>3. 0 \in S
  <2> DEFINE f == [k \in 0 .. 0 |-> s0]
  <2>1. f = [k \in 0 .. 0 |-> Turn(f, k)]
    OBVIOUS
  <2> QED BY <2>1
<1>4. ASSUME NEW n \in Nat, n \in S PROVE n + 1 \in S
  <2>1. PICK f : f = [k \in 0 .. n |-> Turn(f, k)]
    BY <1>4
  <2> DEFINE g == [k \in 0 .. n + 1 |-> IF k = n + 1 THEN DeleteStep(f[n]) ELSE f[k]]
  <2>2. ASSUME NEW k \in 0 .. n + 1 PROVE g[k] = Turn(g, k)
    <3>1. CASE k = n + 1
      <4>1. k - 1 = n /\ k # 0 /\ n \in 0 .. n + 1 /\ n # n + 1
        BY <3>1
      <4>2. g[k] = DeleteStep(f[n]) /\ g[n] = f[n]
        BY <3>1, <4>1
      <4> HIDE DEF g
      <4> QED BY <4>1, <4>2
    <3>2. CASE k = 0
      <4>1. 0 \in 0 .. n /\ 0 # n + 1
        OBVIOUS
      <4>2. f[0] = Turn(f, 0)
        BY <2>1, <4>1
      <4>3. g[0] = f[0]
        BY <3>2, <4>1
      <4> HIDE DEF g
      <4> QED BY <3>2, <4>2, <4>3
    <3>3. CASE k # 0 /\ k # n + 1
      <4>1. k \in 0 .. n /\ k - 1 \in 0 .. n + 1 /\ k - 1 # n + 1
        BY <3>3
      <4>2. f[k] = Turn(f, k)
        BY <2>1, <4>1
      <4>3. g[k] = f[k] /\ g[k - 1] = f[k - 1]
        BY <3>3, <4>1
      <4> HIDE DEF g
      <4> QED BY <3>3, <4>2, <4>3
    <3> QED BY <3>1, <3>2, <3>3
  <2>3. g = [k \in 0 .. n + 1 |-> Turn(g, k)]
    <3>1. g = [k \in 0 .. n + 1 |-> g[k]]
      OBVIOUS
    <3> HIDE DEF g, Turn
    <3> QED BY <2>2, <3>1
  <2> HIDE DEF g, Turn
  <2> QED BY <2>3
<1> HIDE DEF S, Turn
<1>5. Nat \subseteq S
  BY <1>3, <1>4, Induction
<1>6. \E f : f = [n \in 0 .. N |-> Turn(f, n)]
  BY <1>1, <1>5 DEF S
<1>7. run = [n \in 0 .. N |-> Turn(run, n)]
  BY <1>6
<1> HIDE DEF run
<1>8. run[0] = s0
  <2>1. 0 \in 0 .. N
    BY <1>1
  <2>2. run[0] = Turn(run, 0)
    BY <1>7, <2>1
  <2> QED BY <2>2 DEF Turn
<1>9. ASSUME NEW n \in Nat, n + 1 <= N PROVE run[n + 1] = DeleteStep(run[n])
  <2>1. n + 1 \in 0 .. N /\ n + 1 # 0 /\ (n + 1) - 1 = n
    BY <1>1, <1>9
  <2>2. run[n + 1] = Turn(run, n + 1)
    BY <1>7, <2>1
  <2> QED BY <2>1, <2>2 DEF Turn
<1> QED BY <1>2, <1>8, <1>9 DEF N, s0

(* Nothing is deleted at NULL. *)
LEMMA DeleteNull ==
  ASSUME NEW m
  PROVE  cJSON_Delete(m, Null) = m
<1> DEFINE N == Cardinality(Items)
           s0 == [m |-> m, stack |-> <<>>]
<1>1. PICK run : /\ run[0] = [m |-> m, stack |-> Push(Null, <<>>)]
                 /\ \A n \in Nat : n + 1 <= N => run[n + 1] = DeleteStep(run[n])
                 /\ cJSON_Delete(m, Null) = run[N].m
  BY DeleteRun
<1>2. N \in Nat
  BY ItemsFinite
<1> HIDE DEF N
<1> DEFINE S == {n \in Nat : n <= N => run[n] = s0}
<1>3. 0 \in S
  BY <1>1 DEF Push
<1>4. ASSUME NEW n \in Nat, n \in S PROVE n + 1 \in S
  <2> SUFFICES ASSUME n + 1 <= N PROVE run[n + 1] = s0
    OBVIOUS
  <2>1. run[n] = s0 /\ run[n + 1] = DeleteStep(run[n])
    BY <1>1, <1>2, <1>4
  <2>2. s0.stack = <<>>
    OBVIOUS
  <2> HIDE DEF s0
  <2> QED BY <2>1, <2>2 DEF DeleteStep
<1> HIDE DEF S
<1>5. N \in S
  BY <1>2, <1>3, <1>4, Induction
<1> QED BY <1>1, <1>2, <1>5 DEF S

Elems(s) == {s[a] : a \in DOMAIN s}

(* s is a stack of items in D. *)
IsStack(s, D) == s \in Seq(D) /\ Distinct(s) /\ Elems(s) \subseteq D

(* What the stack of cJSON_Delete holds after a push. *)
LEMMA PushIs ==
  ASSUME NEW D, NEW s, IsStack(s, D), NEW i \in D \cup {Null}, i \notin Elems(s)
  PROVE  IsStack(Push(i, s), D) /\ Elems(Push(i, s)) = Elems(s) \cup ({i} \ {Null})
<1>1. CASE i = Null
  BY <1>1 DEF Push
<1>2. CASE i # Null
  <2> DEFINE t == <<i>> \o s
  <2>1. PICK l \in Nat : l = Len(s)
    BY DEF IsStack
  <2>2. /\ t \in Seq(D) /\ Len(t) = l + 1 /\ DOMAIN t = 1 .. l + 1 /\ DOMAIN s = 1 .. l
        /\ t[1] = i /\ \A a \in 1 .. l : t[a + 1] = s[a]
    BY <1>2, <2>1 DEF IsStack
  <2> HIDE DEF t
  <2>3. \A a \in DOMAIN t : a # 1 => a - 1 \in 1 .. l /\ t[a] = s[a - 1]
    <3> SUFFICES ASSUME NEW a \in DOMAIN t, a # 1 PROVE a - 1 \in 1 .. l /\ t[a] = s[a - 1]
      OBVIOUS
    <3>1. a - 1 \in 1 .. l /\ (a - 1) + 1 = a
      BY <2>2
    <3> QED BY <3>1, <2>2
  <2>4. Elems(t) = Elems(s) \cup {i}
    <3>1. ASSUME NEW a \in DOMAIN t PROVE t[a] \in Elems(s) \cup {i}
      BY <2>2, <2>3 DEF Elems
    <3>2. i \in Elems(t)
      <4>1. 1 \in DOMAIN t
        BY <2>2
      <4> QED BY <4>1, <2>2 DEF Elems
    <3>3. ASSUME NEW a \in DOMAIN s PROVE s[a] \in Elems(t)
      <4>1. a + 1 \in DOMAIN t /\ t[a + 1] = s[a]
        BY <2>2
      <4> QED BY <4>1 DEF Elems
    <3> QED BY <3>1, <3>2, <3>3 DEF Elems
  <2>5. Distinct(t)
    <3> SUFFICES ASSUME NEW a \in DOMAIN t, NEW b \in DOMAIN t, t[a] = t[b] PROVE a = b
      BY DEF Distinct
    <3>1. ASSUME NEW c \in DOMAIN s PROVE s[c] # i
      BY DEF Elems
    <3>2. CASE a = 1 /\ b # 1
      BY <3>1, <3>2, <2>2, <2>3
    <3>3. CASE a # 1 /\ b = 1
      BY <3>1, <3>3, <2>2, <2>3
    <3>4. CASE a # 1 /\ b # 1
      <4>1. a - 1 \in DOMAIN s /\ b - 1 \in DOMAIN s /\ s[a - 1] = s[b - 1]
        BY <3>4, <2>2, <2>3
      <4>2. a - 1 = b - 1
        BY <4>1 DEF IsStack, Distinct
      <4> QED BY <4>2, <2>2
    <3> QED BY <3>2, <3>3, <3>4
  <2>6. Push(i, s) = t
    BY <1>2 DEF Push, t
  <2> QED BY <1>2, <2>2, <2>4, <2>5, <2>6 DEF IsStack
<1> QED BY <1>1, <1>2

(* And without its first item. *)
LEMMA PopIs ==
  ASSUME NEW D, NEW s, IsStack(s, D), s # <<>>
  PROVE  Head(s) \in D /\ Head(s) \in Elems(s) /\ IsStack(Tail(s), D \ {Head(s)}) /\ Elems(Tail(s)) = Elems(s) \ {Head(s)}
<1> DEFINE t == Tail(s)
           i == Head(s)
<1>1. PICK l \in Nat : l = Len(s)
  BY DEF IsStack
<1>2. /\ l >= 1 /\ DOMAIN s = 1 .. l /\ i = s[1] /\ Len(t) = l - 1 /\ DOMAIN t = 1 .. l - 1
      /\ \A a \in DOMAIN t : t[a] = s[a + 1] /\ a + 1 \in DOMAIN s
  BY <1>1 DEF IsStack
<1>3. \A a, b \in DOMAIN s : s[a] = s[b] => a = b
  BY DEF IsStack, Distinct
<1> HIDE DEF t, i
<1>4. i \in Elems(s) /\ 1 \in DOMAIN s
  BY <1>2 DEF Elems
<1>5. Elems(t) = Elems(s) \ {i}
  <2>1. ASSUME NEW a \in DOMAIN t PROVE t[a] \in Elems(s) /\ t[a] # i
    <3>1. t[a] = s[a + 1] /\ a + 1 \in DOMAIN s /\ a + 1 # 1
      BY <1>2
    <3> QED BY <3>1, <1>2, <1>3, <1>4 DEF Elems
  <2>2. ASSUME NEW a \in DOMAIN s, s[a] # i PROVE s[a] \in Elems(t)
    <3>1. a - 1 \in DOMAIN t /\ (a - 1) + 1 = a
      BY <1>2, <2>2
    <3>2. t[a - 1] = s[a]
      BY <3>1, <1>2
    <3> QED BY <3>1, <3>2 DEF Elems
  <2> QED BY <2>1, <2>2 DEF Elems
<1>6. Distinct(t)
  <2> SUFFICES ASSUME NEW a \in DOMAIN t, NEW b \in DOMAIN t, t[a] = t[b] PROVE a = b
    BY DEF Distinct
  <2>1. a + 1 = b + 1
    BY <1>2, <1>3
  <2> QED BY <2>1, <1>2
<1>7. \A a \in DOMAIN t : t[a] \in D \ {i}
  BY <1>5 DEF Elems, IsStack
<1>8. t \in Seq(D \ {i})
  <2>0. t \in Seq(D)
    BY DEF t, IsStack
  <2>1. t = [a \in 1 .. l - 1 |-> t[a]] /\ l - 1 \in Nat
    BY <1>2, <2>0
  <2> QED BY <2>1, <1>2, <1>7
<1>9. Elems(t) \subseteq D \ {i}
  BY <1>7 DEF Elems
<1> QED BY <1>4, <1>5, <1>6, <1>8, <1>9 DEF IsStack, t, i

(* A link of item i leads to j. *)
Leads(m, i, j) == j # Null /\ (m.at[i].next = j \/ (~m.at[i].ref /\ m.at[i].child = j))

(* The links from x reach every item in U, each along one way. *)
Tidy(m, x, U) ==
  /\ U \subseteq DOMAIN m.at /\ x \in U
  /\ Closed(m, U)
  /\ \A i \in U : ~Leads(m, i, x)
  /\ \A i, j, z \in U : Leads(m, i, z) /\ Leads(m, j, z) => i = j
  /\ \A i \in U : ~m.at[i].ref /\ m.at[i].next # Null => m.at[i].child # m.at[i].next
  /\ \A T \in SUBSET U : x \in T /\ Closed(m, T) => U \subseteq T

(* The items in V have been freed after n turns. *)
Deleting(m, x, U, n, s, V) ==
  /\ V \subseteq U
  /\ Freed(m, s.m, V)
  /\ IsStack(s.stack, U \ V)
  /\ \A j \in V \cup Elems(s.stack) : j = x \/ \E i \in V : Leads(m, i, j)
  /\ \A i \in V : /\ m.at[i].next \in V \cup Elems(s.stack) \cup {Null}
                  /\ m.at[i].ref \/ m.at[i].child \in V \cup Elems(s.stack) \cup {Null}
  /\ x \in V \cup Elems(s.stack)
  /\ s.stack # <<>> => Cardinality(V) = n

LEMMA FreedTrans ==
  ASSUME NEW l, NEW m, NEW n, NEW V, NEW W, Freed(l, m, V), Freed(m, n, W)
  PROVE  Freed(l, n, V \cup W)
BY DEF Freed

(* One turn of cJSON_Delete frees the item it is at, and no other. *)
LEMMA DeletingStep ==
  ASSUME NEW m, IsMemory(m), NEW x, NEW U, Tidy(m, x, U), NEW n \in Nat, NEW s, NEW V, Deleting(m, x, U, n, s, V)
  PROVE  \E W : Deleting(m, x, U, n + 1, DeleteStep(s), W)
<1>1. CASE s.stack = <<>>
  <2>1. DeleteStep(s) = s
    BY <1>1 DEF DeleteStep
  <2>2. Deleting(m, x, U, n + 1, s, V)
    BY <1>1 DEF Deleting
  <2> QED BY <2>1, <2>2
<1>2. CASE s.stack # <<>>
  <2> DEFINE i == Head(s.stack)
             S == Elems(s.stack)
             W == V \cup {i}
             nx == m.at[i].next
             ch == m.at[i].child
             t0 == Tail(s.stack)
             t1 == Push(nx, t0)
             t2 == IF m.at[i].ref THEN t1 ELSE Push(ch, t1)
             q == [m |-> Release(s.m, i), stack |-> t2]
  <2>0. U \subseteq DOMAIN m.at /\ DOMAIN m.at \subseteq Items /\ Null \notin Items
    BY TreeAssumption DEF Tidy, IsMemory
  <2>1. i \in U \ V /\ i \in S /\ IsStack(t0, (U \ V) \ {i}) /\ Elems(t0) = S \ {i} /\ S \subseteq U \ V
    <3>1. IsStack(s.stack, U \ V)
      BY DEF Deleting
    <3> QED BY <3>1, <1>2, PopIs DEF IsStack
  <2>2. i \in DOMAIN s.m.at /\ s.m.at[i] = m.at[i] /\ IsMemory(s.m)
    BY <2>0, <2>1 DEF Deleting, Freed
  <2>3. DeleteStep(s) = q
    BY <1>2, <2>2 DEF DeleteStep
  <2> HIDE DEF i, S, nx, ch, t0
  <2>4. nx \in U \cup {Null} /\ (m.at[i].ref \/ ch \in U \cup {Null})
    BY <2>1 DEF Tidy, Closed, nx, ch
(* No freed or waiting item is behind i: its link would be another way there. *)
  <2>5. ASSUME NEW j \in V \cup S, Leads(m, i, j) PROVE FALSE
    <3>1. j # x
      BY <2>1, <2>5 DEF Tidy
    <3>2. PICK p \in V : Leads(m, p, j)
      BY <3>1 DEF Deleting, S
    <3>3. p \in U /\ j \in U /\ p # i
      BY <2>1 DEF Deleting
    <3> QED BY <3>2, <3>3, <2>1, <2>5 DEF Tidy
  <2>6. nx \notin V \cup S /\ (m.at[i].ref \/ ch \notin V \cup S)
    <3>1. Null \notin V \cup S
      BY <2>0, <2>1 DEF Deleting
    <3>2. nx # Null => Leads(m, i, nx)
      BY DEF Leads, nx
    <3>3. ~m.at[i].ref /\ ch # Null => Leads(m, i, ch)
      BY DEF Leads, ch
    <3> QED BY <3>1, <3>2, <3>3, <2>5
  <2>7. (U \ V) \ {i} = U \ W
    OBVIOUS
  <2> HIDE DEF W
  <2>8. nx \in (U \ W) \cup {Null} /\ (m.at[i].ref \/ ch \in (U \ W) \cup {Null})
    BY <2>1, <2>4, <2>6 DEF W
  <2>9. IsStack(t1, U \ W) /\ Elems(t1) = (S \ {i}) \cup ({nx} \ {Null})
    <3>1. nx \notin Elems(t0) /\ IsStack(t0, U \ W)
      BY <2>1, <2>6, <2>7
    <3> QED BY <3>1, <2>1, <2>8, PushIs
  <2> HIDE DEF t1
  <2>10. /\ IsStack(t2, U \ W)
         /\ Elems(t2) = (S \ {i}) \cup ({nx} \ {Null}) \cup (IF m.at[i].ref THEN {} ELSE {ch} \ {Null})
    <3>1. CASE m.at[i].ref
      BY <3>1, <2>9
    <3>2. CASE ~m.at[i].ref
      <4>1. ch \notin Elems(t1)
        <5>1. ch = nx => ch = Null
          BY <2>1, <3>2 DEF Tidy, ch, nx
        <5> QED BY <2>6, <2>9, <3>2, <5>1
      <4>2. IsStack(Push(ch, t1), U \ W) /\ Elems(Push(ch, t1)) = Elems(t1) \cup ({ch} \ {Null})
        BY <4>1, <3>2, <2>8, <2>9, PushIs
      <4> QED BY <4>2, <3>2, <2>9
    <3> QED BY <3>1, <3>2
  <2> HIDE DEF t2
  <2>11. q.stack = t2 /\ q.m = Release(s.m, i)
    OBVIOUS
  <2> HIDE DEF q
  <2>12. W \cup Elems(t2) = V \cup S \cup ({nx} \ {Null}) \cup (IF m.at[i].ref THEN {} ELSE {ch} \ {Null})
    BY <2>1, <2>10 DEF W
  <2>13. Freed(m, q.m, W)
    <3>1. Freed(s.m, q.m, {i})
      BY <2>2, <2>11, ReleaseIs
    <3>2. Freed(m, s.m, V)
      BY DEF Deleting
    <3> QED BY <3>1, <3>2, FreedTrans DEF W
  <2>14. ASSUME NEW j \in W \cup Elems(t2) PROVE j = x \/ \E p \in W : Leads(m, p, j)
    <3>1. CASE j \in V \cup S
      BY <3>1 DEF Deleting, S, W
    <3>2. CASE j \notin V \cup S
      <4>1. Leads(m, i, j) /\ i \in W
        BY <2>12, <3>2 DEF Leads, nx, ch, W
      <4> QED BY <4>1
    <3> QED BY <3>1, <3>2
  <2>15. ASSUME NEW j \in W
         PROVE  /\ m.at[j].next \in W \cup Elems(t2) \cup {Null}
                /\ m.at[j].ref \/ m.at[j].child \in W \cup Elems(t2) \cup {Null}
    <3>1. CASE j \in V
      <4>1. /\ m.at[j].next \in V \cup S \cup {Null}
            /\ m.at[j].ref \/ m.at[j].child \in V \cup S \cup {Null}
        BY <3>1 DEF Deleting, S
      <4> QED BY <4>1, <2>12
    <3>2. CASE j = i
      BY <3>2, <2>12 DEF nx, ch
    <3> QED BY <3>1, <3>2 DEF W
  <2>16. Cardinality(W) = n + 1
    <3>1. IsFiniteSet(V) /\ i \notin V
      BY <2>0, <2>1, ItemsFinite DEF Deleting
    <3>2. Cardinality(V) = n
      BY <1>2 DEF Deleting
    <3> QED BY <3>1, <3>2, FS_AddElement DEF W
  <2>17. x \in W \cup Elems(t2) /\ W \subseteq U
    BY <2>1, <2>12 DEF Deleting, S, W
  <2>18. Deleting(m, x, U, n + 1, q, W)
    BY <2>10, <2>11, <2>13, <2>14, <2>15, <2>16, <2>17 DEF Deleting
  <2> QED BY <2>3, <2>18
<1> QED BY <1>1, <1>2

(* cJSON_Delete frees what the links from x reach, and nothing else. *)
LEMMA DeleteTidy ==
  ASSUME NEW m, IsMemory(m), NEW x, NEW U, Tidy(m, x, U)
  PROVE  Freed(m, cJSON_Delete(m, x), U)
<1> DEFINE N == Cardinality(Items)
<1>1. PICK run : /\ run[0] = [m |-> m, stack |-> Push(x, <<>>)]
                 /\ \A n \in Nat : n + 1 <= N => run[n + 1] = DeleteStep(run[n])
                 /\ cJSON_Delete(m, x) = run[N].m
  BY DeleteRun
<1>2. N \in Nat /\ U \subseteq Items /\ x \in U /\ x # Null /\ Null \notin Items
  BY ItemsFinite, TreeAssumption DEF Tidy, IsMemory
<1> HIDE DEF N
<1> DEFINE S == {n \in Nat : n <= N => \E V : Deleting(m, x, U, n, run[n], V)}
<1>3. 0 \in S
  <2>1. IsStack(<<>>, U) /\ Elems(<<>>) = {}
    BY DEF IsStack, Elems, Distinct
  <2>2. IsStack(run[0].stack, U) /\ Elems(run[0].stack) = {x} /\ run[0].m = m
    <3>1. IsStack(Push(x, <<>>), U) /\ Elems(Push(x, <<>>)) = {x}
      <4>1. x \in U \cup {Null} /\ x \notin Elems(<<>>) /\ {x} \ {Null} = {x}
        BY <1>2, <2>1
      <4> QED BY <2>1, <4>1, PushIs
    <3> QED BY <1>1, <3>1
  <2>3. Freed(m, m, {})
    BY DEF Freed
  <2>4. Cardinality({}) = 0 /\ U \ {} = U
    BY FS_EmptySet
  <2>5. Deleting(m, x, U, 0, run[0], {})
    BY <2>2, <2>3, <2>4 DEF Deleting
  <2> QED BY <2>5
<1>4. ASSUME NEW n \in Nat, n \in S PROVE n + 1 \in S
  <2> SUFFICES ASSUME n + 1 <= N PROVE \E V : Deleting(m, x, U, n + 1, run[n + 1], V)
    OBVIOUS
  <2>1. run[n + 1] = DeleteStep(run[n]) /\ n <= N
    BY <1>1, <1>2
  <2>2. PICK V : Deleting(m, x, U, n, run[n], V)
    BY <1>4, <2>1
  <2> QED BY <2>1, <2>2, DeletingStep
<1> HIDE DEF S
<1>5. N \in S
  BY <1>2, <1>3, <1>4, Induction
<1>6. PICK V : Deleting(m, x, U, N, run[N], V)
  BY <1>2, <1>5 DEF S
<1>7. run[N].stack = <<>>
  <2> SUFFICES ASSUME run[N].stack # <<>> PROVE FALSE
    OBVIOUS
  <2>1. Cardinality(V) = N /\ V \subseteq U /\ IsStack(run[N].stack, U \ V)
    BY <1>6 DEF Deleting
  <2>2. Head(run[N].stack) \in U \ V
    BY <2>1, PopIs
  <2> DEFINE i == Head(run[N].stack)
  <2>3. V \cup {i} \subseteq Items /\ i \notin V
    BY <1>2, <2>1, <2>2
  <2>4. IsFiniteSet(V) /\ Cardinality(V \cup {i}) <= N
    BY <1>2, <2>3, ItemsFinite DEF N
  <2>5. Cardinality(V \cup {i}) = N + 1
    BY <2>1, <2>3, <2>4, FS_AddElement
  <2> QED BY <1>2, <2>4, <2>5
<1>8. V = U
  <2>1. Elems(run[N].stack) = {}
    BY <1>7 DEF Elems
  <2>2. x \in V /\ V \subseteq U /\ Closed(m, V)
    BY <1>6, <2>1 DEF Deleting, Closed
  <2> QED BY <2>2 DEF Tidy
<1> QED BY <1>1, <1>6, <1>8 DEF Deleting

(* A link into a member comes from its parent or the member before it. *)
Before(m, k, i, j, q, a) ==
  /\ q \in DOMAIN k /\ a \in DOMAIN k[q] /\ k[q][a] = j
  /\ a = 1 => i = q /\ m.at[i].child = j
  /\ a # 1 => a - 1 \in DOMAIN k[q] /\ k[q][a - 1] = i /\ m.at[i].next = j

(* next leads to the next place of a list. *)
LEMMA NextPlace ==
  ASSUME NEW m, NEW k, NEW R, NEW O, IsForestOf(k, R), Linked(m, k, R, O),
         NEW i \in DOMAIN k, m.at[i].next # Null
  PROVE  \E q, a : Before(m, k, i, m.at[i].next, q, a) /\ a # 1 /\ k[q][a - 1] = i
<1>1. i \notin R
  BY DEF Linked
<1>2. PICK q \in DOMAIN k : \E a \in DOMAIN k[q] : k[q][a] = i
  BY <1>1, HasPlace
<1>3. PICK a \in DOMAIN k[q] : k[q][a] = i
  BY <1>2
<1>4. m.at[k[q][a]].next = Null \/ (a + 1 \in DOMAIN k[q] /\ m.at[k[q][a]].next = k[q][a + 1])
  BY NextIs
<1>5. a + 1 \in DOMAIN k[q] /\ m.at[i].next = k[q][a + 1]
  BY <1>3, <1>4
<1>6. (a + 1) - 1 = a /\ a + 1 # 1
  <2>1. DOMAIN k[q] = 1 .. Len(k[q]) /\ Len(k[q]) \in Nat
    BY ForestFacts
  <2> QED BY <2>1
<1>7. PICK b : b = a + 1
  OBVIOUS
<1>8. Before(m, k, i, m.at[i].next, q, b) /\ b # 1 /\ k[q][b - 1] = i
  BY <1>3, <1>5, <1>6, <1>7 DEF Before
<1> QED BY <1>8

(* child leads to the first place of a list. *)
LEMMA ChildPlace ==
  ASSUME NEW m, NEW k, NEW R, NEW O, IsForestOf(k, R), Linked(m, k, R, O),
         NEW i \in DOMAIN k, ~m.at[i].ref, m.at[i].child # Null
  PROVE  Before(m, k, i, m.at[i].child, i, 1)
BY ChildIs DEF Before

(* So whatever leads to an item is the one before it, or its parent. *)
LEMMA LeadsPlace ==
  ASSUME NEW m, NEW k, NEW R, NEW O, IsForestOf(k, R), Linked(m, k, R, O),
         NEW i \in DOMAIN k, NEW j, Leads(m, i, j)
  PROVE  \E q, a : Before(m, k, i, j, q, a)
BY NextPlace, ChildPlace DEF Leads

(* The links from a root reach what is below it. *)
LEMMA TidyTree ==
  ASSUME NEW m, NEW k, NEW R, NEW O, IsMemory(m), IsForestOf(k, R), Linked(m, k, R, O), NEW x \in R
  PROVE  Tidy(m, x, Under(k, {x}))
<1> DEFINE U == Under(k, {x})
<1>0. /\ TreeAssumption /\ DOMAIN k \subseteq DOMAIN m.at /\ DOMAIN m.at \subseteq Items
      /\ x \in DOMAIN k /\ (\A i \in DOMAIN k : i # Null)
  BY TreeAssumption DEF Linked, IsMemory, TreeAssumption, IsForestOf
<1>1. /\ U \subseteq DOMAIN k /\ x \in U /\ ClosedIn(k, U)
      /\ \A T \in SUBSET DOMAIN k : x \in T /\ ClosedIn(k, T) => U \subseteq T
  BY <1>0, UnderOne
<1>2. \A i \in U : i # x => \E p \in U : \E a \in DOMAIN k[p] : k[p][a] = i
  BY <1>0, HasPlaceBelow
<1> HIDE DEF U
<1>3. ASSUME NEW i \in U PROVE m.at[i].next \in U \cup {Null}
  <2>1. CASE i = x
    BY <2>1 DEF Linked
  <2>2. CASE i # x
    <3>1. PICK q \in U : \E a \in DOMAIN k[q] : k[q][a] = i
      BY <1>2, <2>2
    <3>2. PICK a \in DOMAIN k[q] : k[q][a] = i
      BY <3>1
    <3>3. q \in DOMAIN k
      BY <1>1
    <3>4. m.at[k[q][a]].next = Null \/ (a + 1 \in DOMAIN k[q] /\ m.at[k[q][a]].next = k[q][a + 1])
      BY <3>3, NextIs
    <3> QED BY <1>1, <3>2, <3>4 DEF ClosedIn
  <2> QED BY <2>1, <2>2
<1>4. ASSUME NEW i \in U, ~m.at[i].ref PROVE m.at[i].child \in U \cup {Null}
  <2>1. i \in DOMAIN k
    BY <1>1
  <2>2. IF k[i] = <<>> THEN m.at[i].child = Null ELSE 1 \in DOMAIN k[i] /\ m.at[i].child = k[i][1]
    BY <1>4, <2>1, ChildIs
  <2> QED BY <1>1, <2>2 DEF ClosedIn
<1>5. Closed(m, U)
  BY <1>3, <1>4 DEF Closed
<1>6. ASSUME NEW i \in U, Leads(m, i, x) PROVE FALSE
  <2>1. i \in DOMAIN k
    BY <1>1
  <2>2. PICK q, a : Before(m, k, i, x, q, a)
    BY <1>6, <2>1, LeadsPlace
  <2> QED BY <2>2 DEF Before, IsForestOf
<1>7. ASSUME NEW i \in U, NEW j \in U, NEW z \in U, Leads(m, i, z), Leads(m, j, z) PROVE i = j
  <2>1. i \in DOMAIN k /\ j \in DOMAIN k
    BY <1>1
  <2>2. PICK q, a : Before(m, k, i, z, q, a)
    BY <1>7, <2>1, LeadsPlace
  <2>3. PICK p, b : Before(m, k, j, z, p, b)
    BY <1>7, <2>1, LeadsPlace
  <2>4. p = q /\ b = a
    BY <2>2, <2>3 DEF Before, IsForestOf
  <2> QED BY <2>2, <2>3, <2>4 DEF Before
<1>8. ASSUME NEW i \in U, ~m.at[i].ref, m.at[i].next # Null, m.at[i].child = m.at[i].next PROVE FALSE
  <2>1. i \in DOMAIN k
    BY <1>1
  <2>2. PICK q, a : Before(m, k, i, m.at[i].next, q, a) /\ a # 1 /\ k[q][a - 1] = i
    BY <1>8, <2>1, NextPlace
  <2>3. Before(m, k, i, m.at[i].child, i, 1)
    BY <1>8, <2>1, ChildPlace
  <2> QED BY <1>8, <2>2, <2>3 DEF Before, IsForestOf
<1>9. ASSUME NEW T \in SUBSET U, x \in T, Closed(m, T) PROVE U \subseteq T
  <2>1. ASSUME NEW q \in T PROVE \A a \in DOMAIN k[q] : k[q][a] \in T
    <3>1. q \in DOMAIN k /\ T \in SUBSET DOMAIN m.at
      BY <1>0, <1>1
    <3>2. k[q] # <<>> => k[q][1] \in T
      <4> HAVE k[q] # <<>>
      <4>1. ~m.at[q].ref
        BY <3>1 DEF Linked
      <4>2. 1 \in DOMAIN k[q] /\ m.at[q].child = k[q][1]
        BY <3>1, <4>1, ChildIs
      <4>3. k[q][1] # Null
        BY <3>1, <4>2, <1>0, ForestFacts
      <4> QED BY <1>9, <4>1, <4>2, <4>3 DEF Closed
    <3> QED BY <1>0, <1>9, <3>1, <3>2, WholeList
  <2>2. ClosedIn(k, T) /\ T \in SUBSET DOMAIN k
    BY <1>1, <2>1 DEF ClosedIn
  <2> QED BY <1>1, <1>9, <2>2
<1>10. U \subseteq DOMAIN m.at
  BY <1>0, <1>1
<1>11. Tidy(m, x, U)
  BY <1>1, <1>5, <1>6, <1>7, <1>8, <1>9, <1>10 DEF Tidy
<1> QED BY <1>11 DEF U

-----------------------------------------------------------------------------
(* The heap: what holds between calls, and inside of them. *)

(* Texts are in the items of the types that have one, and so are numbers. *)
DataFits(it) == (it.valuestring # Null <=> it.type \in {"string", "raw"}) /\ (it.value # 0 => it.type = "number")

(* m holds the forest k with the roots R, and besides it references that   *)
(* are lost; the lists of the items in O are open.  References in the      *)
(* forest refer into it, every item has the data of its type, and every    *)
(* allocated string has one owner.                                         *)
Heap(m, k, R, O) ==
  /\ IsMemory(m) /\ IsForestOf(k, R) /\ Linked(m, k, R, O)
  /\ \A i \in DOMAIN k : m.at[i].ref => m.at[i].child \in DOMAIN k \cup {Null}
  /\ \A i \in DOMAIN m.at \ DOMAIN k : m.at[i].ref /\ m.at[i].string = Null
  /\ \A i \in DOMAIN m.at : DataFits(m.at[i])
  /\ Balance(m) = 0

(* A call that only moves items. *)
LEMMA HeapLinks ==
  ASSUME NEW m, NEW n, NEW k, NEW g, NEW R, NEW Q, NEW O, NEW P, Heap(m, k, R, O),
         SameData(m, n), IsForestOf(g, Q), Linked(n, g, Q, P), DOMAIN g = DOMAIN k
  PROVE  Heap(n, g, Q, P)
<1>1. Balance(n) = 0
  BY BalanceSame DEF Heap
<1>2. IsMemory(n) /\ DOMAIN n.at = DOMAIN m.at /\ DOMAIN k \subseteq DOMAIN m.at
  BY DEF SameData, Heap, Linked
<1>3. ASSUME NEW i \in DOMAIN m.at
      PROVE  /\ n.at[i].type = m.at[i].type /\ n.at[i].ref = m.at[i].ref
             /\ n.at[i].valuestring = m.at[i].valuestring /\ n.at[i].string = m.at[i].string
             /\ m.at[i].ref => n.at[i].child = m.at[i].child
             /\ DataFits(m.at[i]) => DataFits(n.at[i])
  BY DEF SameData, DataFits
<1> QED BY <1>1, <1>2, <1>3 DEF Heap

(* A call that leaves the links alone. *)
LEMMA HeapData ==
  ASSUME NEW m, NEW n, NEW k, NEW R, NEW O, Heap(m, k, R, O), SameLinks(m, n), Balance(n) = Balance(m),
         \A i \in DOMAIN m.at \ DOMAIN k : n.at[i].string = m.at[i].string,
         \A i \in DOMAIN m.at : DataFits(n.at[i])
  PROVE  Heap(n, k, R, O)
<1>1. IsMemory(n) /\ DOMAIN n.at = DOMAIN m.at /\ DOMAIN k \subseteq DOMAIN m.at
  BY DEF SameLinks, Heap, Linked
<1>2. ASSUME NEW i \in DOMAIN m.at PROVE n.at[i].ref = m.at[i].ref /\ n.at[i].child = m.at[i].child
  BY DEF SameLinks
<1>3. Linked(n, k, R, O)
  BY LinkSame DEF Heap
<1> QED BY <1>1, <1>2, <1>3 DEF Heap

Without(k, S) == Forest!Without(k, S)

(* A root that no reference from elsewhere leads to is deleted. *)
LEMMA HeapDelete ==
  ASSUME NEW m, NEW k, NEW R, NEW O, Heap(m, k, R, O), NEW x \in R,
         \A i \in DOMAIN k \ Under(k, {x}) : m.at[i].ref => m.at[i].child \notin Under(k, {x})
  PROVE  Heap(cJSON_Delete(m, x), Without(k, Under(k, {x})), R \ {x}, O)
<1> DEFINE U == Under(k, {x})
           g == Without(k, U)
           n == cJSON_Delete(m, x)
<1>1. /\ IsMemory(n) /\ DOMAIN n.at = DOMAIN m.at \ U
      /\ \A j \in DOMAIN n.at : n.at[j] = m.at[j]
      /\ Balance(n) = Balance(m)
  <2>1. Tidy(m, x, U)
    BY TidyTree DEF Heap
  <2>2. Freed(m, n, U)
    BY <2>1, DeleteTidy DEF Heap
  <2> QED BY <2>2 DEF Freed
<1>2. IsForestOf(g, R \ {x})
  BY ForestDelete DEF Without, Forest!Without, Heap
<1>3. x \in DOMAIN k
  BY DEF Heap, IsForestOf
<1>4. U \subseteq DOMAIN k /\ DOMAIN k \subseteq DOMAIN m.at
  BY <1>3, UnderOne DEF Heap, Linked
<1>5. DOMAIN g = DOMAIN k \ U /\ \A i \in DOMAIN g : g[i] = k[i]
  BY DEF Without, Forest!Without
<1>6. \A i \in DOMAIN g : i \in DOMAIN n.at /\ n.at[i] = m.at[i] /\ i \in DOMAIN k
  BY <1>1, <1>4, <1>5
<1> HIDE DEF g, n
<1>7. Linked(n, g, R \ {x}, O)
  <2>1. \A r \in R \ {x} : n.at[r].next = Null /\ n.at[r].prev = Null
    <3>1. \A r \in R \ {x} : r \in DOMAIN g
      BY <1>2 DEF IsForestOf
    <3> QED BY <3>1, <1>6 DEF Heap, Linked
  <2>2. ASSUME NEW p \in DOMAIN g, n.at[p].ref PROVE g[p] = <<>>
    BY <2>2, <1>5, <1>6 DEF Heap, Linked
  <2>3. ASSUME NEW p \in DOMAIN g, ~n.at[p].ref PROVE ListOf(n, p, g[p], O)
    <3>0. k[p] = g[p] /\ n.at[p] = m.at[p] /\ p \in DOMAIN k
      BY <1>5, <1>6
    <3>1. ListOf(m, p, g[p], O)
      BY <2>3, <3>0 DEF Heap, Linked
    <3>2. \A a \in DOMAIN g[p] : g[p][a] \in DOMAIN g
      BY <1>2, ForestFacts
    <3>3. /\ DOMAIN g[p] = 1 .. Len(g[p]) /\ Len(g[p]) \in Nat
          /\ (g[p] # <<>> => 1 \in DOMAIN g[p])
      BY <1>2, ForestFacts
    <3>4. \A a \in DOMAIN g[p] : n.at[g[p][a]] = m.at[g[p][a]]
      BY <1>6, <3>2
    <3>5. \A a \in 2 .. Len(g[p]) : a \in DOMAIN g[p]
      BY <3>3
    <3>6. n.at[p] = m.at[p]
      BY <1>6
    <3> QED BY <3>1, <3>3, <3>4, <3>5, <3>6 DEF ListOf
  <2>4. DOMAIN g \subseteq DOMAIN n.at
    BY <1>6
  <2> QED BY <2>1, <2>2, <2>3, <2>4 DEF Linked
<1>8. ASSUME NEW i \in DOMAIN g, n.at[i].ref PROVE n.at[i].child \in DOMAIN g \cup {Null}
  <2>1. m.at[i].child \in DOMAIN k \cup {Null} /\ m.at[i].child \notin U /\ n.at[i] = m.at[i]
    BY <1>5, <1>6, <1>8 DEF Heap
  <2> QED BY <2>1, <1>5
<1>9. \A i \in DOMAIN n.at \ DOMAIN g : n.at[i].ref /\ n.at[i].string = Null
  BY <1>1, <1>5 DEF Heap
<1>10. \A i \in DOMAIN n.at : DataFits(n.at[i])
  BY <1>1 DEF Heap
<1>11. Heap(n, g, R \ {x}, O)
  BY <1>1, <1>2, <1>7, <1>8, <1>9, <1>10 DEF Heap
<1> QED BY <1>11 DEF n, g

(* n is m with a new item i. *)
Fresh(m, n, i) ==
  /\ i \in Items \ DOMAIN m.at /\ IsMemory(n) /\ DOMAIN n.at = DOMAIN m.at \cup {i}
  /\ \A j \in DOMAIN m.at : n.at[j] = m.at[j]
  /\ n.at[i].next = Null /\ n.at[i].prev = Null
  /\ ~n.at[i].ref => n.at[i].child = Null
  /\ DataFits(n.at[i])
  /\ Balance(n) = Balance(m)

Grow(k, i) == [j \in DOMAIN k \cup {i} |-> IF j = i THEN <<>> ELSE k[j]]

(* A new item is a root. *)
LEMMA HeapFresh ==
  ASSUME NEW m, NEW n, NEW k, NEW R, NEW O, NEW P, Heap(m, k, R, O), NEW i, Fresh(m, n, i),
         n.at[i].ref => n.at[i].child \in DOMAIN k \cup {Null},
         \A q \in DOMAIN k : q \in P <=> q \in O
  PROVE  Heap(n, Grow(k, i), R \cup {i}, P)
<1> DEFINE g == Grow(k, i)
<1>1. /\ i \notin DOMAIN m.at /\ IsMemory(n) /\ DOMAIN n.at = DOMAIN m.at \cup {i}
      /\ \A j \in DOMAIN m.at : n.at[j] = m.at[j]
  BY DEF Fresh
<1>2. DOMAIN k \subseteq DOMAIN m.at /\ R \subseteq DOMAIN k /\ i \notin DOMAIN k
  BY <1>1 DEF Heap, Linked, IsForestOf
<1>3. IsForestOf(g, R \cup {i})
  BY <1>2, ForestNew DEF Grow, Heap
<1>4. DOMAIN g = DOMAIN k \cup {i} /\ g[i] = <<>> /\ \A j \in DOMAIN k : g[j] = k[j]
  BY <1>2 DEF Grow
<1> HIDE DEF g
<1>5. ASSUME NEW p \in DOMAIN g, ~n.at[p].ref PROVE ListOf(n, p, g[p], P)
  <2>1. CASE p = i
    <3>1. n.at[p].child = Null /\ g[p] = <<>> /\ Len(g[p]) = 0
      BY <2>1, <1>4, <1>5 DEF Fresh
    <3> QED BY <3>1 DEF ListOf
  <2>2. CASE p \in DOMAIN k
    <3>0. n.at[p] = m.at[p] /\ g[p] = k[p]
      BY <1>1, <1>2, <1>4, <2>2
    <3>1. ListOf(m, p, g[p], O)
      BY <1>5, <2>2, <3>0 DEF Heap, Linked
    <3>2. \A a \in DOMAIN g[p] : g[p][a] \in DOMAIN k
      BY <2>2, <3>0, ForestFacts DEF Heap
    <3>3. /\ DOMAIN g[p] = 1 .. Len(g[p]) /\ Len(g[p]) \in Nat
          /\ (g[p] # <<>> => 1 \in DOMAIN g[p])
      BY <1>3, ForestFacts
    <3>4. \A a \in DOMAIN g[p] : n.at[g[p][a]] = m.at[g[p][a]]
      BY <1>1, <1>2, <3>2
    <3>5. \A a \in 2 .. Len(g[p]) : a \in DOMAIN g[p]
      BY <3>3
    <3>6. p \in P <=> p \in O
      BY <2>2
    <3> QED BY <3>0, <3>1, <3>3, <3>4, <3>5, <3>6 DEF ListOf
  <2> QED BY <1>4, <2>1, <2>2
<1>6. ASSUME NEW p \in DOMAIN g, n.at[p].ref PROVE g[p] = <<>>
  <2>1. CASE p = i
    BY <2>1, <1>4
  <2>2. CASE p \in DOMAIN k
    <3>1. n.at[p] = m.at[p] /\ g[p] = k[p]
      BY <1>1, <1>2, <1>4, <2>2
    <3> QED BY <3>1, <2>2, <1>6 DEF Heap, Linked
  <2> QED BY <1>4, <2>1, <2>2
<1>7. ASSUME NEW r \in R \cup {i} PROVE n.at[r].next = Null /\ n.at[r].prev = Null
  <2>1. CASE r = i
    BY <2>1 DEF Fresh
  <2>2. CASE r \in R
    <3>1. n.at[r] = m.at[r]
      BY <1>1, <1>2, <2>2
    <3> QED BY <3>1, <2>2 DEF Heap, Linked
  <2> QED BY <2>1, <2>2
<1>8. Linked(n, g, R \cup {i}, P)
  BY <1>1, <1>2, <1>4, <1>5, <1>6, <1>7 DEF Linked
<1>9. ASSUME NEW j \in DOMAIN g, n.at[j].ref PROVE n.at[j].child \in DOMAIN g \cup {Null}
  <2>1. CASE j = i
    BY <2>1, <1>4, <1>9
  <2>2. CASE j \in DOMAIN k
    <3>1. n.at[j] = m.at[j]
      BY <1>1, <1>2, <2>2
    <3> QED BY <3>1, <2>2, <1>4, <1>9 DEF Heap
  <2> QED BY <1>4, <2>1, <2>2
<1>10. \A j \in DOMAIN n.at \ DOMAIN g : n.at[j].ref /\ n.at[j].string = Null
  BY <1>1, <1>4 DEF Heap
<1>11. \A j \in DOMAIN n.at : DataFits(n.at[j])
  BY <1>1 DEF Heap, Fresh
<1>12. Balance(n) = 0
  BY DEF Fresh, Heap
<1>13. Heap(n, g, R \cup {i}, P)
  BY <1>1, <1>3, <1>8, <1>9, <1>10, <1>11, <1>12 DEF Heap
<1> QED BY <1>13 DEF g

(* A new reference that nothing leads to is lost. *)
LEMMA HeapLeak ==
  ASSUME NEW m, NEW n, NEW k, NEW R, NEW O, Heap(m, k, R, O), NEW i, Fresh(m, n, i),
         n.at[i].ref, n.at[i].string = Null
  PROVE  Heap(n, k, R, O)
<1>1. /\ i \notin DOMAIN m.at /\ IsMemory(n) /\ DOMAIN n.at = DOMAIN m.at \cup {i}
      /\ \A j \in DOMAIN m.at : n.at[j] = m.at[j]
  BY DEF Fresh
<1>2. DOMAIN k \subseteq DOMAIN m.at /\ R \subseteq DOMAIN k /\ i \notin DOMAIN k
  BY <1>1 DEF Heap, Linked, IsForestOf
<1>3. ASSUME NEW p \in DOMAIN k, ~n.at[p].ref PROVE ListOf(n, p, k[p], O)
  <2>0. n.at[p] = m.at[p]
    BY <1>1, <1>2
  <2>1. ListOf(m, p, k[p], O)
    BY <1>3, <2>0 DEF Heap, Linked
  <2>2. \A a \in DOMAIN k[p] : k[p][a] \in DOMAIN k
    BY ForestFacts DEF Heap
  <2>3. /\ DOMAIN k[p] = 1 .. Len(k[p]) /\ Len(k[p]) \in Nat
        /\ (k[p] # <<>> => 1 \in DOMAIN k[p])
    BY ForestFacts DEF Heap
  <2>4. \A a \in DOMAIN k[p] : n.at[k[p][a]] = m.at[k[p][a]]
    BY <1>1, <1>2, <2>2
  <2>5. \A a \in 2 .. Len(k[p]) : a \in DOMAIN k[p]
    BY <2>3
  <2> QED BY <2>0, <2>1, <2>3, <2>4, <2>5 DEF ListOf
<1>4. Linked(n, k, R, O)
  BY <1>1, <1>2, <1>3 DEF Heap, Linked
<1>5. \A j \in DOMAIN k : n.at[j].ref => n.at[j].child \in DOMAIN k \cup {Null}
  BY <1>1, <1>2 DEF Heap
<1>6. \A j \in DOMAIN n.at \ DOMAIN k : n.at[j].ref /\ n.at[j].string = Null
  BY <1>1 DEF Heap
<1>7. \A j \in DOMAIN n.at : DataFits(n.at[j])
  BY <1>1 DEF Heap, Fresh
<1>8. Balance(n) = 0
  BY DEF Fresh, Heap
<1> QED BY <1>1, <1>4, <1>5, <1>6, <1>7, <1>8 DEF Heap

==============================================================================
