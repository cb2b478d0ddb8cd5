----------------------------- MODULE JsonForest -----------------------------
(***************************************************************************)
(* What the calls of JsonTree promise: a forest of ordered trees, of which *)
(* the application has the roots.  No pointers, names or memory.           *)
(***************************************************************************)
EXTENDS Integers, Sequences, FiniteSets, SequencesExt, FiniteSetsExt

CONSTANT Items

VARIABLES
  kids,   \* [items of the forest -> the sequence of their members]
  roots

forestVars == <<kids, roots>>

(* The items below and including S. *)
Under(k, S) ==
  LET closed == {T \in SUBSET DOMAIN k : S \subseteq T /\ \A i \in T : ToSet(k[i]) \subseteq T}
  IN  {i \in DOMAIN k : \A T \in closed : i \in T}

Without(k, S) == [i \in DOMAIN k \ S |-> k[i]]

Places == {s \in (DOMAIN kids) \X (1 .. Cardinality(Items)) : s[2] \in DOMAIN kids[s[1]]}

(* A new tree, with the root r. *)
Make ==
  \E r \in DOMAIN kids' \ DOMAIN kids, k \in {kids'} :
    /\ roots' = roots \cup {r}
    /\ Without(k, DOMAIN k \ DOMAIN kids) = kids
    /\ Under(k, {r}) = DOMAIN k \ DOMAIN kids

(* A single new member at the end. *)
AppendNew ==
  /\ UNCHANGED roots
  /\ \E x \in Items \ DOMAIN kids, p \in DOMAIN kids :
       kids' = [i \in DOMAIN kids \cup {x} |->
                  IF i = x THEN <<>> ELSE IF i = p THEN Append(kids[p], x) ELSE kids[i]]

(* A root becomes a member, anywhere in the list. *)
Insert ==
  \E x \in roots :
    /\ roots' = roots \ {x}
    /\ \E p \in DOMAIN kids \ Under(kids, {x}) : \E j \in 1 .. Len(kids[p]) + 1 :
         kids' = [kids EXCEPT ![p] = InsertAt(@, j, x)]

Detach ==
  \E s \in Places : /\ roots' = roots \cup {kids[s[1]][s[2]]}
                    /\ kids' = [kids EXCEPT ![s[1]] = RemoveAt(@, s[2])]

(* A member, or a root, goes with all that is below it. *)
Discard ==
  \/ /\ UNCHANGED roots
     /\ \E s \in Places :
          kids' = Without([kids EXCEPT ![s[1]] = RemoveAt(@, s[2])], Under(kids, {kids[s[1]][s[2]]}))
  \/ \E x \in roots : roots' = roots \ {x} /\ kids' = Without(kids, Under(kids, {x}))

Replace ==
  \E x \in roots :
    /\ roots' = roots \ {x}
    /\ \E s \in Places :
         /\ s[1] \notin Under(kids, {x})
         /\ kids' = Without([kids EXCEPT ![s[1]][s[2]] = x], Under(kids, {kids[s[1]][s[2]]}))

ForestInit == kids = << >> /\ roots = {}

ForestNext == Make \/ AppendNew \/ Insert \/ Detach \/ Discard \/ Replace

ForestSpec == ForestInit /\ [][ForestNext]_forestVars

=============================================================================
