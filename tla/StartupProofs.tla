---------------------------- MODULE StartupProofs ----------------------------
(***************************************************************************)
(* Proofs about Startup, for all configurations whose objects list at most *)
(* 255 segments, any limit of the kernel, and any number of kills and      *)
(* restarts with the same or other configurations.                         *)
(***************************************************************************)
EXTENDS Startup, FiniteSetTheorems, SequenceTheorems, TLAPS

(* The counter shm_proj_id does not wrap. *)
SmallTables == \A c \in Configs : \A p \in DOMAIN c : Len(c[p].shm) <= 255

(* What the kernel guarantees: a key has one segment, an id has one, and   *)
(* the next id is new.                                                     *)
SegInv ==
  /\ IsFiniteSet(segs)
  /\ \A s \in segs : s.id < Cardinality(segs)
  /\ \A s, r \in segs : (s.key = r.key \/ s.id = r.id) => s = r

(* Entry i of table t is the segment of S with the i-th key of the node. *)
Backed(S, name, t) ==
  \A i \in DOMAIN t :
    \E s \in S : s.key = <<name, i>> /\ s.id = t[i].id /\ s.size >= t[i].size

(* The table under construction, and the one of the head. *)
TableInv ==
  pc \in {"shm", "link"} =>
    /\ pos \in DOMAIN cfg
    /\ shm_proj_id = Len(table) /\ Len(table) <= Len(cfg[pos].shm)
    /\ ~unmapped => Backed(segs, cfg[pos].name, table)

HeadInv ==
  /\ pc = "ready" => head # <<>>
  /\ head # <<>> =>
       /\ head[1].shm_node_num = Len(head[1].table)
       /\ ~unmapped => Backed(segs, head[1].name, head[1].table)

(* What the steps need of StartupTypeOK. *)
LoadType ==
  /\ segs \subseteq [key : NodeName \X (1..255), id : Nat, size : Nat]
  /\ cfg \in Seq(Object)
  /\ cfg \in Configs \cup {<<>>}
  /\ pos \in Nat \ {0}
  /\ table \in Seq(Entry)
  /\ head \in Seq(HeadNode) /\ Len(head) <= 1

StartInv == LoadType /\ SegInv /\ TableInv /\ HeadInv

(* Segments are never removed, so what backs a table goes on backing it. *)
LEMMA BackedGrows ==
  ASSUME NEW S, NEW T, S \subseteq T, NEW name, NEW t, Backed(S, name, t)
  PROVE  Backed(T, name, t)
  BY DEF Backed

(* A successful shmget keeps SegInv, and the segment of the key is there   *)
(* and large enough.                                                       *)
LEMMA ShmgetKeeps ==
  ASSUME SegInv, NEW name \in NodeName, NEW n \in 1..255, NEW size \in Nat,
         segs \subseteq [key : NodeName \X (1..255), id : Nat, size : Nat],
         CanGet(<<name, n>>, size), segs' = shmget(<<name, n>>, size)
  PROVE  /\ segs' \subseteq [key : NodeName \X (1..255), id : Nat, size : Nat]
         /\ segs \subseteq segs' /\ SegInv'
         /\ \A s \in segs' : s.key = <<name, n>> => s.size >= size
<1> DEFINE key == <<name, n>>
           new == [key |-> key, id |-> Cardinality(segs), size |-> size]
<1>1. Cardinality(segs) \in Nat
  BY FS_CardinalityType DEF SegInv
<1>2. new \in [key : NodeName \X (1..255), id : Nat, size : Nat]
  BY <1>1
<1>3. CASE SegsWith(key) # {}
  <2>1. segs' = segs
    BY <1>3 DEF shmget
  <2>2. \E s \in segs : s.key = key /\ s.size >= size
    BY <1>3 DEF CanGet, SegsWith
  <2> QED BY <2>1, <2>2 DEF SegInv
<1>4. CASE SegsWith(key) = {}
  <2>1. segs' = segs \cup {new}
    BY <1>4 DEF shmget
  <2>2. \A s \in segs : s.key # key /\ s.id # Cardinality(segs)
    <3>1. \A s \in segs : s.key # key
      BY <1>4 DEF SegsWith
    <3>2. \A s \in segs : s.id \in Nat /\ s.id < Cardinality(segs)
      BY DEF SegInv
    <3> QED BY <3>1, <3>2, <1>1
  <2>3. new \notin segs /\ new.key = key /\ new.id = Cardinality(segs) /\ new.size = size
    BY <2>2
  <2> HIDE DEF new
  <2>4. IsFiniteSet(segs') /\ Cardinality(segs') = Cardinality(segs) + 1
    BY <2>1, <2>3, FS_AddElement DEF SegInv
  <2>5. \A s \in segs' : s.id < Cardinality(segs')
    <3>1. \A s \in segs : s.id \in Nat /\ s.id < Cardinality(segs)
      BY DEF SegInv
    <3> QED BY <3>1, <1>1, <2>1, <2>3, <2>4
  <2>6. \A s, r \in segs' : (s.key = r.key \/ s.id = r.id) => s = r
    BY <2>1, <2>2, <2>3 DEF SegInv
  <2>7. \A s \in segs' : s.key = key => s.size >= size
    BY <2>1, <2>2, <2>3
  <2> QED BY <1>2, <2>1, <2>4, <2>5, <2>6, <2>7 DEF SegInv
<1> QED BY <1>3, <1>4

LEMMA StartInit == Init => StartInv
<1> SUFFICES ASSUME Init PROVE StartInv
  OBVIOUS
<1>1. LoadType
  BY DEF Init, LoadType
<1>2. SegInv
  BY FS_EmptySet DEF Init, SegInv
<1>3. TableInv /\ HeadInv
  BY DEF Init, TableInv, HeadInv
<1> QED BY <1>1, <1>2, <1>3 DEF StartInv

(* The arithmetic of the counter. *)
LEMMA CounterStep ==
  /\ \A k, m \in Nat : (k < m /\ m <= 255) =>
       /\ k + 1 \in 1..255 /\ k + 1 \in 1..m /\ k + 1 <= m
       /\ (k + 1) % 256 = k + 1
  /\ \A k, m \in Nat : (k <= m /\ m <= 255) => k \in 0..255
  OBVIOUS

(* The object being read, as the steps of init_shm and of linking see it. *)
LEMMA Current ==
  ASSUME SmallTables, StartInv, pos \in DOMAIN cfg
  PROVE  /\ cfg \in Configs /\ cfg[pos] \in Object
         /\ cfg[pos].name \in NodeName /\ cfg[pos].shm \in Seq(ShmItem)
         /\ Len(cfg[pos].shm) \in Nat /\ Len(cfg[pos].shm) <= 255
<1>1. cfg \in Configs
  BY DEF StartInv, LoadType
<1>2. cfg[pos] \in Object
  BY DEF StartInv, LoadType
<1>3. cfg[pos].name \in NodeName /\ cfg[pos].shm \in Seq(ShmItem)
  BY <1>2 DEF Object
<1>4. Len(cfg[pos].shm) \in Nat /\ Len(cfg[pos].shm) <= 255
  BY <1>1, <1>3, LenProperties DEF SmallTables
<1> QED BY <1>1, <1>2, <1>3, <1>4

(* A turn of the loop of init_shm extends the table by an entry that is    *)
(* backed, or records that it is not.                                      *)
LEMMA CreateStep ==
  ASSUME SmallTables, StartInv, CreateShm
  PROVE  StartInv'
<1> DEFINE n    == Len(table) + 1
           item == cfg[pos].shm[n]
           key  == <<cfg[pos].name, n>>
           New(id) == [name |-> item.name, id |-> id, size |-> item.size]
<1>1. /\ pos \in DOMAIN cfg /\ shm_proj_id = Len(table)
      /\ Len(table) < Len(cfg[pos].shm) /\ Len(table) \in Nat
      /\ ~unmapped => Backed(segs, cfg[pos].name, table)
  BY LenProperties DEF CreateShm, StartInv, TableInv, LoadType
<1>2. /\ cfg[pos].name \in NodeName /\ cfg[pos].shm \in Seq(ShmItem)
      /\ Len(cfg[pos].shm) \in Nat /\ Len(cfg[pos].shm) <= 255
  BY <1>1, Current
<1>3. n \in 1..255 /\ n \in 1..Len(cfg[pos].shm) /\ n <= Len(cfg[pos].shm)
  BY <1>1, <1>2, CounterStep
<1>4. item \in ShmItem
  BY <1>2, <1>3, ElementOfSeq
<1>5. item.name \in ShmName /\ item.size \in Nat
  BY <1>4 DEF ShmItem
<1>6. NextProjId = n
  <2>1. (Len(table) + 1) % 256 = Len(table) + 1
    BY <1>1, <1>2, CounterStep
  <2> QED BY <2>1, <1>1 DEF NextProjId
<1>7. ftok(cfg[pos].name, NextProjId) = key
  BY <1>3, <1>6 DEF ftok
<1>8. \A id \in Nat : New(id) \in Entry /\ New(id).id = id /\ New(id).size = item.size
  BY <1>5 DEF Entry
<1>9. \A id \in Nat :
        /\ Append(table, New(id)) \in Seq(Entry)
        /\ Len(Append(table, New(id))) = n
        /\ \A i \in DOMAIN Append(table, New(id)) :
             \/ i \in DOMAIN table /\ Append(table, New(id))[i] = table[i]
             \/ i = n /\ Append(table, New(id))[i] = New(id)
  <2> SUFFICES ASSUME NEW id \in Nat
               PROVE  /\ Append(table, New(id)) \in Seq(Entry)
                      /\ Len(Append(table, New(id))) = n
                      /\ \A i \in DOMAIN Append(table, New(id)) :
                           \/ i \in DOMAIN table /\ Append(table, New(id))[i] = table[i]
                           \/ i = n /\ Append(table, New(id))[i] = New(id)
    OBVIOUS
  <2>1. table \in Seq(Entry) /\ New(id) \in Entry
    BY <1>8 DEF StartInv, LoadType
  <2> HIDE DEF New
  <2> QED BY <2>1, AppendProperties
<1>10. /\ pc = "shm" /\ pc' = "shm" /\ shm_proj_id' = n
       /\ UNCHANGED <<cfg, pos, head, list, node_count, known, starts>>
  BY <1>6 DEF CreateShm
<1>11. CASE CanGet(key, item.size)
  <2>1. /\ segs' = shmget(key, item.size)
        /\ \E s \in segs' : s.key = key /\ table' = Append(table, New(s.id))
        /\ unmapped' = unmapped
    BY <1>7, <1>11 DEF CreateShm
  <2>2. /\ segs' \subseteq [key : NodeName \X (1..255), id : Nat, size : Nat]
        /\ segs \subseteq segs' /\ SegInv'
        /\ \A s \in segs' : s.key = key => s.size >= item.size
    <3>1. SegInv /\ segs \subseteq [key : NodeName \X (1..255), id : Nat, size : Nat]
      BY DEF StartInv, LoadType
    <3> QED BY <1>2, <1>3, <1>5, <1>11, <2>1, <3>1, ShmgetKeeps
  <2>3. PICK s \in segs' : s.key = key /\ table' = Append(table, New(s.id))
    BY <2>1
  <2>4. s.id \in Nat
    BY <2>2
  <2>5. table' \in Seq(Entry) /\ Len(table') = n
    BY <1>9, <2>3, <2>4
  <2>6. ~unmapped' => Backed(segs', cfg[pos].name, table')
    <3> SUFFICES ASSUME ~unmapped, NEW i \in DOMAIN table'
                 PROVE  \E r \in segs' : /\ r.key = <<cfg[pos].name, i>>
                                         /\ r.id = table'[i].id /\ r.size >= table'[i].size
      BY <2>1 DEF Backed
    <3>1. CASE i \in DOMAIN table /\ table'[i] = table[i]
      BY <1>1, <2>2, <3>1 DEF Backed
    <3>2. CASE i = n /\ table'[i] = New(s.id)
      BY <1>8, <2>2, <2>3, <2>4, <3>2
    <3> QED BY <1>9, <2>3, <2>4, <3>1, <3>2
  <2>7. LoadType'
    BY <1>10, <2>2, <2>5 DEF StartInv, LoadType
  <2>8. TableInv'
    BY <1>1, <1>3, <1>10, <2>5, <2>6 DEF TableInv
  <2>9. HeadInv'
    <3>1. /\ pc' # "ready" /\ head' = head /\ unmapped' = unmapped
          /\ segs \subseteq segs' /\ HeadInv
      BY <1>10, <2>1, <2>2 DEF StartInv
    <3>2. Backed(segs, head[1].name, head[1].table) => Backed(segs', head[1].name, head[1].table)
      BY <3>1, BackedGrows
    <3> QED BY <3>1, <3>2 DEF HeadInv
  <2> QED BY <2>2, <2>7, <2>8, <2>9 DEF StartInv
<1>12. CASE ~CanGet(key, item.size)
  <2>1. segs' = segs /\ table' = Append(table, New(0)) /\ unmapped' = TRUE
    BY <1>7, <1>12 DEF CreateShm
  <2>2. table' \in Seq(Entry) /\ Len(table') = n
    BY <1>9, <2>1
  <2>3. LoadType'
    BY <1>10, <2>1, <2>2 DEF StartInv, LoadType
  <2>4. TableInv'
    BY <1>1, <1>3, <1>10, <2>1, <2>2 DEF TableInv
  <2>5. SegInv' /\ HeadInv'
    BY <1>10, <2>1 DEF StartInv, SegInv, HeadInv
  <2> QED BY <2>3, <2>4, <2>5 DEF StartInv
<1> QED BY <1>11, <1>12

(* Linking makes the finished table that of the head, or leaves the head. *)
LEMMA LinkStep ==
  ASSUME SmallTables, StartInv, Link
  PROVE  StartInv'
<1>1. /\ pos \in DOMAIN cfg /\ shm_proj_id = Len(table)
      /\ ~unmapped => Backed(segs, cfg[pos].name, table)
      /\ Len(table) <= Len(cfg[pos].shm) /\ table \in Seq(Entry)
  BY DEF Link, StartInv, TableInv, LoadType
<1>2. cfg[pos].name \in NodeName /\ Len(cfg[pos].shm) \in Nat /\ Len(cfg[pos].shm) <= 255
  BY <1>1, Current
<1>3. Len(table) \in 0..255
  BY <1>1, <1>2, LenProperties, CounterStep
<1>4. /\ pc' = "parse" /\ pos' = pos + 1
      /\ segs' = segs /\ cfg' = cfg /\ table' = table /\ unmapped' = unmapped
  BY DEF Link
<1>5. SegInv' /\ TableInv'
  BY <1>4 DEF StartInv, SegInv, TableInv
<1>6. CASE cfg[pos].id = 0
  <2> DEFINE h == [name |-> cfg[pos].name, table |-> table, shm_node_num |-> shm_proj_id]
  <2>1. h \in HeadNode /\ h.name = cfg[pos].name /\ h.table = table /\ h.shm_node_num = shm_proj_id
    BY <1>1, <1>2, <1>3 DEF HeadNode
  <2>2. head' = <<h>>
    BY <1>6 DEF Link
  <2> HIDE DEF h
  <2>3. head' \in Seq(HeadNode) /\ Len(head') = 1 /\ head'[1] = h
    BY <2>1, <2>2
  <2>4. LoadType'
    BY <1>4, <2>3 DEF StartInv, LoadType
  <2>5. HeadInv'
    BY <1>1, <1>4, <2>1, <2>3 DEF HeadInv
  <2> QED BY <1>5, <2>4, <2>5 DEF StartInv
<1>7. CASE cfg[pos].id # 0
  <2>1. head' = head
    BY <1>7 DEF Link
  <2> QED BY <1>4, <1>5, <2>1 DEF StartInv, LoadType, HeadInv
<1> QED BY <1>6, <1>7

LEMMA StartStep ==
  ASSUME SmallTables
  PROVE  StartInv /\ [Next]_vars => StartInv'
<1> SUFFICES ASSUME StartInv, [Next]_vars PROVE StartInv'
  OBVIOUS
<1> USE DEF StartInv, LoadType, SegInv, TableInv, HeadInv
<1>1. ASSUME NEW c \in Configs, Start(c) PROVE StartInv'
  BY <1>1, StartupAssumption DEF Start
<1>2. CASE Parse
  <2>1. pos \in DOMAIN cfg
    BY <1>2, LenProperties DEF Parse
  <2>2. Len(cfg[pos].shm) \in Nat /\ Len(cfg[pos].shm) <= 255
    BY <2>1, Current
  <2>3. table' = <<>> /\ Len(table') = 0 /\ Backed(segs', cfg[pos].name, table')
    BY <1>2 DEF Parse, Backed
  <2> QED BY <1>2, <2>1, <2>2, <2>3 DEF Parse
<1>3. CASE CreateShm
  BY <1>3, CreateStep
<1>4. CASE Link
  BY <1>4, LinkStep
<1>5. CASE ShmEnd \/ LinkExit \/ Stop
  <2>1. UNCHANGED <<segs, loadVars>> /\ pc' \in {"link", "failed", "down"}
    BY <1>5 DEF ShmEnd, LinkExit, Stop
  <2>2. pc' = "link" => pc = "shm"
    BY <1>5 DEF ShmEnd, LinkExit, Stop
  <2> QED BY <2>1, <2>2 DEF loadVars
<1>6. CASE LoadEnd
  BY <1>6 DEF LoadEnd, loadVars
<1>7. CASE Learn \/ Write
  BY <1>7 DEF Learn, Write, loadVars
<1>8. CASE UNCHANGED vars
  BY <1>8 DEF vars, loadVars
<1> QED BY <1>1, <1>2, <1>3, <1>4, <1>5, <1>6, <1>7, <1>8 DEF Next, BrokerStep

(* With at most 255 segments in an object, a broker that is ready and      *)
(* could create all of its segments hands out different segments that are  *)
(* large enough, whatever earlier starts, also killed or failed ones, left *)
(* in the kernel.                                                          *)
THEOREM HandsOutOwnSegments ==
  ASSUME SmallTables
  PROVE  Spec => []TableSound
<1>1. StartInv => TableSound
  <2> SUFFICES ASSUME StartInv, pc = "ready", ~unmapped PROVE TableSound
    BY DEF TableSound
  <2>1. Backed(segs, head[1].name, head[1].table)
    BY DEF StartInv, HeadInv
  <2>2. ASSUME NEW i \in DOMAIN head[1].table, NEW j \in DOMAIN head[1].table, i # j
        PROVE  head[1].table[i].id # head[1].table[j].id
    <3>1. PICK s \in segs : s.key = <<head[1].name, i>> /\ s.id = head[1].table[i].id
      BY <2>1 DEF Backed
    <3>2. PICK r \in segs : r.key = <<head[1].name, j>> /\ r.id = head[1].table[j].id
      BY <2>1 DEF Backed
    <3> QED BY <2>2, <3>1, <3>2 DEF StartInv, SegInv
  <2> QED BY <2>1, <2>2 DEF TableSound, Backed
<1>2. StartInv /\ [Next]_vars => StartInv'
  BY StartStep
<1> QED BY <1>1, <1>2, StartInit, PTL DEF Spec

-----------------------------------------------------------------------------
(* The types.  No assumption on the tables: where the counter wraps, what  *)
(* is sent of a table is a part of it.                                     *)

(* What the types of later steps rest on. *)
Reached ==
  /\ pc # "down" => cfg \in Configs /\ starts # 0
  /\ pc \in {"shm", "link"} => pos \in DOMAIN cfg
  /\ shm_proj_id <= Len(table)
  /\ head # <<>> => head[1].shm_node_num <= Len(head[1].table)
  /\ pc = "ready" => head # <<>>
  /\ node_count # 0 => head # <<>>
  /\ known # {} => starts # 0

TypeInv == SegsType /\ IsFiniteSet(segs) /\ FileType /\ Reached

LEMMA ObjectAt ==
  ASSUME NEW c \in Configs, NEW p \in DOMAIN c
  PROVE  /\ c \in Seq(Object) /\ Len(c) \in Nat /\ p \in 1..Len(c) /\ c[p] \in Object
         /\ c[p].valid \in BOOLEAN /\ c[p].name \in NodeName /\ c[p].id \in Nat
         /\ c[p].shm \in Seq(ShmItem) /\ Len(c[p].shm) \in Nat
<1>1. c \in Seq(Object) /\ Len(c) \in Nat /\ p \in 1..Len(c)
  BY StartupAssumption, LenProperties
<1>2. c[p] \in Object
  BY <1>1, ElementOfSeq
<1>3. QED
  BY <1>1, <1>2, LenProperties DEF Object

(* The counter wraps to what is at most the length of the table. *)
LEMMA CounterWraps ==
  \A k \in 0..255, m \in Nat : k <= m =>
    (k + 1) % 256 \in 0..255 /\ (k + 1) % 256 <= m + 1
  OBVIOUS

LEMMA FtokType ==
  ASSUME NEW name \in NodeName, NEW n \in 0..255
  PROVE  ftok(name, n) \in NodeName \X (1..255)
<1>1. (IF n > 0 THEN n ELSE 1) \in 1..255
  OBVIOUS
<1>2. QED
  BY <1>1 DEF ftok

LEMMA TypeCreate ==
  ASSUME TypeInv, CreateShm
  PROVE  TypeInv'
<1> DEFINE item == cfg[pos].shm[Len(table) + 1]
           key  == ftok(cfg[pos].name, NextProjId)
           New(id) == [name |-> item.name, id |-> id, size |-> item.size]
<1>1. /\ pc = "shm" /\ pos \in DOMAIN cfg /\ cfg \in Configs /\ table \in Seq(Entry)
      /\ Len(table) \in Nat /\ Len(table) < Len(cfg[pos].shm)
      /\ shm_proj_id \in 0..255 /\ shm_proj_id <= Len(table)
  BY LenProperties DEF CreateShm, TypeInv, SegsType, FileType, Reached
<1>2. /\ pc' = "shm" /\ shm_proj_id' = NextProjId
      /\ UNCHANGED <<cfg, pos, head, list, node_count, known, starts>>
  BY DEF CreateShm
<1>3. NextProjId \in 0..255 /\ NextProjId <= Len(table) + 1
  BY <1>1, CounterWraps DEF NextProjId
<1>4. cfg[pos].name \in NodeName /\ cfg[pos].shm \in Seq(ShmItem) /\ Len(cfg[pos].shm) \in Nat
  BY <1>1, ObjectAt
<1>5. item \in ShmItem
  BY <1>1, <1>4, ElementOfSeq
<1>6. item.name \in ShmName /\ item.size \in Nat
  BY <1>5 DEF ShmItem
<1>7. key \in NodeName \X (1..255)
  BY <1>3, <1>4, FtokType
<1>8. ASSUME NEW id \in Nat
      PROVE  Append(table, New(id)) \in Seq(Entry) /\ Len(Append(table, New(id))) = Len(table) + 1
  <2>1. New(id) \in Entry
    BY <1>6 DEF Entry
  <2> HIDE DEF New
  <2>2. QED
    BY <1>1, <2>1, AppendProperties
<1>9. segs \subseteq [key : NodeName \X (1..255), id : Nat, size : Nat] /\ IsFiniteSet(segs)
  BY DEF TypeInv, SegsType, FileType, Reached
<1> HIDE DEF key
<1>10. CASE CanGet(key, item.size)
  <2>1. /\ segs' = shmget(key, item.size)
        /\ \E s \in segs' : /\ table' = Append(table, New(s.id))
                            /\ data' = Cleared(s.id, item.size)
        /\ unmapped' = unmapped
    BY <1>10, Zenon DEF CreateShm, key
  <2>2. shmget(key, item.size) \subseteq [key : NodeName \X (1..255), id : Nat, size : Nat]
    <3>1. Cardinality(segs) \in Nat
      BY <1>9, FS_CardinalityType
    <3>2. [key |-> key, id |-> Cardinality(segs), size |-> item.size]
            \in [key : NodeName \X (1..255), id : Nat, size : Nat]
      BY <1>6, <1>7, <3>1
    <3>3. QED
      BY <1>9, <3>2, Zenon DEF shmget
  <2>3. IsFiniteSet(shmget(key, item.size))
    BY <1>9, FS_AddElement, Zenon DEF shmget
  <2>4. PICK s \in segs' : table' = Append(table, New(s.id)) /\ data' = Cleared(s.id, item.size)
    BY <2>1
  <2>5. s.id \in Nat
    BY <2>1, <2>2
  <2>6. data' \subseteq data
    BY <2>4 DEF Cleared
  <2>7. table' \in Seq(Entry) /\ Len(table') = Len(table) + 1
    BY <1>8, <2>4, <2>5
  <2>8. QED
    BY <1>1, <1>2, <1>3, <2>1, <2>2, <2>3, <2>6, <2>7 DEF TypeInv, SegsType, FileType, Reached
<1>11. CASE ~CanGet(key, item.size)
  <2>1. segs' = segs /\ data' = data /\ table' = Append(table, New(0)) /\ unmapped' = TRUE
    BY <1>11, Zenon DEF CreateShm, key
  <2>2. table' \in Seq(Entry) /\ Len(table') = Len(table) + 1
    BY <1>8, <2>1
  <2>3. QED
    BY <1>1, <1>2, <1>3, <2>1, <2>2 DEF TypeInv, SegsType, FileType, Reached
<1>12. QED
  BY <1>10, <1>11

LEMMA TypeLink ==
  ASSUME TypeInv, Link
  PROVE  TypeInv'
<1>1. /\ pos \in DOMAIN cfg /\ cfg \in Configs /\ ~WrongFirst /\ node_count \in Nat
      /\ shm_proj_id \in 0..255 /\ shm_proj_id <= Len(table) /\ table \in Seq(Entry)
      /\ list \in Seq(Nat \ {0}) /\ pos \in Nat
  BY DEF Link, TypeInv, SegsType, FileType, Reached
<1>2. /\ pc = "link" /\ pc' = "parse" /\ pos' = pos + 1 /\ node_count' = node_count + 1
      /\ UNCHANGED <<segs, data, cfg, shm_proj_id, table, unmapped, known, starts>>
  BY DEF Link
<1>3. cfg[pos].name \in NodeName /\ cfg[pos].id \in Nat /\ Len(cfg) \in Nat /\ pos \in 1..Len(cfg)
  BY <1>1, ObjectAt
<1>4. pos' \in 1..(Len(cfg') + 1) /\ node_count' \in Nat
  BY <1>1, <1>2, <1>3
<1>5. CASE cfg[pos].id = 0
  <2> DEFINE h == [name |-> cfg[pos].name, table |-> table, shm_node_num |-> shm_proj_id]
  <2>1. h \in HeadNode /\ h.table = table /\ h.shm_node_num = shm_proj_id
    BY <1>1, <1>3 DEF HeadNode
  <2>2. head' = <<h>> /\ list' = <<>>
    BY <1>5 DEF Link
  <2> HIDE DEF h
  <2>3. head' \in Seq(HeadNode) /\ Len(head') = 1 /\ head'[1] = h /\ head' # <<>>
    BY <2>1, <2>2
  <2>4. list' \in Seq(Nat \ {0})
    BY <2>2
  <2>5. QED
    <3>1. SegsType' /\ IsFiniteSet(segs)'
      BY <1>2 DEF TypeInv, SegsType
    <3>2. FileType'
      BY <1>2, <1>4, <2>3, <2>4 DEF TypeInv, FileType
    <3>3. Reached'
      BY <1>1, <1>2, <2>1, <2>3 DEF TypeInv, Reached
    <3>4. QED
      BY <3>1, <3>2, <3>3 DEF TypeInv
<1>6. CASE cfg[pos].id # 0
  <2>1. head' = head /\ list' = Append(list, cfg[pos].id)
    BY <1>6 DEF Link, Linked
  <2>2. head # <<>>
    BY <1>1, <1>6 DEF WrongFirst, TypeInv, Reached
  <2>3. list' \in Seq(Nat \ {0})
    BY <1>1, <1>3, <1>6, <2>1, AppendProperties
  <2>4. QED
    <3>1. SegsType' /\ IsFiniteSet(segs)'
      BY <1>2 DEF TypeInv, SegsType
    <3>2. FileType'
      BY <1>2, <1>4, <2>1, <2>2, <2>3 DEF TypeInv, FileType
    <3>3. Reached'
      BY <1>2, <2>1, <2>2 DEF TypeInv, Reached
    <3>4. QED
      BY <3>1, <3>2, <3>3 DEF TypeInv
<1>7. QED
  BY <1>5, <1>6

LEMMA TypeStep == TypeInv /\ [Next]_vars => TypeInv'
<1> SUFFICES ASSUME TypeInv, [Next]_vars PROVE TypeInv'
  OBVIOUS
<1>1. ASSUME NEW c \in Configs, Start(c) PROVE TypeInv'
  <2>1. c \in Seq(Object) /\ Len(c) \in Nat /\ 1 \in 1..(Len(c) + 1)
    BY StartupAssumption, LenProperties
  <2>2. SegsType' /\ IsFiniteSet(segs)'
    BY <1>1 DEF Start, TypeInv, SegsType
  <2>3. FileType'
    <3>1. table' \in Seq(Entry) /\ head' \in Seq(HeadNode) /\ Len(head') <= 1 /\ list' \in Seq(Nat \ {0})
      BY <1>1 DEF Start
    <3>2. /\ pc' \in {"parse", "failed"} /\ cfg' = c /\ pos' = 1 /\ shm_proj_id' = 0 /\ list' = <<>>
          /\ node_count' = 0
      BY <1>1 DEF Start
    <3>3. unmapped' \in BOOLEAN
      BY <1>1, Zenon DEF Start
    <3>4. QED
      BY <2>1, <3>1, <3>2, <3>3 DEF FileType
  <2>4. Reached'
    BY <1>1, <2>2 DEF Start, TypeInv, SegsType, Reached
  <2>5. QED
    BY <2>2, <2>3, <2>4 DEF TypeInv
<1>2. CASE Parse
  <2>1. cfg \in Seq(Object) /\ pos \in DOMAIN cfg
    BY <1>2, StartupAssumption, LenProperties DEF Parse, TypeInv, SegsType, FileType, Reached
  <2>2. QED
    BY <1>2, <2>1 DEF Parse, TypeInv, SegsType, FileType, Reached
<1>3. CASE CreateShm
  BY <1>3, TypeCreate
<1>4. CASE Link
  BY <1>4, TypeLink
<1>5. CASE ShmEnd \/ LinkExit \/ Stop \/ LoadEnd
  <2>1. UNCHANGED <<segs, data, loadVars, known, starts>> /\ pc' \in {"link", "failed", "down", "ready"}
    BY <1>5 DEF ShmEnd, LinkExit, Stop, LoadEnd
  <2>2. /\ pc' = "link" => pc = "shm"
        /\ pc' = "ready" => pc = "parse" /\ head # <<>>
        /\ pc' = "failed" => pc \in {"parse", "link"}
    BY <1>5 DEF ShmEnd, LinkExit, Stop, LoadEnd
  <2>3. SegsType' /\ IsFiniteSet(segs)'
    BY <2>1 DEF TypeInv, SegsType
  <2>4. FileType'
    BY <2>1 DEF loadVars, TypeInv, FileType
  <2>5. Reached'
    BY <2>1, <2>2 DEF loadVars, TypeInv, Reached
  <2>6. QED
    BY <2>3, <2>4, <2>5 DEF TypeInv
<1>6. CASE Learn
  <2>1. /\ cfg \in Configs /\ starts # 0 /\ head # <<>> /\ head \in Seq(HeadNode)
        /\ head[1].shm_node_num <= Len(head[1].table)
    BY <1>6 DEF Learn, TypeInv, SegsType, FileType, Reached
  <2>2. head[1] \in HeadNode
    BY <2>1, EmptySeq, LenProperties, ElementOfSeq
  <2>3. /\ head[1].table \in Seq(Entry) /\ head[1].shm_node_num \in 0..255
        /\ Len(head[1].table) \in Nat
    BY <2>2, LenProperties DEF HeadNode
  <2>4. ASSUME NEW i \in 1..head[1].shm_node_num
        PROVE  head[1].table[i].name \in ShmName /\ head[1].table[i].id \in Nat
    <3>1. i \in 1..Len(head[1].table)
      <4>1. \A n \in 0..255, l \in Nat : n <= l => \A k \in 1..n : k \in 1..l
        OBVIOUS
      <4>2. QED
        BY <2>1, <2>3, <4>1, Zenon
    <3>2. head[1].table[i] \in Entry
      BY <2>3, <3>1, ElementOfSeq
    <3>3. QED
      BY <3>2 DEF Entry
  <2>5. \A k \in known' : k.cfg \in Configs /\ k.name \in ShmName /\ k.id \in Nat
    BY <1>6, <2>1, <2>4 DEF Learn, TypeInv, SegsType, FileType, Reached
  <2>6. QED
    BY <1>6, <2>1, <2>5 DEF Learn, loadVars, TypeInv, SegsType, FileType, Reached
<1>7. CASE Write
  <2>1. UNCHANGED <<segs, pc, loadVars, known, starts>> /\ starts \in Nat \ {0}
    BY <1>7 DEF Write, TypeInv, SegsType, FileType, Reached
  <2>2. PICK s \in segs : data' = {d \in data : d[1] # s.id} \cup {<<s.id, u, starts>> : u \in 1..s.size}
    BY <1>7 DEF Write
  <2>3. s.id \in Nat /\ s.size \in Nat
    BY DEF TypeInv, SegsType, FileType, Reached
  <2>4. data' \subseteq Nat \X (Nat \ {0}) \X (Nat \ {0})
    BY <2>1, <2>2, <2>3 DEF TypeInv, SegsType, FileType, Reached
  <2>5. QED
    BY <2>1, <2>4 DEF loadVars, TypeInv, SegsType, FileType, Reached
<1>8. CASE UNCHANGED vars
  BY <1>8 DEF vars, loadVars, TypeInv, SegsType, FileType, Reached
<1>9. QED
  BY <1>1, <1>2, <1>3, <1>4, <1>5, <1>6, <1>7, <1>8 DEF Next, BrokerStep

LEMMA TypeInvariant == Spec => []TypeInv
<1>1. Init => TypeInv
  <2>1. Init => SegsType /\ IsFiniteSet(segs) /\ Reached
    BY FS_EmptySet DEF Init, SegsType, Reached
  <2>2. Init => unmapped \in BOOLEAN
    BY Zenon DEF Init
  <2>3. Init => FileType
    BY <2>2 DEF Init, FileType
  <2>4. QED
    BY <2>1, <2>3 DEF TypeInv
<1>2. QED
  BY <1>1, TypeStep, PTL DEF Spec

(* Every variable keeps its type, and no node is listed without a head, in *)
(* every configuration and through every kill and restart.                 *)
THEOREM StartupTypes == Spec => []StartupTypeOK
<1>1. TypeInv => StartupTypeOK
  BY DEF TypeInv, StartupTypeOK
<1>2. QED
  BY <1>1, TypeInvariant, PTL

-----------------------------------------------------------------------------
(* The memset.  An entry made during this start holds only what was        *)
(* written after it; later entries and the head's table inherit that.      *)

ClearIn(t) ==
  \A i \in DOMAIN t : \A d \in data : (d[1] = t[i].id /\ d[2] <= t[i].size) => d[3] = starts

ClearInv ==
  /\ pc \in {"shm", "link"} /\ ~unmapped => ClearIn(table)
  /\ head # <<>> /\ ~unmapped => ClearIn(head[1].table)

LEMMA ClearCreate ==
  ASSUME TypeInv, ClearInv, CreateShm
  PROVE  ClearInv'
<1> DEFINE item == cfg[pos].shm[Len(table) + 1]
           New(id) == [name |-> item.name, id |-> id, size |-> item.size]
<1>1. /\ pc = "shm" /\ pc' = "shm" /\ head' = head /\ starts' = starts
      /\ table \in Seq(Entry) /\ Len(table) \in Nat
  BY LenProperties DEF CreateShm, TypeInv, FileType
<1>2. CASE unmapped'
  BY <1>2 DEF ClearInv
<1>3. CASE ~unmapped'
  <2>1. /\ ~unmapped
        /\ \E s \in segs' : table' = Append(table, New(s.id)) /\ data' = Cleared(s.id, item.size)
    <3>1. \/ /\ \E s \in segs' : table' = Append(table, New(s.id)) /\ data' = Cleared(s.id, item.size)
             /\ unmapped' = unmapped
          \/ unmapped' = TRUE
      BY Zenon DEF CreateShm
    <3>2. QED
      BY <1>3, <3>1
  <2>2. PICK s \in segs' : table' = Append(table, New(s.id)) /\ data' = Cleared(s.id, item.size)
    BY <2>1
  <2>3. data' \subseteq data /\ \A d \in data' : ~(d[1] = s.id /\ d[2] <= item.size)
    <3>1. \A d \in data : d[2] \in Nat
      BY DEF TypeInv, SegsType
    <3>2. item.size \in Nat
      <4>1. pos \in DOMAIN cfg /\ cfg \in Configs /\ Len(table) < Len(cfg[pos].shm)
        BY <1>1 DEF CreateShm, TypeInv, Reached
      <4>2. cfg[pos].shm \in Seq(ShmItem) /\ Len(cfg[pos].shm) \in Nat
        BY <4>1, ObjectAt
      <4>3. item \in ShmItem
        BY <1>1, <4>1, <4>2, ElementOfSeq
      <4>4. QED
        BY <4>3 DEF ShmItem
    <3>3. QED
      BY <2>2, <3>1, <3>2 DEF Cleared
  <2>4. ClearIn(table)'
    <3> SUFFICES ASSUME NEW i \in DOMAIN table', NEW d \in data',
                        d[1] = table'[i].id, d[2] <= table'[i].size
                 PROVE  d[3] = starts
      BY <1>1 DEF ClearIn
    <3>1. (i \in DOMAIN table /\ table'[i] = table[i]) \/ table'[i] = New(s.id)
      BY <1>1, <2>2
    <3>2. table'[i] # New(s.id)
      BY <2>3
    <3>3. QED
      BY <1>1, <2>1, <2>3, <3>1, <3>2 DEF ClearInv, ClearIn
  <2>5. QED
    BY <1>1, <2>1, <2>3, <2>4 DEF ClearInv, ClearIn
<1>4. QED
  BY <1>2, <1>3

LEMMA ClearStep ==
  TypeInv /\ ClearInv /\ [Next]_vars => ClearInv'
<1> SUFFICES ASSUME TypeInv, ClearInv, [Next]_vars PROVE ClearInv'
  OBVIOUS
<1>1. ASSUME NEW c \in Configs, Start(c) PROVE ClearInv'
  BY <1>1 DEF Start, ClearInv
<1>2. CASE Parse
  BY <1>2 DEF Parse, ClearInv, ClearIn
<1>3. CASE CreateShm
  BY <1>3, ClearCreate
<1>4. CASE Link
  <2>1. /\ pc = "link" /\ pc' = "parse" /\ UNCHANGED <<data, table, unmapped, starts>>
        /\ head' = head \/ (head'[1]).table = table
    BY <1>4 DEF Link
  <2>2. QED
    BY <2>1 DEF ClearInv, ClearIn
<1>5. CASE ShmEnd \/ LinkExit \/ LoadEnd \/ Stop \/ Learn
  <2>1. UNCHANGED <<data, loadVars, starts>> /\ (pc' \in {"shm", "link"} => pc = "shm")
    BY <1>5 DEF ShmEnd, LinkExit, LoadEnd, Stop, Learn
  <2>2. QED
    BY <2>1 DEF loadVars, ClearInv, ClearIn
<1>6. CASE Write
  <2>1. UNCHANGED <<pc, loadVars, starts>> /\ \A d \in data' : d \in data \/ d[3] = starts
    BY <1>6 DEF Write
  <2>2. QED
    BY <2>1 DEF loadVars, ClearInv, ClearIn
<1>7. CASE UNCHANGED vars
  BY <1>7 DEF vars, loadVars, ClearInv, ClearIn
<1>8. QED
  BY <1>1, <1>2, <1>3, <1>4, <1>5, <1>6, <1>7 DEF Next, BrokerStep

(* A broker that is ready and could create its segments hands out no data  *)
(* of an earlier start in the part of them that the configuration asks     *)
(* for: the memset of init_shm, also over segments that a killed broker or *)
(* another configuration left.                                             *)
THEOREM HandsOutClearSegments == Spec => []StartsClear
<1>1. Init => ClearInv
  BY DEF Init, ClearInv
<1>2. TypeInv /\ ClearInv => StartsClear
  BY DEF TypeInv, Reached, ClearInv, ClearIn, StartsClear
<1>3. QED
  BY <1>1, <1>2, TypeInvariant, ClearStep, PTL DEF Spec

-----------------------------------------------------------------------------
(* What is read of the file, and what clients know of it.                  *)

(* n is where reading the file c ends. *)
ReadTo(c, n) ==
  n \in 0..Len(c) /\ (\A i \in 1..n : c[i].valid) /\ (n < Len(c) => ~c[n + 1].valid)

(* Object h is the last with id 0 of the first n. *)
HeadAt(c, h, n) == h \in 1..n /\ c[h].id = 0 /\ \A j \in (h + 1)..n : c[j].id # 0

Follow(c, h, n) == [i \in 1..(n - h) |-> c[h + i].id]

(* The table t is named after the objects of "ih-shm". *)
Named(t, shm) == Len(t) <= Len(shm) /\ \A i \in DOMAIN t : t[i].name = shm[i].name

HeadOf(h) ==
  /\ HeadAt(cfg, h, pos - 1)
  /\ head[1].name = cfg[h].name
  /\ Len(head[1].table) = Len(cfg[h].shm) /\ Named(head[1].table, cfg[h].shm)
  /\ list = Follow(cfg, h, pos - 1)

FileInv ==
  pc # "down" =>
    /\ \A i \in 1..(pos - 1) : cfg[i].valid
    /\ pc \in {"shm", "link"} => cfg[pos].valid /\ Named(table, cfg[pos].shm)
    /\ pc = "link" => Len(table) = Len(cfg[pos].shm)
    /\ node_count = pos - 1
    /\ pc = "ready" => ReadTo(cfg, pos - 1)
    /\ head # <<>> => \E h \in 1..(pos - 1) : HeadOf(h)

(* id is the segment of a key: the name of the head of the file c, and a   *)
(* place in the head's "ih-shm" with the name given.                       *)
SegmentOf(c, name, id) ==
  \E n \in 0..Len(c) : \E h \in 1..n :
    /\ ReadTo(c, n) /\ HeadAt(c, h, n)
    /\ \E i \in DOMAIN c[h].shm :
         /\ name = c[h].shm[i].name
         /\ \E s \in segs : s.key = <<c[h].name, i>> /\ s.id = id

KnownInv == \A k \in known : k.ok => SegmentOf(k.cfg, k.name, k.id)

LEMMA ReadOnce ==
  ASSUME NEW c, Len(c) \in Nat, NEW n, NEW m, ReadTo(c, n), ReadTo(c, m)
  PROVE  n = m
<1>1. n \in 0..Len(c) /\ m \in 0..Len(c)
  BY DEF ReadTo
<1>2. ~(n < m)
  <2> SUFFICES ASSUME n < m PROVE FALSE
    OBVIOUS
  <2>1. n + 1 \in 1..m /\ n < Len(c)
    BY <1>1
  <2>2. QED
    BY <2>1 DEF ReadTo
<1>3. ~(m < n)
  <2> SUFFICES ASSUME m < n PROVE FALSE
    OBVIOUS
  <2>1. m + 1 \in 1..n /\ m < Len(c)
    BY <1>1
  <2>2. QED
    BY <2>1 DEF ReadTo
<1>4. QED
  BY <1>1, <1>2, <1>3

LEMMA HeadOnce ==
  ASSUME NEW c, NEW n \in Nat, NEW h, NEW g, HeadAt(c, h, n), HeadAt(c, g, n)
  PROVE  h = g
<1>1. h \in 1..n /\ g \in 1..n /\ c[h].id = 0 /\ c[g].id = 0
  BY DEF HeadAt
<1>2. h < g => g \in (h + 1)..n
  BY <1>1
<1>3. g < h => h \in (g + 1)..n
  BY <1>1
<1>4. QED
  BY <1>1, <1>2, <1>3 DEF HeadAt

(* Reading one more object. *)
LEMMA FollowGrows ==
  ASSUME NEW c, NEW n \in Nat, NEW h \in 1..n
  PROVE  Append(Follow(c, h, n), c[n + 1].id) = Follow(c, h, n + 1)
<1> DEFINE f == Follow(c, h, n)
<1>1. n - h \in Nat /\ (n + 1) - h = (n - h) + 1 /\ h + ((n - h) + 1) = n + 1
  OBVIOUS
<1>2. DOMAIN f = 1..(n - h) /\ Len(f) = n - h
  BY <1>1 DEF Follow
<1>3. QED
  BY <1>1, <1>2 DEF Follow

LEMMA FileCreate ==
  ASSUME TypeInv, FileInv, CreateShm
  PROVE  FileInv'
<1> DEFINE shm == cfg[pos].shm
           item == shm[Len(table) + 1]
           New(id) == [name |-> item.name, id |-> id, size |-> item.size]
<1>1. /\ pc = "shm" /\ pc' = "shm" /\ UNCHANGED <<cfg, pos, head, list, node_count>>
      /\ table \in Seq(Entry) /\ Len(table) \in Nat /\ Len(table) < Len(shm)
  BY LenProperties DEF CreateShm, TypeInv, FileType
<1>2. PICK id : table' = Append(table, New(id))
  <2>1. \E id : table' = Append(table, New(id))
    BY Zenon DEF CreateShm
  <2>2. QED
    BY <2>1
<1>3. Len(shm) \in Nat
  BY <1>1, ObjectAt DEF TypeInv, Reached
<1>4. /\ Len(table') = Len(table) + 1
      /\ \A i \in DOMAIN table' : (i \in DOMAIN table /\ table'[i] = table[i])
                                \/ (i = Len(table) + 1 /\ table'[i] = New(id))
  BY <1>1, <1>2
<1>5. New(id).name = item.name
  OBVIOUS
<1>6. \A i \in DOMAIN table' : table'[i].name = shm[i].name
  <2> HIDE DEF New
  <2>1. \A i \in DOMAIN table : table[i].name = shm[i].name
    BY <1>1 DEF FileInv, Named
  <2>2. QED
    BY <1>4, <1>5, <2>1
<1>7. Named(table', shm)
  BY <1>1, <1>3, <1>4, <1>6 DEF Named
<1>8. QED
  BY <1>1, <1>7 DEF FileInv, HeadOf

LEMMA FileLink ==
  ASSUME TypeInv, FileInv, Link
  PROVE  FileInv'
<1>1. /\ pc = "link" /\ pc' = "parse" /\ pos' = pos + 1 /\ UNCHANGED <<cfg, table>>
      /\ node_count' = node_count + 1 /\ node_count = pos - 1 /\ ~WrongFirst
      /\ pos \in Nat \ {0} /\ cfg[pos].valid
  BY DEF Link, TypeInv, FileType, FileInv
<1>2. \A i \in 1..(pos' - 1) : cfg[i].valid
  <2>1. \A i \in 1..(pos' - 1) : i \in 1..(pos - 1) \/ i = pos
    BY <1>1
  <2>2. QED
    BY <1>1, <2>1 DEF FileInv
<1>3. \E h \in 1..(pos' - 1) : HeadOf(h)'
  <2>1. CASE cfg[pos].id = 0
    <3>1. head' = <<[name |-> cfg[pos].name, table |-> table, shm_node_num |-> shm_proj_id]>> /\ list' = <<>>
      BY <2>1 DEF Link
    <3>2. (head'[1]).name = cfg[pos].name /\ (head'[1]).table = table
      BY <3>1
    <3>3. Len(table) = Len(cfg[pos].shm) /\ Named(table, cfg[pos].shm)
      BY <1>1 DEF FileInv
    <3>4. pos' - 1 = pos /\ pos \in 1..(pos' - 1) /\ (pos + 1)..pos = {} /\ 1..(pos - pos) = {}
      BY <1>1
    <3>5. HeadAt(cfg, pos, pos' - 1)
      BY <2>1, <3>4 DEF HeadAt
    <3>6. Follow(cfg, pos, pos' - 1) = <<>>
      BY <3>4 DEF Follow
    <3>7. PICK h \in 1..(pos' - 1) : h = pos
      BY <3>4
    <3>8. HeadOf(h)'
      BY <1>1, <3>1, <3>2, <3>3, <3>5, <3>6, <3>7 DEF HeadOf
    <3>9. QED
      BY <3>8
  <2>2. CASE cfg[pos].id # 0
    <3>1. head' = head /\ list' = Append(list, cfg[pos].id)
      BY <2>2 DEF Link, Linked
    <3>2. head # <<>>
      BY <1>1, <2>2 DEF WrongFirst, TypeInv, Reached
    <3>3. PICK h \in 1..(pos - 1) : HeadOf(h)
      BY <1>1, <3>2 DEF FileInv
    <3>4. pos' - 1 = (pos - 1) + 1 /\ h \in 1..(pos' - 1) /\ pos - 1 \in Nat /\ (pos - 1) + 1 = pos
      BY <1>1
    <3>5. HeadAt(cfg, h, pos' - 1)
      BY <1>1, <2>2, <3>3 DEF HeadOf, HeadAt
    <3>6. list' = Follow(cfg, h, pos' - 1)
      BY <3>1, <3>3, <3>4, FollowGrows DEF HeadOf
    <3>7. HeadOf(h)'
      BY <1>1, <3>1, <3>3, <3>5, <3>6 DEF HeadOf
    <3>8. QED
      BY <3>4, <3>7
  <2>3. QED
    BY <2>1, <2>2
<1>4. QED
  BY <1>1, <1>2, <1>3 DEF FileInv

LEMMA FileStep == TypeInv /\ FileInv /\ [Next]_vars => FileInv'
<1> SUFFICES ASSUME TypeInv, FileInv, [Next]_vars PROVE FileInv'
  OBVIOUS
<1>1. ASSUME NEW c \in Configs, Start(c) PROVE FileInv'
  <2>1. 1..(1 - 1) = {}
    OBVIOUS
  <2>2. QED
    BY <1>1, <2>1 DEF Start, FileInv
<1>2. CASE Parse
  <2>1. pos \in DOMAIN cfg /\ cfg \in Configs
    BY <1>2, StartupAssumption, LenProperties DEF Parse, TypeInv, Reached, FileType
  <2>2. Named(<<>>, cfg[pos].shm)
    BY <2>1, ObjectAt DEF Named
  <2>3. QED
    BY <1>2, <2>2 DEF Parse, FileInv, HeadOf
<1>3. CASE CreateShm
  BY <1>3, FileCreate
<1>4. CASE Link
  BY <1>4, FileLink
<1>5. CASE LoadEnd
  <2>1. pos \in 1..(Len(cfg) + 1) /\ Len(cfg) \in Nat
    BY StartupAssumption, LenProperties DEF TypeInv, FileType
  <2>2. pos - 1 \in 0..Len(cfg) /\ (pos - 1 < Len(cfg) => pos <= Len(cfg)) /\ (pos - 1) + 1 = pos
    BY <2>1
  <2>3. ReadTo(cfg, pos - 1)
    BY <1>5, <2>1, <2>2 DEF LoadEnd, FileInv, ReadTo
  <2>4. QED
    BY <1>5, <2>3 DEF LoadEnd, loadVars, FileInv, HeadOf
<1>6. CASE ShmEnd
  <2>1. Len(table) = Len(cfg[pos].shm)
    BY <1>6 DEF ShmEnd
  <2>2. QED
    BY <1>6, <2>1 DEF ShmEnd, loadVars, FileInv, HeadOf
<1>7. CASE LinkExit \/ Stop \/ Learn \/ Write \/ UNCHANGED vars
  <2>1. UNCHANGED loadVars /\ (pc' = pc \/ pc' = "down" \/ (pc = "link" /\ pc' = "failed"))
    BY <1>7 DEF LinkExit, Stop, Learn, Write, vars
  <2>2. QED
    BY <2>1 DEF loadVars, FileInv, HeadOf
<1>8. QED
  BY <1>1, <1>2, <1>3, <1>4, <1>5, <1>6, <1>7 DEF Next, BrokerStep

LEMMA FileInvariant == Spec => []FileInv
<1>1. Init => FileInv
  BY DEF Init, FileInv
<1>2. QED
  BY <1>1, TypeInvariant, FileStep, PTL DEF Spec

(* Once the broker is ready, its node list is what the file says: the head *)
(* is the last object with id 0 that is read, the nodes follow in the      *)
(* order of the file, and reading ends at the first object that does not   *)
(* parse.                                                                  *)
THEOREM ReadsTheFile == Spec => []ListFromFile
<1>1. TypeInv /\ FileInv => ListFromFile
  <2> SUFFICES ASSUME TypeInv, FileInv, pc = "ready"
               PROVE  /\ head[1].name = cfg[LastHead].name
                      /\ list = [i \in 1..(ReadCount - LastHead) |-> cfg[LastHead + i].id]
    BY DEF ListFromFile
  <2> DEFINE n == pos - 1
  <2>1. ReadTo(cfg, n) /\ Len(cfg) \in Nat /\ n \in Nat
    BY StartupAssumption, LenProperties DEF FileInv, TypeInv, FileType
  <2>2. PICK h \in 1..n : HeadOf(h)
    BY DEF TypeInv, Reached, FileInv
  <2> HIDE DEF n
  <2>3. ReadCount = n
    <3>1. \A m : ReadTo(cfg, m) => m = n
      BY <2>1, ReadOnce
    <3>2. ReadCount = CHOOSE m \in 0..Len(cfg) : ReadTo(cfg, m)
      BY DEF ReadCount, ReadTo
    <3>3. QED
      BY <2>1, <3>1, <3>2 DEF ReadTo
  <2>4. HeadAt(cfg, h, n) /\ list = Follow(cfg, h, n)
    BY <2>2 DEF HeadOf, n
  <2>5. LastHead = h
    <3>1. \A g : HeadAt(cfg, g, n) => g = h
      BY <2>1, <2>4, HeadOnce
    <3>2. LastHead = CHOOSE g \in 1..n : HeadAt(cfg, g, n)
      BY <2>3 DEF LastHead, HeadAt
    <3>3. QED
      BY <2>4, <3>1, <3>2 DEF HeadAt
  <2>6. QED
    BY <2>2, <2>3, <2>4, <2>5 DEF HeadOf, Follow
<1>2. QED
  BY <1>1, TypeInvariant, FileInvariant, PTL

LEMMA SegmentStays ==
  ASSUME segs \subseteq segs', NEW c, NEW name, NEW id, SegmentOf(c, name, id)
  PROVE  SegmentOf(c, name, id)'
  BY Zenon DEF SegmentOf

LEMMA KnownLearn ==
  ASSUME SmallTables, TypeInv, StartInv, FileInv, KnownInv, Learn
  PROVE  KnownInv'
<1> DEFINE t == head[1].table
           n == pos - 1
<1>1. pc = "ready" /\ segs' = segs /\ cfg \in Configs /\ head # <<>>
  BY DEF Learn, TypeInv, Reached
<1>2. known' = known \cup {[cfg |-> cfg, name |-> t[i].name, id |-> t[i].id, ok |-> ~unmapped] :
                             i \in 1..head[1].shm_node_num}
  BY DEF Learn
<1>3. PICK h \in 1..n : HeadOf(h)
  BY <1>1 DEF FileInv
<1>4. ReadTo(cfg, n) /\ n \in 0..Len(cfg)
  BY <1>1 DEF FileInv, ReadTo
<1>5. /\ HeadAt(cfg, h, n) /\ head[1].name = cfg[h].name
      /\ Len(t) = Len(cfg[h].shm) /\ \A i \in DOMAIN t : t[i].name = cfg[h].shm[i].name
  BY <1>3 DEF HeadOf, Named
<1>6. head[1].shm_node_num = Len(t) /\ (~unmapped => Backed(segs, head[1].name, t))
  BY <1>1 DEF StartInv, HeadInv
<1>7. DOMAIN t = 1..Len(t) /\ DOMAIN cfg[h].shm = 1..Len(cfg[h].shm)
  <2>1. t \in Seq(Entry)
    <3>1. head[1] \in HeadNode
      BY <1>1, EmptySeq, LenProperties, ElementOfSeq DEF TypeInv, FileType
    <3>2. QED
      BY <3>1 DEF HeadNode
  <2>2. h \in DOMAIN cfg
    BY <1>1, <1>3, <1>4, StartupAssumption, LenProperties
  <2>3. cfg[h].shm \in Seq(ShmItem)
    BY <1>1, <2>2, ObjectAt
  <2>4. QED
    BY <2>1, <2>3, LenProperties
<1> HIDE DEF t, n
<1>8. ASSUME ~unmapped, NEW i \in 1..head[1].shm_node_num
      PROVE  /\ i \in DOMAIN cfg[h].shm /\ t[i].name = cfg[h].shm[i].name
             /\ \E s \in segs : s.key = <<cfg[h].name, i>> /\ s.id = t[i].id
  BY <1>5, <1>6, <1>7, <1>8 DEF Backed
<1>9. ASSUME NEW k \in known', k \notin known, k.ok
      PROVE  SegmentOf(k.cfg, k.name, k.id)
  <2>1. PICK i \in 1..head[1].shm_node_num :
          k = [cfg |-> cfg, name |-> t[i].name, id |-> t[i].id, ok |-> ~unmapped]
    BY <1>2, <1>9, Zenon
  <2>2. k.cfg = cfg /\ k.name = t[i].name /\ k.id = t[i].id /\ k.ok = ~unmapped
    BY <2>1, Zenon
  <2>3. ~unmapped
    BY <1>9, <2>2, Zenon
  <2>4. SegmentOf(cfg, t[i].name, t[i].id)
    BY <1>4, <1>5, <1>8, <2>3 DEF SegmentOf
  <2>5. QED
    BY <2>2, <2>4, Zenon
<1>10. ASSUME NEW k \in known', k.ok PROVE SegmentOf(k.cfg, k.name, k.id)
  <2>1. CASE k \in known
    BY <1>10, <2>1, Zenon DEF KnownInv
  <2>2. CASE k \notin known
    BY <1>9, <1>10, <2>2, Zenon
  <2>3. QED
    BY <2>1, <2>2
<1>11. ASSUME NEW k \in known', k.ok PROVE SegmentOf(k.cfg, k.name, k.id)'
  BY <1>1, <1>10, <1>11, SegmentStays
<1>12. QED
  BY <1>11, Zenon DEF KnownInv

LEMMA KnownStep ==
  ASSUME SmallTables
  PROVE  TypeInv /\ StartInv /\ FileInv /\ KnownInv /\ [Next]_vars => KnownInv'
<1> SUFFICES ASSUME TypeInv, StartInv, FileInv, KnownInv, [Next]_vars PROVE KnownInv'
  OBVIOUS
<1>1. CASE Learn
  BY <1>1, KnownLearn
<1>2. CASE ~Learn
  <2>1. known' = known
    BY <1>2, Zenon DEF Next, BrokerStep, Start, Parse, CreateShm, ShmEnd, Link, LinkExit, LoadEnd, Stop, Write, vars
  <2>2. segs \subseteq segs'
    <3>1. CASE CreateShm
      BY <3>1, Zenon DEF CreateShm, shmget
    <3>2. CASE ~CreateShm
      BY <1>2, <3>2, Zenon DEF Next, BrokerStep, Start, Parse, ShmEnd, Link, LinkExit, LoadEnd, Stop, Write, vars
    <3>3. QED
      BY <3>1, <3>2
  <2>3. ASSUME NEW k \in known', k.ok PROVE SegmentOf(k.cfg, k.name, k.id)'
    <3>1. SegmentOf(k.cfg, k.name, k.id)
      BY <2>1, <2>3, Zenon DEF KnownInv
    <3>2. QED
      BY <2>2, <3>1, SegmentStays
  <2>4. QED
    BY <2>3, Zenon DEF KnownInv
<1>3. QED
  BY <1>1, <1>2

(* Where every segment could be created, what a client learnt under a file *)
(* names the same segments after the broker was killed, at any point, and  *)
(* started again with that file, whatever was started in between: the key  *)
(* of a segment is made of the node's name and of its place in "ih-shm",   *)
(* and the kernel keeps the segment of a key.                              *)
THEOREM KeepsIds ==
  ASSUME SmallTables
  PROVE  Spec => []StableIds
<1>1. TypeInv /\ StartInv /\ FileInv /\ KnownInv => StableIds
  <2> SUFFICES ASSUME TypeInv, StartInv, FileInv, KnownInv, pc = "ready", ~unmapped,
                      NEW k \in known, k.cfg = cfg, k.ok
               PROVE  \E i \in DOMAIN head[1].table :
                        head[1].table[i].name = k.name /\ head[1].table[i].id = k.id
    BY DEF StableIds
  <2>1. PICK n \in 0..Len(cfg) : \E h \in 1..n :
          /\ ReadTo(cfg, n) /\ HeadAt(cfg, h, n)
          /\ \E i \in DOMAIN cfg[h].shm :
               /\ k.name = cfg[h].shm[i].name
               /\ \E s \in segs : s.key = <<cfg[h].name, i>> /\ s.id = k.id
    <3>1. SegmentOf(cfg, k.name, k.id)
      BY Zenon DEF KnownInv
    <3>2. QED
      BY <3>1, Zenon DEF SegmentOf
  <2>2. PICK h \in 1..n : /\ ReadTo(cfg, n) /\ HeadAt(cfg, h, n)
                         /\ \E i \in DOMAIN cfg[h].shm :
                              /\ k.name = cfg[h].shm[i].name
                              /\ \E s \in segs : s.key = <<cfg[h].name, i>> /\ s.id = k.id
    BY <2>1
  <2>3. ReadTo(cfg, pos - 1) /\ head # <<>> /\ \E g \in 1..(pos - 1) : HeadOf(g)
    BY DEF TypeInv, Reached, FileInv
  <2>4. PICK g \in 1..(pos - 1) : HeadOf(g)
    BY <2>3
  <2>5. Len(cfg) \in Nat /\ cfg \in Configs
    BY StartupAssumption, LenProperties DEF TypeInv, Reached
  <2>6. n = pos - 1
    BY <2>2, <2>3, <2>5, ReadOnce
  <2>7. g = h
    BY <2>2, <2>4, <2>5, <2>6, HeadOnce DEF HeadOf
  <2>8. PICK i \in DOMAIN cfg[h].shm : k.name = cfg[h].shm[i].name
                                     /\ \E s \in segs : s.key = <<cfg[h].name, i>> /\ s.id = k.id
    BY <2>2
  <2>9. PICK s \in segs : s.key = <<cfg[h].name, i>> /\ s.id = k.id
    BY <2>8
  <2>10. Backed(segs, cfg[h].name, head[1].table)
    BY <2>3, <2>4, <2>7 DEF StartInv, HeadInv, HeadOf
  <2>11. i \in DOMAIN head[1].table /\ head[1].table[i].name = k.name
    <3>1. head[1].table \in Seq(Entry)
      <4>1. head[1] \in HeadNode
        BY <2>3, EmptySeq, LenProperties, ElementOfSeq DEF TypeInv, FileType
      <4>2. QED
        BY <4>1 DEF HeadNode
    <3>2. cfg[h].shm \in Seq(ShmItem)
      BY <2>2, <2>5, ObjectAt, StartupAssumption, LenProperties
    <3>3. DOMAIN head[1].table = DOMAIN cfg[h].shm
      BY <2>4, <2>7, <3>1, <3>2, LenProperties DEF HeadOf
    <3>4. QED
      BY <2>4, <2>7, <2>8, <3>3 DEF HeadOf, Named
  <2>12. PICK r \in segs : r.key = <<cfg[h].name, i>> /\ r.id = head[1].table[i].id
    BY <2>10, <2>11 DEF Backed
  <2>13. r = s
    BY <2>9, <2>12 DEF StartInv, SegInv
  <2>14. QED
    BY <2>9, <2>11, <2>12, <2>13
<1>2. Init => StartInv /\ KnownInv
  BY StartInit DEF Init, KnownInv
<1>3. StartInv /\ [Next]_vars => StartInv'
  BY StartStep
<1>4. TypeInv /\ StartInv /\ FileInv /\ KnownInv /\ [Next]_vars => KnownInv'
  BY KnownStep
<1>5. QED
  BY <1>1, <1>2, <1>3, <1>4, TypeInvariant, FileInvariant, PTL DEF Spec
=============================================================================
