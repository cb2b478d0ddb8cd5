------------------------------- MODULE Startup -------------------------------
(***************************************************************************)
(* Start of the broker: get_node_start reads the objects of the            *)
(* configuration one after the other into the node list, and init_shm      *)
(* creates the System V segments of an object.  The broker may be killed   *)
(* at any step and started again, with the same or another configuration.  *)
(* The segments outlive it, and so does what clients know of them.         *)
(*                                                                         *)
(* The default build type is Release, in which assert is compiled out, so  *)
(* a segment that cannot be created does not stop the broker.              *)
(*                                                                         *)
(* Operators whose names begin with Mut are wrong forms of the definition  *)
(* that follows them, as in Broker.                                        *)
(***************************************************************************)
EXTENDS Integers, Sequences, FiniteSets

CONSTANTS
  Configs,    \* configuration files, each a sequence of objects, see Object
  NodeName,   \* values of "ih-name"
  ShmName,    \* values of "shm_name"
  ShmMax,     \* segments the kernel allows (SHMMNI)
  MaxStarts   \* starts of the broker

(* A JSON object.  valid is FALSE where the text does not parse.  A missing *)
(* "ih-pid" is id 0, a missing "ih-shm" an empty list.                      *)
ShmItem == [name : ShmName, size : Nat]
Object  == [valid : BOOLEAN, name : NodeName, id : Nat, shm : Seq(ShmItem)]

ASSUME StartupAssumption ==
  /\ Configs \subseteq Seq(Object)
  /\ ShmMax \in Nat /\ MaxStarts \in Nat

VARIABLES
  segs,       \* segments of the kernel: [key, id, size]
  data,       \* what clients wrote: <<id, unit of the segment, start>>
  pc,         \* "down", "parse", "shm", "link", "ready" or "failed"
  cfg,        \* the file being read
  pos,        \* the next object of it
  shm_proj_id,\* init_shm's counter, a uint8_t
  table,      \* shm_node_ptr of the node being built: [name, id, size]
  head,       \* <<>>, or <<[name, table, shm_node_num]>>: head_node and result_node
  list,       \* ids of the nodes after head_node, in list order
  node_count,
  unmapped,   \* history: shm_create returned NULL during this start
  known,      \* history: what clients learnt: [cfg, name, id, ok]
  starts      \* how often the broker was started

loadVars == <<cfg, pos, shm_proj_id, table, head, list, node_count, unmapped>>
vars == <<segs, data, pc, loadVars, known, starts>>

-----------------------------------------------------------------------------
(* System V shared memory. *)

(* A new key for every call, as with IPC_PRIVATE. *)
MutFtok(name, proj_id) == <<name, Cardinality(segs) + 1>>

(* ftok of the directory of a node's name: shm_create passes 1 for a       *)
(* proj_id that is not positive.  Different keys are assumed to differ.    *)
ftok(name, proj_id) == <<name, IF proj_id > 0 THEN proj_id ELSE 1>>

SegsWith(key) == {s \in segs : s.key = key}

(* shmget with IPC_CREAT fails when the segment exists and is smaller than *)
(* size, and when a new one would be empty or one too many.                *)
CanGet(key, size) ==
  \/ \E s \in SegsWith(key) : s.size >= size
  \/ SegsWith(key) = {} /\ size > 0 /\ Cardinality(segs) < ShmMax

(* The segments after a successful shmget; ids are handed out from 0. *)
shmget(key, size) ==
  IF SegsWith(key) # {} THEN segs
  ELSE segs \cup {[key |-> key, id |-> Cardinality(segs), size |-> size]}

-----------------------------------------------------------------------------
(* The broker. *)

(* main calls get_node_start, which reads the file.  When it cannot, it    *)
(* returns NULL, and main dereferences that.                               *)
Start(c) ==
  /\ pc = "down" /\ starts < MaxStarts
  /\ pc' \in {"parse", "failed"} /\ cfg' = c /\ pos' = 1
  /\ shm_proj_id' = 0 /\ table' = <<>> /\ head' = <<>> /\ list' = <<>>
  /\ node_count' = 0 /\ unmapped' = FALSE /\ starts' = starts + 1
  /\ UNCHANGED <<segs, data, known>>

(* cJSON_ParseWithOpts returned an object: get_icehydra_json_node begins.  *)
(* The name is read before "ih-shm", whatever their order in the file.     *)
Parse ==
  /\ pc = "parse" /\ pos <= Len(cfg) /\ cfg[pos].valid
  /\ shm_proj_id' = 0 /\ table' = <<>>
  /\ pc' = "shm"
  /\ UNCHANGED <<segs, data, cfg, pos, head, list, node_count, unmapped, known, starts>>

(* The counter stays where it is. *)
MutNextProjId == 1

NextProjId == (shm_proj_id + 1) % 256

(* No memset. *)
MutCleared(id, size) == data

(* memset over the size the configuration gives, which may be less than    *)
(* that of the segment.                                                    *)
Cleared(id, size) == {d \in data : d[1] # id \/ d[2] > size}

(* One turn of the loop of init_shm.  Where shm_create fails the entry     *)
(* keeps the id 0 that icehydra_shm_t was initialised with.                *)
CreateShm ==
  /\ pc = "shm" /\ Len(table) < Len(cfg[pos].shm)
  /\ shm_proj_id' = NextProjId
  /\ LET item == cfg[pos].shm[Len(table) + 1]
         key  == ftok(cfg[pos].name, NextProjId)
         NewEntry(id) == [name |-> item.name, id |-> id, size |-> item.size]
     IN  \/ /\ CanGet(key, item.size)
            /\ segs' = shmget(key, item.size)
            /\ \E s \in segs' :
                 /\ s.key = key
                 /\ table' = Append(table, NewEntry(s.id))
                 /\ data' = Cleared(s.id, item.size)
            /\ UNCHANGED unmapped
         \/ /\ ~CanGet(key, item.size)
            /\ table' = Append(table, NewEntry(0))
            /\ unmapped' = TRUE
            /\ UNCHANGED <<segs, data>>
  /\ UNCHANGED <<pc, cfg, pos, head, list, node_count, known, starts>>

ShmEnd ==
  /\ pc = "shm" /\ Len(table) = Len(cfg[pos].shm)
  /\ pc' = "link"
  /\ UNCHANGED <<segs, data, loadVars, known, starts>>

(* New nodes go to the front, as with list_add. *)
MutLinked(id) == <<id>> \o list

(* list_add_tail. *)
Linked(id) == Append(list, id)

(* The test on the first node left out. *)
MutWrongFirst == FALSE

(* "First node id should be 0": the process exits, after the segments of   *)
(* the object were created.                                                *)
WrongFirst == node_count = 0 /\ cfg[pos].id # 0

(* The rest of get_node_start's loop: a node with id 0 becomes the head of *)
(* a list of its own, and the nodes read before it are out of reach.       *)
Link ==
  /\ pc = "link" /\ ~WrongFirst
  /\ \/ /\ cfg[pos].id = 0
        /\ head' = <<[name |-> cfg[pos].name, table |-> table, shm_node_num |-> shm_proj_id]>>
        /\ list' = <<>>
     \/ /\ cfg[pos].id # 0
        /\ list' = Linked(cfg[pos].id)
        /\ UNCHANGED head
  /\ node_count' = node_count + 1 /\ pos' = pos + 1
  /\ pc' = "parse"
  /\ UNCHANGED <<segs, data, cfg, shm_proj_id, table, unmapped, known, starts>>

LinkExit ==
  /\ pc = "link" /\ WrongFirst
  /\ pc' = "failed"
  /\ UNCHANGED <<segs, data, loadVars, known, starts>>

(* The end of the text, or what does not parse: the loop ends either way.  *)
(* Without any node, result_node is NULL and is dereferenced.              *)
LoadEnd ==
  /\ pc = "parse"
  /\ \/ pos > Len(cfg)
     \/ pos <= Len(cfg) /\ ~cfg[pos].valid
  /\ pc' = IF head = <<>> THEN "failed" ELSE "ready"
  /\ UNCHANGED <<segs, data, loadVars, known, starts>>

(* The broker is killed, or has ended. *)
Stop ==
  /\ pc # "down"
  /\ pc' = "down"
  /\ UNCHANGED <<segs, data, loadVars, known, starts>>

(* A client has asked for the table: parser_reserve_cmd sends shm_node_num *)
(* entries of it.                                                          *)
Learn ==
  /\ pc = "ready"
  /\ known' = known \cup
       {[cfg |-> cfg, name |-> head[1].table[i].name, id |-> head[1].table[i].id,
         ok |-> ~unmapped] : i \in 1..head[1].shm_node_num}
  /\ UNCHANGED <<segs, data, pc, loadVars, starts>>

(* A client writes to a segment it has attached (ih_get_shm_by_id): to all *)
(* of it, since shm_mmap tells it the size of the segment.                 *)
Write ==
  /\ \E k \in known, s \in segs :
       /\ k.id = s.id
       /\ data' = {d \in data : d[1] # s.id} \cup {<<s.id, u, starts>> : u \in 1..s.size}
  /\ UNCHANGED <<segs, pc, loadVars, known, starts>>

-----------------------------------------------------------------------------
Init ==
  /\ segs = {} /\ data = {} /\ pc = "down" /\ cfg = <<>> /\ pos = 1
  /\ shm_proj_id = 0 /\ table = <<>> /\ head = <<>> /\ list = <<>>
  /\ node_count = 0 /\ unmapped = FALSE /\ known = {} /\ starts = 0

BrokerStep == Parse \/ CreateShm \/ ShmEnd \/ Link \/ LinkExit \/ LoadEnd

Next == BrokerStep \/ Stop \/ Learn \/ Write \/ \E c \in Configs : Start(c)

Spec == Init /\ [][Next]_vars

-----------------------------------------------------------------------------
(* Properties. *)

Entry    == [name : ShmName, id : Nat, size : Nat]
HeadNode == [name : NodeName, table : Seq(Entry), shm_node_num : 0..255]

SegsType ==
  /\ segs \subseteq [key : NodeName \X (1..255), id : Nat, size : Nat]
  /\ data \subseteq Nat \X (Nat \ {0}) \X (Nat \ {0})
  /\ \A k \in known : k.cfg \in Configs /\ k.name \in ShmName /\ k.id \in Nat
  /\ starts \in Nat

FileType ==
  /\ pc \in {"down", "parse", "shm", "link", "ready", "failed"}
  /\ cfg \in Configs \cup {<<>>}
  /\ pos \in 1..(Len(cfg) + 1)
  /\ shm_proj_id \in 0..255
  /\ table \in Seq(Entry)
  /\ head \in Seq(HeadNode) /\ Len(head) <= 1
  /\ list \in Seq(Nat \ {0})
  /\ list # <<>> => head # <<>>
  /\ node_count \in Nat /\ unmapped \in BOOLEAN

(* The types of the variables, and that nodes hang on a head. *)
StartupTypeOK == SegsType /\ FileType

(* If every segment could be created, the entries of the table are         *)
(* different segments, large enough for the size the table tells, whatever *)
(* earlier starts left behind.                                             *)
TableSound ==
  (pc = "ready" /\ ~unmapped) =>
    LET t == head[1].table
    IN  /\ \A i, j \in DOMAIN t : i # j => t[i].id # t[j].id
        /\ \A i \in DOMAIN t : \E s \in segs : s.id = t[i].id /\ s.size >= t[i].size

(* Once the broker is ready, no part of a segment that the configuration   *)
(* asks for holds data that was written before this start.                 *)
StartsClear ==
  (pc = "ready" /\ ~unmapped) =>
    \A i \in DOMAIN head[1].table : \A d \in data :
      (d[1] = head[1].table[i].id /\ d[2] <= head[1].table[i].size) => d[3] = starts

(* What a client learnt about a segment stays true after the broker is     *)
(* killed, even during its start, and started again with the same file.    *)
StableIds ==
  (pc = "ready" /\ ~unmapped) =>
    \A k \in known : (k.cfg = cfg /\ k.ok) =>
      \E i \in DOMAIN head[1].table :
        head[1].table[i].name = k.name /\ head[1].table[i].id = k.id

(* The objects that are read, and where the last list begins. *)
ReadCount == CHOOSE n \in 0..Len(cfg) :
               /\ \A i \in 1..n : cfg[i].valid
               /\ n < Len(cfg) => ~cfg[n + 1].valid

LastHead == CHOOSE i \in 1..ReadCount :
              cfg[i].id = 0 /\ \A j \in (i + 1)..ReadCount : cfg[j].id # 0

(* The node list is what the file says after its last object with id 0, in *)
(* the order of the file, up to the first object that does not parse.      *)
ListFromFile ==
  pc = "ready" =>
    /\ head[1].name = cfg[LastHead].name
    /\ list = [i \in 1..(ReadCount - LastHead) |-> cfg[LastHead + i].id]
=============================================================================
