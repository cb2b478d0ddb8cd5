------------------------------ MODULE ShmQuery ------------------------------
(***************************************************************************)
(* ih_get_shm_infos of the client library (icehydra.c) on one connection:  *)
(* it asks the broker how many shared memory segments there are, then for  *)
(* their table, and picks the answers out of a stream that also carries    *)
(* the broadcasts of other clients.                                        *)
(*                                                                         *)
(* Streams carry frames; of a frame whose send gave up nothing or a Piece  *)
(* is in the stream.  The length of a body is counted in entries of        *)
(* SHM_NODE_T (40 bytes).  Entry i of the table is written i, an entry     *)
(* whose name is empty 0, and an entry overwritten by something else Junk. *)
(***************************************************************************)
EXTENDS Integers, Sequences

CONSTANTS
  ShmNums,    \* numbers of segments the configuration may have
  BufNodes,   \* entries the caller's buffer holds
  WbufNodes,  \* entries that fit behind the header in wbuf; 1 in the code
  BcastLens,  \* lengths of the broadcasts other clients send
  BufCap,     \* frames a socket buffer holds
  MaxBcast,   \* broadcasts relayed to this client
  MaxCall     \* requests the application makes

ASSUME QueryAssumption ==
  /\ ShmNums \subseteq 0..255 /\ BufNodes \in Nat /\ WbufNodes \in Nat
  /\ BcastLens \subseteq 0..255 \cap 0..BufNodes
  /\ BufCap \in Nat \ {0} /\ MaxBcast \in Nat /\ MaxCall \in Nat

IH_RESERVE_CMD_ID_GET_SHM_INFO == 2
IH_RESERVE_CMD_ID_GET_SHM_NUM  == 3
IH_CMD_ID_DEFAULT              == 188

Requests == {IH_RESERVE_CMD_ID_GET_SHM_INFO, IH_RESERVE_CMD_ID_GET_SHM_NUM}
CmdId == Requests \cup {IH_CMD_ID_DEFAULT}

Junk == -1

VARIABLES
  pc,            \* "idle", in the first loop "num", in the second "info", "dead",
                 \* or "lost": the client has lost its place in the stream or
                 \* overrun wbuf, and is followed no further
  client_connfd, \* "open" or "closed" (-1)
  result,        \* what the last call of ih_get_shm_infos returned
  buffer,        \* the caller's buffer
  up,            \* cmdids of requests the broker has not read
  down,          \* frames the client has not read
  peer,          \* "up", or "gone" when the broker has closed its end
  shm_node_num,  \* segments of the broker; 0 when there is no "ih-shm"
  bcasts,        \* broadcasts relayed so far
  longest,       \* length of the longest of them
  unanswered,    \* the broker gave up the answer to the last request for the table
  calls,         \* requests made so far
  asks,          \* those for the table the application made itself
  timeouts,      \* calls that gave up in the first loop
  strays,        \* counts that ih_recv_data handed to the application
  tables         \* tables the first loop met

library == <<pc, client_connfd, result, buffer>>
broker  == <<shm_node_num, bcasts, longest>>
counted == <<calls, asks, timeouts, strays, tables>>
vars == <<library, up, down, peer, broker, unanswered, counted>>

(* The body of a frame: the number of segments in an answer to             *)
(* GET_SHM_NUM, the number of entries in all others.                       *)
Frame(id, body) == [id |-> id, body |-> body, whole |-> TRUE]

(* What is in the stream of a frame whose send gave up with a part of it   *)
(* out; which frame it was no reader learns.                               *)
Piece == [id |-> IH_CMD_ID_DEFAULT, body |-> 0, whole |-> FALSE]

-----------------------------------------------------------------------------
(* Requests of the client. *)

(* tcp_send_protocol_cmd of a request, which is a header only and goes out *)
(* whole or not at all.                                                    *)
Sends(id) == peer = "up" /\ Len(up) < BufCap /\ up' = Append(up, id)

(* No room for it until the last retry. *)
GivesUp == peer = "up" /\ Len(up) >= BufCap /\ UNCHANGED up

(* The broker has closed its end: SIGPIPE. *)
Killed == peer = "gone" /\ pc' = "dead" /\ UNCHANGED up

(* The beginning of ih_get_shm_infos; what the send returns is ignored. *)
ih_get_shm_infos ==
  /\ pc = "idle" /\ calls < MaxCall /\ calls' = calls + 1
  /\ \/ /\ client_connfd = "closed"
        /\ result' = -1
        /\ UNCHANGED <<pc, up>>
     \/ /\ client_connfd = "open"
        /\ \/ (Sends(IH_RESERVE_CMD_ID_GET_SHM_NUM) \/ GivesUp) /\ pc' = "num"
           \/ Killed
        /\ UNCHANGED result
  /\ UNCHANGED <<client_connfd, buffer, down, peer, broker, unanswered,
                 asks, timeouts, strays, tables>>

(* Goes on to next without a request for the table. *)
MutNoAsk(next, ret) == pc' = next /\ UNCHANGED <<up, result, unanswered>>

(* ih_send_getShmIDs_cmd; the caller returns ret when the send gave up. *)
ih_send_getShmIDs_cmd(next, ret) ==
  \/ /\ Sends(IH_RESERVE_CMD_ID_GET_SHM_INFO)
     /\ pc' = next /\ unanswered' = FALSE
     /\ UNCHANGED result
  \/ /\ GivesUp
     /\ pc' = "idle" /\ result' = ret
     /\ UNCHANGED unanswered
  \/ /\ Killed
     /\ UNCHANGED <<result, unanswered>>

-----------------------------------------------------------------------------
(* tcp_recv_protocol_cmd. *)

(* A frame that is all there: it is returned, and the next one begins      *)
(* where it ends.                                                          *)
Ready == down # <<>> /\ Head(down).whole

(* The rest of the frame does not come before the last retry.  Nothing is  *)
(* left in the stream, and what is sent next begins a new frame.           *)
Incomplete == down # <<>> /\ ~Head(down).whole

(* The bytes behind a piece are taken for the rest of its frame: from then *)
(* on frames begin anywhere, and say anything.                             *)
Misread ==
  /\ client_connfd = "open" /\ pc \in {"idle", "num", "info"}
  /\ Incomplete /\ Len(down) > 1
  /\ pc' = "lost"
  /\ UNCHANGED <<client_connfd, result, buffer, up, down, peer, broker, unanswered, counted>>

(* The call gives up inside a frame that the broker is still sending.      *)
(* ih_recv_data closes the connection; the first loop leaves it open, and  *)
(* the rest will be taken for the beginning of another frame.              *)
Stall ==
  /\ peer = "up" /\ down = <<>> /\ client_connfd = "open"
  /\ \/ pc = "num" /\ pc' = "lost" /\ UNCHANGED client_connfd
     \/ pc \in {"idle", "info"} /\ client_connfd' = "closed" /\ UNCHANGED pc
  /\ UNCHANGED <<result, buffer, up, down, peer, broker, unanswered, counted>>

(* ih_recv_data at the end of file, or after an error. *)
Closes ==
  /\ (down = <<>> /\ peer = "gone") \/ Incomplete
  /\ client_connfd' = "closed" /\ down' = <<>>

-----------------------------------------------------------------------------
(* The two loops of ih_get_shm_infos. *)

(* The body of a frame that is not a count goes past the end of wbuf. *)
Past(f) == f.id # IH_RESERVE_CMD_ID_GET_SHM_NUM /\ f.body > WbufNodes

(* First loop: a frame that is not the count is thrown away, after it has  *)
(* been read into wbuf.  A body that goes past its end overwrites the      *)
(* stack.                                                                  *)
NumSkip ==
  /\ pc = "num" /\ Ready /\ Head(down).id # IH_RESERVE_CMD_ID_GET_SHM_NUM
  /\ pc' \in (IF Past(Head(down)) THEN {"dead", "lost"} ELSE {"num"})
  /\ down' = Tail(down)
  /\ tables' = tables + (IF Head(down).id = IH_RESERVE_CMD_ID_GET_SHM_INFO THEN 1 ELSE 0)
  /\ UNCHANGED <<client_connfd, result, buffer, up, peer, broker, unanswered,
                 calls, asks, timeouts, strays>>

(* The table does not fit the buffer. *)
TooSmall(n) == n > BufNodes

(* First loop: the count has come.  The call ends when the table does not  *)
(* fit or is empty, and asks for the table otherwise.                      *)
NumAnswer ==
  /\ pc = "num" /\ Ready /\ Head(down).id = IH_RESERVE_CMD_ID_GET_SHM_NUM
  /\ LET shm_num == Head(down).body
     IN  \/ /\ TooSmall(shm_num) \/ shm_num = 0
            /\ result' = IF TooSmall(shm_num) THEN -1 ELSE 0
            /\ pc' = "idle"
            /\ UNCHANGED <<up, unanswered>>
         \/ /\ ~TooSmall(shm_num) /\ shm_num # 0
            /\ ih_send_getShmIDs_cmd("info", -1)
  /\ down' = Tail(down)
  /\ UNCHANGED <<client_connfd, buffer, peer, broker, counted>>

(* First loop: end of file, or too little before the last retry.  The call *)
(* fails and leaves the connection open, with the answer still to come.    *)
NumFail ==
  /\ pc = "num" /\ (down = <<>> \/ Incomplete)
  /\ pc' = "idle" /\ result' = -1 /\ timeouts' = timeouts + 1
  /\ down' = <<>>
  /\ UNCHANGED <<client_connfd, buffer, up, peer, broker, unanswered, calls, asks, strays, tables>>

(* Entries of the buffer that the body of f reaches; a count is one byte. *)
Extent(f) == IF f.id = IH_RESERVE_CMD_ID_GET_SHM_NUM THEN 1 ELSE f.body

(* Nothing is kept of the entries behind the body. *)
MutWritten(f) == [i \in 1..Extent(f) |-> i]

(* ih_recv_data writes the body over the beginning of the buffer. *)
Written(f) ==
  [i \in 1..BufNodes |->
     IF i > Extent(f) THEN buffer[i]
     ELSE IF f.id = IH_RESERVE_CMD_ID_GET_SHM_INFO THEN i ELSE Junk]

(* Any frame that ih_recv_data reads without an error ends the loop. *)
MutRecvIsShmIDs(f) == TRUE

(* ih_recvIsShmIDs of what ih_recv_data returned for frame f. *)
ih_recvIsShmIDs(f) == f.id = IH_RESERVE_CMD_ID_GET_SHM_INFO

(* Second loop: ih_recv_data has read a frame. *)
InfoRecv ==
  /\ pc = "info" /\ client_connfd = "open" /\ Ready
  /\ LET f == Head(down)
     IN  /\ buffer' = Written(f)
         /\ \/ ih_recvIsShmIDs(f) /\ pc' = "idle" /\ result' = f.body
            \/ ~ih_recvIsShmIDs(f) /\ UNCHANGED <<pc, result>>
  /\ down' = Tail(down)
  /\ UNCHANGED <<client_connfd, up, peer, broker, unanswered, counted>>

(* Second loop: select reports end of file or the beginning of a frame     *)
(* that does not end; ih_recv_data closes the connection and returns -1.   *)
(* The loop goes on: ih_select_recv_ready is false from now on, which is a *)
(* stuttering step, as is its timeout.                                     *)
InfoFail ==
  /\ pc = "info" /\ client_connfd = "open" /\ Closes
  /\ UNCHANGED <<pc, result, buffer, up, peer, broker, unanswered, counted>>

-----------------------------------------------------------------------------
(* The application, between calls of ih_get_shm_infos. *)

(* ih_recv_data into another buffer.  Its result tells the table from all  *)
(* other frames, but not a count from a broadcast.                         *)
AppRecv ==
  /\ pc = "idle" /\ client_connfd = "open"
  /\ \/ /\ Ready /\ down' = Tail(down)
        /\ strays' = strays + (IF Head(down).id = IH_RESERVE_CMD_ID_GET_SHM_NUM THEN 1 ELSE 0)
        /\ UNCHANGED client_connfd
     \/ /\ Closes
        /\ UNCHANGED strays
  /\ UNCHANGED <<pc, result, buffer, up, peer, broker, unanswered, calls, asks, timeouts, tables>>

(* The application asks for the table itself, as test/README.md shows. *)
AppAsk ==
  /\ pc = "idle" /\ client_connfd = "open" /\ calls < MaxCall
  /\ calls' = calls + 1 /\ asks' = asks + 1
  /\ ih_send_getShmIDs_cmd("idle", result)
  /\ UNCHANGED <<client_connfd, buffer, down, peer, broker, timeouts, strays, tables>>

(* The comparison made after the step to the next entry. *)
MutShmByName(name) ==
  {i \in 2..BufNodes : buffer[i] \in {name, 0} /\ \A j \in 2..(i - 1) : buffer[j] \notin {name, 0}}

(* ih_get_shm_by_name: the entry the walk stops at, which has the name or  *)
(* an empty one.  None, if the walk leaves the buffer.                     *)
ih_get_shm_by_name(name) ==
  {i \in 1..BufNodes : buffer[i] \in {name, 0} /\ \A j \in 1..(i - 1) : buffer[j] \notin {name, 0}}

-----------------------------------------------------------------------------
(* The broker's end of the connection. *)

(* The client's end is open; a send to a closed one is SIGPIPE, see        *)
(* BrokerGone.                                                             *)
ClientOpen == client_connfd = "open" /\ pc \notin {"dead", "lost"}

Full == Len(down) >= BufCap

(* tcp_send_protocol_cmd of frame f: out whole, or given up after the last *)
(* retry with nothing or a piece of it out.                                *)
tcp_send_protocol_cmd(f) ==
  \/ /\ ~Full
     /\ down' = Append(down, f)
     /\ UNCHANGED unanswered
  \/ /\ Full
     /\ down' \in {down, Append(down, Piece)}
     /\ unanswered' = \/ unanswered
                      \/ /\ f.id = IH_RESERVE_CMD_ID_GET_SHM_INFO
                         /\ \A i \in 2..Len(up) : up[i] # IH_RESERVE_CMD_ID_GET_SHM_INFO

(* The case of GET_SHM_INFO without its break: a count is sent instead. *)
MutNoBreak(id) == tcp_send_protocol_cmd(Frame(IH_RESERVE_CMD_ID_GET_SHM_NUM, shm_node_num))

(* parser_reserve_cmd.  Without a table tcp_send_protocol_cmd sends        *)
(* nothing in answer to GET_SHM_INFO.                                      *)
parser_reserve_cmd(id) ==
  IF id = IH_RESERVE_CMD_ID_GET_SHM_INFO /\ shm_node_num = 0
  THEN UNCHANGED <<down, unanswered>>
  ELSE tcp_send_protocol_cmd(Frame(id, shm_node_num))

(* main reads a request; that its answer was given up is ignored, and the  *)
(* connection kept.                                                        *)
BrokerAnswer ==
  /\ peer = "up" /\ up # <<>> /\ ClientOpen
  /\ parser_reserve_cmd(Head(up))
  /\ up' = Tail(up)
  /\ UNCHANGED <<library, peer, broker, counted>>

(* What the broker has not read is lost. *)
Hangup == peer' = "gone" /\ up' = <<>>

(* Another client's broadcast of length len is relayed to this one.  When  *)
(* that is given up the connection is closed, or that of a namesake.       *)
BrokerRelay(len) ==
  /\ peer = "up" /\ bcasts < MaxBcast /\ ClientOpen
  /\ bcasts' = bcasts + 1
  /\ longest' = IF len > longest THEN len ELSE longest
  /\ tcp_send_protocol_cmd(Frame(IH_CMD_ID_DEFAULT, len))
  /\ UNCHANGED <<up, peer>> \/ (Full /\ Hangup)
  /\ UNCHANGED <<library, shm_node_num, counted>>

(* The broker ends, of itself or by SIGPIPE, perhaps within a send, or     *)
(* closes this connection.                                                 *)
BrokerGone ==
  /\ peer = "up" /\ Hangup
  /\ down' \in {down, Append(down, Piece)}
  /\ UNCHANGED <<library, broker, unanswered, counted>>

-----------------------------------------------------------------------------
Init ==
  /\ pc = "idle" /\ client_connfd = "open" /\ result = 0
  /\ buffer = [i \in 1..BufNodes |-> 0]
  /\ up = <<>> /\ down = <<>> /\ peer = "up"
  /\ shm_node_num \in ShmNums /\ bcasts = 0 /\ longest = 0
  /\ unanswered = FALSE
  /\ calls = 0 /\ asks = 0 /\ timeouts = 0 /\ strays = 0 /\ tables = 0

LibraryStep == NumSkip \/ NumAnswer \/ NumFail \/ InfoRecv \/ InfoFail

Next ==
  \/ ih_get_shm_infos \/ LibraryStep \/ AppRecv \/ AppAsk \/ Misread \/ Stall
  \/ BrokerAnswer \/ BrokerGone
  \/ \E len \in BcastLens : BrokerRelay(len)

Spec == Init /\ [][Next]_vars

(* The library's loops run on, and a broker that is up reads its requests  *)
(* (Served in Broker) and answers or gives up, which its retries bound.    *)
FairSpec == Spec /\ WF_vars(LibraryStep) /\ WF_vars(BrokerAnswer)

-----------------------------------------------------------------------------
(* Properties. *)

FrameType == [id : CmdId, body : 0..255, whole : BOOLEAN]

(* The types of the variables. *)
QueryTypeOK ==
  /\ pc \in {"idle", "num", "info", "dead", "lost"}
  /\ client_connfd \in {"open", "closed"}
  /\ result \in -1..255
  /\ buffer \in [1..BufNodes -> -1..255]
  /\ up \in Seq(Requests) /\ down \in Seq(FrameType)
  /\ peer \in {"up", "gone"} /\ shm_node_num \in ShmNums
  /\ bcasts \in Nat /\ longest \in 0..255
  /\ unanswered \in BOOLEAN
  /\ calls \in Nat /\ asks \in Nat /\ timeouts \in Nat /\ strays \in Nat /\ tables \in Nat

(* A call that returns a positive number returns the number of segments    *)
(* and has the whole table in the buffer, whatever broadcasts were written *)
(* there meanwhile, whatever answers to earlier calls came late and        *)
(* whichever the broker gave up: as long as the client has not read on     *)
(* from a piece of a frame, nor the first loop a body longer than wbuf     *)
(* (it is "lost" then, or "dead").                                         *)
TableReturned ==
  (pc = "idle" /\ result > 0) =>
    /\ result = shm_node_num
    /\ shm_node_num <= BufNodes
    /\ \A i \in 1..shm_node_num : buffer[i] = i

(* After such a call ih_get_shm_by_name finds every segment by its name.   *)
(* For any other name it stops right behind the table, provided the buffer *)
(* has an entry to spare and no broadcast so far was longer than the       *)
(* table: what the second loop wrote into the buffer while it waited is    *)
(* covered by the table.                                                   *)
NamesResolve ==
  (pc = "idle" /\ result > 0) =>
    /\ \A name \in 1..shm_node_num : ih_get_shm_by_name(name) = {name}
    /\ (result < BufNodes /\ longest <= result) =>
         \A name \in (shm_node_num + 1)..255 : ih_get_shm_by_name(name) = {result + 1}

Asked == \E i \in DOMAIN up : up[i] = IH_RESERVE_CMD_ID_GET_SHM_INFO
Sent == \E i \in DOMAIN down : down[i].whole /\ down[i].id = IH_RESERVE_CMD_ID_GET_SHM_INFO

(* While the second loop waits on an open connection and the broker is up, *)
(* a table is on its way, the request for it or the whole answer in a      *)
(* stream: unless the broker gave that answer up.                          *)
TableComing ==
  (pc = "info" /\ client_connfd = "open" /\ peer = "up" /\ ~unanswered) => Asked \/ Sent

(* The application takes a count for a broadcast at most once for each     *)
(* call that gave up waiting for it.  The first loop meets a table, which  *)
(* overruns wbuf when it has more than one entry, at most once for each    *)
(* request of the application's own: none that ih_get_shm_infos asked for  *)
(* is left behind.                                                         *)
StraysBounded == strays <= timeouts /\ tables <= asks

(* A call that may never end although the broker stays: the answer it      *)
(* waits for was given up, the second loop has closed the connection over  *)
(* a frame that did not come whole, or the client has lost its place.      *)
Forsaken ==
  \/ pc = "lost"
  \/ pc = "info" /\ (unanswered \/ (client_connfd = "closed" /\ peer = "up"))


(* test/sub_test.c: "if(ret <0) exit(-1);": a call ends, also when the     *)
(* broker goes away.                                                       *)
QueryReturns == pc \in {"num", "info"} ~> (pc \in {"idle", "dead"} \/ Forsaken)
=============================================================================
