------------------------------- MODULE Broker -------------------------------
(***************************************************************************)
(* The icehydra broker: the event loop of main.c with the calls it makes   *)
(* (accept_unix_tcp, tcp_recv_protocol_cmd, parser_reserve_cmd,            *)
(* broadcast_cmd, tcp_send_protocol_cmd, find_node, close_s), running      *)
(* beside client processes that use the library of icehydra.c.             *)
(*                                                                         *)
(* One client process makes one connection, so a connection is named by    *)
(* its process; a restarted client is another process with the same name.  *)
(* Sockets carry frames (one PROTOCOL_CMD with its body).  A frame whose   *)
(* body has not been sent yet has part = "cut".                            *)
(*                                                                         *)
(* The broker's loop is cut where it makes a system call whose result      *)
(* depends on the clients: select, recv, and each send of a reply or of a  *)
(* broadcast.  accept and the stat that follows it are one step, because   *)
(* what accept returns does not depend on the file system.                 *)
(*                                                                         *)
(* An operator whose name begins with Mut is a deliberately wrong form of  *)
(* the definition that follows it; no action uses it.  It shows that a     *)
(* property notices the mistake.                                           *)
(***************************************************************************)
EXTENDS Integers, Sequences, FiniteSets

CONSTANTS
  NodeCount,  \* subscriber nodes of the configuration, in list order
  NameOf,     \* [1..NodeCount -> name]: pub_sub_node_t.name, as a tuple
  IdOf,       \* [1..NodeCount -> id]:   pub_sub_node_t.id ("ih-pid")
  HasShm,     \* the publisher's node has an "ih-shm" list
  Proc,       \* client processes
  ProcName,   \* [Proc -> name]: the subscriber_name a process passes
  NoProc,     \* the owner of a descriptor that is not open
  FdLimit,    \* descriptors 0..FdLimit-1 exist (RLIMIT_NOFILE)
  Backlog,    \* second argument of listen
  BufCap,     \* frames a socket buffer holds
  Commands,   \* commands a client may send, see Command
  MaxSend     \* commands one process sends

Node == 1..NodeCount

(* The descriptors accept can return: 0, 1, 2 are the standard streams and *)
(* 3 is the listening socket.                                              *)
Fd == 4..(FdLimit - 1)

IH_CMD_TYPE_SEND_RESERVE  == 0
IH_CMD_TYPE_SEND_PARALLEL == 1
IH_CMD_TYPE_SEND_SERIAL   == 2

IH_CMD_ID_RESERVE              == 0
IH_RESERVE_CMD_ID_GET_SHM_INFO == 2
IH_RESERVE_CMD_ID_GET_SHM_NUM  == 3
IH_CMD_ID_DEFAULT              == 188

(* PROTOCOL_CMD: the header fields the broker looks at, and broadcast_ids. *)
Command == [cmdSendType : 0..2, cmdid : 0..255, ids : Seq(1..255)]

(* ih-name and ih-pid of different nodes differ.  conf.c does not check it. *)
NamesDistinct == \A m, n \in Node : NameOf[m] = NameOf[n] => m = n

ASSUME NodeAssumption ==
  /\ NodeCount \in Nat
  /\ NameOf \in [Node -> Seq(Nat)]
  /\ IdOf \in [Node -> 1..255]

ASSUME ShmAssumption == HasShm \in BOOLEAN

ASSUME ProcAssumption ==
  /\ ProcName \in [Proc -> Seq(Nat)]
  /\ NoProc \notin Proc

ASSUME BoundAssumption ==
  /\ FdLimit \in Nat /\ Backlog \in Nat
  /\ BufCap \in Nat \ {0}
  /\ MaxSend \in Nat
  /\ Commands \subseteq Command

VARIABLES
  paths,      \* names whose socket file /run/shm/<name>-sock exists
  backlog,    \* connections waiting for accept, oldest first
  fdtab,      \* [Fd -> Proc \cup {NoProc}]: the broker's descriptor table
  pc,         \* where the broker's loop stands
  rset,       \* connection descriptors select found readable
  cur,        \* the node the pass over node_list has reached
  connfd,     \* [Node -> Int]: pub_sub_node_t.connfd
  link_count, \* main's count of connections
  cmd,        \* cmdid of the reserve command being answered
  work,       \* sends broadcast_cmd still has to make: <<node, position>>
  st,         \* [Proc -> state of the client's connection]
  up,         \* [Proc -> frames sent to the broker and not read]
  down,       \* [Proc -> every frame the broker sent on the connection]
  rd,         \* [Proc -> how many frames of down the client has read]
  sent,       \* [Proc -> how many commands the process has begun to send]
  log         \* history: the broadcasts in the order the broker read them

kernelVars == <<paths, backlog, fdtab>>
brokerVars == <<pc, rset, cur, connfd, link_count, cmd, work>>
clientVars == <<st, up, down, rd, sent>>
vars == <<kernelVars, brokerVars, clientVars, log>>

-----------------------------------------------------------------------------
(* Sockets, as the code uses them. *)

(* A frame of a client: command c, the k-th that process p sends. *)
Frame(p, k, c, w) == [src |-> p, num |-> k, cmd |-> c, part |-> w]

(* Frames the broker sends: a reply to a reserve command, or the broadcast *)
(* at position i of the log.                                               *)
Reply(id, w)     == [kind |-> "reply", ref |-> id, part |-> w]
Broadcast(i, w)  == [kind |-> "bcast", ref |-> i, part |-> w]

FreeFds == {f \in Fd : fdtab[f] = NoProc}

(* The broker still has an end of p's connection: in the accept queue or   *)
(* as an open descriptor.                                                  *)
BrokerEndOpen(p) ==
  \/ \E i \in DOMAIN backlog : backlog[i] = p
  \/ \E f \in Fd : fdtab[f] = p

(* select reports a descriptor readable when data or end-of-file waits. *)
Readable(f) == up[fdtab[f]] # <<>> \/ st[fdtab[f]] = "closed"

(* recv can return a whole command of p. *)
CommandReady(p) == p # NoProc /\ up[p] # <<>> /\ Head(up[p]).part = "whole"

(* Node n has an open connection, and the process at its other end. *)
Linked(n) == connfd[n] > 0 /\ fdtab[connfd[n]] # NoProc
PeerOf(n) == fdtab[connfd[n]]

BufferFull(p) == Len(down[p]) - rd[p] >= BufCap

BrokerUp == pc \notin {"killed", "exited"}

-----------------------------------------------------------------------------
(* Names and nodes. *)

(* isStrSameN: strncmp over the first n characters. *)
isStrSameN(a, b, n) == \A i \in 1..n : i \in DOMAIN b /\ a[i] = b[i]

(* Without the comparison of lengths, a name matches what it begins. *)
MutNamePrefix(n, name) == isStrSameN(NameOf[n], name, Len(NameOf[n]))

(* The test main makes on the name of an accepted client. *)
NameMatches(n, name) ==
  /\ isStrSameN(NameOf[n], name, Len(NameOf[n]))
  /\ Len(NameOf[n]) = Len(name)

(* find_node_by_id: the first node of the list that has the id. *)
find_node_by_id(n, id) ==
  IdOf[n] = id /\ \A m \in Node : m < n => IdOf[m] # id

(* The inner loop runs to i <= broadcast_num, onto a byte of the data. *)
MutSendsOnePast(ids) ==
  {w \in Node \X (1..(Len(ids) + 1)) : w[2] > Len(ids) \/ ids[w[2]] = IdOf[w[1]]}

(* The sends of broadcast_cmd for ids, and the order its two loops make    *)
(* them in: nodes in list order, for each node the positions of ids.       *)
Sends(ids) == {w \in Node \X DOMAIN ids : ids[w[2]] = IdOf[w[1]]}
Before(v, w) == v[1] < w[1] \/ (v[1] = w[1] /\ v[2] < w[2])
First(w, S) == w \in S /\ \A v \in S \ {w} : Before(w, v)

-----------------------------------------------------------------------------
(* Client processes. *)

(* creat_bind_unix_tcp removes the socket file of its name first, whoever *)
(* bound it.                                                              *)
Unlink(p) ==
  /\ st[p] = "new"
  /\ st' = [st EXCEPT ![p] = "unlinked"]
  /\ paths' = paths \ {ProcName[p]}
  /\ UNCHANGED <<backlog, fdtab, brokerVars, up, down, rd, sent, log>>

(* bind fails when another process has bound the name in between. *)
Bind(p) ==
  /\ st[p] = "unlinked"
  /\ IF ProcName[p] \in paths
     THEN st' = [st EXCEPT ![p] = "closed"] /\ UNCHANGED paths
     ELSE /\ st' = [st EXCEPT ![p] = "bound"]
          /\ paths' = paths \cup {ProcName[p]}
  /\ UNCHANGED <<backlog, fdtab, brokerVars, up, down, rd, sent, log>>

(* connect_unix_tcp waits while the accept queue is full and fails when    *)
(* nothing listens; the library then closes the socket.                    *)
Connect(p) ==
  /\ st[p] = "bound"
  /\ \/ /\ BrokerUp
        /\ Len(backlog) <= Backlog
        /\ backlog' = Append(backlog, p)
        /\ st' = [st EXCEPT ![p] = "conn"]
     \/ /\ ~BrokerUp
        /\ st' = [st EXCEPT ![p] = "closed"]
        /\ UNCHANGED backlog
  /\ UNCHANGED <<paths, fdtab, brokerVars, up, down, rd, sent, log>>

(* A send on a connection the broker has closed raises SIGPIPE. *)
SendBroken(p) ==
  /\ ~BrokerEndOpen(p)
  /\ st' = [st EXCEPT ![p] = "closed"]
  /\ UNCHANGED <<up, sent>>

MidFrame(p) == up[p] # <<>> /\ up[p][Len(up[p])].part = "cut"

(* A command without a body is whole once its header is sent. *)
FirstPart(c) == IF c.cmdSendType = IH_CMD_TYPE_SEND_RESERVE THEN "whole" ELSE "cut"

(* The first send of a command.  ih_send_broadcast_data sends the header   *)
(* with the ids and then, with another call, the data; the reserve         *)
(* commands of ih_get_shm_infos and ih_send_getShmIDs_cmd have no body.    *)
SendHead(p, c) ==
  /\ st[p] = "conn" /\ ~MidFrame(p) /\ sent[p] < MaxSend
  /\ \/ SendBroken(p)
     \/ /\ BrokerEndOpen(p) /\ Len(up[p]) < BufCap
        /\ up' = [up EXCEPT ![p] = Append(@, Frame(p, sent[p] + 1, c, FirstPart(c)))]
        /\ sent' = [sent EXCEPT ![p] = @ + 1]
        /\ UNCHANGED st
  /\ UNCHANGED <<kernelVars, brokerVars, down, rd, log>>

(* The second send of ih_send_broadcast_data: the data. *)
SendBody(p) ==
  /\ st[p] = "conn" /\ MidFrame(p)
  /\ \/ SendBroken(p)
     \/ /\ BrokerEndOpen(p)
        /\ up' = [up EXCEPT ![p][Len(up[p])].part = "whole"]
        /\ UNCHANGED <<st, sent>>
  /\ UNCHANGED <<kernelVars, brokerVars, down, rd, log>>

(* ih_recv_data: reads the next frame, or closes the connection when the   *)
(* frame stays cut or the broker has closed its end.  A cut frame that     *)
(* others follow takes bytes of them for its missing part; how far the     *)
(* client gets before it reads a header again is left open.                *)
RecvData(p) ==
  /\ st[p] = "conn"
  /\ \/ /\ rd[p] < Len(down[p]) /\ down[p][rd[p] + 1].part = "whole"
        /\ rd' = [rd EXCEPT ![p] = @ + 1]
        /\ UNCHANGED st
     \/ /\ rd[p] < Len(down[p]) /\ down[p][rd[p] + 1].part = "cut"
        /\ \E k \in (rd[p] + 2)..Len(down[p]) : rd' = [rd EXCEPT ![p] = k]
        /\ UNCHANGED st
     \/ /\ \/ rd[p] < Len(down[p]) /\ down[p][rd[p] + 1].part = "cut"
           \/ rd[p] = Len(down[p]) /\ ~BrokerEndOpen(p)
        /\ st' = [st EXCEPT ![p] = "closed"]
        /\ UNCHANGED rd
  /\ UNCHANGED <<kernelVars, brokerVars, up, down, sent, log>>

(* The process exits or crashes, between any two of its calls, or its      *)
(* library call gives up after the last retry and closes the socket.       *)
ClientClose(p) ==
  /\ st[p] = "conn"
  /\ st' = [st EXCEPT ![p] = "closed"]
  /\ UNCHANGED <<kernelVars, brokerVars, up, down, rd, sent, log>>

-----------------------------------------------------------------------------
(* The broker. *)

(* The process ends: the kernel closes every descriptor. *)
Die(how) ==
  /\ pc' = how
  /\ fdtab' = [f \in Fd |-> NoProc]
  /\ backlog' = <<>>
  /\ UNCHANGED <<paths, rset, cur, connfd, link_count, cmd, work, clientVars, log>>

(* The macro without its assignment. *)
MutCloseOnly(n) ==
  /\ UNCHANGED connfd
  /\ fdtab' = IF connfd[n] > 0
              THEN [fdtab EXCEPT ![connfd[n]] = NoProc] ELSE fdtab

(* close_s on the connfd of node n: a value that is not positive is reset  *)
(* without a close.                                                        *)
close_s(n) ==
  /\ connfd' = [connfd EXCEPT ![n] = -1]
  /\ fdtab' = IF connfd[n] > 0
              THEN [fdtab EXCEPT ![connfd[n]] = NoProc] ELSE fdtab

(* The top of the loop: FD_ZERO, FD_SET for every connfd > 0, select.  A   *)
(* descriptor that is not open makes select fail and the loop break; the   *)
(* one-second timeout goes round the loop and is a stuttering step.        *)
Select ==
  /\ pc = "select"
  /\ LET watched == {n \in Node : connfd[n] > 0}
     IN  \/ /\ \E n \in watched : fdtab[connfd[n]] = NoProc
            /\ Die("exited")
         \/ /\ \A n \in watched : fdtab[connfd[n]] # NoProc
            /\ rset' = {connfd[n] : n \in {m \in watched : Readable(connfd[m])}}
            /\ rset' # {} \/ backlog # <<>>
            /\ pc' = IF backlog # <<>> THEN "accept" ELSE "pass"
            /\ cur' = 1
            /\ UNCHANGED <<kernelVars, connfd, link_count, cmd, work, clientVars, log>>

(* The nodes main registers a client p for.  accept_unix_tcp fails, with   *)
(* the descriptor left open, when stat no longer finds the socket file.    *)
Matching(p) == {n \in Node : ProcName[p] \in paths /\ NameMatches(n, ProcName[p])}

(* With the else branch of main.c that is commented out: a node that does  *)
(* not match closes the new descriptor and sets it to -1.                  *)
MutRegisterElseClose(f, p) ==
  /\ fdtab' = IF Matching(p) = Node THEN [fdtab EXCEPT ![f] = p] ELSE fdtab
  /\ connfd' = [n \in Node |-> IF n \notin Matching(p) THEN connfd[n]
                              ELSE IF \E m \in Node \ Matching(p) : m < n THEN -1 ELSE f]
  /\ link_count' = link_count + Cardinality(Matching(p))

(* Client p has been accepted with descriptor f; each node of its name     *)
(* takes it, over whatever its connfd held.                                *)
Register(f, p) ==
  /\ fdtab' = [fdtab EXCEPT ![f] = p]
  /\ connfd' = [n \in Node |-> IF n \in Matching(p) THEN f ELSE connfd[n]]
  /\ link_count' = link_count + Cardinality(Matching(p))

(* accept takes the lowest free descriptor and fails, leaving the client   *)
(* queued, when there is none.  Either way the loop starts again without   *)
(* serving anybody.                                                        *)
Accept ==
  /\ pc = "accept" /\ pc' = "select"
  /\ \/ /\ FreeFds = {}
        /\ UNCHANGED <<backlog, fdtab, connfd, link_count>>
     \/ \E f \in FreeFds :
          /\ \A g \in FreeFds : f <= g
          /\ Register(f, Head(backlog))
          /\ backlog' = Tail(backlog)
  /\ UNCHANGED <<paths, rset, cur, cmd, work, clientVars, log>>

(* The pass skips a node that has no descriptor in rset. *)
PassSkip ==
  /\ pc = "pass" /\ cur <= NodeCount
  /\ connfd[cur] \notin rset
  /\ cur' = cur + 1
  /\ UNCHANGED <<kernelVars, pc, rset, connfd, link_count, cmd, work, clientVars, log>>

PassEnd ==
  /\ pc = "pass" /\ cur > NodeCount
  /\ pc' = "select"
  /\ UNCHANGED <<kernelVars, rset, cur, connfd, link_count, cmd, work, clientVars, log>>

(* The reserve commands parser_reserve_cmd answers.  Without shared memory *)
(* shm_node_ptr is NULL, and tcp_send_protocol_cmd sends nothing for it.   *)
Answered ==
  {IH_RESERVE_CMD_ID_GET_SHM_NUM} \cup
  (IF HasShm THEN {IH_RESERVE_CMD_ID_GET_SHM_INFO} ELSE {})

(* A recv that leaves the command in the buffer. *)
MutPeek(p) == UNCHANGED up

(* A recv that takes the command off the stream. *)
tcp_recv_protocol_cmd(p) == up' = [up EXCEPT ![p] = Tail(@)]

(* tcp_recv_protocol_cmd returned a command of node cur; main dispatches   *)
(* on its type.  A broadcast enters the history here: to is the set of     *)
(* processes that are registered for an addressed node at this moment.     *)
RecvCmd ==
  /\ pc = "pass" /\ cur <= NodeCount /\ connfd[cur] \in rset
  /\ CommandReady(fdtab[connfd[cur]])
  /\ LET p == fdtab[connfd[cur]]
         m == Head(up[p])
         c == m.cmd
         addressed == {n \in Node : Linked(n) /\ \E i \in DOMAIN c.ids : c.ids[i] = IdOf[n]}
     IN  /\ tcp_recv_protocol_cmd(p)
         /\ \/ /\ c.cmdSendType = IH_CMD_TYPE_SEND_RESERVE
               /\ c.cmdid \in Answered
               /\ pc' = "reply" /\ cmd' = c.cmdid
               /\ UNCHANGED <<cur, work, log>>
            \/ /\ \/ c.cmdSendType = IH_CMD_TYPE_SEND_SERIAL
                  \/ /\ c.cmdSendType = IH_CMD_TYPE_SEND_RESERVE
                     /\ c.cmdid \notin Answered
               /\ cur' = cur + 1
               /\ UNCHANGED <<pc, cmd, work, log>>
            \/ /\ c.cmdSendType \notin {IH_CMD_TYPE_SEND_RESERVE, IH_CMD_TYPE_SEND_SERIAL}
               /\ pc' = "bcast" /\ work' = Sends(c.ids)
               /\ log' = Append(log, [src |-> p, num |-> m.num, ids |-> c.ids,
                                      to |-> {PeerOf(n) : n \in addressed}])
               /\ UNCHANGED <<cur, cmd>>
  /\ UNCHANGED <<kernelVars, rset, connfd, link_count, st, down, rd, sent>>

(* The error of recv ignored: no remove_node. *)
MutRecvFailIgnored ==
  /\ pc = "pass" /\ cur <= NodeCount /\ connfd[cur] \in rset
  /\ ~CommandReady(fdtab[connfd[cur]])
  /\ cur' = cur + 1
  /\ UNCHANGED <<kernelVars, pc, rset, connfd, link_count, cmd, work, clientVars, log>>

(* tcp_recv_protocol_cmd returned -1: the descriptor is not open, the      *)
(* client closed, or no (whole) command came before the last retry.        *)
(* remove_node closes the connection.                                      *)
RecvFail ==
  /\ pc = "pass" /\ cur <= NodeCount /\ connfd[cur] \in rset
  /\ ~CommandReady(fdtab[connfd[cur]])
  /\ close_s(cur)
  /\ link_count' = link_count - 1
  /\ cur' = cur + 1
  /\ UNCHANGED <<paths, backlog, pc, rset, cmd, work, clientVars, log>>

(* tcp_send_protocol_cmd on the connection of node n, by outcome. *)
SendSkipped(n)  == connfd[n] < 0
SendRefused(n)  == connfd[n] >= 0 /\ ~Linked(n)
SendKills(n)    == Linked(n) /\ st[PeerOf(n)] = "closed"
SendPasses(n)   == Linked(n) /\ st[PeerOf(n)] # "closed" /\ ~BufferFull(PeerOf(n))
SendTimesOut(n) == Linked(n) /\ st[PeerOf(n)] # "closed" /\ BufferFull(PeerOf(n))

(* What a send that gives up leaves on the stream: nothing, or a cut frame. *)
LeftBehind(p, frame) ==
  \/ down' = down
  \/ down' = [down EXCEPT ![p] = Append(@, frame)]

(* parser_reserve_cmd answers node cur.  main ignores what it returns. *)
SendReply ==
  /\ pc = "reply"
  /\ \/ /\ SendKills(cur)
        /\ Die("killed")
     \/ /\ \/ (SendSkipped(cur) \/ SendRefused(cur)) /\ UNCHANGED down
           \/ /\ SendPasses(cur)
              /\ down' = [down EXCEPT ![PeerOf(cur)] = Append(@, Reply(cmd, "whole"))]
           \/ /\ SendTimesOut(cur)
              /\ LeftBehind(PeerOf(cur), Reply(cmd, "cut"))
        /\ pc' = "pass" /\ cur' = cur + 1
        /\ UNCHANGED <<kernelVars, rset, connfd, link_count, cmd, work, st, up, rd, sent, log>>

(* broadcast_cmd makes its next send, to node w[1], and it succeeds. *)
BcastSend ==
  /\ pc = "bcast"
  /\ \E w \in work :
       /\ First(w, work)
       /\ work' = work \ {w}
       /\ \/ SendSkipped(w[1]) /\ UNCHANGED down
          \/ /\ SendPasses(w[1])
             /\ down' = [down EXCEPT ![PeerOf(w[1])] = Append(@, Broadcast(Len(log), "whole"))]
  /\ UNCHANGED <<kernelVars, pc, rset, cur, connfd, link_count, cmd, st, up, rd, sent, log>>

(* A send to node n failed: main closes the connection of the node that    *)
(* find_node returns for its id, and leaves link_count as it is.           *)
DropFailed(n) ==
  /\ \E e \in Node : find_node_by_id(e, IdOf[n]) /\ close_s(e)
  /\ UNCHANGED link_count

(* A failed send does not end the broadcast. *)
MutBcastGoesOn ==
  /\ pc = "bcast"
  /\ \E w \in work :
       /\ First(w, work) /\ (SendRefused(w[1]) \/ SendTimesOut(w[1]))
       /\ DropFailed(w[1])
       /\ work' = work \ {w}
  /\ UNCHANGED <<paths, backlog, pc, rset, cur, cmd, clientVars, log>>

(* The next send fails: broadcast_cmd returns at once. *)
BcastFail ==
  /\ pc = "bcast"
  /\ \E w \in work :
       /\ First(w, work)
       /\ \/ SendRefused(w[1]) /\ UNCHANGED down
          \/ /\ SendTimesOut(w[1])
             /\ LeftBehind(PeerOf(w[1]), Broadcast(Len(log), "cut"))
       /\ DropFailed(w[1])
  /\ work' = {} /\ pc' = "pass" /\ cur' = cur + 1
  /\ UNCHANGED <<paths, backlog, rset, cmd, st, up, rd, sent, log>>

(* The next send goes to a peer that has closed: SIGPIPE, which the broker *)
(* neither ignores nor handles, ends it.                                   *)
BcastKill ==
  /\ pc = "bcast"
  /\ \E w \in work : First(w, work) /\ SendKills(w[1])
  /\ Die("killed")

(* The same node served again, without asking select. *)
MutServeAgain ==
  /\ pc = "bcast" /\ work = {}
  /\ pc' = "pass"
  /\ UNCHANGED <<kernelVars, rset, cur, connfd, link_count, cmd, work, clientVars, log>>

(* Every send made: the pass goes on with the next node. *)
BcastDone ==
  /\ pc = "bcast" /\ work = {}
  /\ pc' = "pass" /\ cur' = cur + 1
  /\ UNCHANGED <<kernelVars, rset, connfd, link_count, cmd, work, clientVars, log>>

-----------------------------------------------------------------------------
(* Nodes from malloc: connfd holds any number. *)
MutMallocNodes == connfd = [n \in Node |-> FdLimit]

(* calloc leaves connfd 0 in every node. *)
CallocNodes == connfd = [n \in Node |-> 0]

Init ==
  /\ paths = {} /\ backlog = <<>> /\ fdtab = [f \in Fd |-> NoProc]
  /\ pc = "select" /\ rset = {} /\ cur = 1
  /\ CallocNodes /\ link_count = 0
  /\ cmd = 0 /\ work = {}
  /\ st = [p \in Proc |-> "new"]
  /\ up = [p \in Proc |-> <<>>] /\ down = [p \in Proc |-> <<>>]
  /\ rd = [p \in Proc |-> 0] /\ sent = [p \in Proc |-> 0]
  /\ log = <<>>

BrokerNext ==
  \/ Select \/ Accept \/ PassSkip \/ PassEnd \/ RecvCmd \/ RecvFail
  \/ SendReply \/ BcastSend \/ BcastFail \/ BcastKill \/ BcastDone

ClientNext(p) ==
  \/ Unlink(p) \/ Bind(p) \/ Connect(p)
  \/ \E c \in Commands : SendHead(p, c)
  \/ SendBody(p) \/ RecvData(p) \/ ClientClose(p)

Next == BrokerNext \/ \E p \in Proc : ClientNext(p)

Spec == Init /\ [][Next]_vars

(* The kernel keeps scheduling the broker. *)
FairSpec == Spec /\ WF_vars(BrokerNext)

-----------------------------------------------------------------------------
(* Properties. *)

ClientState == {"new", "unlinked", "bound", "conn", "closed"}
ClientFrame == [src : Proc, num : Nat, cmd : Command, part : {"whole", "cut"}]
BrokerFrame == [kind : {"reply", "bcast"}, ref : Nat, part : {"whole", "cut"}]
LogEntry    == [src : Proc, num : Nat, ids : Seq(1..255), to : SUBSET Proc]

KernelType ==
  /\ paths \subseteq Seq(Nat)
  /\ backlog \in Seq(Proc)
  /\ fdtab \in [Fd -> Proc \cup {NoProc}]

BrokerType ==
  /\ pc \in {"select", "accept", "pass", "reply", "bcast", "killed", "exited"}
  /\ rset \subseteq Fd
  /\ cur \in 1..(NodeCount + 1)
  /\ pc \in {"reply", "bcast"} => cur \in Node
  /\ pc = "accept" => backlog # <<>>
  /\ connfd \in [Node -> {-1, 0} \cup Fd]
  /\ link_count \in Int
  /\ cmd \in 0..255
  /\ work \subseteq Node \X Nat

SocketType ==
  /\ st \in [Proc -> ClientState]
  /\ up \in [Proc -> Seq(ClientFrame)]
  /\ down \in [Proc -> Seq(BrokerFrame)]
  /\ rd \in [Proc -> Nat] /\ sent \in [Proc -> Nat]

(* The types of the variables: among them, that connfd is -1, the 0 left   *)
(* by calloc, or a descriptor accept returned, and that the pass never     *)
(* runs past the end of the node list.                                     *)
TypeOK ==
  KernelType /\ BrokerType /\ SocketType /\ log \in Seq(LogEntry)

(* connfd of a node is a descriptor that is open and whose peer is a       *)
(* process of the node's name: close_s always resets the one copy of a     *)
(* descriptor it closes, so a number that accept hands out again is never  *)
(* taken for the old connection.                                           *)
NodeOwnsPeer ==
  BrokerUp => \A n \in Node : connfd[n] > 0 =>
    /\ fdtab[connfd[n]] # NoProc
    /\ ProcName[fdtab[connfd[n]]] = NameOf[n]

(* select never meets a closed descriptor, so "ret < 0 ... break" never    *)
(* ends the broker.                                                        *)
NeverExits == pc # "exited"

(* A descriptor of rset that the pass has not reached yet is still open    *)
(* and readable: what earlier iterations of the pass closed or consumed    *)
(* never makes the broker wait in recv for a client that sent nothing.     *)
SnapshotValid ==
  \A n \in Node :
    /\ \/ pc = "pass" /\ n >= cur
       \/ pc \in {"reply", "bcast"} /\ n > cur
    /\ connfd[n] \in rset
    => fdtab[connfd[n]] # NoProc /\ Readable(connfd[n])

(* A process is only ever sent broadcasts whose id list names its node. *)
AddressedOnly ==
  \A p \in Proc : \A i \in DOMAIN down[p] :
    down[p][i].kind = "bcast" =>
      /\ down[p][i].ref \in DOMAIN log
      /\ \E n \in Node :
           /\ NameOf[n] = ProcName[p]
           /\ \E k \in DOMAIN log[down[p][i].ref].ids :
                log[down[p][i].ref].ids[k] = IdOf[n]

(* Every process receives broadcasts in the one order the broker read      *)
(* them, and a sender's broadcasts in the order it sent them.              *)
TotalOrder ==
  \A p \in Proc : \A i, j \in DOMAIN down[p] :
    (i < j /\ down[p][i].kind = "bcast" /\ down[p][j].kind = "bcast") =>
      LET a == down[p][i].ref
          b == down[p][j].ref
      IN  /\ a <= b
          /\ (a # b /\ log[a].src = log[b].src) => log[a].num < log[b].num

Got(p, r) == \E i \in DOMAIN down[p] : down[p][i] = Broadcast(r, "whole")

(* broadcast_cmd gives up at the first failed send, so a broadcast reaches *)
(* a prefix of the node list: a process that was sent a broadcast proves   *)
(* that every addressed process registered before it in the list was.      *)
PrefixDelivery ==
  \A r \in DOMAIN log, m, n \in Node, p, q \in Proc :
    /\ m < n /\ NameOf[m] = ProcName[p] /\ NameOf[n] = ProcName[q]
    /\ p \in log[r].to /\ Got(q, r)
    => Got(p, r)

Registered(p) == \E n \in Node : Linked(n) /\ PeerOf(n) = p

Waiting(p, k) == BrokerUp /\ Registered(p) /\ up[p] # <<>> /\ Head(up[p]).num = k

(* A command that waits on a registered connection is eventually taken,    *)
(* unless the broker dies or the connection is closed.                     *)
Served == \A p \in Proc, k \in 1..MaxSend : Waiting(p, k) ~> ~Waiting(p, k)

(* test/README.md: "The another subscriber process will recv the str": a   *)
(* broadcast the broker has finished with was sent to every addressed      *)
(* process that is connected.                                              *)
ReachesAllConnected ==
  \A r \in DOMAIN log :
    (BrokerUp /\ (pc = "bcast" => r < Len(log))) =>
      \A p \in log[r].to : (st[p] = "conn" /\ BrokerEndOpen(p)) => Got(p, r)

(* A send error costs one connection (main.c closes the node's connfd),    *)
(* never the broker.                                                       *)
StaysUp == pc # "killed"

-----------------------------------------------------------------------------
(* The abstract specification the broker implements: its history is log,   *)
(* and a process has been sent what its connection carries, whole or cut,  *)
(* with 0 for a reply.                                                     *)

Published == [r \in DOMAIN log |-> [src |-> log[r].src, num |-> log[r].num, ids |-> log[r].ids]]

Inbox(p) == [i \in DOMAIN down[p] |-> IF down[p][i].kind = "bcast" THEN down[p][i].ref ELSE 0]

IdsOf(p) == {IdOf[n] : n \in {m \in Node : NameOf[m] = ProcName[p]}}

Atomic == INSTANCE PubSub WITH
  Process <- Proc, Names <- [p \in Proc |-> IdsOf(p)],
  Lists <- {c.ids : c \in Commands}, MaxNum <- MaxSend,
  history <- Published, inbox <- [p \in Proc |-> Inbox(p)]

(* The broker's loop, with its sockets, timeouts and crashes, does nothing *)
(* that PubSub does not allow: no broadcast is sent late, to a process it  *)
(* does not name, too often, or out of its sender's order.                 *)
IsPubSub == Atomic!PubSubSpec
=============================================================================
