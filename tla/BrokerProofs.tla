---------------------------- MODULE BrokerProofs ----------------------------
(***************************************************************************)
(* Proofs about the broker, for every configuration, every set of client   *)
(* processes and every bound: its types and its own safety first, then     *)
(* what clients are sent and in which order, then what one broadcast does  *)
(* (it reaches a prefix of the node list), and that the broker as a whole  *)
(* does what PubSub allows.                                                *)
(***************************************************************************)
EXTENDS Broker, FiniteSetTheorems, SequenceTheorems, TLAPS

-----------------------------------------------------------------------------
(* Type correctness: one lemma for each group of actions. *)

(* The broker's list is finite, so the number of nodes a name matches is a *)
(* natural number.                                                         *)
LEMMA NodeSetFinite ==
  ASSUME NEW S, S \subseteq Node
  PROVE  Cardinality(S) \in Nat
<1>1. IsFiniteSet(Node)
  BY NodeAssumption, FS_Interval DEF Node
<1>2. QED
  BY <1>1, FS_Subset, FS_CardinalityType

(* Client steps keep the types. *)
LEMMA ClientType ==
  ASSUME TypeOK, NEW q \in Proc, ClientNext(q)
  PROVE  TypeOK'
<1> USE ProcAssumption, BoundAssumption DEF TypeOK
<1>0. ASSUME NEW s \in ClientState, st' = [st EXCEPT ![q] = s]
      PROVE  st' \in [Proc -> ClientState]
  BY <1>0 DEF SocketType
<1>1. CASE Unlink(q)
  <2>1. st' \in [Proc -> ClientState]
    BY <1>0, <1>1 DEF Unlink, ClientState
  <2>2. paths' \subseteq Seq(Nat)
    BY <1>1 DEF Unlink, KernelType
  <2>3. QED
    BY <1>1, <2>1, <2>2 DEF Unlink, brokerVars, KernelType, BrokerType, SocketType
<1>2. CASE Bind(q)
  <2>1. /\ paths' \in {paths, paths \cup {ProcName[q]}}
        /\ \E s \in ClientState : st' = [st EXCEPT ![q] = s]
    BY <1>2 DEF Bind, ClientState
  <2>2. st' \in [Proc -> ClientState]
    BY <1>0, <2>1
  <2>3. paths' \subseteq Seq(Nat)
    BY <2>1 DEF KernelType
  <2>4. QED
    BY <1>2, <2>2, <2>3 DEF Bind, brokerVars, KernelType, BrokerType, SocketType
<1>3. CASE Connect(q)
  <2>1. \E s \in ClientState : st' = [st EXCEPT ![q] = s]
    BY <1>3 DEF Connect, ClientState
  <2>2. st' \in [Proc -> ClientState]
    BY <1>0, <2>1
  <2>3. backlog' = backlog \/ backlog' = Append(backlog, q)
    BY <1>3 DEF Connect
  <2>4. /\ backlog \in Seq(Proc) /\ Append(backlog, q) \in Seq(Proc)
        /\ Append(backlog, q) # <<>>
    BY AppendProperties DEF KernelType
  <2>5. backlog' \in Seq(Proc) /\ (backlog # <<>> => backlog' # <<>>)
    BY <2>3, <2>4, Zenon
  <2>6. QED
    BY <1>3, <2>2, <2>5 DEF Connect, brokerVars, KernelType, BrokerType, SocketType
<1>4. ASSUME NEW c \in Commands, SendHead(q, c)
      PROVE  TypeOK'
  <2> DEFINE m == Frame(q, sent[q] + 1, c, FirstPart(c))
  <2>1. m \in ClientFrame
    BY DEF SocketType, Frame, FirstPart, ClientFrame
  <2> HIDE DEF m
  <2>2. /\ up' = up \/ up' = [up EXCEPT ![q] = Append(up[q], m)]
        /\ sent' = sent \/ sent' = [sent EXCEPT ![q] = sent[q] + 1]
        /\ st' = st \/ st' = [st EXCEPT ![q] = "closed"]
    BY <1>4 DEF SendHead, SendBroken, m
  <2>3. Append(up[q], m) \in Seq(ClientFrame)
    BY <2>1 DEF SocketType
  <2>4. up' \in [Proc -> Seq(ClientFrame)]
    BY <2>2, <2>3 DEF SocketType
  <2>5. sent' \in [Proc -> Nat]
    BY <2>2 DEF SocketType
  <2>6. st' \in [Proc -> ClientState]
    BY <2>2, <1>0 DEF SocketType, ClientState
  <2>7. QED
    BY <1>4, <2>4, <2>5, <2>6 DEF SendHead, kernelVars, brokerVars, KernelType, BrokerType, SocketType
<1>5. CASE SendBody(q)
  <2> DEFINE l == Len(up[q])
  <2>1. /\ up' = up \/ up' = [up EXCEPT ![q][l].part = "whole"]
        /\ sent' = sent
        /\ st' = st \/ st' = [st EXCEPT ![q] = "closed"]
    BY <1>5 DEF SendBody, SendBroken
  <2>2. up[q] \in Seq(ClientFrame) /\ up[q] # <<>>
    BY <1>5 DEF SocketType, SendBody, MidFrame
  <2>3. l \in 1..Len(up[q]) /\ up[q][l] \in ClientFrame
    BY <2>2, EmptySeq, ElementOfSeq
  <2>4. [up[q][l] EXCEPT !.part = "whole"] \in ClientFrame
    BY <2>3 DEF ClientFrame
  <2> HIDE DEF l
  <2>5. [up[q] EXCEPT ![l] = [up[q][l] EXCEPT !.part = "whole"]] \in Seq(ClientFrame)
    BY <2>2, <2>3, <2>4, ExceptSeq
  <2>6. up' \in [Proc -> Seq(ClientFrame)]
    BY <2>1, <2>5 DEF SocketType
  <2>7. st' \in [Proc -> ClientState]
    BY <2>1, <1>0 DEF SocketType, ClientState
  <2>8. QED
    BY <1>5, <2>1, <2>6, <2>7 DEF SendBody, kernelVars, brokerVars, KernelType, BrokerType, SocketType
<1>6. CASE RecvData(q)
  <2>1. /\ st' = st \/ st' = [st EXCEPT ![q] = "closed"]
        /\ \/ rd' = rd \/ rd' = [rd EXCEPT ![q] = rd[q] + 1]
           \/ \E k \in (rd[q] + 2)..Len(down[q]) : rd' = [rd EXCEPT ![q] = k]
    BY <1>6, Zenon DEF RecvData
  <2>2. st' \in [Proc -> ClientState]
    BY <2>1, <1>0 DEF SocketType, ClientState
  <2>3. rd[q] \in Nat /\ Len(down[q]) \in Nat
    BY LenProperties DEF SocketType
  <2>4. \A k \in (rd[q] + 2)..Len(down[q]) : k \in Nat
    BY <2>3
  <2>5. rd' = rd \/ \E k \in Nat : rd' = [rd EXCEPT ![q] = k]
    <3>1. rd[q] + 1 \in Nat
      BY <2>3
    <3>2. QED
      BY <2>1, <2>4, <3>1, Zenon
  <2>6. rd' \in [Proc -> Nat]
    BY <2>5 DEF SocketType
  <2>7. QED
    BY <1>6, <2>2, <2>6 DEF RecvData, kernelVars, brokerVars, KernelType, BrokerType, SocketType
<1>7. CASE ClientClose(q)
  <2>1. st' \in [Proc -> ClientState]
    BY <1>0, <1>7 DEF ClientClose, ClientState
  <2>2. QED
    BY <1>7, <2>1 DEF ClientClose, kernelVars, brokerVars, KernelType, BrokerType, SocketType
<1>8. QED
  BY <1>1, <1>2, <1>3, <1>4, <1>5, <1>6, <1>7 DEF ClientNext

(* close_s keeps the types of the table and of connfd. *)
LEMMA CloseType ==
  ASSUME TypeOK, NEW n \in Node, close_s(n)
  PROVE  /\ fdtab' \in [Fd -> Proc \cup {NoProc}]
         /\ connfd' \in [Node -> {-1, 0} \cup Fd]
<1>1. fdtab' = fdtab \/ fdtab' = [fdtab EXCEPT ![connfd[n]] = NoProc]
  BY DEF close_s
<1>2. fdtab' \in [Fd -> Proc \cup {NoProc}]
  BY <1>1 DEF TypeOK, KernelType
<1>3. connfd' \in [Node -> {-1, 0} \cup Fd]
  BY DEF close_s, TypeOK, BrokerType
<1>4. QED
  BY <1>2, <1>3

(* A frame put on a stream is a frame of the broker. *)
LEMMA DownType ==
  ASSUME TypeOK, NEW r \in Proc, NEW frame \in BrokerFrame,
         \/ down' = down
         \/ down' = [down EXCEPT ![r] = Append(down[r], frame)]
  PROVE  down' \in [Proc -> Seq(BrokerFrame)]
<1>1. Append(down[r], frame) \in Seq(BrokerFrame)
  BY AppendProperties DEF TypeOK, SocketType
<1>2. QED
  BY <1>1 DEF TypeOK, SocketType

(* The peer of a linked node is a process. *)
LEMMA PeerType ==
  ASSUME TypeOK, NEW n \in Node, Linked(n)
  PROVE  PeerOf(n) \in Proc /\ connfd[n] \in Fd
BY DEF TypeOK, KernelType, BrokerType, Linked, PeerOf, Fd

(* When the process ends, the types hold. *)
LEMMA DieType ==
  ASSUME TypeOK, NEW how \in {"killed", "exited"}, Die(how)
  PROVE  TypeOK'
<1>1. fdtab' \in [Fd -> Proc \cup {NoProc}] /\ backlog' \in Seq(Proc) /\ paths' = paths
  BY EmptySeq DEF Die
<1>2. KernelType'
  BY <1>1 DEF TypeOK, KernelType
<1>3. BrokerType'
  BY DEF Die, TypeOK, BrokerType
<1>4. SocketType' /\ log' = log
  BY DEF Die, TypeOK, SocketType, clientVars
<1>5. QED
  BY <1>2, <1>3, <1>4 DEF TypeOK

(* The broker's steps that neither send nor receive keep the types. *)
LEMMA LoopType ==
  ASSUME TypeOK, Select \/ Accept \/ PassSkip \/ PassEnd \/ BcastDone
  PROVE  TypeOK'
<1> USE NodeAssumption, ProcAssumption, BoundAssumption DEF TypeOK
<1>1. CASE Select
  <2>1. CASE Die("exited")
    BY <2>1, DieType
  <2>2. CASE ~Die("exited")
    <3>1. /\ rset' = {connfd[n] : n \in {m \in {k \in Node : connfd[k] > 0} : Readable(connfd[m])}}
          /\ pc' = IF backlog # <<>> THEN "accept" ELSE "pass"
          /\ cur' = 1
          /\ UNCHANGED <<kernelVars, connfd, link_count, cmd, work, clientVars, log>>
      BY <1>1, <2>2, Zenon DEF Select
    <3>2. rset' \subseteq Fd
      BY <3>1 DEF BrokerType
    <3>3. BrokerType'
      BY <3>1, <3>2 DEF BrokerType, kernelVars
    <3>4. QED
      BY <3>1, <3>3 DEF KernelType, SocketType, kernelVars, clientVars
  <2>3. QED
    BY <2>1, <2>2
<1>2. CASE Accept
  <2>1. backlog \in Seq(Proc) /\ backlog # <<>>
    BY <1>2 DEF Accept, KernelType, BrokerType
  <2>2. Head(backlog) \in Proc /\ Tail(backlog) \in Seq(Proc)
    BY <2>1, HeadTailProperties
  <2>3. CASE FreeFds = {} /\ UNCHANGED <<backlog, fdtab, connfd, link_count>>
    BY <1>2, <2>3 DEF Accept, KernelType, BrokerType, SocketType, clientVars
  <2>4. CASE ~(FreeFds = {} /\ UNCHANGED <<backlog, fdtab, connfd, link_count>>)
    <3> DEFINE mine == Matching(Head(backlog))
    <3>1. PICK f \in FreeFds :
            /\ fdtab' = [fdtab EXCEPT ![f] = Head(backlog)]
            /\ backlog' = Tail(backlog)
            /\ connfd' = [n \in Node |-> IF n \in mine THEN f ELSE connfd[n]]
            /\ link_count' = link_count + Cardinality(mine)
      BY <1>2, <2>4, Zenon DEF Accept, Register
    <3>2. f \in Fd
      BY DEF FreeFds
    <3>3. fdtab' \in [Fd -> Proc \cup {NoProc}]
      BY <2>2, <3>1, <3>2 DEF KernelType
    <3>4. connfd' \in [Node -> {-1, 0} \cup Fd]
      BY <3>1, <3>2 DEF BrokerType
    <3>5. Cardinality(mine) \in Nat
      BY NodeSetFinite DEF Matching
    <3>6. link_count' \in Int
      BY <3>1, <3>5 DEF BrokerType
    <3>7. KernelType'
      BY <1>2, <2>2, <3>1, <3>3 DEF Accept, KernelType
    <3>8. BrokerType'
      BY <1>2, <3>4, <3>6 DEF Accept, BrokerType
    <3>9. QED
      BY <1>2, <3>7, <3>8 DEF Accept, SocketType, clientVars
  <2>5. QED
    BY <2>3, <2>4
<1>3. CASE PassSkip
  BY <1>3 DEF PassSkip, KernelType, BrokerType, SocketType, kernelVars, clientVars
<1>4. CASE PassEnd
  BY <1>4 DEF PassEnd, KernelType, BrokerType, SocketType, kernelVars, clientVars
<1>5. CASE BcastDone
  BY <1>5 DEF BcastDone, KernelType, BrokerType, SocketType, kernelVars, clientVars, Node
<1>6. QED
  BY <1>1, <1>2, <1>3, <1>4, <1>5

(* The sends of a broadcast are pairs of a node and a position. *)
LEMMA SendsType ==
  ASSUME NEW ids \in Seq(1..255)
  PROVE  Sends(ids) \subseteq Node \X Nat
<1>1. DOMAIN ids \subseteq Nat
  BY LenProperties
<1>2. QED
  BY <1>1 DEF Sends

(* The command that RecvCmd takes. *)
LEMMA RecvCmdTakes ==
  ASSUME TypeOK, RecvCmd, NEW q, q = fdtab[connfd[cur]], NEW m, m = Head(up[q])
  PROVE  /\ cur \in Node /\ q \in Proc /\ up[q] \in Seq(ClientFrame) /\ up[q] # <<>>
         /\ m \in ClientFrame /\ m.cmd \in Command /\ m.num \in Nat /\ m.cmd.ids \in Seq(1..255)
         /\ up' = [up EXCEPT ![q] = Tail(up[q])]
         /\ pc = "pass"
         /\ UNCHANGED <<kernelVars, rset, connfd, link_count, st, down, rd, sent>>
<1> USE NodeAssumption, ProcAssumption, BoundAssumption DEF TypeOK
<1>1. pc = "pass" /\ cur <= NodeCount /\ connfd[cur] \in rset /\ CommandReady(q)
  BY Zenon DEF RecvCmd
<1>2. cur \in Node /\ connfd[cur] \in Fd
  BY <1>1 DEF BrokerType, Node
<1>3. q \in Proc /\ up[q] # <<>> /\ up[q] \in Seq(ClientFrame)
  BY <1>1, <1>2 DEF CommandReady, KernelType, SocketType
<1>4. m \in ClientFrame
  BY <1>3, HeadTailProperties
<1>5. m.cmd \in Command /\ m.num \in Nat
  BY <1>4 DEF ClientFrame
<1>6. m.cmd.ids \in Seq(1..255)
  BY <1>5 DEF Command
<1>7. /\ up' = [up EXCEPT ![q] = Tail(up[q])]
      /\ UNCHANGED <<kernelVars, rset, connfd, link_count, st, down, rd, sent>>
  BY Zenon DEF RecvCmd, tcp_recv_protocol_cmd
<1>8. QED
  BY <1>1, <1>2, <1>3, <1>4, <1>5, <1>6, <1>7

(* What becomes of it: it is answered, ignored, or made the last entry of  *)
(* the log.                                                                *)
Outcome(q, m) ==
  \/ pc' = "reply" /\ cmd' = m.cmd.cmdid /\ cur' = cur /\ work' = work /\ log' = log
  \/ pc' = "pass" /\ cur' = cur + 1 /\ cmd' = cmd /\ work' = work /\ log' = log
  \/ /\ pc' = "bcast" /\ work' = Sends(m.cmd.ids) /\ cur' = cur /\ cmd' = cmd
     /\ \E e \in LogEntry : /\ e.src = q /\ e.num = m.num /\ e.ids = m.cmd.ids
                            /\ log' = Append(log, e)

LEMMA RecvCmdOutcome ==
  ASSUME TypeOK, RecvCmd, NEW q, q = fdtab[connfd[cur]], NEW m, m = Head(up[q])
  PROVE  Outcome(q, m)
<1> DEFINE to == {PeerOf(n) : n \in {k \in Node : Linked(k) /\ \E i \in DOMAIN m.cmd.ids : m.cmd.ids[i] = IdOf[k]}}
           entry == [src |-> q, num |-> m.num, ids |-> m.cmd.ids, to |-> to]
<1>1. q \in Proc /\ m.num \in Nat /\ m.cmd.ids \in Seq(1..255) /\ pc = "pass"
  BY RecvCmdTakes
<1>2. to \subseteq Proc
  BY PeerType
<1>3. entry \in LogEntry
  BY <1>1, <1>2 DEF LogEntry
<1>4. \/ pc' = "reply" /\ cmd' = m.cmd.cmdid /\ cur' = cur /\ work' = work /\ log' = log
      \/ pc' = pc /\ cur' = cur + 1 /\ cmd' = cmd /\ work' = work /\ log' = log
      \/ /\ pc' = "bcast" /\ work' = Sends(m.cmd.ids)
         /\ log' = Append(log, entry) /\ cur' = cur /\ cmd' = cmd
  BY Zenon DEF RecvCmd
<1>5. entry.src = q /\ entry.num = m.num /\ entry.ids = m.cmd.ids
  OBVIOUS
<1> HIDE DEF entry
<1>6. QED
  BY <1>1, <1>3, <1>4, <1>5, Zenon DEF Outcome

(* Taking a command or giving up on it keeps the types. *)
LEMMA RecvType ==
  ASSUME TypeOK, RecvCmd \/ RecvFail
  PROVE  TypeOK'
<1> USE NodeAssumption, ProcAssumption, BoundAssumption DEF TypeOK
<1>1. CASE RecvFail
  <2>1. cur \in Node /\ close_s(cur)
    BY <1>1 DEF RecvFail, BrokerType, Node
  <2>2. /\ fdtab' \in [Fd -> Proc \cup {NoProc}]
        /\ connfd' \in [Node -> {-1, 0} \cup Fd]
    BY <2>1, CloseType
  <2>3. KernelType'
    BY <1>1, <2>2 DEF RecvFail, KernelType
  <2>4. BrokerType'
    BY <1>1, <2>1, <2>2 DEF RecvFail, BrokerType, Node
  <2>5. QED
    BY <1>1, <2>3, <2>4 DEF RecvFail, SocketType, clientVars
<1>2. CASE RecvCmd
  <2> DEFINE q == fdtab[connfd[cur]]
             m == Head(up[q])
  <2>1. /\ cur \in Node /\ q \in Proc /\ up[q] \in Seq(ClientFrame) /\ up[q] # <<>>
        /\ m.cmd \in Command /\ m.cmd.ids \in Seq(1..255)
        /\ up' = [up EXCEPT ![q] = Tail(up[q])]
        /\ pc = "pass"
    BY <1>2, RecvCmdTakes
  <2>2. Outcome(q, m)
    BY <1>2, RecvCmdOutcome
  <2>3. UNCHANGED <<kernelVars, rset, connfd, link_count, st, down, rd, sent>>
    BY <1>2, RecvCmdTakes
  <2>4. Tail(up[q]) \in Seq(ClientFrame)
    BY <2>1, HeadTailProperties
  <2>5. m.cmd.cmdid \in 0..255 /\ Sends(m.cmd.ids) \subseteq Node \X Nat
    BY <2>1, SendsType DEF Command
  <2> HIDE DEF m, q
  <2>6. up' \in [Proc -> Seq(ClientFrame)]
    BY <2>1, <2>4 DEF SocketType
  <2>7. log' \in Seq(LogEntry)
    <3>1. \A e \in LogEntry : Append(log, e) \in Seq(LogEntry)
      BY AppendProperties
    <3>2. QED
      BY <2>2, <3>1, Zenon DEF Outcome
  <2>8. BrokerType'
    <3>1. CASE pc' = "reply" /\ cmd' = m.cmd.cmdid /\ cur' = cur /\ work' = work
      BY <2>1, <2>3, <2>5, <3>1 DEF BrokerType
    <3>2. CASE pc' = "pass" /\ cur' = cur + 1 /\ cmd' = cmd /\ work' = work
      BY <2>1, <2>3, <3>2 DEF BrokerType, Node
    <3>3. CASE pc' = "bcast" /\ work' = Sends(m.cmd.ids) /\ cur' = cur /\ cmd' = cmd
      BY <2>1, <2>3, <2>5, <3>3 DEF BrokerType
    <3>4. QED
      BY <2>2, <3>1, <3>2, <3>3, Zenon DEF Outcome
  <2>9. QED
    BY <2>3, <2>6, <2>7, <2>8 DEF KernelType, SocketType, kernelVars
<1>3. QED
  BY <1>1, <1>2

(* What a send does to the connections: nothing, or one frame more on that *)
(* of a linked node, a broadcast frame only for a node with a send to make.*)
FrameSent(n, frame) ==
  /\ Linked(n)
  /\ frame.kind = "bcast" =>
       pc = "bcast" /\ frame.ref = Len(log) /\ \E w \in work : w[1] = n
  /\ down' = [down EXCEPT ![PeerOf(n)] = Append(down[PeerOf(n)], frame)]

LEMMA SendOutcome ==
  ASSUME TypeOK, SendReply \/ BcastSend \/ BcastFail \/ BcastKill
  PROVE  down' = down \/ \E n \in Node, frame \in BrokerFrame : FrameSent(n, frame)
<1> USE DEF TypeOK
<1>1. CASE SendReply
  <2>1. cur \in Node
    BY <1>1 DEF SendReply, BrokerType
  <2>2. \A w \in {"whole", "cut"} : Reply(cmd, w) \in BrokerFrame /\ Reply(cmd, w).kind # "bcast"
    BY DEF Reply, BrokerFrame, BrokerType
  <2>3. \/ down' = down
        \/ /\ Linked(cur)
           /\ \E w \in {"whole", "cut"} :
                down' = [down EXCEPT ![PeerOf(cur)] = Append(down[PeerOf(cur)], Reply(cmd, w))]
    BY <1>1, Zenon DEF SendReply, Die, clientVars, SendPasses, SendTimesOut, LeftBehind
  <2>4. QED
    BY <2>1, <2>2, <2>3, Zenon DEF FrameSent
<1>2. CASE BcastSend \/ BcastFail
  <2>1. \A w \in {"whole", "cut"} : /\ Broadcast(Len(log), w) \in BrokerFrame
                                    /\ Broadcast(Len(log), w).ref = Len(log)
    BY LenProperties DEF Broadcast, BrokerFrame
  <2>2. pc = "bcast" /\ \A w \in work : w[1] \in Node
    BY <1>2 DEF BcastSend, BcastFail, BrokerType
  <2>3. \/ down' = down
        \/ \E w \in work : /\ Linked(w[1])
                           /\ \E v \in {"whole", "cut"} :
                                down' = [down EXCEPT ![PeerOf(w[1])] =
                                          Append(down[PeerOf(w[1])], Broadcast(Len(log), v))]
    BY <1>2, Zenon DEF BcastSend, BcastFail, SendPasses, SendTimesOut, LeftBehind
  <2>4. QED
    BY <2>1, <2>2, <2>3, Zenon DEF FrameSent
<1>3. CASE BcastKill
  BY <1>3, Zenon DEF BcastKill, Die, clientVars
<1>4. QED
  BY <1>1, <1>2, <1>3

(* The broker's sends keep the types. *)
LEMMA SendType ==
  ASSUME TypeOK, SendReply \/ BcastSend \/ BcastFail \/ BcastKill
  PROVE  TypeOK'
<1> USE NodeAssumption, ProcAssumption, BoundAssumption DEF TypeOK
<1>0. down' \in [Proc -> Seq(BrokerFrame)]
  <2>1. CASE down' = down
    BY <2>1 DEF SocketType
  <2>2. CASE down' # down
    <3>1. PICK n \in Node, frame \in BrokerFrame : FrameSent(n, frame)
      BY <2>2, SendOutcome, Zenon
    <3>2. QED
      BY <3>1, PeerType, DownType DEF FrameSent
  <2>3. QED
    BY <2>1, <2>2
<1>1. CASE Die("killed")
  BY <1>1, DieType
<1>2. CASE SendReply /\ ~Die("killed")
  <2>1. cur \in Node
    BY <1>2 DEF SendReply, BrokerType
  <2>2. /\ pc' = "pass" /\ cur' = cur + 1
        /\ UNCHANGED <<kernelVars, rset, connfd, link_count, cmd, work, st, up, rd, sent, log>>
    BY <1>2, Zenon DEF SendReply
  <2>3. BrokerType'
    BY <2>1, <2>2 DEF BrokerType, kernelVars, Node
  <2>4. QED
    BY <1>0, <2>2, <2>3, Zenon DEF KernelType, SocketType, kernelVars
<1>3. CASE BcastSend
  <2>1. work' \subseteq work
    BY <1>3, Zenon DEF BcastSend
  <2>2. QED
    BY <1>0, <1>3, <2>1 DEF BcastSend, KernelType, BrokerType, SocketType, kernelVars
<1>4. CASE BcastFail
  <2>1. PICK e \in Node : close_s(e)
    BY <1>4, Zenon DEF BcastFail, DropFailed
  <2>2. /\ fdtab' \in [Fd -> Proc \cup {NoProc}]
        /\ connfd' \in [Node -> {-1, 0} \cup Fd]
    BY <2>1, CloseType
  <2>3. BrokerType'
    BY <1>4, <2>2 DEF BcastFail, DropFailed, BrokerType, Node
  <2>4. QED
    BY <1>0, <1>4, <2>2, <2>3 DEF BcastFail, KernelType, SocketType
<1>5. CASE BcastKill
  BY <1>1, <1>5 DEF BcastKill
<1>6. QED
  BY <1>1, <1>2, <1>3, <1>4, <1>5

(* Every reachable state of the broker and its clients is well typed. *)
THEOREM TypeCorrect == Spec => []TypeOK
<1>1. Init => TypeOK
  BY NodeAssumption, ProcAssumption, BoundAssumption
     DEF Init, CallocNodes, TypeOK, KernelType, BrokerType, SocketType, ClientState, Fd, Node
<1>2. TypeOK /\ [Next]_vars => TypeOK'
  <2> SUFFICES ASSUME TypeOK, [Next]_vars PROVE TypeOK'
    OBVIOUS
  <2>1. CASE BrokerNext
    BY <2>1, LoopType, RecvType, SendType DEF BrokerNext
  <2>2. CASE \E q \in Proc : ClientNext(q)
    BY <2>2, ClientType
  <2>3. CASE UNCHANGED vars
    BY <2>3 DEF vars, kernelVars, brokerVars, clientVars, TypeOK, KernelType, BrokerType, SocketType
  <2>4. QED
    BY <2>1, <2>2, <2>3 DEF Next
<1>3. QED
  BY <1>1, <1>2, PTL DEF Spec

-----------------------------------------------------------------------------
(* Descriptors and nodes.  Two nodes never share a descriptor: both would  *)
(* have the name of its peer.  So the one connfd that close_s resets is    *)
(* the only copy of the descriptor it closes.  The argument needs the      *)
(* names of the configuration to differ, which conf.c does not check.      *)

(* main's comparison of names is equality. *)
LEMMA MatchIsEquality ==
  ASSUME NEW n \in Node, NEW name \in Seq(Nat), NameMatches(n, name)
  PROVE  NameOf[n] = name
<1>1. NameOf[n] \in Seq(Nat)
  BY NodeAssumption
<1>2. Len(NameOf[n]) = Len(name)
  BY DEF NameMatches
<1>3. \A i \in 1..Len(NameOf[n]) : NameOf[n][i] = name[i]
  BY DEF NameMatches, isStrSameN
<1>4. QED
  BY <1>1, <1>2, <1>3, SeqEqual

OwnInv == TypeOK /\ NodeOwnsPeer /\ NeverExits

(* close_s leaves the other nodes their connections. *)
LEMMA CloseKeepsOwners ==
  ASSUME OwnInv, BrokerUp, NamesDistinct, NEW e \in Node, close_s(e)
  PROVE  \A n \in Node : connfd'[n] > 0 => /\ fdtab'[connfd'[n]] # NoProc
                                           /\ ProcName[fdtab'[connfd'[n]]] = NameOf[n]
<1> SUFFICES ASSUME NEW n \in Node, connfd'[n] > 0
             PROVE  fdtab'[connfd'[n]] # NoProc /\ ProcName[fdtab'[connfd'[n]]] = NameOf[n]
  OBVIOUS
<1> USE DEF OwnInv, TypeOK
<1>1. n # e /\ connfd'[n] = connfd[n]
  BY DEF close_s, BrokerType
<1>2. fdtab[connfd[n]] # NoProc /\ ProcName[fdtab[connfd[n]]] = NameOf[n]
  BY <1>1 DEF NodeOwnsPeer
<1>3. connfd[e] > 0 => connfd[e] # connfd[n]
  BY <1>1, <1>2 DEF NodeOwnsPeer, NamesDistinct
<1>4. connfd[n] \in Fd
  BY <1>1 DEF BrokerType
<1>5. fdtab'[connfd[n]] = fdtab[connfd[n]]
  BY <1>3, <1>4 DEF close_s, KernelType
<1>6. QED
  BY <1>1, <1>2, <1>5

LEMMA OwnStep ==
  ASSUME NamesDistinct, OwnInv, [Next]_vars, TypeOK'
  PROVE  OwnInv'
<1> USE DEF OwnInv
<1>1. ASSUME UNCHANGED <<pc, fdtab, connfd>> PROVE OwnInv'
  BY <1>1 DEF NodeOwnsPeer, NeverExits, BrokerUp
<1>2. ASSUME UNCHANGED <<fdtab, connfd>>, BrokerUp, pc' # "exited" PROVE OwnInv'
  BY <1>2 DEF NodeOwnsPeer, NeverExits, BrokerUp
<1>3. ASSUME Die("killed") PROVE OwnInv'
  BY <1>3 DEF NodeOwnsPeer, NeverExits, BrokerUp, Die
<1>4. ASSUME NEW e \in Node, close_s(e), BrokerUp, pc' = "pass" PROVE OwnInv'
  BY <1>4, CloseKeepsOwners DEF NodeOwnsPeer, NeverExits
<1>5. CASE Select
  <2>1. BrokerUp /\ \A n \in {k \in Node : connfd[k] > 0} : fdtab[connfd[n]] # NoProc
    BY <1>5 DEF Select, NodeOwnsPeer, BrokerUp
  <2>2. UNCHANGED kernelVars /\ connfd' = connfd /\ pc' = IF backlog # <<>> THEN "accept" ELSE "pass"
    BY <1>5, <2>1, Zenon DEF Select
  <2>3. QED
    BY <1>2, <2>1, <2>2 DEF kernelVars
<1>6. CASE Accept
  <2> DEFINE p == Head(backlog)
             un == ProcName[p]
             mine == Matching(p)
  <2>1. BrokerUp /\ pc' = "select"
    BY <1>6 DEF Accept, BrokerUp
  <2>2. backlog \in Seq(Proc) /\ backlog # <<>>
    BY <1>6 DEF Accept, TypeOK, KernelType, BrokerType
  <2>3. p \in Proc /\ un \in Seq(Nat) /\ p # NoProc
    BY <2>2, HeadTailProperties, ProcAssumption
  <2>4. CASE UNCHANGED <<fdtab, connfd>>
    BY <1>2, <2>1, <2>4
  <2>5. CASE ~UNCHANGED <<fdtab, connfd>>
    <3>1. PICK f \in FreeFds :
            /\ fdtab' = [fdtab EXCEPT ![f] = p]
            /\ connfd' = [n \in Node |-> IF n \in mine THEN f ELSE connfd[n]]
      BY <1>6, <2>5, Zenon DEF Accept, Register
    <3>2. f \in Fd /\ fdtab[f] = NoProc
      BY DEF FreeFds
    <3>3. \A n \in mine : NameOf[n] = un
      BY <2>3, MatchIsEquality DEF Matching
    <3> HIDE DEF mine, un, p
    <3>4. ASSUME NEW n \in Node, connfd'[n] > 0
          PROVE  fdtab'[connfd'[n]] # NoProc /\ ProcName[fdtab'[connfd'[n]]] = NameOf[n]
      <4>1. CASE n \in mine
        BY <2>3, <3>1, <3>2, <3>3, <4>1 DEF un, TypeOK, KernelType
      <4>2. CASE n \notin mine
        <5>1. connfd'[n] = connfd[n]
          BY <3>1, <4>2
        <5>2. fdtab[connfd[n]] # NoProc /\ ProcName[fdtab[connfd[n]]] = NameOf[n]
          BY <2>1, <3>4, <5>1 DEF NodeOwnsPeer
        <5>3. connfd[n] \in Fd /\ connfd[n] # f
          BY <3>2, <3>4, <5>1, <5>2 DEF TypeOK, BrokerType
        <5>4. QED
          BY <3>1, <5>1, <5>2, <5>3 DEF TypeOK, KernelType
      <4>3. QED
        BY <4>1, <4>2
    <3>5. QED
      BY <2>1, <3>4 DEF NodeOwnsPeer, NeverExits
  <2>6. QED
    BY <2>4, <2>5
<1>7. CASE RecvFail
  <2>1. cur \in Node /\ close_s(cur) /\ BrokerUp /\ pc' = "pass"
    BY <1>7, NodeAssumption DEF RecvFail, TypeOK, BrokerType, Node, BrokerUp
  <2>2. QED
    BY <1>4, <2>1
<1>8. CASE BcastFail
  <2>1. BrokerUp /\ pc' = "pass" /\ \E e \in Node : close_s(e)
    BY <1>8 DEF BcastFail, DropFailed, BrokerUp
  <2>2. QED
    BY <1>4, <2>1
<1>9. CASE RecvCmd
  <2>1. UNCHANGED <<fdtab, connfd>> /\ pc = "pass" /\ pc' \in {"reply", "pass", "bcast"}
    BY <1>9, Zenon DEF RecvCmd, kernelVars
  <2>2. QED
    BY <1>2, <2>1 DEF BrokerUp
<1>10. CASE SendReply
  <2>1. CASE Die("killed")
    BY <1>3, <2>1
  <2>2. CASE ~Die("killed")
    <3>1. UNCHANGED <<fdtab, connfd>> /\ pc = "reply" /\ pc' = "pass"
      BY <1>10, <2>2, Zenon DEF SendReply, kernelVars
    <3>2. QED
      BY <1>2, <3>1 DEF BrokerUp
  <2>3. QED
    BY <2>1, <2>2
<1>11. CASE BcastKill
  BY <1>3, <1>11 DEF BcastKill
<1>12. CASE PassSkip \/ PassEnd \/ BcastDone \/ BcastSend
  <2>1. UNCHANGED <<fdtab, connfd>> /\ pc \in {"pass", "bcast"} /\ pc' \in {"pass", "select", "bcast"}
    BY <1>12, Zenon DEF PassSkip, PassEnd, BcastDone, BcastSend, kernelVars
  <2>2. QED
    BY <1>2, <2>1 DEF BrokerUp
<1>13. ASSUME NEW q \in Proc, ClientNext(q) PROVE OwnInv'
  <2>1. UNCHANGED <<pc, fdtab, connfd>>
    BY <1>13, Zenon DEF ClientNext, Unlink, Bind, Connect, SendHead, SendBody, RecvData, ClientClose,
                        kernelVars, brokerVars
  <2>2. QED
    BY <1>1, <2>1
<1>14. CASE UNCHANGED vars
  BY <1>1, <1>14 DEF vars, kernelVars, brokerVars
<1>15. QED
  BY <1>5, <1>6, <1>7, <1>8, <1>9, <1>10, <1>11, <1>12, <1>13, <1>14 DEF Next, BrokerNext

LEMMA OwnInvariant ==
  ASSUME NamesDistinct
  PROVE  Spec => []OwnInv
<1>1. Init /\ TypeOK => OwnInv
  BY NodeAssumption DEF Init, CallocNodes, OwnInv, NodeOwnsPeer, NeverExits, BrokerUp
<1>2. OwnInv /\ [Next]_vars /\ TypeOK' => OwnInv'
  BY OwnStep
<1>3. QED
  BY <1>1, <1>2, TypeCorrect, PTL DEF Spec

(* Whatever clients do, in whatever order they crash and reconnect, the    *)
(* descriptor in a node's connfd is open and belongs to a client of that   *)
(* node's name (close_s, accept and the registration loop of main.c).      *)
THEOREM OwnsPeer ==
  ASSUME NamesDistinct
  PROVE  Spec => []NodeOwnsPeer
<1>1. OwnInv => NodeOwnsPeer
  BY DEF OwnInv
<1>2. QED
  BY <1>1, OwnInvariant, PTL

(* select never fails on a closed descriptor: the loop of main.c never     *)
(* takes its break.                                                        *)
THEOREM LoopNeverBreaks ==
  ASSUME NamesDistinct
  PROVE  Spec => []NeverExits
<1>1. OwnInv => NeverExits
  BY DEF OwnInv
<1>2. QED
  BY <1>1, OwnInvariant, PTL

-----------------------------------------------------------------------------
(* The snapshot select has taken.  What the pass does to one node does not *)
(* disturb the others: no other node has its descriptor or its peer.       *)

SnapshotInv == OwnInv /\ SnapshotValid

(* The nodes the pass has still to serve. *)
Ahead(n) == (pc = "pass" /\ n >= cur) \/ (pc \in {"reply", "bcast"} /\ n > cur)

(* Clients only make descriptors readable. *)
LEMMA ReadableStays ==
  ASSUME TypeOK, NEW q \in Proc, ClientNext(q), NEW p \in Proc
  PROVE  /\ st[p] = "closed" => st'[p] = "closed"
         /\ up[p] # <<>> => up'[p] # <<>>
<1>1. st \in [Proc -> ClientState] /\ up \in [Proc -> Seq(ClientFrame)]
  BY DEF TypeOK, SocketType
<1>2. CASE up' = up
  <2>1. st[p] = "closed" => st'[p] = "closed"
    BY <1>1 DEF ClientNext, Unlink, Bind, Connect, SendHead, SendBody, RecvData, ClientClose, SendBroken
  <2>2. QED
    BY <1>2, <2>1
<1>3. ASSUME NEW c \in Commands, SendHead(q, c), up' # up
      PROVE  st' = st /\ (up[p] # <<>> => up'[p] # <<>>)
  <2> DEFINE m == Frame(q, sent[q] + 1, c, FirstPart(c))
  <2>1. st' = st /\ up' = [up EXCEPT ![q] = Append(up[q], m)]
    BY <1>3, Zenon DEF SendHead, SendBroken
  <2>2. m \in ClientFrame
    BY BoundAssumption DEF TypeOK, SocketType, Frame, FirstPart, ClientFrame
  <2> HIDE DEF m
  <2>3. Append(up[q], m) # <<>>
    BY <1>1, <2>2, AppendProperties
  <2>4. QED
    BY <1>1, <2>1, <2>3
<1>4. ASSUME SendBody(q), up' # up
      PROVE  st' = st /\ (up[p] # <<>> => up'[p] # <<>>)
  <2> DEFINE l == Len(up[q])
             g == [up[q][l] EXCEPT !.part = "whole"]
  <2>1. st' = st /\ up' = [up EXCEPT ![q][l].part = "whole"]
    BY <1>4, Zenon DEF SendBody, SendBroken
  <2>2. up[q] \in Seq(ClientFrame) /\ up[q] # <<>>
    BY <1>1, <1>4 DEF SendBody, MidFrame
  <2>3. l \in 1..Len(up[q]) /\ up[q][l] \in ClientFrame
    BY <2>2, EmptySeq, ElementOfSeq
  <2>4. g \in ClientFrame
    BY <2>3 DEF ClientFrame
  <2>5. up' = [up EXCEPT ![q] = [up[q] EXCEPT ![l] = g]]
    BY <2>1
  <2> HIDE DEF g, l
  <2>6. Len([up[q] EXCEPT ![l] = g]) = Len(up[q]) /\ [up[q] EXCEPT ![l] = g] \in Seq(ClientFrame)
    BY <2>2, <2>3, <2>4, ExceptSeq, LenProperties
  <2>7. [up[q] EXCEPT ![l] = g] # <<>>
    BY <2>2, <2>6, EmptySeq
  <2>8. QED
    BY <1>1, <2>1, <2>5, <2>7
<1>5. CASE Unlink(q) \/ Bind(q) \/ Connect(q) \/ RecvData(q) \/ ClientClose(q)
  <2>1. up' = up
    BY <1>5, Zenon DEF Unlink, Bind, Connect, RecvData, ClientClose
  <2>2. QED
    BY <1>2, <2>1
<1>6. QED
  BY <1>2, <1>3, <1>4, <1>5 DEF ClientNext

(* close_s leaves the other nodes' snapshot valid. *)
LEMMA SnapshotClose ==
  ASSUME NamesDistinct, OwnInv, BrokerUp, NEW e \in Node, close_s(e), UNCHANGED <<up, st, rset>>,
         NEW n \in Node, connfd'[n] \in rset',
         n # e => fdtab[connfd[n]] # NoProc /\ Readable(connfd[n])
  PROVE  /\ fdtab'[connfd'[n]] # NoProc
         /\ up'[fdtab'[connfd'[n]]] # <<>> \/ st'[fdtab'[connfd'[n]]] = "closed"
<1> USE DEF OwnInv, TypeOK
<1>1. connfd \in [Node -> {-1, 0} \cup Fd] /\ fdtab \in [Fd -> Proc \cup {NoProc}] /\ rset \subseteq Fd
  BY DEF BrokerType, KernelType
<1>2. \A f \in Fd : f > 0
  BY BoundAssumption DEF Fd
<1>3. n # e
  <2>1. CASE n = e
    <3>1. connfd'[n] = -1
      BY <1>1, <2>1 DEF close_s
    <3>2. QED
      BY <1>1, <1>2, <3>1
  <2>2. QED
    BY <2>1
<1>4. connfd'[n] = connfd[n] /\ connfd[n] \in Fd /\ connfd[n] > 0
  BY <1>1, <1>2, <1>3 DEF close_s
<1>5. connfd[e] > 0 => connfd[e] # connfd[n]
  BY <1>3, <1>4 DEF NodeOwnsPeer, NamesDistinct
<1>6. fdtab'[connfd[n]] = fdtab[connfd[n]]
  BY <1>1, <1>4, <1>5 DEF close_s
<1>7. QED
  BY <1>3, <1>4, <1>6 DEF Readable

LEMMA SnapshotStep ==
  ASSUME NamesDistinct, SnapshotInv, [Next]_vars, OwnInv'
  PROVE  SnapshotValid'
<1> USE DEF SnapshotInv
<1>0. TypeOK /\ NodeOwnsPeer /\ cur \in 1..(NodeCount + 1) /\ NodeCount \in Nat
  BY NodeAssumption DEF OwnInv, TypeOK, BrokerType
<1>1. ASSUME pc' \notin {"pass", "reply", "bcast"} PROVE SnapshotValid'
  BY <1>1 DEF SnapshotValid
<1>2. ASSUME UNCHANGED <<fdtab, rset, connfd, up, st>>, \A n \in Node : Ahead(n)' => Ahead(n)
      PROVE  SnapshotValid'
  BY <1>2 DEF SnapshotValid, Ahead, Readable
<1>3. CASE Select
  <2> DEFINE watched == {n \in Node : connfd[n] > 0}
  <2>1. CASE pc' # "exited"
    <3>1. /\ \A n \in watched : fdtab[connfd[n]] # NoProc
          /\ rset' = {connfd[n] : n \in {m \in watched : Readable(connfd[m])}}
          /\ UNCHANGED <<kernelVars, connfd, clientVars>>
      BY <1>3, <2>1, Zenon DEF Select, Die
    <3>2. \A n \in Node : connfd[n] \in rset' => fdtab[connfd[n]] # NoProc /\ Readable(connfd[n])
      BY <3>1
    <3>3. QED
      BY <3>1, <3>2 DEF SnapshotValid, Readable, kernelVars, clientVars
  <2>2. QED
    BY <1>1, <2>1
<1>4. CASE Accept \/ PassEnd \/ BcastKill
  BY <1>1, <1>4 DEF Accept, PassEnd, BcastKill, Die
<1>5. CASE PassSkip \/ BcastDone
  <2>1. UNCHANGED <<fdtab, rset, connfd, up, st>> /\ cur' = cur + 1 /\ pc' = "pass" /\ pc \in {"pass", "bcast"}
    BY <1>5, Zenon DEF PassSkip, BcastDone, kernelVars, clientVars
  <2>2. \A n \in Node : Ahead(n)' => Ahead(n)
    BY <1>0, <2>1 DEF Ahead, Node
  <2>3. QED
    BY <1>2, <2>1, <2>2
<1>6. CASE BcastSend
  <2>1. UNCHANGED <<fdtab, rset, connfd, up, st, pc, cur>>
    BY <1>6, Zenon DEF BcastSend, kernelVars
  <2>2. QED
    BY <1>2, <2>1 DEF Ahead
<1>7. CASE SendReply
  <2>1. CASE Die("killed")
    BY <1>1, <2>1 DEF Die
  <2>2. CASE ~Die("killed")
    <3>1. UNCHANGED <<fdtab, rset, connfd, up, st>> /\ cur' = cur + 1 /\ pc' = "pass" /\ pc = "reply"
      BY <1>7, <2>2, Zenon DEF SendReply, kernelVars
    <3>2. \A n \in Node : Ahead(n)' => Ahead(n)
      BY <1>0, <3>1 DEF Ahead, Node
    <3>3. QED
      BY <1>2, <3>1, <3>2
  <2>3. QED
    BY <2>1, <2>2
<1>8. CASE RecvFail
  <2>1. /\ cur \in Node /\ close_s(cur) /\ UNCHANGED <<up, st, rset>>
        /\ pc = "pass" /\ pc' = "pass" /\ cur' = cur + 1
    BY <1>0, <1>8 DEF RecvFail, clientVars, Node
  <2> SUFFICES ASSUME NEW n \in Node, n >= cur', connfd'[n] \in rset'
               PROVE  /\ fdtab'[connfd'[n]] # NoProc
                      /\ up'[fdtab'[connfd'[n]]] # <<>> \/ st'[fdtab'[connfd'[n]]] = "closed"
    BY <2>1 DEF SnapshotValid, Readable
  <2>2. n # cur /\ n >= cur
    BY <1>0, <2>1 DEF Node
  <2>3. connfd[n] \in rset
    BY <1>0, <2>1, <2>2 DEF close_s, TypeOK, BrokerType
  <2>4. fdtab[connfd[n]] # NoProc /\ Readable(connfd[n])
    BY <2>1, <2>2, <2>3 DEF SnapshotValid
  <2>5. QED
    BY <2>1, <2>4, SnapshotClose DEF BrokerUp
<1>9. CASE BcastFail
  <2>1. PICK e \in Node : close_s(e)
    BY <1>9, Zenon DEF BcastFail, DropFailed
  <2>2. UNCHANGED <<up, st, rset>> /\ pc = "bcast" /\ pc' = "pass" /\ cur' = cur + 1
    BY <1>9 DEF BcastFail
  <2> SUFFICES ASSUME NEW n \in Node, n >= cur', connfd'[n] \in rset'
               PROVE  /\ fdtab'[connfd'[n]] # NoProc
                      /\ up'[fdtab'[connfd'[n]]] # <<>> \/ st'[fdtab'[connfd'[n]]] = "closed"
    BY <2>2 DEF SnapshotValid, Readable
  <2>3. n > cur
    BY <1>0, <2>2 DEF Node
  <2>4. n # e => connfd[n] \in rset
    BY <1>0, <2>1, <2>2 DEF close_s, TypeOK, BrokerType
  <2>5. n # e => fdtab[connfd[n]] # NoProc /\ Readable(connfd[n])
    BY <2>2, <2>3, <2>4 DEF SnapshotValid
  <2>6. QED
    BY <2>1, <2>2, <2>5, SnapshotClose DEF BrokerUp
<1>10. CASE RecvCmd
  <2> DEFINE q == fdtab[connfd[cur]]
  <2>1. /\ cur \in Node /\ q \in Proc /\ up' = [up EXCEPT ![q] = Tail(up[q])] /\ pc = "pass"
        /\ UNCHANGED <<kernelVars, rset, connfd, st>> /\ Outcome(q, Head(up[q]))
    BY <1>0, <1>10, RecvCmdTakes, RecvCmdOutcome
  <2>2. connfd[cur] \in Fd /\ connfd[cur] > 0
    <3>1. connfd[cur] \in rset
      BY <1>10, Zenon DEF RecvCmd
    <3>2. connfd[cur] \in Fd
      BY <1>0, <3>1 DEF TypeOK, BrokerType
    <3>3. QED
      BY <3>2, BoundAssumption DEF Fd
  <2>3. ASSUME NEW n \in Node, Ahead(n)' PROVE n > cur
    <3>1. \/ pc' \in {"reply", "bcast"} /\ cur' = cur
          \/ pc' = "pass" /\ cur' = cur + 1
      BY <2>1 DEF Outcome
    <3>2. QED
      BY <1>0, <2>3, <3>1 DEF Ahead, Node
  <2>4. ASSUME NEW n \in Node, n > cur, connfd[n] \in rset
        PROVE  /\ fdtab[connfd[n]] # NoProc
               /\ up'[fdtab[connfd[n]]] # <<>> \/ st[fdtab[connfd[n]]] = "closed"
    <3>1. fdtab[connfd[n]] # NoProc /\ Readable(connfd[n])
      BY <1>0, <2>1, <2>4 DEF SnapshotValid, Node
    <3>2. connfd[n] \in Fd /\ connfd[n] > 0
      BY <1>0, <2>4, BoundAssumption DEF TypeOK, BrokerType, Fd
    <3>3. fdtab[connfd[n]] # q
      BY <1>0, <2>1, <2>2, <2>4, <3>2 DEF NodeOwnsPeer, BrokerUp, NamesDistinct, Node
    <3>4. fdtab[connfd[n]] \in Proc
      BY <1>0, <3>1, <3>2 DEF TypeOK, KernelType
    <3>5. up'[fdtab[connfd[n]]] = up[fdtab[connfd[n]]]
      BY <1>0, <2>1, <3>3, <3>4 DEF TypeOK, SocketType
    <3>6. QED
      BY <2>1, <3>1, <3>5 DEF Readable, kernelVars
  <2>5. QED
    BY <2>1, <2>3, <2>4 DEF SnapshotValid, Ahead, Readable, kernelVars
<1>11. ASSUME NEW q \in Proc, ClientNext(q) PROVE SnapshotValid'
  <2>1. UNCHANGED <<fdtab, rset, connfd, pc, cur>>
    BY <1>11, Zenon DEF ClientNext, Unlink, Bind, Connect, SendHead, SendBody, RecvData, ClientClose,
                        kernelVars, brokerVars
  <2>2. ASSUME NEW n \in Node, connfd[n] \in rset, fdtab[connfd[n]] # NoProc, Readable(connfd[n])
        PROVE  Readable(connfd[n])'
    <3>1. fdtab[connfd[n]] \in Proc
      BY <1>0, <2>2 DEF TypeOK, KernelType, BrokerType
    <3>2. QED
      BY <1>0, <1>11, <2>1, <2>2, <3>1, ReadableStays DEF Readable
  <2>3. QED
    BY <2>1, <2>2 DEF SnapshotValid
<1>12. CASE UNCHANGED vars
  BY <1>2, <1>12 DEF vars, kernelVars, brokerVars, clientVars, Ahead
<1>13. QED
  BY <1>3, <1>4, <1>5, <1>6, <1>7, <1>8, <1>9, <1>10, <1>11, <1>12 DEF Next, BrokerNext

(* With distinct names, no bit of rset that the pass has not reached goes  *)
(* stale while the pass closes connections and consumes commands, so that  *)
(* recv is never called for a client that has sent nothing.                *)
THEOREM SnapshotNeverStale ==
  ASSUME NamesDistinct
  PROVE  Spec => []SnapshotValid
<1>1. Init /\ OwnInv => SnapshotInv
  BY DEF Init, SnapshotInv, SnapshotValid
<1>2. SnapshotInv /\ [Next]_vars /\ OwnInv' => SnapshotInv'
  BY SnapshotStep DEF SnapshotInv
<1>3. SnapshotInv => SnapshotValid
  BY DEF SnapshotInv
<1>4. QED
  BY <1>1, <1>2, <1>3, OwnInvariant, PTL DEF Spec

-----------------------------------------------------------------------------
(* What clients are sent, and in which order. *)

(* Numbers grow along a client's stream, and the log has only smaller      *)
(* ones: a command is either still on the stream or in the log.            *)
StreamInv ==
  \A p \in Proc :
    /\ \A i \in 1..Len(up[p]) : up[p][i].num <= sent[p]
    /\ \A i, j \in 1..Len(up[p]) : i < j => up[p][i].num < up[p][j].num

LogInv ==
  \A r \in 1..Len(log) :
    /\ log[r].num <= sent[log[r].src]
    /\ \A i \in 1..Len(up[log[r].src]) : log[r].num < up[log[r].src][i].num
    /\ \A s \in 1..Len(log) : (r < s /\ log[r].src = log[s].src) => log[r].num < log[s].num

(* The broadcasts on a connection refer to the log, in its order. *)
DownInv ==
  \A p \in Proc : \A i \in 1..Len(down[p]) : down[p][i].kind = "bcast" =>
    /\ down[p][i].ref \in 1..Len(log)
    /\ \A j \in 1..Len(down[p]) :
         (i < j /\ down[p][j].kind = "bcast") => down[p][i].ref <= down[p][j].ref

(* A broadcast under way is the last entry of the log. *)
BcastInv == pc = "bcast" => Len(log) > 0

OrderInv == TypeOK /\ StreamInv /\ LogInv /\ DownInv /\ BcastInv

(* The members of the streams and of the log. *)
LEMMA UpFrame ==
  ASSUME TypeOK, NEW p \in Proc, NEW i \in 1..Len(up[p])
  PROVE  up[p][i] \in ClientFrame /\ up[p][i].num \in Nat
<1>1. up[p] \in Seq(ClientFrame)
  BY DEF TypeOK, SocketType
<1>2. up[p][i] \in ClientFrame
  BY <1>1, ElementOfSeq
<1>3. QED
  BY <1>2 DEF ClientFrame

LEMMA LogRecord ==
  ASSUME TypeOK, NEW r \in 1..Len(log)
  PROVE  /\ log[r].src \in Proc /\ log[r].num \in Nat
         /\ log[r].ids \in Seq(1..255)
<1>1. log[r] \in LogEntry
  BY ElementOfSeq DEF TypeOK
<1>2. QED
  BY <1>1 DEF LogEntry

(* A client's new command has the largest number. *)
LEMMA OrderSendHead ==
  ASSUME OrderInv, NEW q \in Proc, NEW c \in Commands, SendHead(q, c), TypeOK'
  PROVE  OrderInv'
<1> USE DEF OrderInv
<1> DEFINE m == Frame(q, sent[q] + 1, c, FirstPart(c))
<1>1. UNCHANGED <<log, down, pc>>
  BY Zenon DEF SendHead, kernelVars, brokerVars
<1>2. DownInv' /\ BcastInv'
  BY <1>1 DEF DownInv, BcastInv
<1>3. CASE UNCHANGED <<up, sent>>
  BY <1>1, <1>2, <1>3 DEF StreamInv, LogInv
<1>4. CASE ~UNCHANGED <<up, sent>>
  <2>1. up' = [up EXCEPT ![q] = Append(up[q], m)] /\ sent' = [sent EXCEPT ![q] = sent[q] + 1]
    BY <1>4, Zenon DEF SendHead, SendBroken
  <2>2. m \in ClientFrame /\ m.num = sent[q] + 1
    BY BoundAssumption DEF TypeOK, SocketType, Frame, FirstPart, ClientFrame
  <2> HIDE DEF m
  <2>3. up \in [Proc -> Seq(ClientFrame)] /\ sent \in [Proc -> Nat] /\ log \in Seq(LogEntry)
    BY DEF TypeOK, SocketType
  <2>4. /\ Len(up'[q]) = Len(up[q]) + 1
        /\ \A i \in 1..Len(up[q]) : up'[q][i] = up[q][i]
        /\ up'[q][Len(up[q]) + 1] = m
        /\ \A p \in Proc \ {q} : up'[p] = up[p] /\ sent'[p] = sent[p]
        /\ sent'[q] = sent[q] + 1
        /\ Len(up[q]) \in Nat
    BY <2>1, <2>2, <2>3, AppendProperties, LenProperties
  <2>5. \A p \in Proc : \A i \in 1..Len(up[p]) : up[p][i].num \in Nat
    BY UpFrame
  <2>6. \A r \in 1..Len(log) : log[r].src \in Proc /\ log[r].num \in Nat
    BY LogRecord
  <2>7. StreamInv'
    <3> SUFFICES ASSUME NEW p \in Proc
                 PROVE  /\ \A i \in 1..Len(up'[p]) : up'[p][i].num <= sent'[p]
                        /\ \A i, j \in 1..Len(up'[p]) : i < j => up'[p][i].num < up'[p][j].num
      BY DEF StreamInv
    <3>1. CASE p = q
      <4>1. \A i \in 1..Len(up'[q]) : i \in 1..Len(up[q]) \/ i = Len(up[q]) + 1
        BY <2>4
      <4>2. sent[q] \in Nat
        BY <2>3
      <4>3. \A i \in 1..Len(up[q]) : up'[q][i].num \in Nat /\ up'[q][i].num <= sent[q]
        BY <2>4, <2>5 DEF StreamInv
      <4>4. \A i \in 1..Len(up'[q]) : up'[q][i].num <= sent'[q]
        BY <2>2, <2>4, <4>1, <4>2, <4>3
      <4>5. \A i, j \in 1..Len(up'[q]) : i < j => up'[q][i].num < up'[q][j].num
        <5> SUFFICES ASSUME NEW i \in 1..Len(up'[q]), NEW j \in 1..Len(up'[q]), i < j
                     PROVE  up'[q][i].num < up'[q][j].num
          OBVIOUS
        <5>1. i \in 1..Len(up[q])
          <6> DEFINE k == Len(up[q])
          <6>1. Len(up'[q]) = k + 1 /\ k \in Nat
            BY <2>4
          <6> HIDE DEF k
          <6>2. i \in 1..k
            BY <6>1
          <6>3. QED
            BY <6>2 DEF k
        <5>2. CASE j \in 1..Len(up[q])
          BY <2>4, <5>1, <5>2 DEF StreamInv
        <5>3. CASE j = Len(up[q]) + 1
          <6>1. up'[q][j].num = sent[q] + 1
            BY <2>2, <2>4, <5>3
          <6>2. up'[q][i].num \in Nat /\ up'[q][i].num <= sent[q]
            BY <4>3, <5>1
          <6>3. QED
            BY <4>2, <6>1, <6>2
        <5>4. QED
          BY <4>1, <5>2, <5>3
      <4>6. QED
        BY <3>1, <4>4, <4>5
    <3>2. CASE p # q
      BY <2>4, <3>2 DEF StreamInv
    <3>3. QED
      BY <3>1, <3>2
  <2>8. LogInv'
    <3> SUFFICES ASSUME NEW r \in 1..Len(log)
                 PROVE  /\ log[r].num <= sent'[log[r].src]
                        /\ \A i \in 1..Len(up'[log[r].src]) : log[r].num < up'[log[r].src][i].num
                        /\ \A s \in 1..Len(log) : (r < s /\ log[r].src = log[s].src) => log[r].num < log[s].num
      BY <1>1 DEF LogInv
    <3>1. CASE log[r].src = q
      <4>1. log[r].num \in Nat /\ sent[q] \in Nat /\ log[r].num <= sent[q]
        BY <2>3, <2>6, <3>1 DEF LogInv
      <4>2. \A i \in 1..Len(up[q]) : log[r].num < up'[q][i].num
        BY <2>4, <3>1 DEF LogInv
      <4>3. \A i \in 1..Len(up'[q]) : i \in 1..Len(up[q]) \/ i = Len(up[q]) + 1
        BY <2>4
      <4>4. log[r].num < up'[q][Len(up[q]) + 1].num
        BY <2>2, <2>4, <4>1
      <4>5. \A i \in 1..Len(up'[q]) : log[r].num < up'[q][i].num
        BY <4>2, <4>3, <4>4
      <4>6. log[r].num <= sent'[q]
        BY <2>4, <4>1
      <4>7. QED
        BY <3>1, <4>5, <4>6 DEF LogInv
    <3>2. CASE log[r].src # q
      BY <2>4, <2>6, <3>2 DEF LogInv
    <3>3. QED
      BY <3>1, <3>2
  <2>9. QED
    BY <1>2, <2>7, <2>8
<1>5. QED
  BY <1>3, <1>4

(* The body of a command changes no number. *)
LEMMA OrderSendBody ==
  ASSUME OrderInv, NEW q \in Proc, SendBody(q), TypeOK'
  PROVE  OrderInv'
<1> USE DEF OrderInv
<1> DEFINE l == Len(up[q])
<1>1. UNCHANGED <<log, down, pc, sent>> /\ (up' = up \/ up' = [up EXCEPT ![q][l].part = "whole"])
  BY Zenon DEF SendBody, SendBroken, kernelVars, brokerVars
<1>2. up \in [Proc -> Seq(ClientFrame)] /\ log \in Seq(LogEntry)
  BY DEF TypeOK, SocketType
<1>3. \A p \in Proc : Len(up'[p]) = Len(up[p]) /\ \A i \in 1..Len(up[p]) : up'[p][i].num = up[p][i].num
  <2>1. CASE up' = up
    BY <2>1
  <2>2. CASE up' # up
    <3>1. up[q] \in Seq(ClientFrame) /\ up[q] # <<>>
      BY <1>2 DEF SendBody, MidFrame
    <3>2. l \in 1..Len(up[q]) /\ up[q][l] \in ClientFrame
      BY <3>1, EmptySeq, ElementOfSeq
    <3> DEFINE g == [up[q][l] EXCEPT !.part = "whole"]
    <3>3. g \in ClientFrame /\ g.num = up[q][l].num
      BY <3>2 DEF ClientFrame
    <3>4. up' = [up EXCEPT ![q] = [up[q] EXCEPT ![l] = g]]
      BY <1>1, <2>2
    <3> HIDE DEF g, l
    <3>5. /\ Len([up[q] EXCEPT ![l] = g]) = Len(up[q])
          /\ \A i \in 1..Len(up[q]) : [up[q] EXCEPT ![l] = g][i] = IF i = l THEN g ELSE up[q][i]
      BY <3>1, <3>2, <3>3, ExceptSeq, LenProperties
    <3>6. QED
      BY <1>2, <3>3, <3>4, <3>5
  <2>3. QED
    BY <2>1, <2>2
<1>4. \A r \in 1..Len(log) : log[r].src \in Proc
  BY LogRecord
<1>5. StreamInv'
  BY <1>1, <1>3 DEF StreamInv
<1>6. LogInv'
  BY <1>1, <1>3, <1>4 DEF LogInv
<1>7. DownInv' /\ BcastInv'
  BY <1>1 DEF DownInv, BcastInv
<1>8. QED
  BY <1>5, <1>6, <1>7

(* The broker takes the oldest command of a stream; a broadcast becomes    *)
(* the last entry of the log.                                              *)
LEMMA OrderRecvCmd ==
  ASSUME OrderInv, RecvCmd, TypeOK'
  PROVE  OrderInv'
<1> SUFFICES ASSUME NEW q, q = fdtab[connfd[cur]], NEW m, m = Head(up[q])
             PROVE  OrderInv'
  OBVIOUS
<1>0. TypeOK
  BY DEF OrderInv
<1>1. /\ q \in Proc /\ up[q] \in Seq(ClientFrame) /\ up[q] # <<>>
      /\ up' = [up EXCEPT ![q] = Tail(up[q])]
      /\ UNCHANGED <<down, sent>>
  BY <1>0, RecvCmdTakes
<1>2. \/ log' = log /\ pc' # "bcast"
      \/ \E e \in LogEntry : e.src = q /\ e.num = m.num /\ log' = Append(log, e)
  BY <1>0, RecvCmdOutcome DEF Outcome
<1> USE DEF OrderInv
<1>3. /\ up[q][1] = m /\ Len(up[q]) \in Nat \ {0}
      /\ Len(up'[q]) = Len(up[q]) - 1
      /\ \A i \in 1..Len(up'[q]) : up'[q][i] = up[q][i + 1]
  BY <1>1, HeadTailProperties, LenProperties, EmptySeq DEF TypeOK, SocketType
<1>4. \A p \in Proc \ {q} : up'[p] = up[p]
  BY <1>1 DEF TypeOK, SocketType
<1>5. \A p \in Proc : \A i \in 1..Len(up[p]) : up[p][i].num \in Nat
  BY UpFrame
<1>6. \A r \in 1..Len(log) : log[r].src \in Proc /\ log[r].num \in Nat
  BY LogRecord
<1>7. \A i \in 1..Len(up'[q]) : i + 1 \in 1..Len(up[q]) /\ 1 < i + 1
  BY <1>3
<1>8. StreamInv'
  <2> SUFFICES ASSUME NEW p \in Proc
               PROVE  /\ \A i \in 1..Len(up'[p]) : up'[p][i].num <= sent[p]
                      /\ \A i, j \in 1..Len(up'[p]) : i < j => up'[p][i].num < up'[p][j].num
    BY <1>1 DEF StreamInv
  <2>1. CASE p = q
    <3>1. \A i \in 1..Len(up'[q]) : up'[q][i].num <= sent[q]
      BY <1>1, <1>3, <1>7 DEF StreamInv
    <3>2. \A i, j \in 1..Len(up'[q]) : i < j => up'[q][i].num < up'[q][j].num
      <4> SUFFICES ASSUME NEW i \in 1..Len(up'[q]), NEW j \in 1..Len(up'[q]), i < j
                   PROVE  up[q][i + 1].num < up[q][j + 1].num
        BY <1>3
      <4>1. i + 1 < j + 1
        OBVIOUS
      <4>2. QED
        BY <1>1, <1>7, <4>1 DEF StreamInv
    <3>3. QED
      BY <2>1, <3>1, <3>2
  <2>2. CASE p # q
    BY <1>4, <2>2 DEF StreamInv
  <2>3. QED
    BY <2>1, <2>2
<1>9. \A r \in 1..Len(log) : \A i \in 1..Len(up'[log[r].src]) : log[r].num < up'[log[r].src][i].num
  <2> SUFFICES ASSUME NEW r \in 1..Len(log), NEW i \in 1..Len(up'[log[r].src])
               PROVE  log[r].num < up'[log[r].src][i].num
    OBVIOUS
  <2>1. CASE log[r].src = q
    BY <1>3, <1>7, <2>1 DEF LogInv
  <2>2. CASE log[r].src # q
    BY <1>4, <1>6, <2>2 DEF LogInv
  <2>3. QED
    BY <2>1, <2>2
<1>10. CASE log' = log /\ pc' # "bcast"
  <2>1. LogInv'
    BY <1>1, <1>9, <1>10 DEF LogInv
  <2>2. DownInv' /\ BcastInv'
    BY <1>1, <1>10 DEF DownInv, BcastInv
  <2>3. QED
    BY <1>8, <2>1, <2>2
<1>11. CASE \E e \in LogEntry : e.src = q /\ e.num = m.num /\ log' = Append(log, e)
  <2>1. PICK e \in LogEntry : e.src = q /\ e.num = m.num /\ log' = Append(log, e)
    BY <1>11
  <2>2. /\ Len(log) \in Nat
        /\ Len(log') = Len(log) + 1
        /\ \A r \in 1..Len(log) : log'[r] = log[r]
        /\ log'[Len(log) + 1] = e
    BY <2>1, AppendProperties, LenProperties DEF TypeOK
  <2>3. \A r \in 1..Len(log') : r \in 1..Len(log) \/ r = Len(log) + 1
    BY <2>2
  <2>4. LogInv'
    <3>1. ASSUME NEW r \in 1..Len(log')
          PROVE  log'[r].num <= sent[log'[r].src]
      <4>1. CASE r \in 1..Len(log)
        BY <2>2, <4>1 DEF LogInv
      <4>2. CASE r = Len(log) + 1
        BY <1>1, <1>3, <2>1, <2>2, <4>2 DEF StreamInv
      <4>3. QED
        BY <2>3, <4>1, <4>2
    <3>2. ASSUME NEW r \in 1..Len(log'), NEW i \in 1..Len(up'[log'[r].src])
          PROVE  log'[r].num < up'[log'[r].src][i].num
      <4>1. CASE r \in 1..Len(log)
        BY <1>9, <2>2, <4>1, <3>2
      <4>2. CASE r = Len(log) + 1
        <5>1. log'[r].src = q /\ log'[r].num = up[q][1].num
          BY <1>3, <2>1, <2>2, <4>2
        <5>2. i \in 1..Len(up'[q])
          BY <5>1, <3>2
        <5>3. up[q][1].num < up[q][i + 1].num
          BY <1>1, <1>3, <1>7, <5>2 DEF StreamInv
        <5>4. QED
          BY <1>3, <5>1, <5>2, <5>3
      <4>3. QED
        BY <2>3, <4>1, <4>2
    <3>3. ASSUME NEW r \in 1..Len(log'), NEW s \in 1..Len(log'), r < s, log'[r].src = log'[s].src
          PROVE  log'[r].num < log'[s].num
      <4>1. r \in 1..Len(log)
        BY <2>2, <3>3
      <4>2. CASE s \in 1..Len(log)
        BY <2>2, <3>3, <4>1, <4>2 DEF LogInv
      <4>3. CASE s = Len(log) + 1
        <5>1. log[r].src = q /\ log'[s].num = up[q][1].num /\ log'[r].num = log[r].num
          BY <1>3, <2>1, <2>2, <3>3, <4>1, <4>3
        <5>2. 1 \in 1..Len(up[q])
          BY <1>3
        <5>3. log[r].num < up[q][1].num
          BY <4>1, <5>1, <5>2 DEF LogInv
        <5>4. QED
          BY <5>1, <5>3
      <4>4. QED
        BY <2>3, <4>2, <4>3
    <3>4. QED
      BY <1>1, <3>1, <3>2, <3>3 DEF LogInv
  <2>5. DownInv'
    <3>1. 1..Len(log) \subseteq 1..Len(log')
      BY <2>2
    <3>2. QED
      BY <1>1, <3>1 DEF DownInv
  <2>6. BcastInv'
    BY <2>2 DEF BcastInv
  <2>7. QED
    BY <1>8, <2>4, <2>5, <2>6
<1>12. QED
  BY <1>2, <1>10, <1>11

LEMMA AtMostLast ==
  ASSUME NEW n \in Nat, NEW k \in 1..n
  PROVE  k <= n
OBVIOUS

(* A frame the broker puts on a connection: a reply, or the last broadcast *)
(* of the log.                                                             *)
LEMMA OrderDown ==
  ASSUME OrderInv, NEW q \in Proc, NEW frame \in BrokerFrame,
         frame.kind = "bcast" => Len(log) > 0 /\ frame.ref = Len(log),
         down' = [down EXCEPT ![q] = Append(down[q], frame)],
         log' = log
  PROVE  DownInv'
<1> USE DEF OrderInv
<1>1. down \in [Proc -> Seq(BrokerFrame)] /\ Len(log) \in Nat
  BY LenProperties DEF TypeOK, SocketType
<1>2. /\ Len(down[q]) \in Nat
      /\ Len(down'[q]) = Len(down[q]) + 1
      /\ \A i \in 1..Len(down[q]) : down'[q][i] = down[q][i]
      /\ down'[q][Len(down[q]) + 1] = frame
  BY <1>1, AppendProperties, LenProperties
<1>3. \A i \in 1..Len(down'[q]) : i \in 1..Len(down[q]) \/ i = Len(down[q]) + 1
  BY <1>2
<1>4. \A p \in Proc \ {q} : down'[p] = down[p]
  BY <1>1
<1> SUFFICES ASSUME NEW p \in Proc, NEW i \in 1..Len(down'[p]), down'[p][i].kind = "bcast"
             PROVE  /\ down'[p][i].ref \in 1..Len(log)
                    /\ \A j \in 1..Len(down'[p]) :
                         (i < j /\ down'[p][j].kind = "bcast") => down'[p][i].ref <= down'[p][j].ref
  BY DEF DownInv
<1>5. CASE p # q
  BY <1>4, <1>5 DEF DownInv
<1>6. CASE p = q
  <2>1. ASSUME NEW k \in 1..Len(down'[q]), down'[q][k].kind = "bcast"
        PROVE  down'[q][k].ref \in 1..Len(log)
    <3>1. CASE k \in 1..Len(down[q])
      BY <1>2, <2>1, <3>1 DEF DownInv
    <3>2. CASE k = Len(down[q]) + 1
      BY <1>1, <1>2, <2>1, <3>2
    <3>3. QED
      BY <1>3, <3>1, <3>2
  <2>2. ASSUME NEW j \in 1..Len(down'[q]), i < j, down'[q][j].kind = "bcast"
        PROVE  down'[q][i].ref <= down'[q][j].ref
    <3>0. i \in 1..Len(down'[q])
      BY <1>6
    <3>1. i \in 1..Len(down[q])
      <4> DEFINE k == Len(down[q])
      <4>1. Len(down'[q]) = k + 1 /\ k \in Nat
        BY <1>2
      <4> HIDE DEF k
      <4>2. i \in 1..k
        BY <2>2, <3>0, <4>1
      <4>3. QED
        BY <4>2 DEF k
    <3>2. CASE j \in 1..Len(down[q])
      <4>1. down'[q][i] = down[q][i] /\ down'[q][j] = down[q][j]
        BY <1>2, <3>1, <3>2
      <4>2. QED
        BY <1>6, <2>2, <3>1, <3>2, <4>1 DEF DownInv
    <3>3. CASE j = Len(down[q]) + 1
      <4>1. down'[q][j].ref = Len(log)
        BY <1>2, <2>2, <3>3
      <4>2. down'[q][i].ref \in 1..Len(log)
        BY <1>6, <2>1, <3>0
      <4>3. down'[q][i].ref <= Len(log)
        BY <1>1, <4>2, AtMostLast, Zenon
      <4>4. QED
        BY <4>1, <4>3, Zenon
    <3>4. QED
      BY <1>3, <3>2, <3>3
  <2>3. QED
    BY <1>6, <2>1, <2>2
<1>7. QED
  BY <1>5, <1>6

(* Everything else leaves streams, log and connections as they are. *)
LEMMA OrderStep ==
  ASSUME OrderInv, [Next]_vars, TypeOK'
  PROVE  OrderInv'
<1>0. TypeOK
  BY DEF OrderInv
<1>1. ASSUME UNCHANGED <<up, sent, log, down>>, pc' = "bcast" => pc = "bcast" PROVE OrderInv'
  BY <1>1 DEF OrderInv, StreamInv, LogInv, DownInv, BcastInv
<1>2. CASE SendReply \/ BcastSend \/ BcastFail \/ BcastKill
  <2>1. UNCHANGED <<up, sent, log>> /\ (pc' = "bcast" => pc = "bcast")
    BY <1>2 DEF SendReply, BcastSend, BcastFail, BcastKill, Die, clientVars
  <2>2. CASE down' = down
    BY <1>1, <2>1, <2>2
  <2>3. CASE down' # down
    <3>1. PICK n \in Node, frame \in BrokerFrame : FrameSent(n, frame)
      BY <1>0, <1>2, <2>3, SendOutcome, Zenon
    <3>2. PeerOf(n) \in Proc
      BY <1>0, <3>1, PeerType DEF FrameSent
    <3>3. frame.kind = "bcast" => Len(log) > 0 /\ frame.ref = Len(log)
      BY <3>1 DEF FrameSent, OrderInv, BcastInv
    <3>4. down' = [down EXCEPT ![PeerOf(n)] = Append(down[PeerOf(n)], frame)]
      BY <3>1 DEF FrameSent
    <3>5. DownInv'
      BY <2>1, <3>2, <3>3, <3>4, OrderDown
    <3>6. QED
      BY <2>1, <3>5 DEF OrderInv, StreamInv, LogInv, BcastInv
  <2>4. QED
    BY <2>2, <2>3
<1>3. CASE RecvCmd
  BY <1>3, OrderRecvCmd
<1>4. CASE Select \/ Accept \/ PassSkip \/ PassEnd \/ RecvFail \/ BcastDone
  <2>1. UNCHANGED <<up, sent, log, down>> /\ (pc' = "bcast" => pc = "bcast")
    BY <1>4 DEF Select, Accept, PassSkip, PassEnd, RecvFail, BcastDone, Die, clientVars
  <2>2. QED
    BY <1>1, <2>1
<1>5. ASSUME NEW q \in Proc, ClientNext(q) PROVE OrderInv'
  <2>1. CASE \E c \in Commands : SendHead(q, c)
    BY <2>1, OrderSendHead
  <2>2. CASE SendBody(q)
    BY <2>2, OrderSendBody
  <2>3. CASE Unlink(q) \/ Bind(q) \/ Connect(q) \/ RecvData(q) \/ ClientClose(q)
    <3>1. UNCHANGED <<up, sent, log, down, pc>>
      BY <2>3, Zenon DEF Unlink, Bind, Connect, RecvData, ClientClose, brokerVars
    <3>2. QED
      BY <1>1, <3>1
  <2>4. QED
    BY <1>5, <2>1, <2>2, <2>3 DEF ClientNext
<1>6. CASE UNCHANGED vars
  BY <1>1, <1>6 DEF vars, clientVars, brokerVars
<1>7. QED
  BY <1>2, <1>3, <1>4, <1>5, <1>6 DEF Next, BrokerNext

LEMMA OrderInvariant == Spec => []OrderInv
<1>1. Init /\ TypeOK => OrderInv
  BY DEF Init, OrderInv, StreamInv, LogInv, DownInv, BcastInv
<1>2. OrderInv /\ [Next]_vars /\ TypeOK' => OrderInv'
  BY OrderStep
<1>3. QED
  BY <1>1, <1>2, TypeCorrect, PTL DEF Spec

(* Every client is sent broadcasts in the order in which the broker read   *)
(* them, and those of one sender in the order it sent them, whatever the   *)
(* interleaving of clients, broker and failures.                           *)
THEOREM BroadcastsInOrder == Spec => []TotalOrder
<1>1. OrderInv => TotalOrder
  <2> SUFFICES ASSUME OrderInv, NEW p \in Proc,
                      NEW i \in DOMAIN down[p], NEW j \in DOMAIN down[p],
                      i < j, down[p][i].kind = "bcast", down[p][j].kind = "bcast",
                      NEW r, r = down[p][i].ref, NEW s, s = down[p][j].ref
               PROVE  r <= s /\ ((r # s /\ log[r].src = log[s].src) => log[r].num < log[s].num)
    BY DEF TotalOrder
  <2>1. DOMAIN down[p] = 1..Len(down[p]) /\ Len(log) \in Nat
    BY LenProperties DEF OrderInv, TypeOK, SocketType
  <2>2. r \in 1..Len(log) /\ s \in 1..Len(log) /\ r <= s
    BY <2>1 DEF OrderInv, DownInv
  <2>3. r # s => r < s
    BY <2>1, <2>2
  <2>4. QED
    BY <2>2, <2>3 DEF OrderInv, LogInv
<1>2. QED
  BY <1>1, OrderInvariant, PTL

-----------------------------------------------------------------------------
(* Who is sent what.  The sends still to make are sends of the last entry  *)
(* of the log, and a linked node's peer has the node's name.               *)

WorkInv == pc = "bcast" => work \subseteq Sends(log[Len(log)].ids)

AddressInv == OwnInv /\ OrderInv /\ WorkInv /\ AddressedOnly

(* The id list of entry r names a node called name. *)
Names(name, r) ==
  \E n \in Node : /\ NameOf[n] = name
                  /\ \E k \in DOMAIN log[r].ids : log[r].ids[k] = IdOf[n]

LEMMA AddressDown ==
  ASSUME AddressInv, NEW n \in Node, NEW frame \in BrokerFrame, FrameSent(n, frame), log' = log
  PROVE  AddressedOnly'
<1> DEFINE q == PeerOf(n)
<1>1. TypeOK /\ Linked(n) /\ q \in Proc
  BY PeerType DEF AddressInv, OwnInv, FrameSent
<1>2. down' = [down EXCEPT ![q] = Append(down[q], frame)]
  BY DEF FrameSent
<1>3. down \in [Proc -> Seq(BrokerFrame)] /\ Len(log) \in Nat /\ DOMAIN log = 1..Len(log)
  BY <1>1, LenProperties DEF TypeOK, SocketType
<1>4. ASSUME frame.kind = "bcast"
      PROVE  frame.ref \in DOMAIN log /\ Names(ProcName[q], frame.ref)
  <2>1. pc = "bcast" /\ frame.ref = Len(log)
    BY <1>4 DEF FrameSent
  <2>2. frame.ref \in DOMAIN log
    BY <1>3, <2>1 DEF AddressInv, OrderInv, BcastInv
  <2>3. NameOf[n] = ProcName[q]
    BY <1>1, <2>1 DEF AddressInv, OwnInv, NodeOwnsPeer, BrokerUp, Linked, PeerOf
  <2>4. PICK w \in work : w[1] = n
    BY <1>4 DEF FrameSent
  <2>5. w \in Sends(log[Len(log)].ids)
    BY <2>1 DEF AddressInv, WorkInv
  <2>6. w[2] \in DOMAIN log[Len(log)].ids /\ log[Len(log)].ids[w[2]] = IdOf[n]
    BY <2>4, <2>5 DEF Sends
  <2>7. QED
    BY <2>1, <2>2, <2>3, <2>6, Zenon DEF Names
<1> HIDE DEF q
<1>5. /\ Len(down[q]) \in Nat
      /\ Len(down'[q]) = Len(down[q]) + 1
      /\ \A i \in 1..Len(down[q]) : down'[q][i] = down[q][i]
      /\ down'[q][Len(down[q]) + 1] = frame
      /\ DOMAIN down[q] = 1..Len(down[q])
      /\ DOMAIN down'[q] = 1..Len(down'[q])
  BY <1>1, <1>2, <1>3, AppendProperties, LenProperties
<1>6. \A p \in Proc \ {q} : down'[p] = down[p]
  BY <1>2, <1>3
<1>7. ASSUME NEW p \in Proc, NEW i \in DOMAIN down'[p], down'[p][i].kind = "bcast"
      PROVE  down'[p][i].ref \in DOMAIN log /\ Names(ProcName[p], down'[p][i].ref)
  <2>1. CASE i \in DOMAIN down[p] /\ down'[p][i] = down[p][i]
    BY <1>7, <2>1 DEF AddressInv, AddressedOnly, Names
  <2>2. CASE p = q /\ i = Len(down[q]) + 1
    BY <1>4, <1>5, <1>7, <2>2
  <2>3. (i \in DOMAIN down[p] /\ down'[p][i] = down[p][i]) \/ (p = q /\ i = Len(down[q]) + 1)
    <3>1. CASE p # q
      BY <1>6, <1>7, <3>1
    <3>2. CASE p = q
      <4>1. i \in 1..(Len(down[q]) + 1)
        BY <1>5, <1>7, <3>2
      <4>2. i \in 1..Len(down[q]) \/ i = Len(down[q]) + 1
        BY <1>5, <4>1
      <4>3. QED
        BY <1>5, <3>2, <4>2
    <3>3. QED
      BY <3>1, <3>2
  <2>4. QED
    BY <2>1, <2>2, <2>3
<1>8. QED
  BY <1>7 DEF AddressedOnly, Names

LEMMA AddressStep ==
  ASSUME AddressInv, [Next]_vars, OwnInv', OrderInv'
  PROVE  AddressInv'
<1>0. TypeOK
  BY DEF AddressInv, OwnInv
<1>1. ASSUME UNCHANGED <<log, down>>, pc' = "bcast" => pc = "bcast" /\ work' = work PROVE AddressInv'
  BY <1>1 DEF AddressInv, WorkInv, AddressedOnly
<1>2. CASE SendReply \/ BcastSend \/ BcastFail \/ BcastKill
  <2>1. log' = log /\ (pc' = "bcast" => pc = "bcast" /\ work' \subseteq work)
    BY <1>2 DEF SendReply, BcastSend, BcastFail, BcastKill, Die
  <2>2. WorkInv'
    BY <2>1 DEF AddressInv, WorkInv
  <2>3. AddressedOnly'
    <3>1. CASE down' = down
      BY <2>1, <3>1 DEF AddressInv, AddressedOnly
    <3>2. CASE down' # down
      <4>1. PICK n \in Node, frame \in BrokerFrame : FrameSent(n, frame)
        BY <1>0, <1>2, <3>2, SendOutcome, Zenon
      <4>2. QED
        BY <2>1, <4>1, AddressDown
    <3>3. QED
      BY <3>1, <3>2
  <2>4. QED
    BY <2>2, <2>3 DEF AddressInv
<1>3. CASE RecvCmd
  <2> SUFFICES ASSUME NEW q, q = fdtab[connfd[cur]], NEW m, m = Head(up[q])
               PROVE  AddressInv'
    OBVIOUS
  <2>1. down' = down
    BY <1>0, <1>3, RecvCmdTakes
  <2>2. \/ log' = log /\ pc' # "bcast"
        \/ /\ work' = Sends(m.cmd.ids)
           /\ \E e \in LogEntry : e.ids = m.cmd.ids /\ log' = Append(log, e)
    BY <1>0, <1>3, RecvCmdOutcome DEF Outcome
  <2>3. CASE log' = log /\ pc' # "bcast"
    BY <1>1, <2>1, <2>3
  <2>4. CASE /\ work' = Sends(m.cmd.ids)
             /\ \E e \in LogEntry : e.ids = m.cmd.ids /\ log' = Append(log, e)
    <3>1. PICK e \in LogEntry : e.ids = m.cmd.ids /\ log' = Append(log, e)
      BY <2>4
    <3>2. /\ Len(log) \in Nat /\ Len(log') = Len(log) + 1
          /\ DOMAIN log = 1..Len(log) /\ DOMAIN log' = 1..Len(log')
          /\ \A r \in 1..Len(log) : log'[r] = log[r]
          /\ log'[Len(log')] = e
      BY <1>0, <3>1, AppendProperties, LenProperties DEF TypeOK
    <3>3. WorkInv'
      BY <2>4, <3>1, <3>2 DEF WorkInv
    <3>4. \A r \in DOMAIN log : r \in DOMAIN log' /\ log'[r] = log[r]
      BY <3>2
    <3>5. AddressedOnly'
      <4> SUFFICES ASSUME NEW p \in Proc, NEW i \in DOMAIN down[p], down[p][i].kind = "bcast",
                          NEW r, r = down[p][i].ref
                   PROVE  r \in DOMAIN log' /\ Names(ProcName[p], r)'
        BY <2>1 DEF AddressedOnly, Names
      <4>1. r \in DOMAIN log /\ Names(ProcName[p], r)
        BY DEF AddressInv, AddressedOnly, Names
      <4>2. QED
        BY <3>4, <4>1, Zenon DEF Names
    <3>6. QED
      BY <3>3, <3>5 DEF AddressInv
  <2>5. QED
    BY <2>2, <2>3, <2>4
<1>4. CASE Select \/ Accept \/ PassSkip \/ PassEnd \/ RecvFail \/ BcastDone
  <2>1. UNCHANGED <<log, down>> /\ pc' # "bcast"
    BY <1>4 DEF Select, Accept, PassSkip, PassEnd, RecvFail, BcastDone, Die, clientVars
  <2>2. QED
    BY <1>1, <2>1
<1>5. ASSUME NEW q \in Proc, ClientNext(q) PROVE AddressInv'
  <2>1. UNCHANGED <<log, down, pc, work>>
    BY <1>5, Zenon DEF ClientNext, Unlink, Bind, Connect, SendHead, SendBody, RecvData, ClientClose, brokerVars
  <2>2. QED
    BY <1>1, <2>1
<1>6. CASE UNCHANGED vars
  BY <1>1, <1>6 DEF vars, clientVars, brokerVars
<1>7. QED
  BY <1>2, <1>3, <1>4, <1>5, <1>6 DEF Next, BrokerNext

LEMMA AddressInvariant ==
  ASSUME NamesDistinct
  PROVE  Spec => []AddressInv
<1>1. Init /\ OwnInv /\ OrderInv => AddressInv
  BY DEF Init, AddressInv, WorkInv, AddressedOnly
<1>2. AddressInv /\ [Next]_vars /\ OwnInv' /\ OrderInv' => AddressInv'
  BY AddressStep
<1>3. QED
  BY <1>1, <1>2, OwnInvariant, OrderInvariant, PTL DEF Spec

(* With distinct names in the configuration, no client is ever sent a      *)
(* broadcast whose id list does not name its node: not after a crash, a    *)
(* restart under the same name, or the reuse of a descriptor number.       *)
THEOREM OnlyAddressees ==
  ASSUME NamesDistinct
  PROVE  Spec => []AddressedOnly
<1>1. AddressInv => AddressedOnly
  BY DEF AddressInv
<1>2. QED
  BY <1>1, AddressInvariant, PTL

-----------------------------------------------------------------------------
(* What one broadcast does. *)

(* While a broadcast is under way, every process it was meant for has been *)
(* sent it, or is still connected to its node with a send to make.         *)
PendingInv ==
  pc = "bcast" =>
    \A p \in log[Len(log)].to, m \in Node :
      NameOf[m] = ProcName[p] =>
        \/ Got(p, Len(log))
        \/ Linked(m) /\ PeerOf(m) = p /\ \E w \in work : w[1] = m

PrefixInv == AddressInv /\ PendingInv /\ PrefixDelivery

(* Got, for the streams d. *)
GotIn(d, p, r) == \E i \in DOMAIN d[p] : d[p][i] = Broadcast(r, "whole")

(* What a frame more on a connection changes: who got what. *)
LEMMA GotAppend ==
  ASSUME TypeOK, NEW q \in Proc, NEW frame \in BrokerFrame,
         down' = [down EXCEPT ![q] = Append(down[q], frame)]
  PROVE  \A p \in Proc : \A r : GotIn(down', p, r) <=> GotIn(down, p, r) \/ (p = q /\ frame = Broadcast(r, "whole"))
<1>1. down \in [Proc -> Seq(BrokerFrame)]
  BY DEF TypeOK, SocketType
<1>2. /\ Len(down[q]) \in Nat
      /\ Len(down'[q]) = Len(down[q]) + 1
      /\ \A i \in 1..Len(down[q]) : down'[q][i] = down[q][i]
      /\ down'[q][Len(down[q]) + 1] = frame
      /\ DOMAIN down[q] = 1..Len(down[q])
      /\ DOMAIN down'[q] = 1..Len(down'[q])
  BY <1>1, AppendProperties, LenProperties
<1>3. \A p \in Proc \ {q} : down'[p] = down[p]
  BY <1>1
<1> SUFFICES ASSUME NEW p \in Proc, NEW r
             PROVE  GotIn(down', p, r) <=> GotIn(down, p, r) \/ (p = q /\ frame = Broadcast(r, "whole"))
  OBVIOUS
<1>4. CASE p # q
  BY <1>3, <1>4, Zenon DEF GotIn
<1>5. CASE p = q
  <2> DEFINE b == Broadcast(r, "whole")
  <2>1. GotIn(down, q, r) <=> \E i \in 1..Len(down[q]) : down[q][i] = b
    BY <1>2, Zenon DEF GotIn
  <2>2. GotIn(down', q, r) <=> \E i \in 1..Len(down'[q]) : down'[q][i] = b
    BY <1>2, Zenon DEF GotIn
  <2> HIDE DEF b
  <2>3. (\E i \in 1..Len(down'[q]) : down'[q][i] = b)
        <=> (\E i \in 1..Len(down[q]) : down[q][i] = b) \/ frame = b
    <3>1. \A i \in 1..Len(down'[q]) : i \in 1..Len(down[q]) \/ i = Len(down[q]) + 1
      BY <1>2
    <3>2. Len(down[q]) + 1 \in 1..Len(down'[q]) /\ \A i \in 1..Len(down[q]) : i \in 1..Len(down'[q])
      BY <1>2
    <3>3. QED
      BY <1>2, <3>1, <3>2, Zenon
  <2>4. QED
    BY <1>5, <2>1, <2>2, <2>3 DEF b
<1>6. QED
  BY <1>4, <1>5

(* A frame that is no whole broadcast changes nothing about who got what.  *)
LEMMA GotKept ==
  ASSUME TypeOK, NEW q \in Proc, NEW frame \in BrokerFrame, \A r : frame # Broadcast(r, "whole"),
         down' = down \/ down' = [down EXCEPT ![q] = Append(down[q], frame)]
  PROVE  \A p \in Proc : \A r : GotIn(down', p, r) <=> GotIn(down, p, r)
<1>1. CASE down' = down
  BY <1>1, Zenon DEF GotIn
<1>2. CASE down' = [down EXCEPT ![q] = Append(down[q], frame)]
  BY <1>2, GotAppend, Zenon
<1>3. QED
  BY <1>1, <1>2

(* A broadcast is meant for processes. *)
LEMMA LogReceivers ==
  ASSUME TypeOK, NEW r \in DOMAIN log
  PROVE  log[r].to \subseteq Proc
<1>1. log[r] \in LogEntry
  BY ElementOfSeq, LenProperties DEF TypeOK
<1>2. QED
  BY <1>1 DEF LogEntry

(* Nobody has been sent a broadcast that is not in the log. *)
LEMMA GotLogged ==
  ASSUME OrderInv, NEW p \in Proc, NEW r, GotIn(down, p, r)
  PROVE  r \in 1..Len(log)
<1>1. PICK i \in DOMAIN down[p] : down[p][i] = Broadcast(r, "whole")
  BY DEF GotIn
<1>2. i \in 1..Len(down[p])
  BY LenProperties DEF OrderInv, TypeOK, SocketType
<1>3. down[p][i].kind = "bcast" /\ down[p][i].ref = r
  BY <1>1 DEF Broadcast
<1>4. QED
  BY <1>2, <1>3 DEF OrderInv, DownInv

(* A send of a broadcast that succeeds. *)
LEMMA PrefixSend ==
  ASSUME NamesDistinct, PrefixInv, BcastSend
  PROVE  PendingInv' /\ PrefixDelivery'
<1> USE DEF PrefixInv
<1>0. /\ TypeOK /\ OrderInv /\ pc = "bcast" /\ work \subseteq Node \X Nat
      /\ UNCHANGED <<kernelVars, pc, connfd, log>>
  BY DEF AddressInv, OrderInv, TypeOK, BrokerType, BcastSend
<1>1. PICK w \in work :
        /\ First(w, work)
        /\ work' = work \ {w}
        /\ \/ SendSkipped(w[1]) /\ down' = down
           \/ /\ SendPasses(w[1])
              /\ down' = [down EXCEPT ![PeerOf(w[1])] = Append(down[PeerOf(w[1])], Broadcast(Len(log), "whole"))]
  BY Zenon DEF BcastSend
<1>2. w[1] \in Node /\ Len(log) \in Nat /\ Len(log) \in DOMAIN log
  BY <1>0, LenProperties DEF OrderInv, BcastInv, TypeOK
<1>3. \A v \in work : ~(v[1] < w[1])
  <2>1. \A v \in work : v = w \/ Before(w, v)
    BY <1>1 DEF First
  <2>2. \A v \in work : v[1] \in Nat /\ v[2] \in Nat /\ w[1] \in Nat
    BY <1>0, <1>2, NodeAssumption DEF Node
  <2>3. QED
    BY <2>1, <2>2 DEF Before
<1>4. \A n \in Node : Linked(n)' = Linked(n) /\ PeerOf(n)' = PeerOf(n)
  BY <1>0 DEF kernelVars, Linked, PeerOf
<1>5. CASE SendSkipped(w[1])
  <2>1. ~Linked(w[1])
    BY <1>0, <1>2, <1>5, BoundAssumption DEF SendSkipped, Linked, TypeOK, BrokerType, Fd
  <2>2. down' = down
    BY <1>1, <2>1 DEF SendPasses
  <2>3. QED
    BY <1>0, <1>1, <1>2, <1>4, <2>1, <2>2 DEF PendingInv, PrefixDelivery, Got, Broadcast
<1>6. CASE ~SendSkipped(w[1])
  <2> DEFINE q == PeerOf(w[1])
             b == Broadcast(Len(log), "whole")
  <2>1. Linked(w[1]) /\ q \in Proc /\ down' = [down EXCEPT ![q] = Append(down[q], b)]
    BY <1>0, <1>1, <1>2, <1>6, PeerType DEF SendPasses
  <2>2. b \in BrokerFrame /\ \A r : b = Broadcast(r, "whole") <=> r = Len(log)
    BY <1>2 DEF BrokerFrame, Broadcast
  <2>3. NameOf[w[1]] = ProcName[q]
    BY <1>0, <1>2, <2>1 DEF AddressInv, OwnInv, NodeOwnsPeer, BrokerUp, Linked, PeerOf
  <2> HIDE DEF q, b
  <2>4. \A p \in Proc : \A r : GotIn(down', p, r) <=> GotIn(down, p, r) \/ (p = q /\ r = Len(log))
    BY <1>0, <2>1, <2>2, GotAppend, Zenon
  <2>5. PendingInv'
    <3> SUFFICES ASSUME NEW p \in log[Len(log)].to, NEW m \in Node, NameOf[m] = ProcName[p]
                 PROVE  \/ GotIn(down', p, Len(log))
                        \/ Linked(m) /\ PeerOf(m) = p /\ \E v \in work' : v[1] = m
      BY <1>0, <1>4 DEF PendingInv, Got, GotIn
    <3>1. p \in Proc
      BY <1>0, <1>2, LogReceivers
    <3>2. GotIn(down, p, Len(log)) \/ (Linked(m) /\ PeerOf(m) = p /\ \E v \in work : v[1] = m)
      BY <1>0 DEF PendingInv, Got, GotIn
    <3>3. CASE m = w[1] /\ PeerOf(m) = p
      BY <2>4, <3>1, <3>3 DEF q
    <3>4. CASE ~(m = w[1] /\ PeerOf(m) = p)
      BY <1>1, <2>4, <3>1, <3>2, <3>4
    <3>5. QED
      BY <3>3, <3>4
  <2>6. PrefixDelivery'
    <3> SUFFICES ASSUME NEW r \in DOMAIN log, NEW m \in Node, NEW n \in Node, NEW p \in Proc, NEW s \in Proc,
                        m < n, NameOf[m] = ProcName[p], NameOf[n] = ProcName[s],
                        p \in log[r].to, GotIn(down', s, r)
                 PROVE  GotIn(down', p, r)
      BY <1>0 DEF PrefixDelivery, Got, GotIn
    <3>1. CASE GotIn(down, s, r)
      BY <2>4, <3>1 DEF PrefixDelivery, Got, GotIn
    <3>2. CASE s = q /\ r = Len(log)
      <4>1. n = w[1]
        BY <1>2, <2>3, <3>2 DEF NamesDistinct
      <4>2. ~\E v \in work : v[1] = m
        BY <1>3, <4>1
      <4>3. GotIn(down, p, r)
        BY <1>0, <3>2, <4>2 DEF PendingInv, Got, GotIn
      <4>4. QED
        BY <2>4, <4>3
    <3>3. QED
      BY <2>4, <3>1, <3>2
  <2>7. QED
    BY <2>5, <2>6
<1>7. QED
  BY <1>5, <1>6

(* A broadcast enters the log: it is meant for the peers of the linked     *)
(* nodes it names, and for each of these there is a send to make.          *)
LEMMA PrefixRecv ==
  ASSUME NamesDistinct, PrefixInv, RecvCmd, TypeOK'
  PROVE  PendingInv' /\ PrefixDelivery'
<1> DEFINE q == fdtab[connfd[cur]]
           m == Head(up[q])
           named == {n \in Node : Linked(n) /\ \E i \in DOMAIN m.cmd.ids : m.cmd.ids[i] = IdOf[n]}
           entry == [src |-> q, num |-> m.num, ids |-> m.cmd.ids, to |-> {PeerOf(n) : n \in named}]
<1>0. TypeOK /\ OrderInv /\ NodeOwnsPeer /\ PrefixDelivery
  BY DEF PrefixInv, AddressInv, OwnInv
<1>1. /\ UNCHANGED <<kernelVars, connfd, down>>
      /\ pc = "pass" /\ m.cmd.ids \in Seq(1..255)
  BY <1>0, RecvCmdTakes
<1>2. \/ log' = log /\ pc' # "bcast"
      \/ pc' = "bcast" /\ work' = Sends(m.cmd.ids) /\ log' = Append(log, entry)
  BY <1>1, Zenon DEF RecvCmd
<1>3. CASE log' = log /\ pc' # "bcast"
  BY <1>0, <1>1, <1>3 DEF PendingInv, PrefixDelivery, Got, Broadcast
<1>4. CASE pc' = "bcast" /\ work' = Sends(m.cmd.ids) /\ log' = Append(log, entry)
  <2>1. entry.to = {PeerOf(n) : n \in named} /\ entry.ids = m.cmd.ids
    OBVIOUS
  <2>2. log \in Seq(LogEntry) /\ log' \in Seq(LogEntry)
    BY <1>0 DEF TypeOK
  <2>3. /\ Len(log) \in Nat
        /\ Len(log') = Len(log) + 1
        /\ DOMAIN log = 1..Len(log) /\ DOMAIN log' = 1..(Len(log) + 1)
        /\ \A r \in 1..Len(log) : log'[r] = log[r]
        /\ log'[Len(log')] = entry
    <3> HIDE DEF entry
    <3>1. entry \in LogEntry
      <4>2. m \in ClientFrame /\ q \in Proc /\ m.num \in Nat
        BY <1>0, RecvCmdTakes
      <4>3. {PeerOf(n) : n \in named} \subseteq Proc
        BY <1>0, PeerType
      <4> HIDE DEF named, m, q
      <4>4. QED
        BY <1>1, <4>2, <4>3 DEF LogEntry, entry
    <3>2. QED
      BY <1>4, <2>2, <3>1, AppendProperties, LenProperties
  <2> HIDE DEF entry
  <2>4. PendingInv'
    <3> SUFFICES ASSUME NEW p \in entry.to, NEW k \in Node, NameOf[k] = ProcName[p]
                 PROVE  Linked(k) /\ PeerOf(k) = p /\ \E w \in work' : w[1] = k
      BY <1>1, <2>3 DEF PendingInv, kernelVars, Linked, PeerOf
    <3>1. PICK n \in named : p = PeerOf(n)
      BY <2>1
    <3>2. n \in Node /\ Linked(n) /\ ProcName[p] = NameOf[n]
      BY <1>0, <1>1, <3>1 DEF NodeOwnsPeer, BrokerUp, Linked, PeerOf
    <3>3. n = k
      BY <3>2 DEF NamesDistinct
    <3>4. PICK i \in DOMAIN m.cmd.ids : m.cmd.ids[i] = IdOf[n]
      BY <3>1
    <3>5. <<n, i>> \in Sends(m.cmd.ids)
      BY <3>2, <3>4 DEF Sends
    <3>6. QED
      BY <1>4, <3>1, <3>2, <3>3, <3>5
  <2>5. PrefixDelivery'
    <3> SUFFICES ASSUME NEW r \in DOMAIN log', NEW k \in Node, NEW n \in Node, NEW p \in Proc, NEW s \in Proc,
                        k < n, NameOf[k] = ProcName[p], NameOf[n] = ProcName[s],
                        p \in log'[r].to, GotIn(down, s, r)
                 PROVE  GotIn(down, p, r)
      BY <1>1 DEF PrefixDelivery, Got, GotIn, Broadcast
    <3>1. r \in DOMAIN log /\ log'[r] = log[r]
      BY <1>0, <2>3, GotLogged
    <3>2. QED
      BY <1>0, <3>1 DEF PrefixDelivery, Got, GotIn
  <2>6. QED
    BY <2>4, <2>5
<1>5. QED
  BY <1>2, <1>3, <1>4

LEMMA PrefixStep ==
  ASSUME NamesDistinct, PrefixInv, [Next]_vars, AddressInv'
  PROVE  PrefixInv'
<1>0. TypeOK /\ TypeOK'
  BY DEF PrefixInv, AddressInv, OwnInv
<1>1. ASSUME UNCHANGED <<log, down>>,
             pc' = "bcast" => pc = "bcast" /\ UNCHANGED <<fdtab, connfd, work>>
      PROVE  PrefixInv'
  BY <1>1 DEF PrefixInv, PendingInv, PrefixDelivery, Got, Broadcast, Linked, PeerOf
<1>2. ASSUME log' = log, pc' # "bcast", NEW q \in Proc, NEW frame \in BrokerFrame,
             \A r : frame # Broadcast(r, "whole"),
             down' = down \/ down' = [down EXCEPT ![q] = Append(down[q], frame)]
      PROVE  PrefixInv'
  <2>1. \A p \in Proc : \A r : GotIn(down', p, r) <=> GotIn(down, p, r)
    BY <1>0, <1>2, GotKept, Zenon
  <2>2. PrefixDelivery'
    BY <1>2, <2>1 DEF PrefixInv, PrefixDelivery, Got, GotIn, Broadcast
  <2>3. QED
    BY <1>2, <2>2 DEF PrefixInv, PendingInv
<1>3. CASE BcastSend
  BY <1>3, PrefixSend DEF PrefixInv
<1>4. CASE RecvCmd
  BY <1>0, <1>4, PrefixRecv DEF PrefixInv
<1>5. CASE SendReply
  <2>1. CASE down' = down
    <3>1. log' = log /\ pc' # "bcast"
      BY <1>5, Zenon DEF SendReply, Die
    <3>2. QED
      BY <1>1, <2>1, <3>1
  <2>2. CASE down' # down
    <3>1. PICK w \in {"whole", "cut"} :
            Linked(cur) /\ down' = [down EXCEPT ![PeerOf(cur)] = Append(down[PeerOf(cur)], Reply(cmd, w))]
      BY <1>5, <2>2, Zenon DEF SendReply, Die, clientVars, SendPasses, SendTimesOut, LeftBehind
    <3>2. PeerOf(cur) \in Proc /\ Reply(cmd, w) \in BrokerFrame
      BY <1>0, <1>5, <3>1, PeerType DEF SendReply, TypeOK, BrokerType, Reply, BrokerFrame
    <3>3. \A r : Reply(cmd, w) # Broadcast(r, "whole")
      BY DEF Reply, Broadcast
    <3>4. log' = log /\ pc' # "bcast"
      BY <1>5, Zenon DEF SendReply, Die
    <3>5. QED
      BY <1>2, <3>1, <3>2, <3>3, <3>4
  <2>3. QED
    BY <2>1, <2>2
<1>6. CASE BcastFail
  <2>1. log' = log /\ pc' # "bcast" /\ pc = "bcast"
    BY <1>6 DEF BcastFail
  <2>2. CASE down' = down
    BY <1>1, <2>1, <2>2
  <2>3. CASE down' # down
    <3>1. PICK w \in work : /\ Linked(w[1])
                            /\ down' = [down EXCEPT ![PeerOf(w[1])] =
                                          Append(down[PeerOf(w[1])], Broadcast(Len(log), "cut"))]
      BY <1>6, <2>3, Zenon DEF BcastFail, SendTimesOut, LeftBehind
    <3>2. w[1] \in Node /\ Len(log) \in Nat
      BY <1>0, LenProperties DEF TypeOK, BrokerType
    <3>3. PeerOf(w[1]) \in Proc /\ Broadcast(Len(log), "cut") \in BrokerFrame
      BY <1>0, <3>1, <3>2, PeerType DEF Broadcast, BrokerFrame
    <3>4. \A r : Broadcast(Len(log), "cut") # Broadcast(r, "whole")
      BY DEF Broadcast
    <3>5. QED
      BY <1>2, <2>1, <3>1, <3>3, <3>4
  <2>4. QED
    BY <2>2, <2>3
<1>7. CASE Select \/ Accept \/ PassSkip \/ PassEnd \/ RecvFail \/ BcastDone \/ BcastKill
  <2>1. UNCHANGED <<log, down>> /\ pc' # "bcast"
    BY <1>7 DEF Select, Accept, PassSkip, PassEnd, RecvFail, BcastDone, BcastKill, Die, clientVars
  <2>2. QED
    BY <1>1, <2>1
<1>8. ASSUME NEW q \in Proc, ClientNext(q) PROVE PrefixInv'
  <2>1. UNCHANGED <<log, down, pc, work, fdtab, connfd>>
    BY <1>8, Zenon DEF ClientNext, Unlink, Bind, Connect, SendHead, SendBody, RecvData, ClientClose,
                       kernelVars, brokerVars
  <2>2. QED
    BY <1>1, <2>1
<1>9. CASE UNCHANGED vars
  BY <1>1, <1>9 DEF vars, clientVars, brokerVars, kernelVars
<1>10. QED
  BY <1>3, <1>4, <1>5, <1>6, <1>7, <1>8, <1>9 DEF Next, BrokerNext

(* With distinct names, a broadcast that is given up half way has reached  *)
(* a prefix of the node list: broadcast_cmd never serves a later node      *)
(* while an earlier one that was registered and named goes without.        *)
THEOREM ReachesPrefix ==
  ASSUME NamesDistinct
  PROVE  Spec => []PrefixDelivery
<1>1. Init /\ AddressInv => PrefixInv
  BY DEF Init, PrefixInv, PendingInv, PrefixDelivery
<1>2. PrefixInv /\ [Next]_vars /\ AddressInv' => PrefixInv'
  BY PrefixStep
<1>3. PrefixInv => PrefixDelivery
  BY DEF PrefixInv
<1>4. QED
  BY <1>1, <1>2, <1>3, AddressInvariant, PTL DEF Spec

-----------------------------------------------------------------------------
(* The refinement of PubSub.  A broadcast names a process at some places   *)
(* of its id list; the process has been sent it at most once for each of   *)
(* the places that no send is left for.                                    *)

(* Numbers and commands of the frames on their way are those a client      *)
(* sends.                                                                  *)
FramesInv ==
  \A p \in Proc :
    /\ sent[p] <= MaxSend
    /\ \A i \in 1..Len(up[p]) : 1 <= up[p][i].num /\ up[p][i].cmd \in Commands

SentIn(d, p, r) == {i \in DOMAIN d[p] : d[p][i].kind = "bcast" /\ d[p][i].ref = r}
LeftIn(S, p)    == {w[2] : w \in {v \in S : NameOf[v[1]] = ProcName[p]}}
NamedBy(p, ids) == {k \in DOMAIN ids : ids[k] \in IdsOf(p)}

CountInv ==
  pc = "bcast" =>
    \A p \in Proc :
      Cardinality(SentIn(down, p, Len(log))) + Cardinality(LeftIn(work, p))
        <= Cardinality(NamedBy(p, log[Len(log)].ids))

RelayInv == AddressInv /\ FramesInv /\ CountInv

(* A broadcast frame more on a connection: one copy more for its process.  *)
LEMMA SentAppend ==
  ASSUME TypeOK, NEW q \in Proc, NEW frame \in BrokerFrame, NEW r,
         frame.kind = "bcast", frame.ref = r,
         down' = [down EXCEPT ![q] = Append(down[q], frame)]
  PROVE  /\ \A p \in Proc \ {q} : SentIn(down', p, r) = SentIn(down, p, r)
         /\ SentIn(down', q, r) = SentIn(down, q, r) \cup {Len(down[q]) + 1}
         /\ Len(down[q]) + 1 \notin SentIn(down, q, r)
<1>1. down \in [Proc -> Seq(BrokerFrame)]
  BY DEF TypeOK, SocketType
<1>2. /\ Len(down[q]) \in Nat
      /\ Len(down'[q]) = Len(down[q]) + 1
      /\ \A i \in 1..Len(down[q]) : down'[q][i] = down[q][i]
      /\ down'[q][Len(down[q]) + 1] = frame
      /\ DOMAIN down[q] = 1..Len(down[q])
      /\ DOMAIN down'[q] = 1..Len(down'[q])
  BY <1>1, AppendProperties, LenProperties
<1>3. \A p \in Proc \ {q} : down'[p] = down[p]
  BY <1>1
<1>4. \A p \in Proc \ {q} : SentIn(down', p, r) = SentIn(down, p, r)
  BY <1>3, Zenon DEF SentIn
<1>5. /\ \A i \in DOMAIN down'[q] : i \in DOMAIN down[q] \/ i = Len(down[q]) + 1
      /\ \A i \in DOMAIN down[q] : i \in DOMAIN down'[q] /\ down'[q][i] = down[q][i]
      /\ Len(down[q]) + 1 \in DOMAIN down'[q]
      /\ Len(down[q]) + 1 \notin DOMAIN down[q]
  BY <1>2
<1>6. QED
  BY <1>2, <1>4, <1>5 DEF SentIn

(* Finite sets all of them. *)
LEMMA SentFinite ==
  ASSUME TypeOK, NEW p \in Proc, NEW r
  PROVE  IsFiniteSet(SentIn(down, p, r)) /\ Cardinality(SentIn(down, p, r)) \in Nat
<1>1. DOMAIN down[p] = 1..Len(down[p]) /\ Len(down[p]) \in Nat
  BY LenProperties DEF TypeOK, SocketType
<1>2. IsFiniteSet(1..Len(down[p]))
  BY <1>1, FS_Interval
<1>3. SentIn(down, p, r) \in SUBSET (1..Len(down[p]))
  BY <1>1 DEF SentIn
<1>4. QED
  BY <1>2, <1>3, FS_Subset, FS_CardinalityType

LEMMA NamedFinite ==
  ASSUME NEW ids \in Seq(1..255), NEW p, NEW S, S \subseteq Sends(ids)
  PROVE  /\ IsFiniteSet(NamedBy(p, ids)) /\ Cardinality(NamedBy(p, ids)) \in Nat
         /\ IsFiniteSet(LeftIn(S, p)) /\ Cardinality(LeftIn(S, p)) \in Nat
         /\ LeftIn(S, p) \subseteq NamedBy(p, ids)
         /\ Cardinality(LeftIn(S, p)) <= Cardinality(NamedBy(p, ids))
<1>1. DOMAIN ids = 1..Len(ids) /\ Len(ids) \in Nat
  BY LenProperties
<1>2. IsFiniteSet(1..Len(ids))
  BY <1>1, FS_Interval
<1>3. NamedBy(p, ids) \in SUBSET (1..Len(ids))
  BY <1>1 DEF NamedBy
<1>4. LeftIn(S, p) \in SUBSET NamedBy(p, ids)
  <2> SUFFICES ASSUME NEW w \in S, NameOf[w[1]] = ProcName[p]
               PROVE  w[2] \in NamedBy(p, ids)
    BY DEF LeftIn
  <2>1. w[1] \in Node /\ w[2] \in DOMAIN ids /\ ids[w[2]] = IdOf[w[1]]
    BY DEF Sends
  <2>2. QED
    BY <2>1 DEF NamedBy, IdsOf
<1>5. IsFiniteSet(NamedBy(p, ids)) /\ IsFiniteSet(LeftIn(S, p))
  BY <1>2, <1>3, <1>4, FS_Subset
<1>6. QED
  BY <1>4, <1>5, FS_Subset, FS_CardinalityType

(* A send made is a place less: no two sends left for a process are for    *)
(* one place of the id list, since one node only has its name.             *)
LEMMA LeftRemove ==
  ASSUME NamesDistinct, NEW ids, NEW S, S \subseteq Sends(ids), NEW w \in S, NEW p
  PROVE  /\ LeftIn(S \ {w}, p) \subseteq LeftIn(S, p)
         /\ NameOf[w[1]] = ProcName[p] =>
              w[2] \in LeftIn(S, p) /\ LeftIn(S \ {w}, p) = LeftIn(S, p) \ {w[2]}
<1>1. LeftIn(S \ {w}, p) \subseteq LeftIn(S, p)
  BY DEF LeftIn
<1>2. ASSUME NameOf[w[1]] = ProcName[p]
      PROVE  w[2] \in LeftIn(S, p) /\ LeftIn(S \ {w}, p) = LeftIn(S, p) \ {w[2]}
  <2>1. w[2] \in LeftIn(S, p)
    BY <1>2 DEF LeftIn
  <2>2. \A v \in S : (NameOf[v[1]] = ProcName[p] /\ v[2] = w[2]) => v = w
    <3> SUFFICES ASSUME NEW v \in S, NameOf[v[1]] = ProcName[p], v[2] = w[2]
                 PROVE  v = w
      OBVIOUS
    <3>1. v \in Node \X DOMAIN ids /\ w \in Node \X DOMAIN ids
      BY DEF Sends
    <3>2. v[1] = w[1]
      BY <1>2, <3>1 DEF NamesDistinct
    <3>3. QED
      BY <3>1, <3>2
  <2>3. LeftIn(S, p) \ {w[2]} \subseteq LeftIn(S \ {w}, p)
    BY DEF LeftIn
  <2>4. w[2] \notin LeftIn(S \ {w}, p)
    BY <2>2 DEF LeftIn
  <2>5. QED
    BY <1>1, <2>1, <2>3, <2>4
<1>3. QED
  BY <1>1, <1>2

(* What clients put on their streams keeps FramesInv. *)
LEMMA FramesClient ==
  ASSUME TypeOK, FramesInv, NEW q \in Proc, ClientNext(q)
  PROVE  FramesInv'
<1> USE BoundAssumption
<1>0. up \in [Proc -> Seq(ClientFrame)] /\ sent \in [Proc -> Nat]
  BY DEF TypeOK, SocketType
<1>1. CASE UNCHANGED <<up, sent>>
  BY <1>1 DEF FramesInv
<1>2. ASSUME NEW c \in Commands, SendHead(q, c), ~UNCHANGED <<up, sent>>
      PROVE  FramesInv'
  <2> DEFINE m == Frame(q, sent[q] + 1, c, FirstPart(c))
  <2>1. /\ up' = [up EXCEPT ![q] = Append(up[q], m)] /\ sent' = [sent EXCEPT ![q] = sent[q] + 1]
        /\ sent[q] < MaxSend
    BY <1>2, Zenon DEF SendHead, SendBroken
  <2>2. m \in ClientFrame /\ m.num = sent[q] + 1 /\ m.cmd = c
    BY <1>0 DEF Frame, FirstPart, ClientFrame
  <2> HIDE DEF m
  <2>3. /\ Len(up'[q]) = Len(up[q]) + 1 /\ Len(up[q]) \in Nat
        /\ \A i \in 1..Len(up[q]) : up'[q][i] = up[q][i]
        /\ up'[q][Len(up[q]) + 1] = m
        /\ \A p \in Proc \ {q} : up'[p] = up[p] /\ sent'[p] = sent[p]
        /\ sent'[q] = sent[q] + 1 /\ sent[q] \in Nat
    BY <1>0, <2>1, <2>2, AppendProperties, LenProperties
  <2>4. \A i \in 1..Len(up'[q]) : i \in 1..Len(up[q]) \/ i = Len(up[q]) + 1
    BY <2>3
  <2>5. sent'[q] <= MaxSend /\ 1 <= m.num
    BY <2>1, <2>2, <2>3
  <2>6. ASSUME NEW p \in Proc
        PROVE  sent'[p] <= MaxSend /\ \A i \in 1..Len(up'[p]) : 1 <= up'[p][i].num /\ up'[p][i].cmd \in Commands
    <3>1. CASE p = q
      BY <2>2, <2>3, <2>4, <2>5, <3>1 DEF FramesInv
    <3>2. CASE p # q
      BY <2>3, <3>2 DEF FramesInv
    <3>3. QED
      BY <3>1, <3>2
  <2>7. QED
    BY <2>6 DEF FramesInv
<1>3. CASE SendBody(q) /\ ~UNCHANGED <<up, sent>>
  <2> DEFINE l == Len(up[q])
             g == [up[q][l] EXCEPT !.part = "whole"]
  <2>1. sent' = sent /\ up' = [up EXCEPT ![q][l].part = "whole"]
    BY <1>3, Zenon DEF SendBody, SendBroken
  <2>2. up[q] \in Seq(ClientFrame) /\ up[q] # <<>>
    BY <1>0, <1>3 DEF SendBody, MidFrame
  <2>3. l \in 1..Len(up[q]) /\ up[q][l] \in ClientFrame
    BY <2>2, EmptySeq, ElementOfSeq
  <2>4. g \in ClientFrame /\ g.num = up[q][l].num /\ g.cmd = up[q][l].cmd
    BY <2>3 DEF ClientFrame
  <2>5. up' = [up EXCEPT ![q] = [up[q] EXCEPT ![l] = g]]
    BY <2>1
  <2> HIDE DEF g, l
  <2>6. /\ Len([up[q] EXCEPT ![l] = g]) = Len(up[q])
        /\ \A i \in 1..Len(up[q]) : [up[q] EXCEPT ![l] = g][i] = IF i = l THEN g ELSE up[q][i]
    BY <2>2, <2>3, <2>4, ExceptSeq, LenProperties
  <2>7. QED
    BY <1>0, <2>1, <2>3, <2>4, <2>5, <2>6 DEF FramesInv
<1>4. CASE Unlink(q) \/ Bind(q) \/ Connect(q) \/ RecvData(q) \/ ClientClose(q)
  BY <1>1, <1>4, Zenon DEF Unlink, Bind, Connect, RecvData, ClientClose
<1>5. QED
  BY <1>1, <1>2, <1>3, <1>4 DEF ClientNext

(* The broker only takes from the streams. *)
LEMMA FramesStep ==
  ASSUME TypeOK, FramesInv, [Next]_vars
  PROVE  FramesInv'
<1>1. CASE UNCHANGED <<up, sent>>
  BY <1>1 DEF FramesInv
<1>2. CASE RecvCmd
  <2> DEFINE q == fdtab[connfd[cur]]
  <2>1. q \in Proc /\ up[q] \in Seq(ClientFrame) /\ up[q] # <<>> /\ up' = [up EXCEPT ![q] = Tail(up[q])] /\ sent' = sent
    BY <1>2, RecvCmdTakes
  <2> HIDE DEF q
  <2>2. /\ Len(up[q]) \in Nat
        /\ Len(up'[q]) = Len(up[q]) - 1
        /\ \A i \in 1..Len(up'[q]) : up'[q][i] = up[q][i + 1]
        /\ \A p \in Proc \ {q} : up'[p] = up[p]
    BY <2>1, HeadTailProperties, LenProperties, EmptySeq DEF TypeOK, SocketType
  <2>3. \A i \in 1..Len(up'[q]) : i + 1 \in 1..Len(up[q])
    BY <2>2
  <2>4. QED
    BY <2>1, <2>2, <2>3 DEF FramesInv
<1>3. CASE BrokerNext /\ ~RecvCmd
  <2>1. UNCHANGED <<up, sent>>
    BY <1>3, Zenon DEF BrokerNext, Select, Accept, PassSkip, PassEnd, RecvFail, SendReply, BcastSend, BcastFail,
                       BcastKill, BcastDone, Die, clientVars
  <2>2. QED
    BY <1>1, <2>1
<1>4. CASE UNCHANGED vars
  BY <1>1, <1>4 DEF vars, clientVars
<1>5. QED
  BY <1>2, <1>3, <1>4, FramesClient DEF Next

(* The sends that are left, and what has been sent, in a broadcast. *)
LEMMA CountFacts ==
  ASSUME RelayInv, pc = "bcast"
  PROVE  /\ TypeOK /\ OrderInv /\ Len(log) \in DOMAIN log /\ Len(log) \in Nat
         /\ log[Len(log)].ids \in Seq(1..255) /\ work \subseteq Sends(log[Len(log)].ids)
         /\ \A w \in work : w[1] \in Node
<1>1. TypeOK /\ OrderInv
  BY DEF RelayInv, AddressInv, OwnInv
<1>2. Len(log) \in DOMAIN log /\ Len(log) \in Nat
  BY <1>1, LenProperties DEF OrderInv, BcastInv, TypeOK
<1>3. log[Len(log)].ids \in Seq(1..255)
  BY <1>1, <1>2, LogRecord, LenProperties DEF TypeOK
<1>4. work \subseteq Sends(log[Len(log)].ids)
  BY DEF RelayInv, AddressInv, WorkInv
<1>5. QED
  BY <1>1, <1>2, <1>3, <1>4 DEF Sends

(* broadcast_cmd puts a frame on a connection: the latest broadcast goes   *)
(* to a process that has a place in the id list left.                      *)
LEMMA BroadcastSent ==
  ASSUME RelayInv, NamesDistinct, BcastSend \/ BcastFail, down' # down
  PROVE  \E w \in work, v \in {"whole", "cut"} : \E q \in Proc :
           /\ First(w, work)
           /\ BcastSend => work' = work \ {w}
           /\ NameOf[w[1]] = ProcName[q]
           /\ down' = [down EXCEPT ![q] = Append(down[q], Broadcast(Len(log), v))]
           /\ Cardinality(SentIn(down, q, Len(log))) < Cardinality(NamedBy(q, log[Len(log)].ids))
<1>0. pc = "bcast"
  BY DEF BcastSend, BcastFail
<1> DEFINE ids == log[Len(log)].ids
<1>1. TypeOK /\ ids \in Seq(1..255) /\ work \subseteq Sends(ids) /\ \A w \in work : w[1] \in Node
  BY <1>0, CountFacts
<1>2. PICK w \in work, v \in {"whole", "cut"} :
        /\ First(w, work)
        /\ BcastSend => work' = work \ {w}
        /\ Linked(w[1])
        /\ down' = [down EXCEPT ![PeerOf(w[1])] = Append(down[PeerOf(w[1])], Broadcast(Len(log), v))]
  <2>1. CASE BcastSend
    <3>1. PICK w \in work :
            /\ First(w, work) /\ work' = work \ {w} /\ Linked(w[1])
            /\ down' = [down EXCEPT ![PeerOf(w[1])] = Append(down[PeerOf(w[1])], Broadcast(Len(log), "whole"))]
      BY <2>1, Zenon DEF BcastSend, SendPasses
    <3>2. QED
      BY <3>1, Zenon
  <2>2. CASE BcastFail
    <3>1. pc' = "pass" /\ ~BcastSend
      BY <1>0, <2>2 DEF BcastSend, BcastFail
    <3>2. PICK w \in work :
            /\ First(w, work) /\ Linked(w[1])
            /\ down' = [down EXCEPT ![PeerOf(w[1])] = Append(down[PeerOf(w[1])], Broadcast(Len(log), "cut"))]
      BY <2>2, Zenon DEF BcastFail, SendTimesOut, LeftBehind
    <3>3. QED
      BY <3>1, <3>2, Zenon
  <2>3. QED
    BY <2>1, <2>2
<1> DEFINE q == PeerOf(w[1])
<1>3. q \in Proc /\ NameOf[w[1]] = ProcName[q]
  BY <1>0, <1>1, <1>2, PeerType DEF RelayInv, AddressInv, OwnInv, NodeOwnsPeer, BrokerUp, Linked, PeerOf
<1>4. w[2] \in LeftIn(work, q)
  BY <1>1, <1>3, LeftRemove
<1> HIDE DEF q, ids
<1>5. /\ IsFiniteSet(LeftIn(work, q)) /\ Cardinality(LeftIn(work, q)) \in Nat
      /\ Cardinality(NamedBy(q, ids)) \in Nat
      /\ Cardinality(SentIn(down, q, Len(log))) \in Nat
  BY <1>1, <1>3, NamedFinite, SentFinite
<1>6. Cardinality(LeftIn(work, q)) # 0
  BY <1>4, <1>5, FS_EmptySet
<1>7. Cardinality(SentIn(down, q, Len(log))) + Cardinality(LeftIn(work, q)) <= Cardinality(NamedBy(q, ids))
  BY <1>0, <1>3 DEF RelayInv, CountInv, ids
<1>8. Cardinality(SentIn(down, q, Len(log))) < Cardinality(NamedBy(q, ids))
  BY <1>5, <1>6, <1>7
<1>9. QED
  BY <1>2, <1>3, <1>8, Zenon DEF q, ids

(* A send made: at most one copy more, and one place less left. *)
LEMMA CountSend ==
  ASSUME RelayInv, NamesDistinct, BcastSend
  PROVE  CountInv'
<1> SUFFICES ASSUME NEW L, L = Len(log), NEW ids, ids = log[L].ids
             PROVE  CountInv'
  OBVIOUS
<1>0. pc = "bcast" /\ log' = log
  BY DEF BcastSend
<1>1. TypeOK /\ ids \in Seq(1..255) /\ work \subseteq Sends(ids) /\ L \in Nat
  BY <1>0, CountFacts
<1>2. PICK w \in work : work' = work \ {w} /\
        (down' = down \/ \E v \in {"whole", "cut"} : \E q \in Proc :
           /\ NameOf[w[1]] = ProcName[q]
           /\ down' = [down EXCEPT ![q] = Append(down[q], Broadcast(L, v))])
  <2>1. CASE down' = down
    BY <2>1, Zenon DEF BcastSend
  <2>2. CASE down' # down
    BY <2>2, BroadcastSent, Zenon
  <2>3. QED
    BY <2>1, <2>2
<1> SUFFICES ASSUME NEW p \in Proc
             PROVE  Cardinality(SentIn(down', p, L)) + Cardinality(LeftIn(work', p)) <= Cardinality(NamedBy(p, ids))
  BY <1>0 DEF CountInv
<1>3. /\ IsFiniteSet(LeftIn(work, p)) /\ Cardinality(LeftIn(work, p)) \in Nat
      /\ Cardinality(NamedBy(p, ids)) \in Nat
      /\ IsFiniteSet(SentIn(down, p, L)) /\ Cardinality(SentIn(down, p, L)) \in Nat
  BY <1>1, NamedFinite, SentFinite
<1>4. Cardinality(SentIn(down, p, L)) + Cardinality(LeftIn(work, p)) <= Cardinality(NamedBy(p, ids))
  BY <1>0 DEF RelayInv, CountInv
<1>5. /\ LeftIn(work', p) \subseteq LeftIn(work, p)
      /\ NameOf[w[1]] = ProcName[p] => w[2] \in LeftIn(work, p) /\ LeftIn(work', p) = LeftIn(work, p) \ {w[2]}
  <2>1. work' = work \ {w}
    BY <1>2
  <2>2. QED
    BY <1>1, <2>1, LeftRemove
<1>6. Cardinality(LeftIn(work', p)) \in Nat /\ Cardinality(LeftIn(work', p)) <= Cardinality(LeftIn(work, p))
  BY <1>3, <1>5, FS_Subset, FS_CardinalityType
<1>7. CASE SentIn(down', p, L) = SentIn(down, p, L)
  BY <1>3, <1>4, <1>6, <1>7
<1>8. CASE SentIn(down', p, L) # SentIn(down, p, L)
  <2>1. PICK q \in Proc, frame \in BrokerFrame :
           /\ NameOf[w[1]] = ProcName[q]
           /\ frame.kind = "bcast" /\ frame.ref = L
           /\ down' = [down EXCEPT ![q] = Append(down[q], frame)]
    <3>1. PICK v \in {"whole", "cut"}, q \in Proc :
             NameOf[w[1]] = ProcName[q] /\ down' = [down EXCEPT ![q] = Append(down[q], Broadcast(L, v))]
      BY <1>2, <1>8
    <3>2. Broadcast(L, v) \in BrokerFrame /\ Broadcast(L, v).kind = "bcast" /\ Broadcast(L, v).ref = L
      BY <1>1 DEF Broadcast, BrokerFrame
    <3>3. QED
      BY <3>1, <3>2, Zenon
  <2>2. /\ \A s \in Proc \ {q} : SentIn(down', s, L) = SentIn(down, s, L)
        /\ SentIn(down', q, L) = SentIn(down, q, L) \cup {Len(down[q]) + 1}
        /\ Len(down[q]) + 1 \notin SentIn(down, q, L)
    BY <1>1, <2>1, SentAppend, Zenon
  <2>3. p = q
    BY <1>8, <2>2
  <2>4. /\ SentIn(down', p, L) = SentIn(down, p, L) \cup {Len(down[p]) + 1}
        /\ Len(down[p]) + 1 \notin SentIn(down, p, L)
    BY <2>2, <2>3
  <2>5. Cardinality(SentIn(down', p, L)) = Cardinality(SentIn(down, p, L)) + 1
    <3>1. Cardinality(SentIn(down, p, L) \cup {Len(down[p]) + 1}) = Cardinality(SentIn(down, p, L)) + 1
      BY <1>3, <2>4, FS_AddElement
    <3>2. QED
      BY <2>4, <3>1, Zenon
  <2>6. Cardinality(LeftIn(work', p)) = Cardinality(LeftIn(work, p)) - 1
    <3>1. w[2] \in LeftIn(work, p) /\ LeftIn(work', p) = LeftIn(work, p) \ {w[2]}
      BY <1>5, <2>1, <2>3
    <3>2. PICK S, x : S = LeftIn(work, p) /\ x = w[2]
      OBVIOUS
    <3>3. IsFiniteSet(S) /\ x \in S
      BY <1>3, <3>1, <3>2
    <3>4. Cardinality(S \ {x}) = Cardinality(S) - 1
      BY <3>3, FS_RemoveElement
    <3>5. QED
      BY <3>1, <3>2, <3>4, Zenon
  <2>7. QED
    BY <1>3, <1>4, <2>5, <2>6
<1>9. QED
  BY <1>7, <1>8

(* A new broadcast: no copies yet, and all its sends left. *)
LEMMA CountRecv ==
  ASSUME RelayInv, RecvCmd
  PROVE  CountInv'
<1> DEFINE q == fdtab[connfd[cur]]
           m == Head(up[q])
<1>0. TypeOK /\ OrderInv
  BY DEF RelayInv, AddressInv, OwnInv
<1>1. down' = down /\ m.cmd.ids \in Seq(1..255) /\ Outcome(q, m)
  BY <1>0, RecvCmdTakes, RecvCmdOutcome
<1> HIDE DEF m, q
<1>2. CASE pc' # "bcast"
  BY <1>2 DEF CountInv
<1>3. CASE pc' = "bcast"
  <2>1. PICK e \in LogEntry : work' = Sends(m.cmd.ids) /\ e.ids = m.cmd.ids /\ log' = Append(log, e)
    BY <1>1, <1>3 DEF Outcome
  <2>2. /\ Len(log) \in Nat /\ Len(log') = Len(log) + 1 /\ log'[Len(log')] = e
    BY <1>0, <2>1, AppendProperties, LenProperties DEF TypeOK
  <2> SUFFICES ASSUME NEW p \in Proc
               PROVE  Cardinality(SentIn(down, p, Len(log'))) + Cardinality(LeftIn(work', p))
                        <= Cardinality(NamedBy(p, m.cmd.ids))
    BY <1>1, <2>1, <2>2 DEF CountInv
  <2>3. \A i \in DOMAIN down[p] : down[p][i].kind = "bcast" => down[p][i].ref # Len(log')
    <3>1. DOMAIN down[p] = 1..Len(down[p])
      BY <1>0, LenProperties DEF TypeOK, SocketType
    <3>2. \A i \in DOMAIN down[p] : down[p][i].kind = "bcast" => down[p][i].ref \in 1..Len(log)
      BY <1>0, <3>1 DEF OrderInv, DownInv
    <3>3. Len(log') \notin 1..Len(log)
      BY <2>2
    <3>4. QED
      BY <3>2, <3>3
  <2>4. SentIn(down, p, Len(log')) = {}
    BY <2>3 DEF SentIn
  <2>5. Cardinality(SentIn(down, p, Len(log'))) = 0
    BY <2>4, FS_EmptySet
  <2>6. /\ Cardinality(LeftIn(work', p)) \in Nat /\ Cardinality(NamedBy(p, m.cmd.ids)) \in Nat
        /\ Cardinality(LeftIn(work', p)) <= Cardinality(NamedBy(p, m.cmd.ids))
    BY <1>1, <2>1, NamedFinite
  <2>7. QED
    BY <2>5, <2>6
<1>4. QED
  BY <1>2, <1>3

LEMMA RelayStep ==
  ASSUME RelayInv, NamesDistinct, [Next]_vars, AddressInv'
  PROVE  RelayInv'
<1>1. TypeOK
  BY DEF RelayInv, AddressInv, OwnInv
<1>2. FramesInv'
  BY <1>1, FramesStep DEF RelayInv
<1>3. ASSUME pc' = "bcast" => pc = "bcast" /\ UNCHANGED <<down, log, work>>
      PROVE  CountInv'
  BY <1>3 DEF RelayInv, CountInv
<1>4. CountInv'
  <2>1. CASE BcastSend
    BY <2>1, CountSend
  <2>2. CASE RecvCmd
    BY <2>2, CountRecv
  <2>3. CASE Select \/ Accept \/ PassSkip \/ PassEnd \/ RecvFail \/ SendReply \/ BcastFail \/ BcastKill \/ BcastDone
    <3>1. pc' # "bcast"
      BY <2>3, Zenon DEF Select, Accept, PassSkip, PassEnd, RecvFail, SendReply, BcastFail, BcastKill, BcastDone, Die
    <3>2. QED
      BY <1>3, <3>1
  <2>4. ASSUME NEW q \in Proc, ClientNext(q) PROVE CountInv'
    <3>1. UNCHANGED <<pc, down, log, work>>
      BY <2>4, Zenon DEF ClientNext, Unlink, Bind, Connect, SendHead, SendBody, RecvData, ClientClose, brokerVars
    <3>2. QED
      BY <1>3, <3>1
  <2>5. CASE UNCHANGED vars
    BY <1>3, <2>5 DEF vars, clientVars, brokerVars
  <2>6. QED
    BY <2>1, <2>2, <2>3, <2>4, <2>5 DEF Next, BrokerNext
<1>5. QED
  BY <1>2, <1>4 DEF RelayInv

LEMMA RelayInvariant ==
  ASSUME NamesDistinct
  PROVE  Spec => []RelayInv
<1>1. Init /\ AddressInv => RelayInv
  BY BoundAssumption, EmptySeq DEF Init, RelayInv, FramesInv, CountInv
<1>2. RelayInv /\ [Next]_vars /\ AddressInv' => RelayInv'
  BY RelayStep
<1>3. QED
  BY <1>1, <1>2, AddressInvariant, PTL DEF Spec

(* What PubSub sees of a frame and of an entry of the log. *)
Position(frame) == IF frame.kind = "bcast" THEN frame.ref ELSE 0
InboxOf(s)      == [i \in DOMAIN s |-> Position(s[i])]
Item(e)         == [src |-> e.src, num |-> e.num, ids |-> e.ids]
HistoryOf(s)    == [i \in DOMAIN s |-> Item(s[i])]

LEMMA InboxOfAppend ==
  ASSUME NEW s \in Seq(BrokerFrame), NEW frame \in BrokerFrame
  PROVE  InboxOf(Append(s, frame)) = Append(InboxOf(s), Position(frame))
<1> DEFINE n == Len(s)
           t == Append(s, frame)
<1>0. \A g \in BrokerFrame : Position(g) \in Nat
  BY DEF Position, BrokerFrame
<1>1. /\ n \in Nat /\ DOMAIN s = 1..n /\ DOMAIN t = 1..(n + 1) /\ t[n + 1] = frame
      /\ \A i \in 1..n : t[i] = s[i] /\ s[i] \in BrokerFrame
  BY AppendProperties, LenProperties, ElementOfSeq
<1> HIDE DEF t, n
<1>2. \A i \in 1..(n + 1) : i \in 1..n \/ i = n + 1
  BY <1>1
<1>3. \A i \in 1..(n + 1) : t[i] \in BrokerFrame
  BY <1>1, <1>2
<1>4. InboxOf(s) = [i \in 1..n |-> Position(s[i])] /\ InboxOf(t) = [i \in 1..(n + 1) |-> Position(t[i])]
  BY <1>1 DEF InboxOf
<1>5. InboxOf(s) \in Seq(Nat) /\ Len(InboxOf(s)) = n
  BY <1>0, <1>1, <1>4, LenProperties
<1>6. InboxOf(t) \in Seq(Nat) /\ Len(InboxOf(t)) = n + 1
  BY <1>0, <1>1, <1>3, <1>4, LenProperties
<1> DEFINE a == Append(InboxOf(s), Position(frame))
<1>7. /\ a \in Seq(Nat) /\ Len(a) = n + 1 /\ a[n + 1] = Position(frame)
      /\ \A i \in 1..n : a[i] = InboxOf(s)[i]
  BY <1>0, <1>5, AppendProperties
<1> HIDE DEF a
<1>8. \A i \in 1..(n + 1) : InboxOf(t)[i] = a[i]
  BY <1>1, <1>2, <1>4, <1>7
<1>9. QED
  BY <1>1, <1>6, <1>7, <1>8, SeqEqual DEF a, t

LEMMA HistoryOfLen ==
  ASSUME NEW s \in Seq(LogEntry)
  PROVE  Len(HistoryOf(s)) = Len(s) /\ DOMAIN HistoryOf(s) = DOMAIN s
<1> DEFINE Items == [src : Proc, num : Nat, ids : Seq(1..255)]
<1>0. \A g \in LogEntry : Item(g) \in Items
  BY DEF Item, LogEntry
<1>1. \A i \in 1..Len(s) : Item(s[i]) \in Items
  BY <1>0, ElementOfSeq
<1>2. HistoryOf(s) = [i \in 1..Len(s) |-> Item(s[i])] /\ Len(s) \in Nat /\ DOMAIN s = 1..Len(s)
  BY LenProperties DEF HistoryOf
<1> HIDE DEF Items
<1>3. HistoryOf(s) \in Seq(Items)
  BY <1>1, <1>2
<1>4. QED
  BY <1>2, <1>3, LenProperties

LEMMA HistoryOfAppend ==
  ASSUME NEW s \in Seq(LogEntry), NEW e \in LogEntry
  PROVE  /\ HistoryOf(Append(s, e)) = Append(HistoryOf(s), Item(e))
         /\ Len(HistoryOf(s)) = Len(s) /\ DOMAIN HistoryOf(s) = DOMAIN s
         /\ Len(HistoryOf(Append(s, e))) = Len(s) + 1
<1> DEFINE n == Len(s)
           t == Append(s, e)
           Items == [src : Proc, num : Nat, ids : Seq(1..255)]
<1>0. \A g \in LogEntry : Item(g) \in Items
  BY DEF Item, LogEntry
<1>1. /\ n \in Nat /\ DOMAIN s = 1..n /\ DOMAIN t = 1..(n + 1) /\ t[n + 1] = e
      /\ \A i \in 1..n : t[i] = s[i] /\ s[i] \in LogEntry
  BY AppendProperties, LenProperties, ElementOfSeq
<1> HIDE DEF t, n, Items
<1>2. \A i \in 1..(n + 1) : i \in 1..n \/ i = n + 1
  BY <1>1
<1>3. \A i \in 1..(n + 1) : t[i] \in LogEntry
  BY <1>1, <1>2
<1>4. HistoryOf(s) = [i \in 1..n |-> Item(s[i])] /\ HistoryOf(t) = [i \in 1..(n + 1) |-> Item(t[i])]
  BY <1>1 DEF HistoryOf
<1>5. HistoryOf(s) \in Seq(Items) /\ Len(HistoryOf(s)) = n
  BY <1>0, <1>1, <1>4, LenProperties
<1>6. HistoryOf(t) \in Seq(Items) /\ Len(HistoryOf(t)) = n + 1
  BY <1>0, <1>1, <1>3, <1>4, LenProperties
<1> DEFINE a == Append(HistoryOf(s), Item(e))
<1>7. /\ a \in Seq(Items) /\ Len(a) = n + 1 /\ a[n + 1] = Item(e)
      /\ \A i \in 1..n : a[i] = HistoryOf(s)[i]
  BY <1>0, <1>5, AppendProperties
<1> HIDE DEF a
<1>8. \A i \in 1..(n + 1) : HistoryOf(t)[i] = a[i]
  BY <1>1, <1>2, <1>4, <1>7
<1>9. HistoryOf(t) = a
  BY <1>1, <1>6, <1>7, <1>8, SeqEqual
<1>10. QED
  BY <1>1, <1>4, <1>5, <1>6, <1>9 DEF a, t, n

LEMMA Mapped ==
  /\ Published = HistoryOf(log) /\ Published' = HistoryOf(log')
  /\ \A p : Inbox(p) = InboxOf(down[p])
  /\ [p \in Proc |-> Inbox(p)] = [p \in Proc |-> InboxOf(down[p])]
  /\ [p \in Proc |-> Inbox(p)]' = [p \in Proc |-> InboxOf(down'[p])]
BY DEF Published, HistoryOf, Item, Inbox, InboxOf, Position

(* A frame more in a stream is a position more in the inbox of its process. *)
LEMMA InboxAppend ==
  ASSUME TypeOK, NEW q \in Proc, NEW frame \in BrokerFrame,
         down' = [down EXCEPT ![q] = Append(down[q], frame)]
  PROVE  /\ [p \in Proc |-> Inbox(p)]' =
              [[p \in Proc |-> Inbox(p)] EXCEPT ![q] = Append(@, Position(frame))]
         /\ [p \in Proc |-> Inbox(p)]' # [p \in Proc |-> Inbox(p)]
<1>1. down \in [Proc -> Seq(BrokerFrame)]
  BY DEF TypeOK, SocketType
<1>2. down'[q] = Append(down[q], frame) /\ \A p \in Proc \ {q} : down'[p] = down[p]
  BY <1>1
<1>3. InboxOf(down'[q]) = Append(InboxOf(down[q]), Position(frame))
  BY <1>1, <1>2, InboxOfAppend
<1>4. DOMAIN InboxOf(down[q]) = 1..Len(down[q]) /\ Len(down[q]) \in Nat
  BY <1>1, LenProperties DEF InboxOf
<1>5. DOMAIN InboxOf(down'[q]) = 1..(Len(down[q]) + 1)
  BY <1>1, <1>2, AppendProperties, LenProperties DEF InboxOf
<1>6. InboxOf(down'[q]) # InboxOf(down[q])
  <2>1. Len(down[q]) + 1 \in DOMAIN InboxOf(down'[q]) /\ Len(down[q]) + 1 \notin DOMAIN InboxOf(down[q])
    BY <1>4, <1>5
  <2>2. QED
    BY <2>1, Zenon
<1> DEFINE I == [p \in Proc |-> InboxOf(down[p])]
           J == [p \in Proc |-> InboxOf(down'[p])]
<1>7. \A p \in Proc : J[p] = IF p = q THEN Append(I[q], Position(frame)) ELSE I[p]
  <2> SUFFICES ASSUME NEW p \in Proc
               PROVE  InboxOf(down'[p]) = IF p = q THEN Append(InboxOf(down[q]), Position(frame)) ELSE InboxOf(down[p])
    OBVIOUS
  <2>1. CASE p = q
    BY <1>3, <2>1
  <2>2. CASE p # q
    <3>1. down'[p] = down[p]
      BY <1>2, <2>2
    <3>2. InboxOf(down'[p]) = InboxOf(down[p])
      BY <3>1, Zenon
    <3>3. QED
      BY <2>2, <3>2
  <2>3. QED
    BY <2>1, <2>2
<1>8. J = [I EXCEPT ![q] = Append(I[q], Position(frame))]
  <2>1. DOMAIN J = Proc /\ DOMAIN I = Proc
    OBVIOUS
  <2> HIDE DEF I
  <2>2. QED
    BY <1>7, <2>1
<1>9. J # I
  <2>1. J[q] = InboxOf(down'[q]) /\ I[q] = InboxOf(down[q])
    OBVIOUS
  <2>2. QED
    BY <1>6, <2>1, Zenon
<1>10. [p \in Proc |-> Inbox(p)] = I /\ [p \in Proc |-> Inbox(p)]' = J
  BY Mapped
<1> HIDE DEF I, J
<1>11. QED
  BY <1>8, <1>9, <1>10, Zenon

(* A broadcast that enters the log is published. *)
LEMMA PublishStep ==
  ASSUME RelayInv, RecvCmd, log' # log
  PROVE  Atomic!Publish
<1> DEFINE q == fdtab[connfd[cur]]
           m == Head(up[q])
<1>0. TypeOK /\ OrderInv
  BY DEF RelayInv, AddressInv, OwnInv
<1>1. /\ down' = down /\ Outcome(q, m)
      /\ q \in Proc /\ up[q] \in Seq(ClientFrame) /\ up[q] # <<>> /\ m.num \in Nat
  BY <1>0, RecvCmdTakes, RecvCmdOutcome
<1>2. m = up[q][1] /\ 1 \in 1..Len(up[q])
  BY <1>1, HeadTailProperties, LenProperties, EmptySeq
<1>3. m.num \in 1..MaxSend /\ m.cmd \in Commands
  <2>1. sent[q] \in Nat /\ sent[q] <= MaxSend /\ m.num <= sent[q] /\ 1 <= m.num /\ m.cmd \in Commands
    BY <1>0, <1>1, <1>2 DEF RelayInv, FramesInv, OrderInv, StreamInv, TypeOK, SocketType
  <2>2. QED
    BY <1>1, <2>1, BoundAssumption
<1>4. \A r \in 1..Len(log) : log[r].src = q => log[r].num < m.num
  BY <1>0, <1>1, <1>2 DEF OrderInv, LogInv
<1> HIDE DEF m, q
<1>5. PICK e \in LogEntry : e.src = q /\ e.num = m.num /\ e.ids = m.cmd.ids /\ log' = Append(log, e)
  BY <1>1, Zenon DEF Outcome
<1>6. /\ Published' = Append(Published, [src |-> q, num |-> m.num, ids |-> m.cmd.ids])
      /\ Len(Published') = Len(Published) + 1
      /\ DOMAIN Published = 1..Len(log)
  <2>1. log \in Seq(LogEntry) /\ DOMAIN log = 1..Len(log)
    BY <1>0, LenProperties DEF TypeOK
  <2>2. Item(e) = [src |-> q, num |-> m.num, ids |-> m.cmd.ids]
    BY <1>5 DEF Item
  <2>3. QED
    BY <1>5, <2>1, <2>2, HistoryOfAppend, Mapped
<1>7. \A i \in DOMAIN Published : Published[i].src = q => Published[i].num < m.num
  BY <1>4, <1>6 DEF Published
<1>8. [p \in Proc |-> Inbox(p)]' = [p \in Proc |-> Inbox(p)]
  BY <1>1, Mapped
<1>9. m.cmd.ids \in {c.ids : c \in Commands}
  BY <1>3
<1>10. QED
  BY <1>1, <1>3, <1>6, <1>7, <1>8, <1>9 DEF Atomic!Publish

(* PubSub counts as Broker does. *)
LEMMA SameCardinality ==
  ASSUME NEW S
  PROVE  Atomic!Cardinality(S) = Cardinality(S)
BY DEF Atomic!Cardinality, Cardinality

(* A frame of a broadcast, whole or cut, hands out the latest one. *)
LEMMA HandStep ==
  ASSUME RelayInv, NamesDistinct, BcastSend \/ BcastFail, down' # down
  PROVE  Atomic!Hand
<1> SUFFICES ASSUME NEW L, L = Len(log)
             PROVE  Atomic!Hand
  OBVIOUS
<1>0. pc = "bcast" /\ log' = log
  BY DEF BcastSend, BcastFail
<1>1. TypeOK /\ L \in Nat /\ L \in DOMAIN log
  BY <1>0, CountFacts
<1>2. PICK v \in {"whole", "cut"}, q \in Proc :
         /\ down' = [down EXCEPT ![q] = Append(down[q], Broadcast(L, v))]
         /\ Cardinality(SentIn(down, q, L)) < Cardinality(NamedBy(q, log[L].ids))
  BY BroadcastSent
<1>3. Broadcast(L, v) \in BrokerFrame /\ Position(Broadcast(L, v)) = L
  BY <1>1 DEF Broadcast, BrokerFrame, Position
<1>4. /\ [p \in Proc |-> Inbox(p)]' = [[p \in Proc |-> Inbox(p)] EXCEPT ![q] = Append(@, L)]
      /\ [p \in Proc |-> Inbox(p)]' # [p \in Proc |-> Inbox(p)]
  BY <1>1, <1>2, <1>3, InboxAppend
<1>5. /\ Published' = Published /\ Published # <<>> /\ Len(Published) = L
      /\ Published[L].ids = log[L].ids
  <2>1. log \in Seq(LogEntry) /\ DOMAIN log = 1..L
    BY <1>1, LenProperties DEF TypeOK
  <2>2. Published = HistoryOf(log) /\ Len(HistoryOf(log)) = L
    BY <2>1, Mapped, HistoryOfLen
  <2>3. DOMAIN Published = 1..L
    BY <2>1 DEF Published
  <2>4. Published' = Published
    BY <1>0, Mapped
  <2>5. QED
    BY <1>1, <2>1, <2>2, <2>3, <2>4, EmptySeq DEF Published
<1>6. {i \in DOMAIN Inbox(q) : Inbox(q)[i] = L} = SentIn(down, q, L)
  <2>1. \A i \in DOMAIN down[q] : Position(down[q][i]) = L <=> down[q][i].kind = "bcast" /\ down[q][i].ref = L
    <3>1. L # 0
      BY <1>1, LenProperties DEF TypeOK
    <3>2. QED
      BY <3>1 DEF Position
  <2>2. QED
    BY <2>1 DEF Inbox, SentIn, Position
<1>7. Atomic!Received(q, L) = SentIn(down, q, L)
  BY <1>6 DEF Atomic!Received
<1>8. Atomic!Named(q, log[L].ids) = NamedBy(q, log[L].ids)
  BY DEF Atomic!Named, NamedBy
<1>9. Atomic!Cardinality(Atomic!Received(q, L)) < Atomic!Cardinality(Atomic!Named(q, log[L].ids))
  BY <1>2, <1>7, <1>8, SameCardinality, Zenon
<1>10. /\ [p \in Proc |-> Inbox(p)]' =
            [[p \in Proc |-> Inbox(p)] EXCEPT ![q] = Append(@, Len(Published))]
       /\ Atomic!Cardinality(Atomic!Received(q, Len(Published)))
            < Atomic!Cardinality(Atomic!Named(q, Published[Len(Published)].ids))
  BY <1>4, <1>5, <1>9, Zenon
<1>11. QED
  BY <1>4, <1>5, <1>10, Zenon DEF Atomic!Hand

(* Every step of the broker and of its clients is a step of PubSub, or one *)
(* that PubSub does not see.                                               *)
LEMMA StepIsPubSub ==
  ASSUME RelayInv, NamesDistinct, [Next]_vars
  PROVE  [Atomic!PubSubNext]_(Atomic!pubsubVars)
<1>0. TypeOK
  BY DEF RelayInv, AddressInv, OwnInv
<1>1. ASSUME UNCHANGED <<log, down>> PROVE UNCHANGED Atomic!pubsubVars
  <2>1. Published' = Published /\ [p \in Proc |-> Inbox(p)]' = [p \in Proc |-> Inbox(p)]
    BY <1>1, Mapped
  <2>2. QED
    BY <2>1, Zenon DEF Atomic!pubsubVars
<1>2. CASE (BcastSend \/ BcastFail) /\ down' # down
  BY <1>2, HandStep DEF Atomic!PubSubNext
<1>3. CASE RecvCmd /\ log' # log
  BY <1>3, PublishStep DEF Atomic!PubSubNext
<1>4. CASE SendReply /\ down' # down
  <2>1. PICK w \in {"whole", "cut"} :
          Linked(cur) /\ down' = [down EXCEPT ![PeerOf(cur)] = Append(down[PeerOf(cur)], Reply(cmd, w))]
    BY <1>4, Zenon DEF SendReply, Die, clientVars, SendPasses, SendTimesOut, LeftBehind
  <2>2. PeerOf(cur) \in Proc /\ Reply(cmd, w) \in BrokerFrame /\ Position(Reply(cmd, w)) = 0
    BY <1>0, <1>4, <2>1, PeerType DEF SendReply, TypeOK, BrokerType, Reply, BrokerFrame, Position
  <2>3. [p \in Proc |-> Inbox(p)]' = [[p \in Proc |-> Inbox(p)] EXCEPT ![PeerOf(cur)] = Append(@, 0)]
    BY <1>0, <2>1, <2>2, InboxAppend
  <2>4. Published' = Published
    <3>1. log' = log
      BY <1>4, Zenon DEF SendReply, Die
    <3>2. QED
      BY <3>1, Mapped
  <2>5. Atomic!Answer
    BY <2>2, <2>3, <2>4, Zenon DEF Atomic!Answer
  <2>6. QED
    BY <2>5 DEF Atomic!PubSubNext
<1>5. CASE BrokerNext /\ UNCHANGED <<log, down>>
  BY <1>1, <1>5
<1>6. CASE BrokerNext /\ ~UNCHANGED <<log, down>>
  <2>1. \/ (BcastSend \/ BcastFail \/ SendReply) /\ down' # down
        \/ RecvCmd /\ log' # log
    BY <1>6, Zenon DEF BrokerNext, Select, Accept, PassSkip, PassEnd, RecvCmd, RecvFail, SendReply, BcastSend,
                       BcastFail, BcastKill, BcastDone, Die, clientVars
  <2>2. QED
    BY <1>2, <1>3, <1>4, <2>1
<1>7. ASSUME NEW q \in Proc, ClientNext(q) PROVE UNCHANGED Atomic!pubsubVars
  <2>1. UNCHANGED <<log, down>>
    BY <1>7, Zenon DEF ClientNext, Unlink, Bind, Connect, SendHead, SendBody, RecvData, ClientClose
  <2>2. QED
    BY <1>1, <2>1
<1>8. CASE UNCHANGED vars
  BY <1>1, <1>8 DEF vars, clientVars
<1>9. QED
  BY <1>5, <1>6, <1>7, <1>8 DEF Next

(* The broker implements PubSub, for every configuration with distinct     *)
(* names, every set of clients and all bounds: broadcasts are published    *)
(* one after the other in each sender's order, and while one is the latest *)
(* it is handed to processes it names, no more often than it names them.   *)
THEOREM ImplementsPubSub ==
  ASSUME NamesDistinct
  PROVE  Spec => IsPubSub
<1>1. Init => Atomic!PubSubInit
  <2> SUFFICES ASSUME Init PROVE Published = <<>> /\ [p \in Proc |-> Inbox(p)] = [p \in Proc |-> <<>>]
    BY DEF Atomic!PubSubInit
  <2>1. log = <<>> /\ \A p \in Proc : down[p] = <<>>
    BY DEF Init
  <2>2. QED
    BY <2>1 DEF Published, Inbox
<1>2. RelayInv /\ [Next]_vars => [Atomic!PubSubNext]_(Atomic!pubsubVars)
  BY StepIsPubSub
<1>3. QED
  BY <1>1, <1>2, RelayInvariant, PTL DEF Spec, IsPubSub, Atomic!PubSubSpec

=============================================================================
