--------------------------- MODULE ShmQueryProofs ---------------------------
(***************************************************************************)
(* Proofs about ShmQuery: for every number of segments, size of the        *)
(* buffers and length of broadcasts, a successful call of                  *)
(* ih_get_shm_infos returns the broker's table and the names in it, its    *)
(* second loop waits for a table that nobody has asked for only if the     *)
(* broker gave the answer up, and what a call leaves in the stream is      *)
(* bounded by the calls that gave up and the application's own requests.   *)
(***************************************************************************)
EXTENDS ShmQuery, SequenceTheorems, FiniteSetTheorems, TLAPS

(* Every answer in the stream tells the truth. *)
AnswersTrue ==
  \A i \in DOMAIN down :
    down[i].id # IH_CMD_ID_DEFAULT => down[i].body = shm_node_num

(* The second loop is entered only for a table that is not empty and fits. *)
LoopEntered == pc = "info" => shm_node_num # 0 /\ shm_node_num <= BufNodes

QueryInv == QueryTypeOK /\ AnswersTrue /\ LoopEntered

(* A positive result belongs to a table that fits, and stays in the buffer *)
(* until the next call reaches its second loop.                            *)
ResultKept == (pc \in {"idle", "num"} /\ result > 0) =>
    /\ result = shm_node_num
    /\ shm_node_num <= BufNodes
    /\ \A i \in 1..shm_node_num : buffer[i] = i

(* No broadcast in the stream is longer than the longest one, and nothing  *)
(* has been written to the buffer behind that one, the table and the byte  *)
(* of a count.                                                             *)
BroadcastsShort ==
  \A i \in DOMAIN down : down[i].id = IH_CMD_ID_DEFAULT => down[i].body <= longest

BufferClean ==
  \A i \in 1..BufNodes : (i > longest /\ i > shm_node_num /\ i > 1) => buffer[i] = 0

(* What Tail and Append do to a property of all elements. *)
LEMMA TailElements ==
  ASSUME NEW S, NEW s \in Seq(S), s # <<>>
  PROVE  /\ Tail(s) \in Seq(S)
         /\ Head(s) = s[1] /\ Head(s) \in S /\ 1 \in DOMAIN s
         /\ \A i \in DOMAIN Tail(s) : i + 1 \in DOMAIN s /\ Tail(s)[i] = s[i + 1]
         /\ \A j \in DOMAIN s : j # 1 => j - 1 \in DOMAIN Tail(s) /\ s[j] = Tail(s)[j - 1]
  OBVIOUS

LEMMA AppendElements ==
  ASSUME NEW S, NEW s \in Seq(S), NEW e \in S
  PROVE  /\ Append(s, e) \in Seq(S)
         /\ DOMAIN Append(s, e) = DOMAIN s \cup {Len(s) + 1}
         /\ \A i \in DOMAIN s : Append(s, e)[i] = s[i]
         /\ Append(s, e)[Len(s) + 1] = e
  OBVIOUS

USE DEF IH_RESERVE_CMD_ID_GET_SHM_INFO, IH_RESERVE_CMD_ID_GET_SHM_NUM, IH_CMD_ID_DEFAULT

(* The command ids, and the frames the broker makes of them. *)
LEMMA Ids ==
  /\ IH_RESERVE_CMD_ID_GET_SHM_INFO \in Requests
  /\ IH_RESERVE_CMD_ID_GET_SHM_NUM \in Requests
  /\ IH_CMD_ID_DEFAULT \in CmdId /\ IH_CMD_ID_DEFAULT \notin Requests
  /\ Requests \subseteq CmdId
  BY DEF Requests, CmdId

LEMMA FrameFields ==
  ASSUME NEW id \in CmdId, NEW n \in 0..255
  PROVE  /\ Frame(id, n) \in FrameType
         /\ Frame(id, n).id = id /\ Frame(id, n).body = n /\ Frame(id, n).whole
  BY DEF Frame, FrameType

LEMMA PieceFields ==
  Piece \in FrameType /\ Piece.id = IH_CMD_ID_DEFAULT /\ Piece.body = 0 /\ ~Piece.whole
  BY Ids DEF Piece, FrameType

LEMMA FrameTypes ==
  ASSUME NEW f \in FrameType PROVE f.id \in CmdId /\ f.body \in 0..255
  BY DEF FrameType

(* What the broker's end does to the stream: a frame or a piece follows,   *)
(* or nothing.                                                             *)
Grows(f) == down' = down \/ down' = Append(down, f) \/ down' = Append(down, Piece)

LEMMA GrowsElements ==
  ASSUME down \in Seq(FrameType), NEW f \in FrameType, Grows(f)
  PROVE  /\ down' \in Seq(FrameType)
         /\ \A i \in DOMAIN down : i \in DOMAIN down' /\ down'[i] = down[i]
         /\ \A i \in DOMAIN down' : \/ i \in DOMAIN down /\ down'[i] = down[i]
                                    \/ down'[i] = f
                                    \/ down'[i] = Piece
<1>1. Piece \in FrameType
  BY PieceFields
<1>2. CASE down' = down
  BY <1>2
<1>3. CASE down' = Append(down, f)
  BY <1>3, AppendElements
<1>4. CASE down' = Append(down, Piece)
  BY <1>1, <1>4, AppendElements
<1> QED BY <1>2, <1>3, <1>4 DEF Grows

(* An answer is a frame with the request's id and the number of segments.  *)
LEMMA AnswerFrame ==
  ASSUME QueryTypeOK, BrokerAnswer
  PROVE  /\ up # <<>> /\ Head(up) \in Requests /\ Tail(up) \in Seq(Requests) /\ up' = Tail(up)
         /\ Frame(Head(up), shm_node_num) \in FrameType
         /\ Frame(Head(up), shm_node_num).id = Head(up)
         /\ Frame(Head(up), shm_node_num).body = shm_node_num
         /\ Frame(Head(up), shm_node_num).whole
         /\ Grows(Frame(Head(up), shm_node_num))
         /\ unanswered' \in BOOLEAN
<1>1. up # <<>> /\ up' = Tail(up) /\ up \in Seq(Requests) /\ shm_node_num \in 0..255
  BY QueryAssumption DEF BrokerAnswer, QueryTypeOK
<1>2. Head(up) \in Requests /\ Tail(up) \in Seq(Requests)
  BY <1>1, TailElements
<1>3. Grows(Frame(Head(up), shm_node_num)) /\ unanswered' \in BOOLEAN
  BY DEF BrokerAnswer, parser_reserve_cmd, tcp_send_protocol_cmd, Grows, QueryTypeOK
<1>4. Head(up) \in CmdId
  BY <1>2, Ids
<1> QED BY <1>1, <1>2, <1>3, <1>4, FrameFields

LEMMA RelayFrame ==
  ASSUME QueryTypeOK, NEW len \in BcastLens, BrokerRelay(len)
  PROVE  /\ len \in 0..255 /\ len <= BufNodes
         /\ Frame(IH_CMD_ID_DEFAULT, len) \in FrameType
         /\ Frame(IH_CMD_ID_DEFAULT, len).id = IH_CMD_ID_DEFAULT
         /\ Frame(IH_CMD_ID_DEFAULT, len).body = len
         /\ Grows(Frame(IH_CMD_ID_DEFAULT, len))
         /\ unanswered' \in BOOLEAN
         /\ longest' \in 0..255 /\ longest <= longest' /\ len <= longest'
         /\ up' = up \/ (up' = <<>> /\ peer' = "gone")
<1>1. len \in 0..255 /\ len <= BufNodes /\ longest \in 0..255
  BY QueryAssumption DEF QueryTypeOK
<1>2. Grows(Frame(IH_CMD_ID_DEFAULT, len)) /\ unanswered' \in BOOLEAN
  BY DEF BrokerRelay, tcp_send_protocol_cmd, Grows, QueryTypeOK
<1>3. longest' \in 0..255 /\ longest <= longest' /\ len <= longest'
  BY <1>1 DEF BrokerRelay
<1>4. up' = up \/ (up' = <<>> /\ peer' = "gone")
  BY DEF BrokerRelay, Hangup
<1>5. IH_CMD_ID_DEFAULT \in CmdId
  BY Ids
<1>6. /\ Frame(IH_CMD_ID_DEFAULT, len) \in FrameType
      /\ Frame(IH_CMD_ID_DEFAULT, len).id = IH_CMD_ID_DEFAULT
      /\ Frame(IH_CMD_ID_DEFAULT, len).body = len
  BY <1>1, <1>5 DEF Frame, FrameType
<1> QED BY <1>1, <1>2, <1>3, <1>4, <1>6

(* What a request does. *)
LEMMA RequestStep ==
  ASSUME up \in Seq(Requests), NEW id \in Requests, Sends(id) \/ GivesUp \/ Killed
  PROVE  up' \in Seq(Requests) /\ (up' = up \/ up' = Append(up, id))
  BY AppendElements DEF Sends, GivesUp, Killed

LEMMA QueryInit == Init => QueryInv
<1>1. <<>> \in Seq(Requests) /\ <<>> \in Seq(FrameType) /\ DOMAIN <<>> = {}
  OBVIOUS
<1>2. Init => unanswered \in BOOLEAN
  BY DEF Init
<1>3. Init => buffer \in [1..BufNodes -> -1..255]
  BY DEF Init
<1>4. Init => QueryTypeOK
  BY <1>1, <1>2, <1>3 DEF Init, QueryTypeOK
<1>5. Init => AnswersTrue /\ LoopEntered
  BY <1>1 DEF Init, AnswersTrue, LoopEntered
<1> QED BY <1>4, <1>5 DEF QueryInv

LEMMA QueryStep == QueryInv /\ [Next]_vars => QueryInv'
<1> SUFFICES ASSUME QueryInv, [Next]_vars PROVE QueryInv'
  OBVIOUS
<1> USE QueryAssumption DEF QueryInv
<1>a. down # <<>> =>
        /\ Tail(down) \in Seq(FrameType)
        /\ Head(down) = down[1] /\ 1 \in DOMAIN down
        /\ Head(down) \in FrameType
        /\ \A i \in DOMAIN Tail(down) : i + 1 \in DOMAIN down /\ Tail(down)[i] = down[i + 1]
  BY TailElements DEF QueryTypeOK
<1>b. <<>> \in Seq(FrameType) /\ <<>> \in Seq(Requests) /\ DOMAIN <<>> = {}
  OBVIOUS
<1>c. up \in Seq(Requests) /\ result \in -1..255
  BY DEF QueryTypeOK
<1>d. -1 \in -1..255 /\ \A n \in 0..255 : n \in -1..255
  OBVIOUS
<1>1. CASE ih_get_shm_infos
  <2>1. up' \in Seq(Requests) /\ pc' \in {"idle", "num", "dead"} /\ result' \in -1..255
    <3>1. CASE client_connfd = "closed"
      BY <1>1, <3>1 DEF ih_get_shm_infos, QueryTypeOK
    <3>2. CASE client_connfd = "open"
      <4>1. Sends(IH_RESERVE_CMD_ID_GET_SHM_NUM) \/ GivesUp \/ Killed
        BY <1>1, <3>2 DEF ih_get_shm_infos
      <4>2. up' \in Seq(Requests)
        BY <1>c, <4>1, RequestStep, Ids
      <4> QED BY <1>1, <3>2, <4>2 DEF ih_get_shm_infos, Killed, QueryTypeOK
    <3> QED BY <3>1, <3>2 DEF QueryTypeOK
  <2>2. AnswersTrue' /\ LoopEntered'
    BY <1>1, <2>1 DEF ih_get_shm_infos, broker, AnswersTrue, LoopEntered
  <2>3. QueryTypeOK'
    BY <1>1, <2>1 DEF ih_get_shm_infos, broker, QueryTypeOK
  <2> QED BY <2>2, <2>3
<1>2. CASE NumSkip
  <2>1. pc' \in {"num", "dead", "lost"} /\ tables' \in Nat
    BY <1>2 DEF NumSkip, QueryTypeOK
  <2>2. AnswersTrue' /\ LoopEntered'
    BY <1>2, <1>a, <2>1 DEF NumSkip, broker, AnswersTrue, LoopEntered
  <2>3. QueryTypeOK'
    BY <1>2, <1>a, <2>1 DEF NumSkip, Ready, broker, QueryTypeOK
  <2> QED BY <2>2, <2>3
<1>3. CASE NumAnswer
  <2>0. pc = "num" /\ down # <<>> /\ down' = Tail(down) /\ shm_node_num' = shm_node_num
    BY <1>3 DEF NumAnswer, Ready, broker
  <2>1. Head(down).body = shm_node_num
    BY <1>3, <1>a, <2>0 DEF NumAnswer, AnswersTrue
  <2>2. AnswersTrue'
    BY <2>0, <1>a DEF AnswersTrue
  <2>5. /\ up' \in Seq(Requests) /\ pc' \in {"idle", "info", "dead"} /\ result' \in -1..255
        /\ unanswered' \in BOOLEAN
        /\ pc' = "info" => ~(TooSmall(shm_node_num) \/ shm_node_num = 0)
    <3>1. CASE TooSmall(shm_node_num) \/ shm_node_num = 0
      BY <1>3, <2>1, <3>1 DEF NumAnswer, QueryTypeOK
    <3>2. CASE ~(TooSmall(shm_node_num) \/ shm_node_num = 0)
      <4>1. ih_send_getShmIDs_cmd("info", -1)
        BY <1>3, <2>1, <3>2 DEF NumAnswer
      <4>2. up' \in Seq(Requests)
        BY <1>c, <4>1, RequestStep, Ids DEF ih_send_getShmIDs_cmd
      <4>3. unanswered' \in BOOLEAN
        BY <4>1 DEF ih_send_getShmIDs_cmd, QueryTypeOK
      <4>4. pc' \in {"idle", "info", "dead"} /\ (result' = result \/ result' = -1)
        BY <4>1 DEF ih_send_getShmIDs_cmd, Killed
      <4>5. result' \in -1..255
        BY <1>c, <1>d, <4>4, Zenon
      <4> QED BY <3>2, <4>2, <4>3, <4>4, <4>5, Zenon
    <3> QED BY <3>1, <3>2
  <2>3. LoopEntered'
    BY <2>0, <2>5 DEF LoopEntered, TooSmall, QueryTypeOK
  <2>4. QueryTypeOK'
    BY <1>3, <1>a, <2>0, <2>5 DEF NumAnswer, broker, counted, QueryTypeOK
  <2> QED BY <2>2, <2>3, <2>4
<1>4. CASE NumFail
  BY <1>4, <1>b DEF NumFail, broker, QueryTypeOK, AnswersTrue, LoopEntered
<1>5. CASE InfoRecv
  <2>0. pc = "info" /\ down # <<>> /\ down' = Tail(down) /\ shm_node_num' = shm_node_num
    BY <1>5 DEF InfoRecv, Ready, broker
  <2>1. AnswersTrue' /\ LoopEntered'
    BY <2>0, <1>a DEF AnswersTrue, LoopEntered
  <2>6. Head(down).body \in 0..255
    BY <2>0, <1>a, FrameTypes
  <2>2. Written(Head(down)) \in [1..BufNodes -> -1..255]
    <3>2. ASSUME NEW i \in 1..BufNodes,
                 i <= Extent(Head(down)), Head(down).id = IH_RESERVE_CMD_ID_GET_SHM_INFO
          PROVE  i \in -1..255
      BY <3>2, <2>6 DEF Extent
    <3>3. buffer \in [1..BufNodes -> -1..255] /\ -1 \in -1..255
      BY DEF QueryTypeOK
    <3>4. Extent(Head(down)) \in Int
      BY <2>6 DEF Extent
    <3> QED BY <3>2, <3>3, <3>4 DEF Written, Junk
  <2>4. pc' \in {"idle", "info"} /\ result' \in -1..255
    <3>1. \/ pc' = "idle" /\ result' = Head(down).body
          \/ pc' = pc /\ result' = result
      BY <1>5 DEF InfoRecv
    <3>2. result' \in -1..255
      <4>1. CASE pc' = "idle" /\ result' = Head(down).body
        BY <1>d, <2>6, <4>1
      <4>2. CASE pc' = pc /\ result' = result
        BY <1>c, <4>2
      <4> QED BY <3>1, <4>1, <4>2
    <3>3. pc' \in {"idle", "info"}
      BY <2>0, <3>1
    <3> QED BY <3>2, <3>3
  <2>3. QueryTypeOK'
    BY <1>5, <1>a, <2>0, <2>2, <2>4 DEF InfoRecv, broker, counted, QueryTypeOK
  <2> QED BY <2>1, <2>3
<1>6. CASE InfoFail
  BY <1>6, <1>b DEF InfoFail, Closes, broker, counted, QueryTypeOK, AnswersTrue, LoopEntered
<1>7. CASE AppRecv
  <2>1. /\ pc' = pc /\ shm_node_num' = shm_node_num
        /\ (down # <<>> /\ down' = Tail(down)) \/ down' = <<>>
    BY <1>7 DEF AppRecv, Ready, Closes, broker
  <2>2. strays' \in Nat /\ client_connfd' \in {"open", "closed"}
    BY <1>7 DEF AppRecv, Closes, QueryTypeOK
  <2>3. AnswersTrue' /\ LoopEntered' /\ down' \in Seq(FrameType)
    <3>1. CASE down # <<>> /\ down' = Tail(down)
      BY <1>a, <2>1, <3>1 DEF AnswersTrue, LoopEntered
    <3>2. CASE down' = <<>>
      BY <1>b, <2>1, <3>2 DEF AnswersTrue, LoopEntered
    <3> QED BY <2>1, <3>1, <3>2
  <2>4. QueryTypeOK'
    BY <1>7, <2>1, <2>2, <2>3 DEF AppRecv, broker, QueryTypeOK
  <2> QED BY <2>3, <2>4
<1>8. CASE AppAsk
  <2>0. ih_send_getShmIDs_cmd("idle", result)
    BY <1>8 DEF AppAsk
  <2>1. up' \in Seq(Requests) /\ pc' \in {"idle", "dead"} /\ result' = result /\ unanswered' \in BOOLEAN
    <3>1. up' \in Seq(Requests)
      BY <1>c, <2>0, RequestStep, Ids DEF ih_send_getShmIDs_cmd
    <3> QED BY <2>0, <3>1 DEF ih_send_getShmIDs_cmd, Killed, QueryTypeOK
  <2>2. AnswersTrue' /\ LoopEntered'
    BY <1>8, <2>1 DEF AppAsk, broker, AnswersTrue, LoopEntered
  <2>3. QueryTypeOK'
    BY <1>8, <2>1 DEF AppAsk, broker, QueryTypeOK
  <2> QED BY <2>2, <2>3
<1>9. CASE BrokerAnswer
  <2>1. PICK f \in FrameType : f = Frame(Head(up), shm_node_num) /\ f.body = shm_node_num /\ Grows(f)
    BY <1>9, AnswerFrame
  <2>2. /\ down' \in Seq(FrameType)
        /\ \A i \in DOMAIN down' : \/ i \in DOMAIN down /\ down'[i] = down[i]
                                   \/ down'[i] = f
                                   \/ down'[i] = Piece
    BY <2>1, GrowsElements DEF QueryTypeOK
  <2>3. AnswersTrue' /\ LoopEntered'
    BY <1>9, <2>1, <2>2, PieceFields DEF BrokerAnswer, library, broker, AnswersTrue, LoopEntered
  <2>4. QueryTypeOK'
    BY <1>9, <2>2, AnswerFrame DEF BrokerAnswer, library, broker, counted, QueryTypeOK
  <2> QED BY <2>3, <2>4
<1>10. ASSUME NEW len \in BcastLens, BrokerRelay(len) PROVE QueryInv'
  <2>1. PICK f \in FrameType : f = Frame(IH_CMD_ID_DEFAULT, len) /\ f.id = IH_CMD_ID_DEFAULT /\ Grows(f)
    BY <1>10, RelayFrame
  <2>2. /\ down' \in Seq(FrameType)
        /\ \A i \in DOMAIN down' : \/ i \in DOMAIN down /\ down'[i] = down[i]
                                   \/ down'[i] = f
                                   \/ down'[i] = Piece
    BY <2>1, GrowsElements DEF QueryTypeOK
  <2>3. AnswersTrue' /\ LoopEntered'
    BY <1>10, <2>1, <2>2, PieceFields DEF BrokerRelay, library, AnswersTrue, LoopEntered
  <2>4. up' \in Seq(Requests) /\ peer' \in {"up", "gone"} /\ longest' \in 0..255 /\ unanswered' \in BOOLEAN
    <3>1. longest' \in 0..255 /\ unanswered' \in BOOLEAN
      BY <1>10, RelayFrame
    <3>2. UNCHANGED <<up, peer>> \/ (peer' = "gone" /\ up' = <<>>)
      BY <1>10 DEF BrokerRelay, Hangup
    <3> QED BY <1>b, <3>1, <3>2 DEF QueryTypeOK
  <2>5. QueryTypeOK'
    BY <1>10, <2>2, <2>4 DEF BrokerRelay, library, counted, QueryTypeOK
  <2> QED BY <2>3, <2>5
<1>11. CASE BrokerGone
  <2>1. /\ down' \in Seq(FrameType)
        /\ \A i \in DOMAIN down' : (i \in DOMAIN down /\ down'[i] = down[i]) \/ down'[i] = Piece
    BY <1>11, GrowsElements, PieceFields DEF BrokerGone, Grows, QueryTypeOK
  <2>2. AnswersTrue' /\ LoopEntered'
    BY <1>11, <2>1, PieceFields DEF BrokerGone, library, broker, AnswersTrue, LoopEntered
  <2>3. QueryTypeOK'
    BY <1>11, <1>b, <2>1 DEF BrokerGone, Hangup, library, broker, counted, QueryTypeOK
  <2> QED BY <2>2, <2>3
<1>12. CASE Misread \/ Stall
  <2>1. /\ pc' \in {pc, "lost"} /\ client_connfd' \in {client_connfd, "closed"}
        /\ UNCHANGED <<result, buffer, up, down, peer, broker, unanswered, counted>>
    BY <1>12 DEF Misread, Stall
  <2> QED BY <2>1 DEF broker, counted, QueryTypeOK, AnswersTrue, LoopEntered
<1>13. CASE UNCHANGED vars
  BY <1>13 DEF vars, library, broker, counted, QueryTypeOK, AnswersTrue, LoopEntered
<1> QED BY <1>1, <1>2, <1>3, <1>4, <1>5, <1>6, <1>7, <1>8, <1>9, <1>10, <1>11, <1>12, <1>13
        DEF Next, LibraryStep

(* Type correctness of the query and its environment. *)
THEOREM QueryTypeCorrect == Spec => []QueryTypeOK
<1>1. QueryInv => QueryTypeOK
  BY DEF QueryInv
<1> QED BY <1>1, QueryInit, QueryStep, PTL DEF Spec

-----------------------------------------------------------------------------
(* The result of a call. *)

LEMMA ResultStep == QueryInv /\ ResultKept /\ [Next]_vars => ResultKept'
<1> USE QueryAssumption
<1> SUFFICES ASSUME QueryInv, ResultKept, [Next]_vars PROVE ResultKept'
  OBVIOUS
<1>1. CASE InfoRecv
  <2>0. /\ pc = "info" /\ shm_node_num' = shm_node_num /\ down # <<>>
        /\ buffer' = Written(Head(down))
    BY <1>1 DEF InfoRecv, Ready, broker
  <2>1. Head(down) = down[1] /\ 1 \in DOMAIN down
    BY <2>0, TailElements DEF QueryInv, QueryTypeOK
  <2>2. ih_recvIsShmIDs(Head(down)) =>
          Head(down).body = shm_node_num /\ Extent(Head(down)) = shm_node_num
    BY <2>1 DEF ih_recvIsShmIDs, QueryInv, AnswersTrue, Extent
  <2>3. ih_recvIsShmIDs(Head(down)) =>
          \A i \in 1..shm_node_num : i \in 1..BufNodes => Written(Head(down))[i] = i
    BY <2>2 DEF Written, ih_recvIsShmIDs, QueryInv, QueryTypeOK
  <2>4. shm_node_num <= BufNodes /\ shm_node_num \in Nat
    BY <2>0 DEF QueryInv, LoopEntered, QueryTypeOK
  <2>5. \A i \in 1..shm_node_num : i \in 1..BufNodes
    BY <2>4
  <2>6. CASE ih_recvIsShmIDs(Head(down))
    <3>1. result' = shm_node_num /\ \A i \in 1..shm_node_num : buffer'[i] = i
      BY <1>1, <2>0, <2>2, <2>3, <2>5, <2>6 DEF InfoRecv
    <3> QED BY <2>0, <2>4, <3>1 DEF ResultKept
  <2>7. CASE ~ih_recvIsShmIDs(Head(down))
    BY <1>1, <2>0, <2>7 DEF InfoRecv, ResultKept
  <2> QED BY <2>6, <2>7
<1>2. CASE NumAnswer
  BY <1>2 DEF NumAnswer, ih_send_getShmIDs_cmd, Killed, ResultKept
<1>3. CASE ih_get_shm_infos
  BY <1>3 DEF ih_get_shm_infos, Killed, broker, ResultKept
<1>4. CASE AppAsk
  BY <1>4 DEF AppAsk, ih_send_getShmIDs_cmd, Killed, broker, ResultKept
<1>5. CASE NumSkip \/ NumFail \/ InfoFail \/ AppRecv \/ Misread \/ Stall
  BY <1>5 DEF NumSkip, NumFail, InfoFail, AppRecv, Misread, Stall, broker, ResultKept
<1>6. CASE BrokerAnswer \/ BrokerGone \/ \E len \in BcastLens : BrokerRelay(len)
  BY <1>6 DEF BrokerAnswer, BrokerGone, BrokerRelay, library, broker, ResultKept
<1>7. CASE UNCHANGED vars
  BY <1>7 DEF vars, library, broker, ResultKept
<1> QED BY <1>1, <1>2, <1>3, <1>4, <1>5, <1>6, <1>7 DEF Next, LibraryStep

(* A call of ih_get_shm_infos that succeeds returns the broker's table:    *)
(* answers to earlier calls that came late or not at all, and broadcasts   *)
(* read into the same buffer, do no harm to a client that keeps its place  *)
(* in the stream and its stack.                                            *)
THEOREM ReturnsTheTable == Spec => []TableReturned
<1>1. Init => ResultKept
  BY DEF Init, ResultKept
<1>2. ResultKept => TableReturned
  BY DEF ResultKept, TableReturned
<1> QED BY <1>1, <1>2, ResultStep, QueryInit, QueryStep, PTL DEF Spec

BufferInv == BroadcastsShort /\ BufferClean

LEMMA BufferStep == QueryInv /\ BufferInv /\ [Next]_vars => BufferInv'
<1> USE QueryAssumption
<1> SUFFICES ASSUME QueryInv, BufferInv, [Next]_vars PROVE BufferInv'
  OBVIOUS
<1>a. /\ down \in Seq(FrameType) /\ longest \in 0..255 /\ shm_node_num \in 0..255
      /\ buffer \in [1..BufNodes -> -1..255]
  BY DEF QueryInv, QueryTypeOK
<1>b. /\ down # <<>> =>
           /\ Head(down) = down[1] /\ 1 \in DOMAIN down /\ Head(down) \in FrameType
           /\ \A i \in DOMAIN Tail(down) : i + 1 \in DOMAIN down /\ Tail(down)[i] = down[i + 1]
      /\ DOMAIN <<>> = {}
  BY <1>a, TailElements
<1>1. ASSUME UNCHANGED <<longest, shm_node_num, buffer>>,
             down' = down \/ (down # <<>> /\ down' = Tail(down)) \/ down' = <<>>
      PROVE  BufferInv'
  <2>1. BroadcastsShort'
    BY <1>1, <1>b DEF BufferInv, BroadcastsShort
  <2>2. BufferClean'
    BY <1>1 DEF BufferInv, BufferClean
  <2> QED BY <2>1, <2>2 DEF BufferInv
<1>2. CASE InfoRecv
  <2>1. /\ down # <<>> /\ down' = Tail(down) /\ buffer' = Written(Head(down))
        /\ UNCHANGED <<longest, shm_node_num>>
    BY <1>2 DEF InfoRecv, Ready, broker
  <2>2. BroadcastsShort'
    BY <1>b, <2>1 DEF BufferInv, BroadcastsShort
  <2>3. /\ Extent(Head(down)) \in 0..255
        /\ Extent(Head(down)) <= longest \/ Extent(Head(down)) <= shm_node_num \/ Extent(Head(down)) <= 1
    <3>1. Head(down).id \in CmdId /\ Head(down).body \in 0..255
      BY <1>b, <2>1, FrameTypes
    <3>2. Head(down).id = IH_CMD_ID_DEFAULT => Head(down).body <= longest
      BY <1>b, <2>1 DEF BufferInv, BroadcastsShort
    <3>3. Head(down).id # IH_CMD_ID_DEFAULT => Head(down).body = shm_node_num
      BY <1>b, <2>1 DEF QueryInv, AnswersTrue
    <3> QED BY <1>a, <3>1, <3>2, <3>3 DEF Extent
  <2>4. BufferClean'
    <3> SUFFICES ASSUME NEW i \in 1..BufNodes, i > longest, i > shm_node_num, i > 1
                 PROVE  buffer'[i] = 0
      BY <2>1 DEF BufferClean
    <3>1. PICK n \in 0..255 : /\ n = Extent(Head(down))
                              /\ n <= longest \/ n <= shm_node_num \/ n <= 1
      BY <2>3
    <3>3. i > n
      BY <1>a, <3>1
    <3>2. buffer'[i] = buffer[i]
      BY <2>1, <3>1, <3>3 DEF Written
    <3> QED BY <3>2 DEF BufferInv, BufferClean
  <2> QED BY <2>2, <2>4 DEF BufferInv
<1>3. CASE BrokerAnswer
  <2>1. PICK f \in FrameType : f.id = Head(up) /\ f = Frame(Head(up), shm_node_num) /\ Grows(f)
    BY <1>3, AnswerFrame DEF QueryInv
  <2>2. \A i \in DOMAIN down' : \/ i \in DOMAIN down /\ down'[i] = down[i]
                                \/ down'[i] = f
                                \/ down'[i] = Piece
    BY <1>a, <2>1, GrowsElements
  <2>3. UNCHANGED <<longest, shm_node_num, buffer>>
    BY <1>3 DEF BrokerAnswer, library, broker
  <2>4. BufferClean'
    BY <2>3 DEF BufferInv, BufferClean
  <2>5. f.id # IH_CMD_ID_DEFAULT
    BY <1>3, <2>1, AnswerFrame, Ids DEF QueryInv
  <2>6. BroadcastsShort'
    BY <1>a, <2>2, <2>3, <2>5, PieceFields DEF BufferInv, BroadcastsShort
  <2> QED BY <2>4, <2>6 DEF BufferInv
<1>4. ASSUME NEW len \in BcastLens, BrokerRelay(len) PROVE BufferInv'
  <2>1. PICK f \in FrameType : /\ f = Frame(IH_CMD_ID_DEFAULT, len)
                               /\ f.id = IH_CMD_ID_DEFAULT /\ f.body = len /\ Grows(f)
    BY <1>4, RelayFrame DEF QueryInv
  <2>2. \A i \in DOMAIN down' : \/ i \in DOMAIN down /\ down'[i] = down[i]
                                \/ down'[i] = f
                                \/ down'[i] = Piece
    BY <1>a, <2>1, GrowsElements
  <2>3. longest' \in 0..255 /\ longest <= longest' /\ len <= longest'
    BY <1>4, RelayFrame DEF QueryInv
  <2>4. UNCHANGED <<shm_node_num, buffer>>
    BY <1>4 DEF BrokerRelay, library
  <2>5. BufferClean'
    BY <1>a, <2>3, <2>4 DEF BufferInv, BufferClean
  <2>6. \A i \in DOMAIN down : down[i].body \in 0..255
    BY <1>a, FrameTypes
  <2>7. BroadcastsShort'
    <3> SUFFICES ASSUME NEW i \in DOMAIN down', down'[i].id = IH_CMD_ID_DEFAULT
                 PROVE  down'[i].body <= longest'
      BY DEF BroadcastsShort
    <3>1. CASE i \in DOMAIN down /\ down'[i] = down[i]
      <4>1. PICK b \in 0..255 : b = down[i].body
        BY <2>6, <3>1
      <4>2. down[i].id = IH_CMD_ID_DEFAULT /\ down'[i].body = b
        BY <3>1, <4>1
      <4>3. b <= longest
        BY <3>1, <4>1, <4>2 DEF BufferInv, BroadcastsShort
      <4>4. \A x, y, z \in 0..255 : x <= y /\ y <= z => x <= z
        OBVIOUS
      <4>5. b <= longest'
        BY <1>a, <2>3, <4>3, <4>4, Zenon
      <4> QED BY <4>2, <4>5
    <3>2. CASE down'[i] = f
      BY <2>1, <2>3, <3>2
    <3>3. CASE down'[i] = Piece
      BY <2>3, <3>3, PieceFields
    <3> QED BY <2>2, <3>1, <3>2, <3>3
  <2> QED BY <2>5, <2>7 DEF BufferInv
<1>5. CASE BrokerGone
  <2>1. \A i \in DOMAIN down' : (i \in DOMAIN down /\ down'[i] = down[i]) \/ down'[i] = Piece
    BY <1>5, <1>a, GrowsElements, PieceFields DEF BrokerGone, Grows
  <2>2. UNCHANGED <<longest, shm_node_num, buffer>>
    BY <1>5 DEF BrokerGone, library, broker
  <2>3. BroadcastsShort'
    <3> SUFFICES ASSUME NEW i \in DOMAIN down', down'[i].id = IH_CMD_ID_DEFAULT
                 PROVE  down'[i].body <= longest'
      BY DEF BroadcastsShort
    <3>1. CASE i \in DOMAIN down /\ down'[i] = down[i]
      BY <2>2, <3>1 DEF BufferInv, BroadcastsShort
    <3>2. CASE down'[i] = Piece
      BY <1>a, <2>2, <3>2, PieceFields
    <3> QED BY <2>1, <3>1, <3>2
  <2>4. BufferClean'
    BY <2>2 DEF BufferInv, BufferClean
  <2> QED BY <2>3, <2>4 DEF BufferInv
<1>6. CASE ih_get_shm_infos \/ NumSkip \/ NumAnswer \/ NumFail
  BY <1>1, <1>6 DEF ih_get_shm_infos, NumSkip, NumAnswer, NumFail, Ready, broker
<1>7. CASE InfoFail \/ AppRecv \/ AppAsk \/ Misread \/ Stall
  BY <1>1, <1>7 DEF InfoFail, AppRecv, AppAsk, Misread, Stall, Closes, Ready, broker
<1>8. CASE UNCHANGED vars
  BY <1>1, <1>8 DEF vars, library, broker
<1> QED BY <1>2, <1>3, <1>4, <1>5, <1>6, <1>7, <1>8 DEF Next, LibraryStep

(* After a call that succeeded, ih_get_shm_by_name finds every segment the *)
(* broker has, and stops right behind the table for a name it does not     *)
(* have, if a spare entry is there and no broadcast was longer: nothing    *)
(* else ever writes behind the table.                                      *)
THEOREM FindsByName == Spec => []NamesResolve
<1> USE QueryAssumption
<1>1. QueryTypeOK /\ ResultKept /\ BufferInv => NamesResolve
  <2> SUFFICES ASSUME QueryTypeOK, ResultKept, BufferInv, pc = "idle", result > 0 PROVE NamesResolve
    BY DEF NamesResolve
  <2>1. /\ result = shm_node_num /\ shm_node_num \in 0..255 /\ shm_node_num <= BufNodes
        /\ \A i \in 1..shm_node_num : buffer[i] = i
    BY DEF ResultKept, QueryTypeOK
  <2>2. \A name \in 1..shm_node_num : ih_get_shm_by_name(name) = {name}
    BY <2>1 DEF ih_get_shm_by_name
  <2>3. ASSUME result < BufNodes, longest <= result PROVE buffer[result + 1] = 0
    <3>1. result + 1 \in 1..BufNodes
      BY <2>1, <2>3
    <3>2. result + 1 > longest /\ result + 1 > shm_node_num /\ result + 1 > 1
      BY <2>1, <2>3 DEF QueryTypeOK
    <3> QED BY <3>1, <3>2 DEF BufferInv, BufferClean
  <2>4. ASSUME NEW name \in (shm_node_num + 1)..255, result < BufNodes, longest <= result
        PROVE  ih_get_shm_by_name(name) = {result + 1}
    BY <2>1, <2>3, <2>4 DEF ih_get_shm_by_name
  <2>5. QED
    BY <2>2, <2>4 DEF NamesResolve
<1>2. Init => ResultKept /\ BufferInv
  BY DEF Init, ResultKept, BufferInv, BroadcastsShort, BufferClean
<1>3. QED
  BY <1>1, <1>2, ResultStep, BufferStep, QueryInit, QueryStep, PTL DEF Spec, QueryInv

(* The second loop of ih_get_shm_infos waits in vain only for an answer    *)
(* the broker gave up: while it is up and the connection open, a request   *)
(* or an answer is in a stream.  A request is not swallowed, because the   *)
(* loop is only entered when the broker has a table; one that could not be *)
(* sent ends the call; and an answer given up is not the last one, or is   *)
(* the one that is missing.                                                *)
THEOREM NeverWaitsInVain == Spec => []TableComing
<1> USE QueryAssumption
<1>1. Init => TableComing
  BY DEF Init, TableComing
<1>2. QueryInv /\ TableComing /\ [Next]_vars => TableComing'
  <2> SUFFICES ASSUME QueryInv, TableComing, [Next]_vars,
                      pc' = "info", client_connfd' = "open", peer' = "up", ~unanswered'
               PROVE  (Asked \/ Sent)'
    BY DEF TableComing
  <2> DEFINE INFO == IH_RESERVE_CMD_ID_GET_SHM_INFO
             OnItsWay == (Asked \/ Sent)'
  <2>a. up \in Seq(Requests) /\ down \in Seq(FrameType)
    BY DEF QueryInv, QueryTypeOK
  <2>1. CASE NumAnswer
    <3>1. up' = Append(up, INFO)
      BY <2>1 DEF NumAnswer, ih_send_getShmIDs_cmd, Sends, Killed
    <3>2. Len(up) + 1 \in DOMAIN up' /\ up'[Len(up) + 1] = INFO
      BY <3>1, <2>a, AppendElements, Ids
    <3> QED BY <3>2 DEF Asked
  <2>2. CASE InfoRecv
    <3>1. Asked \/ Sent
      BY <2>2 DEF InfoRecv, TableComing
    <3>2. Head(down).id # INFO /\ down # <<>> /\ down' = Tail(down) /\ up' = up
      BY <2>2 DEF InfoRecv, Ready, ih_recvIsShmIDs
    <3>3. ASSUME NEW i \in DOMAIN down, down[i].whole, down[i].id = INFO
          PROVE  i - 1 \in DOMAIN down' /\ down'[i - 1].whole /\ down'[i - 1].id = INFO
      BY <3>2, <3>3, <2>a, TailElements
    <3> QED BY <3>1, <3>2, <3>3 DEF Asked, Sent
  <2>3. CASE BrokerAnswer
    <3>1. pc = "info" /\ client_connfd = "open" /\ peer = "up" /\ ~unanswered /\ shm_node_num # 0
      BY <2>3 DEF BrokerAnswer, library, parser_reserve_cmd, tcp_send_protocol_cmd, QueryInv, LoopEntered
    <3>2. Asked \/ Sent
      BY <3>1 DEF TableComing
    <3>3. PICK f \in FrameType : /\ f = Frame(Head(up), shm_node_num) /\ f.id = Head(up)
                                 /\ f.whole /\ Grows(f)
      BY <2>3, AnswerFrame DEF QueryInv
    <3>4. up # <<>> /\ up' = Tail(up)
      BY <2>3, AnswerFrame DEF QueryInv
    <3>5. CASE Sent
      BY <2>a, <3>3, <3>5, GrowsElements DEF Sent
    <3>6. ASSUME NEW i \in DOMAIN up, up[i] = INFO, i # 1
          PROVE  OnItsWay
      <4>1. i - 1 \in DOMAIN Tail(up) /\ up[i] = Tail(up)[i - 1]
        BY <3>4, <3>6, <2>a, TailElements
      <4> QED BY <4>1, <3>4, <3>6 DEF Asked
    <3>7. ASSUME up[1] = INFO
          PROVE  OnItsWay
      <4>1. Head(up) = INFO /\ tcp_send_protocol_cmd(f)
        BY <2>3, <2>a, <3>1, <3>3, <3>4, <3>7, TailElements DEF BrokerAnswer, parser_reserve_cmd
      <4>2. CASE down' = Append(down, f)
        <5>1. Len(down) + 1 \in DOMAIN down' /\ down'[Len(down) + 1] = f
          BY <2>a, <4>2, AppendElements
        <5> QED BY <3>3, <4>1, <5>1 DEF Sent
      <4>3. CASE down' # Append(down, f)
        <5>1. ~(\A i \in 2..Len(up) : up[i] # INFO)
          BY <3>3, <4>1, <4>3 DEF tcp_send_protocol_cmd
        <5>2. PICK i \in 2..Len(up) : up[i] = INFO
          BY <5>1
        <5>3. i \in DOMAIN up /\ i # 1
          BY <2>a, <5>2
        <5> QED BY <3>6, <5>2, <5>3
      <4> QED BY <4>2, <4>3
    <3>8. CASE Asked
      BY <3>6, <3>7, <3>8 DEF Asked
    <3> QED BY <3>2, <3>5, <3>8
  <2>4. ASSUME NEW len \in BcastLens, BrokerRelay(len) PROVE OnItsWay
    <3>1. PICK f \in FrameType : f = Frame(IH_CMD_ID_DEFAULT, len) /\ Grows(f)
      BY <2>4, RelayFrame DEF QueryInv
    <3>2. \A i \in DOMAIN down : i \in DOMAIN down' /\ down'[i] = down[i]
      BY <2>a, <3>1, GrowsElements
    <3>3. up' = up
      BY <2>4, RelayFrame DEF QueryInv
    <3>4. pc = "info" /\ client_connfd = "open" /\ peer = "up" /\ ~unanswered
      <4>1. ~unanswered
        BY <2>4 DEF BrokerRelay, tcp_send_protocol_cmd
      <4> QED BY <2>4, <4>1 DEF BrokerRelay, library
    <3> QED BY <3>2, <3>3, <3>4 DEF TableComing, Asked, Sent
  <2>5. CASE ih_get_shm_infos \/ AppAsk \/ NumSkip \/ NumFail
    BY <2>5 DEF ih_get_shm_infos, AppAsk, ih_send_getShmIDs_cmd, Killed, NumSkip, NumFail
  <2>6. CASE AppRecv \/ BrokerGone \/ Misread \/ Stall \/ InfoFail
    BY <2>6 DEF AppRecv, BrokerGone, Hangup, Misread, Stall, InfoFail, Closes
  <2>7. CASE UNCHANGED vars
    BY <2>7 DEF vars, library, TableComing, Asked, Sent
  <2> QED BY <2>1, <2>2, <2>3, <2>4, <2>5, <2>6, <2>7 DEF Next, LibraryStep
<1> QED BY <1>1, <1>2, QueryInit, QueryStep, PTL DEF Spec

-----------------------------------------------------------------------------
(* Answers on their way. *)

Places(s, T) == {i \in DOMAIN s : s[i] \in T}

LEMMA PlacesFinite ==
  ASSUME NEW S, NEW s \in Seq(S), NEW T
  PROVE  IsFiniteSet(Places(s, T)) /\ Cardinality(Places(s, T)) \in Nat
<1>1. Len(s) \in Nat /\ DOMAIN s = 1..Len(s)
  OBVIOUS
<1>2. IsFiniteSet(1..Len(s))
  BY <1>1, FS_Interval
<1>3. Places(s, T) \in SUBSET (1..Len(s))
  BY <1>1 DEF Places
<1>4. IsFiniteSet(Places(s, T))
  BY <1>2, <1>3, FS_Subset
<1>5. QED
  BY <1>4, FS_CardinalityType

LEMMA PlacesAppend ==
  ASSUME NEW S, NEW s \in Seq(S), NEW e \in S, NEW T
  PROVE  /\ e \in T => Cardinality(Places(Append(s, e), T)) = Cardinality(Places(s, T)) + 1
         /\ e \notin T => Cardinality(Places(Append(s, e), T)) = Cardinality(Places(s, T))
<1>1. /\ DOMAIN Append(s, e) = DOMAIN s \cup {Len(s) + 1} /\ Len(s) + 1 \notin DOMAIN s
      /\ Append(s, e)[Len(s) + 1] = e
      /\ \A i \in DOMAIN s : Append(s, e)[i] = s[i]
  BY AppendElements
<1>2. CASE e \in T
  <2>1. Places(Append(s, e), T) = Places(s, T) \cup {Len(s) + 1}
    BY <1>1, <1>2, Zenon DEF Places
  <2>2. Len(s) + 1 \notin Places(s, T)
    BY <1>1, Zenon DEF Places
  <2>3. QED
    BY <1>2, <2>1, <2>2, PlacesFinite, FS_AddElement
<1>3. CASE e \notin T
  <2>1. Places(Append(s, e), T) = Places(s, T)
    BY <1>1, <1>3, Zenon DEF Places
  <2>2. QED
    BY <1>3, <2>1
<1>4. QED
  BY <1>2, <1>3

LEMMA PlacesTail ==
  ASSUME NEW S, NEW s \in Seq(S), s # <<>>, NEW T
  PROVE  /\ Cardinality(Places(Tail(s), T)) <= Cardinality(Places(s, T))
         /\ Head(s) \in T => Cardinality(Places(Tail(s), T)) + 1 <= Cardinality(Places(s, T))
<1>1. /\ Head(s) = s[1] /\ 1 \in DOMAIN s /\ Tail(s) \in Seq(S)
      /\ \A i \in DOMAIN Tail(s) : i \in Nat \ {0} /\ i + 1 \in DOMAIN s /\ Tail(s)[i] = s[i + 1]
  BY TailElements
<1>2. /\ IsFiniteSet(Places(s, T)) /\ Cardinality(Places(s, T)) \in Nat
      /\ IsFiniteSet(Places(Tail(s), T)) /\ Cardinality(Places(Tail(s), T)) \in Nat
  BY <1>1, PlacesFinite
<1> DEFINE A == Places(Tail(s), T)
           B == Places(s, T) \ {1}
           f == [i \in A |-> i + 1]
<1>3. \A i \in A : i \in Nat \ {0} /\ i + 1 \in B
  BY <1>1 DEF Places
<1>4. IsFiniteSet(B) /\ Cardinality(B) = IF 1 \in Places(s, T) THEN Cardinality(Places(s, T)) - 1
                                                               ELSE Cardinality(Places(s, T))
  BY <1>2, FS_RemoveElement
<1>5. 1 \in Places(s, T) <=> Head(s) \in T
  BY <1>1, Zenon DEF Places
<1> HIDE DEF A, B
<1>6. f \in Injection(A, B)
  <2>1. f \in [A -> B]
    BY <1>3
  <2>2. \A i, j \in A : f[i] = f[j] => i = j
    BY <1>3
  <2> HIDE DEF f
  <2>3. QED
    BY <2>1, <2>2 DEF Injection, IsInjective
<1>7. Cardinality(A) <= Cardinality(B)
  BY <1>4, <1>6, FS_Injection, Zenon
<1>8. QED
  BY <1>2, <1>4, <1>5, <1>7 DEF A

(* Requests in s, and whole answers in t, with a cmdid. *)
Ordered(s, id)  == Cardinality(Places(s, {id}))
Arriving(t, id) == Cardinality(Places(t, {f \in FrameType : f.id = id}))

LEMMA OrderedMoves ==
  ASSUME NEW s \in Seq(Requests), NEW id \in Requests
  PROVE  /\ Ordered(s, id) \in Nat
         /\ Ordered(<<>>, id) = 0
         /\ \A x \in Requests :
              Ordered(Append(s, x), id) = Ordered(s, id) + (IF x = id THEN 1 ELSE 0)
         /\ s # <<>> =>
              /\ Ordered(Tail(s), id) \in Nat
              /\ Ordered(Tail(s), id) + (IF Head(s) = id THEN 1 ELSE 0) <= Ordered(s, id)
<1>1. Ordered(s, id) \in Nat
  BY PlacesFinite DEF Ordered
<1>2. Ordered(<<>>, id) = 0
  <2>1. Places(<<>>, {id}) = {}
    BY DEF Places
  <2> QED BY <2>1, FS_EmptySet DEF Ordered
<1>3. ASSUME NEW x \in Requests
      PROVE  Ordered(Append(s, x), id) = Ordered(s, id) + (IF x = id THEN 1 ELSE 0)
  <2>1. /\ x \in {id} => Ordered(Append(s, x), id) = Ordered(s, id) + 1
        /\ x \notin {id} => Ordered(Append(s, x), id) = Ordered(s, id)
    BY PlacesAppend DEF Ordered
  <2> QED BY <1>1, <2>1
<1>4. ASSUME s # <<>>
      PROVE  /\ Ordered(Tail(s), id) \in Nat
             /\ Ordered(Tail(s), id) + (IF Head(s) = id THEN 1 ELSE 0) <= Ordered(s, id)
  <2>1. Tail(s) \in Seq(Requests)
    BY <1>4, TailElements
  <2>2. Ordered(Tail(s), id) \in Nat
    BY <2>1, PlacesFinite DEF Ordered
  <2>3. /\ Ordered(Tail(s), id) <= Ordered(s, id)
        /\ Head(s) \in {id} => Ordered(Tail(s), id) + 1 <= Ordered(s, id)
    BY <1>4, PlacesTail DEF Ordered
  <2> QED BY <1>1, <2>2, <2>3
<1> QED BY <1>1, <1>2, <1>3, <1>4

LEMMA ArrivingMoves ==
  ASSUME NEW t \in Seq(FrameType), NEW id \in Requests
  PROVE  /\ Arriving(t, id) \in Nat
         /\ Arriving(<<>>, id) = 0
         /\ \A f \in FrameType :
              Arriving(Append(t, f), id) = Arriving(t, id) + (IF f.id = id THEN 1 ELSE 0)
         /\ t # <<>> =>
              /\ Arriving(Tail(t), id) \in Nat
              /\ Arriving(Tail(t), id) + (IF Head(t).id = id THEN 1 ELSE 0) <= Arriving(t, id)
<1> DEFINE T == {f \in FrameType : f.id = id}
<1>1. Arriving(t, id) \in Nat
  BY PlacesFinite DEF Arriving
<1>2. Arriving(<<>>, id) = 0
  <2>1. Places(<<>>, T) = {}
    BY DEF Places
  <2> QED BY <2>1, FS_EmptySet DEF Arriving
<1>3. ASSUME NEW f \in FrameType
      PROVE  Arriving(Append(t, f), id) = Arriving(t, id) + (IF f.id = id THEN 1 ELSE 0)
  <2>1. /\ f \in T => Arriving(Append(t, f), id) = Arriving(t, id) + 1
        /\ f \notin T => Arriving(Append(t, f), id) = Arriving(t, id)
    BY PlacesAppend DEF Arriving
  <2>2. f \in T <=> f.id = id
    OBVIOUS
  <2> QED BY <1>1, <2>1, <2>2
<1>4. ASSUME t # <<>>
      PROVE  /\ Arriving(Tail(t), id) \in Nat
             /\ Arriving(Tail(t), id) + (IF Head(t).id = id THEN 1 ELSE 0) <= Arriving(t, id)
  <2>1. Tail(t) \in Seq(FrameType) /\ Head(t) \in FrameType
    BY <1>4, TailElements
  <2>2. Arriving(Tail(t), id) \in Nat
    BY <2>1, PlacesFinite DEF Arriving
  <2>3. /\ Arriving(Tail(t), id) <= Arriving(t, id)
        /\ Head(t) \in T => Arriving(Tail(t), id) + 1 <= Arriving(t, id)
    BY <1>4, PlacesTail DEF Arriving
  <2>4. Head(t) \in T <=> Head(t).id = id
    BY <2>1
  <2> QED BY <1>1, <2>2, <2>3, <2>4
<1> QED BY <1>1, <1>2, <1>3, <1>4

(* Requests and answers on their way. *)
OnWay(id) == Ordered(up, id) + Arriving(down, id)

(* A count on its way is waited for, or its call gave up; a table on its   *)
(* way is waited for, or the application asked for it.  A call that has    *)
(* died of a body too long, or lost its place, leaves its answer behind.   *)
Waits(at) == IF pc \in {at, "dead", "lost"} THEN 1 ELSE 0

CountsOwed == OnWay(IH_RESERVE_CMD_ID_GET_SHM_NUM) + strays <= timeouts + Waits("num")
TablesOwed == OnWay(IH_RESERVE_CMD_ID_GET_SHM_INFO) + tables <= asks + Waits("info")

(* What the steps do to the answers on their way. *)
LEMMA OnWayMoves ==
  ASSUME QueryInv, QueryInv', NEW id \in Requests
  PROVE  /\ OnWay(id) \in Nat /\ OnWay(id)' \in Nat
         /\ UNCHANGED <<up, down>> => OnWay(id)' = OnWay(id)
         /\ \A x \in Requests : up' = Append(up, x) /\ down' = down =>
              OnWay(id)' = OnWay(id) + (IF x = id THEN 1 ELSE 0)
         /\ down # <<>> /\ down' = Tail(down) /\ up' = up =>
              OnWay(id)' + (IF Head(down).id = id THEN 1 ELSE 0) <= OnWay(id)
         /\ \A x \in Requests : down # <<>> /\ down' = Tail(down) /\ up' = Append(up, x) =>
              OnWay(id)' + (IF Head(down).id = id THEN 1 ELSE 0) <= OnWay(id) + (IF x = id THEN 1 ELSE 0)
         /\ down' = <<>> /\ up' = up => OnWay(id)' <= OnWay(id)
         /\ \A f \in FrameType : up # <<>> /\ up' = Tail(up) /\ f.id = Head(up) /\ Grows(f) =>
              OnWay(id)' <= OnWay(id)
         /\ \A f \in FrameType : (up' = up \/ up' = <<>>) /\ f.id = IH_CMD_ID_DEFAULT /\ Grows(f) =>
              OnWay(id)' <= OnWay(id)
<1>1. up \in Seq(Requests) /\ up' \in Seq(Requests) /\ down \in Seq(FrameType) /\ down' \in Seq(FrameType)
  BY DEF QueryInv, QueryTypeOK
<1>2. /\ Ordered(up, id) \in Nat /\ Ordered(up', id) \in Nat
      /\ Arriving(down, id) \in Nat /\ Arriving(down', id) \in Nat
  BY <1>1, OrderedMoves, ArrivingMoves
<1>3. OnWay(id) = Ordered(up, id) + Arriving(down, id) /\ OnWay(id)' = Ordered(up', id) + Arriving(down', id)
  BY DEF OnWay
<1>4. ASSUME NEW x \in Requests, up' = Append(up, x)
      PROVE  Ordered(up', id) = Ordered(up, id) + (IF x = id THEN 1 ELSE 0)
  BY <1>1, <1>4, OrderedMoves
<1>5. ASSUME down # <<>>, down' = Tail(down)
      PROVE  Arriving(down', id) + (IF Head(down).id = id THEN 1 ELSE 0) <= Arriving(down, id)
  BY <1>1, <1>5, ArrivingMoves
<1>6. down' = <<>> => Arriving(down', id) = 0
  BY <1>1, ArrivingMoves
<1>7. up' = <<>> => Ordered(up', id) = 0
  BY <1>1, OrderedMoves
<1>8. ASSUME NEW f \in FrameType, Grows(f)
      PROVE  Arriving(down', id) <= Arriving(down, id) + (IF f.id = id THEN 1 ELSE 0)
  <2>1. CASE down' = down
    BY <1>2, <2>1
  <2>2. CASE down' = Append(down, f)
    BY <1>1, <1>2, <2>2, ArrivingMoves
  <2>3. CASE down' = Append(down, Piece)
    <3>1. Piece \in FrameType /\ Piece.id # id
      BY PieceFields, Ids
    <3>2. Arriving(down', id) = Arriving(down, id) + (IF Piece.id = id THEN 1 ELSE 0)
      BY <1>1, <2>3, <3>1, ArrivingMoves
    <3> QED BY <1>2, <3>1, <3>2
  <2> QED BY <1>8, <2>1, <2>2, <2>3 DEF Grows
<1>9. ASSUME up # <<>>, up' = Tail(up)
      PROVE  Ordered(up', id) + (IF Head(up) = id THEN 1 ELSE 0) <= Ordered(up, id)
  BY <1>1, <1>9, OrderedMoves
<1>10. PICK o \in Nat, o1 \in Nat, r \in Nat, r1 \in Nat :
         o = Ordered(up, id) /\ o1 = Ordered(up', id) /\ r = Arriving(down, id) /\ r1 = Arriving(down', id)
  BY <1>2
<1>11. OnWay(id) = o + r /\ OnWay(id)' = o1 + r1
  BY <1>3, <1>10
<1>12. UNCHANGED <<up, down>> => OnWay(id)' = OnWay(id)
  BY <1>3
<1>13. ASSUME NEW x \in Requests, up' = Append(up, x), down' = down
       PROVE  OnWay(id)' = OnWay(id) + (IF x = id THEN 1 ELSE 0)
  BY <1>4, <1>10, <1>11, <1>13
<1>14. ASSUME down # <<>>, down' = Tail(down), up' = up
       PROVE  OnWay(id)' + (IF Head(down).id = id THEN 1 ELSE 0) <= OnWay(id)
  BY <1>5, <1>10, <1>11, <1>14
<1>15. ASSUME NEW x \in Requests, down # <<>>, down' = Tail(down), up' = Append(up, x)
       PROVE  OnWay(id)' + (IF Head(down).id = id THEN 1 ELSE 0) <= OnWay(id) + (IF x = id THEN 1 ELSE 0)
  <2>1. r1 + (IF Head(down).id = id THEN 1 ELSE 0) <= r
    BY <1>5, <1>10, <1>15
  <2>2. o1 = o + (IF x = id THEN 1 ELSE 0)
    BY <1>4, <1>10, <1>15
  <2> QED BY <1>11, <2>1, <2>2
<1>16. ASSUME down' = <<>>, up' = up PROVE OnWay(id)' <= OnWay(id)
  BY <1>6, <1>10, <1>11, <1>16
<1>17. ASSUME NEW f \in FrameType, up # <<>>, up' = Tail(up), f.id = Head(up), Grows(f)
       PROVE  OnWay(id)' <= OnWay(id)
  BY <1>8, <1>9, <1>10, <1>11, <1>17
<1>18. ASSUME NEW f \in FrameType, up' = up \/ up' = <<>>, f.id = IH_CMD_ID_DEFAULT, Grows(f)
       PROVE  OnWay(id)' <= OnWay(id)
  <2>1. r1 <= r
    BY <1>8, <1>10, <1>18, Ids
  <2>2. o1 <= o
    BY <1>7, <1>10, <1>18
  <2> QED BY <1>11, <2>1, <2>2
<1>19. OnWay(id) \in Nat /\ OnWay(id)' \in Nat
  BY <1>10, <1>11
<1> QED BY <1>12, <1>13, <1>14, <1>15, <1>16, <1>17, <1>18, <1>19, Zenon

LEMMA OwedStep == QueryInv /\ CountsOwed /\ TablesOwed /\ [Next]_vars => CountsOwed' /\ TablesOwed'
<1> SUFFICES ASSUME QueryInv, CountsOwed, TablesOwed, [Next]_vars PROVE CountsOwed' /\ TablesOwed'
  OBVIOUS
<1> DEFINE NUM == IH_RESERVE_CMD_ID_GET_SHM_NUM
           INFO == IH_RESERVE_CMD_ID_GET_SHM_INFO
           Counted == <<timeouts, strays, tables, asks>>
<1>1. QueryInv'
  BY QueryStep
<1>2. NUM \in Requests /\ INFO \in Requests /\ NUM # INFO
  BY Ids
<1>3. /\ strays \in Nat /\ timeouts \in Nat /\ tables \in Nat /\ asks \in Nat
  BY DEF QueryInv, QueryTypeOK
<1>4. PICK n \in Nat, n1 \in Nat, t \in Nat, t1 \in Nat :
        n = OnWay(NUM) /\ n1 = OnWay(NUM)' /\ t = OnWay(INFO) /\ t1 = OnWay(INFO)'
  BY <1>1, <1>2, OnWayMoves
<1>5. n + strays <= timeouts + Waits("num") /\ t + tables <= asks + Waits("info")
  BY <1>4 DEF CountsOwed, TablesOwed
<1> SUFFICES n1 + strays' <= timeouts' + Waits("num")' /\ t1 + tables' <= asks' + Waits("info")'
  BY <1>4 DEF CountsOwed, TablesOwed
<1>6. ASSUME UNCHANGED Counted, n1 <= n, t1 <= t, pc' = pc \/ pc' \in {"dead", "lost"}
      PROVE  n1 + strays' <= timeouts' + Waits("num")' /\ t1 + tables' <= asks' + Waits("info")'
  BY <1>3, <1>5, <1>6 DEF Waits
<1>7. UNCHANGED <<up, down>> => n1 = n /\ t1 = t
  BY <1>1, <1>2, <1>4, OnWayMoves
<1>8. ASSUME NEW x \in Requests, up' = Append(up, x), down' = down
      PROVE  n1 = n + (IF x = NUM THEN 1 ELSE 0) /\ t1 = t + (IF x = INFO THEN 1 ELSE 0)
  BY <1>1, <1>2, <1>4, <1>8, OnWayMoves
<1>9. ASSUME down # <<>>, down' = Tail(down), up' = up
      PROVE  /\ n1 + (IF Head(down).id = NUM THEN 1 ELSE 0) <= n
             /\ t1 + (IF Head(down).id = INFO THEN 1 ELSE 0) <= t
  BY <1>1, <1>2, <1>4, <1>9, OnWayMoves
<1>10. ASSUME down # <<>>, down' = Tail(down), up' = Append(up, INFO), Head(down).id = NUM
       PROVE  n1 + 1 <= n /\ t1 <= t + 1
  <2>1. n1 + (IF Head(down).id = NUM THEN 1 ELSE 0) <= n + (IF INFO = NUM THEN 1 ELSE 0)
    BY <1>1, <1>2, <1>4, <1>10, OnWayMoves
  <2>2. t1 + (IF Head(down).id = INFO THEN 1 ELSE 0) <= t + (IF INFO = INFO THEN 1 ELSE 0)
    BY <1>1, <1>2, <1>4, <1>10, OnWayMoves
  <2> QED BY <1>2, <1>10, <2>1, <2>2
<1>11. ASSUME down' = <<>>, up' = up PROVE n1 <= n /\ t1 <= t
  BY <1>1, <1>2, <1>4, <1>11, OnWayMoves
<1> HIDE DEF NUM, INFO
<1>12. CASE ih_get_shm_infos
  <2>1. pc = "idle" /\ down' = down /\ UNCHANGED Counted
    BY <1>12 DEF ih_get_shm_infos
  <2>2. \/ up' = up /\ pc' \in {"idle", "num", "dead"}
        \/ up' = Append(up, NUM) /\ pc' = "num"
    BY <1>12, <2>1 DEF ih_get_shm_infos, Sends, GivesUp, Killed, NUM
  <2>3. CASE up' = up
    BY <1>3, <1>5, <1>7, <2>1, <2>2, <2>3 DEF Waits
  <2>4. CASE up' = Append(up, NUM) /\ pc' = "num"
    <3>1. n1 = n + 1 /\ t1 = t
      BY <1>2, <1>8, <2>1, <2>4
    <3> QED BY <1>3, <1>5, <2>1, <2>4, <3>1 DEF Waits
  <2> QED BY <2>2, <2>3, <2>4
<1>13. CASE NumSkip
  <2>1. /\ pc = "num" /\ pc' \in {"num", "dead", "lost"} /\ down # <<>> /\ down' = Tail(down) /\ up' = up
        /\ UNCHANGED <<timeouts, strays, asks>>
        /\ tables' = tables + (IF Head(down).id = INFO THEN 1 ELSE 0)
    BY <1>13 DEF NumSkip, Ready, INFO
  <2>2. n1 <= n /\ t1 + (IF Head(down).id = INFO THEN 1 ELSE 0) <= t
    BY <1>4, <1>9, <2>1
  <2> QED BY <1>3, <1>5, <2>1, <2>2 DEF Waits
<1>14. CASE NumAnswer
  <2>1. /\ pc = "num" /\ down # <<>> /\ Head(down).id = NUM /\ down' = Tail(down)
        /\ UNCHANGED Counted
    BY <1>14 DEF NumAnswer, Ready, NUM, counted
  <2>2. \/ up' = up /\ pc' \in {"idle", "dead"}
        \/ up' = Append(up, INFO) /\ pc' = "info"
    BY <1>14 DEF NumAnswer, ih_send_getShmIDs_cmd, Sends, GivesUp, Killed, INFO
  <2>3. CASE up' = up /\ pc' \in {"idle", "dead"}
    <3>1. n1 + 1 <= n /\ t1 <= t
      BY <1>2, <1>9, <2>1, <2>3
    <3> QED BY <1>3, <1>5, <2>1, <2>3, <3>1 DEF Waits
  <2>4. CASE up' = Append(up, INFO) /\ pc' = "info"
    <3>1. n1 + 1 <= n /\ t1 <= t + 1
      BY <1>10, <2>1, <2>4
    <3> QED BY <1>3, <1>5, <2>1, <2>4, <3>1 DEF Waits
  <2> QED BY <2>2, <2>3, <2>4
<1>15. CASE NumFail
  <2>1. /\ pc = "num" /\ pc' = "idle" /\ up' = up /\ down' = <<>> /\ timeouts' = timeouts + 1
        /\ UNCHANGED <<strays, tables, asks>>
    BY <1>15 DEF NumFail
  <2>2. n1 <= n /\ t1 <= t
    BY <1>11, <2>1
  <2> QED BY <1>3, <1>5, <2>1, <2>2 DEF Waits
<1>16. CASE InfoRecv
  <2>1. /\ pc = "info" /\ down # <<>> /\ down' = Tail(down) /\ up' = up
        /\ UNCHANGED Counted
        /\ pc' = "info" \/ (pc' = "idle" /\ Head(down).id = INFO)
    BY <1>16 DEF InfoRecv, Ready, ih_recvIsShmIDs, counted, INFO
  <2>2. n1 <= n /\ t1 + (IF Head(down).id = INFO THEN 1 ELSE 0) <= t
    BY <1>4, <1>9, <2>1
  <2> QED BY <1>3, <1>5, <2>1, <2>2 DEF Waits
<1>17. CASE InfoFail
  <2>1. pc' = pc /\ up' = up /\ down' = <<>> /\ UNCHANGED Counted
    BY <1>17 DEF InfoFail, Closes, counted
  <2> QED BY <1>6, <1>11, <2>1
<1>18. CASE AppRecv
  <2>1. pc = "idle" /\ pc' = pc /\ up' = up /\ UNCHANGED <<timeouts, tables, asks>>
    BY <1>18 DEF AppRecv
  <2>2. CASE /\ down # <<>> /\ down' = Tail(down)
             /\ strays' = strays + (IF Head(down).id = NUM THEN 1 ELSE 0)
    <3>1. n1 + (IF Head(down).id = NUM THEN 1 ELSE 0) <= n /\ t1 <= t
      BY <1>4, <1>9, <2>1, <2>2
    <3> QED BY <1>3, <1>5, <2>1, <2>2, <3>1 DEF Waits
  <2>3. CASE down' = <<>> /\ strays' = strays
    BY <1>6, <1>11, <2>1, <2>3
  <2> QED BY <1>18, <2>2, <2>3 DEF AppRecv, Ready, Closes, NUM
<1>19. CASE AppAsk
  <2>1. /\ pc = "idle" /\ pc' \in {"idle", "dead"} /\ down' = down /\ asks' = asks + 1
        /\ UNCHANGED <<timeouts, strays, tables>>
    BY <1>19 DEF AppAsk, ih_send_getShmIDs_cmd, Killed
  <2>2. up' = up \/ up' = Append(up, INFO)
    BY <1>19 DEF AppAsk, ih_send_getShmIDs_cmd, Sends, GivesUp, Killed, INFO
  <2>3. n1 <= n /\ t1 <= t + 1
    BY <1>2, <1>4, <1>7, <1>8, <2>1, <2>2
  <2> QED BY <1>3, <1>5, <2>1, <2>3 DEF Waits
<1>20. CASE BrokerAnswer
  <2>1. PICK f \in FrameType : f.id = Head(up) /\ Grows(f)
    BY <1>20, AnswerFrame DEF QueryInv
  <2>2. up # <<>> /\ up' = Tail(up) /\ pc' = pc /\ UNCHANGED Counted
    BY <1>20, AnswerFrame DEF QueryInv, BrokerAnswer, library, counted
  <2>3. n1 <= n /\ t1 <= t
    BY <1>1, <1>2, <1>4, <2>1, <2>2, OnWayMoves
  <2> QED BY <1>6, <2>2, <2>3
<1>21. ASSUME NEW len \in BcastLens, BrokerRelay(len)
       PROVE  n1 + strays' <= timeouts' + Waits("num")' /\ t1 + tables' <= asks' + Waits("info")'
  <2>1. PICK f \in FrameType : f.id = IH_CMD_ID_DEFAULT /\ Grows(f)
    BY <1>21, RelayFrame DEF QueryInv
  <2>2. (up' = up \/ up' = <<>>) /\ pc' = pc /\ UNCHANGED Counted
    BY <1>21, RelayFrame DEF QueryInv, BrokerRelay, library, counted
  <2>3. n1 <= n /\ t1 <= t
    BY <1>1, <1>2, <1>4, <2>1, <2>2, OnWayMoves
  <2> QED BY <1>6, <2>2, <2>3
<1>22. CASE BrokerGone
  <2>1. Piece \in FrameType /\ Piece.id = IH_CMD_ID_DEFAULT /\ Grows(Piece)
    BY <1>22, PieceFields DEF BrokerGone, Grows
  <2>2. up' = <<>> /\ pc' = pc /\ UNCHANGED Counted
    BY <1>22 DEF BrokerGone, Hangup, library, counted
  <2>3. n1 <= n /\ t1 <= t
    BY <1>1, <1>2, <1>4, <2>1, <2>2, OnWayMoves
  <2> QED BY <1>6, <2>2, <2>3
<1>23. CASE Misread \/ Stall \/ UNCHANGED vars
  <2>1. (pc' = pc \/ pc' \in {"dead", "lost"}) /\ UNCHANGED <<up, down>> /\ UNCHANGED Counted
    BY <1>23 DEF Misread, Stall, vars, library, counted
  <2> QED BY <1>4, <1>6, <1>7, <2>1
<1> QED BY <1>12, <1>13, <1>14, <1>15, <1>16, <1>17, <1>18, <1>19, <1>20, <1>21, <1>22, <1>23
        DEF Next, LibraryStep

(* ih_recv_data hands the application a count in place of a broadcast no   *)
(* oftener than ih_get_shm_infos gave up waiting for one, and the first    *)
(* loop of ih_get_shm_infos meets a table, which may be longer than wbuf,  *)
(* no oftener than the application asked for one itself: the broker        *)
(* answers a request at most once, and a call that ends takes its own      *)
(* answer with it.                                                         *)
THEOREM StraysAreLate == Spec => []StraysBounded
<1>1. Init => CountsOwed /\ TablesOwed
  <2> SUFFICES ASSUME Init PROVE CountsOwed /\ TablesOwed
    OBVIOUS
  <2>1. up = <<>> /\ down = <<>> /\ strays = 0 /\ timeouts = 0 /\ tables = 0 /\ asks = 0
    BY DEF Init
  <2>2. \A id \in Requests : OnWay(id) = 0
    <3>1. up \in Seq(Requests) /\ down \in Seq(FrameType)
      BY QueryInit DEF QueryInv, QueryTypeOK
    <3>2. \A id \in Requests : Ordered(<<>>, id) = 0 /\ Arriving(<<>>, id) = 0
      BY <3>1, OrderedMoves, ArrivingMoves
    <3> QED BY <2>1, <3>2 DEF OnWay
  <2>3. Waits("num") = 0 /\ Waits("info") = 0
    BY DEF Init, Waits
  <2> QED BY <2>1, <2>2, <2>3, Ids DEF CountsOwed, TablesOwed
<1>2. Init => StraysBounded
  BY DEF Init, StraysBounded
<1>3. QueryInv /\ CountsOwed /\ TablesOwed /\ StraysBounded /\ [Next]_vars => StraysBounded'
  <2> SUFFICES ASSUME QueryInv, CountsOwed, TablesOwed, StraysBounded, [Next]_vars PROVE StraysBounded'
    OBVIOUS
  <2> DEFINE NUM == IH_RESERVE_CMD_ID_GET_SHM_NUM
             INFO == IH_RESERVE_CMD_ID_GET_SHM_INFO
  <2>1. QueryInv' /\ NUM \in Requests /\ INFO \in Requests
    BY QueryStep, Ids
  <2>2. strays \in Nat /\ timeouts \in Nat /\ tables \in Nat /\ asks \in Nat
    BY DEF QueryInv, QueryTypeOK
  <2>3. PICK n \in Nat, n1 \in Nat, t \in Nat, t1 \in Nat :
          n = OnWay(NUM) /\ n1 = OnWay(NUM)' /\ t = OnWay(INFO) /\ t1 = OnWay(INFO)'
    BY <2>1, OnWayMoves
  <2>4. n + strays <= timeouts + Waits("num") /\ t + tables <= asks + Waits("info")
    BY <2>3 DEF CountsOwed, TablesOwed
  <2>5. ASSUME down # <<>>, down' = Tail(down), up' = up
        PROVE  /\ Head(down).id = NUM => n >= 1
               /\ Head(down).id = INFO => t >= 1
    <3>1. /\ n1 + (IF Head(down).id = NUM THEN 1 ELSE 0) <= n
          /\ t1 + (IF Head(down).id = INFO THEN 1 ELSE 0) <= t
      BY <2>1, <2>3, <2>5, OnWayMoves
    <3> QED BY <3>1
  <2> HIDE DEF NUM, INFO
  <2>6. CASE AppRecv
    <3>1. pc = "idle" /\ UNCHANGED <<timeouts, tables, asks>>
      BY <2>6 DEF AppRecv
    <3>2. \/ strays' = strays
          \/ n >= 1 /\ strays' = strays + 1
      BY <2>2, <2>5, <2>6 DEF AppRecv, Ready, NUM
    <3> QED BY <2>2, <2>4, <3>1, <3>2 DEF StraysBounded, Waits
  <2>7. CASE NumSkip
    <3>1. pc = "num" /\ UNCHANGED <<timeouts, strays, asks>>
      BY <2>7 DEF NumSkip
    <3>2. \/ tables' = tables
          \/ t >= 1 /\ tables' = tables + 1
      BY <2>2, <2>5, <2>7 DEF NumSkip, Ready, INFO
    <3> QED BY <2>2, <2>4, <3>1, <3>2 DEF StraysBounded, Waits
  <2>8. CASE UNCHANGED <<strays, tables>> /\ timeouts' \in {timeouts, timeouts + 1}
                                         /\ asks' \in {asks, asks + 1}
    BY <2>2, <2>8 DEF StraysBounded
  <2>9. QED
    BY <2>6, <2>7, <2>8 DEF Next, LibraryStep, ih_get_shm_infos, NumAnswer, NumFail, InfoRecv, InfoFail,
                      AppAsk, Misread, Stall, BrokerAnswer, BrokerGone, BrokerRelay, counted, vars
<1>4. QED
  BY <1>1, <1>2, <1>3, OwedStep, QueryInit, QueryStep, PTL DEF Spec
=============================================================================
