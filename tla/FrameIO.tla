------------------------------ MODULE FrameIO ------------------------------
(***************************************************************************)
(* One direction of a connection, byte by byte: the headers that conf.c    *)
(* writes, the loops of tcp_send_protocol_cmd, tcp_send_noblock and        *)
(* tcp_recv_protocol_cmd with their retries, and what their callers do     *)
(* when a loop gives up.                                                   *)
(*                                                                         *)
(* Bytes are numbered by their place in the stream; a frame is known by    *)
(* the place it starts at.  Upwards a client sends broadcasts              *)
(* ("library": ih_send_broadcast_data) and requests ("query") and the      *)
(* broker reads; downwards the broker relays broadcasts ("broadcast") and  *)
(* answers ("reply"), and the client reads.                                *)
(***************************************************************************)
EXTENDS Integers, Sequences, FiniteSetsExt

CONSTANTS
  HeadLen,   \* sizeof(PROTOCOL_CMD)
  LenMod,    \* bodylen is an unsigned number below LenMod (2^16)
  Room,      \* bytes of the receive buffer behind the header
  Retries,   \* times
  Capacity,  \* bytes the socket buffer holds
  Commands,  \* [br_num, datalen] of the broadcasts and answers sent
  MaxCalls   \* calls of the sender

ASSUME FrameAssumption ==
  /\ HeadLen \in Nat \ {0} /\ LenMod \in Nat \ {0} /\ Capacity \in Nat \ {0}
  /\ Room \in Nat /\ Retries \in Nat /\ MaxCalls \in Nat
  /\ Commands \subseteq [br_num : 0..255, datalen : Nat]

IH_CMD_TYPE_SEND_RESERVE       == 0
IH_CMD_TYPE_SEND_PARALLEL      == 1
IH_RESERVE_CMD_ID_GET_SHM_INFO == 2
IH_CMD_ID_DEFAULT              == 188

VARIABLES
  dir,       \* "up" or "down"
  snd,       \* the sender's call
  rcv,       \* the reader's call
  calls,     \* calls the sender has begun
  frames,    \* the frames of which a byte was sent, see Piece
  wrote,     \* bytes put on the stream
  read,      \* bytes taken off it
  open,      \* the sender's end is open
  delivered, \* what the reader's calls returned: [at, len]
  lost       \* the reader gave up inside a frame and reads on

vars == <<dir, snd, rcv, calls, frames, wrote, read, open, delivered, lost>>

-----------------------------------------------------------------------------
(* The header. *)

round4(x) == 4 * ((x \div 4) + (IF x % 4 # 0 THEN 1 ELSE 0))

Blank == [bodylen |-> 0, cmdSendType |-> 0, cmdid |-> 0, broadcast_num |-> 0]

(* A negative argument leaves its field as it is; without one the header   *)
(* is cleared first.                                                       *)
set_pure_protocol_head(head, bodylen, cmdSendType, cmdid) ==
  LET old == IF bodylen >= 0 /\ cmdSendType >= 0 /\ cmdid >= 0 THEN Blank ELSE head
  IN  [old EXCEPT !.bodylen = IF bodylen >= 0 THEN bodylen % LenMod ELSE @,
                  !.cmdSendType = IF cmdSendType >= 0 THEN cmdSendType % 256 ELSE @,
                  !.cmdid = IF cmdid >= 0 THEN cmdid % 256 ELSE @]

set_pure_broadcast_field(head, broadcast_num) ==
  [head EXCEPT !.broadcast_num = IF broadcast_num > 0 THEN broadcast_num % 256 ELSE 0]

set_broadcast_cmd_head(head, bodylen, cmdid, br_num) ==
  [set_pure_protocol_head(head, bodylen + round4(br_num), IH_CMD_TYPE_SEND_PARALLEL, cmdid)
     EXCEPT !.broadcast_num = br_num % 256]

(* Without the rounding up. *)
MutBroadcastLen(head) == 4 * (head.broadcast_num \div 4)

GET_PROTOCOL_BROADCAST_LEN(head) ==
  4 * ((head.broadcast_num \div 4) + (IF head.broadcast_num % 4 # 0 THEN 1 ELSE 0))

(* What broadcast_cmd makes of the header of a broadcast: the ids are      *)
(* taken out of its length.  A length that is too small for them stays.    *)
Relayed(head) ==
  LET bodylen == head.bodylen - GET_PROTOCOL_BROADCAST_LEN(head)
  IN  set_pure_broadcast_field(set_broadcast_cmd_head(head, bodylen, -1, 0), 0)

(* The header ih_send_broadcast_data writes. *)
BroadcastHead(c) ==
  set_pure_broadcast_field(set_broadcast_cmd_head(Blank, c.datalen, IH_CMD_ID_DEFAULT, c.br_num), c.br_num)

Header(kind, c) ==
  CASE kind = "library"   -> BroadcastHead(c)
    [] kind = "broadcast" -> Relayed(BroadcastHead(c))
    [] kind = "reply"     -> set_pure_protocol_head(Blank, c.datalen, 0, IH_RESERVE_CMD_ID_GET_SHM_INFO)
    [] kind = "query"     ->
         set_pure_protocol_head(Blank, 0, IH_CMD_TYPE_SEND_RESERVE, IH_RESERVE_CMD_ID_GET_SHM_INFO)

(* Bytes of the two sends of a call. *)
HeadPart(kind, c) == HeadLen + (IF kind = "library" THEN round4(c.br_num) ELSE 0)
BodyPart(kind, c) == IF kind = "library" THEN c.datalen ELSE Header(kind, c).bodylen

(* What the receiver should find behind the header. *)
Meant(kind, c) ==
  CASE kind = "library" -> round4(c.br_num) + c.datalen
    [] kind = "query"   -> 0
    [] OTHER            -> c.datalen

-----------------------------------------------------------------------------
(* The sender. *)

Idle == [at |-> "idle"]
Dead == [at |-> "dead"]

Kinds == IF dir = "up" THEN {"library", "query"} ELSE {"broadcast", "reply"}

(* The length of the client's command can be written in a header. *)
Fits(kind, c) ==
  /\ kind = "reply" => c.datalen < LenMod
  /\ kind \in {"library", "broadcast"} => round4(c.br_num) + c.datalen < LenMod

(* What a call is to send: the bytes of its two sends, and the length its  *)
(* header announces.                                                       *)
Packet(kind, c) ==
  [kind |-> kind, first |-> HeadPart(kind, c), second |-> BodyPart(kind, c),
   bodylen |-> Header(kind, c).bodylen, meant |-> Meant(kind, c), fits |-> Fits(kind, c)]

(* at: which of the two sends; left: bytes it has still to send; times:    *)
(* retries it has left; bad: the first send gave up; begun: bytes of the   *)
(* call are on the stream.                                                 *)
Sending(at, packet, left, times, bad, begun) ==
  [at |-> at, packet |-> packet, left |-> left, times |-> times, bad |-> bad, begun |-> begun]

readerVars == <<rcv, read, delivered, lost>>

ReaderOpen == rcv.at \notin {"closed", "dead"}

SendCall(kind, c) ==
  /\ snd = Idle /\ open /\ calls < MaxCalls
  /\ calls' = calls + 1
  /\ snd' = Sending("head", Packet(kind, c), HeadPart(kind, c), Retries, FALSE, FALSE)
  /\ UNCHANGED <<dir, frames, wrote, open, readerVars>>

(* As ReturnFrom, with the connection kept. *)
MutReturnFrom(kind, bad) == snd' = Idle /\ UNCHANGED open

(* The call is over.  ih_send_broadcast_data closes the connection when    *)
(* one of its sends failed, main when a broadcast failed; requests and     *)
(* answers that failed leave it open.                                      *)
ReturnFrom(kind, bad) ==
  /\ snd' = Idle
  /\ open' = ~(bad /\ kind \in {"library", "broadcast"})

(* A call of the library makes its second send with retries of its own,    *)
(* whatever became of the first; tcp_send_protocol_cmd goes on with the    *)
(* retries it has left, and only when the header is out.                   *)
AfterHead(s, done) ==
  LET p == s.packet
      times == IF p.kind = "library" THEN Retries ELSE s.times
  IN  IF p.second > 0 /\ (done \/ p.kind = "library")
      THEN snd' = Sending("body", p, p.second, times, ~done, s.begun) /\ UNCHANGED open
      ELSE ReturnFrom(p.kind, ~done)

AfterPart(s, done) ==
  IF s.at = "head" THEN AfterHead(s, done) ELSE ReturnFrom(s.packet.kind, s.bad \/ ~done)

InCall == snd.at \in {"head", "body"}

(* A packet of which n bytes are on the stream. *)
Piece(s, n) == [packet |-> s.packet, start |-> wrote, head |-> IF s.at = "head" THEN n ELSE 0, wrote |-> n]

(* send takes n bytes. *)
SendTakes(n) ==
  /\ InCall /\ ReaderOpen /\ n <= snd.left /\ wrote - read + n <= Capacity
  /\ wrote' = wrote + n
  /\ frames' = IF snd.begun
               THEN [frames EXCEPT ![Len(frames)].wrote = @ + n,
                                   ![Len(frames)].head = @ + (IF snd.at = "head" THEN n ELSE 0)]
               ELSE Append(frames, Piece(snd, n))
  /\ LET s == [snd EXCEPT !.left = @ - n, !.begun = TRUE]
     IN  IF s.left = 0 THEN AfterPart(s, TRUE) ELSE snd' = s /\ UNCHANGED open
  /\ UNCHANGED <<dir, calls, readerVars>>

(* The retries are never used up. *)
MutRetry(c) == [c EXCEPT !.times = IF @ = 0 THEN 0 ELSE Retries]

(* One EAGAIN with retries left: times-- and usleep. *)
Retry(c) == [c EXCEPT !.times = @ - 1]

(* The test and the decrement the wrong way round. *)
MutSendRefused ==
  /\ InCall /\ ReaderOpen /\ wrote - read = Capacity
  /\ IF snd.times >= 0
     THEN snd' = Retry(snd) /\ UNCHANGED open
     ELSE AfterPart(snd, FALSE)
  /\ UNCHANGED <<dir, calls, frames, wrote, readerVars>>

(* send has no room: the loop sleeps and retries, or gives up. *)
SendRefused ==
  /\ InCall /\ ReaderOpen /\ wrote - read = Capacity
  /\ IF snd.times > 0
     THEN snd' = Retry(snd) /\ UNCHANGED open
     ELSE AfterPart(snd, FALSE)
  /\ UNCHANGED <<dir, calls, frames, wrote, readerVars>>

(* The reader has closed: SIGPIPE. *)
SendKilled ==
  /\ InCall /\ ~ReaderOpen
  /\ snd' = Dead /\ open' = FALSE
  /\ UNCHANGED <<dir, calls, frames, wrote, readerVars>>

(* The sending process exits or crashes: a client also by its own overrun, *)
(* when it asks for more ids than its header has room for.                 *)
SenderEnds ==
  /\ snd # Dead /\ snd' = Dead /\ open' = FALSE
  /\ UNCHANGED <<dir, calls, frames, wrote, readerVars>>

-----------------------------------------------------------------------------
(* The reader. *)

senderVars == <<dir, snd, calls, frames, wrote, open>>

Available == wrote - read

(* keep: the caller is the first loop of ih_get_shm_infos, which returns   *)
(* and keeps the connection when the call fails; main and ih_recv_data     *)
(* close it.                                                               *)
Reading(at, keep, from, left, len, times) ==
  [at |-> at, keep |-> keep, from |-> from, left |-> left, len |-> len, times |-> times]

(* A peer that has closed is not read any more. *)
MutReadable == open /\ Available > 0

Readable == Available > 0 \/ ~open

(* The broker and the application wait for select. *)
RecvCall(keep) ==
  /\ rcv = Idle /\ (keep => dir = "down") /\ (~keep => Readable)
  /\ rcv' = Reading("head", keep, read, HeadLen, 0, Retries)
  /\ UNCHANGED <<senderVars, read, delivered, lost>>

(* The length in the header: that of the frame which starts where the call *)
(* began to read, or whatever the bytes of other frames say.               *)
GET_PROTOCOL_BODY_LEN(from) ==
  LET at == {k \in DOMAIN frames : frames[k].start = from /\ frames[k].head >= HeadLen}
  IN  IF at = {} THEN 0..(LenMod - 1) ELSE {frames[k].packet.bodylen : k \in at}

Deliver(from, len) ==
  rcv' = Idle /\ delivered' = Append(delivered, [at |-> from, len |-> len])

(* recv asks for the whole body every time. *)
MutTaken(c) == Min({Available, IF c.at = "body" THEN c.len ELSE c.left})

(* What recv returns: all there is, up to what is missing. *)
Taken(c) == Min({Available, c.left})

(* recv returns bytes.  With the header complete the body follows; a body  *)
(* that the buffer has no room for is written past its end, which may be   *)
(* the end of the process.                                                 *)
RecvTakes ==
  /\ rcv.at \in {"head", "body"} /\ Available > 0
  /\ LET n == Taken(rcv)
         c == [rcv EXCEPT !.left = @ - n]
     IN  /\ read' = read + n
         /\ \/ c.left > 0 /\ rcv' = c /\ UNCHANGED delivered
            \/ /\ c.left <= 0 /\ c.at = "head"
               /\ \E len \in GET_PROTOCOL_BODY_LEN(c.from) :
                    \/ len = 0 /\ Deliver(c.from, 0)
                    \/ /\ len > 0 /\ UNCHANGED delivered
                       /\ \/ rcv' = Reading("body", c.keep, c.from, len, len, c.times)
                          \/ len > Room /\ rcv' = Dead
            \/ c.left <= 0 /\ c.at = "body" /\ Deliver(c.from, c.len - c.left)
  /\ UNCHANGED <<senderVars, lost>>

RecvFails ==
  /\ rcv' = IF rcv.keep THEN Idle ELSE [at |-> "closed"]
  /\ lost' = (lost \/ (rcv.keep /\ read > rcv.from))
  /\ UNCHANGED delivered

(* recv has nothing: the loop sleeps and retries, or gives up. *)
RecvEmpty ==
  /\ rcv.at \in {"head", "body"} /\ Available = 0 /\ open
  /\ IF rcv.times > 0
     THEN rcv' = Retry(rcv) /\ UNCHANGED <<delivered, lost>>
     ELSE RecvFails
  /\ UNCHANGED <<senderVars, read>>

(* End of file. *)
RecvEof ==
  /\ rcv.at \in {"head", "body"} /\ Available = 0 /\ ~open
  /\ RecvFails
  /\ UNCHANGED <<senderVars, read>>

-----------------------------------------------------------------------------
Init ==
  /\ dir \in {"up", "down"}
  /\ snd = Idle /\ rcv = Idle /\ calls = 0
  /\ frames = <<>> /\ wrote = 0 /\ read = 0 /\ open = TRUE
  /\ delivered = <<>> /\ lost = FALSE

SenderStep == (\E n \in 1..Capacity : SendTakes(n)) \/ SendRefused \/ SendKilled

ReaderStep == RecvTakes \/ RecvEmpty \/ RecvEof

Next ==
  \/ \E kind \in Kinds, c \in Commands : SendCall(kind, c)
  \/ SenderStep \/ SenderEnds
  \/ \E keep \in BOOLEAN : RecvCall(keep)
  \/ ReaderStep

Spec == Init /\ [][Next]_vars

(* Both processes run on, and a reader with something to read reads it:    *)
(* the broker's loop does, and so does an application that uses            *)
(* ih_select_recv_ready.                                                   *)
FairSpec ==
  /\ Spec
  /\ WF_vars(SenderStep) /\ WF_vars(ReaderStep) /\ WF_vars(RecvCall(FALSE))

-----------------------------------------------------------------------------
(* Properties. *)

Complete(k) == frames[k].wrote = frames[k].packet.first + frames[k].packet.second
Whole(k) == Complete(k) /\ frames[k].packet.fits

(* The types of the variables, among them: a call never has a byte too     *)
(* many, the socket buffer is never over its capacity, and retries never   *)
(* go below zero.                                                          *)
FrameTypeOK ==
  /\ dir \in {"up", "down"} /\ open \in BOOLEAN /\ lost \in BOOLEAN
  /\ snd \in {Idle, Dead} \/
     /\ snd.at \in {"head", "body"} /\ snd.packet.kind \in Kinds
     /\ snd.left \in Nat \ {0} /\ snd.times \in 0..Retries /\ {snd.bad, snd.begun} \subseteq BOOLEAN
  /\ rcv \in {Idle, Dead, [at |-> "closed"]} \/
     /\ rcv.at \in {"head", "body"} /\ rcv.keep \in BOOLEAN /\ rcv.times \in 0..Retries
     /\ rcv.from \in 0..read /\ rcv.left \in Nat \ {0} /\ rcv.len \in 0..(LenMod - 1)
  /\ calls \in 0..MaxCalls
  /\ read \in Nat /\ wrote \in Nat /\ wrote - read \in 0..Capacity

(* As long as every frame before it went out whole and the reader did not  *)
(* give up inside one, what a call of tcp_recv_protocol_cmd returns is the *)
(* next frame: its header, and the bytes that were meant to follow it,     *)
(* however the sends and receives cut the stream.                          *)
Intact ==
  ~lost => \A i \in DOMAIN delivered :
    (\A k \in 1..Min({i, Len(frames)}) : Whole(k)) =>
      i <= Len(frames) /\ delivered[i] = [at |-> frames[i].start, len |-> frames[i].packet.meant]

(* A frame of which only a part is on the stream is the last one, unless   *)
(* its sender was a request or an answer, whose failure nobody looks at:   *)
(* a failed broadcast always costs the connection.                         *)
CutIsLast ==
  \A k \in DOMAIN frames :
    (~Complete(k) /\ k < Len(frames)) => frames[k].packet.kind \in {"query", "reply"}

(* While no frame has been cut, truncated or lost, and all of them fit, no *)
(* receive goes past the receive buffer, also not one that runs while the  *)
(* header or the body of the last frame is still being sent.               *)
InBuffer ==
  (~lost /\ rcv.at = "body" /\ \A k \in DOMAIN frames :
      /\ frames[k].packet.fits /\ frames[k].packet.meant <= Room
      /\ k < Len(frames) => Complete(k)
      /\ frames[k].wrote >= HeadLen => frames[k].head >= HeadLen)
  => rcv.len <= Room

(* No call waits for ever, not even on a peer that never reads or never    *)
(* sends: the retries run out.                                             *)
CallsEnd == /\ InCall ~> ~InCall
            /\ rcv.at \in {"head", "body"} ~> rcv.at \notin {"head", "body"}

(* Once frame k and all before it are out whole, the reader gets frame k,  *)
(* or has given up: closed the connection, or left its place in it.        *)
Arrives ==
  \A k \in 1..MaxCalls :
    (k <= Len(frames) /\ \A j \in 1..Min({k, Len(frames)}) : Whole(j))
      ~> (Len(delivered) >= k \/ ~ReaderOpen \/ lost)
=============================================================================
