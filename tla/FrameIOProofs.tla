--------------------------- MODULE FrameIOProofs ---------------------------
(***************************************************************************)
(* Proofs about FrameIO, for all sizes of the header, of the buffers and   *)
(* of bodylen, any number of retries and of calls, and all commands.       *)
(***************************************************************************)
EXTENDS FrameIO, SequenceTheorems, TLAPS

KindNames == {"library", "query", "broadcast", "reply"}

PacketType ==
  [kind : KindNames, first : Nat, second : Nat, bodylen : 0..(LenMod - 1), meant : Nat, fits : BOOLEAN]

(* What a call sends is a header at least, and if the length fits into it, *)
(* the header announces what follows it.                                   *)
PacketOK(p) ==
  /\ p \in PacketType /\ p.first >= HeadLen
  /\ p.fits => p.bodylen = p.meant /\ HeadLen + p.meant = p.first + p.second

-----------------------------------------------------------------------------
(* The headers of conf.c. *)

LEMMA ModLen ==
  \A x \in Nat : x % LenMod \in 0..(LenMod - 1) /\ (x < LenMod => x % LenMod = x)
  BY FrameAssumption

LEMMA Rounding == \A x \in 0..255 : round4(x) \in Nat /\ x % 256 = x
  BY DEF round4

(* A header of its own. *)
LEMMA HeadLength ==
  ASSUME NEW l \in Nat, NEW s \in Nat, NEW i \in Nat
  PROVE  /\ set_pure_protocol_head(Blank, l, s, i).bodylen = l % LenMod
         /\ DOMAIN set_pure_protocol_head(Blank, l, s, i) = {"bodylen", "cmdSendType", "cmdid", "broadcast_num"}
  BY DEF set_pure_protocol_head, Blank

(* The header of ih_send_broadcast_data. *)
LEMMA BroadcastHeadFields ==
  ASSUME NEW c \in Commands
  PROVE  /\ BroadcastHead(c).bodylen = (c.datalen + round4(c.br_num)) % LenMod
         /\ BroadcastHead(c).broadcast_num = c.br_num
         /\ DOMAIN BroadcastHead(c) = {"bodylen", "cmdSendType", "cmdid", "broadcast_num"}
<1>1. c.br_num \in 0..255 /\ c.datalen \in Nat /\ round4(c.br_num) \in Nat /\ c.br_num % 256 = c.br_num
  BY FrameAssumption, Rounding
<1> DEFINE l == c.datalen + round4(c.br_num)
           h == set_pure_protocol_head(Blank, l, 1, 188)
<1>2. l \in Nat /\ l >= 0
  BY <1>1
<1>3. /\ h.bodylen = l % LenMod /\ DOMAIN h = {"bodylen", "cmdSendType", "cmdid", "broadcast_num"}
  BY <1>2, HeadLength
<1>4. set_broadcast_cmd_head(Blank, c.datalen, 188, c.br_num) = [h EXCEPT !.broadcast_num = c.br_num]
  BY <1>1 DEF set_broadcast_cmd_head, IH_CMD_TYPE_SEND_PARALLEL
<1> HIDE DEF h
<1>5. BroadcastHead(c) = [[h EXCEPT !.broadcast_num = c.br_num]
                            EXCEPT !.broadcast_num = IF c.br_num > 0 THEN c.br_num % 256 ELSE 0]
  BY <1>4 DEF BroadcastHead, set_pure_broadcast_field, IH_CMD_ID_DEFAULT
<1>6. QED
  BY <1>1, <1>3, <1>5

(* Relaying takes the ids out of the length, if it has room for them. *)
LEMMA RelayedLength ==
  ASSUME NEW c \in Commands
  PROVE  /\ Relayed(BroadcastHead(c)).bodylen \in 0..(LenMod - 1)
         /\ round4(c.br_num) + c.datalen < LenMod => Relayed(BroadcastHead(c)).bodylen = c.datalen
<1> DEFINE H == BroadcastHead(c)
           r == round4(c.br_num)
           b == H.bodylen - GET_PROTOCOL_BROADCAST_LEN(H)
<1>1. c.br_num \in 0..255 /\ c.datalen \in Nat /\ r \in Nat
  BY FrameAssumption, Rounding
<1>2. /\ H.bodylen = (c.datalen + r) % LenMod /\ H.broadcast_num = c.br_num
      /\ DOMAIN H = {"bodylen", "cmdSendType", "cmdid", "broadcast_num"}
  BY BroadcastHeadFields
<1>3. H.bodylen \in 0..(LenMod - 1) /\ (c.datalen + r < LenMod => H.bodylen = c.datalen + r)
  BY <1>1, <1>2, ModLen
<1>4. b = H.bodylen - r
  BY <1>2 DEF GET_PROTOCOL_BROADCAST_LEN, round4
<1>5. Relayed(H).bodylen = IF b >= 0 THEN b % LenMod ELSE H.bodylen
  <2>1. round4(0) = 0 /\ b + 0 = b
    BY <1>1, <1>3, <1>4 DEF round4
  <2>2. set_pure_protocol_head(H, b, 1, -1).bodylen = IF b >= 0 THEN b % LenMod ELSE H.bodylen
    BY <1>2 DEF set_pure_protocol_head
  <2>3. QED
    BY <2>1, <2>2 DEF Relayed, set_pure_broadcast_field, set_broadcast_cmd_head, IH_CMD_TYPE_SEND_PARALLEL
<1>6. QED
  BY <1>1, <1>3, <1>4, <1>5, ModLen, FrameAssumption

LEMMA PacketSound ==
  ASSUME NEW kind \in KindNames, NEW c \in Commands
  PROVE  PacketOK(Packet(kind, c)) /\ Packet(kind, c).kind = kind
<1> DEFINE p == Packet(kind, c)
           r == round4(c.br_num)
<1>1. c.br_num \in 0..255 /\ c.datalen \in Nat /\ r \in Nat /\ HeadLen \in Nat /\ LenMod \in Nat
  BY FrameAssumption, Rounding
<1>2. /\ p.kind = kind /\ p.first = HeadPart(kind, c) /\ p.second = BodyPart(kind, c)
      /\ p.bodylen = Header(kind, c).bodylen /\ p.meant = Meant(kind, c) /\ p.fits = Fits(kind, c)
  BY Zenon DEF Packet
<1>3. p \in [kind : KindNames, first : Nat, second : Nat, bodylen : 0..(LenMod - 1), meant : Nat, fits : BOOLEAN]
      <=> /\ p.kind \in KindNames /\ p.first \in Nat /\ p.second \in Nat /\ p.bodylen \in 0..(LenMod - 1)
          /\ p.meant \in Nat /\ p.fits \in BOOLEAN
  BY Zenon DEF Packet
<1>4. Fits(kind, c) \in BOOLEAN
  BY DEF Fits
<1>5. /\ HeadPart(kind, c) \in Nat /\ HeadPart(kind, c) >= HeadLen
      /\ BodyPart(kind, c) \in Nat /\ Header(kind, c).bodylen \in 0..(LenMod - 1)
      /\ Meant(kind, c) \in Nat
      /\ Fits(kind, c) => /\ Header(kind, c).bodylen = Meant(kind, c)
                          /\ HeadLen + Meant(kind, c) = HeadPart(kind, c) + BodyPart(kind, c)
  <2>1. CASE kind = "library"
    <3>1. Header(kind, c).bodylen = (c.datalen + r) % LenMod
      BY <2>1, BroadcastHeadFields DEF Header
    <3>2. QED
      BY <1>1, <2>1, <3>1, ModLen DEF HeadPart, BodyPart, Meant, Fits
  <2>2. CASE kind = "broadcast"
    <3>1. Header(kind, c) = Relayed(BroadcastHead(c))
      BY <2>2 DEF Header
    <3>2. QED
      BY <1>1, <2>2, <3>1, RelayedLength DEF HeadPart, BodyPart, Meant, Fits
  <2>3. CASE kind = "reply"
    <3>1. Header(kind, c).bodylen = c.datalen % LenMod
      BY <1>1, <2>3, HeadLength DEF Header, IH_RESERVE_CMD_ID_GET_SHM_INFO
    <3>2. QED
      BY <1>1, <2>3, <3>1, ModLen DEF HeadPart, BodyPart, Meant, Fits
  <2>4. CASE kind = "query"
    <3>1. Header(kind, c).bodylen = 0 % LenMod
      BY <2>4, HeadLength DEF Header, IH_CMD_TYPE_SEND_RESERVE, IH_RESERVE_CMD_ID_GET_SHM_INFO
    <3>2. 0 % LenMod = 0
      BY FrameAssumption
    <3>3. QED
      BY <1>1, <2>4, <3>1, <3>2, ModLen DEF HeadPart, BodyPart, Meant, Fits
  <2>5. QED
    BY <2>1, <2>2, <2>3, <2>4 DEF KindNames
<1>6. QED
  BY <1>2, <1>3, <1>4, <1>5, Zenon DEF PacketOK, PacketType

-----------------------------------------------------------------------------
(* The sender. *)

CallType ==
  [at : {"head", "body"}, packet : PacketType, left : Nat \ {0}, times : 0..Retries,
   bad : BOOLEAN, begun : BOOLEAN]

FrameType == [packet : PacketType, start : Nat, head : Nat, wrote : Nat \ {0}]

SenderType ==
  /\ dir \in {"up", "down"} /\ open \in BOOLEAN
  /\ snd \in {Idle, Dead} \cup CallType
  /\ calls \in 0..MaxCalls /\ wrote \in Nat
  /\ frames \in Seq(FrameType)

(* The bytes a frame has on the stream belong to its header and its body.  *)
FrameOK(f) ==
  /\ PacketOK(f.packet)
  /\ f.head <= f.wrote /\ f.head <= f.packet.first /\ f.wrote - f.head <= f.packet.second

(* The call in progress, and the frame it has begun. *)
CallOK ==
  InCall =>
    /\ open /\ PacketOK(snd.packet) /\ snd.packet.kind \in Kinds
    /\ snd.left <= (IF snd.at = "head" THEN snd.packet.first ELSE snd.packet.second)
    /\ snd.at = "head" => ~snd.bad
    /\ ~snd.begun => snd.left = (IF snd.at = "head" THEN snd.packet.first ELSE snd.packet.second)
                    /\ (snd.at = "body" => snd.bad)
    /\ snd.begun =>
         /\ frames # <<>>
         /\ LET f == frames[Len(frames)]
            IN  /\ f.packet = snd.packet
                /\ snd.at = "head" => f.head = f.wrote /\ f.wrote = f.packet.first - snd.left
                /\ snd.at = "body" => /\ f.wrote - f.head = f.packet.second - snd.left
                                      /\ ~snd.bad => f.head = f.packet.first

(* The frames lie end to end on the stream. *)
FrameEnd(k) == frames[k].start + frames[k].wrote

Contiguous ==
  /\ \A k \in DOMAIN frames : k > 1 => frames[k].start = FrameEnd(k - 1)
  /\ frames # <<>> => frames[1].start = 0
  /\ wrote = IF frames = <<>> THEN 0 ELSE FrameEnd(Len(frames))

(* A frame whose call is over is complete, or its sender did not look, or  *)
(* the connection is closed.                                               *)
Settled ==
  \A k \in DOMAIN frames :
    \/ Complete(k) \/ frames[k].packet.kind \in {"query", "reply"}
    \/ k = Len(frames) /\ (~open \/ (InCall /\ snd.begun))

SenderInv ==
  /\ SenderType /\ CallOK /\ Contiguous /\ Settled
  /\ \A k \in DOMAIN frames : FrameOK(frames[k])

(* The reader. *)

ReadType ==
  [at : {"head", "body"}, keep : BOOLEAN, from : Nat, left : Nat \ {0}, len : 0..(LenMod - 1), times : 0..Retries]

ReaderType ==
  /\ rcv \in {Idle, Dead, [at |-> "closed"]} \cup ReadType
  /\ read \in Nat /\ wrote - read \in 0..Capacity
  /\ rcv.at \in {"head", "body"} => rcv.from <= read
  /\ lost \in BOOLEAN
  /\ delivered \in Seq([at : Nat, len : Nat])

(* Later frames lie behind earlier ones. *)
Ordered == \A j, k \in DOMAIN frames : j < k => FrameEnd(j) <= frames[k].start

(* A frame of which only the end may be missing, and nothing comes after   *)
(* what is missing: what is on the stream in place of the header is the    *)
(* header.  A frame that is not fine never becomes so again.               *)
Fine(k) ==
  /\ frames[k].packet.fits
  /\ frames[k].wrote >= HeadLen => frames[k].head >= HeadLen
  /\ k < Len(frames) => Complete(k)

FineTo(i) == \A k \in 1..i : k \in DOMAIN frames => Fine(k)

(* Where the frame after frame k starts. *)
After(k) == IF k = 0 THEN 0 ELSE FrameEnd(k)

(* The reader stands in the frame after those it has delivered. *)
InPlace(d) ==
  /\ rcv = Idle => read = After(d)
  /\ rcv.at = "head" => rcv.from = After(d) /\ read = rcv.from + HeadLen - rcv.left
  /\ rcv.at = "body" =>
       /\ rcv.from = After(d) /\ read = rcv.from + HeadLen + rcv.len - rcv.left
       /\ d < Len(frames) /\ rcv.left <= rcv.len
       /\ frames[d + 1].head >= HeadLen => rcv.len = frames[d + 1].packet.bodylen

Delivered(i) ==
  /\ i <= Len(frames) /\ Complete(i)
  /\ delivered[i] = [at |-> frames[i].start, len |-> frames[i].packet.meant]

IntactInv ==
  ~lost =>
    /\ \A i \in DOMAIN delivered : FineTo(i) => Delivered(i)
    /\ FineTo(Len(delivered)) => InPlace(Len(delivered))

-----------------------------------------------------------------------------
(* The steps of the sender. *)

(* g is the last frame after send took n bytes. *)
Grown(g, n) ==
  LET f == frames[Len(frames)]
  IN  /\ g \in FrameType /\ g.packet = snd.packet
      /\ g.start = IF snd.begun THEN f.start ELSE wrote
      /\ g.head = (IF snd.begun THEN f.head ELSE 0) + (IF snd.at = "head" THEN n ELSE 0)
      /\ g.wrote = (IF snd.begun THEN f.wrote ELSE 0) + n

LEMMA CallIsTyped ==
  ASSUME SenderType, InCall
  PROVE  /\ snd \in CallType /\ snd.at \in {"head", "body"} /\ snd.packet \in PacketType
         /\ snd.left \in Nat \ {0} /\ snd.times \in 0..Retries
  BY DEF SenderType, InCall, Idle, Dead, CallType

LEMMA LastFrame ==
  ASSUME SenderType, frames # <<>>
  PROVE  Len(frames) \in DOMAIN frames /\ frames[Len(frames)] \in FrameType /\ Len(frames) \in Nat \ {0}
  BY DEF SenderType

(* The frame f with n bytes more, h of them of its header.                 *)
Longer(f, n, h) == [[f EXCEPT !.wrote = @ + n] EXCEPT !.head = @ + h]

Grows(f, g, n, h) ==
  /\ g \in FrameType /\ g.packet = f.packet /\ g.start = f.start
  /\ g.head = f.head + h /\ g.wrote = f.wrote + n

LEMMA FrameGrows ==
  ASSUME NEW f \in FrameType, NEW n \in Nat \ {0}, NEW h \in Nat
  PROVE  Grows(f, Longer(f, n, h), n, h)
<1>1. f.head \in Nat /\ f.wrote \in Nat \ {0} /\ f.packet \in PacketType /\ f.start \in Nat
  BY DEF FrameType
<1>2. PICK e : e = [f EXCEPT !.wrote = @ + n]
  OBVIOUS
<1>3. e \in FrameType /\ e.packet = f.packet /\ e.start = f.start /\ e.head = f.head /\ e.wrote = f.wrote + n
  <2>1. f.wrote + n \in Nat \ {0}
    BY <1>1
  <2>2. QED
    BY <1>1, <1>2, <2>1 DEF FrameType
<1>4. PICK g : g = [e EXCEPT !.head = @ + h]
  OBVIOUS
<1>5. e.head + h \in Nat
  BY <1>1, <1>3
<1>6. Grows(f, g, n, h)
  BY <1>3, <1>4, <1>5 DEF FrameType, Grows
<1>7. QED
  BY <1>2, <1>4, <1>6 DEF Longer

LEMMA FramesGrow ==
  ASSUME SenderInv, NEW n \in 1..Capacity, SendTakes(n)
  PROVE  /\ frames' \in Seq(FrameType) /\ frames' # <<>>
         /\ Len(frames') = Len(frames) + (IF snd.begun THEN 0 ELSE 1)
         /\ \A k \in DOMAIN frames' : k # Len(frames') => k \in DOMAIN frames /\ frames'[k] = frames[k]
         /\ Grown(frames'[Len(frames')], n)
<1>1. InCall /\ n \in Nat \ {0} /\ frames \in Seq(FrameType) /\ wrote \in Nat
  BY FrameAssumption DEF SendTakes, SenderInv, SenderType
<1>2. CASE snd.begun
  <2> DEFINE L == Len(frames)
             f == frames[L]
             h == IF snd.at = "head" THEN n ELSE 0
             g == Longer(f, n, h)
  <2>1. frames # <<>> /\ f.packet = snd.packet
    BY <1>1, <1>2 DEF SenderInv, CallOK
  <2>2. L \in DOMAIN frames /\ f \in FrameType /\ L \in Nat \ {0} /\ h \in Nat
    BY <1>1, <2>1, LastFrame DEF SenderInv
  <2>3. frames' = [frames EXCEPT ![L].wrote = @ + n, ![L].head = @ + h]
    BY <1>2 DEF SendTakes
  <2>4. frames' = [frames EXCEPT ![L] = g]
    BY <2>2, <2>3 DEF Longer
  <2> HIDE DEF f, h
  <2>5. g \in FrameType /\ Grown(g, n)
    <3>1. Grows(f, g, n, h)
      BY <1>1, <2>2, FrameGrows
    <3> HIDE DEF g
    <3>2. QED
      BY <1>2, <2>1, <3>1 DEF Grows, Grown, f, h
  <2> HIDE DEF g
  <2>6. QED
    BY <1>1, <1>2, <2>2, <2>4, <2>5
<1>3. CASE ~snd.begun
  <2> DEFINE g == Piece(snd, n)
  <2>1. g \in FrameType /\ Grown(g, n)
    <3>1. snd.packet \in PacketType
      BY <1>1, CallIsTyped DEF SenderInv
    <3>2. QED
      BY <1>1, <1>3, <3>1 DEF Piece, Grown, FrameType
  <2>2. frames' = Append(frames, g)
    BY <1>3 DEF SendTakes
  <2> HIDE DEF g
  <2>3. QED
    BY <1>1, <1>3, <2>1, <2>2
<1>4. QED
  BY <1>2, <1>3

(* One send of the call s is done, or has given up. *)
Done(s)   == AfterPart(s, TRUE)
Failed(s) == AfterPart(s, FALSE)

(* The call goes on with its second send, after a header that is out or    *)
(* one that is not, or it is over.                                         *)
GoesOn(s) ==
  /\ s.at = "head" /\ s.packet.second > 0 /\ open' = open
  /\ \E t \in 0..Retries : snd' = Sending("body", s.packet, s.packet.second, t, FALSE, s.begun)

Blunders(s) ==
  /\ s.at = "head" /\ s.packet.second > 0 /\ open' = open
  /\ \E t \in 0..Retries : snd' = Sending("body", s.packet, s.packet.second, t, TRUE, s.begun)

Over(s) == snd' = Idle /\ open' \in BOOLEAN

Unseen(s) == ~open' \/ s.packet.kind \in {"query", "reply"}

LEMMA DoneOutcome ==
  ASSUME NEW s, s.at \in {"head", "body"}, s.packet \in PacketType, s.times \in 0..Retries,
         s.bad \in BOOLEAN, Done(s)
  PROVE  \/ GoesOn(s)
         \/ /\ Over(s) /\ (s.at = "head" => s.packet.second = 0)
            /\ s.at = "body" /\ s.bad => Unseen(s)
<1>1. s.packet.second \in Nat /\ Retries \in 0..Retries
  BY FrameAssumption DEF PacketType
<1>2. CASE s.at = "head" /\ s.packet.second > 0
  BY <1>1, <1>2, Zenon DEF Done, AfterPart, AfterHead, GoesOn
<1>3. CASE s.at = "head" /\ ~(s.packet.second > 0)
  <2>1. s.packet.second = 0
    BY <1>1, <1>3
  <2>2. snd' = Idle /\ open' = ~(~TRUE /\ s.packet.kind \in {"library", "broadcast"})
    BY <1>3, Zenon DEF Done, AfterPart, AfterHead, ReturnFrom
  <2>3. QED
    BY <1>3, <2>1, <2>2, Zenon DEF Over
<1>4. CASE s.at = "body"
  <2>1. snd' = Idle /\ open' = ~((s.bad \/ ~TRUE) /\ s.packet.kind \in {"library", "broadcast"})
    BY <1>4, Zenon DEF Done, AfterPart, ReturnFrom
  <2>2. QED
    BY <1>4, <2>1, Zenon DEF Over, Unseen, PacketType, KindNames
<1>5. QED
  BY <1>2, <1>3, <1>4

LEMMA FailedOutcome ==
  ASSUME NEW s, s.at \in {"head", "body"}, s.packet \in PacketType, s.times \in 0..Retries,
         Failed(s)
  PROVE  Blunders(s) \/ (Over(s) /\ Unseen(s))
<1>1. s.packet.second \in Nat /\ Retries \in 0..Retries /\ s.packet.kind \in KindNames
  BY FrameAssumption DEF PacketType
<1>2. CASE s.at = "head" /\ s.packet.second > 0 /\ s.packet.kind = "library"
  BY <1>1, <1>2, Zenon DEF Failed, AfterPart, AfterHead, Blunders
<1>3. CASE ~(s.at = "head" /\ s.packet.second > 0 /\ s.packet.kind = "library")
  <2>1. snd' = Idle /\ open' \in BOOLEAN /\ (open' => ~(s.packet.kind \in {"library", "broadcast"}))
    BY <1>3, Zenon DEF Failed, AfterPart, AfterHead, ReturnFrom
  <2>2. QED
    BY <1>1, <2>1, Zenon DEF Over, Unseen, KindNames
<1>4. QED
  BY <1>2, <1>3

(* What the call becomes when send has taken n bytes: more of the same     *)
(* send, the second send, or nothing.                                      *)
GoesBy(n) ==
  /\ snd' = [snd EXCEPT !.left = @ - n, !.begun = TRUE] /\ open' = open
  /\ snd.left - n \in Nat \ {0}

Turns(n) ==
  /\ snd.left = n /\ snd.at = "head" /\ snd.packet.second > 0 /\ open' = open
  /\ \E t \in 0..Retries : snd' = Sending("body", snd.packet, snd.packet.second, t, FALSE, TRUE)

Ends(n) ==
  /\ snd.left = n /\ snd' = Idle /\ open' \in BOOLEAN
  /\ snd.at = "head" => snd.packet.second = 0
  /\ snd.bad => (~open' \/ snd.packet.kind \in {"query", "reply"})

LEMMA SendTakesOutcome ==
  ASSUME SenderInv, NEW n \in 1..Capacity, SendTakes(n)
  PROVE  GoesBy(n) \/ Turns(n) \/ Ends(n)
<1>0. PICK s : s = [snd EXCEPT !.left = @ - n, !.begun = TRUE]
  OBVIOUS
<1>1. /\ InCall /\ n <= snd.left /\ open \in BOOLEAN
      /\ IF s.left = 0 THEN AfterPart(s, TRUE) ELSE snd' = s /\ UNCHANGED open
  BY <1>0, Zenon DEF SendTakes, SenderInv, SenderType
<1>2. /\ snd \in CallType /\ snd.at \in {"head", "body"} /\ snd.packet \in PacketType
      /\ snd.left \in Nat \ {0} /\ snd.times \in 0..Retries /\ n <= snd.left /\ n \in Nat \ {0}
  BY <1>1, CallIsTyped, FrameAssumption DEF SenderInv
<1>3. snd.bad \in BOOLEAN
  BY <1>2, Zenon DEF CallType
<1>4. /\ s.at = snd.at /\ s.packet = snd.packet /\ s.left = snd.left - n /\ s.times = snd.times
  BY <1>0, <1>2 DEF CallType
<1>5. s.bad = snd.bad /\ s.begun = TRUE
  BY <1>0, <1>2, Zenon DEF CallType
<1>6. snd.at = "head" => ~snd.bad
  BY <1>1 DEF SenderInv, CallOK
<1>7. CASE s.left = 0
  <2>1. Done(s) /\ snd.left = n
    <3>1. Done(s)
      BY <1>1, <1>7, Zenon DEF Done
    <3>2. snd.left = n
      BY <1>2, <1>4, <1>7
    <3>3. QED
      BY <3>1, <3>2
  <2>2. \/ GoesOn(s)
        \/ /\ Over(s) /\ (s.at = "head" => s.packet.second = 0)
           /\ s.at = "body" /\ s.bad => Unseen(s)
    <3>1. s.at \in {"head", "body"} /\ s.packet \in PacketType /\ s.times \in 0..Retries
      BY <1>2, <1>4
    <3>2. s.bad \in BOOLEAN
      BY <1>3, <1>5, Zenon
    <3>3. QED
      BY <2>1, <3>1, <3>2, DoneOutcome
  <2>3. QED
    BY <1>2, <1>4, <1>5, <1>6, <2>1, <2>2, Zenon DEF GoesOn, Over, Unseen, Turns, Ends
<1>8. CASE s.left # 0
  <2>1. snd.left - n \in Nat \ {0}
    BY <1>2, <1>4, <1>8
  <2>2. QED
    BY <1>0, <1>1, <1>8, <2>1, Zenon DEF GoesBy
<1>9. QED
  BY <1>7, <1>8

LEMMA TakeKeeps ==
  ASSUME SenderInv, NEW n \in 1..Capacity, SendTakes(n)
  PROVE  SenderInv'
<1>1. /\ snd \in CallType /\ snd.at \in {"head", "body"} /\ snd.packet \in PacketType
      /\ snd.left \in Nat \ {0} /\ snd.times \in 0..Retries /\ InCall
  BY CallIsTyped DEF SenderInv, SendTakes
<1>2. n \in Nat \ {0} /\ n <= snd.left /\ wrote' = wrote + n /\ UNCHANGED <<dir, calls>>
  BY FrameAssumption DEF SendTakes
<1>3. PICK L : L = Len(frames')
  OBVIOUS
<1>4. PICK g : g = frames'[L]
  OBVIOUS
<1>5. /\ frames' \in Seq(FrameType) /\ frames' # <<>> /\ L = Len(frames) + (IF snd.begun THEN 0 ELSE 1)
      /\ \A k \in DOMAIN frames' : k # L => k \in DOMAIN frames /\ frames'[k] = frames[k]
      /\ Grown(g, n)
  BY <1>3, <1>4, FramesGrow
<1>6. /\ frames \in Seq(FrameType) /\ Len(frames) \in Nat /\ DOMAIN frames = 1..Len(frames)
      /\ L \in Nat \ {0} /\ DOMAIN frames' = 1..L /\ wrote \in Nat
  BY <1>3, <1>5, LenProperties, EmptySeq DEF SenderInv, SenderType
<1>7. PacketOK(snd.packet) /\ snd.packet.first \in Nat /\ snd.packet.second \in Nat /\ HeadLen \in Nat \ {0}
  BY <1>1, FrameAssumption DEF SenderInv, CallOK, PacketType
<1>8. snd.begun => /\ L \in DOMAIN frames /\ L = Len(frames) /\ frames # <<>> /\ frames[L] \in FrameType
                   /\ frames[L].wrote \in Nat /\ frames[L].head \in Nat /\ frames[L].start \in Nat
  BY <1>1, <1>5, <1>6, LastFrame DEF SenderInv, CallOK, FrameType
<1>9. /\ g.packet = snd.packet /\ g \in FrameType
      /\ snd.at = "head" => g.head = g.wrote /\ g.wrote = snd.packet.first - (snd.left - n)
      /\ snd.at = "body" => /\ g.wrote - g.head = snd.packet.second - (snd.left - n)
                            /\ ~snd.bad => g.head = snd.packet.first
  <2>1. g.packet = snd.packet /\ g \in FrameType
    BY <1>5 DEF Grown
  <2>2. CASE snd.begun
    <3>1. /\ g.head = frames[L].head + (IF snd.at = "head" THEN n ELSE 0)
          /\ g.wrote = frames[L].wrote + n
      BY <1>5, <1>8, <2>2 DEF Grown
    <3>2. /\ frames[L].packet = snd.packet
          /\ snd.at = "head" => frames[L].head = frames[L].wrote
                               /\ frames[L].wrote = frames[L].packet.first - snd.left
          /\ snd.at = "body" => /\ frames[L].wrote - frames[L].head = frames[L].packet.second - snd.left
                                /\ ~snd.bad => frames[L].head = frames[L].packet.first
      BY <1>1, <1>8, <2>2 DEF SenderInv, CallOK
    <3>3. frames[L].wrote \in Nat /\ frames[L].head \in Nat
      BY <1>8, <2>2
    <3>4. CASE snd.at = "head"
      BY <1>1, <1>2, <1>7, <2>1, <3>1, <3>2, <3>3, <3>4
    <3>5. CASE snd.at = "body"
      <4>1. g.head = frames[L].head /\ g.wrote = frames[L].wrote + n
        BY <3>1, <3>3, <3>5
      <4>2. g.wrote - g.head = snd.packet.second - (snd.left - n)
        <5>1. frames[L].wrote - frames[L].head = snd.packet.second - snd.left
          BY <3>2, <3>5
        <5>2. \A w, h, p, l, m \in Nat : w - h = p - l => (w + m) - h = p - (l - m)
          OBVIOUS
        <5>3. frames[L].wrote \in Nat /\ frames[L].head \in Nat /\ snd.packet.second \in Nat /\ snd.left \in Nat /\ n \in Nat
          BY <1>1, <1>2, <1>7, <3>3
        <5>4. (frames[L].wrote + n) - frames[L].head = snd.packet.second - (snd.left - n)
          BY <5>1, <5>2, <5>3
        <5>5. QED
          BY <4>1, <5>4
      <4>3. QED
        BY <2>1, <3>2, <3>5, <4>1, <4>2
    <3>6. QED
      BY <1>1, <3>4, <3>5
  <2>3. CASE ~snd.begun
    <3>1. g.head = (IF snd.at = "head" THEN n ELSE 0) /\ g.wrote = n
      BY <1>2, <1>5, <2>3 DEF Grown
    <3>2. /\ snd.left = IF snd.at = "head" THEN snd.packet.first ELSE snd.packet.second
          /\ snd.at = "body" => snd.bad
      BY <1>1, <2>3 DEF SenderInv, CallOK
    <3>3. QED
      BY <1>1, <1>2, <1>7, <2>1, <3>1, <3>2
  <2>4. QED
    BY <2>2, <2>3
<1>10. FrameOK(g)
  <2>1. g.wrote \in Nat /\ g.head \in Nat
    BY <1>9 DEF FrameType
  <2>2. CASE snd.at = "head"
    BY <1>2, <1>1, <1>7, <1>9, <2>1, <2>2 DEF FrameOK
  <2>3. CASE snd.at = "body"
    <3>1. g.head = IF snd.begun THEN frames[L].head ELSE 0
      BY <1>5, <1>8, <2>3 DEF Grown
    <3>2. snd.begun => frames[L].head <= snd.packet.first
      BY <1>1, <1>8 DEF SenderInv, FrameOK, CallOK
    <3>3. g.head <= snd.packet.first
      BY <1>7, <1>8, <3>1, <3>2
    <3>4. g.head <= g.wrote
      <4>1. snd.left - n <= snd.packet.second
        BY <1>1, <1>2, <1>7, <2>3 DEF SenderInv, CallOK
      <4>2. QED
        BY <1>1, <1>2, <1>7, <1>9, <2>1, <2>3, <4>1
    <3>5. QED
      BY <1>1, <1>2, <1>7, <1>9, <2>1, <2>3, <3>3, <3>4 DEF FrameOK
  <2>4. QED
    BY <1>1, <2>2, <2>3
<1>11. \A k \in DOMAIN frames' : FrameOK(frames'[k])
  BY <1>4, <1>5, <1>10 DEF SenderInv
<1>12. Contiguous'
  <2>1. CASE snd.begun
    <3>1. g.start = frames[L].start /\ g.wrote = frames[L].wrote + n
      BY <1>5, <1>8, <2>1 DEF Grown
    <3>2. wrote = frames[L].start + frames[L].wrote
      BY <1>8, <2>1 DEF SenderInv, Contiguous, FrameEnd
    <3>3. \A k \in DOMAIN frames' : k \in DOMAIN frames /\ frames'[k].start = frames[k].start
                                   /\ (k # L => frames'[k].wrote = frames[k].wrote)
      <4> SUFFICES ASSUME NEW k \in DOMAIN frames'
                   PROVE  k \in DOMAIN frames /\ frames'[k].start = frames[k].start
                          /\ (k # L => frames'[k].wrote = frames[k].wrote)
        OBVIOUS
      <4>1. CASE k = L
        BY <1>4, <1>8, <2>1, <3>1, <4>1
      <4>2. CASE k # L
        BY <1>5, <4>2
      <4>3. QED
        BY <4>1, <4>2
    <3>4. \A k \in DOMAIN frames' : k > 1 => frames'[k].start = frames'[k - 1].start + frames'[k - 1].wrote
      <4> SUFFICES ASSUME NEW k \in DOMAIN frames', k > 1
                   PROVE  frames'[k].start = frames'[k - 1].start + frames'[k - 1].wrote
        OBVIOUS
      <4>1. k - 1 \in DOMAIN frames' /\ k - 1 # L
        BY <1>6
      <4>2. QED
        BY <3>3, <4>1 DEF SenderInv, Contiguous, FrameEnd
    <3>5. frames'[1].start = 0
      BY <1>6, <1>8, <2>1, <3>3 DEF SenderInv, Contiguous
    <3>6. wrote' = g.start + g.wrote
      BY <1>2, <1>6, <1>8, <2>1, <3>1, <3>2
    <3>7. QED
      BY <1>3, <1>4, <1>5, <3>4, <3>5, <3>6 DEF Contiguous, FrameEnd
  <2>2. CASE ~snd.begun
    <3>1. g.start = wrote /\ g.wrote = n /\ L = Len(frames) + 1
      BY <1>2, <1>5, <1>6, <2>2 DEF Grown
    <3>2. \A k \in DOMAIN frames' : k > 1 => frames'[k].start = frames'[k - 1].start + frames'[k - 1].wrote
      <4> SUFFICES ASSUME NEW k \in DOMAIN frames', k > 1
                   PROVE  frames'[k].start = frames'[k - 1].start + frames'[k - 1].wrote
        OBVIOUS
      <4>1. k - 1 \in DOMAIN frames' /\ k - 1 # L /\ frames'[k - 1] = frames[k - 1] /\ k - 1 \in DOMAIN frames
        <5>1. k - 1 \in DOMAIN frames' /\ k - 1 # L
          BY <1>6
        <5>2. QED
          BY <1>5, <5>1
      <4>2. CASE k = L
        <5>1. frames # <<>> /\ k - 1 = Len(frames)
          <6>1. k - 1 = Len(frames) /\ Len(frames) \in Nat
            BY <1>6, <3>1, <4>2
          <6>2. k - 1 \in 1..Len(frames)
            BY <1>6, <4>1
          <6>3. QED
            BY <1>6, <6>1, <6>2, EmptySeq
        <5>2. wrote = frames[k - 1].start + frames[k - 1].wrote
          BY <5>1 DEF SenderInv, Contiguous, FrameEnd
        <5>3. QED
          BY <1>4, <3>1, <4>1, <4>2, <5>2
      <4>3. CASE k # L
        BY <1>5, <4>1, <4>3 DEF SenderInv, Contiguous, FrameEnd
      <4>4. QED
        BY <4>2, <4>3
    <3>3. frames'[1].start = 0
      <4>1. CASE frames = <<>>
        BY <1>4, <1>6, <3>1, <4>1, EmptySeq DEF SenderInv, Contiguous
      <4>2. CASE frames # <<>>
        <5>1. Len(frames) # 0 /\ 1 # L /\ 1 \in DOMAIN frames'
          BY <1>6, <3>1, <4>2, EmptySeq
        <5>2. QED
          BY <1>5, <4>2, <5>1 DEF SenderInv, Contiguous
      <4>3. QED
        BY <4>1, <4>2
    <3>4. QED
      BY <1>2, <1>3, <1>4, <1>5, <3>1, <3>2, <3>3 DEF Contiguous, FrameEnd
  <2>3. QED
    BY <2>1, <2>2
<1>13. \A k \in DOMAIN frames : k # L =>
         (\/ frames[k].wrote = frames[k].packet.first + frames[k].packet.second
          \/ frames[k].packet.kind \in {"query", "reply"})
  <2>1. open /\ InCall
    BY <1>1 DEF SenderInv, CallOK
  <2>2. \A k \in DOMAIN frames : k = Len(frames) /\ snd.begun => k = L
    BY <1>5, <1>6
  <2>3. QED
    BY <2>1, <2>2 DEF SenderInv, Settled, Complete
<1>14. \A k \in DOMAIN frames' : k # L =>
         (\/ frames'[k].wrote = frames'[k].packet.first + frames'[k].packet.second
          \/ frames'[k].packet.kind \in {"query", "reply"})
  BY <1>5, <1>13
<1>15. frames' \in Seq(FrameType) /\ wrote' \in Nat /\ dir' \in {"up", "down"} /\ calls' \in 0..MaxCalls
  <2>1. wrote' \in Nat
    BY <1>2, <1>6
  <2>2. QED
    BY <1>2, <1>5, <2>1 DEF SenderInv, SenderType
<1>16. \/ GoesBy(n) \/ Turns(n) \/ Ends(n)
  BY SendTakesOutcome
<1>17. ASSUME snd' \in {Idle, Dead} \cup CallType, open' \in BOOLEAN, CallOK', Settled' PROVE SenderInv'
  BY <1>11, <1>12, <1>15, <1>17 DEF SenderInv, SenderType
<1>18. CASE GoesBy(n)
  <2>1. /\ snd' \in CallType /\ snd'.at = snd.at /\ snd'.packet = snd.packet /\ snd'.left = snd.left - n
        /\ open' = open
    BY <1>1, <1>18 DEF GoesBy, CallType
  <2>2. snd'.bad = snd.bad /\ snd'.begun = TRUE
    BY <1>1, <1>18, Zenon DEF GoesBy, CallType
  <2>3. CallOK'
    <3>1. open /\ snd.packet.kind \in Kinds /\ (snd.at = "head" => ~snd.bad)
          /\ snd.left <= (IF snd.at = "head" THEN snd.packet.first ELSE snd.packet.second)
      BY <1>1 DEF SenderInv, CallOK
    <3>2. snd.left - n <= (IF snd.at = "head" THEN snd.packet.first ELSE snd.packet.second)
      BY <1>1, <1>2, <1>7, <3>1
    <3>3. snd'.packet.kind \in Kinds'
      BY <1>2, <2>1, <3>1 DEF Kinds
    <3>4. QED
      BY <1>3, <1>4, <1>5, <1>7, <1>9, <2>1, <2>2, <3>1, <3>2, <3>3 DEF CallOK, PacketOK
  <2>4. InCall' /\ snd'.begun
    BY <1>1, <2>1, <2>2 DEF InCall
  <2>5. Settled'
    BY <1>3, <1>6, <1>14, <2>4 DEF Settled, Complete
  <2>6. open' \in BOOLEAN
    BY <2>1 DEF SenderInv, SenderType
  <2>7. QED
    BY <1>17, <2>1, <2>3, <2>5, <2>6
<1>19. CASE Turns(n)
  <2>1. PICK t \in 0..Retries : snd' = Sending("body", snd.packet, snd.packet.second, t, FALSE, TRUE)
    BY <1>19 DEF Turns
  <2>2. snd.left = n /\ snd.at = "head" /\ snd.packet.second > 0 /\ open' = open
    BY <1>19 DEF Turns
  <2>3. /\ snd' \in CallType /\ snd'.at = "body" /\ snd'.packet = snd.packet
        /\ snd'.left = snd.packet.second
    BY <1>1, <1>7, <2>1, <2>2 DEF Sending, CallType
  <2>4. snd'.bad = FALSE /\ snd'.begun = TRUE
    BY <2>1, Zenon DEF Sending
  <2>5. g.head = g.packet.first /\ g.wrote - g.head = 0
    BY <1>1, <1>7, <1>9, <2>2
  <2>6. CallOK'
    <3>1. open /\ snd.packet.kind \in Kinds
      BY <1>1 DEF SenderInv, CallOK
    <3>2. snd'.packet.kind \in Kinds'
      BY <1>2, <2>3, <3>1 DEF Kinds
    <3>3. snd.packet.second <= snd.packet.second /\ 0 = snd.packet.second - snd.packet.second
      BY <1>7
    <3>4. QED
      BY <1>3, <1>4, <1>5, <1>7, <1>9, <2>2, <2>3, <2>4, <2>5, <3>1, <3>2, <3>3 DEF CallOK, PacketOK
  <2>7. InCall' /\ snd'.begun
    BY <2>3, <2>4 DEF InCall
  <2>8. Settled'
    BY <1>3, <1>6, <1>14, <2>7 DEF Settled, Complete
  <2>9. open' \in BOOLEAN
    BY <2>2 DEF SenderInv, SenderType
  <2>10. QED
    BY <1>17, <2>3, <2>6, <2>8, <2>9
<1>20. CASE Ends(n)
  <2>1. snd' = Idle /\ open' \in BOOLEAN /\ snd.left = n
    BY <1>20 DEF Ends
  <2>2. CallOK'
    BY <2>1 DEF CallOK, InCall, Idle
  <2>3. g.wrote = g.packet.first + g.packet.second \/ ~open' \/ g.packet.kind \in {"query", "reply"}
    <3>1. CASE snd.at = "head"
      BY <1>1, <1>7, <1>9, <1>20, <2>1, <3>1 DEF Ends
    <3>2. CASE snd.at = "body" /\ snd.bad
      BY <1>9, <1>20, <3>2 DEF Ends
    <3>3. CASE snd.at = "body" /\ ~snd.bad
      <4>1. g.head = snd.packet.first /\ g.wrote - g.head = snd.packet.second - (n - n)
        BY <1>9, <2>1, <3>3
      <4>2. g.wrote \in Nat
        BY <1>9 DEF FrameType
      <4>3. QED
        BY <1>2, <1>7, <1>9, <4>1, <4>2
    <3>4. QED
      BY <1>1, <3>1, <3>2, <3>3
  <2>4. Settled'
    BY <1>3, <1>4, <1>6, <1>14, <2>3 DEF Settled, Complete
  <2>5. QED
    BY <1>17, <2>1, <2>2, <2>4
<1>21. QED
  BY <1>16, <1>18, <1>19, <1>20

(* A step that sends nothing. *)
LEMMA NothingSent ==
  ASSUME SenderInv, UNCHANGED <<dir, frames, wrote>>, calls' \in 0..MaxCalls,
         snd' \in {Idle, Dead} \cup CallType, open' \in BOOLEAN, CallOK', Settled'
  PROVE  SenderInv'
<1>1. SenderType'
  BY DEF SenderInv, SenderType
<1>2. Contiguous'
  BY DEF SenderInv, Contiguous, FrameEnd
<1>3. \A k \in DOMAIN frames' : FrameOK(frames'[k])
  BY DEF SenderInv
<1>4. QED
  BY <1>1, <1>2, <1>3 DEF SenderInv

(* A call that ends without its frame being complete has closed the        *)
(* connection, or nobody looked.                                           *)
LEMMA CallGivesUp ==
  ASSUME SenderInv, UNCHANGED <<dir, frames, wrote, calls>>, snd' \in {Idle, Dead}, open' \in BOOLEAN,
         ~open' \/ (open' = open /\ ~InCall) \/ (InCall /\ snd.packet.kind \in {"query", "reply"})
  PROVE  SenderInv'
<1>1. CallOK'
  BY DEF CallOK, InCall, Idle, Dead
<1>2. Settled'
  <2>1. SUFFICES ASSUME NEW k \in DOMAIN frames
                 PROVE  \/ frames[k].wrote = frames[k].packet.first + frames[k].packet.second
                        \/ frames[k].packet.kind \in {"query", "reply"}
                        \/ k = Len(frames) /\ ~open'
    BY DEF Settled, Complete
  <2>2. \/ frames[k].wrote = frames[k].packet.first + frames[k].packet.second
        \/ frames[k].packet.kind \in {"query", "reply"}
        \/ k = Len(frames) /\ (~open \/ (InCall /\ snd.begun))
    BY DEF SenderInv, Settled, Complete
  <2>3. InCall => open
    BY DEF SenderInv, CallOK
  <2>4. InCall /\ snd.begun => frames[Len(frames)].packet = snd.packet
    BY DEF SenderInv, CallOK
  <2>5. QED
    BY <2>2, <2>3, <2>4, Zenon
<1>3. calls' \in 0..MaxCalls
  BY DEF SenderInv, SenderType
<1>4. QED
  BY <1>1, <1>2, <1>3, NothingSent

LEMMA CallKeeps ==
  ASSUME SenderInv, NEW kind \in Kinds, NEW c \in Commands, SendCall(kind, c)
  PROVE  SenderInv'
<1>1. kind \in KindNames
  BY DEF Kinds, KindNames
<1>2. PICK p : p = Packet(kind, c)
  OBVIOUS
<1>3. PacketOK(p) /\ p.kind = kind /\ p \in PacketType /\ p.first = HeadPart(kind, c)
  <2>1. p.first = HeadPart(kind, c)
    BY <1>2, Zenon DEF Packet
  <2>2. QED
    BY <1>1, <1>2, <2>1, PacketSound DEF PacketOK
<1>4. /\ snd' = Sending("head", p, p.first, Retries, FALSE, FALSE)
      /\ snd = Idle /\ open /\ calls < MaxCalls /\ calls' = calls + 1
      /\ UNCHANGED <<dir, frames, wrote, open>>
  BY <1>2, <1>3, Zenon DEF SendCall
<1>5. p.first \in Nat \ {0} /\ Retries \in 0..Retries
  BY <1>3, FrameAssumption DEF PacketOK, PacketType
<1>6. /\ snd' \in CallType /\ snd'.at = "head" /\ snd'.packet = p /\ snd'.left = p.first
  BY <1>3, <1>4, <1>5 DEF Sending, CallType
<1>7. snd'.bad = FALSE /\ snd'.begun = FALSE
  BY <1>4, Zenon DEF Sending
<1>8. CallOK'
  <2>1. kind \in Kinds' /\ p.first <= p.first
    BY <1>4, <1>5 DEF Kinds
  <2>2. snd'.at # "body"
    BY <1>6
  <2>3. open'
    BY <1>4
  <2>4. QED
    BY <1>3, <1>6, <1>7, <2>1, <2>2, <2>3 DEF CallOK, PacketOK
<1>9. Settled'
  <2>1. ~InCall
    BY <1>4 DEF InCall, Idle
  <2>2. QED
    BY <1>4, <2>1 DEF SenderInv, Settled, Complete
<1>10. calls' \in 0..MaxCalls
  BY <1>4, FrameAssumption DEF SenderInv, SenderType
<1>11. open' \in BOOLEAN
  BY <1>4
<1>12. QED
  BY <1>4, <1>6, <1>8, <1>9, <1>10, <1>11, NothingSent

LEMMA RefusedKeeps ==
  ASSUME SenderInv, SendRefused
  PROVE  SenderInv'
<1>1. /\ snd \in CallType /\ snd.at \in {"head", "body"} /\ snd.packet \in PacketType
      /\ snd.left \in Nat \ {0} /\ snd.times \in 0..Retries /\ InCall
  BY CallIsTyped DEF SenderInv, SendRefused
<1>2. /\ UNCHANGED <<dir, calls, frames, wrote>>
      /\ IF snd.times > 0 THEN snd' = Retry(snd) /\ UNCHANGED open ELSE AfterPart(snd, FALSE)
  BY DEF SendRefused
<1>3. open /\ open \in BOOLEAN /\ calls' \in 0..MaxCalls
  BY <1>1, <1>2 DEF SenderInv, CallOK, SenderType
<1>4. /\ PacketOK(snd.packet) /\ snd.packet.kind \in Kinds' /\ snd.packet.second \in Nat
      /\ snd.at = "head" => ~snd.bad
  BY <1>1, <1>2 DEF SenderInv, CallOK, Kinds, PacketType
<1>5. CASE snd.times > 0
  <2>1. snd' = [snd EXCEPT !.times = @ - 1] /\ open' = open
    BY <1>2, <1>5 DEF Retry
  <2>2. /\ snd' \in CallType /\ snd'.at = snd.at /\ snd'.packet = snd.packet /\ snd'.left = snd.left
    <3>1. snd.times - 1 \in 0..Retries
      BY <1>1, <1>5, FrameAssumption
    <3>2. QED
      BY <1>1, <2>1, <3>1 DEF CallType
  <2>3. snd'.bad = snd.bad /\ snd'.begun = snd.begun
    BY <1>1, <2>1, Zenon DEF CallType
  <2>4. CallOK'
    BY <1>1, <1>2, <1>3, <1>4, <2>1, <2>2, <2>3 DEF SenderInv, CallOK
  <2>5. InCall' /\ snd'.begun = snd.begun
    BY <1>1, <2>2, <2>3 DEF InCall
  <2>6. Settled'
    BY <1>2, <2>1, <2>5 DEF SenderInv, Settled, Complete
  <2>7. QED
    BY <1>2, <1>3, <2>1, <2>2, <2>4, <2>6, NothingSent
<1>6. CASE ~(snd.times > 0)
  <2>1. Blunders(snd) \/ (Over(snd) /\ Unseen(snd))
    <3>1. Failed(snd)
      BY <1>2, <1>6, Zenon DEF Failed
    <3>2. QED
      BY <1>1, <3>1, FailedOutcome
  <2>2. CASE Blunders(snd)
    <3>1. PICK t \in 0..Retries : snd' = Sending("body", snd.packet, snd.packet.second, t, TRUE, snd.begun)
      BY <2>2 DEF Blunders
    <3>2. snd.at = "head" /\ snd.packet.second > 0 /\ open' = open
      BY <2>2 DEF Blunders
    <3>3. snd.begun \in BOOLEAN
      BY <1>1, Zenon DEF CallType
    <3>4. /\ snd' \in CallType /\ snd'.at = "body" /\ snd'.packet = snd.packet
          /\ snd'.left = snd.packet.second
      BY <1>1, <1>4, <3>1, <3>2, <3>3 DEF Sending, CallType
    <3>5. snd'.bad = TRUE /\ snd'.begun = snd.begun
      BY <3>1, Zenon DEF Sending
    <3>6. snd.begun => /\ frames # <<>> /\ frames[Len(frames)].packet = snd.packet
                       /\ frames[Len(frames)].wrote - frames[Len(frames)].head
                            = snd.packet.second - snd.packet.second
      <4> SUFFICES ASSUME snd.begun
                   PROVE  /\ frames # <<>> /\ frames[Len(frames)].packet = snd.packet
                          /\ frames[Len(frames)].wrote - frames[Len(frames)].head
                               = snd.packet.second - snd.packet.second
        OBVIOUS
      <4>1. /\ frames # <<>> /\ frames[Len(frames)].packet = snd.packet
            /\ frames[Len(frames)].wrote = frames[Len(frames)].head
        BY <1>1, <3>2 DEF SenderInv, CallOK
      <4>2. frames[Len(frames)].wrote \in Nat
        BY <4>1, LastFrame DEF SenderInv, FrameType
      <4>3. QED
        BY <1>4, <4>1, <4>2
    <3>7. CallOK'
      <4>1. snd.packet.second <= snd.packet.second
        BY <1>4
      <4>2. open' /\ snd'.at # "head"
        BY <1>3, <3>2, <3>4
      <4>3. frames' = frames
        BY <1>2
      <4>4. QED
        BY <1>4, <3>4, <3>5, <3>6, <4>1, <4>2, <4>3 DEF CallOK
    <3>8. InCall'
      BY <3>4 DEF InCall
    <3>9. Settled'
      BY <1>2, <3>2, <3>5, <3>8 DEF SenderInv, Settled, Complete
    <3>10. open' \in BOOLEAN
      BY <1>3, <3>2
    <3>11. QED
      BY <1>2, <1>3, <3>4, <3>7, <3>9, <3>10, NothingSent
  <2>3. CASE Over(snd) /\ Unseen(snd)
    BY <1>1, <1>2, <2>3, CallGivesUp DEF Over, Unseen
  <2>4. QED
    BY <2>1, <2>2, <2>3
<1>7. QED
  BY <1>5, <1>6

(* What the reader does leaves the sender alone. *)
LEMMA SenderRests ==
  ASSUME SenderInv, UNCHANGED senderVars
  PROVE  SenderInv'
<1>1. SenderType' /\ CallOK'
  BY DEF SenderInv, SenderType, CallOK, InCall, Kinds, senderVars
<1>2. Settled'
  BY DEF SenderInv, Settled, Complete, InCall, senderVars
<1>3. QED
  BY <1>1, <1>2, NothingSent DEF SenderType, senderVars

LEMMA SenderKeeps ==
  ASSUME SenderInv, [Next]_vars
  PROVE  SenderInv'
<1>1. CASE \E kind \in Kinds, c \in Commands : SendCall(kind, c)
  BY <1>1, CallKeeps
<1>2. CASE \E n \in 1..Capacity : SendTakes(n)
  BY <1>2, TakeKeeps
<1>3. CASE SendRefused
  BY <1>3, RefusedKeeps
<1>4. CASE SendKilled \/ SenderEnds
  <2>1. UNCHANGED <<dir, calls, frames, wrote>> /\ snd' = Dead /\ open' = FALSE
    BY <1>4 DEF SendKilled, SenderEnds
  <2>2. QED
    BY <2>1, CallGivesUp
<1>5. CASE (\E keep \in BOOLEAN : RecvCall(keep)) \/ ReaderStep \/ UNCHANGED vars
  <2>1. UNCHANGED senderVars
    BY <1>5 DEF RecvCall, ReaderStep, RecvTakes, RecvEmpty, RecvEof, vars, senderVars
  <2>2. QED
    BY <2>1, SenderRests
<1>6. QED
  BY <1>1, <1>2, <1>3, <1>4, <1>5 DEF Next, SenderStep

(* What a process sends is one frame after another, each a prefix of one   *)
(* packet, and a call knows how much of its frame is out.                  *)
THEOREM SenderInvariant == Spec => []SenderInv
<1>1. Init => SenderInv
  <2> SUFFICES ASSUME Init PROVE SenderInv
    OBVIOUS
  <2>1. SenderType
    BY EmptySeq, FrameAssumption DEF Init, SenderType
  <2>2. CallOK /\ Contiguous /\ Settled /\ \A k \in DOMAIN frames : FrameOK(frames[k])
    BY DEF Init, CallOK, InCall, Idle, Contiguous, Settled
  <2>3. QED
    BY <2>1, <2>2 DEF SenderInv
<1>2. SenderInv /\ [Next]_vars => SenderInv'
  BY SenderKeeps
<1>3. QED
  BY <1>1, <1>2, PTL DEF Spec

(* A broadcast that could not be sent whole, by ih_send_broadcast_data or  *)
(* by broadcast_cmd, is the last thing on its connection.                  *)
THEOREM CutsAreLast == Spec => []CutIsLast
<1>1. SenderInv => CutIsLast
  BY DEF SenderInv, SenderType, Settled, CutIsLast
<1>2. QED
  BY <1>1, SenderInvariant, PTL

-----------------------------------------------------------------------------
(* The steps of the reader. *)

LEMMA LeastOfTwo ==
  ASSUME NEW a \in Nat, NEW b \in Nat
  PROVE  Min({a, b}) \in {a, b} /\ Min({a, b}) <= a /\ Min({a, b}) <= b
<1>1. \E x \in {a, b} : \A y \in {a, b} : x <= y
  OBVIOUS
<1>2. QED
  BY <1>1 DEF Min

LEMMA ReadIsTyped ==
  ASSUME ReaderType, rcv.at \in {"head", "body"}
  PROVE  /\ rcv \in ReadType /\ rcv.left \in Nat \ {0} /\ rcv.times \in 0..Retries
         /\ rcv.from \in Nat /\ rcv.from <= read /\ rcv.len \in 0..(LenMod - 1)
  BY DEF ReaderType, Idle, Dead, ReadType

(* What the reader has when recv returned n bytes: more of the same part,  *)
(* a header, or a body.                                                    *)
Misses(n) ==
  /\ rcv' = [rcv EXCEPT !.left = @ - n] /\ delivered' = delivered
  /\ rcv.left - n \in Nat \ {0}

HasHead(n) ==
  /\ rcv.left = n /\ rcv.at = "head"
  /\ \E len \in GET_PROTOCOL_BODY_LEN(rcv.from) :
       \/ len = 0 /\ Deliver(rcv.from, 0)
       \/ /\ len > 0 /\ delivered' = delivered
          /\ rcv' = Reading("body", rcv.keep, rcv.from, len, len, rcv.times) \/ rcv' = Dead

HasBody(n) == rcv.left = n /\ rcv.at = "body" /\ Deliver(rcv.from, rcv.len)

LEMMA RecvTakesOutcome ==
  ASSUME SenderInv, ReaderType, RecvTakes
  PROVE  /\ UNCHANGED senderVars /\ lost' = lost
         /\ \E n \in Nat \ {0} :
              /\ n <= rcv.left /\ n <= wrote - read /\ read' = read + n
              /\ Misses(n) \/ HasHead(n) \/ HasBody(n)
<1>1. rcv.at \in {"head", "body"} /\ Available > 0
  BY DEF RecvTakes
<1>2. /\ rcv \in ReadType /\ rcv.left \in Nat \ {0} /\ rcv.len \in Nat
      /\ Available \in Nat \ {0} /\ Available = wrote - read
  BY <1>1, ReadIsTyped, FrameAssumption DEF ReaderType, Available
<1>3. PICK n : n = Taken(rcv)
  OBVIOUS
<1>4. n \in Nat \ {0} /\ n <= rcv.left /\ n <= Available
  BY <1>2, <1>3, LeastOfTwo DEF Taken
<1>5. PICK c : c = [rcv EXCEPT !.left = @ - n]
  OBVIOUS
<1>6. /\ c.left = rcv.left - n /\ c.at = rcv.at /\ c.keep = rcv.keep /\ c.from = rcv.from
      /\ c.len = rcv.len /\ c.times = rcv.times
  BY <1>2, <1>5 DEF ReadType
<1>7. /\ read' = read + n
      /\ \/ c.left > 0 /\ rcv' = c /\ UNCHANGED delivered
         \/ /\ c.left <= 0 /\ c.at = "head"
            /\ \E len \in GET_PROTOCOL_BODY_LEN(c.from) :
                 \/ len = 0 /\ Deliver(c.from, 0)
                 \/ /\ len > 0 /\ UNCHANGED delivered
                    /\ \/ rcv' = Reading("body", c.keep, c.from, len, len, c.times)
                       \/ len > Room /\ rcv' = Dead
         \/ c.left <= 0 /\ c.at = "body" /\ Deliver(c.from, c.len - c.left)
  BY <1>3, <1>5, Zenon DEF RecvTakes
<1>8. c.left <= 0 => rcv.left = n /\ c.len - c.left = rcv.len
  BY <1>2, <1>4, <1>6
<1>9. Misses(n) \/ HasHead(n) \/ HasBody(n)
  <2>1. CASE c.left > 0 /\ rcv' = c /\ UNCHANGED delivered
    BY <1>2, <1>4, <1>5, <1>6, <2>1 DEF Misses
  <2>2. CASE c.left <= 0 /\ c.at = "head"
             /\ \E len \in GET_PROTOCOL_BODY_LEN(c.from) :
                  \/ len = 0 /\ Deliver(c.from, 0)
                  \/ /\ len > 0 /\ UNCHANGED delivered
                     /\ \/ rcv' = Reading("body", c.keep, c.from, len, len, c.times)
                        \/ len > Room /\ rcv' = Dead
    BY <1>6, <1>8, <2>2, Zenon DEF HasHead
  <2>3. CASE c.left <= 0 /\ c.at = "body" /\ Deliver(c.from, c.len - c.left)
    BY <1>6, <1>8, <2>3, Zenon DEF HasBody
  <2>4. QED
    BY <1>7, <2>1, <2>2, <2>3
<1>10. UNCHANGED senderVars /\ lost' = lost
  BY DEF RecvTakes
<1>11. QED
  BY <1>2, <1>4, <1>7, <1>9, <1>10

LEMMA LengthInHeader ==
  ASSUME SenderInv, NEW from, NEW len \in GET_PROTOCOL_BODY_LEN(from)
  PROVE  len \in 0..(LenMod - 1)
<1>1. \A k \in DOMAIN frames : frames[k].packet.bodylen \in 0..(LenMod - 1)
  BY DEF SenderInv, FrameOK, PacketOK, PacketType
<1>2. QED
  BY <1>1 DEF GET_PROTOCOL_BODY_LEN

(* A reader that gives up. *)
LEMMA FailedIsTyped ==
  ASSUME ReaderType, RecvFails, UNCHANGED <<wrote, read>>, rcv \in ReadType
  PROVE  ReaderType'
<1>1. rcv' \in {Idle, Dead, [at |-> "closed"]} /\ delivered' = delivered
  BY DEF RecvFails
<1>2. rcv'.at \notin {"head", "body"}
  BY <1>1 DEF Idle, Dead
<1>3. lost' \in BOOLEAN
  BY Zenon DEF RecvFails, ReaderType
<1>4. QED
  BY <1>1, <1>2, <1>3 DEF ReaderType

LEMMA TakesIsTyped ==
  ASSUME SenderInv, ReaderType, RecvTakes
  PROVE  ReaderType'
<1>1. PICK n \in Nat \ {0} : /\ n <= rcv.left /\ n <= wrote - read /\ read' = read + n
                             /\ Misses(n) \/ HasHead(n) \/ HasBody(n)
  BY RecvTakesOutcome
<1>2. wrote' = wrote /\ lost' = lost /\ lost \in BOOLEAN
  BY RecvTakesOutcome DEF senderVars, ReaderType
<1>3. /\ rcv \in ReadType /\ rcv.left \in Nat \ {0} /\ rcv.from \in Nat /\ rcv.from <= read
      /\ rcv.len \in 0..(LenMod - 1) /\ rcv.times \in 0..Retries /\ LenMod \in Nat \ {0}
      /\ read \in Nat /\ delivered \in Seq([at : Nat, len : Nat])
  BY ReadIsTyped, FrameAssumption DEF RecvTakes, ReaderType
<1>4. read' \in Nat /\ wrote' - read' \in 0..Capacity /\ rcv.from <= read'
  <2>1. wrote \in Nat /\ wrote - read \in 0..Capacity /\ Capacity \in Nat /\ wrote' = wrote
    BY <1>2, FrameAssumption DEF ReaderType, SenderInv, SenderType
  <2>2. n \in Nat \ {0} /\ n <= wrote - read /\ read' = read + n
    BY <1>1
  <2>3. QED
    BY <1>3, <2>1, <2>2
<1>5. ASSUME NEW len \in Nat, Deliver(rcv.from, len)
      PROVE  ReaderType'
  <2>1. rcv' = Idle /\ delivered' \in Seq([at : Nat, len : Nat])
    BY <1>3, <1>5 DEF Deliver
  <2>2. rcv'.at \notin {"head", "body"}
    BY <2>1 DEF Idle
  <2>3. QED
    BY <1>2, <1>4, <2>1, <2>2 DEF ReaderType
<1>6. ASSUME rcv' = Dead, delivered' = delivered
      PROVE  ReaderType'
  <2>1. rcv'.at \notin {"head", "body"}
    BY <1>6 DEF Dead
  <2>2. QED
    BY <1>2, <1>3, <1>4, <1>6, <2>1 DEF ReaderType
<1>7. ASSUME rcv' \in ReadType, rcv'.from = rcv.from, delivered' = delivered
      PROVE  ReaderType'
  BY <1>2, <1>3, <1>4, <1>7 DEF ReaderType
<1>8. CASE Misses(n)
  <2>1. rcv' = [rcv EXCEPT !.left = rcv.left - n] /\ delivered' = delivered /\ rcv.left - n \in Nat \ {0}
    BY <1>8, Zenon DEF Misses
  <2>2. rcv' \in ReadType /\ rcv'.from = rcv.from
    BY <1>3, <2>1 DEF ReadType
  <2>3. QED
    BY <1>7, <2>1, <2>2
<1>9. CASE HasHead(n)
  <2>1. PICK len \in GET_PROTOCOL_BODY_LEN(rcv.from) :
          \/ len = 0 /\ Deliver(rcv.from, 0)
          \/ /\ len > 0 /\ delivered' = delivered
             /\ rcv' = Reading("body", rcv.keep, rcv.from, len, len, rcv.times) \/ rcv' = Dead
    BY <1>9 DEF HasHead
  <2>2. len \in 0..(LenMod - 1) /\ len \in Nat
    BY <1>3, LengthInHeader
  <2>3. rcv.keep \in BOOLEAN
    BY <1>3, Zenon DEF ReadType
  <2>4. CASE len > 0 /\ rcv' = Reading("body", rcv.keep, rcv.from, len, len, rcv.times)
    <3>1. rcv' \in ReadType /\ rcv'.from = rcv.from
      BY <1>3, <2>2, <2>3, <2>4 DEF Reading, ReadType
    <3>2. delivered' = delivered
      BY <2>1, <2>2, <2>4
    <3>3. QED
      BY <1>7, <3>1, <3>2
  <2>5. QED
    BY <1>5, <1>6, <2>1, <2>2, <2>4
<1>10. CASE HasBody(n)
  <2>1. rcv.len \in Nat /\ Deliver(rcv.from, rcv.len)
    BY <1>3, <1>10 DEF HasBody
  <2>2. QED
    BY <1>5, <2>1
<1>11. QED
  BY <1>1, <1>8, <1>9, <1>10

LEMMA ReaderKeeps ==
  ASSUME SenderInv, ReaderType, [Next]_vars
  PROVE  ReaderType'
<1>1. read \in Nat /\ wrote \in Nat /\ wrote - read \in 0..Capacity /\ Capacity \in Nat /\ lost \in BOOLEAN
  BY FrameAssumption DEF ReaderType, SenderInv, SenderType
<1>2. CASE UNCHANGED <<rcv, read, delivered, lost>> /\ wrote' - read' \in 0..Capacity
  BY <1>2 DEF ReaderType
<1>3. ASSUME NEW n \in 1..Capacity, SendTakes(n)
      PROVE  ReaderType'
  <2>1. n \in Nat /\ UNCHANGED <<rcv, read, delivered, lost>> /\ wrote' = wrote + n /\ wrote - read + n <= Capacity
    BY <1>1, <1>3 DEF SendTakes, readerVars
  <2>2. QED
    BY <1>1, <1>2, <2>1
<1>4. CASE \/ \E kind \in Kinds, c \in Commands : SendCall(kind, c)
           \/ SendRefused \/ SendKilled \/ SenderEnds \/ UNCHANGED vars
  <2>1. UNCHANGED <<rcv, read, delivered, lost, wrote>>
    BY <1>4 DEF SendCall, SendRefused, SendKilled, SenderEnds, vars, readerVars
  <2>2. QED
    BY <1>1, <1>2, <2>1
<1>5. ASSUME NEW keep \in BOOLEAN, RecvCall(keep)
      PROVE  ReaderType'
  <2>1. rcv' = Reading("head", keep, read, HeadLen, 0, Retries) /\ UNCHANGED <<wrote, read, delivered, lost>>
    BY <1>5 DEF RecvCall, senderVars
  <2>2. rcv' \in ReadType /\ rcv'.from = read
    BY <1>1, <2>1, FrameAssumption DEF Reading, ReadType
  <2>3. read <= read
    BY <1>1
  <2>4. QED
    BY <2>1, <2>2, <2>3 DEF ReaderType
<1>6. CASE RecvTakes
  BY <1>6, TakesIsTyped
<1>7. CASE RecvEmpty \/ RecvEof
  <2>1. rcv \in ReadType /\ rcv.times \in 0..Retries /\ rcv.from <= read /\ UNCHANGED <<wrote, read>>
    BY <1>7, ReadIsTyped DEF RecvEmpty, RecvEof, senderVars
  <2>2. CASE RecvFails
    BY <2>1, <2>2, FailedIsTyped
  <2>3. CASE rcv.times > 0 /\ rcv' = Retry(rcv) /\ UNCHANGED <<delivered, lost>>
    <3>1. rcv' = [rcv EXCEPT !.times = rcv.times - 1] /\ rcv.times - 1 \in 0..Retries
      BY <2>1, <2>3, FrameAssumption DEF Retry
    <3>2. rcv' \in ReadType /\ rcv'.from = rcv.from
      BY <2>1, <3>1 DEF ReadType
    <3>3. QED
      BY <2>1, <2>3, <3>2 DEF ReaderType
  <2>4. QED
    BY <1>7, <2>2, <2>3 DEF RecvEmpty, RecvEof
<1>8. QED
  BY <1>3, <1>4, <1>5, <1>6, <1>7 DEF Next, SenderStep, ReaderStep

(* A call of tcp_recv_protocol_cmd started at a byte it has since read     *)
(* past, still misses at least one byte, and never reads more than was     *)
(* sent.                                                                   *)
THEOREM ReaderInvariant == Spec => []ReaderType
<1>1. Init => ReaderType
  <2> SUFFICES ASSUME Init PROVE ReaderType
    OBVIOUS
  <2>1. rcv = Idle /\ rcv.at \notin {"head", "body"} /\ read = 0 /\ wrote = 0 /\ delivered = <<>>
    BY DEF Init, Idle
  <2>2. lost \in BOOLEAN
    BY DEF Init
  <2>3. QED
    BY <2>1, <2>2, EmptySeq, FrameAssumption DEF ReaderType
<1>2. SenderInv /\ ReaderType /\ [Next]_vars => ReaderType'
  BY ReaderKeeps
<1>3. QED
  BY <1>1, <1>2, SenderInvariant, PTL DEF Spec

(* Neither a send nor a receive is ever asked for fewer than one byte or   *)
(* for more than are missing, no retry count goes below zero, and the      *)
(* socket buffer never holds more than it can.                             *)
THEOREM FrameTypes == Spec => []FrameTypeOK
<1>1. SenderInv /\ ReaderType => FrameTypeOK
  <2> SUFFICES ASSUME SenderInv, ReaderType PROVE FrameTypeOK
    OBVIOUS
  <2>1. dir \in {"up", "down"} /\ open \in BOOLEAN /\ lost \in BOOLEAN
    BY DEF SenderInv, SenderType, ReaderType
  <2>2. snd \in {Idle, Dead} \/
          /\ snd.at \in {"head", "body"} /\ snd.packet.kind \in Kinds
          /\ snd.left \in Nat \ {0} /\ snd.times \in 0..Retries /\ {snd.bad, snd.begun} \subseteq BOOLEAN
    <3>1. CASE snd \in CallType
      <4>1. snd.at \in {"head", "body"} /\ snd.left \in Nat \ {0} /\ snd.times \in 0..Retries
        BY <3>1 DEF CallType
      <4>2. snd.bad \in BOOLEAN /\ snd.begun \in BOOLEAN
        BY <3>1, Zenon DEF CallType
      <4>3. snd.packet.kind \in Kinds
        BY <4>1 DEF SenderInv, CallOK, InCall
      <4>4. QED
        BY <4>1, <4>2, <4>3, Zenon
    <3>2. QED
      BY <3>1 DEF SenderInv, SenderType
  <2>3. rcv \in {Idle, Dead, [at |-> "closed"]} \/
          /\ rcv.at \in {"head", "body"} /\ rcv.keep \in BOOLEAN /\ rcv.times \in 0..Retries
          /\ rcv.from \in 0..read /\ rcv.left \in Nat \ {0} /\ rcv.len \in 0..(LenMod - 1)
    <3>1. CASE rcv \in ReadType
      <4>1. rcv.at \in {"head", "body"} /\ rcv.times \in 0..Retries /\ rcv.from \in Nat
            /\ rcv.left \in Nat \ {0} /\ rcv.len \in 0..(LenMod - 1)
        BY <3>1 DEF ReadType
      <4>2. rcv.keep \in BOOLEAN
        BY <3>1, Zenon DEF ReadType
      <4>3. rcv.from \in 0..read
        BY <4>1 DEF ReaderType
      <4>4. QED
        BY <4>1, <4>2, <4>3, Zenon
    <3>2. QED
      BY <3>1 DEF ReaderType
  <2>4. calls \in 0..MaxCalls /\ read \in Nat /\ wrote \in Nat /\ wrote - read \in 0..Capacity
    BY DEF SenderInv, SenderType, ReaderType
  <2>5. QED
    BY <2>1, <2>2, <2>3, <2>4, Zenon DEF FrameTypeOK
<1>2. QED
  BY <1>1, SenderInvariant, ReaderInvariant, PTL

-----------------------------------------------------------------------------
(* Where the frames lie. *)

(* A reader in the body of a frame has the header behind it. *)
LEMMA PastHeader ==
  \A r, s, w, b, l, x \in Nat : r = s + b + l - x /\ x <= l /\ r <= s + w => w >= b
OBVIOUS

LEMMA FrameNumbers ==
  ASSUME SenderInv, NEW k \in DOMAIN frames
  PROVE  /\ k \in Nat \ {0} /\ k <= Len(frames) /\ Len(frames) \in Nat
         /\ frames[k] \in FrameType /\ frames[k].packet \in PacketType
         /\ frames[k].start \in Nat /\ frames[k].head \in Nat /\ frames[k].wrote \in Nat \ {0}
         /\ frames[k].packet.first \in Nat /\ frames[k].packet.second \in Nat
         /\ frames[k].packet.meant \in Nat /\ frames[k].packet.bodylen \in 0..(LenMod - 1)
         /\ FrameEnd(k) = frames[k].start + frames[k].wrote
<1>1. frames \in Seq(FrameType)
  BY DEF SenderInv, SenderType
<1>2. k \in Nat \ {0} /\ k <= Len(frames) /\ Len(frames) \in Nat /\ frames[k] \in FrameType
  BY <1>1
<1>3. QED
  BY <1>2 DEF FrameType, PacketType, FrameEnd

LEMMA EndsAreWritten ==
  ASSUME SenderInv, Ordered, NEW k \in DOMAIN frames
  PROVE  FrameEnd(k) <= wrote
<1>1. frames # <<>> /\ Len(frames) \in DOMAIN frames
  BY DEF SenderInv, SenderType
<1>2. wrote = FrameEnd(Len(frames))
  BY <1>1 DEF SenderInv, Contiguous
<1>3. k < Len(frames) => FrameEnd(k) <= frames[Len(frames)].start
  BY <1>1 DEF Ordered
<1>4. QED
  BY <1>1, <1>2, <1>3, FrameNumbers

LEMMA OrderedKeeps ==
  ASSUME SenderInv, Ordered, NEW n \in 1..Capacity, SendTakes(n)
  PROVE  Ordered'
<1>1. PICK L : L = Len(frames')
  OBVIOUS
<1>2. /\ L = Len(frames) + (IF snd.begun THEN 0 ELSE 1) /\ DOMAIN frames' = 1..L
      /\ \A k \in DOMAIN frames' : k # L => k \in DOMAIN frames /\ frames'[k] = frames[k]
      /\ Len(frames) \in Nat /\ DOMAIN frames = 1..Len(frames) /\ L \in Nat
  BY <1>1, FramesGrow DEF SenderInv, SenderType
<1>3. SUFFICES ASSUME NEW j \in DOMAIN frames', NEW k \in DOMAIN frames', j < k
               PROVE  frames'[j].start + frames'[j].wrote <= frames'[k].start
  BY DEF Ordered, FrameEnd
<1>4. j # L /\ j \in DOMAIN frames /\ frames'[j] = frames[j]
  <2>1. j # L
    <3>1. L \in Nat /\ j \in 1..L /\ k \in 1..L
      BY <1>2, <1>3, Zenon
    <3>2. QED
      BY <1>3, <3>1
  <2>2. QED
    BY <1>2, <2>1
<1>5. CASE k # L
  BY <1>2, <1>3, <1>4, <1>5 DEF Ordered, FrameEnd
<1>6. CASE k = L /\ snd.begun
  <2>1. k = Len(frames) /\ k \in DOMAIN frames
    BY <1>2, <1>6
  <2>2. frames'[k].start = frames[k].start
    BY <1>1, <1>6, <2>1, FramesGrow DEF Grown
  <2>3. QED
    BY <1>3, <1>4, <2>1, <2>2 DEF Ordered, FrameEnd
<1>7. CASE k = L /\ ~snd.begun
  <2>1. frames'[k].start = wrote
    BY <1>1, <1>7, FramesGrow DEF Grown
  <2>2. QED
    BY <1>4, <2>1, EndsAreWritten DEF FrameEnd
<1>8. QED
  BY <1>5, <1>6, <1>7

(* The frames that ih_send_broadcast_data, broadcast_cmd and the query     *)
(* calls put on a stream never overlap: later ones lie behind earlier ones.*)
THEOREM OrderInvariant == Spec => []Ordered
<1>1. Init => Ordered
  BY DEF Init, Ordered
<1>2. SenderInv /\ Ordered /\ [Next]_vars => Ordered'
  <2> SUFFICES ASSUME SenderInv, Ordered, [Next]_vars PROVE Ordered'
    OBVIOUS
  <2>1. CASE \E n \in 1..Capacity : SendTakes(n)
    BY <2>1, OrderedKeeps
  <2>2. CASE UNCHANGED frames
    BY <2>2 DEF Ordered, FrameEnd
  <2>3. QED
    BY <2>1, <2>2 DEF Next, SenderStep, ReaderStep, SendCall, SendRefused, SendKilled, SenderEnds,
                      RecvCall, RecvTakes, RecvEmpty, RecvEof, senderVars, vars
<1>3. QED
  BY <1>1, <1>2, SenderInvariant, PTL DEF Spec

(* The frame after frame d. *)
LEMMA NextFrame ==
  ASSUME SenderInv, NEW d \in Nat, d <= Len(frames)
  PROVE  /\ After(d) \in Nat /\ Len(frames) \in Nat
         /\ d = Len(frames) => wrote = After(d)
         /\ d < Len(frames) => d + 1 \in DOMAIN frames /\ frames[d + 1].start = After(d)
<1>1. frames \in Seq(FrameType) /\ Len(frames) \in Nat /\ DOMAIN frames = 1..Len(frames)
  BY DEF SenderInv, SenderType
<1>2. CASE d = 0
  <2>1. After(d) = 0
    BY <1>2 DEF After
  <2>2. d = Len(frames) => frames = <<>>
    BY <1>1, <1>2, EmptySeq
  <2>3. d < Len(frames) => frames # <<>> /\ d + 1 = 1 /\ 1 \in DOMAIN frames
    BY <1>1, <1>2
  <2>4. frames # <<>> => frames[1].start = 0
    BY DEF SenderInv, Contiguous
  <2>5. frames = <<>> => wrote = 0
    BY DEF SenderInv, Contiguous
  <2>6. d < Len(frames) => frames[d + 1].start = 0
    BY <2>3, <2>4
  <2>7. QED
    BY <1>1, <1>2, <2>1, <2>2, <2>3, <2>5, <2>6
<1>3. CASE d > 0
  <2>1. d \in DOMAIN frames /\ frames # <<>> /\ After(d) = FrameEnd(d)
    BY <1>1, <1>3 DEF After
  <2>2. FrameEnd(d) \in Nat
    BY <2>1, FrameNumbers
  <2>3. d < Len(frames) => d + 1 \in DOMAIN frames /\ d + 1 > 1 /\ (d + 1) - 1 = d
    BY <1>1, <1>3
  <2>4. QED
    BY <1>1, <2>1, <2>2, <2>3 DEF SenderInv, Contiguous
<1>4. QED
  BY <1>2, <1>3

(* The header found behind frame d is that of frame d + 1. *)
LEMMA HeaderIsNext ==
  ASSUME SenderInv, Ordered, NEW d \in Nat, d < Len(frames), frames[d + 1].head >= HeadLen,
         NEW len \in GET_PROTOCOL_BODY_LEN(After(d))
  PROVE  len = frames[d + 1].packet.bodylen
<1>1. d + 1 \in DOMAIN frames /\ frames[d + 1].start = After(d)
  BY NextFrame DEF SenderInv, SenderType
<1>2. \A k \in DOMAIN frames : frames[k].start = After(d) => k = d + 1
  <2> SUFFICES ASSUME NEW k \in DOMAIN frames, frames[k].start = After(d), k # d + 1
               PROVE  FALSE
    OBVIOUS
  <2>1. k < d + 1 \/ d + 1 < k
    BY FrameNumbers
  <2>2. FrameEnd(k) <= frames[d + 1].start \/ FrameEnd(d + 1) <= frames[k].start
    BY <1>1, <2>1 DEF Ordered
  <2>3. QED
    BY <1>1, <2>2, FrameNumbers
<1>3. QED
  BY <1>1, <1>2 DEF GET_PROTOCOL_BODY_LEN

-----------------------------------------------------------------------------
(* What was delivered stays as it was sent. *)

(* A call goes on while its frame is not complete. *)
LEMMA CallIsCut ==
  ASSUME SenderInv, InCall, snd.begun
  PROVE  frames # <<>> /\ ~Complete(Len(frames))
<1>1. frames # <<>> /\ Len(frames) \in DOMAIN frames
  BY LastFrame DEF SenderInv, CallOK
<1> DEFINE f == frames[Len(frames)]
<1>2. /\ f.wrote \in Nat /\ f.head \in Nat /\ f.packet = snd.packet
      /\ f.packet.first \in Nat /\ f.packet.second \in Nat /\ snd.left \in Nat \ {0}
      /\ f.head <= f.packet.first /\ snd.at \in {"head", "body"}
  <2>1. f.packet = snd.packet /\ f.head <= f.packet.first
    BY <1>1 DEF SenderInv, CallOK, FrameOK
  <2>2. QED
    BY <1>1, <2>1, FrameNumbers, CallIsTyped DEF SenderInv
<1>3. CASE snd.at = "head"
  <2>1. f.wrote = f.packet.first - snd.left
    BY <1>3 DEF SenderInv, CallOK
  <2> HIDE DEF f
  <2>2. f.wrote # f.packet.first + f.packet.second
    BY <1>2, <2>1
  <2>3. QED
    BY <1>1, <2>2 DEF Complete, f
<1>4. CASE snd.at = "body"
  <2>1. f.wrote - f.head = f.packet.second - snd.left
    BY <1>4 DEF SenderInv, CallOK
  <2> HIDE DEF f
  <2>2. f.wrote # f.packet.first + f.packet.second
    BY <1>2, <2>1
  <2>3. QED
    BY <1>1, <2>2 DEF Complete, f
<1>5. QED
  BY <1>2, <1>3, <1>4

(* Sending leaves complete frames alone, and no frame becomes fine by it.  *)
LEMMA OldFrames ==
  ASSUME SenderInv, NEW n \in 1..Capacity, SendTakes(n), NEW k \in DOMAIN frames
  PROVE  /\ k \in DOMAIN frames' /\ k <= Len(frames')
         /\ Complete(k) => frames'[k] = frames[k]
         /\ Fine(k)' => Fine(k)
         /\ \/ frames'[k] = frames[k]
            \/ /\ k = Len(frames) /\ InCall /\ snd.begun /\ Grown(frames'[k], n)
               /\ snd.at = "head" => frames[k].head = frames[k].wrote
<1>1. PICK L : L = Len(frames')
  OBVIOUS
<1>2. /\ L = Len(frames) + (IF snd.begun THEN 0 ELSE 1) /\ DOMAIN frames' = 1..L /\ L \in Nat
      /\ \A j \in DOMAIN frames' : j # L => j \in DOMAIN frames /\ frames'[j] = frames[j]
      /\ Len(frames) \in Nat /\ DOMAIN frames = 1..Len(frames)
  BY <1>1, FramesGrow DEF SenderInv, SenderType
<1>3. /\ k \in 1..Len(frames) /\ Len(frames) \in Nat /\ L \in Nat /\ InCall
      /\ snd.begun => L = Len(frames)
      /\ ~snd.begun => L = Len(frames) + 1
  <2>1. k \in 1..Len(frames) /\ Len(frames) \in Nat /\ L \in Nat /\ InCall
    BY <1>2, Zenon DEF SendTakes
  <2>2. (snd.begun => L = Len(frames) + 0) /\ (~snd.begun => L = Len(frames) + 1)
    BY <1>2, Zenon
  <2>3. Len(frames) + 0 = Len(frames)
    BY <2>1
  <2>4. QED
    BY <2>1, <2>2, <2>3, Zenon
<1>4. k \in DOMAIN frames' /\ k <= L /\ k \in Nat /\ L \in Nat
  <2>1. k \in 1..L /\ k \in Nat /\ k <= L
    BY <1>3
  <2>2. QED
    BY <1>2, <1>3, <2>1, Zenon
<1>5. CASE k # L
  <2>1. frames'[k] = frames[k] /\ k < L
    <3>1. k < L
      BY <1>4, <1>5
    <3>2. QED
      BY <1>2, <1>4, <1>5, <3>1, Zenon
  <2>2. Fine(k)' => frames[k].packet.fits
    BY <2>1, Zenon DEF Fine
  <2>3. Fine(k)' => (frames[k].wrote >= HeadLen => frames[k].head >= HeadLen) /\ Complete(k)
    BY <1>1, <2>1 DEF Fine, Complete
  <2>4. Fine(k)' => Fine(k)
    BY <2>2, <2>3 DEF Fine
  <2>5. QED
    BY <1>1, <1>4, <2>1, <2>4
<1>6. CASE k = L
  <2>1. snd.begun /\ k = Len(frames)
    <3>1. L # Len(frames) + 1
      BY <1>3, <1>6
    <3>2. QED
      BY <1>3, <1>6, <3>1, Zenon
  <2> DEFINE g == frames'[k]
  <2>2. /\ g.packet = snd.packet /\ g.wrote = frames[k].wrote + n
        /\ g.head = frames[k].head + (IF snd.at = "head" THEN n ELSE 0)
    BY <1>1, <1>6, <2>1, FramesGrow DEF Grown
  <2>3. frames[k].packet = snd.packet /\ (snd.at = "head" => frames[k].head = frames[k].wrote)
    BY <1>3, <2>1 DEF SenderInv, CallOK
  <2>4. ~Complete(k)
    BY <1>3, <2>1, CallIsCut
  <2>5. /\ frames[k].wrote \in Nat /\ frames[k].head \in Nat /\ n \in Nat /\ HeadLen \in Nat
        /\ snd.at \in {"head", "body"}
    <3>1. snd.at \in {"head", "body"}
      BY <1>3 DEF InCall
    <3>2. n \in Nat /\ HeadLen \in Nat
      BY FrameAssumption
    <3>3. QED
      BY <3>1, <3>2, FrameNumbers
  <2>6. (g.wrote >= HeadLen => g.head >= HeadLen) => (frames[k].wrote >= HeadLen => frames[k].head >= HeadLen)
    BY <2>2, <2>3, <2>5
  <2>7. Fine(k)' => frames[k].packet.fits
    BY <2>2, <2>3, Zenon DEF Fine
  <2>8. ~(k < Len(frames))
    BY <1>3, <2>1
  <2>9. Fine(k)' => Fine(k)
    BY <2>6, <2>7, <2>8 DEF Fine
  <2>10. QED
    BY <1>1, <1>3, <1>4, <1>6, <2>1, <2>3, <2>4, <2>9, FramesGrow
<1>7. QED
  BY <1>5, <1>6

LEMMA FineBefore ==
  ASSUME SenderInv, NEW n \in 1..Capacity, SendTakes(n), NEW i, FineTo(i)'
  PROVE  FineTo(i)
  BY OldFrames DEF FineTo

(* The place of frame d stays what it is once it was delivered. *)
LEMMA PlaceStays ==
  ASSUME SenderInv, NEW n \in 1..Capacity, SendTakes(n), NEW d \in Nat,
         d > 0 => d <= Len(frames) /\ Complete(d)
  PROVE  After(d)' = After(d) /\ d <= Len(frames)
<1>1. Len(frames) \in Nat /\ DOMAIN frames = 1..Len(frames)
  BY DEF SenderInv, SenderType
<1>2. CASE d = 0
  BY <1>1, <1>2 DEF After
<1>3. CASE d > 0
  <2>1. d \in DOMAIN frames /\ Complete(d)
    BY <1>1, <1>3
  <2>2. frames'[d] = frames[d]
    BY <2>1, OldFrames
  <2>3. QED
    BY <1>3, <2>2 DEF After, FrameEnd
<1>4. QED
  BY <1>2, <1>3

LEMMA TakeIntact ==
  ASSUME SenderInv, Ordered, ReaderType, IntactInv, NEW n \in 1..Capacity, SendTakes(n)
  PROVE  IntactInv'
<1>1. UNCHANGED <<rcv, read, delivered, lost>>
  BY DEF SendTakes, readerVars
<1>2. PICK d : d = Len(delivered)
  OBVIOUS
<1>3. d \in Nat /\ DOMAIN delivered = 1..d
  BY <1>2 DEF ReaderType
<1>4. SUFFICES ASSUME ~lost
               PROVE  /\ \A i \in DOMAIN delivered : FineTo(i)' => Delivered(i)'
                      /\ FineTo(d)' => InPlace(d)'
  BY <1>1, <1>2 DEF IntactInv
<1>5. /\ \A i \in DOMAIN delivered : FineTo(i) => Delivered(i)
      /\ FineTo(d) => InPlace(d)
  BY <1>2, <1>4 DEF IntactInv
<1>6. Len(frames) \in Nat /\ DOMAIN frames = 1..Len(frames)
  BY DEF SenderInv, SenderType
<1>7. ASSUME NEW i \in DOMAIN delivered, FineTo(i)'
      PROVE  Delivered(i)'
  <2>1. Delivered(i)
    BY <1>5, <1>7, FineBefore
  <2>2. i \in DOMAIN frames
    BY <1>3, <1>6, <2>1 DEF Delivered
  <2>3. frames'[i] = frames[i] /\ i <= Len(frames')
    BY <2>1, <2>2, OldFrames DEF Delivered
  <2>4. QED
    BY <1>1, <2>1, <2>3 DEF Delivered, Complete
<1>8. ASSUME FineTo(d)'
      PROVE  InPlace(d)'
  <2>1. FineTo(d) /\ InPlace(d)
    BY <1>5, <1>8, FineBefore
  <2>2. d > 0 => d <= Len(frames) /\ Complete(d)
    BY <1>3, <1>5, <2>1 DEF Delivered
  <2>3. After(d)' = After(d) /\ d <= Len(frames)
    BY <1>3, <2>2, PlaceStays
  <2>4. ASSUME rcv.at = "body"
        PROVE  d < Len(frames') /\ (frames'[d + 1].head >= HeadLen => rcv.len = frames'[d + 1].packet.bodylen)
    <3>1. /\ rcv.from = After(d) /\ read = rcv.from + HeadLen + rcv.len - rcv.left
          /\ d < Len(frames) /\ rcv.left <= rcv.len
          /\ frames[d + 1].head >= HeadLen => rcv.len = frames[d + 1].packet.bodylen
      BY <2>1, <2>4 DEF InPlace
    <3>2. d + 1 \in DOMAIN frames /\ frames[d + 1].start = After(d) /\ After(d) \in Nat
      BY <1>3, <2>3, <3>1, NextFrame
    <3>3. d < Len(frames')
      <4>1. d + 1 \in DOMAIN frames' /\ frames' \in Seq(FrameType)
        BY <3>2, OldFrames, FramesGrow
      <4>2. QED
        BY <1>3, <4>1
    <3>4. CASE frames'[d + 1] = frames[d + 1]
      BY <3>1, <3>3, <3>4
    <3>5. CASE /\ d + 1 = Len(frames) /\ InCall /\ snd.begun /\ Grown(frames'[d + 1], n)
               /\ snd.at = "head" => frames[d + 1].head = frames[d + 1].wrote
      <4> DEFINE f == frames[d + 1]
                 g == frames'[d + 1]
      <4>1. g.packet = f.packet
        BY <3>5 DEF Grown, SenderInv, CallOK
      <4>2. /\ f.head \in Nat /\ f.wrote \in Nat /\ f.start \in Nat
            /\ rcv.len \in Nat /\ rcv.left \in Nat /\ HeadLen \in Nat /\ read \in Nat /\ wrote \in Nat
        BY <2>4, <3>2, FrameNumbers, ReadIsTyped, FrameAssumption DEF ReaderType, SenderInv, SenderType
      <4>3. read <= wrote /\ wrote = f.start + f.wrote
        <5>1. read <= wrote
          BY <4>2, FrameAssumption DEF ReaderType
        <5>2. frames # <<>>
          BY <3>5 DEF SenderInv, CallOK
        <5>3. QED
          BY <3>5, <5>1, <5>2 DEF SenderInv, Contiguous, FrameEnd
      <4> HIDE DEF f
      <4>4. f.wrote >= HeadLen
        <5>1. read = f.start + HeadLen + rcv.len - rcv.left /\ rcv.left <= rcv.len
          BY <3>1, <3>2 DEF f
        <5>2. read <= f.start + f.wrote
          BY <4>3
        <5>3. QED
          BY <4>2, <5>1, <5>2, PastHeader
      <4>5. CASE snd.at = "head"
        BY <3>1, <3>3, <3>5, <4>1, <4>4, <4>5 DEF f
      <4>6. CASE snd.at # "head"
        <5>1. g.head = f.head + 0
          BY <3>5, <4>6 DEF Grown, f
        <5>2. g.head = f.head
          BY <4>2, <5>1
        <5>3. QED
          BY <3>1, <3>3, <4>1, <5>2 DEF f
      <4>7. QED
        BY <4>5, <4>6
    <3>6. QED
      BY <3>2, <3>4, <3>5, OldFrames
  <2>5. QED
    BY <1>1, <2>1, <2>3, <2>4 DEF InPlace
<1>9. QED
  BY <1>7, <1>8

(* Behind frame d lies the header of frame d + 1, when it is fine and as   *)
(* many bytes are there.                                                   *)
LEMMA HeaderBehind ==
  ASSUME SenderInv, NEW d \in Nat, d <= Len(frames), After(d) + HeadLen <= wrote,
         FineTo(d + 1)
  PROVE  /\ d < Len(frames) /\ d + 1 \in DOMAIN frames
         /\ frames[d + 1].head >= HeadLen /\ frames[d + 1].packet.bodylen = frames[d + 1].packet.meant
         /\ After(d) + HeadLen + frames[d + 1].packet.meant <= wrote =>
              /\ Complete(d + 1)
              /\ FrameEnd(d + 1) = After(d) + HeadLen + frames[d + 1].packet.meant
<1>1. d < Len(frames) /\ d + 1 \in DOMAIN frames /\ frames[d + 1].start = After(d) /\ After(d) \in Nat
  <2>1. After(d) \in Nat /\ HeadLen \in Nat \ {0} /\ wrote \in Nat /\ Len(frames) \in Nat
    BY NextFrame, FrameAssumption DEF SenderInv, SenderType
  <2>2. d # Len(frames)
    BY <2>1, NextFrame
  <2>3. d < Len(frames)
    BY <2>1, <2>2
  <2>4. QED
    BY <2>1, <2>3, NextFrame
<1>2. PICK f : f = frames[d + 1]
  OBVIOUS
<1>3. PICK p : p = f.packet
  OBVIOUS
<1>4. /\ p.first \in Nat /\ p.second \in Nat /\ p.meant \in Nat /\ f.head \in Nat /\ f.wrote \in Nat
      /\ f.start = After(d) /\ FrameEnd(d + 1) = After(d) + f.wrote /\ HeadLen \in Nat
      /\ Len(frames) \in Nat /\ wrote \in Nat
  BY <1>1, <1>2, <1>3, FrameNumbers, FrameAssumption DEF SenderInv, SenderType
<1>5. Fine(d + 1)
  <2>1. d + 1 \in 1..(d + 1)
    OBVIOUS
  <2>2. QED
    BY <1>1, <2>1 DEF FineTo
<1>6. p.first >= HeadLen /\ p.bodylen = p.meant /\ HeadLen + p.meant = p.first + p.second
  BY <1>1, <1>2, <1>3, <1>5 DEF SenderInv, FrameOK, PacketOK, Fine
<1>7. f.head <= f.wrote /\ f.head <= p.first /\ f.wrote - f.head <= p.second
  BY <1>1, <1>2, <1>3 DEF SenderInv, FrameOK
<1>8. /\ d + 1 < Len(frames) => f.wrote = p.first + p.second
      /\ f.wrote >= HeadLen => f.head >= HeadLen
  BY <1>2, <1>3, <1>5 DEF Fine, Complete
<1>9. d + 1 = Len(frames) => wrote = After(d) + f.wrote
  <2>1. frames # <<>>
    BY <1>1
  <2>2. QED
    BY <1>4, <2>1 DEF SenderInv, Contiguous
<1>10. f.wrote >= HeadLen
  <2>1. CASE d + 1 < Len(frames)
    BY <1>4, <1>6, <1>8, <2>1
  <2>2. CASE d + 1 = Len(frames)
    BY <1>1, <1>4, <1>9, <2>2
  <2>3. QED
    BY <1>1, <1>4, <2>1, <2>2
<1>11. ASSUME After(d) + HeadLen + p.meant <= wrote
       PROVE  f.wrote = p.first + p.second
  <2>1. CASE d + 1 < Len(frames)
    BY <1>8, <2>1
  <2>2. CASE d + 1 = Len(frames)
    <3>1. f.wrote >= HeadLen + p.meant
      BY <1>1, <1>4, <1>9, <1>11, <2>2
    <3>2. \A w, y, z, s, b, m \in Nat : w >= b + m /\ y <= w /\ y <= z /\ w - y <= s /\ b + m = z + s => w = z + s
      OBVIOUS
    <3>3. f.wrote \in Nat /\ f.head \in Nat /\ p.first \in Nat /\ p.second \in Nat /\ HeadLen \in Nat /\ p.meant \in Nat
      BY <1>4
    <3>4. QED
      BY <1>6, <1>7, <3>1, <3>2, <3>3
  <2>3. QED
    BY <1>1, <1>4, <2>1, <2>2
<1>12. After(d) + HeadLen + p.meant <= wrote => FrameEnd(d + 1) = After(d) + HeadLen + p.meant
  BY <1>1, <1>4, <1>6, <1>11
<1>13. QED
  BY <1>1, <1>2, <1>3, <1>6, <1>8, <1>10, <1>11, <1>12 DEF Complete

(* A call returns what it found behind frame d. *)
LEMMA DeliveryIsIntact ==
  ASSUME SenderInv, ReaderType, IntactInv, UNCHANGED senderVars, ~lost,
         NEW d, d = Len(delivered), NEW len \in Nat,
         Deliver(rcv.from, len), rcv.from \in Nat, read' \in Nat, read' <= wrote,
         FineTo(d) => /\ rcv.from = After(d) /\ read' = After(d) + HeadLen + len
                      /\ (d < Len(frames) /\ frames[d + 1].head >= HeadLen) =>
                            len = frames[d + 1].packet.bodylen
  PROVE  IntactInv'
<1>1. d \in Nat /\ DOMAIN delivered = 1..d /\ delivered \in Seq([at : Nat, len : Nat])
  BY DEF ReaderType
<1>2. rcv' = Idle /\ delivered' = Append(delivered, [at |-> rcv.from, len |-> len])
  BY DEF Deliver
<1>3. /\ Len(delivered') = d + 1 /\ DOMAIN delivered' = 1..(d + 1)
      /\ delivered'[d + 1] = [at |-> rcv.from, len |-> len]
      /\ \A i \in 1..d : delivered'[i] = delivered[i]
  BY <1>1, <1>2
<1>4. frames' = frames
  BY DEF senderVars
<1>5. /\ \A i \in DOMAIN delivered : FineTo(i) => Delivered(i)
      /\ FineTo(d) => InPlace(d)
  BY <1>4 DEF IntactInv
<1>6. \A i : FineTo(i)' <=> FineTo(i)
  BY <1>4 DEF FineTo, Fine, Complete
<1>7. ASSUME FineTo(d + 1)
      PROVE  /\ d + 1 <= Len(frames) /\ Complete(d + 1) /\ read' = FrameEnd(d + 1)
             /\ rcv.from = frames[d + 1].start /\ len = frames[d + 1].packet.meant
  <2>1. FineTo(d)
    BY <1>1, <1>7 DEF FineTo
  <2>2. d <= Len(frames)
    <3>1. CASE d = 0
      BY <3>1 DEF SenderInv, SenderType
    <3>2. CASE d > 0
      <4>1. d \in DOMAIN delivered
        BY <1>1, <3>2
      <4>2. QED
        BY <1>5, <2>1, <4>1, Zenon DEF Delivered
    <3>3. QED
      BY <1>1, <3>1, <3>2
  <2>3. /\ After(d) \in Nat /\ HeadLen \in Nat /\ wrote \in Nat /\ Len(frames) \in Nat
        /\ rcv.from = After(d) /\ read' = After(d) + HeadLen + len
    BY <1>1, <2>1, <2>2, NextFrame, FrameAssumption DEF SenderInv, SenderType
  <2>4. After(d) + HeadLen <= wrote /\ After(d) + HeadLen + len <= wrote
    BY <2>3
  <2>5. /\ d < Len(frames) /\ d + 1 \in DOMAIN frames
        /\ frames[d + 1].head >= HeadLen /\ frames[d + 1].packet.bodylen = frames[d + 1].packet.meant
        /\ After(d) + HeadLen + frames[d + 1].packet.meant <= wrote =>
             /\ Complete(d + 1)
             /\ FrameEnd(d + 1) = After(d) + HeadLen + frames[d + 1].packet.meant
    BY <1>1, <1>7, <2>2, <2>4, HeaderBehind
  <2>6. len = frames[d + 1].packet.meant
    BY <2>1, <2>5
  <2>7. frames[d + 1].start = After(d)
    BY <1>1, <2>2, <2>5, NextFrame
  <2>8. QED
    BY <1>1, <2>3, <2>4, <2>5, <2>6, <2>7
<1>8. ASSUME NEW i \in DOMAIN delivered', FineTo(i)'
      PROVE  Delivered(i)'
  <2>1. CASE i = d + 1
    BY <1>3, <1>4, <1>6, <1>7, <1>8, <2>1 DEF Delivered, Complete
  <2>2. CASE i # d + 1
    <3>1. i \in 1..d
      BY <1>1, <1>3, <2>2
    <3>2. Delivered(i)
      BY <1>1, <1>5, <1>6, <1>8, <3>1
    <3>3. QED
      BY <1>3, <1>4, <3>1, <3>2 DEF Delivered, Complete
  <2>3. QED
    BY <2>1, <2>2
<1>9. ASSUME FineTo(d + 1)'
      PROVE  InPlace(d + 1)'
  <2>1. read' = FrameEnd(d + 1) /\ FrameEnd(d + 1)' = FrameEnd(d + 1)
    BY <1>4, <1>6, <1>7, <1>9 DEF FrameEnd
  <2>2. d + 1 # 0
    BY <1>1
  <2>3. After(d + 1)' = read'
    BY <2>1, <2>2 DEF After
  <2>4. rcv' = Idle /\ rcv'.at # "head" /\ rcv'.at # "body"
    BY <1>2 DEF Idle
  <2>5. QED
    BY <2>3, <2>4 DEF InPlace
<1>10. QED
  BY <1>3, <1>8, <1>9 DEF IntactInv

(* A step of the reader that returns nothing. *)
LEMMA NothingDelivered ==
  ASSUME SenderInv, ReaderType, IntactInv, frames' = frames, delivered' = delivered, ~lost,
         NEW d, d = Len(delivered),
         (InPlace(d) /\ FineTo(d) /\ d \in Nat /\ d <= Len(frames)) => InPlace(d)'
  PROVE  IntactInv'
<1>1. d \in Nat /\ DOMAIN delivered = 1..d /\ frames' = frames /\ Len(frames) \in Nat
  BY DEF ReaderType, SenderInv, SenderType
<1>2. /\ \A i \in DOMAIN delivered : FineTo(i) => Delivered(i)
      /\ FineTo(d) => InPlace(d)
  BY DEF IntactInv
<1>3. \A i : /\ FineTo(i)' <=> FineTo(i)
             /\ Delivered(i)' <=> Delivered(i)
  BY <1>1 DEF FineTo, Fine, Complete, Delivered
<1>4. FineTo(d) => d <= Len(frames)
  <2>1. CASE d = 0
    BY <1>1, <2>1
  <2>2. CASE d > 0
    <3>1. d \in DOMAIN delivered
      BY <1>1, <2>2
    <3>2. QED
      BY <1>2, <3>1, Zenon DEF Delivered
  <2>3. QED
    BY <1>1, <2>1, <2>2
<1>5. FineTo(d)' => InPlace(d)'
  BY <1>1, <1>2, <1>3, <1>4
<1>6. QED
  BY <1>2, <1>3, <1>5 DEF IntactInv

LEMMA RecvIntact ==
  ASSUME SenderInv, Ordered, ReaderType, IntactInv, RecvTakes
  PROVE  IntactInv'
<1>1. UNCHANGED senderVars /\ lost' = lost
  BY RecvTakesOutcome
<1>2. PICK n \in Nat \ {0} : /\ n <= rcv.left /\ n <= wrote - read /\ read' = read + n
                             /\ Misses(n) \/ HasHead(n) \/ HasBody(n)
  BY RecvTakesOutcome
<1>3. /\ rcv \in ReadType /\ rcv.left \in Nat \ {0} /\ rcv.from \in Nat /\ rcv.len \in Nat
      /\ rcv.at \in {"head", "body"} /\ HeadLen \in Nat \ {0}
  BY ReadIsTyped, FrameAssumption DEF RecvTakes
<1>4. read \in Nat /\ wrote \in Nat
  BY DEF ReaderType, SenderInv, SenderType
<1>5. read' \in Nat /\ read' <= wrote
  BY <1>2, <1>4
<1>6. CASE lost
  BY <1>1, <1>6 DEF IntactInv
<1>7. CASE ~lost
  <2>1. PICK d : d = Len(delivered)
    OBVIOUS
  <2>2. d \in Nat /\ (FineTo(d) => InPlace(d))
    BY <1>7, <2>1 DEF IntactInv, ReaderType
  <2>3. ASSUME NEW len \in Nat, Deliver(rcv.from, len),
               FineTo(d) => /\ rcv.from = After(d) /\ read' = After(d) + HeadLen + len
                            /\ (d < Len(frames) /\ frames[d + 1].head >= HeadLen) =>
                                  len = frames[d + 1].packet.bodylen
        PROVE  IntactInv'
    BY <1>1, <1>3, <1>5, <1>7, <2>1, <2>3, DeliveryIsIntact
  <2>4. ASSUME delivered' = delivered,
               (InPlace(d) /\ FineTo(d) /\ d \in Nat /\ d <= Len(frames)) => InPlace(d)'
        PROVE  IntactInv'
    BY <1>1, <1>7, <2>1, <2>4, NothingDelivered DEF senderVars
  <2>5. CASE Misses(n)
    <3>1. rcv' = [rcv EXCEPT !.left = rcv.left - n] /\ delivered' = delivered
      BY <2>5, Zenon DEF Misses
    <3>2. rcv'.at = rcv.at /\ rcv'.from = rcv.from /\ rcv'.len = rcv.len /\ rcv'.left = rcv.left - n
      BY <1>3, <3>1 DEF ReadType
    <3>3. frames' = frames /\ After(d)' = After(d) /\ Len(frames') = Len(frames) /\ rcv' # Idle
      BY <1>1, <1>3, <3>2 DEF senderVars, After, FrameEnd, Idle
    <3>4. ASSUME InPlace(d)
          PROVE  InPlace(d)'
      <4>1. CASE rcv.at = "head"
        <5>1. rcv.from = After(d) /\ read = rcv.from + HeadLen - rcv.left
          BY <3>4, <4>1 DEF InPlace
        <5>2. rcv'.from = After(d)' /\ read' = rcv'.from + HeadLen - rcv'.left
          BY <1>2, <1>3, <1>4, <3>2, <3>3, <5>1
        <5>3. QED
          BY <3>2, <3>3, <4>1, <5>2 DEF InPlace
      <4>2. CASE rcv.at = "body"
        <5>1. /\ rcv.from = After(d) /\ read = rcv.from + HeadLen + rcv.len - rcv.left
              /\ d < Len(frames) /\ rcv.left <= rcv.len
              /\ frames[d + 1].head >= HeadLen => rcv.len = frames[d + 1].packet.bodylen
          BY <3>4, <4>2 DEF InPlace
        <5>2. /\ rcv'.from = After(d)' /\ read' = rcv'.from + HeadLen + rcv'.len - rcv'.left
              /\ rcv'.left <= rcv'.len
          <6>1. \A r, f, h, l, m, k \in Nat :
                  r = f + h + l - m /\ k <= m /\ m <= l => r + k = f + h + l - (m - k) /\ m - k <= l
            OBVIOUS
          <6>2. /\ read + n = rcv.from + HeadLen + rcv.len - (rcv.left - n)
                /\ rcv.left - n <= rcv.len
            BY <1>2, <1>3, <1>4, <5>1, <6>1
          <6>3. QED
            BY <1>2, <3>2, <3>3, <5>1, <6>2
        <5>3. QED
          BY <3>2, <3>3, <4>2, <5>1, <5>2 DEF InPlace
      <4>3. QED
        BY <1>3, <4>1, <4>2
    <3>5. QED
      BY <2>4, <3>1, <3>4
  <2>6. CASE HasHead(n)
    <3>1. rcv.left = n /\ rcv.at = "head"
      BY <2>6 DEF HasHead
    <3>2. InPlace(d) => rcv.from = After(d) /\ read' = After(d) + HeadLen
      <4>1. InPlace(d) => rcv.from = After(d) /\ read = rcv.from + HeadLen - rcv.left
        BY <3>1 DEF InPlace
      <4>2. QED
        BY <1>2, <1>3, <1>4, <3>1, <4>1
    <3>3. PICK len \in GET_PROTOCOL_BODY_LEN(rcv.from) :
            \/ len = 0 /\ Deliver(rcv.from, 0)
            \/ /\ len > 0 /\ delivered' = delivered
               /\ rcv' = Reading("body", rcv.keep, rcv.from, len, len, rcv.times) \/ rcv' = Dead
      BY <2>6 DEF HasHead
    <3>4. len \in Nat
      BY LengthInHeader
    <3>5. InPlace(d) /\ d < Len(frames) /\ frames[d + 1].head >= HeadLen =>
             len = frames[d + 1].packet.bodylen
      BY <2>2, <3>2, <3>3, HeaderIsNext
    <3>6. CASE len = 0 /\ Deliver(rcv.from, 0)
      <4>1. InPlace(d) => read' = After(d) + HeadLen + 0
        BY <1>3, <3>2
      <4>2. Deliver(rcv.from, len)
        BY <3>6
      <4>3. QED
        BY <2>2, <2>3, <3>2, <3>4, <3>5, <3>6, <4>1, <4>2
    <3>7. CASE delivered' = delivered /\ rcv' = Dead
      <4>1. rcv' # Idle /\ rcv'.at # "head" /\ rcv'.at # "body"
        BY <3>7 DEF Dead, Idle
      <4>2. InPlace(d)'
        BY <4>1 DEF InPlace
      <4>3. QED
        BY <2>4, <3>7, <4>2
    <3>8. CASE /\ len > 0 /\ delivered' = delivered
               /\ rcv' = Reading("body", rcv.keep, rcv.from, len, len, rcv.times)
      <4>1. /\ rcv' # Idle /\ rcv'.at = "body" /\ rcv'.from = rcv.from /\ rcv'.len = len /\ rcv'.left = len
        BY <3>8 DEF Reading, Idle
      <4>2. frames' = frames /\ After(d)' = After(d)
        BY <1>1 DEF senderVars, After, FrameEnd
      <4>3. ASSUME InPlace(d), FineTo(d), d \in Nat, d <= Len(frames)
            PROVE  InPlace(d)'
        <5>1. After(d) \in Nat /\ Len(frames) \in Nat /\ (d = Len(frames) => wrote = After(d))
          BY <4>3, NextFrame
        <5>2. d < Len(frames)
          BY <1>3, <1>4, <1>5, <3>2, <4>3, <5>1
        <5>3. read' = rcv'.from + HeadLen + rcv'.len - rcv'.left /\ rcv'.left <= rcv'.len
          BY <1>3, <3>2, <3>4, <4>1, <4>3, <5>1
        <5>4. QED
          BY <3>2, <3>5, <4>1, <4>2, <4>3, <5>2, <5>3 DEF InPlace
      <4>4. QED
        BY <2>4, <3>8, <4>3
    <3>9. QED
      BY <3>3, <3>6, <3>7, <3>8
  <2>7. CASE HasBody(n)
    <3>1. rcv.left = n /\ rcv.at = "body" /\ Deliver(rcv.from, rcv.len)
      BY <2>7 DEF HasBody
    <3>2. InPlace(d) => /\ rcv.from = After(d) /\ read = rcv.from + HeadLen + rcv.len - rcv.left
                        /\ frames[d + 1].head >= HeadLen => rcv.len = frames[d + 1].packet.bodylen
      BY <3>1 DEF InPlace
    <3>3. InPlace(d) => read' = After(d) + HeadLen + rcv.len
      BY <1>2, <1>3, <1>4, <3>1, <3>2
    <3>4. QED
      BY <1>3, <2>2, <2>3, <3>1, <3>2, <3>3
  <2>8. QED
    BY <1>2, <2>5, <2>6, <2>7
<1>8. QED
  BY <1>6, <1>7

LEMMA IntactKeeps ==
  ASSUME SenderInv, Ordered, ReaderType, IntactInv, [Next]_vars
  PROVE  IntactInv'
<1>1. CASE \E n \in 1..Capacity : SendTakes(n)
  BY <1>1, TakeIntact
<1>2. CASE RecvTakes
  BY <1>2, RecvIntact
<1>3. CASE lost' = lost /\ lost
  BY <1>3 DEF IntactInv
<1>4. PICK d : d = Len(delivered)
  OBVIOUS
<1>5. ASSUME ~lost, frames' = frames, delivered' = delivered,
             (InPlace(d) /\ d \in Nat /\ d <= Len(frames)) => InPlace(d)'
      PROVE  IntactInv'
  BY <1>4, <1>5, NothingDelivered
<1>6. CASE ~lost /\ UNCHANGED <<frames, readerVars>>
  <2>1. InPlace(d) => InPlace(d)'
    BY <1>6 DEF InPlace, After, FrameEnd, readerVars
  <2>2. QED
    BY <1>5, <1>6, <2>1 DEF readerVars
<1>7. ASSUME ~lost, NEW keep \in BOOLEAN, RecvCall(keep)
      PROVE  IntactInv'
  <2>1. rcv = Idle /\ rcv' = Reading("head", keep, read, HeadLen, 0, Retries)
        /\ UNCHANGED <<frames, read, delivered>>
    BY <1>7 DEF RecvCall, senderVars
  <2>2. rcv'.at = "head" /\ rcv'.from = read /\ rcv'.left = HeadLen /\ rcv' # Idle
    BY <2>1 DEF Reading, Idle
  <2>3. read = read + HeadLen - HeadLen
    BY FrameAssumption DEF ReaderType
  <2>4. InPlace(d) => InPlace(d)'
    BY <2>1, <2>2, <2>3 DEF InPlace, After, FrameEnd
  <2>5. QED
    BY <1>5, <1>7, <2>1, <2>4
<1>8. CASE ~lost /\ (RecvEmpty \/ RecvEof)
  <2>1. /\ rcv.at \in {"head", "body"} /\ rcv \in ReadType /\ rcv.from \in Nat /\ rcv.from <= read /\ read \in Nat
        /\ UNCHANGED <<frames, read>> /\ delivered' = delivered
    BY <1>8, ReadIsTyped DEF RecvEmpty, RecvEof, RecvFails, ReaderType, senderVars
  <2>2. After(d)' = After(d) /\ Len(frames') = Len(frames)
    BY <2>1 DEF After, FrameEnd
  <2>3. CASE rcv' = Retry(rcv)
    <3>1. rcv'.at = rcv.at /\ rcv'.from = rcv.from /\ rcv'.len = rcv.len /\ rcv'.left = rcv.left
      BY <2>1, <2>3 DEF Retry, ReadType
    <3>2. rcv' # Idle
      BY <2>1, <3>1 DEF Idle
    <3>3. InPlace(d) => InPlace(d)'
      BY <2>1, <2>2, <3>1, <3>2 DEF InPlace
    <3>4. QED
      BY <1>5, <1>8, <2>1, <3>3
  <2>4. CASE RecvFails /\ lost'
    BY <2>4 DEF IntactInv
  <2>5. CASE RecvFails /\ ~lost'
    <3>1. rcv' = Idle => read = rcv.from
      <4>1. rcv' = Idle => ~(read > rcv.from)
        BY <2>5, Zenon DEF RecvFails, Idle
      <4>2. QED
        BY <2>1, <4>1
    <3>2. rcv'.at # "head" /\ rcv'.at # "body"
      BY <2>5 DEF RecvFails, Idle
    <3>3. InPlace(d) => InPlace(d)'
      BY <2>1, <2>2, <3>1, <3>2 DEF InPlace
    <3>4. QED
      BY <1>5, <1>8, <2>1, <3>3
  <2>6. QED
    BY <1>8, <2>3, <2>4, <2>5 DEF RecvEmpty, RecvEof
<1>9. CASE \/ \E kind \in Kinds, c \in Commands : SendCall(kind, c)
           \/ SendRefused \/ SendKilled \/ SenderEnds \/ UNCHANGED vars
  <2>1. UNCHANGED <<frames, readerVars>>
    BY <1>9 DEF SendCall, SendRefused, SendKilled, SenderEnds, vars, readerVars
  <2>2. QED
    BY <1>3, <1>6, <2>1 DEF readerVars
<1>10. CASE lost /\ ((\E keep \in BOOLEAN : RecvCall(keep)) \/ RecvEmpty \/ RecvEof)
  <2>1. lost'
    BY <1>10 DEF RecvCall, RecvEmpty, RecvEof, RecvFails
  <2>2. QED
    BY <2>1 DEF IntactInv
<1>11. QED
  BY <1>1, <1>2, <1>7, <1>8, <1>9, <1>10 DEF Next, SenderStep, ReaderStep

(* As long as the frames so far were sent whole and no receive gave up     *)
(* inside one, each call of tcp_recv_protocol_cmd begins where a frame     *)
(* begins, and what was delivered is the frames of the stream in order.    *)
THEOREM IntactInvariant == Spec => []IntactInv
<1>1. Init => IntactInv
  <2> SUFFICES ASSUME Init PROVE IntactInv
    OBVIOUS
  <2>1. delivered = <<>> /\ Len(delivered) = 0 /\ DOMAIN delivered = {} /\ rcv = Idle /\ read = 0
    BY DEF Init
  <2>2. InPlace(0)
    BY <2>1 DEF InPlace, Idle, After
  <2>3. QED
    BY <2>1, <2>2 DEF IntactInv
<1>2. SenderInv /\ Ordered /\ ReaderType /\ IntactInv /\ [Next]_vars => IntactInv'
  BY IntactKeeps
<1>3. QED
  BY <1>1, <1>2, SenderInvariant, OrderInvariant, ReaderInvariant, PTL DEF Spec

(* A whole frame is fine. *)
LEMMA WholeIsFine ==
  ASSUME SenderInv, NEW k \in DOMAIN frames, Whole(k)
  PROVE  Fine(k)
<1>1. frames[k].wrote = frames[k].packet.first + frames[k].packet.second /\ frames[k].packet.fits
  BY DEF Whole, Complete
<1>2. frames[k].wrote - frames[k].head <= frames[k].packet.second /\ frames[k].packet.first >= HeadLen
  BY DEF SenderInv, FrameOK, PacketOK
<1>3. frames[k].head >= HeadLen
  BY <1>1, <1>2, FrameNumbers, FrameAssumption
<1>4. QED
  BY <1>1, <1>3 DEF Fine, Complete

(* tcp_recv_protocol_cmd returns the frames of its peer one by one, each   *)
(* with the bytes meant for it, up to the first that is cut, too long for  *)
(* its header, or given up.                                                *)
THEOREM ReceivesAreIntact == Spec => []Intact
<1>1. SenderInv /\ ReaderType /\ IntactInv => Intact
  <2>1. SUFFICES ASSUME SenderInv, ReaderType, IntactInv, ~lost, NEW i \in DOMAIN delivered,
                        \A k \in 1..Min({i, Len(frames)}) : Whole(k)
                 PROVE  i <= Len(frames) /\ delivered[i] = [at |-> frames[i].start, len |-> frames[i].packet.meant]
    BY DEF Intact
  <2>2. i \in Nat \ {0} /\ Len(frames) \in Nat /\ DOMAIN frames = 1..Len(frames)
    BY DEF ReaderType, SenderInv, SenderType
  <2>3. Min({i, Len(frames)}) \in {i, Len(frames)}
    BY <2>2, LeastOfTwo
  <2>4. ASSUME NEW k \in 1..i, k \in DOMAIN frames
        PROVE  Fine(k)
    <3>1. k \in 1..Min({i, Len(frames)})
      BY <2>2, <2>3, <2>4
    <3>2. QED
      BY <2>1, <2>4, <3>1, WholeIsFine
  <2>5. FineTo(i)
    BY <2>4 DEF FineTo
  <2>6. QED
    BY <2>1, <2>5 DEF IntactInv, Delivered
<1>2. QED
  BY <1>1, SenderInvariant, ReaderInvariant, IntactInvariant, PTL

(* While the frames fit into the buffer that main, ih_recv_data and        *)
(* ih_get_shm_infos hand it, tcp_recv_protocol_cmd stays inside it.        *)
THEOREM ReceivesStayInside == Spec => []InBuffer
<1>1. SenderInv /\ ReaderType /\ IntactInv => InBuffer
  <2>1. SUFFICES ASSUME SenderInv, ReaderType, IntactInv, ~lost, rcv.at = "body",
                        \A k \in DOMAIN frames :
                           /\ frames[k].packet.fits /\ frames[k].packet.meant <= Room
                           /\ k < Len(frames) => Complete(k)
                           /\ frames[k].wrote >= HeadLen => frames[k].head >= HeadLen
                 PROVE  rcv.len <= Room
    BY DEF InBuffer
  <2>2. PICK d : d = Len(delivered)
    OBVIOUS
  <2>3. d \in Nat /\ Len(frames) \in Nat /\ DOMAIN frames = 1..Len(frames)
    BY <2>2 DEF ReaderType, SenderInv, SenderType
  <2>4. FineTo(d)
    BY <2>1, Zenon DEF FineTo, Fine
  <2>5. d < Len(frames) /\ (frames[d + 1].head >= HeadLen => rcv.len = frames[d + 1].packet.bodylen)
    BY <2>1, <2>2, <2>4 DEF IntactInv, InPlace
  <2>6. d + 1 \in DOMAIN frames
    BY <2>3, <2>5
  <2>7. frames[d + 1].packet.bodylen = frames[d + 1].packet.meant
    BY <2>1, <2>6 DEF SenderInv, FrameOK, PacketOK
  <2>8. frames[d + 1].wrote >= HeadLen
    <3>1. CASE d + 1 < Len(frames)
      <4>1. Complete(d + 1) /\ frames[d + 1].packet.first >= HeadLen
        BY <2>1, <2>6, <3>1 DEF SenderInv, FrameOK, PacketOK
      <4>2. QED
        BY <4>1, <2>1, <2>6, FrameNumbers, FrameAssumption DEF Complete
    <3>2. CASE d + 1 = Len(frames)
      <4>1. rcv.from = After(d) /\ read = rcv.from + HeadLen + rcv.len - rcv.left /\ rcv.left <= rcv.len
        BY <2>1, <2>2, <2>4 DEF IntactInv, InPlace
      <4>2. After(d) = frames[d + 1].start
        BY <2>1, <2>3, <2>6 DEF SenderInv, Contiguous, After
      <4>3. read <= frames[d + 1].start + frames[d + 1].wrote
        <5>1. wrote = FrameEnd(Len(frames)) /\ wrote \in Nat
          BY <2>1, <2>3, <2>6 DEF SenderInv, SenderType, Contiguous
        <5>2. read <= wrote
          BY <2>1, <5>1, FrameAssumption DEF ReaderType
        <5>3. QED
          BY <3>2, <5>1, <5>2 DEF FrameEnd
      <4>4. /\ rcv.left \in Nat /\ rcv.len \in Nat /\ HeadLen \in Nat /\ read \in Nat
            /\ frames[d + 1].start \in Nat /\ frames[d + 1].wrote \in Nat
        BY <2>1, <2>6, ReadIsTyped, FrameNumbers, FrameAssumption DEF ReaderType
      <4>5. read = frames[d + 1].start + HeadLen + rcv.len - rcv.left
        BY <4>1, <4>2
      <4>6. QED
        BY <4>1, <4>3, <4>4, <4>5, PastHeader
    <3>3. d + 1 < Len(frames) \/ d + 1 = Len(frames)
      <4>1. \A x \in Nat : d < x => d + 1 < x \/ d + 1 = x
        BY <2>3
      <4>2. d < Len(frames)
        BY <2>5
      <4>3. QED
        BY <4>1, <4>2, <2>3
    <3>4. QED
      BY <3>1, <3>2, <3>3
  <2>9. QED
    BY <2>1, <2>5, <2>6, <2>7, <2>8
<1>2. QED
  BY <1>1, SenderInvariant, ReaderInvariant, IntactInvariant, PTL
=============================================================================
