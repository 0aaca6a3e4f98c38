---------------------------- MODULE FrameDecoder ----------------------------
(***************************************************************************)
(* NasaProtocol::decode on the byte stream of the bus, with bytes lost and *)
(* damaged under way.                                                      *)
(*                                                                         *)
(* A byte carries its value and, for the check sum's sake, the frame and   *)
(* the place in it that it was sent at; a damaged byte belongs to no       *)
(* frame.  The CRC is taken to be ideal: it fits a payload exactly when    *)
(* payload and CRC are the ones of one frame.  Sizes are scaled down:      *)
(* MinSize is the 16 and MaxSize the 1500 of the code.                     *)
(***************************************************************************)
EXTENDS Integers, Sequences, FiniteSets

CONSTANTS
  MinSize, MaxSize,   \* bounds on the size of a frame
  BufferLimit,        \* configuration buffer_limit
  PayloadSizes,       \* bound: payload lengths of the frames that are sent
  PayloadValues,      \* bound: values of payload and CRC bytes
  FrameBound,         \* bound: frames that are sent
  DamageBound,        \* bound: how many of them are damaged
  LineBound           \* bound: bytes under way

(* 0x32 and 0x34 *)
Start == 50
End == 52

(* Start, two bytes of size, two of CRC and End around the payload.        *)
FrameLength(p) == p + 6

ASSUME DecoderAssumption ==
  /\ MaxSize \in Nat /\ MinSize \in 2 .. MaxSize
  /\ PayloadSizes \subseteq Nat
  /\ \A p \in PayloadSizes : FrameLength(p) - 2 >= MinSize /\ FrameLength(p) <= MaxSize
  /\ PayloadValues \subseteq 0 .. 255
  /\ BufferLimit \in Nat
  /\ FrameBound \in Nat /\ DamageBound \in Nat /\ LineBound \in Nat

VARIABLES
  line,     \* bytes sent and not yet in the buffer
  buffer,   \* the buffer of the main loop
  pc,       \* "recv" or "decode"
  sent,     \* frames that were sent: their data type, "data" or "ack"
  got,      \* numbers of the frames decode has returned
  damaged,  \* how many frames were damaged
  since,    \* history: bytes sent since the decoder may have been misled
  owed      \* history: frames that were sent in full, that long after it

vars == <<line, buffer, pc, sent, got, damaged, since, owed>>

AtMost(n) == IF n > MaxSize + 2 THEN MaxSize + 2 ELSE n

-----------------------------------------------------------------------------
(* Packet::encode: frame number f with p payload bytes of value v.         *)
Frame(f, p, v) ==
  LET last == FrameLength(p)
      value(i) == CASE i = 1            -> Start
                    [] i = 2            -> (last - 2) \div 256
                    [] i = 3            -> (last - 2) % 256
                    [] i = last         -> End
                    [] i \in 4 .. last - 1 -> v
  IN  [i \in 1 .. last |-> [val |-> value(i), frame |-> f, place |-> i, left |-> last - i]]

Init ==
  /\ line = <<>>
  /\ buffer = <<>>
  /\ pc = "recv"
  /\ sent = <<>>
  /\ got = <<>>
  /\ damaged = 0
  /\ since = MaxSize + 2
  /\ owed = {}

(* A Start byte of a frame after place i.                                  *)
StrayStart(frame, i) == \E k \in i + 1 .. Len(frame) : frame[k].val = Start

(* The heat pump sends a frame (external), and it arrives.  What misleads  *)
(* the decoder is damage, and a Start byte that begins no frame as long as *)
(* it may still be off the border of one; since counts up to MaxSize + 2.  *)
SendFrame ==
  \E type \in {"data", "ack"}, p \in PayloadSizes, v \in PayloadValues :
    LET f == Len(sent) + 1
        frame == Frame(f, p, v)
    IN  /\ f <= FrameBound
        /\ Len(line) + FrameLength(p) <= LineBound
        /\ sent' = Append(sent, type)
        /\ line' = line \o frame
        /\ since' = IF since < MaxSize + 2 /\ StrayStart(frame, 1) THEN 1
                    ELSE AtMost(since + FrameLength(p))
        /\ owed' = IF since = MaxSize + 2 /\ type = "data" THEN owed \cup {f} ELSE owed
        /\ UNCHANGED <<buffer, pc, got, damaged>>

(* The bytes of a frame without those from i to j, as when the connection  *)
(* is replaced or the bus loses a byte.                                    *)
Without(frame, i, j) == SubSeq(frame, 1, i - 1) \o SubSeq(frame, j + 1, Len(frame))

(* One byte changed to a value that does harm: Start, a small size, zero.  *)
Changed(frame, i) ==
  LET byte(v) == [val |-> v, frame |-> 0, place |-> 0, left |-> 0]
  IN  {[k \in 1 .. Len(frame) |-> IF k = i THEN byte(v) ELSE frame[k]] :
         v \in {0, MinSize % 256, MaxSize % 256, Start} \ {frame[i].val}}

(* The heat pump sends a frame (external), and it arrives damaged.         *)
SendDamaged ==
  \E p \in PayloadSizes, v \in PayloadValues :
    LET f == Len(sent) + 1
        frame == Frame(f, p, v)
    IN  /\ f <= FrameBound
        /\ damaged < DamageBound
        /\ Len(line) + FrameLength(p) <= LineBound
        /\ \E i \in 1 .. Len(frame) :
             \/ \E j \in {i, Len(frame)} : /\ line' = line \o Without(frame, i, j)
                                           /\ since' = IF StrayStart(frame, j) THEN 1
                                                       ELSE AtMost(Len(frame) - j)
             \/ \E g \in Changed(frame, i) : /\ line' = line \o g
                                             /\ since' = IF StrayStart(frame, i) THEN 1
                                                         ELSE AtMost(Len(frame) - i)
        /\ sent' = Append(sent, "data")
        /\ damaged' = damaged + 1
        /\ UNCHANGED <<buffer, pc, got, owed>>

-----------------------------------------------------------------------------
(* The main loop: a buffer beyond buffer_limit is emptied; getRecvData     *)
(* appends what has arrived, if anything.                                  *)
Kept == IF Len(buffer) > BufferLimit THEN <<>> ELSE buffer

GetRecvData ==
  /\ pc = "recv"
  /\ \E n \in 0 .. Len(line) :
       /\ buffer' = Kept \o SubSeq(line, 1, n)
       /\ line' = SubSeq(line, n + 1, Len(line))
  /\ pc' = "decode"
  /\ UNCHANGED <<sent, got, damaged, since, owed>>

ExpectedSize == buffer[2].val * 256 + buffer[3].val

Bug_AnySize == TRUE
PlausibleSize == ExpectedSize \in MinSize .. MaxSize

(* The first byte cannot begin a packet: it is removed.                    *)
DropByte ==
  /\ pc = "decode"
  /\ Len(buffer) > MinSize
  /\ buffer[1].val # Start \/ ~PlausibleSize
  /\ buffer' = Tail(buffer)
  /\ UNCHANGED <<line, pc, sent, got, damaged, since, owed>>

Candidate == SubSeq(buffer, 1, ExpectedSize + 2)

(* crc16 over the payload equals the two bytes before the end.             *)
CrcFits(c) ==
  LET first == c[4]
      last == c[Len(c) - 1]
  IN  /\ first.frame # 0 /\ first.place = 4
      /\ last.frame = first.frame /\ last.left = 1
      /\ \A i \in 4 .. Len(c) - 1 : c[i].frame = first.frame /\ c[i].place = i

Bug_SizeOffByOne(c) == Len(c) >= MinSize /\ Len(c) < MaxSize
(* Of the whole frame, while PlausibleSize is about the size field.        *)
SizeFits(c) == Len(c) >= MinSize /\ Len(c) <= MaxSize

(* Packet::decode gives DecodeResult::Ok; the size field matches, as that  *)
(* is how the candidate was cut.                                           *)
DecodesOk(c) == SizeFits(c) /\ c[Len(c)].val = End /\ CrcFits(c)

(* decode passes neither Ack nor Nack on.                                  *)
Acknowledges(c) == c[4].frame \in {f \in DOMAIN sent : sent[f] = "ack"}

Bug_NotErased(c) == buffer
(* The candidate leaves the buffer, whatever came of it.                   *)
AfterCandidate(c) == SubSeq(buffer, Len(c) + 1, Len(buffer))

TakeCandidate ==
  /\ pc = "decode"
  /\ Len(buffer) > MinSize
  /\ buffer[1].val = Start /\ PlausibleSize
  /\ Len(buffer) >= ExpectedSize + 2
  /\ LET c == Candidate
     IN  /\ got' = IF DecodesOk(c) /\ ~Acknowledges(c) THEN Append(got, c[4].frame) ELSE got
         /\ buffer' = AfterCandidate(c)
  /\ UNCHANGED <<line, pc, sent, damaged, since, owed>>

(* decode returns: too few bytes for a packet, or for the one announced.   *)
WaitForMore ==
  /\ pc = "decode"
  /\ \/ Len(buffer) <= MinSize
     \/ /\ Len(buffer) > MinSize
        /\ buffer[1].val = Start /\ PlausibleSize
        /\ Len(buffer) < ExpectedSize + 2
  /\ pc' = "recv"
  /\ UNCHANGED <<line, buffer, sent, got, damaged, since, owed>>

Bus == SendFrame \/ SendDamaged

Decoder == GetRecvData \/ DropByte \/ TakeCandidate \/ WaitForMore

Next == Bus \/ Decoder

Spec == Init /\ [][Next]_vars

(* The main loop keeps running.                                            *)
FairSpec == Spec /\ WF_vars(Decoder)

-----------------------------------------------------------------------------
(* When decode returns, less than one packet of the largest size is left,  *)
(* so a buffer_limit of at least that never throws anything away.          *)
BufferDrained == pc = "recv" => Len(buffer) < MaxSize + 2

Channel == INSTANCE FrameChannel WITH sent <- Len(sent)

(* decode returns frames that were sent, unchanged, once and in order.     *)
FramesOnlyLost == Channel!Spec

(* The decoder finds its way back: a frame that begins MaxSize + 2 bytes   *)
(* or more after it was last misled is returned as soon as it is there.    *)
(* So one bad size field costs no more than that many bytes, and an        *)
(* undamaged stream loses nothing.                                         *)
OwedFramesArrive ==
  pc = "recv" =>
    \A f \in owed :
      \/ \E i \in 1 .. Len(line) : line[i].frame = f
      \/ \E k \in 1 .. Len(got) : got[k] = f
=============================================================================
