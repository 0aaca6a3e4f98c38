------------------------- MODULE NasaProtocol_proofs -------------------------
(***************************************************************************)
(* Proofs about nasa_protocol: the decoder, for any sizes of frames (the   *)
(* 16 and 1500 of the code among them), any buffer_limit and any number of *)
(* frames that are sent and damaged, and the wire format, for every packet *)
(* and every value.                                                        *)
(***************************************************************************)
EXTENDS FrameDecoder, NasaWire, SequenceTheorems, TLAPS

-----------------------------------------------------------------------------
(* The decoder.                                                            *)

Bytes == [val : Int, frame : Nat, place : Int, left : Int]

(* The first byte of a frame's payload, which tells decode what it has.    *)
Mark(b) == b.frame # 0 /\ b.place = 4

(* Of bytes on their way: they belong to the first n frames, and the marks *)
(* are in the order the frames were sent in, one a frame.                  *)
Orderly(s, n) ==
  /\ \A i \in DOMAIN s : s[i].frame <= n
  /\ \A i, j \in DOMAIN s : i < j /\ Mark(s[i]) /\ Mark(s[j]) => s[i].frame < s[j].frame

(* Every mark of s belongs to a frame after those of fs.                   *)
After(s, fs) ==
  \A i \in DOMAIN s : Mark(s[i]) => \A k \in DOMAIN fs : fs[k] < s[i].frame

Stream == buffer \o line

TypesOK ==
  /\ buffer \in Seq(Bytes) /\ line \in Seq(Bytes)
  /\ sent \in Seq({"data", "ack"}) /\ got \in Seq(Nat)

InOrder ==
  /\ Orderly(Stream, Len(sent))
  /\ After(Stream, got)
  /\ \A k \in DOMAIN got : got[k] <= Len(sent)

DecoderInv == TypesOK /\ InOrder /\ BufferDrained

-----------------------------------------------------------------------------
(* Sequences of bytes.                                                     *)

(* What is left when bytes are taken from the front.                       *)
LEMMA Suffix ==
  ASSUME NEW s \in Seq(Bytes), NEW k \in 1 .. Len(s) + 1
  PROVE  /\ SubSeq(s, k, Len(s)) \in Seq(Bytes)
         /\ Len(SubSeq(s, k, Len(s))) = Len(s) - k + 1
         /\ \A i \in DOMAIN SubSeq(s, k, Len(s)) :
              /\ i \in Int /\ i + k - 1 \in DOMAIN s
              /\ SubSeq(s, k, Len(s))[i] = s[i + k - 1]
<1>1. Len(s) \in Nat /\ DOMAIN s = 1 .. Len(s)
  BY LenProperties
<1> DEFINE u == SubSeq(s, k, Len(s))
<1>2. /\ u \in Seq(Bytes) /\ Len(u) = Len(s) - k + 1
      /\ \A i \in 1 .. Len(s) - k + 1 : u[i] = s[k + i - 1]
  <2>1. k \in Int /\ Len(s) \in Int
    BY <1>1
  <2>2. CASE k <= Len(s)
    BY <1>1, <2>2, SubSeqProperties
  <2>3. CASE k = Len(s) + 1
    <3>1. u \in Seq(Bytes) /\ Len(u) = 0
      BY <1>1, <2>3, SubSeqProperties
    <3>. QED BY <1>1, <2>3, <3>1
  <2>. QED BY <1>1, <2>2, <2>3
<1>3. DOMAIN u = 1 .. Len(u)
  BY <1>2, LenProperties
<1>4. ASSUME NEW i \in DOMAIN u
      PROVE  i \in Int /\ i + k - 1 \in DOMAIN s /\ u[i] = s[i + k - 1]
  <2>1. i \in 1 .. Len(s) - k + 1
    BY <1>2, <1>3
  <2>2. i + k - 1 \in 1 .. Len(s) /\ i + k - 1 = k + i - 1
    BY <1>1, <2>1
  <2>. QED BY <1>1, <1>2, <2>1, <2>2
<1>. QED BY <1>2, <1>4

LEMMA SuffixKeeps ==
  ASSUME NEW s \in Seq(Bytes), NEW k \in 1 .. Len(s) + 1, NEW n \in Nat, NEW fs,
         Orderly(s, n), After(s, fs)
  PROVE  Orderly(SubSeq(s, k, Len(s)), n) /\ After(SubSeq(s, k, Len(s)), fs)
<1> DEFINE u == SubSeq(s, k, Len(s))
<1>1. /\ Len(s) \in Nat
      /\ \A i \in DOMAIN u : i \in Int /\ i + k - 1 \in DOMAIN s /\ u[i] = s[i + k - 1]
  BY Suffix, LenProperties
<1> HIDE DEF u
<1>2. \A i, j \in DOMAIN u : i < j => i + k - 1 < j + k - 1
  BY <1>1
<1>3. Orderly(u, n)
  BY <1>1, <1>2 DEF Orderly
<1>4. After(u, fs)
  BY <1>1 DEF After
<1>. QED BY <1>3, <1>4 DEF u

(* Bytes are joined: places of the second part come after the first.       *)
LEMMA Joined ==
  ASSUME NEW s \in Seq(Bytes), NEW t \in Seq(Bytes)
  PROVE  /\ s \o t \in Seq(Bytes) /\ Len(s \o t) = Len(s) + Len(t)
         /\ \A i \in DOMAIN (s \o t) :
              \/ i \in DOMAIN s /\ (s \o t)[i] = s[i]
              \/ i \in Int /\ i > Len(s) /\ i - Len(s) \in DOMAIN t /\ (s \o t)[i] = t[i - Len(s)]
<1>1. Len(s) \in Nat /\ Len(t) \in Nat /\ DOMAIN s = 1 .. Len(s) /\ DOMAIN t = 1 .. Len(t)
  BY LenProperties
<1>2. /\ s \o t \in Seq(Bytes) /\ Len(s \o t) = Len(s) + Len(t)
      /\ \A i \in 1 .. Len(s) + Len(t) :
           (s \o t)[i] = IF i <= Len(s) THEN s[i] ELSE t[i - Len(s)]
  BY ConcatProperties
<1>3. DOMAIN (s \o t) = 1 .. Len(s) + Len(t)
  BY <1>2, LenProperties
<1>4. ASSUME NEW i \in 1 .. Len(s) + Len(t)
      PROVE  \/ i \in 1 .. Len(s) /\ (s \o t)[i] = s[i]
             \/ i > Len(s) /\ i - Len(s) \in 1 .. Len(t) /\ (s \o t)[i] = t[i - Len(s)]
  BY <1>1, <1>2
<1>. QED BY <1>1, <1>2, <1>3, <1>4

LEMMA Regrouped ==
  \A s, t, u \in Seq(Bytes) : (s \o t) \o u = s \o (t \o u)
<1>. SUFFICES ASSUME NEW s \in Seq(Bytes), NEW t \in Seq(Bytes), NEW u \in Seq(Bytes)
              PROVE  (s \o t) \o u = s \o (t \o u)
  OBVIOUS
<1>. QED BY ONLY s \in Seq(Bytes), t \in Seq(Bytes), u \in Seq(Bytes), ConcatAssociative, SMTT(30)

(* A new frame follows: its bytes are its own or nobody's, with one mark.  *)
LEMMA JoinKeeps ==
  ASSUME NEW s \in Seq(Bytes), NEW t \in Seq(Bytes), NEW n \in Nat, NEW fs \in Seq(Nat),
         Orderly(s, n), After(s, fs),
         \A k \in DOMAIN fs : fs[k] <= n,
         \A i \in DOMAIN t : t[i].frame \in {0, n + 1},
         \A i, j \in DOMAIN t : Mark(t[i]) /\ Mark(t[j]) => i = j
  PROVE  Orderly(s \o t, n + 1) /\ After(s \o t, fs)
<1> DEFINE u == s \o t
<1>1. \A i \in DOMAIN u :
        \/ i \in DOMAIN s /\ u[i] = s[i]
        \/ i \in Int /\ i > Len(s) /\ i - Len(s) \in DOMAIN t /\ u[i] = t[i - Len(s)]
  BY Joined
<1>2. Len(s) \in Nat /\ DOMAIN s = 1 .. Len(s) /\ \A i \in DOMAIN s : s[i] \in Bytes
  BY LenProperties, ElementOfSeq
<1>3. \A k \in DOMAIN fs : fs[k] \in Nat
  BY LenProperties, ElementOfSeq
<1> HIDE DEF u
<1>4. \A i \in DOMAIN s : s[i].frame \in Nat /\ s[i].frame <= n
  BY <1>2 DEF Orderly, Bytes
<1>5. \A i \in DOMAIN u : u[i].frame <= n + 1
  <2>1. ASSUME NEW i \in DOMAIN u PROVE u[i].frame <= n + 1
    <3>1. CASE i \in DOMAIN s /\ u[i] = s[i]
      BY <1>4, <3>1
    <3>2. CASE i - Len(s) \in DOMAIN t /\ u[i] = t[i - Len(s)]
      <4>1. u[i].frame \in {0, n + 1}
        BY <3>2
      <4>. QED BY <4>1
    <3>. QED BY <1>1, <3>1, <3>2
  <2>. QED BY <2>1
<1>6. ASSUME NEW i \in DOMAIN u, NEW j \in DOMAIN u, i < j, Mark(u[i]), Mark(u[j])
      PROVE  u[i].frame < u[j].frame
  <2>1. CASE i \in DOMAIN s /\ u[i] = s[i]
    <3>1. CASE j \in DOMAIN s /\ u[j] = s[j]
      BY <1>6, <2>1, <3>1 DEF Orderly
    <3>2. CASE j \in Int /\ j > Len(s) /\ j - Len(s) \in DOMAIN t /\ u[j] = t[j - Len(s)]
      <4>1. u[j].frame = n + 1
        BY <1>6, <3>2 DEF Mark
      <4>. QED BY <1>4, <2>1, <4>1
    <3>. QED BY <1>1, <3>1, <3>2
  <2>2. CASE i \in Int /\ i > Len(s) /\ i - Len(s) \in DOMAIN t /\ u[i] = t[i - Len(s)]
    <3>1. CASE j \in DOMAIN s
      BY <1>2, <1>6, <2>2, <3>1
    <3>2. CASE j \in Int /\ j > Len(s) /\ j - Len(s) \in DOMAIN t /\ u[j] = t[j - Len(s)]
      <4>1. i - Len(s) = j - Len(s)
        BY <1>6, <2>2, <3>2
      <4>. QED BY <1>2, <1>6, <2>2, <3>2, <4>1
    <3>. QED BY <1>1, <3>1, <3>2
  <2>. QED BY <1>1, <2>1, <2>2
<1>7. ASSUME NEW i \in DOMAIN u, Mark(u[i]), NEW k \in DOMAIN fs
      PROVE  fs[k] < u[i].frame
  <2>1. CASE i \in DOMAIN s /\ u[i] = s[i]
    BY <1>7, <2>1 DEF After
  <2>2. CASE i - Len(s) \in DOMAIN t /\ u[i] = t[i - Len(s)]
    <3>1. u[i].frame = n + 1
      BY <1>7, <2>2 DEF Mark
    <3>. QED BY <1>3, <3>1
  <2>. QED BY <1>1, <2>1, <2>2
<1>. QED BY <1>5, <1>6, <1>7 DEF Orderly, After, u

-----------------------------------------------------------------------------
(* Frames and what becomes of them.                                        *)

LEMMA FrameBytes ==
  ASSUME NEW f \in Nat, NEW p \in PayloadSizes, NEW v \in PayloadValues
  PROVE  /\ Frame(f, p, v) \in Seq(Bytes) /\ Len(Frame(f, p, v)) = p + 6
         /\ \A i \in 1 .. p + 6 : Frame(f, p, v)[i].frame = f /\ Frame(f, p, v)[i].place = i
<1> DEFINE last == FrameLength(p)
<1> DEFINE value(i) == CASE i = 1            -> Start
                         [] i = 2            -> (last - 2) \div 256
                         [] i = 3            -> (last - 2) % 256
                         [] i = last         -> End
                         [] i \in 4 .. last - 1 -> v
<1>1. p \in Nat /\ v \in Int /\ last = p + 6
  BY DecoderAssumption DEF FrameLength
<1>2. Frame(f, p, v) =
        [i \in 1 .. last |-> [val |-> value(i), frame |-> f, place |-> i, left |-> last - i]]
  BY DEF Frame
<1>3. ASSUME NEW i \in 1 .. last PROVE value(i) \in Int
  <2>1. (last - 2) \div 256 \in Int /\ (last - 2) % 256 \in Int
    BY <1>1
  <2>2. i = 1 \/ i = 2 \/ i = 3 \/ i = last \/ i \in 4 .. last - 1
    BY <1>1
  <2>. QED BY <1>1, <2>1, <2>2 DEF Start, End
<1> HIDE DEF value, last
<1>4. ASSUME NEW i \in 1 .. last
      PROVE  [val |-> value(i), frame |-> f, place |-> i, left |-> last - i] \in Bytes
  BY <1>1, <1>3 DEF Bytes
<1>5. Frame(f, p, v) \in [1 .. last -> Bytes]
  BY <1>2, <1>4
<1>6. last \in Nat
  BY <1>1
<1>7. Frame(f, p, v) \in Seq(Bytes) /\ Len(Frame(f, p, v)) = last
  BY <1>5, <1>6, LenProperties
<1>. QED BY <1>1, <1>2, <1>7

(* A frame without some of its bytes.                                      *)
LEMMA CutFrame ==
  ASSUME NEW f \in Nat, NEW t \in Seq(Bytes),
         \A m \in 1 .. Len(t) : t[m].frame = f /\ t[m].place = m,
         NEW i \in 1 .. Len(t), NEW j \in i .. Len(t)
  PROVE  /\ Without(t, i, j) \in Seq(Bytes)
         /\ \A m \in DOMAIN Without(t, i, j) : Without(t, i, j)[m].frame = f
         /\ \A m, o \in DOMAIN Without(t, i, j) :
              Mark(Without(t, i, j)[m]) /\ Mark(Without(t, i, j)[o]) => m = o
<1> DEFINE a == SubSeq(t, 1, i - 1)
<1> DEFINE b == SubSeq(t, j + 1, Len(t))
<1> DEFINE u == a \o b
<1>1. Len(t) \in Nat /\ i \in Nat /\ j \in Nat /\ i <= j /\ j <= Len(t) /\ i >= 1
  BY LenProperties
<1>2. /\ a \in Seq(Bytes) /\ Len(a) = i - 1
      /\ \A m \in DOMAIN a : m \in 1 .. i - 1 /\ a[m] = t[m]
  <2>1. /\ a \in Seq(Bytes) /\ Len(a) = i - 1
        /\ \A m \in 1 .. i - 1 : a[m] = t[m]
    BY <1>1, SubSeqProperties
  <2>2. DOMAIN a = 1 .. Len(a)
    BY <2>1, LenProperties
  <2>. QED BY <2>1, <2>2
<1>3. /\ b \in Seq(Bytes)
      /\ \A m \in DOMAIN b : m \in Int /\ m + j \in 1 .. Len(t) /\ m >= 1 /\ b[m] = t[m + j]
  <2>1. j + 1 \in 1 .. Len(t) + 1
    BY <1>1
  <2>2. /\ b \in Seq(Bytes)
        /\ \A m \in DOMAIN b : m \in Int /\ m + (j + 1) - 1 \in DOMAIN t /\ b[m] = t[m + (j + 1) - 1]
    BY <2>1, Suffix
  <2>3. DOMAIN b = 1 .. Len(b) /\ DOMAIN t = 1 .. Len(t) /\ Len(b) \in Nat
    BY <2>2, LenProperties
  <2>4. ASSUME NEW m \in DOMAIN b PROVE m + (j + 1) - 1 = m + j /\ m >= 1
    <3> HIDE DEF b
    <3>1. m \in Int /\ m >= 1
      BY <2>3
    <3>2. j \in Int
      BY <1>1
    <3>. QED BY <3>1, <3>2
  <2>. QED BY <2>2, <2>3, <2>4
<1>4. Without(t, i, j) = u
  BY DEF Without
<1> HIDE DEF a, b
<1>5. /\ u \in Seq(Bytes)
      /\ \A m \in DOMAIN u :
           \/ m \in DOMAIN a /\ u[m] = a[m]
           \/ m \in Int /\ m > Len(a) /\ m - Len(a) \in DOMAIN b /\ u[m] = b[m - Len(a)]
  BY <1>2, <1>3, Joined
<1> HIDE DEF u
<1>6. ASSUME NEW m \in DOMAIN u
      PROVE  /\ u[m].frame = f
             /\ \/ m \in 1 .. i - 1 /\ u[m].place = m
                \/ m \in Int /\ m >= i /\ u[m].place = m - (i - 1) + j
  <2>1. CASE m \in DOMAIN a /\ u[m] = a[m]
    <3>1. m \in 1 .. i - 1 /\ u[m] = t[m]
      BY <1>2, <2>1
    <3>2. m \in 1 .. Len(t)
      BY <1>1, <3>1
    <3>. QED BY <3>1, <3>2
  <2>2. CASE m \in Int /\ m > Len(a) /\ m - Len(a) \in DOMAIN b /\ u[m] = b[m - Len(a)]
    <3>1. (m - Len(a)) + j \in 1 .. Len(t) /\ u[m] = t[(m - Len(a)) + j]
      BY <1>3, <2>2
    <3>2. u[m].frame = f /\ u[m].place = (m - Len(a)) + j
      BY <3>1
    <3>. QED BY <1>1, <1>2, <2>2, <3>2
  <2>. QED BY <1>5, <2>1, <2>2
<1>7. ASSUME NEW m \in DOMAIN u, NEW o \in DOMAIN u, Mark(u[m]), Mark(u[o])
      PROVE  m = o
  <2>1. u[m].place = u[o].place
    BY <1>7 DEF Mark
  <2>. QED BY <1>1, <1>6, <2>1
<1>. QED BY <1>4, <1>5, <1>6, <1>7

(* A frame with one byte changed.                                          *)
LEMMA ChangedFrame ==
  ASSUME NEW f \in Nat, NEW t \in Seq(Bytes),
         \A m \in 1 .. Len(t) : t[m].frame = f /\ t[m].place = m,
         NEW i \in 1 .. Len(t), NEW g \in Changed(t, i)
  PROVE  /\ g \in Seq(Bytes)
         /\ \A m \in DOMAIN g : g[m].frame \in {0, f}
         /\ \A m, o \in DOMAIN g : Mark(g[m]) /\ Mark(g[o]) => m = o
<1> DEFINE byte(v) == [val |-> v, frame |-> 0, place |-> 0, left |-> 0]
<1>1. PICK v \in {0, MinSize % 256, MaxSize % 256, Start} :
        g = [k \in 1 .. Len(t) |-> IF k = i THEN byte(v) ELSE t[k]]
  BY DEF Changed
<1>2. v \in Int
  <2>1. MinSize % 256 \in Int /\ MaxSize % 256 \in Int
    BY DecoderAssumption
  <2>. QED BY <2>1 DEF Start
<1>3. Len(t) \in Nat /\ \A m \in 1 .. Len(t) : t[m] \in Bytes
  BY LenProperties, ElementOfSeq
<1>4. byte(v) \in Bytes
  BY <1>2 DEF Bytes
<1>5. g \in [1 .. Len(t) -> Bytes]
  BY <1>1, <1>3, <1>4
<1>6. g \in Seq(Bytes) /\ DOMAIN g = 1 .. Len(t)
  BY <1>3, <1>5
<1>7. ASSUME NEW m \in 1 .. Len(t)
      PROVE  g[m].frame \in {0, f} /\ (Mark(g[m]) => m = 4)
  BY <1>1 DEF Mark
<1>. QED BY <1>6, <1>7

LEMMA DropFront ==
  ASSUME NEW s \in Seq(Bytes), NEW t \in Seq(Bytes), NEW k \in 1 .. Len(s) + 1
  PROVE  SubSeq(s, k, Len(s)) \o t = SubSeq(s \o t, k, Len(s \o t))
<1> DEFINE a == SubSeq(s, k, Len(s))
<1> DEFINE u == s \o t
<1> DEFINE b == SubSeq(u, k, Len(u))
<1>1. /\ Len(s) \in Nat /\ Len(t) \in Nat /\ k \in Nat /\ k >= 1 /\ k <= Len(s) + 1
      /\ u \in Seq(Bytes) /\ Len(u) = Len(s) + Len(t)
      /\ \A i \in 1 .. Len(s) + Len(t) : u[i] = IF i <= Len(s) THEN s[i] ELSE t[i - Len(s)]
  BY LenProperties, ConcatProperties
<1>2. /\ a \in Seq(Bytes) /\ Len(a) = Len(s) - k + 1 /\ DOMAIN a = 1 .. Len(a)
      /\ \A i \in DOMAIN a : a[i] = s[i + k - 1]
  BY Suffix, LenProperties
<1> HIDE DEF u
<1>3. /\ b \in Seq(Bytes) /\ Len(b) = Len(u) - k + 1 /\ DOMAIN b = 1 .. Len(b)
      /\ \A i \in DOMAIN b : b[i] = u[i + k - 1]
  <2>1. k \in 1 .. Len(u) + 1
    BY <1>1
  <2>. QED BY <1>1, <2>1, Suffix, LenProperties
<1> HIDE DEF a, b
<1>4. /\ a \o t \in Seq(Bytes) /\ Len(a \o t) = Len(a) + Len(t)
      /\ \A i \in 1 .. Len(a) + Len(t) :
           (a \o t)[i] = IF i <= Len(a) THEN a[i] ELSE t[i - Len(a)]
  BY <1>2, ConcatProperties
<1>5. Len(a \o t) = Len(b)
  BY <1>1, <1>2, <1>3, <1>4
<1>6. ASSUME NEW i \in 1 .. Len(a \o t) PROVE (a \o t)[i] = b[i]
  <2>1. i \in Nat /\ i >= 1 /\ i <= Len(a) + Len(t) /\ i \in DOMAIN b
    BY <1>1, <1>2, <1>3, <1>4, <1>5
  <2>2. i + k - 1 \in 1 .. Len(s) + Len(t)
    BY <1>1, <1>2, <2>1
  <2>3. b[i] = IF i + k - 1 <= Len(s) THEN s[i + k - 1] ELSE t[(i + k - 1) - Len(s)]
    BY <1>1, <1>3, <2>1, <2>2
  <2>4. CASE i <= Len(a)
    <3>1. (a \o t)[i] = s[i + k - 1]
      <4>1. i \in 1 .. Len(a) + Len(t) /\ i \in DOMAIN a
        BY <1>1, <1>2, <2>1, <2>4
      <4>2. (a \o t)[i] = a[i]
        BY <1>4, <2>4, <4>1
      <4>. QED BY <1>2, <4>1, <4>2
    <3>2. i + k - 1 <= Len(s)
      BY <1>1, <1>2, <2>1, <2>4
    <3>. QED BY <2>3, <3>1, <3>2
  <2>5. CASE i > Len(a)
    <3>1. (a \o t)[i] = t[i - Len(a)]
      BY <1>1, <1>2, <1>4, <2>1, <2>5
    <3>2. ~(i + k - 1 <= Len(s)) /\ (i + k - 1) - Len(s) = i - Len(a)
      BY <1>1, <1>2, <2>1, <2>5
    <3>. QED BY <2>3, <3>1, <3>2
  <2>. QED BY <1>1, <1>2, <2>1, <2>4, <2>5
<1>7. a \o t = b
  BY <1>3, <1>4, <1>5, <1>6, SeqEqual
<1>. QED BY <1>7 DEF a, b, u

-----------------------------------------------------------------------------
(* Steps.                                                                  *)

(* Bytes leave the front of the stream.                                    *)
LEMMA StreamShrinks ==
  ASSUME DecoderInv, NEW k \in 1 .. Len(Stream) + 1,
         Stream' = SubSeq(Stream, k, Len(Stream)), UNCHANGED <<sent, got>>
  PROVE  InOrder'
<1>1. Stream \in Seq(Bytes) /\ Len(sent) \in Nat
  BY Joined, LenProperties DEF DecoderInv, TypesOK, Stream
<1>2. Orderly(SubSeq(Stream, k, Len(Stream)), Len(sent)) /\ After(SubSeq(Stream, k, Len(Stream)), got)
  BY <1>1, SuffixKeeps DEF DecoderInv, InOrder
<1>. QED BY <1>2 DEF DecoderInv, InOrder

(* A frame is sent: what arrives of it follows in the stream.              *)
LEMMA StreamGrows ==
  ASSUME DecoderInv, NEW t \in Seq(Bytes), line' = line \o t, NEW type \in {"data", "ack"},
         sent' = Append(sent, type), UNCHANGED <<buffer, got>>,
         \A i \in DOMAIN t : t[i].frame \in {0, Len(sent) + 1},
         \A i, j \in DOMAIN t : Mark(t[i]) /\ Mark(t[j]) => i = j
  PROVE  TypesOK' /\ InOrder'
<1>1. /\ buffer \in Seq(Bytes) /\ line \in Seq(Bytes) /\ got \in Seq(Nat)
      /\ Stream \in Seq(Bytes) /\ Len(sent) \in Nat
  BY Joined, LenProperties DEF DecoderInv, TypesOK, Stream
<1>2. TypesOK' /\ Len(sent') = Len(sent) + 1
  BY <1>1, Joined, AppendProperties DEF DecoderInv, TypesOK
<1>3. Stream' = Stream \o t
  <2>1. (buffer \o line) \o t = buffer \o (line \o t)
    BY ONLY <1>1, Regrouped
  <2>2. Stream' = buffer \o (line \o t)
    BY DEF Stream
  <2>. QED BY <2>1, <2>2 DEF Stream
<1>4. /\ Orderly(Stream, Len(sent)) /\ After(Stream, got)
      /\ \A k \in DOMAIN got : got[k] <= Len(sent)
  BY DEF DecoderInv, InOrder
<1>5. Orderly(Stream', Len(sent')) /\ After(Stream', got)
  BY <1>1, <1>2, <1>3, <1>4, JoinKeeps
<1>6. \A k \in DOMAIN got : got[k] <= Len(sent')
  <2>1. \A k \in DOMAIN got : got[k] \in Nat
    BY <1>1, ElementOfSeq, LenProperties
  <2>. QED BY <1>1, <1>2, <1>4, <2>1
<1>. QED BY <1>2, <1>5, <1>6 DEF InOrder

LEMMA BusKeeps ==
  ASSUME DecoderInv, Bus
  PROVE  DecoderInv' /\ Channel!Send
<1>. USE DEF DecoderInv
<1>1. Len(sent) \in Nat
  BY LenProperties DEF TypesOK
<1>2. CASE SendFrame
  <2>1. PICK type \in {"data", "ack"}, p \in PayloadSizes, v \in PayloadValues :
          /\ sent' = Append(sent, type) /\ line' = line \o Frame(Len(sent) + 1, p, v)
          /\ UNCHANGED <<buffer, pc, got>>
    BY <1>2 DEF SendFrame
  <2> DEFINE t == Frame(Len(sent) + 1, p, v)
  <2>2. /\ t \in Seq(Bytes)
        /\ \A i \in 1 .. Len(t) : t[i].frame = Len(sent) + 1 /\ t[i].place = i
    BY <1>1, FrameBytes
  <2> HIDE DEF t
  <2>3. DOMAIN t = 1 .. Len(t)
    BY <2>2, LenProperties
  <2>4. \A i, j \in DOMAIN t : Mark(t[i]) /\ Mark(t[j]) => i = j
    BY <2>2, <2>3 DEF Mark
  <2>5. TypesOK' /\ InOrder'
    BY <2>1, <2>2, <2>3, <2>4, StreamGrows DEF t
  <2>6. Len(sent') = Len(sent) + 1
    BY <2>1, AppendProperties DEF TypesOK
  <2>. QED BY <2>1, <2>5, <2>6 DEF BufferDrained, Channel!Send
<1>3. CASE SendDamaged
  <2>1. PICK p \in PayloadSizes, v \in PayloadValues :
          /\ \E i \in 1 .. Len(Frame(Len(sent) + 1, p, v)) :
               \/ \E j \in {i, Len(Frame(Len(sent) + 1, p, v))} :
                    line' = line \o Without(Frame(Len(sent) + 1, p, v), i, j)
               \/ \E g \in Changed(Frame(Len(sent) + 1, p, v), i) : line' = line \o g
          /\ sent' = Append(sent, "data")
          /\ UNCHANGED <<buffer, pc, got>>
    BY <1>3 DEF SendDamaged
  <2> DEFINE frame == Frame(Len(sent) + 1, p, v)
  <2>2. /\ frame \in Seq(Bytes)
        /\ \A i \in 1 .. Len(frame) : frame[i].frame = Len(sent) + 1 /\ frame[i].place = i
    BY <1>1, FrameBytes
  <2>3. PICK i \in 1 .. Len(frame) :
          \/ \E j \in {i, Len(frame)} : line' = line \o Without(frame, i, j)
          \/ \E g \in Changed(frame, i) : line' = line \o g
    BY <2>1
  <2> HIDE DEF frame
  <2>4. TypesOK' /\ InOrder'
    <3>1. ASSUME NEW j \in {i, Len(frame)}, line' = line \o Without(frame, i, j)
          PROVE  TypesOK' /\ InOrder'
      <4>1. Len(frame) \in Nat /\ j \in i .. Len(frame)
        BY <2>2, LenProperties
      <4> DEFINE t == Without(frame, i, j)
      <4>2. /\ t \in Seq(Bytes)
            /\ \A m \in DOMAIN t : t[m].frame = Len(sent) + 1
            /\ \A m, o \in DOMAIN t : Mark(t[m]) /\ Mark(t[o]) => m = o
        <5>1. Len(sent) + 1 \in Nat
          BY <1>1
        <5>. QED BY ONLY <2>2, <2>3, <4>1, <5>1, CutFrame DEF t
      <4>3. line' = line \o t
        BY <3>1
      <4> HIDE DEF t
      <4>. QED BY <2>1, <4>2, <4>3, StreamGrows
    <3>2. ASSUME NEW g \in Changed(frame, i), line' = line \o g
          PROVE  TypesOK' /\ InOrder'
      <4>1. /\ g \in Seq(Bytes)
            /\ \A m \in DOMAIN g : g[m].frame \in {0, Len(sent) + 1}
            /\ \A m, o \in DOMAIN g : Mark(g[m]) /\ Mark(g[o]) => m = o
        BY <1>1, <2>2, ChangedFrame
      <4>. QED BY <2>1, <3>2, <4>1, StreamGrows
    <3>. QED BY <2>3, <3>1, <3>2
  <2>5. Len(sent') = Len(sent) + 1
    BY <2>1, AppendProperties DEF TypesOK
  <2>. QED BY <2>1, <2>4, <2>5 DEF BufferDrained, Channel!Send
<1>. QED BY <1>2, <1>3 DEF Bus

LEMMA ReceiveKeeps ==
  ASSUME DecoderInv, GetRecvData
  PROVE  DecoderInv' /\ UNCHANGED <<sent, got>>
<1>. USE DEF DecoderInv, TypesOK
<1>1. /\ UNCHANGED <<sent, got>> /\ pc' = "decode"
      /\ \E n \in 0 .. Len(line) : /\ buffer' = Kept \o SubSeq(line, 1, n)
                                   /\ line' = SubSeq(line, n + 1, Len(line))
  BY DEF GetRecvData
<1>2. PICK n \in 0 .. Len(line) : /\ buffer' = Kept \o SubSeq(line, 1, n)
                                  /\ line' = SubSeq(line, n + 1, Len(line))
  BY <1>1
<1>3. Len(line) \in Nat /\ Len(buffer) \in Nat
  BY LenProperties
<1>4. SubSeq(line, 1, n) \in Seq(Bytes)
  <2>1. \A i \in 1 .. n : line[i] \in Bytes
    BY <1>3, LenProperties, ElementOfSeq
  <2>. QED BY <1>3, <2>1, SubSeqProperties
<1>5. SubSeq(line, n + 1, Len(line)) \in Seq(Bytes)
  <2>1. n + 1 \in 1 .. Len(line) + 1
    BY <1>3
  <2>. QED BY <2>1, Suffix
<1>6. Kept \in Seq(Bytes)
  BY EmptySeq DEF Kept
<1>7. Stream' = Kept \o line
  <2>1. 1 \in 1 .. Len(line) + 1 /\ n \in 0 .. Len(line) /\ 1 - 1 = 0 /\ Len(line) \in n .. Len(line)
    BY <1>3
  <2>2. SubSeq(line, 1, n) \o SubSeq(line, n + 1, Len(line)) = SubSeq(line, 1, Len(line))
    BY <2>1, ConcatAdjacentSubSeq
  <2>3. SubSeq(line, 1, Len(line)) = line
    BY SubSeqFull
  <2>4. (Kept \o SubSeq(line, 1, n)) \o SubSeq(line, n + 1, Len(line))
          = Kept \o (SubSeq(line, 1, n) \o SubSeq(line, n + 1, Len(line)))
    BY ONLY <1>4, <1>5, <1>6, Regrouped
  <2>. QED BY <1>2, <2>2, <2>3, <2>4 DEF Stream
<1>8. InOrder'
  <2>1. CASE Kept = buffer
    <3>1. Stream' = Stream
      BY <1>7, <2>1 DEF Stream
    <3>. QED BY <1>1, <3>1 DEF InOrder
  <2>2. CASE Kept = <<>>
    <3>1. Stream' = line
      BY <1>7, <2>2, ConcatEmptySeq
    <3>2. Len(buffer) + 1 \in 1 .. Len(buffer) + 1
      BY <1>3
    <3>3. SubSeq(buffer, Len(buffer) + 1, Len(buffer)) = <<>>
      BY <1>3, SubSeqEmpty
    <3>4. line = SubSeq(Stream, Len(buffer) + 1, Len(Stream))
      BY <3>2, <3>3, DropFront, ConcatEmptySeq DEF Stream
    <3>5. Len(buffer) + 1 \in 1 .. Len(Stream) + 1
      BY <1>3, Joined DEF Stream
    <3>. QED BY <1>1, <3>1, <3>4, <3>5, StreamShrinks
  <2>. QED BY <2>1, <2>2 DEF Kept
<1>9. buffer' \in Seq(Bytes)
  BY <1>2, <1>4, <1>6, ConcatProperties
<1>. QED BY <1>1, <1>2, <1>5, <1>8, <1>9 DEF BufferDrained

(* decode takes k - 1 bytes from the front of the buffer.                  *)
LEMMA BufferShrinks ==
  ASSUME DecoderInv, NEW k \in 1 .. Len(buffer) + 1,
         buffer' = SubSeq(buffer, k, Len(buffer)), UNCHANGED line
  PROVE  /\ buffer' \in Seq(Bytes)
         /\ k \in 1 .. Len(Stream) + 1 /\ Stream' = SubSeq(Stream, k, Len(Stream))
<1>. USE DEF DecoderInv, TypesOK
<1>1. Len(line) \in Nat /\ Len(buffer) \in Nat /\ Len(Stream) = Len(buffer) + Len(line)
  BY LenProperties, Joined DEF Stream
<1>2. k \in 1 .. Len(Stream) + 1
  BY <1>1
<1>3. Stream' = SubSeq(Stream, k, Len(Stream))
  BY DropFront DEF Stream
<1>. QED BY <1>2, <1>3, Suffix

LEMMA DropKeeps ==
  ASSUME DecoderInv, DropByte
  PROVE  DecoderInv' /\ UNCHANGED <<sent, got>>
<1>. USE DEF DecoderInv, TypesOK
<1>1. /\ pc = "decode" /\ Len(buffer) > MinSize /\ buffer' = Tail(buffer)
      /\ UNCHANGED <<line, pc, sent, got>>
  BY DEF DropByte
<1>2. Len(buffer) \in Nat /\ MinSize \in Nat
  BY LenProperties, DecoderAssumption
<1>3. buffer # <<>>
  <2>1. Len(buffer) # 0
    BY <1>1, <1>2
  <2>. QED BY <2>1, EmptySeq
<1>4. buffer' = SubSeq(buffer, 2, Len(buffer))
  BY <1>1, <1>3, TailIsSubSeq
<1>5. 2 \in 1 .. Len(buffer) + 1
  BY <1>1, <1>2
<1>6. buffer' \in Seq(Bytes) /\ InOrder'
  BY <1>1, <1>4, <1>5, BufferShrinks, StreamShrinks
<1>. QED BY <1>1, <1>6 DEF BufferDrained

LEMMA TakeKeeps ==
  ASSUME DecoderInv, TakeCandidate
  PROVE  DecoderInv' /\ (Channel!Deliver \/ UNCHANGED <<sent, got>>)
<1>. USE DEF DecoderInv, TypesOK
<1> DEFINE size == ExpectedSize + 2
<1> DEFINE c == SubSeq(buffer, 1, size)
<1>1. /\ pc = "decode" /\ PlausibleSize /\ Len(buffer) >= size
      /\ got' = (IF DecodesOk(c) /\ ~Acknowledges(c) THEN Append(got, c[4].frame) ELSE got)
      /\ buffer' = SubSeq(buffer, Len(c) + 1, Len(buffer))
      /\ UNCHANGED <<line, pc, sent>>
  BY DEF TakeCandidate, Candidate, AfterCandidate
<1>2. size \in Nat /\ size >= 4
  BY <1>1, DecoderAssumption DEF PlausibleSize
<1>3. Len(buffer) \in Nat
  BY LenProperties
<1> HIDE DEF size
<1>4. Len(c) = size /\ c[4] = buffer[4] /\ 4 \in DOMAIN buffer
  <2>1. \A i \in 1 .. size : buffer[i] \in Bytes
    BY <1>1, <1>2, <1>3, LenProperties, ElementOfSeq
  <2>2. /\ Len(c) = IF 1 <= size THEN size - 1 + 1 ELSE 0
        /\ \A i \in 1 .. size - 1 + 1 : c[i] = buffer[1 + i - 1]
    BY <1>2, <2>1, SubSeqProperties
  <2>3. 4 \in 1 .. size - 1 + 1 /\ 1 + 4 - 1 = 4
    BY <1>2
  <2>4. DOMAIN buffer = 1 .. Len(buffer)
    BY LenProperties
  <2>5. 4 \in 1 .. Len(buffer)
    BY <1>1, <1>2, <1>3
  <2>. QED BY <1>2, <2>2, <2>3, <2>4, <2>5
<1> DEFINE k == size + 1
<1>5. k \in 1 .. Len(buffer) + 1 /\ buffer' = SubSeq(buffer, k, Len(buffer)) /\ k > 4
  <2>1. Len(c) + 1 = k
    BY <1>4
  <2>2. k \in 1 .. Len(buffer) + 1 /\ k > 4
    BY <1>1, <1>2, <1>3
  <2>. QED BY <1>1, <2>1, <2>2
<1> HIDE DEF k, c
<1>6. /\ buffer' \in Seq(Bytes)
      /\ k \in 1 .. Len(Stream) + 1 /\ Stream' = SubSeq(Stream, k, Len(Stream))
  BY <1>1, <1>5, BufferShrinks
<1>7. CASE got' = got
  BY <1>1, <1>6, <1>7, StreamShrinks DEF BufferDrained
<1>8. CASE DecodesOk(c) /\ got' = Append(got, c[4].frame)
  <2> DEFINE f == c[4].frame
  <2>1. Stream \in Seq(Bytes) /\ 4 \in DOMAIN Stream /\ Stream[4] = buffer[4]
        /\ Len(sent) \in Nat /\ Len(Stream) \in Nat
    <3>1. /\ Stream \in Seq(Bytes) /\ Len(Stream) = Len(buffer) + Len(line)
          /\ \A i \in 1 .. Len(buffer) + Len(line) :
               Stream[i] = IF i <= Len(buffer) THEN buffer[i] ELSE line[i - Len(buffer)]
      BY ConcatProperties DEF Stream
    <3>2. /\ DOMAIN Stream = 1 .. Len(Stream) /\ DOMAIN buffer = 1 .. Len(buffer)
          /\ Len(line) \in Nat /\ Len(sent) \in Nat
      BY <3>1, LenProperties
    <3>3. 4 \in 1 .. Len(buffer) + Len(line) /\ 4 <= Len(buffer)
      BY <1>3, <1>4, <3>2
    <3>. QED BY <1>3, <3>1, <3>2, <3>3
  <2>2. Mark(Stream[4]) /\ f = Stream[4].frame
    BY <1>4, <1>8, <2>1 DEF DecodesOk, CrcFits, Mark
  <2>3. f \in Nat
    <3>1. Stream[4] \in Bytes
      BY <2>1, LenProperties, ElementOfSeq
    <3>. QED BY <2>2, <3>1 DEF Bytes
  <2> HIDE DEF f
  <2>4. f \in 1 .. Len(sent)
    <3>1. f <= Len(sent) /\ f # 0
      BY <2>1, <2>2 DEF InOrder, Orderly, Mark
    <3>. QED BY <2>1, <2>3, <3>1
  <2>5. \A o \in DOMAIN got : got[o] < f
    BY <2>1, <2>2 DEF InOrder, After
  <2>6. got' = Append(got, f)
    BY <1>8 DEF f
  <2>7. /\ got' \in Seq(Nat) /\ DOMAIN got = 1 .. Len(got)
        /\ \A o \in DOMAIN got' : got'[o] = f \/ (o \in DOMAIN got /\ got'[o] = got[o])
    <3>1. /\ got' \in Seq(Nat) /\ Len(got') = Len(got) + 1
          /\ \A o \in 1 .. Len(got) : got'[o] = got[o]
          /\ got'[Len(got) + 1] = f
      BY <2>3, <2>6, AppendProperties
    <3>2. DOMAIN got = 1 .. Len(got) /\ DOMAIN got' = 1 .. Len(got') /\ Len(got) \in Nat
      BY <3>1, LenProperties
    <3>3. \A o \in 1 .. Len(got) + 1 : o \in 1 .. Len(got) \/ o = Len(got) + 1
      BY <3>2
    <3>. QED BY <3>1, <3>2, <3>3
  <2>8. \A i \in DOMAIN Stream' :
          /\ i \in Int /\ i + k - 1 \in DOMAIN Stream
          /\ Stream'[i] = Stream[i + k - 1] /\ i >= 1
    <3>1. Stream' \in Seq(Bytes)
            /\ \A i \in DOMAIN Stream' :
                 i \in Int /\ i + k - 1 \in DOMAIN Stream /\ Stream'[i] = Stream[i + k - 1]
      BY <1>6, <2>1, Suffix
    <3>2. \A i \in DOMAIN Stream' : i >= 1
      BY <3>1, LenProperties
    <3>. QED BY <3>1, <3>2
  <2>9. ASSUME NEW i \in DOMAIN Stream', Mark(Stream'[i]), NEW o \in DOMAIN got'
        PROVE  got'[o] < Stream'[i].frame
    <3>1. i + k - 1 \in DOMAIN Stream /\ Stream'[i] = Stream[i + k - 1] /\ 4 < i + k - 1
      BY <1>5, <2>8
    <3>2. CASE got'[o] = f
      BY <2>1, <2>2, <2>9, <3>1, <3>2 DEF InOrder, Orderly
    <3>3. CASE o \in DOMAIN got /\ got'[o] = got[o]
      BY <2>9, <3>1, <3>3 DEF InOrder, After
    <3>. QED BY <2>7, <3>2, <3>3
  <2>10. Orderly(Stream', Len(sent))
    BY <1>6, <2>1, SuffixKeeps DEF InOrder
  <2>11. \A o \in DOMAIN got' : got'[o] <= Len(sent')
    <3>1. f <= Len(sent)
      BY <2>1, <2>4
    <3>. QED BY <1>1, <2>7, <3>1 DEF InOrder
  <2>12. InOrder'
    BY <1>1, <2>9, <2>10, <2>11 DEF InOrder, After
  <2>13. Channel!Deliver
    BY <1>1, <2>4, <2>5, <2>6, <2>7 DEF Channel!Deliver
  <2>. QED BY <1>1, <1>6, <2>7, <2>12, <2>13 DEF BufferDrained
<1>. QED
  <2>1. got' = got \/ (DecodesOk(c) /\ got' = Append(got, c[4].frame))
    BY <1>1 DEF c
  <2>. QED BY <1>7, <1>8, <2>1

LEMMA WaitKeeps ==
  ASSUME DecoderInv, WaitForMore
  PROVE  DecoderInv' /\ UNCHANGED <<sent, got>>
<1>1. UNCHANGED <<line, buffer, sent, got>>
  BY DEF WaitForMore
<1>2. TypesOK' /\ InOrder'
  BY <1>1 DEF DecoderInv, TypesOK, InOrder, Stream
<1>3. Len(buffer) < MaxSize + 2
  <2>1. /\ Len(buffer) \in Nat /\ MinSize \in Nat /\ MaxSize \in Nat /\ MinSize <= MaxSize
    BY LenProperties, DecoderAssumption DEF DecoderInv, TypesOK
  <2>2. CASE Len(buffer) <= MinSize
    BY <2>1, <2>2
  <2>3. CASE PlausibleSize /\ Len(buffer) < ExpectedSize + 2
    <3>1. ExpectedSize \in MinSize .. MaxSize
      BY <2>3 DEF PlausibleSize
    <3> HIDE DEF ExpectedSize
    <3>. QED BY <2>1, <2>3, <3>1
  <2>. QED BY <2>2, <2>3 DEF WaitForMore
<1>. QED BY <1>1, <1>2, <1>3 DEF DecoderInv, BufferDrained

LEMMA DecoderStep ==
  DecoderInv /\ [Next]_vars => DecoderInv' /\ [Channel!Next]_<<Len(sent), got>>
<1>. SUFFICES ASSUME DecoderInv, [Next]_vars
              PROVE  DecoderInv' /\ [Channel!Next]_<<Len(sent), got>>
  OBVIOUS
<1>1. CASE UNCHANGED vars
  BY <1>1 DEF vars, DecoderInv, TypesOK, InOrder, Stream, BufferDrained
<1>2. CASE Bus
  BY <1>2, BusKeeps DEF Channel!Next
<1>3. CASE TakeCandidate
  BY <1>3, TakeKeeps DEF Channel!Next
<1>4. CASE GetRecvData \/ DropByte \/ WaitForMore
  BY <1>4, ReceiveKeeps, DropKeeps, WaitKeeps
<1>. QED BY <1>1, <1>2, <1>3, <1>4 DEF Next, Decoder

LEMMA DecoderInit == Init => DecoderInv /\ Channel!Init
<1>. SUFFICES ASSUME Init PROVE DecoderInv /\ Channel!Init
  OBVIOUS
<1>1. line = <<>> /\ buffer = <<>> /\ sent = <<>> /\ got = <<>>
  BY DEF Init
<1>2. Stream = <<>>
  BY <1>1, EmptySeq, ConcatEmptySeq DEF Stream
<1>3. TypesOK
  BY <1>1, EmptySeq DEF TypesOK
<1>4. DOMAIN Stream = {} /\ DOMAIN got = {} /\ Len(sent) = 0 /\ Len(buffer) = 0
  BY <1>1, <1>2
<1>5. InOrder
  BY <1>4 DEF InOrder, Orderly, After
<1>6. BufferDrained
  BY <1>4, DecoderAssumption DEF BufferDrained
<1>. QED BY <1>1, <1>3, <1>4, <1>5, <1>6 DEF DecoderInv, Channel!Init

(* nasa_protocol.cpp:62-118, what is on its way keeps the order it was sent *)
(* in, and what waits in the buffer is less than a packet.                 *)
THEOREM DecoderInvariant == Spec => []DecoderInv
BY DecoderInit, DecoderStep, PTL DEF Spec

(* nasa_protocol.cpp:84-89, decode never returns with a whole packet of    *)
(* the largest size in the buffer, whatever arrived.                       *)
THEOREM Drained == Spec => []BufferDrained
<1>1. DecoderInv => BufferDrained
  BY DEF DecoderInv
<1>. QED BY <1>1, DecoderInvariant, PTL

(* nasa_protocol.cpp:62-118, the decoder implements the channel that only   *)
(* loses frames, however many are cut, damaged or thrown away.             *)
THEOREM ChannelImplemented == Spec => FramesOnlyLost
BY DecoderInit, DecoderStep, PTL DEF Spec, FramesOnlyLost, Channel!Spec

-----------------------------------------------------------------------------
(* The decoder finds its way back.  Candidates are no longer than Far: one *)
(* that begins in what misled the decoder ends at most Far bytes later.    *)

Far == MaxSize + 2

(* A whole frame begins at place b.                                        *)
IntactAt(s, b) ==
  /\ b \in 1 .. Len(s)
  /\ s[b].left + 1 \in MinSize + 2 .. MaxSize /\ b + s[b].left <= Len(s)
  /\ s[b].val = Start /\ s[b + 1].val * 256 + s[b + 2].val + 1 = s[b].left
  /\ s[b + s[b].left].val = End
  /\ \A i \in b .. b + s[b].left :
       s[i].frame = s[b].frame /\ s[i].place = i - b + 1 /\ s[i].left = s[b].left - (i - b)

(* From low on, before high, nothing but a frame begins with Start.        *)
Quiet(s, low, high) ==
  \A k \in low .. high - 1 :
    k >= 1 => s[k].val # Start \/ (IntactAt(s, k) /\ k + s[k].left < high)

(* From gate on, before high, there is frame after frame.                  *)
Framed(s, gate, high) ==
  \A k \in gate .. high - 1 :
    \E b \in gate .. k : IntactAt(s, b) /\ k <= b + s[b].left /\ b + s[b].left < high

(* The decoder, now at place 1, will come to place p: what misleads it ends*)
(* at place d, Far before the gate, and is followed by nothing that leads  *)
(* beyond the gate.                                                        *)
ComesTo(s, p) ==
  \E gate \in 1 .. p : \E d \in 0 .. p :
    /\ d = 0 \/ d + Far <= gate
    /\ Quiet(s, d + 1, gate) /\ Framed(s, gate, p)

(* A frame in one stream is one in another that has the same bytes there.  *)
LEMMA IntactMoves ==
  ASSUME NEW s \in Seq(Bytes), NEW u \in Seq(Bytes), NEW o \in Int, NEW b \in Int,
         IntactAt(s, b), b + o >= 1, b + s[b].left + o <= Len(u),
         \A i \in b .. b + s[b].left : u[i + o] = s[i]
  PROVE  IntactAt(u, b + o) /\ u[b + o] = s[b]
<1>1. Len(s) \in Nat /\ Len(u) \in Nat /\ MinSize \in Nat /\ MinSize >= 2 /\ MaxSize \in Nat
  BY LenProperties, DecoderAssumption
<1>2. PICK left \in Int : left = s[b].left
  <2>1. s[b] \in Bytes
    BY LenProperties, ElementOfSeq DEF IntactAt
  <2>. QED BY <2>1 DEF Bytes
<1>3. left >= 3 /\ left + 1 \in MinSize + 2 .. MaxSize
  BY <1>1, <1>2 DEF IntactAt
<1>4. u[b + o] = s[b] /\ u[b + o + 1] = s[b + 1] /\ u[b + o + 2] = s[b + 2]
        /\ u[b + o + left] = s[b + left]
  <2>1. /\ b \in b .. b + left /\ b + 1 \in b .. b + left /\ b + 2 \in b .. b + left
        /\ b + left \in b .. b + left
    BY <1>3
  <2>2. u[b + o] = s[b] /\ u[(b + 1) + o] = s[b + 1] /\ u[(b + 2) + o] = s[b + 2]
          /\ u[(b + left) + o] = s[b + left]
    BY <1>2, <2>1
  <2>3. (b + 1) + o = b + o + 1 /\ (b + 2) + o = b + o + 2 /\ (b + left) + o = b + o + left
    OBVIOUS
  <2>. QED BY <2>2, <2>3
<1>5. ASSUME NEW i \in b + o .. b + o + left
      PROVE  /\ u[i].frame = u[b + o].frame /\ u[i].place = i - (b + o) + 1
             /\ u[i].left = left - (i - (b + o))
  <2>1. i - o \in b .. b + left /\ (i - o) + o = i /\ (i - o) - b = i - (b + o)
    BY <1>3
  <2>2. u[i] = s[i - o]
    BY <1>2, <2>1
  <2>3. /\ s[i - o].frame = s[b].frame /\ s[i - o].place = (i - o) - b + 1
        /\ s[i - o].left = left - ((i - o) - b)
    BY <1>2, <2>1 DEF IntactAt
  <2>. QED BY <1>4, <2>1, <2>2, <2>3
<1>6. b + o \in 1 .. Len(u) /\ b + o + left <= Len(u)
  BY <1>1, <1>2, <1>3
<1>7. /\ s[b].val = Start /\ s[b + 1].val * 256 + s[b + 2].val + 1 = left
      /\ s[b + left].val = End
  BY <1>2 DEF IntactAt
<1>8. u[b + o].left = left
  BY <1>2, <1>4
<1>. QED BY <1>3, <1>4, <1>5, <1>6, <1>7, <1>8 DEF IntactAt

(* The bytes of a frame are in its own place.                              *)
LEMMA IntactFacts ==
  ASSUME NEW s \in Seq(Bytes), NEW b, IntactAt(s, b)
  PROVE  /\ b \in Int /\ b >= 1 /\ s[b].left \in Int /\ s[b].left >= 3
         /\ b + s[b].left <= Len(s) /\ s[b].left + 1 <= MaxSize /\ MinSize + 2 <= s[b].left + 1
         /\ s[b].place = 1
<1>1. Len(s) \in Nat /\ MinSize \in Nat /\ MinSize >= 2 /\ MaxSize \in Nat
  BY LenProperties, DecoderAssumption
<1>2. b \in Int /\ b >= 1 /\ s[b].left + 1 \in MinSize + 2 .. MaxSize /\ b + s[b].left <= Len(s)
  BY <1>1 DEF IntactAt
<1>3. s[b].left \in Int
  <2>1. s[b] \in Bytes
    BY LenProperties, ElementOfSeq DEF IntactAt
  <2>. QED BY <2>1 DEF Bytes
<1>4. b \in b .. b + s[b].left
  BY <1>1, <1>2, <1>3
<1>5. s[b].place = b - b + 1
  BY <1>4 DEF IntactAt
<1>6. b - b + 1 = 1
  BY <1>2
<1>7. PICK left \in Int : left = s[b].left
  BY <1>3
<1>8. left + 1 \in MinSize + 2 .. MaxSize
  BY <1>2, <1>7
<1>9. left >= 3 /\ left + 1 <= MaxSize /\ MinSize + 2 <= left + 1
  BY ONLY <1>1, <1>8, left \in Int
<1>. QED BY <1>2, <1>3, <1>5, <1>6, <1>7, <1>9

(* Frames do not overlap.                                                  *)
LEMMA IntactApart ==
  ASSUME NEW s \in Seq(Bytes), NEW b, NEW c, IntactAt(s, b), IntactAt(s, c), b < c
  PROVE  b + s[b].left < c
<1>1. /\ b \in Int /\ c \in Int /\ s[b].left \in Int /\ s[c].place = 1
  BY IntactFacts
<1>2. CASE c <= b + s[b].left
  <2>1. s[c].place = c - b + 1
    BY <1>1, <1>2 DEF IntactAt
  <2>. QED BY <1>1, <2>1
<1>. QED BY <1>1, <1>2

(* Bytes that follow change nothing of what is there.                      *)
LEMMA IntactStays ==
  ASSUME NEW s \in Seq(Bytes), NEW t \in Seq(Bytes), NEW b, IntactAt(s, b)
  PROVE  IntactAt(s \o t, b) /\ (s \o t)[b] = s[b]
<1> DEFINE u == s \o t
<1>1. /\ u \in Seq(Bytes) /\ Len(u) = Len(s) + Len(t) /\ Len(s) \in Nat /\ Len(t) \in Nat
      /\ \A i \in 1 .. Len(s) : u[i] = s[i]
  BY ConcatProperties, LenProperties
<1>2. b \in Int /\ b >= 1 /\ s[b].left \in Int /\ b + s[b].left <= Len(s)
  BY IntactFacts
<1> HIDE DEF u
<1>3. b + 0 >= 1 /\ b + s[b].left + 0 <= Len(u) /\ 0 \in Int
  BY <1>1, <1>2
<1>4. ASSUME NEW i \in b .. b + s[b].left PROVE u[i + 0] = s[i]
  <2>1. i \in 1 .. Len(s) /\ i + 0 = i
    BY <1>1, <1>2
  <2>. QED BY <1>1, <2>1
<1>5. IntactAt(u, b + 0) /\ u[b + 0] = s[b]
  BY <1>1, <1>2, <1>3, <1>4, IntactMoves
<1>6. b + 0 = b
  BY <1>2
<1>. QED BY <1>5, <1>6 DEF u

LEMMA QuietStays ==
  ASSUME NEW s \in Seq(Bytes), NEW t \in Seq(Bytes), NEW low \in Int, NEW high \in Int,
         high <= Len(s) + 1, Quiet(s, low, high)
  PROVE  Quiet(s \o t, low, high)
<1>1. ASSUME NEW k \in low .. high - 1, k >= 1
      PROVE  (s \o t)[k].val # Start
               \/ (IntactAt(s \o t, k) /\ k + (s \o t)[k].left < high)
  <2>1. CASE s[k].val # Start
    <3>1. k \in 1 .. Len(s)
      BY <1>1, LenProperties
    <3>2. (s \o t)[k] = s[k]
      <4>1. /\ Len(s) \in Nat /\ Len(t) \in Nat
            /\ \A i \in 1 .. Len(s) + Len(t) : (s \o t)[i] = IF i <= Len(s) THEN s[i] ELSE t[i - Len(s)]
        BY ConcatProperties, LenProperties
      <4>2. k \in 1 .. Len(s) + Len(t) /\ k <= Len(s)
        BY <3>1, <4>1
      <4>. QED BY <4>1, <4>2
    <3>. QED BY <2>1, <3>2
  <2>2. CASE IntactAt(s, k) /\ k + s[k].left < high
    BY <2>2, IntactStays
  <2>. QED BY <1>1, <2>1, <2>2 DEF Quiet
<1>. QED BY <1>1 DEF Quiet

LEMMA FramedStays ==
  ASSUME NEW s \in Seq(Bytes), NEW t \in Seq(Bytes), NEW low \in Int, NEW high \in Int,
         Framed(s, low, high)
  PROVE  Framed(s \o t, low, high)
<1>1. ASSUME NEW k \in low .. high - 1
      PROVE  \E b \in low .. k : /\ IntactAt(s \o t, b) /\ k <= b + (s \o t)[b].left
                                 /\ b + (s \o t)[b].left < high
  <2>1. PICK b \in low .. k : IntactAt(s, b) /\ k <= b + s[b].left /\ b + s[b].left < high
    BY DEF Framed
  <2>2. IntactAt(s \o t, b) /\ (s \o t)[b] = s[b]
    BY <2>1, IntactStays
  <2>. QED BY <2>1, <2>2
<1>. QED BY <1>1 DEF Framed

LEMMA ComesStays ==
  ASSUME NEW s \in Seq(Bytes), NEW t \in Seq(Bytes), NEW p \in 1 .. Len(s) + 1, ComesTo(s, p)
  PROVE  ComesTo(s \o t, p)
<1>1. PICK gate \in 1 .. p, d \in 0 .. p :
        /\ d = 0 \/ d + Far <= gate
        /\ Quiet(s, d + 1, gate) /\ Framed(s, gate, p)
  BY DEF ComesTo
<1>2. Len(s) \in Nat
  BY LenProperties
<1>3. gate \in Int /\ d + 1 \in Int /\ p \in Int /\ gate <= Len(s) + 1
  BY <1>1, <1>2
<1>4. Quiet(s \o t, d + 1, gate)
  BY <1>1, <1>3, QuietStays
<1>5. Framed(s \o t, gate, p)
  BY <1>1, <1>3, FramedStays
<1>. QED BY <1>1, <1>4, <1>5 DEF ComesTo

(* The stream after its first n bytes.                                     *)
LEMMA IntactShifts ==
  ASSUME NEW s \in Seq(Bytes), NEW n \in 0 .. Len(s), NEW b, IntactAt(s, b), b > n
  PROVE  /\ IntactAt(SubSeq(s, n + 1, Len(s)), b - n)
         /\ SubSeq(s, n + 1, Len(s))[b - n] = s[b]
<1> DEFINE u == SubSeq(s, n + 1, Len(s))
<1>1. Len(s) \in Nat /\ n + 1 \in 1 .. Len(s) + 1 /\ n \in Int
  BY LenProperties
<1>2. /\ u \in Seq(Bytes) /\ Len(u) = Len(s) - (n + 1) + 1
      /\ \A i \in DOMAIN u : u[i] = s[i + (n + 1) - 1]
  BY <1>1, Suffix
<1> HIDE DEF u
<1>3. DOMAIN u = 1 .. Len(s) - n /\ Len(u) = Len(s) - n
  BY <1>1, <1>2, LenProperties
<1>4. b \in Int /\ b >= 1 /\ s[b].left \in Int /\ b + s[b].left <= Len(s)
  BY IntactFacts
<1>5. b + (0 - n) >= 1 /\ b + s[b].left + (0 - n) <= Len(u) /\ 0 - n \in Int
  BY <1>1, <1>3, <1>4
<1>6. ASSUME NEW i \in b .. b + s[b].left PROVE u[i + (0 - n)] = s[i]
  <2>1. i + (0 - n) \in DOMAIN u /\ (i + (0 - n)) + (n + 1) - 1 = i
    BY <1>1, <1>3, <1>4
  <2>. QED BY <1>2, <2>1
<1>7. IntactAt(u, b + (0 - n)) /\ u[b + (0 - n)] = s[b]
  BY <1>2, <1>4, <1>5, <1>6, IntactMoves
<1>8. b + (0 - n) = b - n
  BY <1>1, <1>4
<1>. QED BY <1>7, <1>8 DEF u

LEMMA QuietShifts ==
  ASSUME NEW s \in Seq(Bytes), NEW n \in 0 .. Len(s), NEW low \in Int, NEW high \in Int,
         NEW from \in Int, from >= low - n,
         high <= Len(s) + 1, Quiet(s, low, high)
  PROVE  Quiet(SubSeq(s, n + 1, Len(s)), from, high - n)
<1> DEFINE u == SubSeq(s, n + 1, Len(s))
<1>1. Len(s) \in Nat /\ n + 1 \in 1 .. Len(s) + 1 /\ n \in Int /\ n >= 0
  BY LenProperties
<1>2. /\ u \in Seq(Bytes) /\ Len(u) = Len(s) - (n + 1) + 1
      /\ \A i \in DOMAIN u : u[i] = s[i + (n + 1) - 1]
  BY <1>1, Suffix
<1>3. ASSUME NEW b, IntactAt(s, b), b > n PROVE IntactAt(u, b - n) /\ u[b - n] = s[b]
  BY <1>3, IntactShifts
<1> HIDE DEF u
<1>4. DOMAIN u = 1 .. Len(s) - n
  BY <1>1, <1>2, LenProperties
<1>5. ASSUME NEW k \in from .. high - n - 1, k >= 1
      PROVE  u[k].val # Start \/ (IntactAt(u, k) /\ k + u[k].left < high - n)
  <2>1. k \in Int /\ k + n \in low .. high - 1 /\ k + n >= 1 /\ k \in DOMAIN u
          /\ k + (n + 1) - 1 = k + n /\ k + n > n /\ (k + n) - n = k
    BY <1>1, <1>4, <1>5
  <2>2. u[k] = s[k + n]
    BY <1>2, <2>1
  <2>3. CASE IntactAt(s, k + n) /\ (k + n) + s[k + n].left < high
    <3>1. IntactAt(u, (k + n) - n)
      BY <1>3, <2>1, <2>3
    <3>2. s[k + n].left \in Int
      BY <2>3, IntactFacts
    <3>. QED BY <1>1, <2>1, <2>2, <2>3, <3>1, <3>2
  <2>. QED BY <2>1, <2>2, <2>3 DEF Quiet
<1>. QED BY <1>5 DEF Quiet, u

(* What decode removes at once: the first byte, or a candidate, which is   *)
(* the frame if there is one.                                              *)
Removes(s, n) ==
  /\ n \in 1 .. Len(s) /\ n <= Far
  /\ s[1].val # Start => n = 1
  /\ IntactAt(s, 1) => n = s[1].left + 1

(* The decoder never goes beyond the place it will come to.                *)
LEMMA ComesCloser ==
  ASSUME NEW s \in Seq(Bytes), NEW n, Removes(s, n), NEW p \in 2 .. Len(s) + 1, ComesTo(s, p)
  PROVE  n < p /\ ComesTo(SubSeq(s, n + 1, Len(s)), p - n)
<1> DEFINE u == SubSeq(s, n + 1, Len(s))
<1>1. Len(s) \in Nat /\ n \in Int /\ n >= 1 /\ n <= Len(s) /\ p \in Int /\ p >= 2
        /\ p <= Len(s) + 1 /\ n <= Far /\ n \in 0 .. Len(s) /\ Far \in Int
  BY LenProperties, DecoderAssumption DEF Removes, Far
<1>2. PICK gate \in 1 .. p, d \in 0 .. p :
        /\ d = 0 \/ d + Far <= gate
        /\ Quiet(s, d + 1, gate) /\ Framed(s, gate, p)
  BY DEF ComesTo
<1>3. gate \in Int /\ d \in Int /\ 1 <= gate /\ gate <= p /\ 0 <= d /\ d <= p
  BY <1>1, <1>2
<1>4. ASSUME NEW b, IntactAt(s, b), b > n PROVE IntactAt(u, b - n) /\ u[b - n] = s[b]
  BY <1>1, <1>4, IntactShifts
<1>5. CASE n < gate
  <2> DEFINE e == IF d <= n THEN 0 ELSE d - n
  <2>1. /\ e \in Int /\ e >= 0 /\ e >= d - n /\ (d <= n => e = 0) /\ (~(d <= n) => e = d - n)
    BY <1>1, <1>3
  <2> HIDE DEF e
  <2>2. e \in 0 .. p - n /\ gate - n \in 1 .. p - n /\ (e = 0 \/ e + Far <= gate - n)
    BY <1>1, <1>2, <1>3, <1>5, <2>1
  <2>3. Quiet(u, e + 1, gate - n)
    <3>1. d + 1 \in Int /\ e + 1 \in Int /\ e + 1 >= (d + 1) - n /\ gate <= Len(s) + 1
      BY <1>1, <1>3, <2>1
    <3>. QED BY <1>1, <1>2, <1>3, <3>1, QuietShifts
  <2>4. ASSUME NEW k \in gate - n .. p - n - 1
        PROVE  \E b \in gate - n .. k : IntactAt(u, b) /\ k <= b + u[b].left /\ b + u[b].left < p - n
    <3>1. k + n \in gate .. p - 1 /\ k \in Int
      BY <1>1, <1>3
    <3>2. PICK b \in gate .. k + n : IntactAt(s, b) /\ k + n <= b + s[b].left /\ b + s[b].left < p
      BY <1>2, <3>1 DEF Framed
    <3>3. b \in Int /\ b > n /\ b - n \in gate - n .. k
      BY <1>1, <1>3, <1>5, <3>1, <3>2
    <3>4. IntactAt(u, b - n) /\ u[b - n] = s[b] /\ s[b].left \in Int
      BY <1>4, <3>2, <3>3, IntactFacts
    <3>5. PICK l \in Int : l = s[b].left
      BY <3>4
    <3>6. k <= (b - n) + l /\ (b - n) + l < p - n
      BY <1>1, <3>1, <3>2, <3>3, <3>5
    <3>. QED BY <3>3, <3>4, <3>5, <3>6
  <2>5. n < p
    BY <1>1, <1>3, <1>5
  <2> HIDE DEF u
  <2>6. Framed(u, gate - n, p - n)
    BY <2>4 DEF Framed
  <2>. QED BY <2>2, <2>3, <2>5, <2>6 DEF ComesTo, u
<1>6. CASE ~(n < gate)
  <2>1. d = 0
    BY <1>1, <1>2, <1>3, <1>6
  <2>2. gate = 1
    <3>1. CASE gate > 1
      <4>1. s[1].val # Start \/ (IntactAt(s, 1) /\ 1 + s[1].left < gate)
        <5>1. 1 \in d + 1 .. gate - 1 /\ 1 >= 1
          BY <1>3, <2>1, <3>1
        <5>. QED BY <1>2, <5>1 DEF Quiet
      <4>2. CASE s[1].val # Start
        BY <1>1, <1>3, <1>6, <3>1, <4>2 DEF Removes
      <4>3. CASE IntactAt(s, 1) /\ 1 + s[1].left < gate
        <5>1. n = s[1].left + 1 /\ s[1].left \in Int
          BY <4>3, IntactFacts DEF Removes
        <5>. QED BY <1>1, <1>3, <1>6, <4>3, <5>1
      <4>. QED BY <4>1, <4>2, <4>3
    <3>. QED BY <1>3, <3>1
  <2>3. IntactAt(s, 1) /\ 1 + s[1].left < p /\ n = s[1].left + 1 /\ s[1].left \in Int
    <3>1. 1 \in gate .. p - 1
      BY <1>1, <2>2
    <3>2. PICK b \in gate .. 1 : IntactAt(s, b) /\ 1 <= b + s[b].left /\ b + s[b].left < p
      BY <1>2, <3>1 DEF Framed
    <3>3. b = 1
      BY <2>2, <3>2
    <3>. QED BY <3>2, <3>3, IntactFacts DEF Removes
  <2>4. n < p
    BY <1>1, <2>3
  <2>5. ASSUME NEW k \in 1 .. p - n - 1
        PROVE  \E b \in 1 .. k : IntactAt(u, b) /\ k <= b + u[b].left /\ b + u[b].left < p - n
    <3>1. k + n \in gate .. p - 1 /\ k \in Int /\ k >= 1
      BY <1>1, <2>2
    <3>2. PICK b \in gate .. k + n : IntactAt(s, b) /\ k + n <= b + s[b].left /\ b + s[b].left < p
      BY <1>2, <3>1 DEF Framed
    <3>3. b \in Int /\ b >= 1
      BY <2>2, <3>1, <3>2
    <3>4. b # 1
      BY <1>1, <2>3, <3>1, <3>2
    <3>5. 1 + s[1].left < b
      BY <2>3, <3>2, <3>3, <3>4, IntactApart
    <3>6. b > n
      BY <2>3, <3>3, <3>5
    <3>7. b - n \in 1 .. k
      BY <1>1, <3>1, <3>2, <3>3, <3>6
    <3>8. IntactAt(u, b - n) /\ u[b - n] = s[b] /\ s[b].left \in Int
      BY <1>4, <3>2, <3>6, IntactFacts
    <3>9. PICK l \in Int : l = s[b].left
      BY <3>8
    <3>10. k <= (b - n) + l /\ (b - n) + l < p - n
      BY <1>1, <3>1, <3>2, <3>3, <3>9
    <3>. QED BY <3>7, <3>8, <3>9, <3>10
  <2> HIDE DEF u
  <2>6. Framed(u, 1, p - n)
    BY <2>5 DEF Framed
  <2>7. Quiet(u, 0 + 1, 1)
    BY DEF Quiet
  <2>8. 1 \in 1 .. p - n /\ 0 \in 0 .. p - n
    BY <1>1, <2>4
  <2>. QED BY <2>4, <2>6, <2>7, <2>8 DEF ComesTo, u
<1>. QED BY <1>5, <1>6

(* The invariant.  The last since bytes lead nowhere, or they are so many  *)
(* that the decoder will come to what follows; a frame that is owed is one *)
(* it will come to, or was returned; and decode returns when it must wait. *)
Trusted(s, n) ==
  IF n < Far THEN Quiet(s, Len(s) - n + 1, Len(s) + 1) ELSE ComesTo(s, Len(s) + 1)

WillReturn(s, f) ==
  \E p \in 1 .. Len(s) : IntactAt(s, p) /\ s[p].frame = f /\ ComesTo(s, p)

Returned(f) == \E k \in 1 .. Len(got) : got[k] = f

OwedKept ==
  \A f \in owed : f \in DOMAIN sent /\ sent[f] = "data" /\ (WillReturn(Stream, f) \/ Returned(f))

Waits ==
  \/ Len(buffer) <= MinSize
  \/ buffer[1].val = Start /\ PlausibleSize /\ Len(buffer) < ExpectedSize + 2

OwedInv ==
  /\ DecoderInv
  /\ since \in 0 .. Far /\ Trusted(Stream, since)
  /\ OwedKept
  /\ pc = "recv" => Waits

(* A frame as it is sent is whole.                                         *)
LEMMA FrameWhole ==
  ASSUME NEW f \in Nat, NEW p \in PayloadSizes, NEW v \in PayloadValues
  PROVE  /\ IntactAt(Frame(f, p, v), 1) /\ Frame(f, p, v)[1].left = p + 5
         /\ Frame(f, p, v)[p + 6].val = End
<1> DEFINE t == Frame(f, p, v)
<1> DEFINE last == FrameLength(p)
<1> DEFINE value(i) == CASE i = 1            -> Start
                         [] i = 2            -> (last - 2) \div 256
                         [] i = 3            -> (last - 2) % 256
                         [] i = last         -> End
                         [] i \in 4 .. last - 1 -> v
<1>1. p \in Nat /\ v \in Int /\ last = p + 6 /\ last - 2 >= MinSize /\ last <= MaxSize
        /\ MinSize \in Nat /\ MaxSize \in Nat
  BY DecoderAssumption DEF FrameLength
<1>2. t = [i \in 1 .. last |-> [val |-> value(i), frame |-> f, place |-> i, left |-> last - i]]
  BY DEF Frame
<1>3. /\ value(1) = Start /\ value(2) = (last - 2) \div 256 /\ value(3) = (last - 2) % 256
      /\ value(last) = End
  BY <1>1
<1>4. value(2) * 256 + value(3) = last - 2
  <2>1. last - 2 \in Int
    BY <1>1
  <2>2. \A q \in Int : (q \div 256) * 256 + (q % 256) = q
    OBVIOUS
  <2>. QED BY <1>3, <2>1, <2>2
<1> HIDE DEF value, last
<1>5. \A i \in 1 .. last : /\ t[i].val = value(i) /\ t[i].frame = f /\ t[i].place = i
                            /\ t[i].left = last - i
  BY <1>2
<1>6. t \in Seq(Bytes) /\ Len(t) = last
  BY <1>1, FrameBytes
<1>7. 1 \in 1 .. last /\ 2 \in 1 .. last /\ 3 \in 1 .. last /\ last \in 1 .. last
  BY <1>1
<1> HIDE DEF t
<1>8. t[1].left = last - 1 /\ t[1].frame = f /\ t[1].val = Start
        /\ t[2].val * 256 + t[3].val = last - 2 /\ t[last].val = End
  BY <1>3, <1>4, <1>5, <1>7
<1>9. /\ 1 \in 1 .. Len(t) /\ t[1].left + 1 \in MinSize + 2 .. MaxSize
      /\ 1 + t[1].left <= Len(t) /\ 1 + t[1].left = last
  BY <1>1, <1>6, <1>8
<1>10. t[1 + 1].val * 256 + t[1 + 2].val + 1 = t[1].left
  BY <1>1, <1>8
<1>11. ASSUME NEW i \in 1 .. 1 + t[1].left
       PROVE  t[i].frame = t[1].frame /\ t[i].place = i - 1 + 1 /\ t[i].left = t[1].left - (i - 1)
  <2>1. i \in 1 .. last
    BY <1>9
  <2>2. i = i - 1 + 1 /\ last - i = (last - 1) - (i - 1)
    BY <1>1, <2>1
  <2>. QED BY <1>5, <1>8, <2>1, <2>2
<1>12. IntactAt(t, 1)
  BY <1>8, <1>9, <1>10, <1>11 DEF IntactAt
<1>13. last = p + 6 /\ last - 1 = p + 5
  BY <1>1
<1>. QED BY <1>8, <1>12, <1>13 DEF t

(* Frames sent before are where they were.                                 *)
LEMMA ReturnStays ==
  ASSUME NEW s \in Seq(Bytes), NEW t \in Seq(Bytes), NEW f, WillReturn(s, f)
  PROVE  WillReturn(s \o t, f)
<1>1. PICK p \in 1 .. Len(s) : IntactAt(s, p) /\ s[p].frame = f /\ ComesTo(s, p)
  BY DEF WillReturn
<1>2. Len(s) \in Nat /\ Len(t) \in Nat /\ Len(s \o t) = Len(s) + Len(t)
  BY ConcatProperties, LenProperties
<1>3. p \in 1 .. Len(s) + 1 /\ p \in 1 .. Len(s \o t)
  BY <1>2
<1>4. IntactAt(s \o t, p) /\ (s \o t)[p] = s[p]
  BY <1>1, IntactStays
<1>5. ComesTo(s \o t, p)
  BY <1>1, <1>3, ComesStays
<1>. QED BY <1>1, <1>3, <1>4, <1>5 DEF WillReturn

(* A whole frame follows.                                                  *)
LEMMA FrameFollows ==
  ASSUME NEW s \in Seq(Bytes), NEW t \in Seq(Bytes), IntactAt(t, 1), Len(t) = t[1].left + 1
  PROVE  IntactAt(s \o t, Len(s) + 1) /\ (s \o t)[Len(s) + 1] = t[1]
<1> DEFINE u == s \o t
<1>1. /\ u \in Seq(Bytes) /\ Len(u) = Len(s) + Len(t) /\ Len(s) \in Nat /\ Len(t) \in Nat
      /\ \A i \in 1 .. Len(s) + Len(t) : u[i] = IF i <= Len(s) THEN s[i] ELSE t[i - Len(s)]
  BY ConcatProperties, LenProperties
<1> HIDE DEF u
<1>2. 1 + t[1].left = Len(t) /\ t[1].left \in Int
  BY IntactFacts
<1>3. ASSUME NEW i \in 1 .. 1 + t[1].left PROVE u[i + Len(s)] = t[i]
  <2>1. i + Len(s) \in 1 .. Len(s) + Len(t) /\ ~(i + Len(s) <= Len(s)) /\ (i + Len(s)) - Len(s) = i
    BY <1>1, <1>2
  <2>. QED BY <1>1, <2>1
<1>4. 1 + Len(s) >= 1 /\ 1 + t[1].left + Len(s) <= Len(u) /\ 1 \in Int /\ Len(s) \in Int
  BY <1>1, <1>2
<1>5. IntactAt(u, 1 + Len(s)) /\ u[1 + Len(s)] = t[1]
  BY <1>1, <1>3, <1>4, IntactMoves
<1>6. 1 + Len(s) = Len(s) + 1
  BY <1>1
<1>. QED BY <1>5, <1>6 DEF u

(* What was trusted before a frame, and the frame.                         *)
LEMMA TrustedFrame ==
  ASSUME NEW s \in Seq(Bytes), NEW t \in Seq(Bytes), NEW n \in 0 .. Far,
         IntactAt(t, 1), Len(t) = t[1].left + 1, t[Len(t)].val = End,
         Trusted(s, n), NEW m,
         m = IF n < Far /\ StrayStart(t, 1) THEN 1 ELSE AtMost(n + Len(t))
  PROVE  m \in 0 .. Far /\ Trusted(s \o t, m)
<1> DEFINE u == s \o t
<1>1. /\ u \in Seq(Bytes) /\ Len(u) = Len(s) + Len(t) /\ Len(s) \in Nat /\ Len(t) \in Nat
      /\ \A i \in 1 .. Len(s) + Len(t) : u[i] = IF i <= Len(s) THEN s[i] ELSE t[i - Len(s)]
  BY ConcatProperties, LenProperties
<1>2. IntactAt(u, Len(s) + 1) /\ u[Len(s) + 1] = t[1]
  BY FrameFollows
<1>3. Far \in Nat /\ Far >= 2 /\ n \in Int /\ 0 <= n /\ n <= Far
  BY DecoderAssumption DEF Far
<1>4. /\ t[1].left \in Int /\ t[1].left >= 3 /\ (Len(s) + 1) + t[1].left = Len(u)
      /\ Len(t) >= 4
  BY <1>1, IntactFacts
<1>5. CASE n = Far
  <2>1. m = Far
    BY <1>1, <1>3, <1>5 DEF AtMost, Far
  <2>2. PICK gate \in 1 .. Len(s) + 1, d \in 0 .. Len(s) + 1 :
          /\ d = 0 \/ d + Far <= gate
          /\ Quiet(s, d + 1, gate) /\ Framed(s, gate, Len(s) + 1)
    BY <1>3, <1>5 DEF Trusted, ComesTo
  <2>3. Quiet(u, d + 1, gate)
    BY <1>1, <2>2, QuietStays
  <2>4. Framed(u, gate, Len(s) + 1)
    BY <1>1, <2>2, FramedStays
  <2> HIDE DEF u
  <2>5. ASSUME NEW k \in gate .. Len(u) + 1 - 1
        PROVE  \E b \in gate .. k : IntactAt(u, b) /\ k <= b + u[b].left /\ b + u[b].left < Len(u) + 1
    <3>1. CASE k <= Len(s)
      <4>1. PICK b \in gate .. k : IntactAt(u, b) /\ k <= b + u[b].left /\ b + u[b].left < Len(s) + 1
        <5>1. k \in gate .. Len(s) + 1 - 1
          BY <1>1, <2>2, <3>1
        <5>. QED BY <2>4, <5>1 DEF Framed
      <4>2. b + u[b].left <= Len(u) /\ u[b].left \in Int /\ b \in Int
        BY <1>1, <4>1, IntactFacts
      <4>3. Len(u) \in Int
        BY <1>1
      <4>4. b + u[b].left < Len(u) + 1
        BY ONLY <4>2, <4>3
      <4>. QED BY <4>1, <4>4
    <3>2. CASE k > Len(s)
      <4>1. Len(s) + 1 \in gate .. k
        BY <1>1, <2>2, <3>2
      <4>2. k <= (Len(s) + 1) + t[1].left /\ (Len(s) + 1) + t[1].left < Len(u) + 1
        <5>1. PICK far : far = (Len(s) + 1) + t[1].left
          OBVIOUS
        <5>2. far = Len(u) /\ Len(u) \in Nat
          BY <1>1, <1>4, <5>1
        <5>3. k \in Int /\ k <= Len(u)
          <6>1. gate \in Int /\ Len(u) \in Nat /\ k \in gate .. Len(u) + 1 - 1
            BY <2>2, <2>5, <5>2
          <6>. QED BY ONLY <6>1
        <5>4. k <= far /\ far < Len(u) + 1
          BY ONLY <5>2, <5>3
        <5>. QED BY <5>1, <5>4
      <4>. QED BY <1>2, <4>1, <4>2
    <3>. QED BY <1>1, <3>1, <3>2
  <2>6. Framed(u, gate, Len(u) + 1)
    BY <2>5 DEF Framed
  <2>7. gate \in 1 .. Len(u) + 1 /\ d \in 0 .. Len(u) + 1
    <3>1. /\ Len(u) = Len(s) + Len(t) /\ Len(s) \in Nat /\ Len(t) \in Nat
          /\ gate \in 1 .. Len(s) + 1 /\ d \in 0 .. Len(s) + 1
      BY <1>1, <2>2
    <3>. QED BY ONLY <3>1
  <2>8. ComesTo(u, Len(u) + 1)
    BY <2>2, <2>3, <2>6, <2>7 DEF ComesTo
  <2>. QED BY <1>3, <2>1, <2>8 DEF Trusted, u
<1>6. CASE n < Far /\ StrayStart(t, 1)
  <2>1. m = 1
    BY <1>6
  <2> HIDE DEF u
  <2>2. u[Len(u)].val # Start
    <3>1. Len(u) \in 1 .. Len(s) + Len(t) /\ ~(Len(u) <= Len(s)) /\ Len(u) - Len(s) = Len(t)
      <4>1. Len(u) = Len(s) + Len(t) /\ Len(s) \in Nat /\ Len(t) \in Nat /\ Len(t) >= 4
        BY <1>1, <1>4
      <4>. QED BY ONLY <4>1
    <3>2. u[Len(u)] = t[Len(t)]
      BY <1>1, <3>1
    <3>. QED BY <3>2 DEF Start, End
  <2>3. ASSUME NEW k \in Len(u) - 1 + 1 .. Len(u) + 1 - 1 PROVE k = Len(u)
    BY <1>1
  <2>4. Quiet(u, Len(u) - 1 + 1, Len(u) + 1)
    BY <2>2, <2>3 DEF Quiet
  <2>. QED BY <1>3, <2>1, <2>4 DEF Trusted, u
<1>7. CASE n < Far /\ ~StrayStart(t, 1)
  <2> DEFINE low == Len(s) - n + 1
  <2>1. Quiet(s, low, Len(s) + 1)
    BY <1>7 DEF Trusted
  <2>2. low \in Int /\ low <= Len(s) + 1
    BY <1>1, <1>3
  <2>3. Quiet(u, low, Len(s) + 1)
    BY <1>1, <2>1, <2>2, QuietStays
  <2> HIDE DEF u, low
  <2>4. ASSUME NEW k \in low .. Len(u) + 1 - 1, k >= 1
        PROVE  u[k].val # Start \/ (IntactAt(u, k) /\ k + u[k].left < Len(u) + 1)
    <3>1. CASE k <= Len(s)
      <4>1. k \in low .. Len(s) + 1 - 1
        BY <1>1, <2>2, <3>1
      <4>2. u[k].val # Start \/ (IntactAt(u, k) /\ k + u[k].left < Len(s) + 1)
        BY <2>3, <2>4, <4>1 DEF Quiet
      <4>3. CASE IntactAt(u, k)
        <5>1. k \in Int /\ u[k].left \in Int /\ k + u[k].left <= Len(u)
          BY <1>1, <4>3, IntactFacts
        <5>2. k + u[k].left < Len(u) + 1
          BY <1>1, <5>1
        <5>. QED BY <4>3, <5>2
      <4>. QED BY <4>2, <4>3
    <3>2. CASE k = Len(s) + 1
      <4>1. (Len(s) + 1) + t[1].left < Len(u) + 1
        BY <1>1, <1>4
      <4>. QED BY <1>2, <3>2, <4>1
    <3>3. CASE k > Len(s) + 1
      <4>1. k \in 1 .. Len(s) + Len(t) /\ ~(k <= Len(s)) /\ k - Len(s) \in 1 + 1 .. Len(t)
        BY <1>1, <2>2, <3>3
      <4>2. u[k] = t[k - Len(s)] /\ t[k - Len(s)].val # Start
        BY <1>1, <1>7, <4>1 DEF StrayStart
      <4>. QED BY <4>2
    <3>. QED BY <1>1, <2>2, <3>1, <3>2, <3>3
  <2>5. CASE n + Len(t) < Far
    <3>1. m = n + Len(t) /\ m \in 0 .. Far /\ m < Far
      <4>1. m = AtMost(n + Len(t))
        BY <1>7
      <4>2. Len(t) \in Nat /\ n \in Int /\ 0 <= n /\ Far \in Nat
        BY <1>1, <1>3
      <4>3. AtMost(n + Len(t)) = n + Len(t)
        BY <2>5, <4>2, DecoderAssumption DEF AtMost, Far
      <4>. QED BY ONLY <2>5, <4>1, <4>2, <4>3
    <3>2. Len(u) - m + 1 = low
      BY <1>1, <1>3, <3>1 DEF low
    <3>3. Quiet(u, low, Len(u) + 1)
      BY <2>4 DEF Quiet
    <3>4. Trusted(u, m)
      BY <3>1, <3>2, <3>3 DEF Trusted
    <3>. QED BY <3>1, <3>4 DEF u
  <2>6. CASE ~(n + Len(t) < Far)
    <3>1. m = Far
      BY <1>1, <1>3, <1>7, <2>6 DEF AtMost, Far
    <3> DEFINE d == IF Len(s) <= n THEN 0 ELSE Len(s) - n
    <3>2. d \in 0 .. Len(u) + 1 /\ (d = 0 \/ d + Far <= Len(u) + 1) /\ d + 1 >= low /\ d \in Int
      <4>1. CASE Len(s) <= n
        BY <1>1, <1>3, <4>1 DEF low
      <4>2. CASE ~(Len(s) <= n)
        <5>1. d = Len(s) - n /\ d \in Int /\ d >= 0
          BY <1>1, <1>3, <4>2
        <5> HIDE DEF d
        <5>2. d <= Len(u) + 1 /\ d + 1 = low
          BY <1>1, <1>3, <5>1 DEF low
        <5>3. d + Far <= Len(u) + 1
          BY <1>1, <1>3, <2>6, <5>1
        <5>. QED BY <1>1, <5>1, <5>2, <5>3
      <4>. QED BY <4>1, <4>2
    <3> HIDE DEF d
    <3>3. ASSUME NEW k \in d + 1 .. Len(u) + 1 - 1, k >= 1
          PROVE  u[k].val # Start \/ (IntactAt(u, k) /\ k + u[k].left < Len(u) + 1)
      <4>1. k \in low .. Len(u) + 1 - 1
        BY <1>1, <2>2, <3>2
      <4>. QED BY <2>4, <3>3, <4>1
    <3>4. Quiet(u, d + 1, Len(u) + 1)
      BY <3>3 DEF Quiet
    <3>5. Framed(u, Len(u) + 1, Len(u) + 1)
      <4>1. Len(u) + 1 .. Len(u) + 1 - 1 = {}
        BY <1>1
      <4>. QED BY <4>1 DEF Framed
    <3>6. Len(u) + 1 \in 1 .. Len(u) + 1
      BY <1>1
    <3>7. ComesTo(u, Len(u) + 1)
      BY <3>2, <3>4, <3>5, <3>6 DEF ComesTo
    <3>. QED BY <1>3, <3>1, <3>7 DEF Trusted, u
  <2>. QED BY <2>5, <2>6
<1>. QED BY <1>3, <1>5, <1>6, <1>7

(* Of bytes that were damaged, those at the end without Start are trusted. *)
LEMMA TrustedDamage ==
  ASSUME NEW s \in Seq(Bytes), NEW t \in Seq(Bytes), NEW m \in 0 .. Len(t), m < Far,
         \A k \in Len(t) - m + 1 .. Len(t) : t[k].val # Start
  PROVE  Trusted(s \o t, m)
<1> DEFINE u == s \o t
<1>1. /\ Len(u) = Len(s) + Len(t) /\ Len(s) \in Nat /\ Len(t) \in Nat
      /\ \A i \in 1 .. Len(s) + Len(t) : u[i] = IF i <= Len(s) THEN s[i] ELSE t[i - Len(s)]
  BY ConcatProperties, LenProperties
<1> HIDE DEF u
<1>2. ASSUME NEW k \in Len(u) - m + 1 .. Len(u) + 1 - 1 PROVE u[k].val # Start
  <2>1. /\ k \in 1 .. Len(s) + Len(t) /\ ~(k <= Len(s))
        /\ k - Len(s) \in Len(t) - m + 1 .. Len(t)
    BY <1>1
  <2>. QED BY <1>1, <2>1
<1>. QED BY <1>2 DEF Trusted, Quiet, u

LEMMA StreamJoined ==
  ASSUME TypesOK, NEW t \in Seq(Bytes), line' = line \o t, UNCHANGED buffer
  PROVE  Stream \in Seq(Bytes) /\ Stream' = Stream \o t
<1>1. buffer \in Seq(Bytes) /\ line \in Seq(Bytes) /\ Stream \in Seq(Bytes)
  BY Joined DEF TypesOK, Stream
<1>2. (buffer \o line) \o t = buffer \o (line \o t)
  BY ONLY <1>1, t \in Seq(Bytes), Regrouped
<1>. QED BY <1>1, <1>2 DEF Stream

LEMMA SentGrows ==
  ASSUME TypesOK, NEW type \in {"data", "ack"}, sent' = Append(sent, type)
  PROVE  /\ Len(sent) \in Nat
         /\ \A f \in DOMAIN sent : f \in DOMAIN sent' /\ sent'[f] = sent[f]
         /\ Len(sent) + 1 \in DOMAIN sent' /\ sent'[Len(sent) + 1] = type
BY AppendProperties, LenProperties DEF TypesOK

(* Frames that were owed are owed still.                                   *)
LEMMA OwedStay ==
  ASSUME OwedInv, NEW t \in Seq(Bytes), line' = line \o t, UNCHANGED <<buffer, pc, got>>,
         NEW type \in {"data", "ack"}, sent' = Append(sent, type)
  PROVE  /\ \A f \in owed : /\ f \in DOMAIN sent' /\ sent'[f] = "data"
                            /\ WillReturn(Stream', f) \/ Returned(f)'
         /\ pc' = "recv" => Waits'
<1>1. Stream \in Seq(Bytes) /\ Stream' = Stream \o t
  BY StreamJoined DEF OwedInv, DecoderInv
<1>2. \A f \in DOMAIN sent : f \in DOMAIN sent' /\ sent'[f] = sent[f]
  BY SentGrows DEF OwedInv, DecoderInv
<1>3. ASSUME NEW f \in owed
      PROVE  f \in DOMAIN sent' /\ sent'[f] = "data" /\ (WillReturn(Stream', f) \/ Returned(f)')
  <2>1. f \in DOMAIN sent /\ sent[f] = "data" /\ (WillReturn(Stream, f) \/ Returned(f))
    BY DEF OwedInv, OwedKept
  <2>2. WillReturn(Stream, f) => WillReturn(Stream', f)
    BY <1>1, ReturnStays
  <2>3. Returned(f) => Returned(f)'
    BY DEF Returned
  <2>. QED BY <1>2, <2>1, <2>2, <2>3
<1>4. Waits' <=> Waits
  BY DEF Waits, PlausibleSize, ExpectedSize
<1>. QED BY <1>3, <1>4 DEF OwedInv

LEMMA SendFrameOwed ==
  ASSUME OwedInv, SendFrame
  PROVE  OwedInv'
<1>1. PICK type \in {"data", "ack"}, p \in PayloadSizes, v \in PayloadValues :
        /\ sent' = Append(sent, type) /\ line' = line \o Frame(Len(sent) + 1, p, v)
        /\ since' = (IF since < MaxSize + 2 /\ StrayStart(Frame(Len(sent) + 1, p, v), 1) THEN 1
                     ELSE AtMost(since + FrameLength(p)))
        /\ owed' = (IF since = MaxSize + 2 /\ type = "data" THEN owed \cup {Len(sent) + 1} ELSE owed)
        /\ UNCHANGED <<buffer, pc, got>>
  BY DEF SendFrame
<1>2. /\ Len(sent) \in Nat /\ Len(sent) + 1 \in Nat
      /\ Len(sent) + 1 \in DOMAIN sent' /\ sent'[Len(sent) + 1] = type
  BY <1>1, SentGrows DEF OwedInv, DecoderInv
<1> DEFINE t == Frame(Len(sent) + 1, p, v)
<1>3. /\ t \in Seq(Bytes) /\ Len(t) = p + 6 /\ p \in Nat
      /\ IntactAt(t, 1) /\ t[1].left = p + 5 /\ t[p + 6].val = End
      /\ \A i \in 1 .. p + 6 : t[i].frame = Len(sent) + 1
  BY <1>2, FrameBytes, FrameWhole, DecoderAssumption
<1>4. line' = line \o t
  BY <1>1
<1>5. since' = IF since < Far /\ StrayStart(t, 1) THEN 1 ELSE AtMost(since + (p + 6))
  BY <1>1 DEF Far, FrameLength
<1> HIDE DEF t
<1>6. Stream \in Seq(Bytes) /\ Stream' = Stream \o t
  BY <1>1, <1>3, <1>4, StreamJoined DEF OwedInv, DecoderInv
<1>7. DecoderInv'
  BY BusKeeps DEF OwedInv, Bus
<1>8. /\ \A f \in owed : /\ f \in DOMAIN sent' /\ sent'[f] = "data"
                         /\ WillReturn(Stream', f) \/ Returned(f)'
      /\ pc' = "recv" => Waits'
  BY <1>1, <1>3, <1>4, OwedStay
<1>9. Len(t) = t[1].left + 1 /\ t[Len(t)].val = End /\ since' = IF since < Far /\ StrayStart(t, 1) THEN 1 ELSE AtMost(since + Len(t))
  BY <1>3, <1>5
<1>10. since \in 0 .. Far /\ Trusted(Stream, since)
  BY DEF OwedInv
<1>11. since' \in 0 .. Far /\ Trusted(Stream', since')
  BY <1>3, <1>6, <1>9, <1>10, TrustedFrame
<1>12. ASSUME since = Far, type = "data" PROVE WillReturn(Stream', Len(sent) + 1)
  <2>1. ComesTo(Stream, Len(Stream) + 1)
    <3>1. ~(Far < Far)
      BY DecoderAssumption DEF Far
    <3>. QED BY <1>10, <1>12, <3>1 DEF Trusted
  <2>2. Len(Stream) \in Nat /\ Len(t) \in Nat /\ Len(Stream') = Len(Stream) + Len(t)
    BY <1>3, <1>6, Joined, LenProperties
  <2>3. IntactAt(Stream', Len(Stream) + 1) /\ Stream'[Len(Stream) + 1] = t[1]
    BY <1>3, <1>6, <1>9, FrameFollows
  <2>4. ComesTo(Stream', Len(Stream) + 1)
    <3>1. Len(Stream) + 1 \in 1 .. Len(Stream) + 1
      BY <2>2
    <3>. QED BY <1>3, <1>6, <2>1, <3>1, ComesStays
  <2>5. t[1].frame = Len(sent) + 1
    <3>1. 1 \in 1 .. p + 6
      BY <1>3
    <3>. QED BY <1>3, <3>1
  <2>6. Len(Stream) + 1 \in 1 .. Len(Stream')
    BY <1>3, <2>2
  <2>. QED BY <2>3, <2>4, <2>5, <2>6 DEF WillReturn
<1>13. OwedKept'
  <2>1. CASE since = Far /\ type = "data"
    <3>1. owed' = owed \cup {Len(sent) + 1}
      BY <1>1, <2>1 DEF Far
    <3>. QED BY <1>2, <1>8, <1>12, <2>1, <3>1 DEF OwedKept
  <2>2. CASE ~(since = Far /\ type = "data")
    <3>1. owed' = owed
      BY <1>1, <2>2 DEF Far
    <3>. QED BY <1>8, <3>1 DEF OwedKept
  <2>. QED BY <2>1, <2>2
<1>. QED BY <1>7, <1>8, <1>11, <1>13 DEF OwedInv

(* The end of a frame behind the damage: no Start, or the last byte only.  *)
LEMMA DamageEnds ==
  ASSUME NEW frame \in Seq(Bytes), NEW last \in Nat, Len(frame) = last, last <= MaxSize,
         last >= 1, frame[last].val = End, NEW j \in 1 .. last, NEW m,
         m = IF StrayStart(frame, j) THEN 1 ELSE AtMost(last - j)
  PROVE  m \in 0 .. last - j /\ m < Far /\ \A k \in last - m + 1 .. last : frame[k].val # Start
<1>1. MaxSize \in Nat /\ j \in Int /\ 1 <= j /\ j <= last
  BY DecoderAssumption
<1>2. CASE StrayStart(frame, j)
  <2>1. PICK k \in j + 1 .. last : frame[k].val = Start
    BY <1>2 DEF StrayStart
  <2>2. m = 1 /\ 1 \in 0 .. last - j
    BY <1>1, <1>2, <2>1
  <2>3. \A q \in last - 1 + 1 .. last : q = last
    BY <1>1
  <2>4. 1 < Far
    BY <1>1 DEF Far
  <2>. QED BY <2>2, <2>3, <2>4 DEF Start, End
<1>3. CASE ~StrayStart(frame, j)
  <2>1. m = last - j
    BY <1>1, <1>3 DEF AtMost
  <2>2. m \in 0 .. last - j /\ m < Far
    BY <1>1, <2>1 DEF Far
  <2>3. \A k \in last - m + 1 .. last : k \in j + 1 .. last
    BY <1>1, <2>1
  <2>. QED BY <1>3, <2>2, <2>3 DEF StrayStart
<1>. QED BY <1>2, <1>3

LEMMA SendDamagedOwed ==
  ASSUME OwedInv, SendDamaged
  PROVE  OwedInv'
<1>1. PICK p \in PayloadSizes, v \in PayloadValues :
        /\ \E i \in 1 .. Len(Frame(Len(sent) + 1, p, v)) :
             \/ \E j \in {i, Len(Frame(Len(sent) + 1, p, v))} :
                  /\ line' = line \o Without(Frame(Len(sent) + 1, p, v), i, j)
                  /\ since' = IF StrayStart(Frame(Len(sent) + 1, p, v), j) THEN 1
                              ELSE AtMost(Len(Frame(Len(sent) + 1, p, v)) - j)
             \/ \E g \in Changed(Frame(Len(sent) + 1, p, v), i) :
                  /\ line' = line \o g
                  /\ since' = IF StrayStart(Frame(Len(sent) + 1, p, v), i) THEN 1
                              ELSE AtMost(Len(Frame(Len(sent) + 1, p, v)) - i)
        /\ sent' = Append(sent, "data")
        /\ UNCHANGED <<buffer, pc, got, owed>>
  BY DEF SendDamaged
<1>2. Len(sent) \in Nat /\ Len(sent) + 1 \in Nat
  BY <1>1, SentGrows DEF OwedInv, DecoderInv
<1> DEFINE frame == Frame(Len(sent) + 1, p, v)
<1>3. PICK i \in 1 .. Len(frame) :
        \/ \E j \in {i, Len(frame)} :
             /\ line' = line \o Without(frame, i, j)
             /\ since' = IF StrayStart(frame, j) THEN 1 ELSE AtMost(Len(frame) - j)
        \/ \E g \in Changed(frame, i) :
             /\ line' = line \o g
             /\ since' = IF StrayStart(frame, i) THEN 1 ELSE AtMost(Len(frame) - i)
  BY <1>1
<1>4. /\ frame \in Seq(Bytes) /\ Len(frame) = p + 6 /\ frame[p + 6].val = End
      /\ \A m \in 1 .. Len(frame) : frame[m].frame = Len(sent) + 1 /\ frame[m].place = m
  BY <1>2, FrameBytes, FrameWhole
<1>5. PICK last \in Nat : last = Len(frame) /\ last <= MaxSize /\ last >= 1
  <2>1. p \in Nat /\ p + 6 <= MaxSize
    BY DecoderAssumption DEF FrameLength
  <2>. QED BY <1>4, <2>1
<1> HIDE DEF frame
<1>6. frame[last].val = End
  BY <1>4, <1>5
<1>7. DecoderInv'
  BY BusKeeps DEF OwedInv, Bus
<1>8. ASSUME NEW t \in Seq(Bytes), line' = line \o t, NEW m \in 0 .. Len(t), since' = m, m < Far,
             \A k \in Len(t) - m + 1 .. Len(t) : t[k].val # Start
      PROVE  OwedInv'
  <2>1. Stream \in Seq(Bytes) /\ Stream' = Stream \o t
    BY <1>1, <1>8, StreamJoined DEF OwedInv, DecoderInv
  <2>2. Trusted(Stream', since')
    BY <1>8, <2>1, TrustedDamage
  <2>3. since' \in 0 .. Far
    <3>1. Len(t) \in Nat /\ Far \in Nat
      BY LenProperties, DecoderAssumption DEF Far
    <3>. QED BY <1>8, <3>1
  <2>4. /\ \A f \in owed : /\ f \in DOMAIN sent' /\ sent'[f] = "data"
                           /\ WillReturn(Stream', f) \/ Returned(f)'
        /\ pc' = "recv" => Waits'
    BY <1>1, <1>8, OwedStay
  <2>5. OwedKept'
    BY <1>1, <2>4 DEF OwedKept
  <2>. QED BY <1>7, <2>2, <2>3, <2>4, <2>5 DEF OwedInv
<1>9. ASSUME NEW j \in {i, Len(frame)}, line' = line \o Without(frame, i, j),
             since' = IF StrayStart(frame, j) THEN 1 ELSE AtMost(Len(frame) - j)
      PROVE  OwedInv'
  <2>1. i \in Int /\ 1 <= i /\ i <= last /\ j \in i .. last /\ j \in 1 .. last /\ j \in Int
    BY <1>5, <1>9
  <2>2. /\ since' \in 0 .. last - j /\ since' < Far
        /\ \A k \in last - since' + 1 .. last : frame[k].val # Start
    <3>1. since' = IF StrayStart(frame, j) THEN 1 ELSE AtMost(last - j)
      BY <1>5, <1>9
    <3>2. j \in 1 .. last /\ Len(frame) = last /\ last <= MaxSize /\ last >= 1 /\ last \in Nat
      BY <1>5, <2>1
    <3>. QED BY ONLY <1>4, <1>6, <3>1, <3>2, DamageEnds
  <2>3. PICK m \in 0 .. last - j : m = since'
    BY <2>2
  <2> DEFINE a == SubSeq(frame, 1, i - 1)
  <2> DEFINE b == SubSeq(frame, j + 1, Len(frame))
  <2> DEFINE t == a \o b
  <2>4. a \in Seq(Bytes) /\ Len(a) = i - 1
    <3>1. \A q \in 1 .. i - 1 : frame[q] \in Bytes
      BY <1>4, <1>5, <2>1, LenProperties, ElementOfSeq
    <3>2. /\ a \in Seq(Bytes) /\ Len(a) = IF 1 <= i - 1 THEN i - 1 - 1 + 1 ELSE 0
      BY <1>4, <1>5, <2>1, <3>1, SubSeqProperties
    <3>. QED BY <2>1, <3>2
  <2>5. /\ b \in Seq(Bytes) /\ Len(b) = last - j
        /\ \A q \in 1 .. last - j : b[q] = frame[q + j]
    <3>1. j + 1 \in 1 .. Len(frame) + 1
      BY <1>5, <2>1
    <3>2. /\ b \in Seq(Bytes) /\ Len(b) = Len(frame) - (j + 1) + 1
          /\ \A q \in DOMAIN b : b[q] = frame[q + (j + 1) - 1]
      BY <1>4, <3>1, Suffix
    <3>3. Len(b) = last - j /\ DOMAIN b = 1 .. last - j
      BY <1>5, <2>1, <3>2, LenProperties
    <3>4. \A q \in 1 .. last - j : q + (j + 1) - 1 = q + j
      BY <2>1
    <3>. QED BY <3>2, <3>3, <3>4
  <2> HIDE DEF a, b
  <2>6. /\ t \in Seq(Bytes) /\ Len(t) = (i - 1) + (last - j)
        /\ \A q \in 1 .. (i - 1) + (last - j) : t[q] = IF q <= i - 1 THEN a[q] ELSE b[q - (i - 1)]
    <3>1. /\ t \in Seq(Bytes) /\ Len(t) = Len(a) + Len(b)
          /\ \A q \in 1 .. Len(a) + Len(b) : t[q] = IF q <= Len(a) THEN a[q] ELSE b[q - Len(a)]
      <4>1. a \in Seq(Bytes) /\ b \in Seq(Bytes)
        BY <2>4, <2>5
      <4>. QED BY ONLY <4>1, ConcatProperties
    <3> HIDE DEF t
    <3>. QED BY <2>4, <2>5, <3>1
  <2>7. line' = line \o t
    BY <1>9 DEF Without, a, b
  <2> HIDE DEF t
  <2>8. m \in 0 .. Len(t)
    BY <2>1, <2>6
  <2>9. ASSUME NEW k \in Len(t) - m + 1 .. Len(t) PROVE t[k].val # Start
    <3>1. /\ k \in 1 .. (i - 1) + (last - j) /\ ~(k <= i - 1) /\ k - (i - 1) \in 1 .. last - j
          /\ (k - (i - 1)) + j \in last - m + 1 .. last
      BY <2>1, <2>6
    <3>2. t[k] = frame[(k - (i - 1)) + j]
      BY <2>5, <2>6, <3>1
    <3>. QED BY <2>2, <2>3, <3>1, <3>2
  <2>. QED BY <1>8, <2>2, <2>3, <2>6, <2>7, <2>8, <2>9
<1>10. ASSUME NEW g \in Changed(frame, i), line' = line \o g,
              since' = IF StrayStart(frame, i) THEN 1 ELSE AtMost(Len(frame) - i)
       PROVE  OwedInv'
  <2>1. i \in Int /\ 1 <= i /\ i <= last /\ i \in 1 .. last
    BY <1>5
  <2>2. /\ since' \in 0 .. last - i /\ since' < Far
        /\ \A k \in last - since' + 1 .. last : frame[k].val # Start
    BY <1>4, <1>5, <1>6, <1>10, <2>1, DamageEnds
  <2>3. PICK m \in 0 .. last - i : m = since'
    BY <2>2
  <2>4. g \in Seq(Bytes)
    BY <1>2, <1>4, ChangedFrame
  <2>5. Len(g) = last /\ \A k \in 1 .. last : k # i => g[k] = frame[k]
    BY <1>5, <2>4, LenProperties DEF Changed
  <2>6. m \in 0 .. Len(g)
    BY <2>1, <2>5
  <2>7. ASSUME NEW k \in Len(g) - m + 1 .. Len(g) PROVE g[k].val # Start
    <3>1. k \in 1 .. last /\ k # i /\ k \in last - m + 1 .. last
      BY <2>1, <2>5
    <3>. QED BY <2>2, <2>3, <2>5, <3>1
  <2>. QED BY <1>8, <1>10, <2>2, <2>3, <2>4, <2>6, <2>7
<1>. QED BY <1>3, <1>9, <1>10

(* What decode sees of the stream.                                         *)
LEMMA StreamFront ==
  ASSUME TypesOK
  PROVE  /\ Stream \in Seq(Bytes) /\ Len(Stream) = Len(buffer) + Len(line)
         /\ Len(buffer) \in Nat /\ Len(line) \in Nat
         /\ \A i \in 1 .. Len(buffer) : Stream[i] = buffer[i]
         /\ \A i \in 1 .. Len(Stream) : i > Len(buffer) => Stream[i] = line[i - Len(buffer)]
<1>1. buffer \in Seq(Bytes) /\ line \in Seq(Bytes) /\ Len(buffer) \in Nat /\ Len(line) \in Nat
  BY LenProperties DEF TypesOK
<1>2. /\ buffer \o line \in Seq(Bytes) /\ Len(buffer \o line) = Len(buffer) + Len(line)
      /\ \A i \in 1 .. Len(buffer) + Len(line) :
           (buffer \o line)[i] = IF i <= Len(buffer) THEN buffer[i] ELSE line[i - Len(buffer)]
  BY ONLY <1>1, ConcatProperties
<1>. QED BY <1>1, <1>2 DEF Stream

(* A frame at the head announces its size.                                 *)
LEMMA HeadFrame ==
  ASSUME TypesOK, IntactAt(Stream, 1), Len(buffer) > MinSize
  PROVE  buffer[1].val = Start /\ PlausibleSize /\ ExpectedSize + 2 = Stream[1].left + 1
<1>1. MinSize \in Nat /\ MinSize >= 2 /\ MaxSize \in Nat
  BY DecoderAssumption
<1>2. 1 \in 1 .. Len(buffer) /\ 2 \in 1 .. Len(buffer) /\ 3 \in 1 .. Len(buffer)
  BY <1>1, StreamFront
<1>3. Stream[1] = buffer[1] /\ Stream[2] = buffer[2] /\ Stream[3] = buffer[3]
  BY <1>2, StreamFront
<1>4. /\ Stream[1].left \in Int /\ Stream[1].left + 1 <= MaxSize
      /\ MinSize + 2 <= Stream[1].left + 1
  BY StreamFront, IntactFacts
<1>5. Stream[1].val = Start /\ Stream[1 + 1].val * 256 + Stream[1 + 2].val + 1 = Stream[1].left
  BY DEF IntactAt
<1>6. ExpectedSize + 1 = Stream[1].left
  BY <1>3, <1>5 DEF ExpectedSize
<1>7. ExpectedSize \in Int
  <2>1. buffer[2] \in Bytes /\ buffer[3] \in Bytes
    BY <1>2, ElementOfSeq, LenProperties DEF TypesOK
  <2>. QED BY <2>1 DEF Bytes, ExpectedSize
<1> HIDE DEF ExpectedSize
<1>8. ExpectedSize \in MinSize .. MaxSize /\ ExpectedSize + 2 = Stream[1].left + 1
  BY <1>1, <1>4, <1>6, <1>7
<1>. QED BY <1>3, <1>5, <1>8 DEF PlausibleSize

(* decode removes n bytes: what it will come to is nearer, or was the frame*)
(* it removed.                                                             *)
LEMMA Advance ==
  ASSUME OwedInv, NEW n, Removes(Stream, n), Stream' = SubSeq(Stream, n + 1, Len(Stream))
  PROVE  /\ Trusted(Stream', since)
         /\ \A f : WillReturn(Stream, f) =>
              WillReturn(Stream', f) \/ (IntactAt(Stream, 1) /\ Stream[1].frame = f)
<1>1. /\ Stream \in Seq(Bytes) /\ Len(Stream) \in Nat
      /\ n \in Int /\ 1 <= n /\ n <= Len(Stream) /\ n \in 0 .. Len(Stream)
      /\ n + 1 \in 1 .. Len(Stream) + 1
  BY StreamFront, LenProperties DEF OwedInv, DecoderInv, Removes
<1>2. Len(Stream') = Len(Stream) - n
  <2>1. Len(Stream') = Len(Stream) - (n + 1) + 1
    BY <1>1, Suffix
  <2>. QED BY <1>1, <2>1
<1>3. since \in 0 .. Far /\ Trusted(Stream, since) /\ Far \in Nat
  BY DecoderAssumption DEF OwedInv, Far
<1>4. Trusted(Stream', since)
  <2>1. CASE since < Far
    <3>1. Quiet(Stream, Len(Stream) - since + 1, Len(Stream) + 1)
      BY <1>3, <2>1 DEF Trusted
    <3>2. /\ Len(Stream) - since + 1 \in Int /\ Len(Stream) + 1 \in Int
          /\ Len(Stream) + 1 <= Len(Stream) + 1
          /\ Len(Stream') - since + 1 \in Int
          /\ Len(Stream') - since + 1 >= (Len(Stream) - since + 1) - n
          /\ (Len(Stream) + 1) - n = Len(Stream') + 1
      BY <1>1, <1>2, <1>3
    <3>3. Quiet(Stream', Len(Stream') - since + 1, (Len(Stream) + 1) - n)
      BY ONLY <1>1, <3>1, <3>2, QuietShifts, Stream' = SubSeq(Stream, n + 1, Len(Stream))
    <3>. QED BY <2>1, <3>2, <3>3 DEF Trusted
  <2>2. CASE ~(since < Far)
    <3>1. ComesTo(Stream, Len(Stream) + 1)
      BY <1>3, <2>2 DEF Trusted
    <3>2. Len(Stream) + 1 \in 2 .. Len(Stream) + 1 /\ (Len(Stream) + 1) - n = Len(Stream') + 1
      BY <1>1, <1>2
    <3>3. ComesTo(Stream', (Len(Stream) + 1) - n)
      BY <1>1, <3>1, <3>2, ComesCloser
    <3>. QED BY <2>2, <3>2, <3>3 DEF Trusted
  <2>. QED BY <2>1, <2>2
<1>5. ASSUME NEW f, WillReturn(Stream, f)
      PROVE  WillReturn(Stream', f) \/ (IntactAt(Stream, 1) /\ Stream[1].frame = f)
  <2>1. PICK p \in 1 .. Len(Stream) :
          IntactAt(Stream, p) /\ Stream[p].frame = f /\ ComesTo(Stream, p)
    BY <1>5 DEF WillReturn
  <2>2. CASE p = 1
    BY <2>1, <2>2
  <2>3. CASE p # 1
    <3>1. p \in 2 .. Len(Stream) + 1 /\ p \in Int
      BY <1>1, <2>3
    <3>2. n < p /\ ComesTo(Stream', p - n)
      BY <1>1, <2>1, <3>1, ComesCloser
    <3>3. IntactAt(Stream', p - n) /\ Stream'[p - n] = Stream[p]
      BY <1>1, <2>1, <3>1, <3>2, IntactShifts
    <3>4. p - n \in 1 .. Len(Stream')
      BY <1>1, <1>2, <3>1, <3>2
    <3>. QED BY <2>1, <3>2, <3>3, <3>4 DEF WillReturn
  <2>. QED BY <2>2, <2>3
<1>. QED BY <1>4, <1>5

LEMMA DropOwed ==
  ASSUME OwedInv, DropByte
  PROVE  OwedInv'
<1>1. /\ pc = "decode" /\ Len(buffer) > MinSize /\ buffer' = Tail(buffer)
      /\ buffer[1].val # Start \/ ~PlausibleSize
      /\ UNCHANGED <<line, pc, sent, got, since, owed>>
  BY DEF DropByte
<1>2. TypesOK /\ DecoderInv
  BY DEF OwedInv, DecoderInv
<1>3. ~IntactAt(Stream, 1)
  BY <1>1, <1>2, HeadFrame
<1>4. Len(buffer) \in Nat /\ MinSize \in Nat /\ Len(buffer) >= 1 /\ Far >= 1
  BY <1>1, <1>2, StreamFront, DecoderAssumption DEF Far
<1>5. Removes(Stream, 1)
  <2>1. 1 \in 1 .. Len(Stream)
    BY <1>2, <1>4, StreamFront
  <2>. QED BY <1>3, <1>4, <2>1 DEF Removes
<1>6. Stream' = SubSeq(Stream, 1 + 1, Len(Stream))
  <2>1. buffer # <<>>
    BY <1>4, EmptySeq
  <2>2. buffer' = SubSeq(buffer, 2, Len(buffer)) /\ 2 \in 1 .. Len(buffer) + 1
    BY <1>1, <1>2, <1>4, <2>1, TailIsSubSeq DEF TypesOK
  <2>3. Stream' = SubSeq(Stream, 2, Len(Stream))
    BY <1>1, <1>2, <2>2, BufferShrinks
  <2>. QED BY <2>3
<1>7. Trusted(Stream', since) /\ \A f : WillReturn(Stream, f) => WillReturn(Stream', f)
  BY <1>3, <1>5, <1>6, Advance
<1>8. DecoderInv'
  BY <1>2, DropKeeps
<1>. QED BY <1>1, <1>7, <1>8 DEF OwedInv, OwedKept, Returned

(* A frame that is owed is the candidate when it comes to the head, and    *)
(* the candidate decodes.                                                  *)
LEMMA OwedDecodes ==
  ASSUME TypesOK, NEW f \in DOMAIN sent, sent[f] = "data", IntactAt(Stream, 1), Stream[1].frame = f,
         NEW size, size = Stream[1].left + 1, Len(buffer) >= size,
         NEW c, c = SubSeq(buffer, 1, size)
  PROVE  DecodesOk(c) /\ ~Acknowledges(c) /\ c[4].frame = f
<1>1. PICK left \in Int : left = Stream[1].left
  BY StreamFront, IntactFacts
<1>2. /\ left >= 3 /\ left + 1 <= MaxSize /\ MinSize + 2 <= left + 1 /\ size = left + 1
      /\ MinSize \in Nat /\ MaxSize \in Nat /\ Len(buffer) \in Nat /\ size <= Len(buffer)
      /\ MinSize >= 2
  BY <1>1, StreamFront, IntactFacts, DecoderAssumption
<1>3. Len(c) = size /\ \A i \in 1 .. size : c[i] = Stream[i]
  <2>1. \A i \in 1 .. size : i \in 1 .. Len(buffer) /\ buffer[i] \in Bytes /\ 1 + i - 1 = i
    BY <1>2, LenProperties, ElementOfSeq DEF TypesOK
  <2>2. /\ Len(c) = IF 1 <= size THEN size - 1 + 1 ELSE 0
        /\ \A i \in 1 .. size - 1 + 1 : c[i] = buffer[1 + i - 1]
    BY <1>2, <2>1, SubSeqProperties
  <2>3. size - 1 + 1 = size /\ 1 <= size
    BY <1>2
  <2>. QED BY <2>1, <2>2, <2>3, StreamFront
<1>4. /\ Stream[1 + left].val = End
      /\ \A i \in 1 .. 1 + left : /\ Stream[i].frame = f /\ Stream[i].place = i - 1 + 1
                                  /\ Stream[i].left = left - (i - 1)
  BY <1>1 DEF IntactAt
<1>5. \A i \in 1 .. size : c[i].frame = f /\ c[i].place = i /\ c[i].left = left - (i - 1)
  <2>1. ASSUME NEW i \in 1 .. size PROVE i \in 1 .. 1 + left /\ i - 1 + 1 = i
    BY <1>2
  <2>. QED BY <1>3, <1>4, <2>1
<1>6. /\ 4 \in 1 .. size /\ size - 1 \in 1 .. size /\ size \in 1 .. size /\ size = 1 + left
      /\ left - ((size - 1) - 1) = 1
  <2>1. left \in Int /\ left >= 3 /\ size = left + 1
    BY <1>2
  <2>2. 4 \in 1 .. size /\ size - 1 \in 1 .. size /\ size \in 1 .. size
    BY ONLY <2>1
  <2>3. size = 1 + left
    BY ONLY <2>1
  <2>4. left - ((size - 1) - 1) = 1
    BY ONLY <2>1
  <2>. QED BY ONLY <2>2, <2>3, <2>4
<1>7. f # 0
  <2>1. f \in 1 .. Len(sent)
    BY LenProperties DEF TypesOK
  <2>. QED BY <2>1
<1>8. CrcFits(c)
  <2>1. \A i \in 4 .. Len(c) - 1 : i \in 1 .. size
    BY <1>2, <1>3
  <2>. QED BY <1>3, <1>5, <1>6, <1>7, <2>1 DEF CrcFits
<1>9. SizeFits(c) /\ c[Len(c)].val = End
  <2>1. c[Len(c)] = Stream[1 + left]
    BY <1>3, <1>6
  <2>2. c[Len(c)].val = End
    BY <1>4, <2>1
  <2>3. Len(c) = size
    BY <1>3
  <2>4. Len(c) >= MinSize /\ Len(c) <= MaxSize
    BY ONLY <1>2, <2>3
  <2>. QED BY <2>2, <2>4 DEF SizeFits
<1>10. ~Acknowledges(c) /\ c[4].frame = f
  BY <1>5, <1>6 DEF Acknowledges
<1>. QED BY <1>8, <1>9, <1>10 DEF DecodesOk

LEMMA TakeOwed ==
  ASSUME OwedInv, TakeCandidate
  PROVE  OwedInv'
<1> DEFINE size == ExpectedSize + 2
<1> DEFINE c == SubSeq(buffer, 1, size)
<1>1. /\ pc = "decode" /\ Len(buffer) > MinSize /\ PlausibleSize /\ Len(buffer) >= size
      /\ buffer[1].val = Start
      /\ got' = (IF DecodesOk(c) /\ ~Acknowledges(c) THEN Append(got, c[4].frame) ELSE got)
      /\ buffer' = SubSeq(buffer, Len(c) + 1, Len(buffer))
      /\ UNCHANGED <<line, pc, sent, since, owed>>
  BY DEF TakeCandidate, Candidate, AfterCandidate
<1>2. TypesOK /\ DecoderInv
  BY DEF OwedInv, DecoderInv
<1>3. /\ size \in Nat /\ size >= 4 /\ size <= Far /\ Len(buffer) \in Nat /\ size <= Len(buffer)
      /\ 1 \in 1 .. Len(buffer) /\ size + 1 \in 1 .. Len(buffer) + 1
  <2>1. ExpectedSize \in MinSize .. MaxSize /\ MinSize \in 2 .. MaxSize /\ MaxSize \in Nat
          /\ Len(buffer) \in Nat
    BY <1>1, <1>2, StreamFront, DecoderAssumption DEF PlausibleSize
  <2> HIDE DEF ExpectedSize
  <2>. QED BY <1>1, <2>1 DEF Far
<1>4. IntactAt(Stream, 1) => size = Stream[1].left + 1
  BY <1>1, <1>2, HeadFrame
<1> HIDE DEF size
<1>5. Len(c) = size
  <2>1. \A i \in 1 .. size : buffer[i] \in Bytes
    BY <1>2, <1>3, LenProperties, ElementOfSeq DEF TypesOK
  <2>2. Len(c) = IF 1 <= size THEN size - 1 + 1 ELSE 0
    BY <1>3, <2>1, SubSeqProperties
  <2>. QED BY <1>3, <2>2
<1>6. Stream' = SubSeq(Stream, size + 1, Len(Stream))
  BY <1>1, <1>2, <1>3, <1>5, BufferShrinks
<1>7. Removes(Stream, size)
  <2>1. Stream[1] = buffer[1] /\ size \in 1 .. Len(Stream)
    BY <1>2, <1>3, StreamFront
  <2>. QED BY <1>1, <1>3, <1>4, <2>1 DEF Removes
<1>8. /\ Trusted(Stream', since)
      /\ \A f : WillReturn(Stream, f) =>
           WillReturn(Stream', f) \/ (IntactAt(Stream, 1) /\ Stream[1].frame = f)
  BY <1>6, <1>7, Advance
<1>9. DecoderInv'
  BY <1>2, TakeKeeps
<1>10. Len(got) \in Nat /\ got \in Seq(Nat)
  BY <1>2, LenProperties DEF TypesOK
<1>11. ASSUME NEW f, Returned(f) PROVE Returned(f)'
  <2>1. PICK k \in 1 .. Len(got) : got[k] = f
    BY <1>11 DEF Returned
  <2>2. CASE got' = got
    BY <2>1, <2>2 DEF Returned
  <2>3. CASE got' = Append(got, c[4].frame)
    <3>1. got \in Seq(Nat \cup {c[4].frame}) /\ c[4].frame \in Nat \cup {c[4].frame}
      BY <1>10, SeqMonotonic
    <3>2. Len(got') = Len(got) + 1 /\ got'[k] = got[k]
      BY <2>1, <2>3, <3>1, AppendProperties
    <3>3. k \in 1 .. Len(got')
      BY <1>10, <3>2
    <3>. QED BY <2>1, <3>2, <3>3 DEF Returned
  <2>. QED BY <1>1, <2>2, <2>3
<1>12. ASSUME NEW f \in owed, IntactAt(Stream, 1), Stream[1].frame = f PROVE Returned(f)'
  <2>1. f \in DOMAIN sent /\ sent[f] = "data"
    BY DEF OwedInv, OwedKept
  <2>2. DecodesOk(c) /\ ~Acknowledges(c) /\ c[4].frame = f
    BY <1>2, <1>3, <1>4, <1>12, <2>1, OwedDecodes
  <2>3. got' = Append(got, f)
    BY <1>1, <2>2
  <2>4. got \in Seq(Nat \cup {f}) /\ f \in Nat \cup {f}
    BY <1>10, SeqMonotonic
  <2>5. Len(got') = Len(got) + 1 /\ got'[Len(got) + 1] = f
    BY <2>3, <2>4, AppendProperties
  <2>6. Len(got) + 1 \in 1 .. Len(got')
    BY <1>10, <2>5
  <2>. QED BY <2>5, <2>6 DEF Returned
<1>13. OwedKept'
  BY <1>1, <1>8, <1>11, <1>12 DEF OwedInv, OwedKept
<1>. QED BY <1>1, <1>8, <1>9, <1>13 DEF OwedInv

LEMMA WaitOwed ==
  ASSUME OwedInv, WaitForMore
  PROVE  OwedInv'
<1>1. UNCHANGED <<line, buffer, sent, got, since, owed>> /\ Waits
  BY DEF WaitForMore, Waits
<1>2. DecoderInv'
  BY WaitKeeps DEF OwedInv
<1>3. Stream' = Stream /\ Waits' /\ OwedKept'
  BY <1>1 DEF Stream, Waits, PlausibleSize, ExpectedSize, OwedInv, OwedKept, Returned
<1>. QED BY <1>1, <1>2, <1>3 DEF OwedInv

(* A buffer_limit of a packet and more never empties the buffer.           *)
LEMMA ReceiveOwed ==
  ASSUME OwedInv, GetRecvData, MaxSize < BufferLimit
  PROVE  OwedInv'
<1>1. /\ pc = "recv" /\ pc' = "decode" /\ UNCHANGED <<sent, got, since, owed>>
      /\ \E n \in 0 .. Len(line) : /\ buffer' = Kept \o SubSeq(line, 1, n)
                                   /\ line' = SubSeq(line, n + 1, Len(line))
  BY DEF GetRecvData
<1>2. PICK n \in 0 .. Len(line) : /\ buffer' = Kept \o SubSeq(line, 1, n)
                                  /\ line' = SubSeq(line, n + 1, Len(line))
  BY <1>1
<1>3. TypesOK /\ Len(buffer) < MaxSize + 2 /\ Len(line) \in Nat /\ Len(buffer) \in Nat
  BY <1>1, StreamFront DEF OwedInv, DecoderInv, BufferDrained
<1>4. Kept = buffer
  BY <1>3, DecoderAssumption DEF Kept
<1>5. buffer \in Seq(Bytes) /\ line \in Seq(Bytes) /\ SubSeq(line, 1, n) \in Seq(Bytes)
        /\ SubSeq(line, n + 1, Len(line)) \in Seq(Bytes)
  <2>1. \A i \in 1 .. n : line[i] \in Bytes
    BY <1>3, LenProperties, ElementOfSeq DEF TypesOK
  <2>2. SubSeq(line, 1, n) \in Seq(Bytes)
    BY <1>3, <2>1, SubSeqProperties
  <2>3. n + 1 \in 1 .. Len(line) + 1
    BY <1>3
  <2>. QED BY <1>3, <2>2, <2>3, Suffix DEF TypesOK
<1>6. Stream' = Stream
  <2>1. 1 \in 1 .. Len(line) + 1 /\ n \in 0 .. Len(line) /\ 1 - 1 = 0 /\ Len(line) \in n .. Len(line)
    BY <1>3
  <2>2. SubSeq(line, 1, n) \o SubSeq(line, n + 1, Len(line)) = SubSeq(line, 1, Len(line))
    BY <1>5, <2>1, ConcatAdjacentSubSeq
  <2>3. SubSeq(line, 1, Len(line)) = line
    BY <1>5, SubSeqFull
  <2>4. (buffer \o SubSeq(line, 1, n)) \o SubSeq(line, n + 1, Len(line))
          = buffer \o (SubSeq(line, 1, n) \o SubSeq(line, n + 1, Len(line)))
    BY ONLY <1>5, Regrouped
  <2>. QED BY <1>2, <1>4, <2>2, <2>3, <2>4 DEF Stream
<1>7. DecoderInv'
  BY ReceiveKeeps DEF OwedInv
<1>8. OwedKept'
  BY <1>1, <1>6 DEF OwedInv, OwedKept, Returned
<1>. QED BY <1>1, <1>6, <1>7, <1>8 DEF OwedInv

LEMMA OwedStep ==
  ASSUME MaxSize < BufferLimit, OwedInv, [Next]_vars
  PROVE  OwedInv'
<1>1. CASE UNCHANGED vars
  <2>1. DecoderInv'
    BY <1>1, DecoderStep DEF OwedInv
  <2>2. UNCHANGED <<line, buffer, pc, sent, got, since, owed>>
    BY <1>1 DEF vars
  <2>3. Stream' = Stream /\ (Waits' <=> Waits)
    BY <2>2 DEF Stream, Waits, PlausibleSize, ExpectedSize
  <2>. QED BY <2>1, <2>2, <2>3 DEF OwedInv, OwedKept, Returned
<1>. QED BY <1>1, SendFrameOwed, SendDamagedOwed, DropOwed, TakeOwed, WaitOwed, ReceiveOwed
         DEF Next, Bus, Decoder

LEMMA OwedInit == Init => OwedInv
<1>. SUFFICES ASSUME Init PROVE OwedInv
  OBVIOUS
<1>1. /\ line = <<>> /\ buffer = <<>> /\ pc = "recv" /\ since = Far /\ owed = {}
  BY DEF Init, Far
<1>2. Stream = <<>> /\ Len(buffer) = 0 /\ Len(Stream) = 0
  BY <1>1, EmptySeq, ConcatEmptySeq DEF Stream
<1>3. Far \in Nat /\ MinSize \in Nat
  BY DecoderAssumption DEF Far
<1>4. ComesTo(Stream, 1)
  <2>1. Quiet(Stream, 0 + 1, 1) /\ Framed(Stream, 1, 1)
    BY DEF Quiet, Framed
  <2>. QED BY <2>1 DEF ComesTo
<1>5. Trusted(Stream, since)
  BY <1>1, <1>2, <1>3, <1>4 DEF Trusted
<1>. QED BY <1>1, <1>2, <1>3, <1>5, DecoderInit DEF OwedInv, OwedKept, Waits

(* decode waits only for a frame that is not there in full.                *)
LEMMA OwedArrived ==
  ASSUME OwedInv
  PROVE  OwedFramesArrive
<1>. SUFFICES ASSUME pc = "recv", NEW f \in owed, WillReturn(Stream, f)
              PROVE  \E i \in 1 .. Len(line) : line[i].frame = f
  BY DEF OwedInv, OwedKept, OwedFramesArrive, Returned
<1>1. TypesOK /\ Waits /\ Len(buffer) < Far
  BY DEF OwedInv, DecoderInv, BufferDrained, Far
<1>2. PICK p \in 1 .. Len(Stream) :
        IntactAt(Stream, p) /\ Stream[p].frame = f /\ ComesTo(Stream, p)
  BY DEF WillReturn
<1>3. PICK left \in Int : left = Stream[p].left
  BY <1>1, <1>2, StreamFront, IntactFacts
<1>4. /\ p \in Int /\ p >= 1 /\ p + left <= Len(Stream) /\ MinSize + 1 <= left
      /\ MinSize \in Nat /\ MaxSize \in Nat /\ Far \in Nat /\ MinSize >= 2
      /\ Len(buffer) \in Nat /\ Len(line) \in Nat /\ Len(Stream) = Len(buffer) + Len(line)
  BY <1>1, <1>2, <1>3, StreamFront, IntactFacts, DecoderAssumption DEF Far
<1>5. CASE p + left > Len(buffer)
  <2>1. /\ p + left \in 1 .. Len(Stream) /\ (p + left) - Len(buffer) \in 1 .. Len(line)
        /\ p + left \in p .. p + left
    BY <1>4, <1>5
  <2>2. Stream[p + left].frame = f
    BY <1>2, <1>3, <2>1 DEF IntactAt
  <2>3. Stream[p + left] = line[(p + left) - Len(buffer)]
    BY <1>1, <1>5, <2>1, StreamFront
  <2>. QED BY <2>1, <2>2, <2>3
<1>6. CASE p + left <= Len(buffer)
  <2>1. Len(buffer) > MinSize
    BY <1>4, <1>6
  <2>2. buffer[1].val = Start /\ Len(buffer) < ExpectedSize + 2
    BY <1>1, <1>4, <2>1 DEF Waits
  <2>3. Stream[1] = buffer[1]
    <3>1. 1 \in 1 .. Len(buffer)
      BY <1>4, <2>1
    <3>. QED BY <1>1, <3>1, StreamFront
  <2>4. PICK gate \in 1 .. p, d \in 0 .. p :
          /\ d = 0 \/ d + Far <= gate
          /\ Quiet(Stream, d + 1, gate) /\ Framed(Stream, gate, p)
    BY <1>2 DEF ComesTo
  <2>5. d = 0 /\ gate \in Int /\ gate >= 1 /\ gate <= p
    BY <1>1, <1>4, <1>6, <2>4
  <2>6. PICK e \in Int : e = Stream[1].left /\ IntactAt(Stream, 1) /\ 1 + e <= p + left
    <3>1. CASE gate > 1
      <4>1. 1 \in d + 1 .. gate - 1
        BY <2>5, <3>1
      <4>2. IntactAt(Stream, 1) /\ 1 + Stream[1].left < gate
        BY <2>2, <2>3, <2>4, <4>1 DEF Quiet
      <4>3. Stream[1].left \in Int
        BY <1>1, <4>2, StreamFront, IntactFacts
      <4>4. 1 + Stream[1].left <= p + left
        BY <1>4, <2>5, <4>2, <4>3
      <4>. QED BY <4>2, <4>3, <4>4
    <3>2. CASE gate = 1 /\ p = 1
      BY <1>2, <1>3, <3>2
    <3>3. CASE gate = 1 /\ p > 1
      <4>1. 1 \in gate .. p - 1
        BY <1>4, <3>3
      <4>2. PICK b \in gate .. 1 : IntactAt(Stream, b) /\ 1 <= b + Stream[b].left /\ b + Stream[b].left < p
        BY <2>4, <4>1 DEF Framed
      <4>3. b = 1
        BY <3>3, <4>2
      <4>4. IntactAt(Stream, 1) /\ 1 + Stream[1].left < p
        BY <4>2, <4>3
      <4>5. Stream[1].left \in Int
        BY <1>1, <4>4, StreamFront, IntactFacts
      <4>6. 1 + Stream[1].left <= p + left
        BY <1>4, <4>4, <4>5
      <4>. QED BY <4>4, <4>5, <4>6
    <3>. QED BY <1>4, <2>5, <3>1, <3>2, <3>3
  <2>7. ExpectedSize + 2 = e + 1
    BY <1>1, <2>1, <2>6, HeadFrame
  <2> HIDE DEF ExpectedSize
  <2>. QED BY <1>4, <1>6, <2>2, <2>6, <2>7
<1>. QED BY <1>4, <1>5, <1>6

(* nasa_protocol.cpp:62-118, a size field that misleads decode, in a       *)
(* damaged frame or in a payload, costs no more than the largest packet:   *)
(* every frame that begins that many bytes after it, or more, is returned  *)
(* as soon as it is there.  buffer_limit (10000 in the configurations)     *)
(* must exceed the largest size of 1500, or the main loop empties a buffer *)
(* that holds such a frame's beginning.                                    *)
THEOREM OwedReturned ==
  ASSUME MaxSize < BufferLimit
  PROVE  Spec => []OwedFramesArrive
<1>1. OwedInv /\ [Next]_vars => OwedInv'
  BY OwedStep
<1>2. OwedInv => OwedFramesArrive
  BY OwedArrived
<1>. QED BY <1>1, <1>2, OwedInit, PTL DEF Spec

-----------------------------------------------------------------------------
(* The wire format.                                                        *)

(* A command whose retry count fits its two bits decodes to itself.        *)
LEMMA CommandRoundTrip ==
  ASSUME NEW c \in Commands, c.retry_count \in 0 .. 3
  PROVE  CommandDecode(CommandEncode(c)) = c
<1>1. /\ c.packet_information \in {0, 1} /\ c.protocol_version \in 0 .. 3
      /\ c.packet_type \in 0 .. 15 /\ c.data_type \in 0 .. 15
  BY DEF Commands
<1>. DEFINE b == c.packet_information * 128 + c.protocol_version * 32 + c.retry_count * 8
            e == c.packet_type * 16 + c.data_type
<1>2. b % 256 = b /\ b \div 128 = c.packet_information
  BY <1>1
<1>3. (b \div 32) % 4 = c.protocol_version
  BY <1>1
<1>4. (b \div 8) % 4 = c.retry_count
  BY <1>1
<1>5. e % 256 = e /\ e \div 16 = c.packet_type /\ e % 16 = c.data_type
  BY <1>1
<1>6. /\ CommandEncode(c)[1] = b % 256 /\ CommandEncode(c)[2] = e % 256
      /\ CommandEncode(c)[3] = c.packet_number
  BY DEF CommandEncode
<1>. HIDE DEF b, e
<1>7. CommandDecode(CommandEncode(c)) =
        [packet_information |-> c.packet_information,
         protocol_version |-> c.protocol_version, retry_count |-> c.retry_count,
         packet_type |-> c.packet_type, data_type |-> c.data_type,
         packet_number |-> c.packet_number]
  BY <1>2, <1>3, <1>4, <1>5, <1>6 DEF CommandDecode
<1>. QED BY <1>7 DEF Commands

(* Cutting off the low byte and putting it back.                           *)
LEMMA Split ==
  ASSUME NEW v \in Int
  PROVE  Shift(v) \in Int /\ v % 256 \in 0 .. 255 /\ v = Shift(v) * 256 + (v % 256)
BY DEF Shift

(* A signed byte survives being cut to eight bits.                         *)
LEMMA SignedByte ==
  ASSUME NEW v \in -128 .. 127
  PROVE  v % 256 \in 0 .. 255 /\ TopByte(v % 256) = v
BY DEF TopByte

(* A value written to a register comes back from its report unchanged, for *)
(* every width and sign.                                                   *)
LEMMA ValueRoundTrip ==
  ASSUME NEW type \in DOMAIN Width, NEW v \in Width[type]
  PROVE  HandlerValue(type, ValueDecode(type, ValueEncode(type, v))) = v
<1>1. CASE type = "Enum"
  <2>. DEFINE byte == v % 256
  <2>1. v \in 0 .. 255
    BY <1>1 DEF Width
  <2>2. byte = v
    BY <2>1
  <2>. HIDE DEF byte
  <2>3. ValueDecode(type, ValueEncode(type, v)) = byte
    <3>1. ValueEncode(type, v) = <<byte>>
      BY <1>1 DEF ValueEncode, byte
    <3>. QED BY <1>1, <3>1 DEF ValueDecode
  <2>. QED BY <1>1, <2>2, <2>3 DEF HandlerValue
<1>2. CASE type = "Variable"
  <2>. DEFINE b1 == Shift(v) % 256
              b0 == v % 256
  <2>1. v \in Int /\ Shift(v) \in -128 .. 127
    BY <1>2 DEF Width
  <2>2. b0 \in 0 .. 255 /\ v = Shift(v) * 256 + b0
    BY <2>1, Split
  <2>3. b1 \in 0 .. 255 /\ TopByte(b1) = Shift(v)
    BY <2>1, SignedByte
  <2>4. ValueDecode(type, ValueEncode(type, v)) = b1 * 256 + b0
    <3>1. ValueEncode(type, v) = <<b1, b0>>
      BY <1>2 DEF ValueEncode
    <3>. HIDE DEF b1, b0
    <3>. QED BY <1>2, <3>1 DEF ValueDecode
  <2>. HIDE DEF b1, b0
  <2>5. Shift(b1 * 256 + b0) = b1 /\ (b1 * 256 + b0) % 256 = b0
    BY <2>2, <2>3 DEF Shift
  <2>. QED BY <1>2, <2>1, <2>2, <2>3, <2>4, <2>5 DEF HandlerValue
<1>3. CASE type = "LongVariable"
  <2>. DEFINE w1 == Shift(v)
              w2 == Shift(w1)
              w3 == Shift(w2)
              b3 == w3 % 256
              b2 == w2 % 256
              b1 == w1 % 256
              b0 == v % 256
  <2>1. v \in Int /\ w3 \in -128 .. 127
    BY <1>3 DEF Width
  <2>2. ValueDecode(type, ValueEncode(type, v)) =
          ((TopByte(b3) * 256 + b2) * 256 + b1) * 256 + b0
    <3>1. ValueEncode(type, v) = <<b3, b2, b1, b0>>
      BY <1>3 DEF ValueEncode
    <3>. HIDE DEF b3, b2, b1, b0
    <3>. QED BY <1>3, <3>1 DEF ValueDecode
  <2>3. /\ b0 \in 0 .. 255 /\ v = w1 * 256 + b0 /\ w1 \in Int
    BY <2>1, Split
  <2>4. /\ b1 \in 0 .. 255 /\ w1 = w2 * 256 + b1 /\ w2 \in Int
    BY <2>3, Split
  <2>5. /\ b2 \in 0 .. 255 /\ w2 = w3 * 256 + b2
    BY <2>4, Split
  <2>6. TopByte(b3) = w3
    BY <2>1, SignedByte
  <2>. HIDE DEF w1, w2, w3, b3, b2, b1, b0
  <2>7. ValueDecode(type, ValueEncode(type, v)) = v
    BY <2>1, <2>2, <2>3, <2>4, <2>5, <2>6
  <2>. QED BY <1>3, <2>7 DEF HandlerValue
<1>. QED BY <1>1, <1>2, <1>3 DEF Width

-----------------------------------------------------------------------------
(* The invariant of the wire: the packet fits its fields, what is under    *)
(* way is that packet, and the heat pump reads back its header.            *)
WireInv ==
  /\ pkt.command \in Commands /\ pkt.command.retry_count \in 0 .. 3
  /\ pkt.type \in DOMAIN Width /\ pkt.value \in Width[pkt.type]
  /\ phase \in {"sent", "heard"} =>
       /\ wire.command = CommandEncode(pkt.command)
       /\ wire.value = ValueEncode(pkt.type, pkt.value)
  /\ HeaderSurvives

(* It holds before the first packet.                                       *)
LEMMA WireInvInit == WireInit => WireInv
<1>. SUFFICES ASSUME WireInit PROVE WireInv
  OBVIOUS
<1>1. pkt.command \in Commands /\ pkt.command.retry_count \in 0 .. 3
  BY DEF WireInit, NoCommand, Commands, ByteValues
<1>2. pkt.type = "Enum" /\ pkt.value = 0 /\ phase = "idle"
  BY DEF WireInit
<1>3. pkt.type \in DOMAIN Width /\ pkt.value \in Width[pkt.type]
  BY <1>2 DEF Width
<1>. QED BY <1>1, <1>2, <1>3 DEF WireInv, HeaderSurvives

(* The packet counter is a byte.                                           *)
LEMMA PacketNumberIsByte == PacketNumbers \subseteq ByteValues
BY WireAssumption

(* One step keeps it, as long as the retry counts fit their two bits.      *)
LEMMA WireInvStep ==
  ASSUME RetryCounts \subseteq 0 .. 3, WireInv, [WireNext]_wireVars
  PROVE  WireInv'
<1>. USE DEF HeaderSurvives
<1>1. CASE Create
  <2>1. PICK d \in DataTypes, n \in PacketNumbers, r \in RetryCounts,
             number \in DOMAIN RegisterValues :
          \E v \in RegisterValues[number] :
            pkt' = [command |-> [packet_information |-> 1, protocol_version |-> 2,
                                 retry_count |-> r, packet_type |-> Normal,
                                 data_type |-> d, packet_number |-> n],
                    type |-> MessageSetType(number), value |-> v]
    BY <1>1 DEF Create
  <2>2. PICK v \in RegisterValues[number] :
            pkt' = [command |-> [packet_information |-> 1, protocol_version |-> 2,
                                 retry_count |-> r, packet_type |-> Normal,
                                 data_type |-> d, packet_number |-> n],
                    type |-> MessageSetType(number), value |-> v]
    BY <2>1
  <2>3. r \in 0 .. 3 /\ n \in ByteValues /\ d \in 1 .. 3
    <3>1. r \in 0 .. 3
      OBVIOUS
    <3>2. n \in ByteValues
      BY PacketNumberIsByte
    <3>3. d \in 1 .. 3
      BY DEF DataTypes
    <3>. QED BY <3>1, <3>2, <3>3
  <2>4. pkt'.command \in Commands /\ pkt'.command.retry_count \in 0 .. 3
    BY <2>2, <2>3 DEF Commands, Normal
  <2>5. pkt'.type \in DOMAIN Width /\ pkt'.value \in Width[pkt'.type]
    BY <2>2, WireAssumption
  <2>6. phase' = "created"
    BY <1>1 DEF Create
  <2>. QED BY <2>4, <2>5, <2>6 DEF WireInv
<1>2. CASE Encode
  BY <1>2 DEF Encode, WireInv
<1>3. CASE Hear
  <2>1. heard' = CommandDecode(CommandEncode(pkt.command))
    BY <1>3 DEF Hear, WireInv
  <2>2. heard' = pkt.command
    BY <2>1, CommandRoundTrip DEF WireInv
  <2>. QED BY <1>3, <2>2 DEF Hear, WireInv
<1>4. CASE Report
  BY <1>4 DEF Report, WireInv
<1>5. CASE UNCHANGED wireVars
  BY <1>5 DEF wireVars, WireInv
<1>. QED BY <1>1, <1>2, <1>3, <1>4, <1>5 DEF WireNext

(* Every header with a retry count of at most three reaches the heat pump  *)
(* as it was built (Packet::createToBroadcastSelf, Command::encode).       *)
THEOREM HeaderReaches ==
  ASSUME RetryCounts \subseteq 0 .. 3
  PROVE  WireSpec => []HeaderSurvives
<1>1. WireInv /\ [WireNext]_wireVars => WireInv'
  BY WireInvStep
<1>2. WireInv => HeaderSurvives
  BY DEF WireInv
<1>. QED BY WireInvInit, <1>1, <1>2, PTL DEF WireSpec

(* A register that holds the written value confirms it, whatever its width *)
(* and sign: updateValue sees val_is_ equal to val_new_.                   *)
THEOREM Confirmation ==
  ASSUME RetryCounts \subseteq 0 .. 3
  PROVE  WireSpec => EchoConfirms
<1>1. WireInv /\ [WireNext]_wireVars => WireInv'
  BY WireInvStep
<1>2. WireInv => [Report => val_is' = pkt.value]_wireVars
  BY ValueRoundTrip DEF WireInv, Report
<1>. QED BY WireInvInit, <1>1, <1>2, PTL DEF WireSpec, EchoConfirms

=============================================================================
