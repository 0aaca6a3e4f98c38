--------------------------- MODULE FsvExport_proofs ---------------------------
(***************************************************************************)
(* Proofs about the field setting export, for any lists of settings and    *)
(* any number of changes, losses and packets received at once.             *)
(***************************************************************************)
EXTENDS FsvExport, SequenceTheorems, WellFoundedInduction, TLAPS

(* The handlers never hold a command: nobody gives them one.               *)
Readers == [is : Known, new : {IntMax}, ctr : {0}]

Received == [type : {"Read", "Response", "Notification"}, id : Msgs \cup {Other}, val : Values]

TypesOK ==
  /\ handler \in [Msgs -> Readers]
  /\ register \in [Msgs -> Values] /\ held \in [Msgs -> SUBSET Values]
  /\ \A p \in bus : p.id \in Msgs
  /\ inbox \in Seq(Received)
  /\ file \in {None} \cup [Msgs -> Known]
  /\ budget \in [changes : Int, losses : Int, foreign : Int, outages : Int]
  /\ budget.foreign <= ForeignReads

(* Until another controller asks, what arrives and what is kept was held.  *)
Trusted ==
  /\ \A m \in Msgs : register[m] \in held[m]
  /\ budget.foreign = ForeignReads =>
       /\ \A i \in DOMAIN inbox : inbox[i].id \in Msgs => inbox[i].val \in held[inbox[i].id]
       /\ \A m \in Msgs : handler[m].is \in held[m] \cup {IntMax}

ExportInv == TypesOK /\ Trusted /\ FileHeld

-----------------------------------------------------------------------------
(* Operators.                                                              *)

(* A set of positions that is not empty has a last one.                    *)
LEMMA LastPosition ==
  ASSUME NEW n \in Nat, NEW S \in SUBSET (1 .. n), S # {}
  PROVE  \E i \in S : \A j \in S : j <= i
<1> DEFINE D == {n - i : i \in S}
<1>1. D \subseteq Nat /\ D # {}
  <2>1. ASSUME NEW i \in S PROVE n - i \in Nat
    OBVIOUS
  <2>. QED BY <2>1
<1>2. PICK x \in D : \A y \in D : ~(<<y, x>> \in OpToRel(<, Nat))
  BY <1>1, NatLessThanWellFounded, WFMin
<1>3. PICK i \in S : x = n - i
  BY <1>2
<1>4. ASSUME NEW j \in S PROVE j <= i
  <2>1. n - j \in D
    OBVIOUS
  <2>2. ~(n - j < n - i)
    BY <1>1, <1>2, <1>3, <2>1 DEF OpToRel
  <2>. QED BY <2>2
<1>. QED BY <1>4

(* updateValue for a batch leaves a handler alone or gives it a value of   *)
(* the batch.                                                              *)
LEMMA UpdatedValue ==
  ASSUME NEW hs \in [Msgs -> Readers], NEW batch \in Seq(Received), NEW m \in Msgs
  PROVE  /\ Updated(hs, batch) \in [Msgs -> Readers]
         /\ \/ Updated(hs, batch)[m] = hs[m]
            \/ \E i \in DOMAIN batch : batch[i].id = m /\ Updated(hs, batch)[m].is = batch[i].val
<1> DEFINE own(x) == {i \in DOMAIN batch : batch[i].id = x}
<1> DEFINE latest(x) == CHOOSE i \in own(x) : \A j \in own(x) : j <= i
<1>1. Len(batch) \in Nat /\ DOMAIN batch = 1 .. Len(batch)
        /\ \A i \in 1 .. Len(batch) : batch[i] \in Received
  BY LenProperties, ElementOfSeq
<1>2. ASSUME NEW x \in Msgs, own(x) # {}
      PROVE  latest(x) \in own(x)
  <2>1. own(x) \in SUBSET (1 .. Len(batch))
    BY <1>1
  <2>2. \E i \in own(x) : \A j \in own(x) : j <= i
    BY <1>1, <1>2, <2>1, LastPosition
  <2>. QED BY <2>2
<1>3. \A x \in Msgs : Updated(hs, batch)[x] =
        IF own(x) = {} THEN hs[x] ELSE UpdateValue(hs[x], batch[latest(x)].val)
  BY DEF Updated
<1> HIDE DEF latest
<1>4. ASSUME NEW x \in Msgs, own(x) # {}
      PROVE  /\ batch[latest(x)].val \in Values
             /\ latest(x) \in DOMAIN batch /\ batch[latest(x)].id = x
  BY <1>1, <1>2, <1>4 DEF Received
<1>5. ASSUME NEW x \in Msgs PROVE Updated(hs, batch)[x] \in Readers
  <2>1. CASE own(x) = {}
    BY <1>3, <2>1
  <2>2. CASE own(x) # {}
    <3>1. PICK v \in Values : v = batch[latest(x)].val
      BY <1>4, <2>2
    <3>2. Updated(hs, batch)[x] = UpdateValue(hs[x], v)
      BY <1>3, <2>2, <3>1
    <3>3. UpdateValue(hs[x], v) \in Readers
      BY DEF UpdateValue, Readers, Known
    <3>. QED BY <3>2, <3>3
  <2>. QED BY <2>1, <2>2
<1>6. Updated(hs, batch) = [x \in Msgs |-> Updated(hs, batch)[x]]
  BY DEF Updated
<1>7. Updated(hs, batch) \in [Msgs -> Readers]
  BY <1>5, <1>6
<1>8. CASE own(m) = {}
  BY <1>3, <1>7, <1>8
<1>9. CASE own(m) # {}
  <2> DEFINE v == batch[latest(m)].val
  <2>0. Updated(hs, batch)[m] = UpdateValue(hs[m], v)
    BY <1>3, <1>9
  <2> HIDE DEF v
  <2>1. Updated(hs, batch)[m].is = v
    BY <2>0 DEF UpdateValue
  <2>. QED BY <1>4, <1>7, <1>9, <2>1 DEF v
<1>. QED BY <1>8, <1>9

(* A handler without a value asks for it and stays as it is.               *)
LEMMA AsksToRead ==
  ASSUME NEW m \in Msgs, NEW h, ~HasVal(h)
  PROVE  AfterGetPacket(m, h) = h /\ PacketOf(m, h) = [type |-> "Read", val |-> 1]
<1>1. NeedsRead(h)
  BY ExportAssumption DEF HasVal, NeedsRead
<1>. QED BY <1>1 DEF AfterGetPacket, PacketOf, Sends, Dropped

(* An iteration keeps what updateValue made of the handlers.               *)
LEMMA HandlersAfter ==
  ASSUME handler \in [Msgs -> Readers], inbox \in Seq(Received), Iterate
  PROVE  handler' = Updated(handler, inbox)
<1> DEFINE hs == Updated(handler, inbox)
<1>1. \A m \in Msgs : hs \in [Msgs -> Readers]
  BY UpdatedValue
<1>2. handler' = [m \in Msgs |-> IF HasVal(hs[m]) THEN hs[m] ELSE AfterGetPacket(m, hs[m])]
  BY DEF Iterate
<1>3. hs = [m \in Msgs |-> hs[m]]
  BY DEF Updated
<1> HIDE DEF hs
<1>4. \A m \in Msgs : (IF HasVal(hs[m]) THEN hs[m] ELSE AfterGetPacket(m, hs[m])) = hs[m]
  BY AsksToRead
<1>5. handler' = [m \in Msgs |-> hs[m]]
  BY <1>2, <1>4
<1>. QED BY <1>3, <1>5 DEF hs

-----------------------------------------------------------------------------
LEMMA ExportInit == Init => ExportInv
<1>. SUFFICES ASSUME Init PROVE ExportInv
  OBVIOUS
<1>1. FreshHandler \in Readers
  BY DEF FreshHandler, Readers, Known
<1>2. TypesOK
  <2>1. handler \in [Msgs -> Readers] /\ inbox \in Seq(Received)
    BY <1>1 DEF Init
  <2>2. register \in [Msgs -> Values] /\ held \in [Msgs -> SUBSET Values]
    BY DEF Init
  <2>3. /\ budget \in [changes : Int, losses : Int, foreign : Int, outages : Int]
        /\ budget.foreign <= ForeignReads
    BY ExportAssumption DEF Init
  <2>. QED BY <2>1, <2>2, <2>3 DEF Init, TypesOK
<1>3. Trusted
  BY DEF Init, Trusted, FreshHandler
<1>4. FileHeld
  BY DEF Init, FileHeld
<1>. QED BY <1>2, <1>3, <1>4 DEF ExportInv

LEMMA IterateStep ==
  ASSUME ExportInv, Iterate
  PROVE  ExportInv'
<1>. USE DEF ExportInv, TypesOK
<1> DEFINE hs == Updated(handler, inbox)
<1>1. handler' = hs
  BY HandlersAfter
<1>2. hs \in [Msgs -> Readers]
  <2>1. CASE Msgs = {}
    BY <2>1 DEF Updated
  <2>2. CASE Msgs # {}
    BY <2>2, UpdatedValue
  <2>. QED BY <2>1, <2>2
<1>3. ASSUME budget.foreign = ForeignReads, NEW m \in Msgs
      PROVE  hs[m].is \in held[m] \cup {IntMax}
  BY <1>3, UpdatedValue DEF Trusted
<1>4. file' = (IF HaveAllValues(hs) THEN [m \in Msgs |-> hs[m].is] ELSE None)
        /\ inbox' = <<>> /\ UNCHANGED <<register, held, linked, budget>>
  BY DEF Iterate, Rows
<1>5. \A p \in bus' : p.id \in Msgs
  BY DEF Iterate, PktsTx, Packet
<1> HIDE DEF hs
<1>6. \A m \in Msgs : hs[m].is \in Known
  BY <1>2 DEF Readers
<1>7. TypesOK'
  BY <1>1, <1>2, <1>4, <1>5, <1>6
<1>8. Trusted'
  BY <1>1, <1>3, <1>4 DEF Trusted
<1>9. FileHeld'
  BY <1>3, <1>4 DEF FileHeld, HaveAllValues, HasVal
<1>. QED BY <1>7, <1>8, <1>9

(* What arrives is appended to the inbox, or nowhere.                      *)
LEMMA ArrivesType ==
  ASSUME inbox \in Seq(Received), NEW p \in Received, Arrives(p)
  PROVE  /\ inbox' \in Seq(Received)
         /\ \A i \in DOMAIN inbox' : inbox'[i] = p \/ (i \in DOMAIN inbox /\ inbox'[i] = inbox[i])
<1>1. CASE inbox' = Append(inbox, p)
  BY <1>1, AppendProperties, LenProperties
<1>2. CASE inbox' = inbox
  BY <1>2
<1>. QED BY <1>1, <1>2 DEF Arrives

(* Steps of the bus: one packet arrives, a setting may change with it.     *)
LEMMA ArrivalStep ==
  ASSUME ExportInv, NEW p \in Received, Arrives(p),
         UNCHANGED <<handler, linked, file>>, bus' \subseteq bus,
         register' \in [Msgs -> Values], held' \in [Msgs -> SUBSET Values],
         \A m \in Msgs : held[m] \subseteq held'[m] /\ register'[m] \in held'[m],
         budget' \in [changes : Int, losses : Int, foreign : Int, outages : Int],
         budget'.foreign <= budget.foreign,
         p.id \in Msgs /\ p.val \notin held'[p.id] => budget'.foreign < budget.foreign
  PROVE  ExportInv'
<1>. USE DEF ExportInv, TypesOK
<1>1. budget.foreign \in Int /\ budget'.foreign \in Int /\ ForeignReads \in Int
  BY ExportAssumption
<1>2. TypesOK'
  BY <1>1, ArrivesType
<1>3. budget'.foreign = ForeignReads => budget.foreign = ForeignReads
                                          /\ ~(budget'.foreign < budget.foreign)
  BY <1>1
<1>4. ASSUME budget'.foreign = ForeignReads, NEW i \in DOMAIN inbox', inbox'[i].id \in Msgs
      PROVE  inbox'[i].val \in held'[inbox'[i].id]
  BY <1>3, <1>4, ArrivesType DEF Trusted
<1>5. Trusted'
  BY <1>3, <1>4 DEF Trusted
<1>6. FileHeld'
  BY <1>3 DEF FileHeld
<1>. QED BY <1>2, <1>5, <1>6

LEMMA BusStep ==
  ASSUME ExportInv,
         \/ \E p \in bus : Answer(p) \/ Lose(p)
         \/ Traffic \/ Outage
         \/ \E m \in Msgs : ForeignRead(m) \/ Change(m)
  PROVE  ExportInv'
<1>. USE DEF ExportInv, TypesOK
<1>1. \A m \in Msgs : register[m] \in held[m]
  BY DEF Trusted
<1>2. 1 \in Values
  BY HandlerAssumption
<1>3. ASSUME NEW p \in bus, Answer(p) PROVE ExportInv'
  <2> DEFINE q == Packet("Response", p.id, register[p.id])
  <2>1. q \in Received /\ q.id = p.id /\ q.val = register[p.id]
    BY DEF Packet, Received
  <2>2. /\ Arrives(q) /\ bus' \subseteq bus
        /\ UNCHANGED <<handler, register, held, linked, file, budget>>
    BY <1>3 DEF Answer
  <2> HIDE DEF q
  <2>3. q.id \in Msgs /\ q.val \notin held'[q.id] => budget'.foreign < budget.foreign
    BY <1>1, <2>1, <2>2
  <2>. QED BY <1>1, <2>1, <2>2, <2>3, ArrivalStep
<1>4. ASSUME NEW p \in bus, Lose(p) PROVE ExportInv'
  <2>1. /\ bus' \subseteq bus /\ UNCHANGED <<handler, register, held, inbox, linked, file>>
        /\ budget' = [budget EXCEPT !.losses = @ - 1]
    BY <1>4 DEF Lose
  <2>2. /\ budget' \in [changes : Int, losses : Int, foreign : Int, outages : Int]
        /\ budget'.foreign = budget.foreign
    BY <2>1
  <2>. QED BY <2>1, <2>2 DEF Trusted, FileHeld
<1>5. CASE Traffic
  <2>1. Packet("Notification", Other, 1) \in Received /\ Packet("Notification", Other, 1).id \notin Msgs
    BY <1>2, ExportAssumption DEF Packet, Received
  <2>2. /\ Arrives(Packet("Notification", Other, 1))
        /\ UNCHANGED <<handler, register, held, bus, linked, file, budget>>
    BY <1>5 DEF Traffic
  <2>. QED BY <1>1, <2>1, <2>2, ArrivalStep
<1>6. CASE Outage
  <2>1. /\ UNCHANGED <<handler, register, held, bus, inbox, file>>
        /\ budget' = [budget EXCEPT !.outages = @ - 1]
    BY <1>6 DEF Outage
  <2>2. /\ budget' \in [changes : Int, losses : Int, foreign : Int, outages : Int]
        /\ budget'.foreign = budget.foreign
    BY <2>1
  <2>. QED BY <2>1, <2>2 DEF Trusted, FileHeld
<1>7. ASSUME NEW m \in Msgs, ForeignRead(m) PROVE ExportInv'
  <2> DEFINE q == Packet("Read", m, 1)
  <2>1. q \in Received
    BY <1>2 DEF Packet, Received
  <2>2. /\ Arrives(q)
        /\ UNCHANGED <<handler, register, held, bus, linked, file>>
        /\ budget' = [budget EXCEPT !.foreign = @ - 1]
    BY <1>7 DEF ForeignRead
  <2> HIDE DEF q
  <2>3. /\ budget' \in [changes : Int, losses : Int, foreign : Int, outages : Int]
        /\ budget'.foreign < budget.foreign /\ budget'.foreign <= budget.foreign
    BY <2>2
  <2>4. /\ bus' \subseteq bus
        /\ register' \in [Msgs -> Values] /\ held' \in [Msgs -> SUBSET Values]
        /\ \A x \in Msgs : held[x] \subseteq held'[x] /\ register'[x] \in held'[x]
    BY <1>1, <2>2
  <2>. QED BY <2>1, <2>2, <2>3, <2>4, ArrivalStep
<1>8. ASSUME NEW m \in Msgs, Change(m) PROVE ExportInv'
  <2>1. PICK v \in Values \ {register[m]} :
          /\ register' = [register EXCEPT ![m] = v]
          /\ held' = [held EXCEPT ![m] = @ \cup {v}]
          /\ Arrives(Packet("Notification", m, v))
    BY <1>8 DEF Change
  <2>2. /\ UNCHANGED <<handler, bus, linked, file>>
        /\ budget' = [budget EXCEPT !.changes = @ - 1]
    BY <1>8 DEF Change
  <2>3. /\ budget' \in [changes : Int, losses : Int, foreign : Int, outages : Int]
        /\ budget'.foreign = budget.foreign
    BY <2>2
  <2> DEFINE q == Packet("Notification", m, v)
  <2>4. q \in Received /\ q.id = m /\ q.val = v
    BY <2>1 DEF Packet, Received
  <2>5. register' \in [Msgs -> Values] /\ held' \in [Msgs -> SUBSET Values]
          /\ \A x \in Msgs : held[x] \subseteq held'[x] /\ register'[x] \in held'[x]
    BY <1>1, <2>1
  <2>6. q.val \in held'[q.id] /\ Arrives(q)
    BY <2>1, <2>4
  <2> HIDE DEF q
  <2>. QED BY <2>2, <2>3, <2>4, <2>5, <2>6, ArrivalStep
<1>. QED BY <1>3, <1>4, <1>5, <1>6, <1>7, <1>8

LEMMA ExportStep == ExportInv /\ [Next]_vars => ExportInv'
<1>. SUFFICES ASSUME ExportInv, [Next]_vars PROVE ExportInv'
  OBVIOUS
<1>1. CASE Iterate
  BY <1>1, IterateStep
<1>2. CASE UNCHANGED vars
  BY <1>2 DEF vars, ExportInv, TypesOK, Trusted, FileHeld
<1>3. CASE \/ \E p \in bus : Answer(p) \/ Lose(p)
           \/ Traffic \/ Outage
           \/ \E m \in Msgs : ForeignRead(m) \/ Change(m)
  BY <1>3, BusStep
<1>. QED BY <1>1, <1>2, <1>3 DEF Next

(* tcp_fsv_list.cpp: handlers hold values the bus carried, and none of     *)
(* them ever has a command to send.                                        *)
THEOREM ExportInvariant == Spec => []ExportInv
BY ExportInit, ExportStep, PTL DEF Spec

(* tcp_fsv_list.cpp:127, the file holds settings the heat pump had, as     *)
(* long as no other controller asks for one.                               *)
THEOREM FileIsTrue == Spec => []FileHeld
<1>1. ExportInv => FileHeld
  BY DEF ExportInv
<1>. QED BY <1>1, ExportInvariant, PTL

(* tcp_fsv_list.cpp:112, every packet sent is a read request for a setting *)
(* that has not arrived, whatever the lists and the bus hold.              *)
THEOREM ReadsOnly == Spec => OnlyReads
<1>1. ExportInv /\ [Next]_vars => [\A p \in bus' \ bus : p.type = "Read" /\ ~HasVal(handler'[p.id])]_vars
  <2>. SUFFICES ASSUME ExportInv, Next, NEW p \in bus' \ bus
                PROVE  p.type = "Read" /\ ~HasVal(handler'[p.id])
    OBVIOUS
  <2>1. CASE Iterate
    <3> DEFINE hs == Updated(handler, inbox)
    <3>1. p \in PktsTx(hs, inbox) /\ handler' = hs
      BY <2>1, HandlersAfter DEF Iterate, ExportInv, TypesOK
    <3> HIDE DEF hs
    <3>2. PICK m \in Msgs : ~HasVal(hs[m]) /\ p = Packet(PacketOf(m, hs[m]).type, m, PacketOf(m, hs[m]).val)
      BY <3>1 DEF PktsTx
    <3>. QED BY <3>1, <3>2, AsksToRead DEF Packet
  <2>2. CASE ~Iterate
    BY <2>2 DEF Next, Answer, Lose, Traffic, Outage, ForeignRead, Change
  <2>. QED BY <2>1, <2>2
<1>. QED BY <1>1, ExportInvariant, PTL DEF Spec, OnlyReads

=============================================================================
