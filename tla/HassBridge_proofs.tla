-------------------------- MODULE HassBridge_proofs --------------------------
(***************************************************************************)
(* Proofs of the safety properties of HassBridge, for every set of         *)
(* messages, every value domain and every bound.                           *)
(***************************************************************************)
EXTENDS BridgeOrders, SequenceTheorems, TLAPS

(* Facts about the handler operators of NasaMsgHandler.                    *)

(* getPacket keeps a handler well-typed: the counter is only raised while  *)
(* it has not run out.                                                     *)
LEMMA AfterGetPacketType ==
  ASSUME NEW m \in Msgs, NEW h \in Handlers
  PROVE  AfterGetPacket(m, h) \in Handlers
<1>1. ASSUME Sends(m, h) PROVE [h EXCEPT !.ctr = h.ctr + 1] \in Handlers
  BY <1>1, HandlerAssumption DEF Sends, Exhausted, Handlers
<1>2. Drop(h) \in Handlers
  BY HandlerAssumption DEF Drop, Handlers
<1>. QED BY <1>1, <1>2 DEF AfterGetPacket

(* A packet carries a register value: the sentinel is never put on the bus.*)
LEMMA PacketOfType ==
  ASSUME NEW m \in Msgs, NEW h \in Handlers
  PROVE  PacketOf(m, h) \in BusPackets \cup {None}
<1>1. 1 \in Values /\ DataType[m] \in {"Read", "Request", "Write"}
  BY HandlerAssumption
<1>2. Sends(m, h) => h.new \in Values
  BY DEF Sends, Pending, Settled, Handlers, Known
<1>. QED BY <1>1, <1>2 DEF PacketOf, BusPackets

(* A report and a command keep a handler well-typed.                       *)
LEMMA UpdateValueType ==
  ASSUME NEW h \in Handlers, NEW v \in Values
  PROVE  UpdateValue(h, v) \in Handlers
BY DEF UpdateValue, Handlers, Known

LEMMA AskedType ==
  ASSUME NEW m \in Msgs, NEW p \in Payloads(m)
  PROVE  Asked(m, p) \in Known
BY HandlerAssumption DEF Asked, Payloads, Known

LEMMA UpdateValueNewType ==
  ASSUME NEW m \in Msgs, NEW h \in Handlers, NEW p \in Payloads(m)
  PROVE  UpdateValueNew(m, h, p) \in Handlers
BY AskedType, HandlerAssumption DEF UpdateValueNew, Handlers, Known

LEMMA MqttPayloadType ==
  ASSUME NEW m \in Msgs, NEW v \in Known
  PROVE  MqttPayload(m, v) \in Values \cup {NoPayload}
BY HandlerAssumption DEF MqttPayload, Known

(* A command names a register and a payload its handler accepts or ignores.*)
LEMMA CommandType ==
  ASSUME NEW c \in Commands
  PROVE  c.msg \in Msgs /\ c.payload \in Payloads(c.msg)
BY DEF Commands

(* The heat pump's registers and its answers stay register values.         *)
LEMMA PumpType ==
  ASSUME NEW round \in Rounds, NEW heard, pump \in [Msgs -> Values]
  PROVE  /\ HeatPump(round, heard) \in [Msgs -> Values]
         /\ Answer(round, heard) \in Reports
<1>1. HeatPump(round, heard) \in [Msgs -> Values]
  BY DEF HeatPump, Rounds, BusPackets
<1>. QED BY <1>1 DEF Answer, Reports

LEMMA SpendType ==
  ASSUME NEW what \in {"commands", "changes", "faults"},
         budget \in [{"commands", "changes", "faults"} -> Nat],
         Spend(what)
  PROVE  budget' \in [{"commands", "changes", "faults"} -> Nat]
BY DEF Spend

-----------------------------------------------------------------------------
(* Type correctness: no variable of the bridge ever leaves its type; in    *)
(* particular the sentinel never gets into a packet and the retry counter  *)
(* never passes RetryLimit + 1.                                            *)
THEOREM TypeCorrect == Spec => []TypeOK
<1>1. Init => TypeOK
  <2>. SUFFICES ASSUME Init PROVE TypeOK
    OBVIOUS
  <2>1. FreshHandler \in Handlers
    BY HandlerAssumption DEF FreshHandler, Handlers, Known
  <2>. QED
    BY <2>1, HandlerAssumption, BridgeAssumption
    DEF Init, TypeOK, SendsBound
<1>2. TypeOK /\ [Next]_vars => TypeOK'
  <2>. SUFFICES ASSUME TypeOK, [Next]_vars PROVE TypeOK'
    OBVIOUS
  <2>. USE DEF TypeOK
  <2>1. CASE UserCommand
    BY <2>1, SpendType, AppendProperties DEF UserCommand, envVars
  <2>2. CASE TakeInbox
    BY <2>2 DEF TakeInbox, envVars
  <2>3. CASE ApplyCommand
    <3>1. Head(batch) \in Commands /\ Tail(batch) \in Seq(Commands)
      BY <2>3, HeadTailProperties DEF ApplyCommand
    <3>. DEFINE m == Head(batch).msg
                p == Head(batch).payload
    <3>2. m \in Msgs /\ p \in Payloads(m)
      BY <3>1, CommandType
    <3>. HIDE DEF m, p
    <3>3. /\ UpdateValueNew(m, handler[m], p) \in Handlers
          /\ Asked(m, p) # IntMax => Asked(m, p) \in Values
      BY <3>2, UpdateValueNewType, AskedType DEF Known
    <3>4. handler' \in [Msgs -> Handlers]
      BY <2>3, <3>2, <3>3 DEF ApplyCommand, m, p
    <3>5. cmd' \in [Msgs -> Values \cup {None}] /\ sends' \in [Msgs -> 0 .. SendsBound]
      BY <2>3, <3>2, <3>3, HandlerAssumption DEF ApplyCommand, SendsBound, m, p
    <3>. QED BY <2>3, <3>1, <3>4, <3>5 DEF ApplyCommand, envVars
  <2>4. CASE Receive
    <3>1. PICK n \in 1 .. Len(fromPump) :
            /\ rx' = SubSeq(fromPump, 1, n)
            /\ fromPump' = SubSeq(fromPump, n + 1, Len(fromPump))
      BY <2>4 DEF Receive
    <3>2. rx' \in Seq(Reports)
      BY <3>1, SubSeqProperties, ElementOfSeq, LenProperties
    <3>3. fromPump' \in Seq(Reports)
      BY <3>1, SubSeqProperties, ElementOfSeq, LenProperties
    <3>. QED BY <2>4, <3>2, <3>3 DEF Receive
  <2>5. CASE PublishToHass
    <3>1. PICK m \in Msgs :
            /\ Head(rx)[m] # None
            /\ handler' = [handler EXCEPT ![m] = UpdateValue(handler[m], Head(rx)[m])]
            /\ published' = [published EXCEPT ![m] =
                               StatePayload(m, UpdateValue(handler[m], Head(rx)[m]))]
            /\ rx' = [rx EXCEPT ![1] = [@ EXCEPT ![m] = None]]
      BY <2>5 DEF PublishToHass
    <3>2. Head(rx) \in Reports /\ rx[1] \in Reports /\ 1 \in 1 .. Len(rx)
      BY <2>5, HeadTailProperties, ElementOfSeq, EmptySeq DEF PublishToHass
    <3>3. Head(rx)[m] \in Values
      BY <3>1, <3>2 DEF Reports
    <3>4. UpdateValue(handler[m], Head(rx)[m]) \in Handlers
      BY <3>3, UpdateValueType
    <3>5. StatePayload(m, UpdateValue(handler[m], Head(rx)[m])) \in Values \cup {NoPayload}
      BY <3>4, MqttPayloadType DEF StatePayload, Handlers
    <3>6. [rx[1] EXCEPT ![m] = None] \in Reports
      BY <3>2 DEF Reports
    <3>7. rx' \in Seq(Reports)
      BY <3>1, <3>2, <3>6, ExceptSeq
    <3>. QED BY <2>5, <3>1, <3>4, <3>5, <3>7 DEF PublishToHass
  <2>6. CASE NextPacket
    BY <2>6, HeadTailProperties DEF NextPacket, envVars
  <2>7. CASE SendRound
    <3>1. handler' \in [Msgs -> Handlers]
      BY <2>7, AfterGetPacketType DEF SendRound
    <3>2. GetNasaPackets \in Rounds
      BY PacketOfType DEF GetNasaPackets, Rounds
    <3>3. toPump' \in Seq(Rounds)
      BY <2>7, <3>2, AppendProperties DEF SendRound
    <3>4. sends' \in [Msgs -> 0 .. SendsBound]
      BY <2>7, HandlerAssumption DEF SendRound, SendsBound
    <3>. QED BY <2>7, <3>1, <3>3, <3>4 DEF SendRound
  <2>8. CASE SkipRound
    BY <2>8 DEF SkipRound, envVars
  <2>9. CASE PumpAnswers
    <3>1. Head(toPump) \in Rounds /\ Tail(toPump) \in Seq(Rounds)
      BY <2>9, HeadTailProperties DEF PumpAnswers
    <3>2. /\ HeatPump(Head(toPump), Msgs) \in [Msgs -> Values]
          /\ Answer(Head(toPump), Msgs) \in Reports
      BY <3>1, PumpType
    <3>. QED
      BY <2>9, <3>1, <3>2, AppendProperties DEF PumpAnswers, bridgeVars
  <2>10. CASE LosePackets
    <3>1. Head(toPump) \in Rounds /\ Tail(toPump) \in Seq(Rounds)
      BY <2>10, HeadTailProperties DEF LosePackets
    <3>2. PICK heard :
            /\ pump' = HeatPump(Head(toPump), heard)
            /\ fromPump' = IF Empty(Answer(Head(toPump), heard)) THEN fromPump
                           ELSE Append(fromPump, Answer(Head(toPump), heard))
      BY <2>10 DEF LosePackets
    <3>3. pump' \in [Msgs -> Values] /\ fromPump' \in Seq(Reports)
      BY <3>1, <3>2, PumpType, AppendProperties
    <3>. QED
      BY <2>10, <3>1, <3>3, SpendType DEF LosePackets, bridgeVars
  <2>11. CASE LoseReport
    BY <2>11, HeadTailProperties, SpendType DEF LoseReport, bridgeVars
  <2>12. CASE PumpNotifies
    <3>1. PICK reported : Notify(reported)
      BY <2>12 DEF PumpNotifies
    <3>2. [m \in Msgs |-> IF m \in reported THEN pump[m] ELSE None] \in Reports
      BY DEF Reports
    <3>. QED BY <3>1, <3>2, AppendProperties DEF Notify, bridgeVars
  <2>13. CASE PanelChange
    BY <2>13, SpendType DEF PanelChange, bridgeVars
  <2>14. CASE Restart
    <3>1. FreshHandler \in Handlers
      BY HandlerAssumption DEF FreshHandler, Handlers, Known
    <3>. QED
      BY <2>14, <3>1, SpendType, HandlerAssumption DEF Restart, envVars, SendsBound
  <2>15. CASE UNCHANGED vars
    BY <2>15 DEF vars
  <2>. QED
    BY <2>1, <2>2, <2>3, <2>4, <2>5, <2>6, <2>7, <2>8, <2>9, <2>10, <2>11,
       <2>12, <2>13, <2>14, <2>15
    DEF Next, Main, EndRound, Loop, Environment
<1>. QED BY <1>1, <1>2, PTL DEF Spec

-----------------------------------------------------------------------------
(* CommandInv is inductive: a command sets the value, its history and both *)
(* counters together, a report can only clear the value, and getPacket     *)
(* leaves a command behind only after RetryLimit + 1 writes or a rejection.*)
LEMMA CommandInvStep ==
  ASSUME TypeOK, CommandInv, [Next]_vars
  PROVE  CommandInv'
<1>. USE DEF TypeOK
<1>1. ASSUME UNCHANGED <<handler, cmd, sends>> PROVE CommandInv'
  BY <1>1 DEF CommandInv, Rejected
<1>2. CASE ApplyCommand
  <2>. DEFINE m == Head(batch).msg
              p == Head(batch).payload
  <2>1. m \in Msgs /\ p \in Payloads(m)
    BY <1>2, HeadTailProperties, CommandType DEF ApplyCommand
  <2>2. /\ handler' = [handler EXCEPT ![m] = UpdateValueNew(m, handler[m], p)]
        /\ cmd' = IF Asked(m, p) # IntMax THEN [cmd EXCEPT ![m] = Asked(m, p)] ELSE cmd
        /\ sends' = IF Asked(m, p) # IntMax THEN [sends EXCEPT ![m] = 0] ELSE sends
    BY <1>2 DEF ApplyCommand
  <2>. HIDE DEF m, p
  <2>3. Asked(m, p) \in Known
    BY <2>1, AskedType
  <2>4. ASSUME NEW k \in Msgs, k # m
        PROVE  handler'[k] = handler[k] /\ cmd'[k] = cmd[k] /\ sends'[k] = sends[k]
    BY <2>1, <2>2, <2>4
  <2>5. ASSUME Asked(m, p) = IntMax
        PROVE  /\ handler'[m].new = handler[m].new /\ handler'[m].ctr = 0
               /\ cmd'[m] = cmd[m] /\ sends'[m] = sends[m]
    BY <2>1, <2>2, <2>5 DEF UpdateValueNew, Handlers
  <2>6. ASSUME Asked(m, p) # IntMax
        PROVE  /\ handler'[m].new = Asked(m, p) /\ handler'[m].ctr = 0
               /\ cmd'[m] = Asked(m, p) /\ sends'[m] = 0
    BY <2>1, <2>2, <2>6 DEF UpdateValueNew
  <2>7. sends[m] >= 0
    BY <2>1, HandlerAssumption DEF SendsBound
  <2>8. CASE Asked(m, p) = IntMax
    BY <2>1, <2>4, <2>5, <2>7, <2>8 DEF CommandInv, Rejected
  <2>9. CASE Asked(m, p) # IntMax
    <3>1. Asked(m, p) # None
      BY <2>3, <2>9, HandlerAssumption DEF Known
    <3>2. SUFFICES ASSUME NEW k \in Msgs
                   PROVE  /\ handler'[k].new # IntMax => cmd'[k] # None
                          /\ \/ handler'[k].new \in {IntMax, cmd'[k]}
                             \/ sends'[k] > RetryLimit
                             \/ Rejected(k, handler'[k])
                          /\ handler'[k].ctr <= sends'[k]
      BY DEF CommandInv
    <3>3. CASE k = m
      BY <2>6, <2>9, <3>1, <3>3
    <3>4. CASE k # m
      BY <2>4, <3>4 DEF CommandInv
    <3>. QED BY <3>3, <3>4
  <2>. QED BY <2>8, <2>9
<1>3. CASE PublishToHass
  <2>1. PICK m \in Msgs :
          handler' = [handler EXCEPT ![m] = UpdateValue(handler[m], Head(rx)[m])]
    BY <1>3 DEF PublishToHass
  <2>2. /\ handler'[m].new \in {IntMax, handler[m].new}
        /\ handler'[m].ctr = handler[m].ctr
    BY <2>1 DEF UpdateValue
  <2>3. UNCHANGED <<cmd, sends>>
    BY <1>3 DEF PublishToHass
  <2>. QED BY <2>1, <2>2, <2>3 DEF CommandInv, Rejected
<1>4. CASE SendRound
  <2>1. SUFFICES ASSUME NEW m \in Msgs
                 PROVE  /\ handler'[m].new # IntMax => cmd'[m] # None
                        /\ \/ handler'[m].new \in {IntMax, cmd'[m]}
                           \/ sends'[m] > RetryLimit
                           \/ Rejected(m, handler'[m])
                        /\ handler'[m].ctr <= sends'[m]
    BY DEF CommandInv
  <2>2. /\ handler'[m] = AfterGetPacket(m, handler[m])
        /\ sends'[m] = IF Sends(m, handler[m]) /\ sends[m] < SendsBound
                       THEN sends[m] + 1 ELSE sends[m]
        /\ cmd' = cmd
    BY <1>4 DEF SendRound
  <2>3. /\ handler[m].new # IntMax => cmd[m] # None
        /\ \/ handler[m].new \in {IntMax, cmd[m]}
           \/ sends[m] > RetryLimit
           \/ Rejected(m, handler[m])
        /\ handler[m].ctr <= sends[m]
    BY DEF CommandInv
  <2>4. /\ handler[m] \in Handlers
        /\ handler[m].ctr \in 0 .. RetryLimit + 1
        /\ sends[m] \in 0 .. SendsBound
        /\ RetryLimit \in Nat
    BY HandlerAssumption DEF Handlers
  <2>5. CASE Sends(m, handler[m])
    <3>1. handler'[m].new = handler[m].new /\ handler'[m].ctr = handler[m].ctr + 1
      <4>1. handler'[m] = [handler[m] EXCEPT !.ctr = handler[m].ctr + 1]
        BY <2>2, <2>5 DEF AfterGetPacket, Sends, Dropped
      <4>. QED BY <2>4, <4>1 DEF Handlers
    <3>2. ~(handler[m].ctr > RetryLimit)
      BY <2>5 DEF Sends, Exhausted
    <3>. QED BY <2>2, <2>3, <2>4, <2>5, <3>1, <3>2 DEF SendsBound, Rejected
  <2>6. CASE Dropped(m, handler[m])
    <3>1. handler'[m] = Drop(handler[m]) /\ ~Sends(m, handler[m])
      BY <2>2, <2>6 DEF AfterGetPacket, Dropped, Sends
    <3>2. sends'[m] = sends[m] /\ cmd'[m] = cmd[m]
      BY <2>2, <3>1
    <3>3. handler[m].new # IntMax
      BY <2>6 DEF Dropped, Pending, Settled
    <3>4. Rejected(m, handler[m]) \/ handler[m].ctr > RetryLimit
      BY <2>6 DEF Dropped, Exhausted
    <3>5. handler'[m].ctr = 0
      BY <3>1 DEF Drop
    <3>. QED BY <2>3, <2>4, <3>2, <3>3, <3>4, <3>5 DEF SendsBound, Rejected
  <2>7. CASE ~Sends(m, handler[m]) /\ ~Dropped(m, handler[m])
    <3>1. handler'[m] = handler[m] /\ sends'[m] = sends[m] /\ cmd'[m] = cmd[m]
      BY <2>2, <2>7 DEF AfterGetPacket
    <3>. QED BY <2>3, <3>1
  <2>. QED BY <2>5, <2>6, <2>7
<1>5. CASE Restart
  BY <1>5, HandlerAssumption DEF Restart, FreshHandler, CommandInv
<1>6. CASE UserCommand \/ TakeInbox \/ Receive \/ NextPacket \/ SkipRound
  BY <1>1, <1>6 DEF UserCommand, TakeInbox, Receive, NextPacket, SkipRound
<1>7. CASE PumpAnswers \/ LosePackets \/ LoseReport \/ PumpNotifies \/ PanelChange
  BY <1>1, <1>7
  DEF PumpAnswers, LosePackets, LoseReport, PumpNotifies, Notify, PanelChange, bridgeVars
<1>8. CASE UNCHANGED vars
  BY <1>1, <1>8 DEF vars
<1>. QED
  BY <1>2, <1>3, <1>4, <1>5, <1>6, <1>7, <1>8 DEF Next, Main, EndRound, Loop, Environment

THEOREM CommandInvariant == Spec => []CommandInv
<1>1. Init => CommandInv
  <2>. SUFFICES ASSUME Init PROVE CommandInv
    OBVIOUS
  <2>1. \A m \in Msgs : handler[m].new = IntMax /\ handler[m].ctr = 0 /\ sends[m] = 0
    BY DEF Init, FreshHandler
  <2>2. 0 <= 0
    OBVIOUS
  <2>. QED BY <2>1, <2>2 DEF CommandInv
<1>2. TypeOK /\ CommandInv /\ [Next]_vars => CommandInv'
  BY CommandInvStep
<1>. QED BY <1>1, <1>2, TypeCorrect, PTL DEF Spec

(* What is pending is what the user asked for last, unless that was given  *)
(* up after all its retries or rejected: no register is written that       *)
(* nobody asked to change.                                                 *)
THEOREM PendingLastCommand == Spec => []PendingIsLastCommand
<1>1. CommandInv => PendingIsLastCommand
  BY DEF CommandInv, PendingIsLastCommand, Pending, Settled
<1>. QED BY <1>1, CommandInvariant, PTL

-----------------------------------------------------------------------------
(* The switches hold on the wire: only SendRound puts packets there, it is *)
(* skipped when read_only is set, and a rejected command yields no packet. *)
THEOREM Switches == Spec => []SwitchesHonoured
<1>1. Init => SwitchesHonoured
  BY DEF Init, SwitchesHonoured, Packets
<1>2. TypeOK /\ SwitchesHonoured /\ [Next]_vars => SwitchesHonoured'
  <2>. SUFFICES ASSUME TypeOK, SwitchesHonoured, [Next]_vars PROVE SwitchesHonoured'
    OBVIOUS
  <2>. USE DEF TypeOK
  <2>1. ASSUME toPump' = toPump PROVE SwitchesHonoured'
    BY <2>1 DEF SwitchesHonoured, Packets
  <2>2. ASSUME toPump # <<>>, toPump' = Tail(toPump) PROVE SwitchesHonoured'
    <3>1. /\ Len(toPump') = Len(toPump) - 1
          /\ \A i \in 1 .. Len(toPump') : toPump'[i] = toPump[i + 1]
      BY <2>2, HeadTailProperties
    <3>2. Len(toPump) \in Nat
      BY LenProperties
    <3>3. \A i \in 1 .. Len(toPump') : i + 1 \in 1 .. Len(toPump)
      BY <3>1, <3>2
    <3>4. ASSUME NEW m \in Msgs, NEW p \in Packets(m)' PROVE p \in Packets(m)
      <4>1. PICK i \in 1 .. Len(toPump') : p = toPump'[i][m] /\ p # None
        BY <3>4 DEF Packets
      <4>. QED BY <3>1, <3>3, <4>1 DEF Packets
    <3>5. ~ReadOnly
      BY <2>2 DEF SwitchesHonoured
    <3>. QED BY <3>4, <3>5 DEF SwitchesHonoured
  <2>3. CASE SendRound
    <3>1. ~ReadOnly
      BY <2>3 DEF SendRound, MaySend
    <3>2. GetNasaPackets \in Rounds
      BY PacketOfType DEF GetNasaPackets, Rounds
    <3>3. CASE Empty(GetNasaPackets)
      BY <2>1, <2>3, <3>3 DEF SendRound
    <3>4. CASE ~Empty(GetNasaPackets)
      <4>1. toPump' = Append(toPump, GetNasaPackets)
        BY <2>3, <3>4 DEF SendRound
      <4>2. /\ Len(toPump') = Len(toPump) + 1
            /\ \A i \in 1 .. Len(toPump) : toPump'[i] = toPump[i]
            /\ toPump'[Len(toPump) + 1] = GetNasaPackets
        BY <3>2, <4>1, AppendProperties
      <4>3. Len(toPump) \in Nat
        BY LenProperties
      <4>4. ASSUME NEW m \in Msgs, NEW p \in Packets(m)'
            PROVE  p \in Packets(m) \/ (p = PacketOf(m, handler[m]) /\ p # None)
        <5>1. PICK i \in 1 .. Len(toPump') : p = toPump'[i][m] /\ p # None
          BY <4>4 DEF Packets
        <5>2. CASE i \in 1 .. Len(toPump)
          BY <4>2, <5>1, <5>2 DEF Packets
        <5>3. CASE i = Len(toPump) + 1
          BY <4>2, <5>1, <5>3 DEF GetNasaPackets
        <5>. QED BY <4>2, <4>3, <5>2, <5>3
      <4>5. ASSUME DisableWriteSend, NEW m \in Msgs, PacketOf(m, handler[m]) # None
            PROVE  PacketOf(m, handler[m]).type # "Write"
        BY <4>5 DEF PacketOf, Sends, Rejected
      <4>. QED BY <3>1, <4>4, <4>5 DEF SwitchesHonoured
    <3>. QED BY <3>3, <3>4
  <2>4. CASE PumpAnswers \/ LosePackets
    BY <2>2, <2>4 DEF PumpAnswers, LosePackets
  <2>5. CASE UserCommand \/ TakeInbox \/ ApplyCommand \/ Restart
    BY <2>1, <2>5 DEF UserCommand, TakeInbox, ApplyCommand, Restart, envVars
  <2>6. CASE Receive \/ PublishToHass \/ NextPacket \/ SkipRound
    BY <2>1, <2>6 DEF Receive, PublishToHass, NextPacket, SkipRound, envVars
  <2>7. CASE LoseReport \/ PumpNotifies \/ PanelChange
    BY <2>1, <2>7 DEF LoseReport, PumpNotifies, Notify, PanelChange
  <2>8. CASE UNCHANGED vars
    BY <2>1, <2>8 DEF vars
  <2>. QED
    BY <2>3, <2>4, <2>5, <2>6, <2>7, <2>8 DEF Next, Main, EndRound, Loop, Environment
<1>. QED BY <1>1, <1>2, TypeCorrect, PTL DEF Spec

-----------------------------------------------------------------------------
(* The state topic shows the last value the heat pump reported: a report   *)
(* updates both in one critical section, and neither a command nor a round *)
(* of packets touches val_is_.                                             *)
THEOREM StateTopic == Spec => []StateTopicIsLastReport
<1>1. Init => StateTopicIsLastReport
  BY DEF Init, StateTopicIsLastReport, FreshHandler
<1>2. TypeOK /\ StateTopicIsLastReport /\ [Next]_vars => StateTopicIsLastReport'
  <2>. SUFFICES ASSUME TypeOK, StateTopicIsLastReport, [Next]_vars
                PROVE  StateTopicIsLastReport'
    OBVIOUS
  <2>. USE DEF TypeOK
  <2>1. ASSUME \A m \in Msgs : handler'[m].is \in {handler[m].is, IntMax},
               published' = published
        PROVE  StateTopicIsLastReport'
    BY <2>1 DEF StateTopicIsLastReport
  <2>2. CASE PublishToHass
    <3>1. PICK m \in Msgs :
            LET h == UpdateValue(handler[m], Head(rx)[m])
            IN  /\ handler' = [handler EXCEPT ![m] = h]
                /\ published' = [published EXCEPT ![m] = StatePayload(m, h)]
      BY <2>2 DEF PublishToHass
    <3>2. published'[m] = MqttPayload(m, handler'[m].is)
      BY <3>1 DEF StatePayload
    <3>3. \A k \in Msgs \ {m} : handler'[k] = handler[k] /\ published'[k] = published[k]
      BY <3>1
    <3>. QED BY <3>2, <3>3 DEF StateTopicIsLastReport
  <2>3. CASE ApplyCommand
    <3>. DEFINE k == Head(batch).msg
                p == Head(batch).payload
    <3>1. \A m \in Msgs : handler[m] \in Handlers
      OBVIOUS
    <3>2. \A h \in Handlers : UpdateValueNew(k, h, p).is = h.is
      BY DEF UpdateValueNew, Handlers
    <3>3. handler' = [handler EXCEPT ![k] = UpdateValueNew(k, handler[k], p)]
      BY <2>3 DEF ApplyCommand
    <3>. HIDE DEF k, p
    <3>4. \A m \in Msgs : handler'[m].is = handler[m].is
      BY <3>1, <3>2, <3>3
    <3>. QED BY <2>1, <2>3, <3>4 DEF ApplyCommand, envVars
  <2>4. CASE SendRound
    <3>1. \A m \in Msgs, h \in Handlers : AfterGetPacket(m, h).is = h.is
      BY DEF AfterGetPacket, Drop, Handlers
    <3>2. \A m \in Msgs : handler'[m].is = handler[m].is
      BY <2>4, <3>1 DEF SendRound
    <3>. QED BY <2>1, <2>4, <3>2 DEF SendRound
  <2>5. CASE Restart
    BY <2>1, <2>5 DEF Restart, FreshHandler, envVars
  <2>6. CASE UserCommand \/ TakeInbox \/ Receive \/ NextPacket \/ SkipRound
    BY <2>1, <2>6 DEF UserCommand, TakeInbox, Receive, NextPacket, SkipRound, envVars
  <2>7. CASE PumpAnswers \/ LosePackets \/ LoseReport \/ PumpNotifies \/ PanelChange
    BY <2>1, <2>7
    DEF PumpAnswers, LosePackets, LoseReport, PumpNotifies, Notify, PanelChange, bridgeVars
  <2>8. CASE UNCHANGED vars
    BY <2>1, <2>8 DEF vars
  <2>. QED
    BY <2>2, <2>3, <2>4, <2>5, <2>6, <2>7, <2>8 DEF Next, Main, EndRound, Loop, Environment
<1>. QED BY <1>1, <1>2, TypeCorrect, PTL DEF Spec

-----------------------------------------------------------------------------
(* A command is confirmed, replaced or rejected, or sent RetryLimit + 1    *)
(* times before it is given up: the counter is never ahead of the sends.   *)
THEOREM GiveUp == Spec => NoEarlyGiveUp
<1>. DEFINE Kept(m) ==
       Pending(m, handler[m]) /\ ~Pending(m, handler'[m]) =>
         \/ handler'[m].is = handler[m].new
         \/ ApplyCommand
         \/ Restart
         \/ Rejected(m, handler[m])
         \/ sends[m] > RetryLimit
<1>1. TypeOK /\ CommandInv /\ [Next]_vars => [\A m \in Msgs : Kept(m)]_vars
  <2>. SUFFICES ASSUME TypeOK, CommandInv, Next, NEW m \in Msgs,
                       ~ApplyCommand, ~Restart
                PROVE  Kept(m)
    BY DEF vars
  <2>. USE DEF TypeOK
  <2>1. ASSUME handler' = handler PROVE Kept(m)
    BY <2>1
  <2>2. CASE PublishToHass
    <3>1. PICK k \in Msgs :
            handler' = [handler EXCEPT ![k] = UpdateValue(handler[k], Head(rx)[k])]
      BY <2>2 DEF PublishToHass
    <3>2. CASE k # m
      BY <3>1, <3>2
    <3>3. CASE k = m
      <4>1. /\ handler'[m].is = Head(rx)[m]
            /\ handler'[m].new = IF handler[m].new = Head(rx)[m] THEN IntMax
                                 ELSE handler[m].new
        BY <3>1, <3>3 DEF UpdateValue
      <4>. QED BY <4>1 DEF Pending, Settled
    <3>. QED BY <3>2, <3>3
  <2>3. CASE SendRound
    <3>1. handler'[m] = AfterGetPacket(m, handler[m])
      BY <2>3 DEF SendRound
    <3>2. CASE Dropped(m, handler[m])
      <4>1. Rejected(m, handler[m]) \/ handler[m].ctr > RetryLimit
        BY <3>2 DEF Dropped, Exhausted
      <4>2. /\ handler[m].ctr <= sends[m]
            /\ handler[m].ctr \in 0 .. RetryLimit + 1 /\ sends[m] \in 0 .. SendsBound
            /\ RetryLimit \in Nat
        BY HandlerAssumption DEF CommandInv, Handlers
      <4>. QED BY <4>1, <4>2 DEF SendsBound
    <3>3. CASE ~Dropped(m, handler[m])
      <4>1. handler'[m].is = handler[m].is /\ handler'[m].new = handler[m].new
        BY <3>1, <3>3 DEF AfterGetPacket, Handlers
      <4>. QED BY <4>1 DEF Pending, Settled
    <3>. QED BY <3>2, <3>3
  <2>4. CASE UserCommand \/ TakeInbox \/ Receive \/ NextPacket \/ SkipRound
    BY <2>1, <2>4 DEF UserCommand, TakeInbox, Receive, NextPacket, SkipRound
  <2>5. CASE PumpAnswers \/ LosePackets \/ LoseReport \/ PumpNotifies \/ PanelChange
    BY <2>1, <2>5
    DEF PumpAnswers, LosePackets, LoseReport, PumpNotifies, Notify, PanelChange, bridgeVars
  <2>. QED
    BY <2>2, <2>3, <2>4, <2>5 DEF Next, Main, EndRound, Loop, Environment
<1>. QED BY <1>1, TypeCorrect, CommandInvariant, PTL DEF Spec, NoEarlyGiveUp


-----------------------------------------------------------------------------
(* The record of orders, and the registers that obey them.                 *)

(* Every list of orders only grows at its end.                             *)
Grown(s, t) == Len(s) <= Len(t) /\ \A n \in 1 .. Len(s) : t[n] = s[n]

LEMMA AppendGrows ==
  ASSUME NEW S, NEW s \in Seq(S), NEW v \in S
  PROVE  /\ Append(s, v) \in Seq(S) /\ Grown(s, Append(s, v))
         /\ Append(s, v) # <<>> /\ Len(Append(s, v)) = Len(s) + 1
         /\ Append(s, v)[Len(s) + 1] = v
BY AppendProperties, LenProperties, EmptySeq DEF Grown

LEMMA SameGrows == \A s : Len(s) \in Nat => Grown(s, s)
BY DEF Grown

(* Orders that are over are taken from the front of a list.                *)
LEMMA OrdersCut ==
  ASSUME NEW S, NEW s \in Seq(S), NEW k \in 0 .. Len(s)
  PROVE  /\ SubSeq(s, k + 1, Len(s)) \in Seq(S)
         /\ Len(SubSeq(s, k + 1, Len(s))) = Len(s) - k
         /\ \A n \in 1 .. Len(s) - k : SubSeq(s, k + 1, Len(s))[n] = s[n + k]
         /\ k = 0 => SubSeq(s, k + 1, Len(s)) = s
<1>1. Len(s) \in Nat /\ \A n \in 1 .. Len(s) : s[n] \in S
  BY LenProperties, ElementOfSeq
<1>2. k + 1 \in Int /\ Len(s) \in Int /\ \A n \in k + 1 .. Len(s) : s[n] \in S
  BY <1>1
<1>3. /\ SubSeq(s, k + 1, Len(s)) \in Seq(S)
      /\ Len(SubSeq(s, k + 1, Len(s))) = IF k + 1 <= Len(s) THEN Len(s) - (k + 1) + 1 ELSE 0
      /\ \A n \in 1 .. Len(s) - (k + 1) + 1 :
           SubSeq(s, k + 1, Len(s))[n] = s[(k + 1) + n - 1]
  BY <1>2, SubSeqProperties
<1>4. PICK t : t = SubSeq(s, k + 1, Len(s))
  OBVIOUS
<1>5. /\ Len(t) = Len(s) - k /\ t \in Seq(S)
      /\ \A n \in 1 .. Len(s) - k : t[n] = s[n + k]
  <2>1. \A n \in 1 .. Len(s) - k : n \in 1 .. Len(s) - (k + 1) + 1 /\ (k + 1) + n - 1 = n + k
    BY <1>1
  <2>2. Len(t) = Len(s) - k
    BY <1>1, <1>3, <1>4
  <2>. QED BY <1>3, <1>4, <2>1, <2>2
<1>6. k = 0 => t = s
  BY <1>1, <1>5, SeqEqual
<1>. QED BY <1>4, <1>5, <1>6

(* A packet that is heard ends the orders before its own, so never all.    *)
LEMMA OverRange ==
  ASSUME TypeOK, OrdersTypeOK, InOrder, CarriesItsOrder, toPump # <<>>,
         NEW heard, NEW m \in Msgs
  PROVE  /\ Over(heard, m) \in 0 .. Len(orders[m])
         /\ \/ Over(heard, m) = 0
            \/ Over(heard, m) < Len(orders[m]) /\ Over(heard, m) < due[1][m]
<1>1. Len(orders[m]) \in Nat
  BY LenProperties DEF OrdersTypeOK
<1>2. Head(toPump) = toPump[1] /\ Head(due) = due[1] /\ 1 \in 1 .. Len(due)
  <2>1. Len(toPump) # 0 /\ Len(due) = Len(toPump) /\ Len(due) \in Nat
    BY EmptySeq, LenProperties DEF TypeOK, OrdersTypeOK, InOrder
  <2>. QED BY <2>1, HeadTailProperties, EmptySeq DEF TypeOK, OrdersTypeOK
<1>3. CASE m \in heard /\ Writes(Head(toPump)[m])
  <2>1. due[1][m] \in 1 .. Len(orders[m]) /\ Over(heard, m) = due[1][m] - 1
    BY <1>2, <1>3 DEF CarriesItsOrder, Over
  <2>. QED BY <1>1, <2>1
<1>4. CASE ~(m \in heard /\ Writes(Head(toPump)[m]))
  BY <1>1, <1>4 DEF Over
<1>. QED BY <1>3, <1>4

(* The steps of the record are steps of the bridge.                        *)
LEMMA OrdersNextIsNext == [OrdersNext]_ordersVars => [Next]_vars
BY DEF OrdersNext, OrderTaken, RoundEnds, RoundSent, RoundHeard, Elsewhere, ordersVars,
       Next, Main, EndRound, Loop, Environment

LEMMA OrderTakenStep ==
  ASSUME TypeOK, OrdersTypeOK, OrderTaken
  PROVE  \E m \in Msgs, v \in Known :
           /\ v = Asked(m, Head(batch).payload) /\ m = Head(batch).msg
           /\ handler' = [handler EXCEPT ![m] = UpdateValueNew(m, handler[m], Head(batch).payload)]
           /\ orders' = IF v = IntMax THEN orders ELSE [orders EXCEPT ![m] = Append(orders[m], v)]
<1> DEFINE m == Head(batch).msg
           p == Head(batch).payload
<1>1. m \in Msgs /\ p \in Payloads(m)
  BY HeadTailProperties, CommandType DEF ApplyCommand, OrderTaken, TypeOK
<1>2. Asked(m, p) \in Known
  BY <1>1, AskedType
<1>3. /\ handler' = [handler EXCEPT ![m] = UpdateValueNew(m, handler[m], p)]
      /\ orders' = IF Asked(m, p) = IntMax THEN orders
                   ELSE [orders EXCEPT ![m] = Append(orders[m], Asked(m, p))]
  BY DEF OrderTaken, ApplyCommand
<1>. QED BY <1>1, <1>2, <1>3

(* A step adds to the lists, or takes from their front what is over.       *)
LEMMA OrdersMove ==
  ASSUME TypeOK, OrdersTypeOK, InOrder, CarriesItsOrder, [OrdersNext]_ordersVars
  PROVE  /\ orders' \in [Msgs -> Seq(Values)]
         /\ RoundHeard \/ \A m \in Msgs : Grown(orders[m], orders'[m])
<1>1. \A m \in Msgs : orders[m] \in Seq(Values) /\ Grown(orders[m], orders[m])
  BY SameGrows, LenProperties DEF OrdersTypeOK
<1>2. CASE OrderTaken
  <2>1. PICK m \in Msgs, v \in Known :
          orders' = IF v = IntMax THEN orders ELSE [orders EXCEPT ![m] = Append(orders[m], v)]
    BY <1>2, OrderTakenStep
  <2>2. CASE v = IntMax
    BY <1>1, <2>1, <2>2 DEF OrdersTypeOK
  <2>3. CASE v # IntMax
    <3>1. v \in Values
      BY <2>3 DEF Known
    <3>2. Append(orders[m], v) \in Seq(Values) /\ Grown(orders[m], Append(orders[m], v))
      BY <1>1, <3>1, AppendGrows
    <3>3. \A k \in Msgs : orders'[k] = IF k = m THEN Append(orders[m], v) ELSE orders[k]
      BY <2>1, <2>3 DEF OrdersTypeOK
    <3>4. orders' \in [Msgs -> Seq(Values)]
      BY <2>1, <2>3, <3>2 DEF OrdersTypeOK
    <3>. QED BY <1>1, <3>2, <3>3, <3>4
  <2>. QED BY <2>2, <2>3
<1>3. CASE RoundSent
  <2>1. orders' = [m \in Msgs |-> IF Reverts(m) THEN Append(orders[m], handler[m].is) ELSE orders[m]]
    BY <1>3 DEF RoundSent
  <2>2. ASSUME NEW m \in Msgs
        PROVE  orders'[m] \in Seq(Values) /\ Grown(orders[m], orders'[m])
    <3>1. CASE Reverts(m)
      <4>1. handler[m].is \in Values
        BY <3>1 DEF Reverts, TypeOK, Handlers, Known
      <4>2. orders'[m] = Append(orders[m], handler[m].is)
        BY <2>1, <3>1
      <4>. QED BY <1>1, <4>1, <4>2, AppendGrows
    <3>2. CASE ~Reverts(m)
      BY <1>1, <2>1, <3>2
    <3>. QED BY <3>1, <3>2
  <2>. QED BY <2>1, <2>2
<1>4. CASE RoundHeard
  <2>1. PICK heard \in SUBSET Msgs :
          orders' = [m \in Msgs |-> SubSeq(orders[m], Over(heard, m) + 1, Len(orders[m]))]
    BY <1>4 DEF RoundHeard, Heard
  <2>2. toPump # <<>>
    BY <1>4 DEF RoundHeard, PumpAnswers, LosePackets
  <2>3. \A m \in Msgs : SubSeq(orders[m], Over(heard, m) + 1, Len(orders[m])) \in Seq(Values)
    BY <1>1, <2>2, OverRange, OrdersCut
  <2>. QED BY <1>4, <2>1, <2>3
<1>5. ASSUME orders' = orders
      PROVE  orders' \in [Msgs -> Seq(Values)] /\ \A m \in Msgs : Grown(orders[m], orders'[m])
  BY <1>1, <1>5 DEF OrdersTypeOK
<1>. QED
  BY <1>2, <1>3, <1>4, <1>5
  DEF OrdersNext, RoundEnds, Elsewhere, ordersVars

-----------------------------------------------------------------------------
(* A handler writes the last order: a command is one, so is the value that *)
(* a dropped command leaves behind, and a report only clears it.           *)
LEMMA LastIsNewStep ==
  ASSUME TypeOK, OrdersTypeOK, InOrder, CarriesItsOrder, LastIsNew, [OrdersNext]_ordersVars
  PROVE  LastIsNew'
<1> DEFINE Good(m) == handler'[m].new # IntMax =>
                        orders'[m] # <<>> /\ handler'[m].new = orders'[m][Len(orders'[m])]
<1>1. SUFFICES ASSUME NEW m \in Msgs PROVE Good(m)
  BY DEF LastIsNew
<1>2. /\ orders[m] \in Seq(Values) /\ Len(orders[m]) \in Nat /\ handler[m] \in Handlers
      /\ handler[m].new # IntMax =>
           orders[m] # <<>> /\ handler[m].new = orders[m][Len(orders[m])]
  BY LenProperties DEF OrdersTypeOK, TypeOK, LastIsNew
<1>3. ASSUME orders'[m] = orders[m], handler'[m].new \in {IntMax, handler[m].new}
      PROVE  Good(m)
  BY <1>2, <1>3
<1>4. ASSUME NEW v \in Values, orders'[m] = Append(orders[m], v), handler'[m].new = v
      PROVE  Good(m)
  <2>1. orders'[m] # <<>> /\ Len(orders'[m]) = Len(orders[m]) + 1
        /\ orders'[m][Len(orders[m]) + 1] = v
    BY <1>2, <1>4, AppendGrows
  <2>. QED BY <1>4, <2>1
<1> HIDE DEF Good
<1>5. CASE OrderTaken
  <2>1. PICK k \in Msgs, v \in Known :
          /\ v = Asked(k, Head(batch).payload)
          /\ handler' = [handler EXCEPT ![k] = UpdateValueNew(k, handler[k], Head(batch).payload)]
          /\ orders' = IF v = IntMax THEN orders ELSE [orders EXCEPT ![k] = Append(orders[k], v)]
    BY <1>5, OrderTakenStep
  <2>2. CASE v = IntMax
    <3>1. orders'[m] = orders[m]
      BY <2>1, <2>2
    <3>2. handler'[m].new = handler[m].new
      BY <1>2, <2>1, <2>2 DEF UpdateValueNew, Handlers, TypeOK
    <3>. QED BY <1>3, <3>1, <3>2
  <2>3. CASE v # IntMax /\ m = k
    <3>1. v \in Values /\ orders'[m] = Append(orders[m], v)
      BY <2>1, <2>3 DEF Known, OrdersTypeOK
    <3>2. handler'[m].new = v
      BY <1>2, <2>1, <2>3 DEF UpdateValueNew, TypeOK
    <3>. QED BY <1>4, <3>1, <3>2
  <2>4. CASE v # IntMax /\ m # k
    <3>1. orders'[m] = orders[m] /\ handler'[m] = handler[m]
      BY <2>1, <2>4 DEF OrdersTypeOK, TypeOK
    <3>. QED BY <1>3, <3>1
  <2>. QED BY <2>2, <2>3, <2>4
<1>6. CASE RoundSent
  <2>1. /\ handler'[m] = AfterGetPacket(m, handler[m])
        /\ orders'[m] = IF Reverts(m) THEN Append(orders[m], handler[m].is) ELSE orders[m]
    BY <1>6 DEF RoundSent, SendRound
  <2>2. CASE Dropped(m, handler[m])
    <3>1. handler'[m] = Drop(handler[m])
      BY <2>1, <2>2 DEF AfterGetPacket, Dropped, Sends
    <3>2. handler'[m].new = handler[m].is
      BY <3>1 DEF Drop
    <3>3. CASE handler[m].is = IntMax
      BY <1>3, <2>1, <3>2, <3>3 DEF Reverts
    <3>4. CASE handler[m].is # IntMax
      <4>1. handler[m].is \in Values
        BY <1>2, <3>4 DEF Handlers, Known
      <4>2. orders'[m] = Append(orders[m], handler[m].is)
        BY <2>1, <2>2, <3>4 DEF Reverts
      <4>. QED BY <1>4, <3>2, <4>1, <4>2
    <3>. QED BY <3>3, <3>4
  <2>3. CASE ~Dropped(m, handler[m])
    <3>1. orders'[m] = orders[m]
      BY <2>1, <2>3 DEF Reverts
    <3>2. handler'[m].new = handler[m].new
      BY <1>2, <2>1, <2>3 DEF AfterGetPacket, Handlers
    <3>. QED BY <1>3, <3>1, <3>2
  <2>. QED BY <2>2, <2>3
<1>7. CASE PublishToHass /\ orders' = orders
  <2>1. handler'[m].new \in {IntMax, handler[m].new}
    BY <1>2, <1>7 DEF PublishToHass, UpdateValue, TypeOK
  <2>. QED BY <1>3, <1>7, <2>1
<1>8. CASE Restart /\ orders' = orders
  <2>1. handler'[m].new = IntMax
    BY <1>8 DEF Restart, FreshHandler
  <2>. QED BY <1>3, <1>8, <2>1
<1>9. ASSUME orders' = orders, handler' = handler PROVE Good(m)
  BY <1>3, <1>9
<1>10. CASE RoundHeard
  <2>1. PICK heard \in SUBSET Msgs :
          orders' = [k \in Msgs |-> SubSeq(orders[k], Over(heard, k) + 1, Len(orders[k]))]
    BY <1>10 DEF RoundHeard, Heard
  <2>2. toPump # <<>> /\ handler' = handler
    BY <1>10 DEF RoundHeard, PumpAnswers, LosePackets, bridgeVars
  <2>3. PICK s, t, o : s = orders[m] /\ t = orders'[m] /\ o = Over(heard, m)
    OBVIOUS
  <2>4. /\ s \in Seq(Values) /\ t = SubSeq(s, o + 1, Len(s))
        /\ o \in 0 .. Len(s) /\ (o = 0 \/ o < Len(s))
    BY <1>2, <2>1, <2>2, <2>3, OverRange
  <2>5. /\ Len(t) = Len(s) - o /\ \A n \in 1 .. Len(s) - o : t[n] = s[n + o]
        /\ o = 0 => t = s
    BY ONLY <2>4, OrdersCut
  <2>6. ASSUME s # <<>> PROVE t # <<>> /\ t[Len(t)] = s[Len(s)]
    <3>1. CASE o = 0
      BY <2>5, <2>6, <3>1
    <3>2. CASE o # 0
      <4>1. Len(s) \in Nat /\ Len(s) - o \in 1 .. Len(s) - o /\ Len(t) # 0
            /\ (Len(s) - o) + o = Len(s)
        BY <1>2, <2>3, <2>4, <2>5, <3>2
      <4>. QED BY <2>5, <4>1, EmptySeq
    <3>. QED BY <3>1, <3>2
  <2>. QED BY <1>2, <2>2, <2>3, <2>6 DEF Good
<1>. QED
  BY <1>5, <1>6, <1>7, <1>8, <1>9, <1>10
  DEF OrdersNext, RoundEnds, Elsewhere, ordersVars, vars,
      UserCommand, TakeInbox, Receive, NextPacket, SkipRound,
      LoseReport, PumpNotifies, Notify, PanelChange, bridgeVars

(* What a register held is never forgotten, and what it holds is part.     *)
LEMMA PastGrows ==
  ASSUME TypeOK, TypeOK', OrdersTypeOK, ReportsWereHeld, [OrdersNext]_ordersVars
  PROVE  /\ past' \in [Msgs -> SUBSET Values]
         /\ \A m \in Msgs : past[m] \subseteq past'[m] /\ pump'[m] \in past'[m]
<1>1. CASE OrdersNext
  <2>1. past' = [m \in Msgs |-> past[m] \cup {pump'[m]}]
    BY <1>1 DEF OrdersNext
  <2>. QED BY <2>1 DEF OrdersTypeOK, TypeOK
<1>2. CASE UNCHANGED ordersVars
  BY <1>2 DEF ordersVars, vars, OrdersTypeOK, ReportsWereHeld
<1>. QED BY <1>1, <1>2

(* A report on its way carries what the register held when it was sent.    *)
Truthful(r, p) == \A m \in Msgs : r[m] \in p[m] \cup {None}

AllTruthful(q, p) == \A i \in 1 .. Len(q) : Truthful(q[i], p)

LEMMA TruthKept ==
  ASSUME NEW q, NEW p, NEW b, AllTruthful(q, p), \A m \in Msgs : p[m] \subseteq b[m]
  PROVE  AllTruthful(q, b)
BY DEF AllTruthful, Truthful

LEMMA TruthAppended ==
  ASSUME NEW q \in Seq(Reports), NEW r \in Reports, NEW p, AllTruthful(q, p), Truthful(r, p)
  PROVE  AllTruthful(Append(q, r), p)
<1>1. /\ Len(q) \in Nat /\ Len(Append(q, r)) = Len(q) + 1
      /\ \A i \in 1 .. Len(q) : Append(q, r)[i] = q[i]
      /\ Append(q, r)[Len(q) + 1] = r
  BY AppendProperties, LenProperties
<1>2. \A i \in 1 .. Len(q) + 1 : i \in 1 .. Len(q) \/ i = Len(q) + 1
  BY <1>1
<1>. QED BY <1>1, <1>2 DEF AllTruthful

LEMMA TruthCut ==
  ASSUME NEW q \in Seq(Reports), NEW a \in 1 .. Len(q) + 1, NEW b \in a - 1 .. Len(q), NEW p,
         AllTruthful(q, p)
  PROVE  AllTruthful(SubSeq(q, a, b), p)
<1>1. Len(q) \in Nat
  BY LenProperties
<1>2. /\ Len(SubSeq(q, a, b)) = b - a + 1
      /\ \A i \in 1 .. b - a + 1 : SubSeq(q, a, b)[i] = q[a + i - 1]
  BY <1>1, SubSeqProperties
<1>3. \A i \in 1 .. b - a + 1 : a + i - 1 \in 1 .. Len(q)
  BY <1>1
<1>. QED BY <1>2, <1>3 DEF AllTruthful

LEMMA TruthTail ==
  ASSUME NEW q \in Seq(Reports), NEW p, q # <<>>, AllTruthful(q, p)
  PROVE  AllTruthful(Tail(q), p)
<1>1. /\ Len(q) \in Nat /\ Len(Tail(q)) = Len(q) - 1
      /\ \A i \in 1 .. Len(q) - 1 : Tail(q)[i] = q[i + 1]
  BY HeadTailProperties, LenProperties
<1>2. \A i \in 1 .. Len(q) - 1 : i + 1 \in 1 .. Len(q)
  BY <1>1
<1>. QED BY <1>1, <1>2 DEF AllTruthful

LEMMA ReportsWereHeldStep ==
  ASSUME TypeOK, TypeOK', OrdersTypeOK, ReportsWereHeld, [OrdersNext]_ordersVars
  PROVE  ReportsWereHeld'
<1>1. /\ \A m \in Msgs : past[m] \subseteq past'[m] /\ pump'[m] \in past'[m]
      /\ AllTruthful(rx, past') /\ AllTruthful(fromPump, past')
      /\ \A m \in Msgs : handler[m].is \in past'[m] \cup {IntMax}
  <2>1. \A m \in Msgs : past[m] \subseteq past'[m] /\ pump'[m] \in past'[m]
    BY PastGrows
  <2>2. AllTruthful(rx, past) /\ AllTruthful(fromPump, past)
    BY DEF ReportsWereHeld, AllTruthful, Truthful
  <2>. QED BY <2>1, <2>2, TruthKept DEF ReportsWereHeld
<1>2. rx \in Seq(Reports) /\ fromPump \in Seq(Reports) /\ pump' \in [Msgs -> Values]
  BY DEF TypeOK
<1>3. \A m \in Msgs : handler'[m].is \in past'[m] \cup {IntMax}
  <2>1. ASSUME NEW m \in Msgs, handler'[m].is \in {handler[m].is, IntMax}
        PROVE  handler'[m].is \in past'[m] \cup {IntMax}
    BY <1>1, <2>1
  <2>2. CASE PublishToHass
    <3>1. PICK k \in Msgs :
            /\ Head(rx)[k] # None
            /\ handler' = [handler EXCEPT ![k] = UpdateValue(handler[k], Head(rx)[k])]
      BY <2>2 DEF PublishToHass
    <3>2. Head(rx) = rx[1] /\ 1 \in 1 .. Len(rx)
      BY <1>2, <2>2, HeadTailProperties, EmptySeq, LenProperties DEF PublishToHass
    <3>3. Head(rx)[k] \in past'[k]
      BY <1>1, <3>1, <3>2 DEF AllTruthful, Truthful
    <3>4. \A m \in Msgs : handler'[m].is = IF m = k THEN Head(rx)[k] ELSE handler[m].is
      BY <3>1 DEF UpdateValue, TypeOK
    <3>. QED BY <1>1, <3>3, <3>4
  <2>3. CASE ApplyCommand
    <3>. DEFINE k == Head(batch).msg
                p == Head(batch).payload
    <3>1. \A m \in Msgs : handler[m] \in Handlers
      BY DEF TypeOK
    <3>2. \A h \in Handlers : UpdateValueNew(k, h, p).is = h.is
      BY DEF UpdateValueNew, Handlers
    <3>3. handler' = [handler EXCEPT ![k] = UpdateValueNew(k, handler[k], p)]
      BY <2>3 DEF ApplyCommand
    <3>. HIDE DEF k, p
    <3>4. \A m \in Msgs : handler'[m].is = handler[m].is
      BY <3>1, <3>2, <3>3 DEF TypeOK
    <3>. QED BY <2>1, <3>4
  <2>4. CASE SendRound
    <3>1. \A m \in Msgs, h \in Handlers : AfterGetPacket(m, h).is = h.is
      BY DEF AfterGetPacket, Drop, Handlers
    <3>2. \A m \in Msgs : handler'[m].is = handler[m].is
      BY <2>4, <3>1 DEF SendRound, TypeOK
    <3>. QED BY <2>1, <3>2
  <2>5. CASE Restart
    BY <2>1, <2>5 DEF Restart, FreshHandler
  <2>6. CASE handler' = handler
    BY <2>1, <2>6
  <2>. QED
    BY <2>2, <2>3, <2>4, <2>5, <2>6, OrdersNextIsNext
    DEF Next, Main, EndRound, Loop, Environment, vars, bridgeVars, UserCommand, TakeInbox,
        Receive, NextPacket, SkipRound, PumpAnswers, LosePackets, LoseReport, PumpNotifies,
        Notify, PanelChange
<1>4. AllTruthful(rx', past')
  <2>1. CASE Receive
    <3>1. PICK n \in 1 .. Len(fromPump) : rx' = SubSeq(fromPump, 1, n)
      BY <2>1 DEF Receive
    <3>2. 1 \in 1 .. Len(fromPump) + 1 /\ n \in 1 - 1 .. Len(fromPump)
      BY <1>2, <3>1, LenProperties
    <3>. QED BY <1>1, <1>2, <3>1, <3>2, TruthCut
  <2>2. CASE PublishToHass
    <3>1. PICK k \in Msgs : rx' = [rx EXCEPT ![1] = [@ EXCEPT ![k] = None]]
      BY <2>2 DEF PublishToHass
    <3>2. rx[1] \in Reports /\ 1 \in 1 .. Len(rx)
      BY <1>2, <2>2, HeadTailProperties, EmptySeq, LenProperties, ElementOfSeq DEF PublishToHass
    <3>3. Len(rx') = Len(rx) /\ \A i \in 1 .. Len(rx) :
             rx'[i] = IF i = 1 THEN [rx[1] EXCEPT ![k] = None] ELSE rx[i]
      <4>1. [rx[1] EXCEPT ![k] = None] \in Reports
        BY <3>2 DEF Reports
      <4>. QED BY <1>2, <3>1, <3>2, <4>1, ExceptSeq
    <3>4. Truthful([rx[1] EXCEPT ![k] = None], past')
      BY <1>1, <3>2 DEF AllTruthful, Truthful, Reports
    <3>. QED BY <1>1, <3>3, <3>4 DEF AllTruthful
  <2>3. CASE NextPacket
    BY <1>1, <1>2, <2>3, TruthTail DEF NextPacket
  <2>4. CASE Restart
    <3>1. Len(rx') = 0
      BY <2>4 DEF Restart
    <3>. QED BY <3>1 DEF AllTruthful
  <2>5. CASE rx' = rx
    BY <1>1, <2>5
  <2>. QED
    BY <2>1, <2>2, <2>3, <2>4, <2>5, OrdersNextIsNext
    DEF Next, Main, EndRound, Loop, Environment, vars, bridgeVars, UserCommand, TakeInbox,
        ApplyCommand, SendRound, SkipRound, PumpAnswers, LosePackets, LoseReport, PumpNotifies,
        Notify, PanelChange
<1>5. AllTruthful(fromPump', past')
  <2>1. CASE Receive
    <3>1. PICK n \in 1 .. Len(fromPump) :
            fromPump' = SubSeq(fromPump, n + 1, Len(fromPump))
      BY <2>1 DEF Receive
    <3>2. n + 1 \in 1 .. Len(fromPump) + 1 /\ Len(fromPump) \in (n + 1) - 1 .. Len(fromPump)
      BY <1>2, <3>1, LenProperties
    <3>. QED BY <1>1, <1>2, <3>1, <3>2, TruthCut
  <2>2. ASSUME NEW round, NEW heard, pump' = HeatPump(round, heard)
        PROVE  /\ Truthful(Answer(round, heard), past')
               /\ Answer(round, heard) \in Reports
    <3>1. \A m \in Msgs : Answer(round, heard)[m] \in {pump'[m], None}
      BY <2>2 DEF Answer
    <3>2. Answer(round, heard) \in Reports
      BY <1>2, <2>2 DEF Answer, Reports
    <3>. QED BY <1>1, <3>1, <3>2 DEF Truthful
  <2>3. CASE PumpAnswers
    <3>1. /\ pump' = HeatPump(Head(toPump), Msgs)
          /\ fromPump' = Append(fromPump, Answer(Head(toPump), Msgs))
      BY <2>3 DEF PumpAnswers
    <3>. QED BY <1>1, <1>2, <2>2, <3>1, TruthAppended
  <2>4. CASE LosePackets
    <3>1. PICK heard :
            /\ pump' = HeatPump(Head(toPump), heard)
            /\ fromPump' = IF Empty(Answer(Head(toPump), heard)) THEN fromPump
                           ELSE Append(fromPump, Answer(Head(toPump), heard))
      BY <2>4 DEF LosePackets
    <3>. QED BY <1>1, <1>2, <2>2, <3>1, TruthAppended
  <2>5. CASE LoseReport
    BY <1>1, <1>2, <2>5, TruthTail DEF LoseReport
  <2>6. CASE PumpNotifies
    <3>1. PICK reported : Notify(reported)
      BY <2>6 DEF PumpNotifies
    <3> DEFINE r == [m \in Msgs |-> IF m \in reported THEN pump[m] ELSE None]
    <3>2. fromPump' = Append(fromPump, r) /\ pump' = pump
      BY <3>1 DEF Notify
    <3>3. r \in Reports
      BY <1>2, <3>2 DEF Reports
    <3>4. Truthful(r, past')
      BY <1>1, <3>2 DEF Truthful
    <3> HIDE DEF r
    <3>. QED BY <1>1, <1>2, <3>2, <3>3, <3>4, TruthAppended
  <2>7. CASE fromPump' = fromPump
    BY <1>1, <2>7
  <2>. QED
    BY <2>1, <2>3, <2>4, <2>5, <2>6, <2>7, OrdersNextIsNext
    DEF Next, Main, EndRound, Loop, Environment, vars, envVars, UserCommand, TakeInbox,
        ApplyCommand, PublishToHass, NextPacket, SendRound, SkipRound, PanelChange, Restart
<1>. QED BY <1>1, <1>3, <1>4, <1>5 DEF ReportsWereHeld, AllTruthful, Truthful

(* Packets of a round on the bus: the place of its order is known, and a   *)
(* packet that sets a register carries that order.                         *)
Carries(round, place, list) ==
  \A m \in Msgs :
    Writes(round[m]) => place[m] \in 1 .. Len(list[m]) /\ round[m].val = list[m][place[m]]

LEMMA CarriesKept ==
  ASSUME NEW round, NEW place, NEW a, NEW b, Carries(round, place, a),
         \A m \in Msgs : Grown(a[m], b[m]) /\ Len(a[m]) \in Nat /\ Len(b[m]) \in Nat
  PROVE  Carries(round, place, b)
BY DEF Carries, Grown

(* A packet is what its handler is to write, the last order.               *)
LEMMA SentCarries ==
  ASSUME TypeOK, OrdersTypeOK, LastIsNew
  PROVE  Carries(GetNasaPackets, [m \in Msgs |-> Len(orders[m])], orders)
<1> SUFFICES ASSUME NEW m \in Msgs, Writes(GetNasaPackets[m])
             PROVE  /\ Len(orders[m]) \in 1 .. Len(orders[m])
                    /\ GetNasaPackets[m].val = orders[m][Len(orders[m])]
  BY DEF Carries
<1>1. GetNasaPackets[m] = PacketOf(m, handler[m])
  BY DEF GetNasaPackets
<1>2. Sends(m, handler[m]) /\ GetNasaPackets[m].val = handler[m].new
  BY <1>1 DEF PacketOf, Writes, Sends
<1>3. handler[m].new # IntMax
  BY <1>2 DEF Sends, Pending, Settled
<1>4. orders[m] # <<>> /\ handler[m].new = orders[m][Len(orders[m])]
  BY <1>3 DEF LastIsNew
<1>5. orders[m] \in Seq(Values) /\ Len(orders[m]) \in Nat /\ Len(orders[m]) # 0
  BY <1>4, EmptySeq, LenProperties DEF OrdersTypeOK
<1>. QED BY <1>2, <1>4, <1>5

(* What a round adds and what the heat pump takes away.                    *)
HeardBy(heard) ==
  /\ pump' = HeatPump(Head(toPump), heard)
  /\ orders' = [m \in Msgs |-> SubSeq(orders[m], Over(heard, m) + 1, Len(orders[m]))]
  /\ due' = [i \in 1 .. Len(due) - 1 |-> [m \in Msgs |-> due[i + 1][m] - Over(heard, m)]]
  /\ toPump # <<>> /\ toPump' = Tail(toPump)

LEMMA BusStep ==
  ASSUME TypeOK, OrdersTypeOK, InOrder, CarriesItsOrder, [OrdersNext]_ordersVars
  PROVE  \/ /\ due' = due /\ toPump' = toPump
            /\ \A m \in Msgs : Grown(orders[m], orders'[m])
         \/ /\ due' = Append(due, [m \in Msgs |-> Len(orders[m])])
            /\ toPump' = Append(toPump, GetNasaPackets)
            /\ \A m \in Msgs : Grown(orders[m], orders'[m])
         \/ \E heard \in SUBSET Msgs : HeardBy(heard)
<1>1. CASE RoundSent
  <2>1. ~RoundHeard
    <3>1. Len(toPump') \in {Len(toPump), Len(toPump) + 1}
      BY <1>1, AppendProperties, PacketOfType
      DEF RoundSent, SendRound, TypeOK, GetNasaPackets, Rounds
    <3>2. SUFFICES ASSUME RoundHeard PROVE FALSE
      OBVIOUS
    <3>3. toPump # <<>> /\ toPump' = Tail(toPump)
      BY <3>2 DEF RoundHeard, PumpAnswers, LosePackets
    <3>. QED BY <3>1, <3>3, HeadTailProperties, LenProperties DEF TypeOK
  <2>. QED BY <1>1, <2>1, OrdersMove DEF RoundSent, SendRound
<1>2. CASE RoundHeard
  BY <1>2 DEF RoundHeard, PumpAnswers, LosePackets, Heard, HeardBy
<1>3. CASE due' = due /\ toPump' = toPump /\ ~RoundHeard
  BY <1>3, OrdersMove
<1>. QED
  BY <1>1, <1>2, <1>3
  DEF OrdersNext, OrderTaken, RoundEnds, Elsewhere, ordersVars, vars, bridgeVars, envVars,
      UserCommand, TakeInbox, ApplyCommand, Receive, PublishToHass, NextPacket, SkipRound,
      LoseReport, PumpNotifies, Notify, PanelChange, Restart

(* What the heat pump hears leaves the rounds behind it in order.          *)
LEMMA BusHeard ==
  ASSUME TypeOK, OrdersTypeOK, InOrder, CarriesItsOrder, NEW heard \in SUBSET Msgs,
         HeardBy(heard)
  PROVE  due' \in Seq([Msgs -> Nat]) /\ InOrder' /\ CarriesItsOrder'
<1> DEFINE o(m) == Over(heard, m)
<1>1. /\ toPump \in Seq(Rounds) /\ due \in Seq([Msgs -> Nat]) /\ Len(due) \in Nat
      /\ Len(due) = Len(toPump) /\ Len(due) # 0
  BY LenProperties, EmptySeq DEF TypeOK, OrdersTypeOK, InOrder, HeardBy
<1>2. \A m \in Msgs : /\ orders[m] \in Seq(Values) /\ Len(orders[m]) \in Nat
                      /\ o(m) \in 0 .. Len(orders[m]) /\ (o(m) = 0 \/ o(m) < due[1][m])
  BY OverRange, LenProperties DEF OrdersTypeOK, HeardBy
<1>3. \A m \in Msgs : orders'[m] = SubSeq(orders[m], o(m) + 1, Len(orders[m]))
  BY DEF HeardBy
<1>4. \A m \in Msgs :
        /\ Len(orders'[m]) = Len(orders[m]) - o(m)
        /\ \A n \in 1 .. Len(orders[m]) - o(m) : orders'[m][n] = orders[m][n + o(m)]
  <2> HIDE DEF o
  <2>1. SUFFICES ASSUME NEW m \in Msgs
                 PROVE  /\ Len(orders'[m]) = Len(orders[m]) - o(m)
                        /\ \A n \in 1 .. Len(orders[m]) - o(m) :
                             orders'[m][n] = orders[m][n + o(m)]
    OBVIOUS
  <2>2. PICK s, k : s = orders[m] /\ k = o(m)
    OBVIOUS
  <2>3. s \in Seq(Values) /\ k \in 0 .. Len(s) /\ orders'[m] = SubSeq(s, k + 1, Len(s))
    BY <1>2, <1>3, <2>2
  <2>4. /\ Len(SubSeq(s, k + 1, Len(s))) = Len(s) - k
        /\ \A n \in 1 .. Len(s) - k : SubSeq(s, k + 1, Len(s))[n] = s[n + k]
    BY ONLY <2>3, OrdersCut
  <2>. QED BY <2>2, <2>3, <2>4
<1>5. due' = [i \in 1 .. Len(due) - 1 |-> [m \in Msgs |-> due[i + 1][m] - o(m)]]
  BY DEF HeardBy
<1> HIDE DEF o
<1>6. ASSUME NEW i \in 1 .. Len(due) - 1
      PROVE  /\ i + 1 \in 1 .. Len(due)
             /\ \A m \in Msgs :
                  /\ due[i + 1][m] \in Nat /\ due[1][m] <= due[i + 1][m]
                  /\ due[i + 1][m] <= Len(orders[m])
  <2>1. i + 1 \in 1 .. Len(due) /\ 1 \in 1 .. Len(due)
    BY <1>1
  <2>2. due[i + 1] \in [Msgs -> Nat]
    BY <1>1, <2>1, ElementOfSeq
  <2>. QED BY <2>1, <2>2 DEF InOrder
<1>7. \A i \in 1 .. Len(due) - 1 : \A m \in Msgs :
        /\ due'[i][m] = due[i + 1][m] - o(m)
        /\ due[i + 1][m] - o(m) \in Nat
  <2>1. ASSUME NEW i \in 1 .. Len(due) - 1, NEW m \in Msgs
        PROVE  /\ due'[i][m] = due[i + 1][m] - o(m)
               /\ due[i + 1][m] - o(m) \in Nat
    <3>1. due'[i][m] = due[i + 1][m] - o(m)
      BY <1>5
    <3>2. due[1][m] \in Nat
      <4>1. due[1] \in [Msgs -> Nat]
        BY <1>1, ElementOfSeq
      <4>. QED BY <4>1
    <3>. QED BY <1>2, <1>6, <3>1, <3>2
  <2>. QED BY <1>2, <1>6, <2>1
<1>8. due' \in Seq([Msgs -> Nat]) /\ Len(due') = Len(due) - 1
  <2>1. Len(due) - 1 \in Nat
    BY <1>1
  <2>2. \A i \in 1 .. Len(due) - 1 : [m \in Msgs |-> due[i + 1][m] - o(m)] \in [Msgs -> Nat]
    BY <1>5, <1>7
  <2>. QED BY <1>5, <2>1, <2>2, IsASeq
<1>9. /\ Len(toPump') = Len(due) - 1
      /\ \A i \in 1 .. Len(due) - 1 : toPump'[i] = toPump[i + 1]
  BY <1>1, HeadTailProperties DEF HeardBy
<1>10. InOrder'
  <2>1. ASSUME NEW i \in 1 .. Len(due) - 1, NEW m \in Msgs
        PROVE  /\ due'[i][m] <= Len(orders'[m])
               /\ \A j \in i .. Len(due) - 1 : due'[i][m] <= due'[j][m]
    <3>1. due'[i][m] <= Len(orders'[m])
      BY <1>2, <1>4, <1>6, <1>7
    <3>2. ASSUME NEW j \in i .. Len(due) - 1 PROVE due'[i][m] <= due'[j][m]
      <4>1. j \in 1 .. Len(due) - 1 /\ j + 1 \in i + 1 .. Len(due)
        BY <1>1
      <4>2. due[i + 1][m] <= due[j + 1][m]
        BY <1>6, <4>1 DEF InOrder
      <4>. QED BY <1>2, <1>6, <1>7, <4>1, <4>2
    <3>. QED BY <3>1, <3>2
  <2>. QED BY <1>8, <1>9, <2>1 DEF InOrder
<1>11. CarriesItsOrder'
  <2>1. ASSUME NEW i \in 1 .. Len(due) - 1, NEW m \in Msgs, Writes(toPump'[i][m])
        PROVE  /\ due'[i][m] \in 1 .. Len(orders'[m])
               /\ toPump'[i][m].val = orders'[m][due'[i][m]]
    <3>1. toPump'[i] = toPump[i + 1]
      BY <1>9
    <3>2. /\ due[i + 1][m] \in 1 .. Len(orders[m])
          /\ toPump'[i][m].val = orders[m][due[i + 1][m]]
      BY <1>6, <2>1, <3>1 DEF CarriesItsOrder
    <3>3. PICK d, k : d = due[i + 1][m] /\ k = o(m)
      OBVIOUS
    <3>4. d - k \in 1 .. Len(orders[m]) - k /\ (d - k) + k = d
      <4>1. k \in Nat /\ d \in Nat /\ Len(orders[m]) \in Nat /\ (k = 0 \/ k < d)
            /\ d \in 1 .. Len(orders[m])
        <5>1. k \in Nat /\ (k = 0 \/ k < due[1][m])
          BY <1>2, <3>3
        <5>2. due[1][m] \in Nat
          <6>1. due[1] \in [Msgs -> Nat]
            BY <1>1, ElementOfSeq
          <6>. QED BY <6>1
        <5>. QED BY <1>2, <1>6, <3>2, <3>3, <5>1, <5>2
      <4>. QED BY ONLY <4>1
    <3>5. due'[i][m] = d - k
      BY <1>7, <3>3
    <3>. QED BY <1>4, <3>2, <3>3, <3>4, <3>5
  <2>. QED BY <1>8, <2>1 DEF CarriesItsOrder
<1>. QED BY <1>8, <1>10, <1>11

LEMMA BusInOrder ==
  ASSUME TypeOK, TypeOK', OrdersTypeOK, InOrder, CarriesItsOrder, LastIsNew,
         [OrdersNext]_ordersVars
  PROVE  due' \in Seq([Msgs -> Nat]) /\ InOrder' /\ CarriesItsOrder'
<1> DEFINE places == [m \in Msgs |-> Len(orders[m])]
<1>1. /\ toPump \in Seq(Rounds) /\ Len(toPump) \in Nat
      /\ due \in Seq([Msgs -> Nat]) /\ Len(due) \in Nat
      /\ Len(due) = Len(toPump)
  BY LenProperties DEF TypeOK, OrdersTypeOK, InOrder
<1>2. /\ \A m \in Msgs : Len(orders[m]) \in Nat /\ Len(orders'[m]) \in Nat
      /\ \A m \in Msgs : Grown(orders[m], orders'[m]) => Len(orders[m]) <= Len(orders'[m])
  BY OrdersMove, LenProperties DEF OrdersTypeOK, Grown
<1>3. \A i \in 1 .. Len(due) : due[i] \in [Msgs -> Nat] /\ \A m \in Msgs : due[i][m] \in Nat
  BY <1>1, ElementOfSeq
<1>4. \A i \in 1 .. Len(due) : \A m \in Msgs :
        /\ due[i][m] <= Len(orders[m])
        /\ \A j \in i .. Len(due) : due[i][m] <= due[j][m]
  BY DEF InOrder
<1>5. ASSUME \A m \in Msgs : Grown(orders[m], orders'[m])
      PROVE  \A i \in 1 .. Len(due) : Carries(toPump[i], due[i], orders')
  <2>1. \A i \in 1 .. Len(due) : Carries(toPump[i], due[i], orders)
    BY DEF CarriesItsOrder, Carries
  <2>. QED BY <1>2, <1>5, <2>1, CarriesKept
<1>6. CASE due' = due /\ toPump' = toPump /\ \A m \in Msgs : Grown(orders[m], orders'[m])
  <2>1. InOrder'
    <3>1. ASSUME NEW i \in 1 .. Len(due), NEW m \in Msgs
          PROVE  due[i][m] <= Len(orders'[m])
      BY <1>2, <1>3, <1>4, <1>6
    <3>. QED BY <1>1, <1>4, <1>6, <3>1 DEF InOrder
  <2>2. CarriesItsOrder'
    BY <1>5, <1>6 DEF CarriesItsOrder, Carries
  <2>. QED BY <1>1, <1>6, <2>1, <2>2
<1>7. CASE /\ \A m \in Msgs : Grown(orders[m], orders'[m])
           /\ due' = Append(due, places) /\ toPump' = Append(toPump, GetNasaPackets)
  <2>1. places \in [Msgs -> Nat] /\ GetNasaPackets \in Rounds
    BY <1>2, PacketOfType DEF GetNasaPackets, Rounds, TypeOK
  <2>2. /\ due' \in Seq([Msgs -> Nat]) /\ Len(due') = Len(due) + 1 /\ Len(toPump') = Len(due) + 1
        /\ \A i \in 1 .. Len(due) : due'[i] = due[i] /\ toPump'[i] = toPump[i]
        /\ due'[Len(due) + 1] = places /\ toPump'[Len(due) + 1] = GetNasaPackets
    <3> HIDE DEF places
    <3>. QED BY <1>1, <1>7, <2>1, AppendProperties
  <2>3. \A i \in 1 .. Len(due) + 1 : i \in 1 .. Len(due) \/ i = Len(due) + 1
    BY <1>1
  <2>4. \A m \in Msgs : places[m] = Len(orders[m])
    OBVIOUS
  <2>6. Carries(GetNasaPackets, places, orders')
    <3>1. Carries(GetNasaPackets, places, orders)
      BY SentCarries
    <3>. QED BY <1>2, <1>7, <3>1, CarriesKept
  <2> HIDE DEF places
  <2>5. ASSUME NEW i \in 1 .. Len(due) + 1, NEW m \in Msgs
        PROVE  /\ due'[i][m] <= Len(orders'[m])
               /\ \A j \in i .. Len(due) + 1 : due'[i][m] <= due'[j][m]
    <3>1. CASE i = Len(due) + 1
      <4>1. due'[i][m] = Len(orders[m]) /\ \A j \in i .. Len(due) + 1 : j = i
        BY <1>1, <2>2, <2>4, <3>1
      <4>. QED BY <1>2, <1>7, <4>1
    <3>2. CASE i \in 1 .. Len(due)
      <4>1. /\ due'[i][m] = due[i][m] /\ due[i][m] \in Nat
            /\ due[i][m] <= Len(orders[m])
        BY <1>3, <1>4, <2>2, <3>2
      <4>2. due'[i][m] <= Len(orders'[m])
        BY <1>1, <1>2, <1>7, <4>1
      <4>3. ASSUME NEW j \in i .. Len(due) + 1 PROVE due'[i][m] <= due'[j][m]
        <5>1. CASE j = Len(due) + 1
          BY <2>2, <2>4, <4>1, <5>1
        <5>2. CASE j # Len(due) + 1
          <6>1. PICK n : n = Len(due)
            OBVIOUS
          <6>2. n \in Nat /\ i \in 1 .. n /\ j \in i .. n + 1 /\ j # n + 1
            BY <1>1, <3>2, <5>2, <6>1
          <6>3. j \in i .. n /\ j \in 1 .. n
            BY ONLY <6>2
          <6>. QED BY <1>4, <2>2, <3>2, <4>1, <6>1, <6>3
        <5>. QED BY <5>1, <5>2
      <4>. QED BY <4>2, <4>3
    <3>. QED BY <2>3, <3>1, <3>2
  <2>7. InOrder'
    BY <1>7, <2>2, <2>5 DEF InOrder
  <2>8. CarriesItsOrder'
    <3>1. ASSUME NEW i \in 1 .. Len(due) + 1 PROVE Carries(toPump'[i], due'[i], orders')
      BY <1>5, <1>7, <2>2, <2>3, <2>6
    <3>. QED BY <2>2, <3>1 DEF CarriesItsOrder, Carries
  <2>. QED BY <1>1, <1>7, <2>2, <2>7, <2>8
<1>. QED
  BY <1>6, <1>7, BusStep, BusHeard

(* The types of the bridge carry over, the record being its history only.  *)
LEMMA OrdersStart ==
  ASSUME OrdersInit
  PROVE  OrdersInv
<1>1. \A m \in Msgs : /\ handler[m] = FreshHandler /\ orders[m] = <<>>
                      /\ past[m] = {pump[m]} /\ pump[m] \in Values
  BY DEF OrdersInit, Init
<1>2. <<>> \in Seq(Values) /\ <<>> \in Seq([Msgs -> Nat]) /\ Len(<<>>) = 0
  BY EmptySeq
<1>3. OrdersTypeOK
  BY <1>1, <1>2 DEF OrdersInit, OrdersTypeOK
<1>4. Len(due) = 0 /\ Len(toPump) = 0 /\ Len(rx) = 0 /\ Len(fromPump) = 0
  BY <1>2 DEF OrdersInit, Init
<1>5. InOrder /\ CarriesItsOrder
  BY <1>1, <1>2, <1>4 DEF InOrder, CarriesItsOrder
<1>6. LastIsNew /\ ReportsWereHeld
  BY <1>1, <1>4 DEF LastIsNew, ReportsWereHeld, FreshHandler
<1>. QED BY <1>3, <1>5, <1>6 DEF OrdersInv

LEMMA OrdersStep ==
  ASSUME TypeOK, TypeOK', OrdersInv, [OrdersNext]_ordersVars
  PROVE  OrdersInv'
<1>1. LastIsNew'
  BY LastIsNewStep DEF OrdersInv
<1>2. ReportsWereHeld'
  BY ReportsWereHeldStep DEF OrdersInv
<1>3. due' \in Seq([Msgs -> Nat]) /\ InOrder' /\ CarriesItsOrder'
  BY BusInOrder DEF OrdersInv
<1>4. OrdersTypeOK'
  BY <1>3, OrdersMove, PastGrows DEF OrdersTypeOK, OrdersInv
<1>. QED BY <1>1, <1>2, <1>3, <1>4 DEF OrdersInv

LEMMA OrdersTyped == OrdersSpec => []TypeOK
<1>1. OrdersInit => Init
  BY DEF OrdersInit
<1>. QED BY <1>1, OrdersNextIsNext, TypeCorrect, PTL DEF OrdersSpec, Spec

(* What is under way to the heat pump is in the order in which it was      *)
(* ordered, what a handler is to write is the last order, and every report *)
(* tells what a register held.                                             *)
THEOREM OrdersInvariant == OrdersSpec => []OrdersInv
<1>1. OrdersInit => OrdersInv
  BY OrdersStart
<1>2. TypeOK /\ TypeOK' /\ OrdersInv /\ [OrdersNext]_ordersVars => OrdersInv'
  BY OrdersStep
<1>. QED BY <1>1, <1>2, OrdersTyped, PTL DEF OrdersSpec

-----------------------------------------------------------------------------
(* The registers obey in order: every step of the bridge is one of         *)
(* RegisterOrders, or none.                                                *)

(* The queue of commands, in the batch and in the inbox.                   *)
LEMMA QueueSteps ==
  ASSUME NEW S, NEW b \in Seq(S), NEW i \in Seq(S)
  PROVE  /\ \A c \in S : b \o Append(i, c) = Append(b \o i, c)
         /\ b = <<>> => b \o i = i /\ i \o <<>> = i
         /\ b # <<>> => /\ b \o i # <<>> /\ Head(b \o i) = Head(b)
                        /\ Tail(b \o i) = Tail(b) \o i
<1>1. /\ Len(b) \in Nat /\ Len(i) \in Nat /\ b \o i \in Seq(S)
      /\ Len(b \o i) = Len(b) + Len(i)
      /\ \A k \in 1 .. Len(b) + Len(i) :
           (b \o i)[k] = IF k <= Len(b) THEN b[k] ELSE i[k - Len(b)]
  BY ConcatProperties, LenProperties
<1>2. ASSUME NEW c \in S PROVE b \o Append(i, c) = Append(b \o i, c)
  <2>1. <<c>> \in Seq(S)
    OBVIOUS
  <2>2. Append(i, c) = i \o <<c>> /\ Append(b \o i, c) = (b \o i) \o <<c>>
    BY <1>1, AppendIsConcat
  <2>. QED BY <2>1, <2>2, ConcatAssociative
<1>3. ASSUME b = <<>> PROVE b \o i = i /\ i \o <<>> = i
  BY <1>3, ConcatEmptySeq
<1>4. ASSUME b # <<>>
      PROVE  /\ b \o i # <<>> /\ Head(b \o i) = Head(b)
             /\ Tail(b \o i) = Tail(b) \o i
  <2>1. PICK x, t : x = Head(b) /\ t = Tail(b)
    OBVIOUS
  <2>2. x \in S /\ t \in Seq(S) /\ b = <<x>> \o t
    BY <1>4, <2>1, HeadTailProperties, ConcatSimplifications
  <2>3. <<x>> \in Seq(S)
    BY <2>2
  <2>4. b \o i = <<x>> \o (t \o i)
    BY <2>2, <2>3, ConcatAssociative
  <2>5. t \o i \in Seq(S)
    BY <2>2, ConcatProperties
  <2>. QED BY <2>1, <2>2, <2>4, <2>5, ConcatSimplifications, EmptySeq
<1>. QED BY <1>2, <1>3, <1>4

LEMMA RegistersStart ==
  ASSUME TypeOK, OrdersInit
  PROVE  Registers!Init
<1>1. batch \o inbox = <<>>
  <2>1. <<>> \in Seq(Commands)
    BY EmptySeq
  <2>. QED BY <2>1, QueueSteps DEF OrdersInit, Init
<1>2. budget.changes \in Nat
  BY DEF TypeOK
<1>. QED BY <1>1, <1>2 DEF Registers!Init, OrdersInit, Init

LEMMA RegistersStep ==
  ASSUME TypeOK, TypeOK', OrdersInv, OrdersInv', [OrdersNext]_ordersVars
  PROVE  [Registers!Next]_Registers!vars
<1>1. batch \in Seq(Commands) /\ inbox \in Seq(Commands)
  BY DEF TypeOK
<1>2. ASSUME pump' = pump PROVE past' = past
  <2>1. CASE OrdersNext
    <3>1. past' = [m \in Msgs |-> past[m] \cup {pump[m]}]
      BY <1>2, <2>1 DEF OrdersNext
    <3>2. \A m \in Msgs : past[m] \cup {pump[m]} = past[m]
      BY DEF OrdersInv, ReportsWereHeld
    <3>. QED BY <3>1, <3>2 DEF OrdersInv, OrdersTypeOK
  <2>2. CASE UNCHANGED ordersVars
    BY <2>2 DEF ordersVars
  <2>. QED BY <2>1, <2>2
<1>3. ASSUME pump' # pump
      PROVE  past' = [m \in Msgs |-> past[m] \cup {pump'[m]}]
  BY <1>3 DEF OrdersNext, ordersVars, vars
<1>4. past' = [m \in Msgs |-> past[m] \cup {pump'[m]}]
  <2>1. CASE pump' = pump
    <3>1. \A m \in Msgs : past[m] \cup {pump'[m]} = past[m]
      BY <2>1 DEF OrdersInv, ReportsWereHeld
    <3>. QED BY <1>2, <2>1, <3>1 DEF OrdersInv, OrdersTypeOK
  <2>. QED BY <1>3, <2>1
<1>5. ASSUME UNCHANGED <<batch, inbox, orders, pump, budget>>
      PROVE  UNCHANGED Registers!vars
  BY <1>2, <1>5 DEF Registers!vars
<1>6. CASE UserCommand /\ orders' = orders
  <2>1. PICK c \in Commands : inbox' = Append(inbox, c) /\ Spend("commands")
    BY <1>6 DEF UserCommand
  <2>2. batch' = batch /\ pump' = pump /\ budget'.changes = budget.changes
    BY <1>6, <2>1 DEF UserCommand, Spend, TypeOK, envVars
  <2>3. (batch \o inbox)' = Append(batch \o inbox, c)
    BY <1>1, <2>1, <2>2, QueueSteps
  <2>4. Registers!Give
    BY <1>2, <1>6, <2>2, <2>3 DEF Registers!Give
  <2>. QED BY <2>4 DEF Registers!Next
<1>7. CASE TakeInbox /\ orders' = orders
  <2>1. batch = <<>> /\ batch' = inbox /\ inbox' = <<>> /\ pump' = pump /\ budget' = budget
    BY <1>7 DEF TakeInbox, envVars
  <2>2. batch \o inbox = inbox /\ (batch \o inbox)' = inbox
    BY <1>1, <2>1, QueueSteps
  <2>. QED BY <1>2, <1>7, <2>1, <2>2 DEF Registers!vars
<1>8. CASE OrderTaken
  <2> DEFINE c == Head(batch)
             wanted == [d \in Commands |-> Asked(d.msg, d.payload)]
  <2>1. /\ batch # <<>> /\ batch' = Tail(batch) /\ inbox' = inbox
        /\ pump' = pump /\ budget' = budget
    BY <1>8 DEF OrderTaken, ApplyCommand, envVars
  <2>2. /\ batch \o inbox # <<>> /\ Head(batch \o inbox) = c
        /\ (batch \o inbox)' = Tail(batch \o inbox)
    BY <1>1, <2>1, QueueSteps
  <2>3. c \in Commands
    BY <1>1, <2>1, HeadTailProperties
  <2>4. wanted[c] = Asked(c.msg, c.payload)
    BY <2>3
  <2>5. orders' = IF wanted[c] = IntMax THEN orders
                  ELSE [orders EXCEPT ![c.msg] = Append(@, wanted[c])]
    BY <1>8, <2>4 DEF OrderTaken
  <2>6. Registers!Take
    BY <1>2, <2>1, <2>2, <2>3, <2>4, <2>5 DEF Registers!Take
  <2>. QED BY <2>6 DEF Registers!Next
<1>9. CASE Restart /\ orders' = orders
  <2>1. batch' = <<>> /\ inbox' = <<>> /\ pump' = pump /\ budget'.changes = budget.changes
    BY <1>9 DEF Restart, Spend, TypeOK, envVars
  <2>2. (batch \o inbox)' = <<>>
    BY <2>1, QueueSteps, EmptySeq
  <2>3. Registers!Forget
    BY <1>2, <1>9, <2>1, <2>2 DEF Registers!Forget
  <2>. QED BY <2>3 DEF Registers!Next
<1>10. CASE RoundSent
  <2>1. /\ UNCHANGED <<batch, inbox, pump, budget>>
        /\ \A m \in Msgs : orders'[m] = IF Reverts(m) THEN Append(orders[m], handler[m].is)
                                                      ELSE orders[m]
    BY <1>10 DEF RoundSent, SendRound
  <2>2. ASSUME NEW m \in Msgs, Reverts(m)
        PROVE  orders[m] # <<>> /\ handler[m].is \in past[m]
    <3>1. handler[m].new # IntMax /\ handler[m].is # IntMax
      BY <2>2 DEF Reverts, Dropped, Pending, Settled
    <3>. QED BY <3>1 DEF OrdersInv, LastIsNew, ReportsWereHeld
  <2>3. orders' \in [Msgs -> Seq(Values)]
    BY DEF OrdersInv, OrdersTypeOK
  <2>4. Registers!GiveUp
    BY <1>2, <2>1, <2>2, <2>3 DEF Registers!GiveUp
  <2>. QED BY <2>4 DEF Registers!Next
<1>11. CASE RoundHeard
  <2>1. UNCHANGED <<batch, inbox>> /\ budget'.changes = budget.changes
    BY <1>11 DEF RoundHeard, Heard, PumpAnswers, LosePackets, Spend, TypeOK, bridgeVars
  <2>2. PICK heard \in SUBSET Msgs : HeardBy(heard)
    BY <1>11 DEF RoundHeard, PumpAnswers, LosePackets, Heard, HeardBy
  <2>3. /\ pump' = HeatPump(Head(toPump), heard) /\ toPump # <<>>
        /\ \A m \in Msgs : orders'[m] = SubSeq(orders[m], Over(heard, m) + 1, Len(orders[m]))
    BY <2>2 DEF HeardBy
  <2>4. Head(toPump) = toPump[1] /\ Head(due) = due[1] /\ 1 \in 1 .. Len(due)
    <3>1. Len(toPump) # 0 /\ Len(due) = Len(toPump) /\ Len(due) \in Nat
      BY <2>3, EmptySeq, LenProperties DEF TypeOK, OrdersInv, OrdersTypeOK, InOrder
    <3>. QED BY <2>3, <3>1, HeadTailProperties, EmptySeq DEF TypeOK, OrdersInv, OrdersTypeOK
  <2>5. ASSUME NEW m \in Msgs
        PROVE  Registers!Obeys(m) \/ (orders'[m] = orders[m] /\ pump'[m] = pump[m])
    <3>1. CASE m \in heard /\ Writes(Head(toPump)[m])
      <4>1. pump'[m] = toPump[1][m].val /\ Over(heard, m) = due[1][m] - 1
        BY <2>3, <2>4, <3>1 DEF HeatPump, Writes, Over
      <4>2. due[1][m] \in 1 .. Len(orders[m]) /\ toPump[1][m].val = orders[m][due[1][m]]
        BY <2>4, <3>1 DEF OrdersInv, CarriesItsOrder
      <4>3. (due[1][m] - 1) + 1 = due[1][m]
        BY <4>2
      <4>. QED BY <2>3, <4>1, <4>2, <4>3 DEF Registers!Obeys
    <3>2. CASE ~(m \in heard /\ Writes(Head(toPump)[m]))
      <4>1. pump'[m] = pump[m] /\ Over(heard, m) = 0
        BY <2>3, <3>2 DEF HeatPump, Writes, Over
      <4>2. orders[m] \in Seq(Values) /\ 0 \in 0 .. Len(orders[m])
        BY LenProperties DEF OrdersInv, OrdersTypeOK
      <4>3. SubSeq(orders[m], 0 + 1, Len(orders[m])) = orders[m]
        BY ONLY <4>2, OrdersCut
      <4>. QED BY <2>3, <4>1, <4>3
    <3>. QED BY <3>1, <3>2
  <2>6. orders' \in [Msgs -> Seq(Values)] /\ pump' \in [Msgs -> Values]
    BY DEF TypeOK, OrdersInv, OrdersTypeOK
  <2>7. Registers!Obey
    BY <1>4, <2>1, <2>5, <2>6 DEF Registers!Obey, Registers!Remember
  <2>. QED BY <2>7 DEF Registers!Next
<1>12. CASE PanelChange /\ orders' = orders
  <2>1. PICK m \in Msgs, v \in Values : pump' = [pump EXCEPT ![m] = v]
    BY <1>12 DEF PanelChange
  <2>2. /\ UNCHANGED <<batch, inbox>> /\ budget.changes > 0
        /\ budget'.changes = budget.changes - 1
    BY <1>12 DEF PanelChange, Spend, TypeOK, bridgeVars
  <2>3. Registers!ChangeByHand
    BY <1>4, <1>12, <2>1, <2>2 DEF Registers!ChangeByHand, Registers!Remember
  <2>. QED BY <2>3 DEF Registers!Next
<1>13. CASE /\ orders' = orders
            /\ \/ Receive \/ PublishToHass \/ NextPacket \/ LoseReport \/ PumpNotifies \/ SkipRound
               \/ UNCHANGED vars
  <2>1. UNCHANGED <<batch, inbox, pump>> /\ budget'.changes = budget.changes
    BY <1>13 DEF Receive, PublishToHass, NextPacket, LoseReport, PumpNotifies, Notify,
        SkipRound, vars, bridgeVars, envVars, Spend, TypeOK
  <2>. QED BY <1>2, <1>13, <2>1 DEF Registers!vars
<1>. QED
  BY <1>6, <1>7, <1>8, <1>9, <1>10, <1>11, <1>12, <1>13
  DEF OrdersNext, RoundEnds, Elsewhere, ordersVars

(* The bridge implements RegisterOrders: over retries, losses, commands    *)
(* given up, changes at the panel and restarts, a register never goes back *)
(* to an order older than the one it obeyed, and takes no value that was   *)
(* neither ordered nor set at the panel.                                   *)
THEOREM Obedience == OrdersSpec => ObeyedInOrder
<1>1. TypeOK /\ OrdersInit => Registers!Init
  BY RegistersStart
<1>2. TypeOK /\ TypeOK' /\ OrdersInv /\ OrdersInv' /\ [OrdersNext]_ordersVars
        => [Registers!Next]_Registers!vars
  BY RegistersStep
<1>. QED BY <1>1, <1>2, OrdersTyped, OrdersInvariant, PTL
         DEF OrdersSpec, ObeyedInOrder, Registers!Spec

=============================================================================
