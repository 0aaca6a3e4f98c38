---------------------------- MODULE BridgeOrders ----------------------------
(***************************************************************************)
(* HassBridge with a record of what was ordered, and that it implements    *)
(* RegisterOrders.  The record is history: which order each packet on the  *)
(* bus carries, and which one a register obeyed last.  The program's       *)
(* variables change as in HassBridge.                                      *)
(***************************************************************************)
EXTENDS HassBridge

VARIABLES
  orders,   \* message -> values val_new_ took, from the one obeyed last on
  due,      \* for each round in toPump: message -> place of the order it carries
  past      \* message -> the values its register has held

ordersVars == <<vars, orders, due, past>>

OrdersInit ==
  /\ Init
  /\ orders = [m \in Msgs |-> <<>>]
  /\ due = <<>>
  /\ past = [m \in Msgs |-> {pump[m]}]

(* A command that is not ignored is an order.                              *)
OrderTaken ==
  /\ ApplyCommand
  /\ LET m == Head(batch).msg
         v == Asked(m, Head(batch).payload)
     IN  orders' = IF v = IntMax THEN orders ELSE [orders EXCEPT ![m] = Append(@, v)]
  /\ UNCHANGED due

(* A handler that drops its command orders what was reported last, if      *)
(* anything was: that is what it sends when the register changes.          *)
Reverts(m) == Dropped(m, handler[m]) /\ handler[m].is # IntMax

RoundSent ==
  /\ SendRound
  /\ orders' = [m \in Msgs |-> IF Reverts(m) THEN Append(orders[m], handler[m].is)
                                             ELSE orders[m]]
  /\ due' = IF Empty(GetNasaPackets) THEN due
                                     ELSE Append(due, [m \in Msgs |-> Len(orders[m])])

Writes(packet) == packet # None /\ packet.type # "Read"

(* How many orders of a register are over once the packet was heard.       *)
Over(heard, m) ==
  IF m \in heard /\ Writes(Head(toPump)[m]) THEN Head(due)[m] - 1 ELSE 0

(* The heat pump hears some packets of the oldest round.                   *)
Heard(heard) ==
  /\ pump' = HeatPump(Head(toPump), heard)
  /\ orders' = [m \in Msgs |-> SubSeq(orders[m], Over(heard, m) + 1, Len(orders[m]))]
  /\ due' = [i \in 1 .. Len(due) - 1 |-> [m \in Msgs |-> due[i + 1][m] - Over(heard, m)]]

RoundHeard ==
  \/ PumpAnswers /\ Heard(Msgs)
  \/ LosePackets /\ \E heard \in (SUBSET Msgs) \ {Msgs} : Heard(heard)

Elsewhere ==
  /\ \/ UserCommand \/ TakeInbox \/ Receive \/ PublishToHass \/ NextPacket
     \/ LoseReport \/ PumpNotifies \/ PanelChange \/ Restart
  /\ UNCHANGED <<orders, due>>

RoundEnds == IF MaySend THEN RoundSent ELSE SkipRound /\ UNCHANGED <<orders, due>>

OrdersNext ==
  /\ OrderTaken \/ RoundEnds \/ RoundHeard \/ Elsewhere
  /\ past' = [m \in Msgs |-> past[m] \cup {pump'[m]}]

OrdersSpec == OrdersInit /\ [][OrdersNext]_ordersVars

-----------------------------------------------------------------------------
(* The record lists register values, one list for each message.            *)
OrdersTypeOK ==
  /\ orders \in [Msgs -> Seq(Values)]
  /\ due \in Seq([Msgs -> Nat])
  /\ past \in [Msgs -> SUBSET Values]

(* What is under way to the heat pump is in the order in which it was      *)
(* ordered, and none of it is older than what was obeyed.                  *)
InOrder ==
  /\ Len(due) = Len(toPump)
  /\ \A i \in 1 .. Len(due) : \A m \in Msgs :
       /\ due[i][m] <= Len(orders[m])
       /\ \A j \in i .. Len(due) : due[i][m] <= due[j][m]

(* A packet that sets a register carries the value of its order.           *)
CarriesItsOrder ==
  \A i \in 1 .. Len(due) : \A m \in Msgs :
    Writes(toPump[i][m]) =>
      due[i][m] \in 1 .. Len(orders[m]) /\ toPump[i][m].val = orders[m][due[i][m]]

(* What a handler is to write is the last order.                           *)
LastIsNew ==
  \A m \in Msgs : handler[m].new # IntMax =>
    orders[m] # <<>> /\ handler[m].new = orders[m][Len(orders[m])]

(* What was reported was held, however late the report comes.              *)
ReportsWereHeld ==
  \A m \in Msgs :
    /\ pump[m] \in past[m]
    /\ handler[m].is \in past[m] \cup {IntMax}
    /\ \A i \in 1 .. Len(rx) : rx[i][m] \in past[m] \cup {None}
    /\ \A i \in 1 .. Len(fromPump) : fromPump[i][m] \in past[m] \cup {None}

(* Why the registers obey in order: every retry and every value a dropped  *)
(* command leaves behind is the last order, the packets on the bus keep    *)
(* the order of their rounds over losses and restarts, and what the bridge *)
(* believes to be in a register once was.                                  *)
OrdersInv == OrdersTypeOK /\ InOrder /\ CarriesItsOrder /\ LastIsNew /\ ReportsWereHeld

Registers == INSTANCE RegisterOrders WITH
  waiting <- batch \o inbox,
  held <- pump,
  panel <- budget.changes,
  Wanted <- [c \in Commands |-> Asked(c.msg, c.payload)],
  Ignored <- IntMax

(* APPS.md:37 of several commands: the registers obey them in the order in *)
(* which they were received, whatever is lost, retried, dropped or started *)
(* again; no register takes a value that no user, no panel and no earlier  *)
(* state gave it.                                                          *)
ObeyedInOrder == Registers!Spec
=============================================================================
