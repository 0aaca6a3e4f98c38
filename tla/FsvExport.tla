----------------------------- MODULE FsvExport -----------------------------
(***************************************************************************)
(* The field setting export apps/tcp_fsv_list.cpp: one loop that asks for  *)
(* every register it has no value of and writes the file when it has all.  *)
(*                                                                         *)
(* Its handlers are those of module NasaMsgHandler, all of data type Read, *)
(* with initial_read_out at its default.  A packet on the bus is           *)
(* [type, id, val]; the export looks at neither type nor sender.           *)
(***************************************************************************)
EXTENDS NasaMsgHandler, Sequences

CONSTANTS
  Other,       \* a message number the export has no handler for
  InboxBound,  \* bound: packets received between two iterations
  Changes,     \* bound: settings changed at the heat pump
  Losses,      \* bound: packets lost on the bus
  ForeignReads,\* bound: another controller asks for a setting
  Outages      \* bound: the connection to the adapter is lost

ASSUME ExportAssumption ==
  /\ \A m \in Msgs : DataType[m] = "Read"
  /\ InitialReadOut
  /\ Other \notin Msgs
  /\ {InboxBound, Changes, Losses, ForeignReads, Outages} \subseteq Nat

VARIABLES
  handler,   \* message -> its handler
  register,  \* message -> the setting in the heat pump
  held,      \* message -> the settings it had since the start
  bus,       \* requests of the export the heat pump has not seen yet
  inbox,     \* packets received, decoded by the next iteration
  linked,    \* the connection to the adapter delivers
  file,      \* fsv_list.csv, None before it is written
  budget     \* what is left of the bounds above

vars == <<handler, register, held, bus, inbox, linked, file, budget>>

Packet(type, m, v) == [type |-> type, id |-> m, val |-> v]

-----------------------------------------------------------------------------
(* The variants named Bug_... are what a mistake in the code would make of *)
(* the definition that follows them; only the mutation checks use them.    *)

(* updateValue for the messages of one batch: the last one of each counts. *)
Updated(hs, batch) ==
  [m \in Msgs |->
     LET own == {i \in DOMAIN batch : batch[i].id = m}
         latest == CHOOSE i \in own : \A j \in own : j <= i
     IN IF own = {} THEN hs[m] ELSE UpdateValue(hs[m], batch[latest].val)]

(* hasVal.                                                                 *)
HasVal(h) == h.is # IntMax

Bug_AnyValue(hs) == \E m \in Msgs : HasVal(hs[m])

HaveAllValues(hs) == \A m \in Msgs : HasVal(hs[m])

(* The packets of one iteration: what getPacket gives for each message     *)
(* without a value, and only after something was decoded.                  *)
Bug_AsksForAll(hs, batch) ==
  IF batch = <<>> THEN {} ELSE {Packet("Read", m, 1) : m \in Msgs}

Bug_AsksAtFirst(hs, batch) ==
  IF batch = <<>> \/ \E m \in Msgs : HasVal(hs[m]) THEN {}
  ELSE {Packet("Read", m, 1) : m \in Msgs}

PktsTx(hs, batch) ==
  IF batch = <<>> THEN {}
  ELSE {Packet(PacketOf(m, hs[m]).type, m, PacketOf(m, hs[m]).val) :
          m \in {x \in Msgs : ~HasVal(hs[x]) /\ PacketOf(x, hs[x]) # None}}

Rows(hs) == [m \in Msgs |-> hs[m].is]

(* One iteration of the loop, and the file after the last one.             *)
Iterate ==
  /\ file = None
  /\ LET hs == Updated(handler, inbox)
     IN /\ handler' = [m \in Msgs |-> IF HasVal(hs[m]) THEN hs[m]
                                      ELSE AfterGetPacket(m, hs[m])]
        /\ bus' = IF linked THEN bus \cup PktsTx(hs, inbox) ELSE bus
        /\ file' = IF HaveAllValues(hs) THEN Rows(hs) ELSE None
  /\ inbox' = <<>>
  /\ UNCHANGED <<register, held, linked, budget>>

-----------------------------------------------------------------------------
(* The bus.                                                                *)

Arrives(p) ==
  IF linked /\ file = None
  THEN Len(inbox) < InboxBound /\ inbox' = Append(inbox, p)
  ELSE UNCHANGED inbox

(* The heat pump answers a request with the setting it has then.           *)
Answer(p) ==
  /\ p \in bus
  /\ bus' = bus \ {p}
  /\ Arrives(Packet("Response", p.id, register[p.id]))
  /\ UNCHANGED <<handler, register, held, linked, file, budget>>

(* A request or its answer is lost.                                        *)
Lose(p) ==
  /\ p \in bus
  /\ budget.losses > 0
  /\ bus' = bus \ {p}
  /\ budget' = [budget EXCEPT !.losses = @ - 1]
  /\ UNCHANGED <<handler, register, held, inbox, linked, file>>

(* Traffic the export has no handler for.                                  *)
Traffic ==
  /\ \A i \in DOMAIN inbox : inbox[i].id # Other
  /\ Arrives(Packet("Notification", Other, 1))
  /\ UNCHANGED <<handler, register, held, bus, linked, file, budget>>

(* Another controller reads a setting; its packet carries the value 1.     *)
ForeignRead(m) ==
  /\ budget.foreign > 0
  /\ Arrives(Packet("Read", m, 1))
  /\ budget' = [budget EXCEPT !.foreign = @ - 1]
  /\ UNCHANGED <<handler, register, held, bus, linked, file>>

(* A setting is changed at the heat pump, which notifies.                  *)
Change(m) ==
  /\ budget.changes > 0
  /\ \E v \in Values \ {register[m]} :
       /\ register' = [register EXCEPT ![m] = v]
       /\ held' = [held EXCEPT ![m] = @ \cup {v}]
       /\ Arrives(Packet("Notification", m, v))
  /\ budget' = [budget EXCEPT !.changes = @ - 1]
  /\ UNCHANGED <<handler, bus, linked, file>>

(* The adapter goes away.  TcpClient connects again only when it is forced *)
(* to, which this program never does.                                      *)
Outage ==
  /\ linked
  /\ budget.outages > 0
  /\ linked' = FALSE
  /\ budget' = [budget EXCEPT !.outages = @ - 1]
  /\ UNCHANGED <<handler, register, held, bus, inbox, file>>

-----------------------------------------------------------------------------
Init ==
  /\ handler = [m \in Msgs |-> FreshHandler]
  /\ register \in [Msgs -> Values]
  /\ held = [m \in Msgs |-> {register[m]}]
  /\ bus = {}
  /\ inbox = <<>>
  /\ linked = TRUE
  /\ file = None
  /\ budget = [changes |-> Changes, losses |-> Losses,
               foreign |-> ForeignReads, outages |-> Outages]

Next ==
  \/ Iterate
  \/ \E p \in bus : Answer(p) \/ Lose(p)
  \/ Traffic \/ Outage
  \/ \E m \in Msgs : ForeignRead(m) \/ Change(m)

(* The loop goes on, the bus is never silent for ever, and every request   *)
(* that is not lost is answered.                                           *)
Fairness ==
  /\ WF_vars(Iterate) /\ SF_vars(Traffic)
  /\ \A m \in Msgs : SF_vars(\E p \in bus : p.id = m /\ Answer(p))

Spec == Init /\ [][Next]_vars /\ Fairness

-----------------------------------------------------------------------------
(* Properties.                                                             *)

(* APPS.md:77, "only sends *read* requests and never changes a setting": on*)
(* every path through getPacket, after lost answers too; and a setting     *)
(* that has arrived is not asked for again.                                *)
OnlyReads ==
  [][\A p \in bus' \ bus : p.type = "Read" /\ ~HasVal(handler'[p.id])]_vars

(* APPS.md:76, the file holds "all field setting values": complete, and    *)
(* each one a setting the heat pump had since the start, whatever was      *)
(* lost, asked twice or changed meanwhile.  The export does not look at    *)
(* the type of a packet, so this needs that no other controller asked.     *)
FileHeld ==
  (file # None /\ budget.foreign = ForeignReads) =>
    \A m \in Msgs : file[m] \in held[m]

(* APPS.md:77, "exits when every value has been received": while the       *)
(* connection lasts the file is written, as long as something is heard on  *)
(* the bus from time to time.                                              *)
FileWritten == []linked => <>(file # None)

=============================================================================
