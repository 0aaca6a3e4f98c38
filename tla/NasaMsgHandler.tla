--------------------------- MODULE NasaMsgHandler ---------------------------
(***************************************************************************)
(* One heat pump register as the bridge sees it: NasaMsgHandler and the    *)
(* MQTT handlers derived from it (number, enum, binary).                   *)
(*                                                                         *)
(* A handler is the record [is, new, ctr] of the members val_is_,          *)
(* val_new_ and retry_ctr_.  INT_MAX, the code's "no value", is the        *)
(* constant IntMax.  This module holds the operators; the state machine    *)
(* of the threads that call them is module HassBridge.                     *)
(***************************************************************************)
EXTENDS Integers

CONSTANTS
  Msgs,              \* the message numbers that have a handler
  DataType,          \* message -> how it was listed: "Read", "Request", "Write"
  Kind,              \* message -> its handler class: "number", "enum", "binary"
  Options,           \* enum message -> the values that have an option name
  Values,            \* values a register of the heat pump can hold
  IntMax,            \* INT_MAX, the "no value" sentinel
  NoPayload,         \* the empty MQTT payload
  Junk,              \* an MQTT payload that names no value
  None,              \* no packet, no report
  RetryLimit,        \* 10 in the code
  DisableWriteSend,  \* configuration switch disable_write_send
  InitialReadOut     \* configuration switch initial_read_out

(* The lists name every register once, with a type; the options of an enum *)
(* are register values, and a register never reads INT_MAX (at most 16     *)
(* bits in every listed enum and variable).                                *)
ASSUME HandlerAssumption ==
  /\ DataType \in [Msgs -> {"Read", "Request", "Write"}]
  /\ Kind \in [Msgs -> {"number", "enum", "binary"}]
  /\ Options \in [Msgs -> SUBSET Values]
  /\ {0, 1} \subseteq Values
  /\ {IntMax, NoPayload, Junk, None} \cap Values = {}
  /\ IntMax # None
  /\ RetryLimit \in Nat
  /\ DisableWriteSend \in BOOLEAN
  /\ InitialReadOut \in BOOLEAN

Known == Values \cup {IntMax}

Handlers == [is : Known, new : Known, ctr : 0 .. RetryLimit + 1]

FreshHandler == [is |-> IntMax, new |-> IntMax, ctr |-> 0]

Commandable(m) == DataType[m] \in {"Request", "Write"}

-----------------------------------------------------------------------------
(* getPacket: the exits of the function, in the order the code tests them. *)

(* The variants named Bug_... are what a mistake in the code would make of *)
(* the definition that follows them; only the mutation checks use them.    *)

NeedsRead(h) == h.is = IntMax /\ InitialReadOut

Bug_NoSentinelTest(m, h) == h.is = h.new \/ DataType[m] = "Read"

Settled(m, h) == h.new = IntMax \/ h.is = h.new \/ DataType[m] = "Read"

Bug_SwitchIgnored(m, h) == FALSE

Rejected(m, h) == DataType[m] = "Write" /\ DisableWriteSend

Bug_NeverExhausted(h) == FALSE
Bug_NoRetry(h) == h.ctr > 0

Exhausted(h) == h.ctr > RetryLimit

(* A command that is still to be sent to the heat pump.                    *)
Pending(m, h) == ~Settled(m, h)

Dropped(m, h) == ~NeedsRead(h) /\ Pending(m, h) /\ (Rejected(m, h) \/ Exhausted(h))

Sends(m, h) == ~NeedsRead(h) /\ Pending(m, h) /\ ~Rejected(m, h) /\ ~Exhausted(h)

(* val_new_.store(val_is_); resetRetryCounter()                            *)
Drop(h) == [is |-> h.is, new |-> h.is, ctr |-> 0]

AfterGetPacket(m, h) ==
  CASE Sends(m, h)   -> [h EXCEPT !.ctr = h.ctr + 1]
    [] Dropped(m, h) -> Drop(h)
    [] OTHER         -> h

(* The packet getPacket pushes, None when it pushes none.  A READ carries  *)
(* the value 1.                                                            *)
BusPackets == [type : {"Read", "Request", "Write"}, val : Values]

PacketOf(m, h) ==
  CASE NeedsRead(h) -> [type |-> "Read", val |-> 1]
    [] Sends(m, h)  -> [type |-> DataType[m], val |-> h.new]
    [] OTHER        -> None

-----------------------------------------------------------------------------
(* updateValue: a report of the heat pump.  The message number matches and *)
(* no listed message is a structure, so val_is_ always takes the value.    *)

UpdateValue(h, v) ==
  [is |-> v, new |-> IF h.new = v THEN IntMax ELSE h.new, ctr |-> h.ctr]

-----------------------------------------------------------------------------
(* updateValueNew: a payload of the command topic.                         *)

Payloads(m) == IF Kind[m] = "number" THEN Values ELSE Values \cup {Junk}

(* The register value the payload asks for, IntMax when it is ignored.     *)
Asked(m, p) ==
  CASE Kind[m] = "number" -> IF Commandable(m) THEN p ELSE IntMax
    [] Kind[m] = "enum"   -> IF p \in Options[m] THEN p ELSE IntMax
    [] Kind[m] = "binary" -> IF p = 1 THEN 1 ELSE 0

Bug_KeepsCounter(m, h, p) ==
  IF Asked(m, p) = IntMax THEN h ELSE [h EXCEPT !.new = Asked(m, p)]

(* updateValueNew and the resetRetryCounter the bridge's loop calls after  *)
(* it, also when the payload was ignored.                                  *)
UpdateValueNew(m, h, p) ==
  IF Asked(m, p) = IntMax THEN [h EXCEPT !.ctr = 0]
                          ELSE [is |-> h.is, new |-> Asked(m, p), ctr |-> 0]

-----------------------------------------------------------------------------
(* getMqttPayload: what is published on the state topic for a value.       *)
MqttPayload(m, v) ==
  CASE Kind[m] = "number" -> IF v = IntMax THEN NoPayload ELSE v
    [] Kind[m] = "enum"   -> IF v \in Options[m] THEN v ELSE NoPayload
    [] Kind[m] = "binary" -> IF v = 0 THEN 0 ELSE 1
=============================================================================
