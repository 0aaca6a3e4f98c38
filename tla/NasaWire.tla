------------------------------ MODULE NasaWire ------------------------------
(***************************************************************************)
(* What a packet of the bridge looks like on the bus: Command and          *)
(* MessageSet of nasa_protocol_types, and the way of a written value to    *)
(* the heat pump and back into the handler's val_is_.                      *)
(*                                                                         *)
(* Bytes are 0 .. 255 and the bit operations of the code are \div and %.   *)
(* The frame around it (sizes, addresses, CRC) is module FrameDecoder.     *)
(***************************************************************************)
EXTENDS Integers, Sequences

CONSTANTS
  RetryCounts,    \* retry counts getPacket puts into a packet
  PacketNumbers,  \* bound: values of the packet counter that are looked at
  RegisterValues  \* message number -> values that register holds

VARIABLES
  phase,          \* "idle", "created", "sent", "heard"
  pkt,            \* the packet: a command, a message set type and a value
  wire,           \* its bytes on the bus
  heard,          \* the command the heat pump decoded
  val_is          \* the handler's value after the heat pump reported it

wireVars == <<phase, pkt, wire, heard, val_is>>

ByteValues == 0 .. 255

(* getMessageSetType: bits 9 and 10 of the message number.                 *)
MessageSetType(number) ==
  <<"Enum", "Variable", "LongVariable", "Structure">>[((number \div 512) % 4) + 1]

(* v >> 8 *)
Shift(v) == v \div 256

(* A byte in the top place of a signed number: 128 and above are negative. *)
TopByte(b) == IF b >= 128 THEN b - 256 ELSE b

(* The values a register of each type can report: an enum is one unsigned  *)
(* byte, a variable a short, a long variable an int.                       *)
Width == [Enum         |-> 0 .. 255,
          Variable     |-> {v \in Int : Shift(v) \in -128 .. 127},
          LongVariable |-> {v \in Int : Shift(Shift(Shift(v))) \in -128 .. 127}]

(* No listed register is a structure.                                      *)
ASSUME WireAssumption ==
  /\ RetryCounts \subseteq Nat
  /\ PacketNumbers \subseteq ByteValues
  /\ DOMAIN RegisterValues \subseteq 0 .. 256 * 256 - 1
  /\ \A n \in DOMAIN RegisterValues :
       /\ MessageSetType(n) \in DOMAIN Width
       /\ RegisterValues[n] \subseteq Width[MessageSetType(n)]

(* PacketType::Normal, DataType::Read, Write and Request.                  *)
Normal == 1
DataTypes == 1 .. 3

Commands == [packet_information : {0, 1}, protocol_version : 0 .. 3,
             retry_count : Nat, packet_type : 0 .. 15, data_type : 0 .. 15,
             packet_number : ByteValues]

-----------------------------------------------------------------------------
Bug_RetryShift(c) ==
  <<(c.packet_information * 128 + c.protocol_version * 32 + c.retry_count * 16) % 256,
    (c.packet_type * 16 + c.data_type) % 256, c.packet_number>>

(* Command::encode: the fields are added, the sum is cut to a byte.        *)
CommandEncode(c) ==
  <<(c.packet_information * 128 + c.protocol_version * 32 + c.retry_count * 8) % 256,
    (c.packet_type * 16 + c.data_type) % 256,
    c.packet_number>>

(* Command::decode *)
CommandDecode(b) ==
  [packet_information |-> b[1] \div 128,
   protocol_version   |-> (b[1] \div 32) % 4,
   retry_count        |-> (b[1] \div 8) % 4,
   packet_type        |-> b[2] \div 16,
   data_type          |-> b[2] % 16,
   packet_number      |-> b[3]]

(* The value bytes of MessageSet::encode.                                  *)
ValueEncode(type, v) ==
  CASE type = "Enum"         -> <<v % 256>>
    [] type = "Variable"     -> <<Shift(v) % 256, v % 256>>
    [] type = "LongVariable" -> <<Shift(Shift(Shift(v))) % 256, Shift(Shift(v)) % 256,
                                  Shift(v) % 256, v % 256>>

(* The value of MessageSet::decode: a long variable fills an int, a        *)
(* variable comes out unsigned.                                            *)
ValueDecode(type, b) ==
  CASE type = "Enum"         -> b[1]
    [] type = "Variable"     -> b[1] * 256 + b[2]
    [] type = "LongVariable" ->
         ((TopByte(b[1]) * 256 + b[2]) * 256 + b[3]) * 256 + b[4]

Bug_NoShortCast(type, v) == v

(* The conversion of NasaMsgHandler::updateValue: a Variable is cut to a   *)
(* short, the other types keep the decoded value.                          *)
HandlerValue(type, v) ==
  IF type = "Variable" THEN TopByte(Shift(v)) * 256 + (v % 256) ELSE v

-----------------------------------------------------------------------------
NoCommand == [packet_information |-> 0, protocol_version |-> 0, retry_count |-> 0,
              packet_type |-> 0, data_type |-> 0, packet_number |-> 0]

WireInit ==
  /\ phase = "idle"
  /\ pkt = [command |-> NoCommand, type |-> "Enum", value |-> 0]
  /\ wire = [command |-> CommandEncode(NoCommand), value |-> <<0>>]
  /\ heard = NoCommand
  /\ val_is = 0

(* Packet::createToBroadcastSelf and the retry count of getPacket.         *)
Create ==
  /\ phase = "idle"
  /\ \E d \in DataTypes, n \in PacketNumbers, r \in RetryCounts,
        number \in DOMAIN RegisterValues :
       \E v \in RegisterValues[number] :
         pkt' = [command |-> [packet_information |-> 1, protocol_version |-> 2,
                              retry_count |-> r, packet_type |-> Normal,
                              data_type |-> d, packet_number |-> n],
                 type |-> MessageSetType(number), value |-> v]
  /\ phase' = "created"
  /\ UNCHANGED <<wire, heard, val_is>>

(* Packet::encode, called by NasaProtocol::encode.                         *)
Encode ==
  /\ phase = "created"
  /\ wire' = [command |-> CommandEncode(pkt.command),
              value |-> ValueEncode(pkt.type, pkt.value)]
  /\ phase' = "sent"
  /\ UNCHANGED <<pkt, heard, val_is>>

(* The heat pump reads the header and takes the value (external; it reads  *)
(* the fields where Command::decode reads them in its own packets).        *)
Hear ==
  /\ phase = "sent"
  /\ heard' = CommandDecode(wire.command)
  /\ phase' = "heard"
  /\ UNCHANGED <<pkt, wire, val_is>>

(* It reports the register's bytes; Packet::decode and updateValue.        *)
Report ==
  /\ phase = "heard"
  /\ val_is' = HandlerValue(pkt.type, ValueDecode(pkt.type, wire.value))
  /\ phase' = "idle"
  /\ UNCHANGED <<pkt, wire, heard>>

WireNext == Create \/ Encode \/ Hear \/ Report

WireSpec == WireInit /\ [][WireNext]_wireVars

-----------------------------------------------------------------------------
(* The header the bridge builds is the header the heat pump reads: packet  *)
(* information set, protocol version 2, its data type and retry count      *)
(* (test_nasa_protocol.cpp:15-18, 30-33 and 45-48 expect these fields of a *)
(* read, a write and a request).  Eleven tries count up to 10 in a field   *)
(* of two bits, so this holds of the first four only.                      *)
HeaderSurvives == phase = "heard" => heard = pkt.command

(* A register that took the written value confirms it: what it reports is  *)
(* the value getPacket wrote, for every width and sign, so updateValue can *)
(* compare the two.                                                        *)
EchoConfirms == [][Report => val_is' = pkt.value]_wireVars
=============================================================================
