----------------------------- MODULE MCNasaWire -----------------------------
(* Instances of NasaWire for TLC: a listed register of each type, with the *)
(* borders of its width.                                                   *)
EXTENDS NasaWire

power == 16384        \* 0x4000, an enum
flowTemp == 16967     \* 0x4247, a variable
energy == 33811       \* 0x8413, a long variable

MCRegisterValues ==
  [n \in {power, flowTemp, energy} |->
     CASE n = power    -> {0, 1, 127, 128, 255}
       [] n = flowTemp -> {-32768, -257, -256, -1, 0, 1, 255, 256, 32767}
       [] n = energy   -> {-2147483647 - 1, -65536, -1, 0, 1, 65535, 16777216, 2147483646}]
=============================================================================
