---------------------------- MODULE MCHassBridge ----------------------------
(* Instances of HassBridge for TLC.                                        *)
EXTENDS HassBridge

CONSTANTS
  zone, fsv, mode    \* message numbers: a request, a write, a binary request

MCDataType ==
  [m \in Msgs |-> CASE m = zone -> "Request" [] m = fsv -> "Write" [] OTHER -> "Request"]
MCKind ==
  [m \in Msgs |-> CASE m = zone -> "number" [] m = fsv -> "enum" [] OTHER -> "binary"]
MCOptions == [m \in Msgs |-> IF m = fsv THEN Values \ {2} ELSE {}]
=============================================================================
