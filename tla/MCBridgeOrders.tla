--------------------------- MODULE MCBridgeOrders ---------------------------
(* Instances of BridgeOrders for TLC.                                      *)
EXTENDS BridgeOrders, MCHassBridge
=============================================================================
