---------------------------- MODULE MCFsvExport ----------------------------
(* Two field settings.                                                     *)
EXTENDS FsvExport

CONSTANTS hours, minutes

MCDataType == [m \in Msgs |-> "Read"]
MCKind == [m \in Msgs |-> "number"]
MCOptions == [m \in Msgs |-> {}]
=============================================================================
