------------------------------ MODULE MCWebPage ------------------------------
(* A number and a state, one sensor of the custom chart, four views.       *)
EXTENDS WebPage

OneUnit == [x \in Sensors |-> "unit"]
=============================================================================
