----------------------------- MODULE MCWebFigures -----------------------------
(* A window that starts with the first samples and one that cuts them at   *)
(* both ends; a clock that is right and one that is behind.                *)
EXTENDS WebFigures

MCWindows == {[start |-> 0, end |-> Horizon], [start |-> 2, end |-> Horizon - 2]}
=============================================================================
