---------------------------- MODULE MCWebControls ----------------------------
(* Four numbers of the message lists: one in tenths, one in minutes shown  *)
(* as hours, one in steps of ten minutes, one around zero; registers at    *)
(* both ends of their range, within it and, for the first, between two     *)
(* steps and out of range.                                                 *)
EXTENDS WebControls

Numbers == {
  [num |-> 1, den |-> 10, cnum |-> 10, cden |-> 1, toInt |-> FALSE,
   min |-> 30 * Micro, max |-> 63 * Micro, step |-> Micro,
   unit |-> Micro \div 10, raws |-> {290, 300, 455, 625}],
  [num |-> 1, den |-> 60, cnum |-> 60, cden |-> 1, toInt |-> FALSE,
   min |-> Micro \div 2, max |-> 10 * Micro, step |-> Micro \div 2,
   unit |-> Micro \div 2, raws |-> {60, 570, 600}],
  [num |-> 10, den |-> 1, cnum |-> 1, cden |-> 10, toInt |-> TRUE,
   min |-> 60 * Micro, max |-> 240 * Micro, step |-> 30 * Micro,
   unit |-> 10 * Micro, raws |-> {6, 9, 24}],
  [num |-> 1, den |-> 10, cnum |-> 10, cden |-> 1, toInt |-> FALSE,
   min |-> -(5 * Micro), max |-> 5 * Micro, step |-> Micro \div 2,
   unit |-> Micro \div 10, raws |-> {-50, -3, 45}]}
=============================================================================
