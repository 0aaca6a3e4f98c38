--------------------------- MODULE RegisterOrders ---------------------------
(***************************************************************************)
(* What a user may expect of the bridge: every register of the heat pump   *)
(* obeys the orders given for it in the order in which they were given.    *)
(* An order may be lost, or be obeyed several times, but never after a     *)
(* later one was, and no register takes a value that nobody ordered.       *)
(* BridgeOrders shows that HassBridge implements this.                     *)
(***************************************************************************)
EXTENDS Naturals, Sequences

CONSTANTS
  Msgs,       \* the messages, one for each register
  Values,     \* values of a register
  Commands,   \* what a user may send, a record with the field msg
  Wanted,     \* command -> the value it asks for
  Ignored     \* ... or this when it asks for none

VARIABLES
  waiting,    \* commands given and not yet looked at, oldest first
  orders,     \* message -> the orders its register may still obey, oldest first
  held,       \* message -> the value in its register
  past,       \* message -> the values it has held
  panel       \* how often a register may still be changed by hand

vars == <<waiting, orders, held, past, panel>>

Init ==
  /\ waiting = <<>>
  /\ orders = [m \in Msgs |-> <<>>]
  /\ held \in [Msgs -> Values]
  /\ past = [m \in Msgs |-> {held[m]}]
  /\ panel \in Nat

Remember == past' = [m \in Msgs |-> past[m] \cup {held'[m]}]

Give ==
  /\ \E c \in Commands : waiting' = Append(waiting, c)
  /\ UNCHANGED <<orders, held, past, panel>>

Take ==
  /\ waiting # <<>>
  /\ LET c == Head(waiting)
     IN  orders' = IF Wanted[c] = Ignored THEN orders
                   ELSE [orders EXCEPT ![c.msg] = Append(@, Wanted[c])]
  /\ waiting' = Tail(waiting)
  /\ UNCHANGED <<held, past, panel>>

(* A restart: what is not yet looked at is forgotten.                      *)
Forget ==
  /\ waiting' = <<>>
  /\ UNCHANGED <<orders, held, past, panel>>

(* Giving up an order is ordering a value the register held before.        *)
GiveUp ==
  /\ orders' \in [Msgs -> Seq(Values)]
  /\ \A m \in Msgs :
       \/ orders'[m] = orders[m]
       \/ orders[m] # <<>> /\ \E v \in past[m] : orders'[m] = Append(orders[m], v)
  /\ UNCHANGED <<waiting, held, past, panel>>

(* The register takes the value of an order; older ones are over.          *)
Obeys(m) ==
  \E n \in 1 .. Len(orders[m]) :
    held'[m] = orders[m][n] /\ orders'[m] = SubSeq(orders[m], n, Len(orders[m]))

Obey ==
  /\ orders' \in [Msgs -> Seq(Values)]
  /\ held' \in [Msgs -> Values]
  /\ \A m \in Msgs : Obeys(m) \/ (orders'[m] = orders[m] /\ held'[m] = held[m])
  /\ Remember
  /\ UNCHANGED <<waiting, panel>>

ChangeByHand ==
  /\ panel > 0
  /\ panel' = panel - 1
  /\ \E m \in Msgs, v \in Values : held' = [held EXCEPT ![m] = v]
  /\ Remember
  /\ UNCHANGED <<waiting, orders>>

Next == Give \/ Take \/ Forget \/ GiveUp \/ Obey \/ ChangeByHand

Spec == Init /\ [][Next]_vars
=============================================================================
