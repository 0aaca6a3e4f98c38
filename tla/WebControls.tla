----------------------------- MODULE WebControls -----------------------------
(***************************************************************************)
(* The number stepper of the dashboard and the way of its commands:        *)
(* static/js/controls.js, api_command of app.py, build_command and         *)
(* parse_state of entities.py, and the bridge's register behind them.      *)
(*                                                                         *)
(* The page's numbers have at most six decimals (Transform.apply rounds to *)
(* them): they are integers here, in millionths.  A register holds an      *)
(* integer, which the state payload carries.                               *)
(***************************************************************************)
EXTENDS Integers, Sequences

CONSTANTS
  Entities,      \* number entities: their templates, range, step, registers
  None,          \* no value yet, nothing pending
  ReadOnly,      \* configuration switch read_only of the dashboard
  ReportsBound,  \* bound: state messages on their way to the page
  Clicks,        \* bound: clicks
  Failures,      \* bound: command requests that fail
  Reorders       \* bound: requests that overtake an earlier one

Micro == 1000000
Cent == 10000      \* a hundredth, in millionths

(* The shape of a number of the message lists; templates are a factor      *)
(* num/den each, and one may end in "| int", which cuts off and is used    *)
(* where no number is negative.                                            *)
ASSUME ControlsAssumption ==
  /\ \A e \in Entities :
       /\ {e.num, e.den, e.cnum, e.cden, e.step, e.unit} \subseteq Nat \ {0}
       /\ e.toInt \in BOOLEAN
       /\ e.min \in Int /\ e.max \in Int /\ e.min <= e.max
       /\ e.toInt => e.min >= 0
       /\ e.raws \subseteq Int
  /\ ReadOnly \in BOOLEAN
  /\ None \notin [id : Nat, val : Int]
  /\ ReportsBound \in Nat \ {0}
  /\ {Clicks, Failures, Reorders} \subseteq Nat

VARIABLES
  entity,    \* the entity of the stepper
  register,  \* its register in the heat pump
  value,     \* e.value of the page's store
  pending,   \* pendingNumbers: the value shown and the timer of the click
  timers,    \* timers of clicks that have not fired, oldest first
  posts,     \* command requests on their way to the server
  expiries,  \* timers whose click is dropped 15 s after its request
  commands,  \* payloads on their way to the heat pump
  reports,   \* state payloads on their way to the page
  clicked,   \* the number the last click asked for
  early,     \* a report confirmed a click before its timer fired
  budget     \* what is left of the bounds above

vars == <<entity, register, value, pending, timers, posts, expiries,
          commands, reports, clicked, early, budget>>

page == <<value, pending, timers, expiries, clicked, early>>
path == <<posts, commands, reports>>

-----------------------------------------------------------------------------
(* Numbers.                                                                *)

(* round of Python: to the nearest integer, a tie to the even one.         *)
Round(n, d) ==
  LET q == n \div d
      r == n % d
  IN IF 2 * r < d \/ (2 * r = d /\ q % 2 = 0) THEN q ELSE q + 1

(* parse_state: value_tf.apply of the payload.                             *)
Shown(e, raw) == Round(raw * e.num * Micro, e.den)

(* The variants named Bug_... are what a mistake in the code would make of *)
(* the definition that follows them; only the mutation checks use them.    *)

(* build_command: command_tf.apply of the number, then int(round(...)).    *)
Bug_ValueTemplate(e, v) == Round(v * e.num, e.den * Micro)

Payload(e, v) ==
  IF e.toInt THEN (v * e.cnum) \div (e.cden * Micro)
             ELSE Round(v * e.cnum, e.cden * Micro)

(* The numbers of the message lists: range and step lie on a grid of whole *)
(* hundredths, as do the numbers of the registers; one template undoes the *)
(* other, and a unit of the grid is a whole number of the register.        *)
ASSUME GridAssumption ==
  \A e \in Entities :
    /\ e.unit % Cent = 0
    /\ e.min % e.unit = 0 /\ e.max % e.unit = 0 /\ e.step % e.unit = 0
    /\ e.num * e.cnum = e.den * e.cden
    /\ (e.unit * e.cnum) % (e.cden * Micro) = 0
    /\ \A raw \in e.raws : Shown(e, raw) % e.unit = 0

(* The range check of build_command.                                       *)
Accepted(e, v) == e.min <= v /\ v <= e.max

Least(a, b) == IF a < b THEN a ELSE b
Greatest(a, b) == IF a < b THEN b ELSE a

(* The number a click leads to: Math.round(... * 100) / 100, then the      *)
(* range.                                                                  *)
NextNumber(e, current, dir) ==
  LET next == ((current + dir * e.step + Cent \div 2) \div Cent) * Cent
  IN Least(e.max, Greatest(e.min, next))

-----------------------------------------------------------------------------
(* The page.                                                               *)

Current ==
  IF pending # None THEN pending.val ELSE IF value # None THEN value ELSE entity.min

(* widget: a button is disabled at the end of the range; no value counts   *)
(* as 0 there.                                                             *)
Enabled(dir) ==
  LET v == IF pending # None THEN pending.val ELSE IF value # None THEN value ELSE 0
  IN /\ ~ReadOnly
     /\ dir = -1 => v > entity.min
     /\ dir = 1 => v < entity.max

Without(seq, i) == SubSeq(seq, 1, i - 1) \o SubSeq(seq, i + 1, Len(seq))

(* A click on + or -: the timer of the pending click is cleared, its own   *)
(* runs for 700 ms.                                                        *)
Bug_NoClearTimeout == timers

Running ==
  LET own == {i \in DOMAIN timers : pending # None /\ timers[i].id = pending.id}
  IN IF own = {} THEN timers ELSE Without(timers, CHOOSE i \in own : TRUE)

ClickStep(dir) ==
  /\ budget.clicks > 0
  /\ Enabled(dir)
  /\ LET click == [id |-> budget.clicks, val |-> NextNumber(entity, Current, dir)]
     IN /\ pending' = click
        /\ timers' = Append(Running, click)
        /\ clicked' = click.val
  /\ budget' = [budget EXCEPT !.clicks = @ - 1]
  /\ UNCHANGED <<entity, register, value, expiries, early, path>>

(* The timer fires: send.                                                  *)
FireTimer ==
  /\ timers # <<>>
  /\ posts' = Append(posts, Head(timers))
  /\ timers' = Tail(timers)
  /\ UNCHANGED <<entity, register, value, pending, expiries, commands, reports,
                 clicked, early, budget>>

(* 15 s after the request came back, whatever became of it.                *)
Expire(id) ==
  /\ id \in expiries
  /\ expiries' = expiries \ {id}
  /\ pending' = IF pending # None /\ pending.id = id THEN None ELSE pending
  /\ UNCHANGED <<entity, register, value, timers, clicked, early, path, budget>>

(* confirmState: within a millionth, that is equal.                        *)
Confirms(v) == pending # None /\ v = pending.val

Bug_ConfirmClearsTimer ==
  /\ reports # <<>>
  /\ LET v == Shown(entity, Head(reports))
     IN /\ value' = v
        /\ early' = early
        /\ pending' = IF Confirms(v) THEN None ELSE pending
        /\ timers' = IF Confirms(v)
                     THEN SelectSeq(timers, LAMBDA t : t.id # pending.id) ELSE timers
  /\ reports' = Tail(reports)
  /\ UNCHANGED <<entity, register, expiries, posts, commands, clicked, budget>>

(* A state event: the store, then confirmState.                            *)
ReceiveState ==
  /\ reports # <<>>
  /\ LET v == Shown(entity, Head(reports))
     IN /\ value' = v
        /\ pending' = IF Confirms(v) THEN None ELSE pending
        /\ early' = (early \/ (Confirms(v) /\ \E i \in DOMAIN timers : timers[i] = pending))
  /\ reports' = Tail(reports)
  /\ UNCHANGED <<entity, register, timers, expiries, posts, commands, clicked, budget>>

-----------------------------------------------------------------------------
(* The server and what is behind it.                                       *)

(* api_command answers a request; the page's send returns either way.      *)
Answered(i) ==
  /\ posts' = Without(posts, i)
  /\ expiries' = expiries \cup {posts[i].id}

ApiCommand(i) ==
  /\ i \in DOMAIN posts
  /\ i > 1 => budget.reorders > 0
  /\ Answered(i)
  /\ commands' = IF ReadOnly \/ ~Accepted(entity, posts[i].val) THEN commands
                 ELSE Append(commands, Payload(entity, posts[i].val))
  /\ budget' = [budget EXCEPT !.reorders = IF i > 1 THEN @ - 1 ELSE @]
  /\ UNCHANGED <<entity, register, value, pending, timers, reports, clicked, early>>

Bug_FailureForgotten(i) ==
  /\ i \in DOMAIN posts
  /\ budget.failures > 0
  /\ posts' = Without(posts, i)
  /\ budget' = [budget EXCEPT !.failures = @ - 1]
  /\ UNCHANGED <<entity, register, page, commands, reports>>

(* The server does not answer, or has no broker.                           *)
CommandFails(i) ==
  /\ i \in DOMAIN posts
  /\ budget.failures > 0
  /\ Answered(i)
  /\ budget' = [budget EXCEPT !.failures = @ - 1]
  /\ UNCHANGED <<entity, register, value, pending, timers, commands, reports, clicked, early>>

(* The bridge brings a command to the heat pump (module HassBridge).       *)
HeatPumpTakes ==
  /\ commands # <<>>
  /\ register' = Head(commands)
  /\ commands' = Tail(commands)
  /\ UNCHANGED <<entity, page, posts, reports, budget>>

(* The heat pump reports its register, from time to time.                  *)
HeatPumpReports ==
  /\ Len(reports) < ReportsBound
  /\ reports' = Append(reports, register)
  /\ UNCHANGED <<entity, register, page, posts, commands, budget>>

-----------------------------------------------------------------------------
Init ==
  /\ entity \in Entities
  /\ register \in entity.raws
  /\ value \in {None, Shown(entity, register)}
  /\ pending = None /\ clicked = None /\ early = FALSE
  /\ timers = <<>> /\ posts = <<>> /\ commands = <<>> /\ reports = <<>>
  /\ expiries = {}
  /\ budget = [clicks |-> Clicks, failures |-> Failures, reorders |-> Reorders]

Next ==
  \/ \E dir \in {-1, 1} : ClickStep(dir)
  \/ FireTimer \/ ReceiveState
  \/ \E id \in expiries : Expire(id)
  \/ \E i \in DOMAIN posts : ApiCommand(i) \/ CommandFails(i)
  \/ HeatPumpTakes \/ HeatPumpReports

(* Timers fire, requests come back, what is published arrives.             *)
Fairness ==
  /\ WF_vars(FireTimer) /\ WF_vars(ReceiveState)
  /\ WF_vars(\E id \in expiries : Expire(id))
  /\ WF_vars(\E i \in DOMAIN posts : ApiCommand(i))
  /\ WF_vars(HeatPumpTakes) /\ WF_vars(HeatPumpReports)

Spec == Init /\ [][Next]_vars /\ Fairness

-----------------------------------------------------------------------------
(* Properties.                                                             *)

(* A stepper's command is one the server takes, and its payload comes back *)
(* as the very number the page shows as pending, so that confirmState      *)
(* knows it again: through two templates, two roundings and std::stoi, for *)
(* every click from every register on the grid of the entity.              *)
CommandsComeBack ==
  \A i \in DOMAIN posts :
    /\ Accepted(entity, posts[i].val)
    /\ Shown(entity, Payload(entity, posts[i].val)) = posts[i].val

(* controls.js:67, "debounce so several clicks send a single command": no  *)
(* two clicks wait for their timers, unless a report that happened to have *)
(* the pending value made the page forget whose timer to clear.            *)
OneClickWaits == ~early => Len(timers) <= 1

(* controls.js:77, "keep showing the pending value until the bridge        *)
(* confirms it (or 15 s pass)": no pending value stays, whatever fails.    *)
PendingEnds == <>[](pending = None)

(* The register ends up with what the last click showed, though reports of *)
(* earlier values confirm clicks that were never sent, unless a request    *)
(* fails or overtakes another.                                             *)
LastClickWins ==
  [](budget.failures = Failures /\ budget.reorders = Reorders) =>
    <>[](clicked # None => register = Payload(entity, clicked))

=============================================================================
