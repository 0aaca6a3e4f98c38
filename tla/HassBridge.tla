----------------------------- MODULE HassBridge -----------------------------
(***************************************************************************)
(* The TCP to Home Assistant bridge: apps/tcp_hass_bridge.cpp with         *)
(* NasaHassBridge, its handlers and the MQTT callback.                     *)
(*                                                                         *)
(* Three threads share the handlers:                                       *)
(*   - the MQTT callback thread stores an arrived command in the inbox     *)
(*     (callback::data, under mtx_data);                                   *)
(*   - the bridge's loop takes the whole inbox and applies one command at  *)
(*     a time under mtx_handler_;                                          *)
(*   - the main thread decodes what the heat pump sent, publishes every    *)
(*     message of it under mtx_handler_, then collects the packets to send *)
(*     in one pass under mtx_handler_ and sends them.                      *)
(* An action is one critical section.  The heat pump, the user and the     *)
(* restart of the container are the environment.                           *)
(***************************************************************************)
EXTENDS NasaMsgHandler, Sequences, FiniteSets

CONSTANTS
  ReadOnly,          \* configuration switch read_only
  InboxBound,        \* bound: commands waiting in the inbox
  BusBound,          \* bound: the heat pump reports while less is on the bus
  AnswerLag,         \* bound: rounds the heat pump may leave unanswered
  MaxCommands,       \* bound: commands the user gives
  MaxChanges,        \* bound: changes at the heat pump's own panel
  MaxFaults          \* bound: losses on the bus and restarts of the bridge

ASSUME BridgeAssumption ==
  /\ ReadOnly \in BOOLEAN
  /\ InboxBound \in Nat \ {0}
  /\ BusBound \in Nat \ {0}
  /\ AnswerLag \in Nat \ {0}
  /\ MaxCommands \in Nat
  /\ MaxChanges \in Nat
  /\ MaxFaults \in Nat

VARIABLES
  handler,     \* msgnr_handler_: message -> its handler
  inbox,       \* callback::data: commands that arrived
  batch,       \* recv_msgs of the bridge's loop: commands taken, not yet applied
  pc,          \* main thread: "idle" or "round" (between decode and send)
  rx,          \* pkts_rx: decoded packets whose messages are still to publish
  published,   \* message -> last payload on its state topic, None before any
  toPump,      \* rounds of packets on their way to the heat pump
  fromPump,    \* packets of the heat pump not yet decoded
  pump,        \* message -> the register in the heat pump
  budget,      \* what is left of the environment's bounds
  cmd,         \* history: message -> last value asked for since the start
  sends        \* history: message -> writes sent since that command

bridgeVars == <<handler, inbox, batch, pc, rx>>
envVars == <<published, toPump, fromPump, pump>>
vars == <<handler, inbox, batch, pc, rx, published, toPump, fromPump, pump,
          budget, cmd, sends>>

(* A user command: a payload on the command topic of a message.            *)
Commands == UNION {{[msg |-> m, payload |-> p] : p \in Payloads(m)} : m \in Msgs}

(* A packet of the heat pump: the value it carries for each message, None  *)
(* for a message it does not carry.  A packet of all None is traffic the   *)
(* bridge has no handler for.                                              *)
Reports == [Msgs -> Values \cup {None}]

(* What one call of getNasaPackets collects, one entry per handler.        *)
Rounds == [Msgs -> BusPackets \cup {None}]

Empty(f) == \A m \in Msgs : f[m] = None

(* The writes of one command are counted up to one more than it may have.  *)
SendsBound == RetryLimit + 2

-----------------------------------------------------------------------------
(* addMsg has made a handler for every listed number (the first one when a *)
(* number is listed twice), with a command topic for what is commandable;  *)
(* the discovery messages it publishes are data of the configuration.      *)
Init ==
  /\ handler = [m \in Msgs |-> FreshHandler]
  /\ inbox = <<>>
  /\ batch = <<>>
  /\ pc = "idle"
  /\ rx = <<>>
  /\ published = [m \in Msgs |-> None]
  /\ toPump = <<>>
  /\ fromPump = <<>>
  /\ pump \in [Msgs -> Values]
  /\ budget = [commands |-> MaxCommands, changes |-> MaxChanges,
               faults |-> MaxFaults]
  /\ cmd = [m \in Msgs |-> None]
  /\ sends = [m \in Msgs |-> 0]

Spend(what) ==
  /\ budget[what] > 0
  /\ budget' = [budget EXCEPT ![what] = @ - 1]

-----------------------------------------------------------------------------
(* The MQTT callback thread: message_arrived for a command of the user.    *)
UserCommand ==
  \E c \in Commands :
    /\ Len(inbox) < InboxBound
    /\ Spend("commands")
    /\ inbox' = Append(inbox, c)
    /\ UNCHANGED <<handler, batch, pc, rx, envVars, cmd, sends>>

Bug_LastFirst ==
  /\ batch = <<>>
  /\ inbox # <<>>
  /\ batch' = [i \in 1 .. Len(inbox) |-> inbox[Len(inbox) + 1 - i]]
  /\ inbox' = <<>>
  /\ UNCHANGED <<handler, pc, rx, envVars, budget, cmd, sends>>

(* The bridge's loop: getData swaps the inbox out.                         *)
TakeInbox ==
  /\ batch = <<>>
  /\ inbox # <<>>
  /\ batch' = inbox
  /\ inbox' = <<>>
  /\ UNCHANGED <<handler, pc, rx, envVars, budget, cmd, sends>>

(* The bridge's loop: one command under mtx_handler_.                      *)
ApplyCommand ==
  /\ batch # <<>>
  /\ LET m == Head(batch).msg
         p == Head(batch).payload
         taken == Asked(m, p) # IntMax
     IN  /\ handler' = [handler EXCEPT ![m] = UpdateValueNew(m, @, p)]
         /\ cmd' = IF taken THEN [cmd EXCEPT ![m] = Asked(m, p)] ELSE cmd
         /\ sends' = IF taken THEN [sends EXCEPT ![m] = 0] ELSE sends
  /\ batch' = Tail(batch)
  /\ UNCHANGED <<inbox, pc, rx, envVars, budget>>

-----------------------------------------------------------------------------
(* The main thread: getRecvData and decode return the first n packets that *)
(* wait.  The loop body does nothing when there is none.                   *)
Receive ==
  /\ pc = "idle"
  /\ Len(toPump) < AnswerLag
  /\ \E n \in 1 .. Len(fromPump) :
       /\ rx' = SubSeq(fromPump, 1, n)
       /\ fromPump' = SubSeq(fromPump, n + 1, Len(fromPump))
  /\ pc' = "round"
  /\ UNCHANGED <<handler, inbox, batch, published, toPump, pump, budget, cmd,
                 sends>>

(* What publishToHass puts on the state topic.                             *)
Bug_OptimisticState(m, h) == MqttPayload(m, IF h.new = IntMax THEN h.is ELSE h.new)
StatePayload(m, h) == MqttPayload(m, h.is)

(* The main thread: publishToHass for a message of the packet at hand,     *)
(* update and publish in one critical section.                             *)
PublishToHass ==
  /\ rx # <<>>
  /\ \E m \in Msgs :
       /\ Head(rx)[m] # None
       /\ LET h == UpdateValue(handler[m], Head(rx)[m])
          IN  /\ handler' = [handler EXCEPT ![m] = h]
              /\ published' = [published EXCEPT ![m] = StatePayload(m, h)]
       /\ rx' = [rx EXCEPT ![1] = [@ EXCEPT ![m] = None]]
  /\ UNCHANGED <<inbox, batch, pc, toPump, fromPump, pump, budget, cmd, sends>>

(* The main thread: on to the next packet.                                 *)
NextPacket ==
  /\ rx # <<>>
  /\ Empty(Head(rx))
  /\ rx' = Tail(rx)
  /\ UNCHANGED <<handler, inbox, batch, pc, envVars, budget, cmd, sends>>

(* getNasaPackets: every handler's packet, under one lock.                 *)
GetNasaPackets == [m \in Msgs |-> PacketOf(m, handler[m])]

(* The main thread: getNasaPackets and send, skipped when read_only.       *)
MaySend == ~ReadOnly

SendRound ==
  /\ pc = "round"
  /\ rx = <<>>
  /\ MaySend
  /\ handler' = [m \in Msgs |-> AfterGetPacket(m, handler[m])]
  /\ toPump' = IF Empty(GetNasaPackets) THEN toPump
                                        ELSE Append(toPump, GetNasaPackets)
  /\ sends' = [m \in Msgs |-> IF Sends(m, handler[m]) /\ sends[m] < SendsBound
                              THEN sends[m] + 1 ELSE sends[m]]
  /\ pc' = "idle"
  /\ UNCHANGED <<inbox, batch, rx, published, fromPump, pump, budget, cmd>>

SkipRound ==
  /\ pc = "round"
  /\ rx = <<>>
  /\ ~MaySend
  /\ pc' = "idle"
  /\ UNCHANGED <<handler, inbox, batch, rx, envVars, budget, cmd, sends>>

EndRound == IF MaySend THEN SendRound ELSE SkipRound

-----------------------------------------------------------------------------
(* The heat pump (external): it takes the packets of a round it heard,     *)
(* sets or reads their registers and answers with their values.            *)
HeatPump(round, heard) ==
  [m \in Msgs |-> IF m \in heard /\ round[m] # None /\ round[m].type # "Read"
                  THEN round[m].val ELSE pump[m]]

Answer(round, heard) ==
  [m \in Msgs |-> IF m \in heard /\ round[m] # None
                  THEN HeatPump(round, heard)[m] ELSE None]

PumpAnswers ==
  /\ toPump # <<>>
  /\ LET round == Head(toPump)
     IN  /\ pump' = HeatPump(round, Msgs)
         /\ fromPump' = Append(fromPump, Answer(round, Msgs))
  /\ toPump' = Tail(toPump)
  /\ UNCHANGED <<bridgeVars, published, budget, cmd, sends>>

(* The bus loses packets of a round, all of them or some.                  *)
LosePackets ==
  /\ toPump # <<>>
  /\ Spend("faults")
  /\ \E heard \in (SUBSET Msgs) \ {Msgs} :
       LET round == Head(toPump)
       IN  /\ pump' = HeatPump(round, heard)
           /\ fromPump' = IF Empty(Answer(round, heard)) THEN fromPump
                          ELSE Append(fromPump, Answer(round, heard))
  /\ toPump' = Tail(toPump)
  /\ UNCHANGED <<bridgeVars, published, cmd, sends>>

(* The bus loses the oldest packet of the heat pump.                       *)
LoseReport ==
  /\ fromPump # <<>>
  /\ Spend("faults")
  /\ fromPump' = Tail(fromPump)
  /\ UNCHANGED <<bridgeVars, published, toPump, pump, cmd, sends>>

(* The heat pump sends continuously: a packet with some of its registers,  *)
(* or with messages the bridge does not handle.                            *)
Notify(reported) ==
  /\ Len(toPump) + Len(fromPump) < BusBound
  /\ fromPump' = Append(fromPump, [m \in Msgs |-> IF m \in reported THEN pump[m]
                                                                    ELSE None])
  /\ UNCHANGED <<bridgeVars, published, toPump, pump, budget, cmd, sends>>

PumpNotifies == \E reported \in SUBSET Msgs : Notify(reported)

(* A register changes at the heat pump's own control panel.                *)
PanelChange ==
  /\ Spend("changes")
  /\ \E m \in Msgs : \E v \in Values \ {pump[m]} : pump' = [pump EXCEPT ![m] = v]
  /\ UNCHANGED <<bridgeVars, published, toPump, fromPump, cmd, sends>>

(* The container restarts the program: every variable of the process       *)
(* starts again, the broker, the bus and the heat pump keep theirs.        *)
Restart ==
  /\ Spend("faults")
  /\ handler' = [m \in Msgs |-> FreshHandler]
  /\ inbox' = <<>>
  /\ batch' = <<>>
  /\ pc' = "idle"
  /\ rx' = <<>>
  /\ cmd' = [m \in Msgs |-> None]
  /\ sends' = [m \in Msgs |-> 0]
  /\ UNCHANGED <<envVars>>

Main == Receive \/ PublishToHass \/ NextPacket \/ EndRound

Loop == TakeInbox \/ ApplyCommand

Environment ==
  \/ UserCommand \/ PumpAnswers \/ LosePackets \/ LoseReport \/ PumpNotifies
  \/ PanelChange \/ Restart

Next == Main \/ Loop \/ Environment

Spec == Init /\ [][Next]_vars

(* The program's two threads keep running, the heat pump handles what      *)
(* reaches it and keeps reporting every register.  Losses are bounded, the *)
(* user, the panel and the restarts are not fair at all.                   *)
Fairness ==
  /\ WF_vars(Main)
  /\ WF_vars(Loop)
  /\ SF_vars(PumpAnswers)
  /\ SF_vars(Notify(Msgs))

FairSpec == Spec /\ Fairness

-----------------------------------------------------------------------------
(* Properties.                                                             *)

(* The variables hold what the program can hold: the sentinel INT_MAX is   *)
(* in no packet, and the retry counter passes its limit by one at most.    *)
TypeOK ==
  /\ handler \in [Msgs -> Handlers]
  /\ inbox \in Seq(Commands)
  /\ batch \in Seq(Commands)
  /\ pc \in {"idle", "round"}
  /\ rx \in Seq(Reports)
  /\ published \in [Msgs -> Values \cup {None, NoPayload}]
  /\ toPump \in Seq(Rounds)
  /\ fromPump \in Seq(Reports)
  /\ pump \in [Msgs -> Values]
  /\ budget \in [{"commands", "changes", "faults"} -> Nat]
  /\ cmd \in [Msgs -> Values \cup {None}]
  /\ sends \in [Msgs -> 0 .. SendsBound]

Packets(m) == {toPump[i][m] : i \in 1 .. Len(toPump)} \ {None}

(* The switches of the configuration hold on the wire (APPS.md, common     *)
(* options): with read_only nothing is under way to the heat pump, with    *)
(* disable_write_send no write of a setting is, whatever the user asked.   *)
SwitchesHonoured ==
  /\ ReadOnly => toPump = <<>>
  /\ DisableWriteSend => \A m \in Msgs : \A p \in Packets(m) : p.type # "Write"

(* What the bridge is about to write is what the user asked for last: a    *)
(* register nobody asked to change is never written, not even after lost   *)
(* reports, a change at the panel or a restart.  Only a command that was   *)
(* sent RetryLimit + 1 times, or rejected, leaves another value behind.    *)
PendingIsLastCommand ==
  \A m \in Msgs : Pending(m, handler[m]) =>
    /\ cmd[m] # None
    /\ \/ handler[m].new = cmd[m]
       \/ sends[m] > RetryLimit
       \/ Rejected(m, handler[m])

(* Why PendingIsLastCommand holds: a value to write stands only where a    *)
(* command was given, it is that command's unless the command was given up *)
(* or rejected, and the retry counter never runs ahead of the writes sent  *)
(* for that command.                                                       *)
CommandInv ==
  \A m \in Msgs :
    /\ handler[m].new # IntMax => cmd[m] # None
    /\ \/ handler[m].new \in {IntMax, cmd[m]}
       \/ sends[m] > RetryLimit
       \/ Rejected(m, handler[m])
    /\ handler[m].ctr <= sends[m]

(* The state topic never runs ahead of the heat pump: it shows the last    *)
(* value the bridge was told, not a command that is still to be confirmed. *)
StateTopicIsLastReport ==
  \A m \in Msgs : handler[m].is # IntMax =>
                     published[m] = MqttPayload(m, handler[m].is)

(* A command stops being pending only when the heat pump reports its       *)
(* value, a later command or a restart replaces it, the configuration      *)
(* rejects it, or it was sent RetryLimit + 1 times: a retry counter left   *)
(* over from an earlier command never cuts it short.                       *)
NoEarlyGiveUp ==
  [][\A m \in Msgs :
       Pending(m, handler[m]) /\ ~Pending(m, handler'[m]) =>
         \/ handler'[m].is = handler[m].new
         \/ ApplyCommand
         \/ Restart
         \/ Rejected(m, handler[m])
         \/ sends[m] > RetryLimit]_vars

(* Once the user and the panel leave the registers alone the bridge stops  *)
(* writing: no command stays pending, none comes back for ever.            *)
Quiescence == <>[](\A m \in Msgs : ~Pending(m, handler[m]))

(* ... and then Home Assistant shows what the heat pump holds.             *)
StateConverges ==
  <>[](\A m \in Msgs : published[m] = MqttPayload(m, pump[m]))

(* One command was given, and nobody used the panel.                       *)
SingleCommand == budget.commands = MaxCommands - 1 /\ budget.changes = MaxChanges

(* APPS.md:37: "Commands received on its command topic are sent to the     *)
(* heat pump": the register ends up with the value asked for, when nothing *)
(* else changes it.  That is said of a single command only, with no change *)
(* at the panel: updateValue cannot tell a report the heat pump sent       *)
(* before it got one command from the answer to the next, and drops a      *)
(* command that takes the previous one back without ever sending it.       *)
SingleCommandPrevails ==
  <>[](SingleCommand => \A m \in Msgs : cmd[m] # None => pump[m] = cmd[m])
=============================================================================
