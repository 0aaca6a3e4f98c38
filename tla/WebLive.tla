------------------------------ MODULE WebLive ------------------------------
(***************************************************************************)
(* The dashboard's live view: the paho thread updates the registry and     *)
(* emits events, the asyncio loop fans them out to the queue of a browser  *)
(* connection, the connection's coroutine sends them, and the page's store *)
(* applies them (mqtt_bridge.py, entities.py Registry, app.py Hub and      *)
(* websocket, static/js/store.js).                                         *)
(*                                                                         *)
(* An entity is two attributes, value and text, that update_state writes   *)
(* and to_dict reads one after the other, in different threads and without *)
(* a common lock.  Connections do not interact: one page is modelled, with *)
(* one connection after another.                                           *)
(***************************************************************************)
EXTENDS Integers, Sequences

CONSTANTS
  Entities,     \* entities the bridge may announce
  Values,       \* states an entity may report
  None,         \* no value yet
  Absent,       \* not in the registry, not on the page
  QueueBound,   \* 1000 in the code
  WireBound,    \* bound: messages in the connection before send waits
  Reports,      \* bound: state messages
  Discoveries,  \* bound: entities announced, also again
  Removals,     \* bound: entities removed
  Flaps,        \* bound: changes of the MQTT connection
  Losses        \* bound: browser connections lost

Attributes == 1 .. 2       \* value, text
Pairs == [Attributes -> Values \cup {None}]

ASSUME LiveAssumption ==
  /\ None \notin Values /\ Absent \notin Pairs
  /\ {QueueBound, WireBound} \subseteq Nat \ {0}
  /\ {Reports, Discoveries, Removals, Flaps, Losses} \subseteq Nat

VARIABLES
  registry,  \* entity -> <<value, text>>, or Absent
  mqtt,      \* MqttBridge.connected
  paho,      \* where the paho thread is in its callback
  calls,     \* callbacks given to call_soon_threadsafe
  queue,     \* the connection's asyncio.Queue
  ws,        \* where the connection's coroutine is
  wire,      \* messages on their way to the page
  page,      \* store.entities and store.status.mqtt
  missed,    \* an event was dropped since the last snapshot
  budget     \* what is left of the bounds above

vars == <<registry, mqtt, paho, calls, queue, ws, wire, page, missed, budget>>

server  == <<registry, mqtt, paho>>
channel == <<calls, queue, ws, wire>>

Blank == <<None, None>>

StateEvent(e, v) == [type |-> "state", id |-> e, val |-> v]
Entered == [type |-> "entities"]
Status == [type |-> "status"]

Idle == [at |-> "idle"]
Emit(event) == [at |-> "emit", event |-> event]

-----------------------------------------------------------------------------
(* A snapshot lists registry.all() at once and then reads the attributes   *)
(* of each entity; todo is what is not read yet.                           *)

Cells(e) == {<<e, i>> : i \in Attributes}

Building ==
  [at   |-> "snap",
   todo |-> UNION {Cells(e) : e \in {x \in Entities : registry[x] # Absent}},
   list |-> [e \in Entities |-> IF registry[e] = Absent THEN Absent ELSE Blank],
   mqtt |-> mqtt]

(* An entity object that upsert or remove takes out of the registry is not *)
(* written again: what a snapshot has still to read of it is settled.      *)
Settle(e) ==
  IF ws.at # "snap" THEN ws
  ELSE [ws EXCEPT !.todo = @ \ Cells(e),
                  !.list[e] = IF @ = Absent THEN Absent
                              ELSE [i \in Attributes |->
                                      IF <<e, i>> \in ws.todo THEN registry[e][i]
                                      ELSE ws.list[e][i]]]

-----------------------------------------------------------------------------
(* The paho thread.                                                        *)

(* The variants named Bug_... are what a mistake in the code would make of *)
(* the definition that follows them; only the mutation checks use them.    *)

Bug_EmitFirst(e, v) ==
  /\ paho = Idle /\ mqtt
  /\ registry[e] # Absent
  /\ budget.reports > 0
  /\ calls' = Append(calls, StateEvent(e, v))
  /\ paho' = [at |-> "value", id |-> e, val |-> v]
  /\ budget' = [budget EXCEPT !.reports = @ - 1]
  /\ UNCHANGED <<registry, mqtt, queue, ws, wire, page, missed>>

(* _handle_state, by_topic found the entity; update_state writes value ... *)
HandleState(e, v) ==
  /\ paho = Idle /\ mqtt
  /\ registry[e] # Absent
  /\ budget.reports > 0
  /\ registry' = [registry EXCEPT ![e] = <<v, @[2]>>]
  /\ paho' = [at |-> "value", id |-> e, val |-> v]
  /\ budget' = [budget EXCEPT !.reports = @ - 1]
  /\ UNCHANGED <<mqtt, channel, page, missed>>

(* ... and text; record follows, see module WebStorage.                    *)
WriteText ==
  /\ paho.at = "value"
  /\ registry' = [registry EXCEPT ![paho.id] = <<@[1], paho.val>>]
  /\ paho' = Emit(StateEvent(paho.id, paho.val))
  /\ UNCHANGED <<mqtt, channel, page, missed, budget>>

(* _handle_discovery of a config: the new object takes over the state of   *)
(* the old one.                                                            *)
HandleDiscovery(e) ==
  /\ paho = Idle /\ mqtt
  /\ budget.discoveries > 0
  /\ registry' = [registry EXCEPT ![e] = IF @ = Absent THEN Blank ELSE @]
  /\ ws' = Settle(e)
  /\ paho' = Emit(Entered)
  /\ budget' = [budget EXCEPT !.discoveries = @ - 1]
  /\ UNCHANGED <<mqtt, calls, queue, wire, page, missed>>

(* _handle_discovery of an empty config.                                   *)
HandleRemoval(e) ==
  /\ paho = Idle /\ mqtt
  /\ registry[e] # Absent
  /\ budget.removals > 0
  /\ registry' = [registry EXCEPT ![e] = Absent]
  /\ ws' = Settle(e)
  /\ paho' = Emit(Entered)
  /\ budget' = [budget EXCEPT !.removals = @ - 1]
  /\ UNCHANGED <<mqtt, calls, queue, wire, page, missed>>

(* _on_connect and _on_disconnect.                                         *)
Flap ==
  /\ paho = Idle
  /\ budget.flaps > 0
  /\ mqtt' = ~mqtt
  /\ paho' = Emit(Status)
  /\ budget' = [budget EXCEPT !.flaps = @ - 1]
  /\ UNCHANGED <<registry, channel, page, missed>>

(* _emit, Hub.publish.                                                     *)
Publish ==
  /\ paho.at = "emit"
  /\ calls' = Append(calls, paho.event)
  /\ paho' = Idle
  /\ UNCHANGED <<registry, mqtt, queue, ws, wire, page, missed, budget>>

-----------------------------------------------------------------------------
(* The asyncio loop.  It runs nothing else while it builds a snapshot.     *)

LoopFree == ws.at # "snap"

(* Hub._fan_out: a full queue loses the new event.                         *)
FanOut ==
  /\ calls # <<>> /\ LoopFree
  /\ calls' = Tail(calls)
  /\ \/ /\ ws.at # "none" /\ Len(queue) < QueueBound
        /\ queue' = Append(queue, Head(calls))
        /\ UNCHANGED missed
     \/ /\ ws.at # "none" /\ Len(queue) >= QueueBound
        /\ missed' = TRUE
        /\ UNCHANGED queue
     \/ /\ ws.at = "none"
        /\ UNCHANGED <<queue, missed>>
  /\ UNCHANGED <<server, ws, wire, page, budget>>

(* store.js opens a WebSocket; websocket() accepts it, registers its queue *)
(* and starts the first snapshot without giving the loop away.             *)
Accept ==
  /\ ws.at = "none"
  /\ queue' = <<>>
  /\ ws' = Building
  /\ missed' = FALSE
  /\ UNCHANGED <<server, calls, wire, page, budget>>

ReadCell ==
  /\ ws.at = "snap"
  /\ \E cell \in ws.todo :
       /\ \A i \in Attributes : <<cell[1], i>> \in ws.todo => cell[2] <= i
       /\ ws' = [ws EXCEPT !.todo = @ \ {cell},
                           !.list[cell[1]][cell[2]] = registry[cell[1]][cell[2]]]
  /\ UNCHANGED <<server, calls, queue, wire, page, missed, budget>>

SnapshotDone ==
  /\ ws.at = "snap" /\ ws.todo = {}
  /\ ws' = [at |-> "send",
            msg |-> [type |-> "snapshot", list |-> ws.list, mqtt |-> ws.mqtt]]
  /\ UNCHANGED <<server, calls, queue, wire, page, missed, budget>>

(* queue.get and what websocket() makes of the event.                      *)
TakeEvent ==
  /\ ws.at = "wait" /\ queue # <<>> /\ LoopFree
  /\ queue' = Tail(queue)
  /\ ws' = IF Head(queue) = Entered THEN [at |-> "sleep"]
           ELSE IF Head(queue) = Status
                THEN [at |-> "send", msg |-> [type |-> "status", mqtt |-> mqtt]]
                ELSE [at |-> "send", msg |-> Head(queue)]
  /\ UNCHANGED <<server, calls, wire, page, missed, budget>>

(* After half a second: the queue is emptied, a snapshot takes its place.  *)
Wake ==
  /\ ws.at = "sleep"
  /\ queue' = <<>>
  /\ ws' = Building
  /\ missed' = FALSE
  /\ UNCHANGED <<server, calls, wire, page, budget>>

(* await ws.send_json.                                                     *)
Send ==
  /\ ws.at = "send" /\ Len(wire) < WireBound
  /\ wire' = Append(wire, ws.msg)
  /\ ws' = [at |-> "wait"]
  /\ UNCHANGED <<server, calls, queue, page, missed, budget>>

(* The browser or the network closes the connection; the coroutine ends    *)
(* with its queue unregistered.  The page keeps what it shows.             *)
Lose ==
  /\ ws.at \notin {"none", "snap"}
  /\ budget.losses > 0
  /\ ws' = [at |-> "none"]
  /\ wire' = <<>> /\ queue' = <<>>
  /\ budget' = [budget EXCEPT !.losses = @ - 1]
  /\ UNCHANGED <<server, calls, page, missed>>

-----------------------------------------------------------------------------
(* ws.onmessage of store.js: what a message makes of the page's view of e. *)
(* A snapshot replaces everything, a state event of an entity the page     *)
(* does not know is ignored.                                               *)
Bug_SnapshotMerges(view, m, e) ==
  IF m.type = "snapshot" /\ m.list[e] # Absent THEN m.list[e]
  ELSE IF m.type = "state" /\ m.id = e /\ view # Absent THEN <<m.val, m.val>> ELSE view

Shown(view, m, e) ==
  IF m.type = "snapshot" THEN m.list[e]
  ELSE IF m.type = "state" /\ m.id = e /\ view # Absent THEN <<m.val, m.val>> ELSE view

Receive ==
  /\ wire # <<>>
  /\ wire' = Tail(wire)
  /\ LET m == Head(wire)
     IN page' = [ents |-> [e \in Entities |-> Shown(page.ents[e], m, e)],
                 mqtt |-> IF m.type = "state" THEN page.mqtt ELSE m.mqtt]
  /\ UNCHANGED <<server, calls, queue, ws, missed, budget>>

-----------------------------------------------------------------------------
Init ==
  /\ registry = [e \in Entities |-> Absent]
  /\ mqtt = TRUE
  /\ paho = Idle
  /\ calls = <<>> /\ queue = <<>> /\ wire = <<>>
  /\ ws = [at |-> "none"]
  /\ page = [ents |-> [e \in Entities |-> Absent], mqtt |-> FALSE]
  /\ missed = FALSE
  /\ budget = [reports |-> Reports, discoveries |-> Discoveries,
               removals |-> Removals, flaps |-> Flaps, losses |-> Losses]

Next ==
  \/ \E e \in Entities :
       \/ HandleDiscovery(e) \/ HandleRemoval(e)
       \/ \E v \in Values : HandleState(e, v)
  \/ WriteText \/ Flap \/ Publish
  \/ FanOut \/ Accept \/ ReadCell \/ SnapshotDone
  \/ TakeEvent \/ Wake \/ Send \/ Lose
  \/ Receive

(* Threads that have something to do go on, the page reconnects for ever.  *)
Fairness ==
  /\ WF_vars(WriteText) /\ WF_vars(Publish) /\ WF_vars(FanOut)
  /\ WF_vars(Accept) /\ WF_vars(ReadCell) /\ WF_vars(SnapshotDone)
  /\ WF_vars(TakeEvent) /\ WF_vars(Wake) /\ WF_vars(Send) /\ WF_vars(Receive)

Spec == Init /\ [][Next]_vars /\ Fairness

-----------------------------------------------------------------------------
(* Properties.                                                             *)

(* Everything on its way to the page, oldest first.                        *)
Sending == IF ws.at = "send" THEN <<ws.msg>> ELSE <<>>
Emitting == IF paho.at = "emit" THEN <<paho.event>> ELSE <<>>
Waiting == queue \o calls \o Emitting

SnapshotAhead ==
  ws.at \in {"none", "sleep"} \/ \E i \in DOMAIN Waiting : Waiting[i] = Entered

(* The page's view of e when all that is on its way has arrived; a         *)
(* snapshot that is being read counts with the attributes still to read.   *)
After(view, e, msgs) ==
  LET seen[i \in 0 .. Len(msgs)] ==
        IF i = 0 THEN view ELSE Shown(seen[i - 1], msgs[i], e)
  IN  seen[Len(msgs)]

Arriving(e) ==
  LET sent == After(page.ents[e], e, wire \o Sending)
      read == IF ws.list[e] = Absent THEN Absent
              ELSE [i \in Attributes |->
                      IF <<e, i>> \in ws.todo THEN registry[e][i] ELSE ws.list[e][i]]
  IN After(IF ws.at = "snap" THEN read ELSE sent, e, Waiting)

(* Snapshots and events of an update overlap in every order: emit after    *)
(* update_state, the queue registered before the first snapshot and the    *)
(* queue emptied right before a later one are what makes the last word on  *)
(* every entity the registry's, never an older value nor half of an        *)
(* update, as long as _fan_out dropped nothing (app.py:40, app.py:181,     *)
(* app.py:190).                                                            *)
LastWordIsCurrent ==
  \A e \in Entities :
    (~missed /\ ~SnapshotAhead /\ ~(paho.at = "value" /\ paho.id = e)) =>
      Arriving(e) = registry[e]

(* store.js:1, "Live entity state, kept in sync over a WebSocket": unless  *)
(* an event was dropped after the last snapshot, a page that is left alone *)
(* ends up with the registry and the MQTT status, through lost             *)
(* connections, discovery bursts and removals.                             *)
PageConverges ==
  <>[](~missed) => <>[](page.ents = registry /\ page.mqtt = mqtt)

=============================================================================
