------------------------------- MODULE TcpLink -------------------------------
(***************************************************************************)
(* The TCP connection to the serial gateway: TcpClient with its loop       *)
(* thread, and the main loop of apps/tcp_hass_bridge.cpp that takes the    *)
(* data, publishes, sends and watches over the connection.                 *)
(*                                                                         *)
(* The two threads share connected_ (atomic), recv_data_ (under            *)
(* mtx_recv_data_) and socket_ (under no common lock: connect2server       *)
(* replaces it without mtx_socket_).  Bytes are counted in chunks, a       *)
(* message's worth each; what they say is the matter of FrameDecoder.      *)
(*                                                                         *)
(* Time passes in ticks.  A tick is longer than the sleeps of the loops    *)
(* (10 and 200 ms, and the second between two attempts to connect), so     *)
(* between two ticks a thread that does not wait for somebody gets round.  *)
(***************************************************************************)
EXTENDS Integers

CONSTANTS
  Timeout,         \* configuration: ticks without data before a reconnect
  BufferLimit,     \* configuration: chunks the main loop's buffer may hold
  ReadOnly,        \* configuration switch read_only
  PublishWait,     \* ticks publish waits for the broker's acknowledgement
  TrafficGap,      \* bound: ticks without traffic on a working connection
  ChunkBound,      \* bound: chunks in the kernel and in recv_data_, each
  MaxOutages,      \* bound: losses of the connection and of the gateway
  MaxStalls        \* bound: times the broker fails to acknowledge for a while

ASSUME LinkAssumption ==
  /\ Timeout \in Nat /\ BufferLimit \in Nat
  /\ PublishWait \in Nat /\ TrafficGap \in Nat \ {0}
  /\ ChunkBound \in Nat \ {0} /\ MaxOutages \in Nat /\ MaxStalls \in Nat
  /\ ReadOnly \in BOOLEAN

VARIABLES
  connected,   \* connected_
  sock,        \* the socket behind socket_: "closed", "new", "up", "lost"
  recv_data,   \* recv_data_: chunks the loop thread has read
  cpc,         \* TcpClient::loop: "close", "open", "connect", "test", "recv", "wait"
  mpc,         \* main: "start", "read", "publish", "send", "watch", "sleep"
  buffer,      \* chunks in the main loop's buffer
  rx,          \* messages decoded and not yet published
  waited,      \* ticks the publish at hand has waited
  idle,        \* ticks since tp_last_data, up to Timeout + 1
  tx,          \* what became of the last round: "none", "delivered", "lost"
  net,         \* chunks in the kernel's receive queue of the socket
  reachable,   \* the gateway accepts connections
  acks,        \* the broker acknowledges
  outages,     \* what is left of MaxOutages
  stalls,      \* what is left of MaxStalls
  gap,         \* ticks since there was traffic on the connection
  silence,     \* history: ticks since recv returned data, up to Timeout + 1
  quiet,       \* history: silence passed Timeout since main last took data
  held,        \* history: publish took time since main last took data
  sinceForce   \* history: ticks since forceReconnect, up to Timeout + 1

clientVars == <<sock, cpc>>
mainVars == <<mpc, buffer, rx, waited, tx>>
envVars == <<reachable, acks, outages, stalls, gap>>
history == <<silence, quiet, held, sinceForce>>
vars == <<connected, recv_data, net, idle, clientVars, mainVars, envVars, history>>

(* One tick more, up to the point where it makes no difference.            *)
Later(t) == IF t > Timeout THEN t ELSE t + 1

(* Chunks are counted up to the bound; more of them behave like that many. *)
AtMost(n) == IF n > ChunkBound THEN ChunkBound ELSE n

-----------------------------------------------------------------------------
Init ==
  /\ connected = FALSE
  /\ sock = "closed"
  /\ recv_data = 0
  /\ cpc = "close"
  /\ mpc = "start"
  /\ buffer = 0
  /\ rx = 0
  /\ waited = 0
  /\ idle = 0
  /\ tx = "none"
  /\ net = 0
  /\ reachable = TRUE
  /\ acks = TRUE
  /\ outages = MaxOutages
  /\ stalls = MaxStalls
  /\ gap = 0
  /\ silence = 0
  /\ quiet = FALSE
  /\ held = FALSE
  /\ sinceForce = Timeout + 1

-----------------------------------------------------------------------------
(* TcpClient::loop, connect2server: the old socket is closed, its unread   *)
(* data is gone; what is in recv_data_ stays.                              *)
CloseSocket ==
  /\ cpc = "close"
  /\ sock' = "closed"
  /\ net' = 0
  /\ cpc' = "open"
  /\ UNCHANGED <<connected, recv_data, idle, mainVars, envVars, history>>

OpenSocket ==
  /\ cpc = "open"
  /\ sock' = "new"
  /\ cpc' = "connect"
  /\ UNCHANGED <<connected, recv_data, net, idle, mainVars, envVars, history>>

(* connect() succeeds, and the result goes into connected_.                *)
ConnectOk ==
  /\ cpc = "connect"
  /\ reachable
  /\ sock' = "up"
  /\ gap' = 0
  /\ connected' = TRUE
  /\ cpc' = "test"
  /\ UNCHANGED <<recv_data, net, idle, mainVars, reachable, acks, outages, stalls, history>>

(* connect() fails: connected_ stays false, the inner loop is passed over. *)
Bug_FailedIsConnected == TRUE
AfterFailedConnect == FALSE

ConnectFails ==
  /\ cpc = "connect"
  /\ ~reachable
  /\ connected' = AfterFailedConnect
  /\ cpc' = "wait"
  /\ UNCHANGED <<sock, recv_data, net, idle, mainVars, envVars, history>>

(* The inner loop's test of connected_.  A poll of a connection without    *)
(* data changes nothing and is no step: recv on the non-blocking socket    *)
(* gives -1, or 0 when the gateway has closed the connection, and neither  *)
(* is looked at.                                                           *)
TestConnected ==
  /\ cpc = "test"
  /\ connected => net > 0
  /\ cpc' = IF connected THEN "recv" ELSE "wait"
  /\ UNCHANGED <<connected, sock, recv_data, net, idle, mainVars, envVars, history>>

(* recv of what is there, up to 1024 bytes, into recv_data_.               *)
Recv ==
  /\ cpc = "recv"
  /\ \E n \in 1 .. net :
       /\ recv_data' = AtMost(recv_data + n)
       /\ net' = net - n
  /\ silence' = 0
  /\ cpc' = "test"
  /\ UNCHANGED <<connected, sock, idle, mainVars, envVars, quiet, held, sinceForce>>

-----------------------------------------------------------------------------
(* The constructor of TcpClient waits for the first connection.            *)
Start ==
  /\ mpc = "start"
  /\ connected
  /\ mpc' = "read"
  /\ idle' = 0
  /\ UNCHANGED <<connected, recv_data, net, clientVars, buffer, rx, waited, tx, envVars, history>>

Bug_NeverCleared == buffer
(* The main loop empties a buffer that passed buffer_limit.                *)
Kept == IF buffer > BufferLimit THEN 0 ELSE buffer

Bug_OnlyDecoded(n) == IF n > 0 THEN 0 ELSE idle
(* tp_last_data is set by any data, whether or not it makes up a message.  *)
IdleAfterData(n) == 0

(* The main loop: getRecvData moves recv_data_ into the buffer, decode     *)
(* takes some of it out again as messages; without new bytes it finds no   *)
(* more than the last time, that is none.                                  *)
GetRecvData ==
  /\ mpc = "read"
  /\ recv_data > 0
  /\ \E n \in 0 .. Kept + recv_data :
       /\ rx' = n
       /\ buffer' \in 0 .. Kept + recv_data - n
       /\ mpc' = IF n > 0 THEN "publish" ELSE "watch"
       /\ idle' = IdleAfterData(n)
  /\ recv_data' = 0
  /\ quiet' = FALSE
  /\ held' = FALSE
  /\ UNCHANGED <<connected, net, clientVars, waited, tx, envVars, silence, sinceForce>>

NoData ==
  /\ mpc = "read"
  /\ recv_data = 0
  /\ buffer' = Kept
  /\ mpc' = "watch"
  /\ UNCHANGED <<connected, recv_data, net, idle, clientVars, rx, waited, tx, envVars, history>>

(* publishToHass for one message: it waits for the acknowledgement, but no *)
(* longer than timeout_.                                                   *)
PublishToHass ==
  /\ mpc = "publish"
  /\ rx > 0
  /\ acks \/ waited >= PublishWait
  /\ rx' = rx - 1
  /\ waited' = 0
  /\ mpc' = IF rx = 1 THEN "send" ELSE "publish"
  /\ UNCHANGED <<connected, recv_data, net, idle, clientVars, buffer, tx, envVars, history>>

(* The main loop: TcpClient::send of what the handlers want to send.  On   *)
(* anything but a working connection the packets are lost.                 *)
SendPackets ==
  /\ mpc = "send"
  /\ ~ReadOnly
  /\ tx' = IF sock = "up" THEN "delivered" ELSE "lost"
  /\ mpc' = "watch"
  /\ UNCHANGED <<connected, recv_data, net, idle, clientVars, buffer, rx, waited, envVars, history>>

(* ... or there is nothing to send.                                        *)
NothingToSend ==
  /\ mpc = "send"
  /\ tx' = "none"
  /\ mpc' = "watch"
  /\ UNCHANGED <<connected, recv_data, net, idle, clientVars, buffer, rx, waited, envVars, history>>

Bug_Inverted == idle > Timeout /\ ~connected
Overdue == idle > Timeout /\ connected

Bug_KeepTimestamp == idle
IdleAfterForce == 0

(* The main loop's watchdog: forceReconnect, and the time starts again.    *)
ForceReconnect ==
  /\ mpc = "watch"
  /\ Overdue
  /\ connected' = FALSE
  /\ idle' = IdleAfterForce
  /\ sinceForce' = 0
  /\ mpc' = "sleep"
  /\ UNCHANGED <<recv_data, net, clientVars, buffer, rx, waited, tx, envVars, silence, quiet, held>>

InTime ==
  /\ mpc = "watch"
  /\ ~Overdue
  /\ mpc' = "sleep"
  /\ UNCHANGED <<connected, recv_data, net, idle, clientVars, buffer, rx, waited, tx, envVars, history>>

(* The next iteration: within a tick only one that finds something to do.  *)
NextIteration ==
  /\ mpc = "sleep"
  /\ recv_data > 0 \/ Overdue
  /\ mpc' = "read"
  /\ UNCHANGED <<connected, recv_data, net, idle, clientVars, buffer, rx, waited, tx, envVars, history>>

-----------------------------------------------------------------------------
(* The heat pump talks on the bus and the gateway passes it on.            *)
Traffic ==
  /\ sock = "up"
  /\ net < ChunkBound
  /\ net' = net + 1
  /\ gap' = 0
  /\ UNCHANGED <<connected, recv_data, idle, clientVars, mainVars, reachable, acks, outages, stalls, history>>

(* The connection is lost, the gateway stays or goes; nobody is told.      *)
LoseLink ==
  /\ sock = "up"
  /\ outages > 0
  /\ outages' = outages - 1
  /\ sock' = "lost"
  /\ reachable' \in BOOLEAN
  /\ UNCHANGED <<connected, recv_data, net, idle, cpc, mainVars, acks, stalls, gap, history>>

GatewayReturns ==
  /\ ~reachable
  /\ reachable' = TRUE
  /\ UNCHANGED <<connected, recv_data, net, idle, clientVars, mainVars, acks, outages, stalls, gap, history>>

BrokerStalls ==
  /\ acks
  /\ stalls > 0
  /\ stalls' = stalls - 1
  /\ acks' = FALSE
  /\ UNCHANGED <<connected, recv_data, net, idle, clientVars, mainVars, reachable, outages, gap, history>>

BrokerReturns ==
  /\ ~acks
  /\ acks' = TRUE
  /\ UNCHANGED <<connected, recv_data, net, idle, clientVars, mainVars, reachable, outages, stalls, gap, history>>

(* Nobody has a step to take before time passes: main sleeps or waits for  *)
(* the broker, the loop thread sleeps, connects, or has read everything.   *)
MainRests ==
  \/ mpc = "sleep"
  \/ mpc = "start" /\ ~connected
  \/ mpc = "publish" /\ ~acks /\ waited < PublishWait

ClientRests ==
  \/ cpc = "wait"
  \/ cpc = "connect" /\ ~reachable
  \/ cpc = "test" /\ connected /\ net = 0

Tick ==
  /\ MainRests
  /\ ClientRests
  /\ sock = "up" => gap < TrafficGap
  /\ idle' = Later(idle)
  /\ silence' = Later(silence)
  /\ quiet' = (quiet \/ silence' > Timeout)
  /\ held' = (held \/ mpc = "publish")
  /\ sinceForce' = Later(sinceForce)
  /\ gap' = IF sock = "up" THEN gap + 1 ELSE 0
  /\ mpc' = IF mpc = "sleep" THEN "read" ELSE mpc
  /\ waited' = IF mpc = "publish" THEN waited + 1 ELSE waited
  /\ cpc' = IF cpc = "wait" THEN "close" ELSE cpc
  /\ UNCHANGED <<connected, recv_data, net, sock, buffer, rx, tx, reachable, acks, outages, stalls>>

Client == CloseSocket \/ OpenSocket \/ ConnectOk \/ ConnectFails \/ TestConnected \/ Recv

Main ==
  \/ Start \/ GetRecvData \/ NoData \/ PublishToHass \/ SendPackets \/ NothingToSend
  \/ ForceReconnect \/ InTime \/ NextIteration

Environment == Traffic \/ LoseLink \/ GatewayReturns \/ BrokerStalls \/ BrokerReturns

Next == Client \/ Main \/ Environment \/ Tick

Spec == Init /\ [][Next]_vars

(* The threads keep running and time passes; a gateway and a broker that   *)
(* went away come back, and the heat pump does not stop talking.           *)
Fairness ==
  /\ WF_vars(Client)
  /\ WF_vars(Main)
  /\ WF_vars(GatewayReturns)
  /\ WF_vars(BrokerReturns)
  /\ WF_vars(Traffic)
  /\ SF_vars(Tick)

FairSpec == Spec /\ Fairness

-----------------------------------------------------------------------------
FlagsOK ==
  /\ connected \in BOOLEAN /\ reachable \in BOOLEAN /\ acks \in BOOLEAN /\ quiet \in BOOLEAN
  /\ held \in BOOLEAN
  /\ sock \in {"closed", "new", "up", "lost"}
  /\ cpc \in {"close", "open", "connect", "test", "recv", "wait"}
  /\ mpc \in {"start", "read", "publish", "send", "watch", "sleep"}
  /\ tx \in {"none", "delivered", "lost"}

(* buffer_limit bounds the buffer: it never holds more than that and what  *)
(* one call of getRecvData adds.                                           *)
CountsOK ==
  /\ recv_data \in 0 .. ChunkBound /\ net \in 0 .. ChunkBound
  /\ buffer \in 0 .. BufferLimit + ChunkBound
  /\ rx \in 0 .. BufferLimit + ChunkBound
  /\ waited \in 0 .. PublishWait /\ outages \in 0 .. MaxOutages /\ gap \in Nat
  /\ stalls \in 0 .. MaxStalls
  /\ idle \in 0 .. Timeout + 1 /\ silence \in 0 .. Timeout + 1
  /\ sinceForce \in 0 .. Timeout + 1

(* The variables hold what the program can hold.                           *)
TypeOK == FlagsOK /\ CountsOK

(* connected() is what its name says: while it holds the loop thread reads *)
(* from a socket that was connected, so a forceReconnect (which only main  *)
(* calls, after asking connected()) never hits an attempt to connect that  *)
(* is under way, and is never overwritten.                                 *)
ConnectedMeansReading ==
  connected => cpc \in {"test", "recv"} /\ sock \in {"up", "lost"}

(* Two forced reconnects are more than timeout apart: a gateway that       *)
(* accepts connections and sends nothing is not flooded with them, also    *)
(* when it was away for long and tp_last_data is old.                      *)
NoReconnectStorm == [][ForceReconnect => sinceForce > Timeout]_vars

(* APPS.md:20: "The applications reconnect to the adapter automatically if *)
(* no data is received for `timeout` seconds", and not otherwise: since    *)
(* main last took data, recv was without data for longer than timeout, or  *)
(* publishing held the main loop up.  That exception is in the code: main  *)
(* measures its own delay, and a broker that does not acknowledge can give *)
(* a connection up on which data keeps arriving.  Neither the race of the  *)
(* two threads for recv_data_ nor an outage gives the watchdog a wrong     *)
(* idea of the silence.                                                    *)
ForcedAfterSilenceOrHeld == [][ForceReconnect => quiet \/ held]_vars

(* After the last outage the connection is up for good, though nobody is   *)
(* told of a lost connection and the age of tp_last_data goes on while the *)
(* gateway is away.                                                        *)
LinkRecovers == <>[](sock = "up" /\ connected)

=============================================================================
