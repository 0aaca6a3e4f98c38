---------------------------- MODULE TcpLink_proofs ----------------------------
(***************************************************************************)
(* Proofs about the TCP connection, for every timeout, buffer limit,       *)
(* silence and sequence of outages.                                        *)
(***************************************************************************)
EXTENDS TcpLink, TLAPS

(* A step keeps the flags and the places in the code.                      *)
LEMMA FlagsStep ==
  ASSUME FlagsOK, [Next]_vars
  PROVE  FlagsOK'
<1>. USE DEF FlagsOK, clientVars, mainVars, envVars, history
<1>1. CASE CloseSocket
  BY <1>1, LinkAssumption DEF CloseSocket
<1>2. CASE OpenSocket
  BY <1>2, LinkAssumption DEF OpenSocket
<1>3. CASE ConnectOk
  BY <1>3, LinkAssumption DEF ConnectOk
<1>4. CASE ConnectFails
  BY <1>4, LinkAssumption DEF ConnectFails, AfterFailedConnect
<1>5. CASE TestConnected
  BY <1>5, LinkAssumption DEF TestConnected
<1>6. CASE Recv
  BY <1>6, LinkAssumption DEF Recv, AtMost
<1>7. CASE Start
  BY <1>7, LinkAssumption DEF Start
<1>8. CASE GetRecvData
  BY <1>8, LinkAssumption DEF GetRecvData, IdleAfterData, Kept
<1>9. CASE NoData
  BY <1>9, LinkAssumption DEF NoData, Kept
<1>10. CASE PublishToHass
  BY <1>10, LinkAssumption DEF PublishToHass
<1>11. CASE SendPackets
  BY <1>11, LinkAssumption DEF SendPackets
<1>12. CASE NothingToSend
  BY <1>12, LinkAssumption DEF NothingToSend
<1>13. CASE ForceReconnect
  BY <1>13, LinkAssumption DEF ForceReconnect, IdleAfterForce
<1>14. CASE InTime
  BY <1>14, LinkAssumption DEF InTime
<1>15. CASE NextIteration
  BY <1>15, LinkAssumption DEF NextIteration
<1>16. CASE Traffic
  BY <1>16, LinkAssumption DEF Traffic
<1>17. CASE LoseLink
  BY <1>17, LinkAssumption DEF LoseLink
<1>18. CASE GatewayReturns
  BY <1>18, LinkAssumption DEF GatewayReturns
<1>19. CASE BrokerStalls
  BY <1>19, LinkAssumption DEF BrokerStalls
<1>20. CASE BrokerReturns
  BY <1>20, LinkAssumption DEF BrokerReturns
<1>21. CASE Tick
  BY <1>21, LinkAssumption DEF Tick, MainRests, ClientRests, Later
<1>22. CASE UNCHANGED vars
  BY <1>22 DEF vars
<1>. QED BY <1>1, <1>2, <1>3, <1>4, <1>5, <1>6, <1>7, <1>8, <1>9, <1>10, <1>11, <1>12, <1>13, <1>14,
           <1>15, <1>16, <1>17, <1>18, <1>19, <1>20, <1>21, <1>22
         DEF Next, Client, Main, Environment

(* A step keeps the counts and times.                                      *)
LEMMA CountsStep ==
  ASSUME FlagsOK, CountsOK, [Next]_vars
  PROVE  CountsOK'
<1>. USE DEF CountsOK, clientVars, mainVars, envVars, history
<1>1. CASE CloseSocket
  BY <1>1, LinkAssumption DEF CloseSocket
<1>2. CASE OpenSocket
  BY <1>2, LinkAssumption DEF OpenSocket
<1>3. CASE ConnectOk
  BY <1>3, LinkAssumption DEF ConnectOk
<1>4. CASE ConnectFails
  BY <1>4, LinkAssumption DEF ConnectFails, AfterFailedConnect
<1>5. CASE TestConnected
  BY <1>5, LinkAssumption DEF TestConnected
<1>6. CASE Recv
  BY <1>6, LinkAssumption DEF Recv, AtMost
<1>7. CASE Start
  BY <1>7, LinkAssumption DEF Start
<1>8. CASE GetRecvData
  BY <1>8, LinkAssumption DEF GetRecvData, IdleAfterData, Kept
<1>9. CASE NoData
  BY <1>9, LinkAssumption DEF NoData, Kept
<1>10. CASE PublishToHass
  BY <1>10, LinkAssumption DEF PublishToHass
<1>11. CASE SendPackets
  BY <1>11, LinkAssumption DEF SendPackets
<1>12. CASE NothingToSend
  BY <1>12, LinkAssumption DEF NothingToSend
<1>13. CASE ForceReconnect
  BY <1>13, LinkAssumption DEF ForceReconnect, IdleAfterForce
<1>14. CASE InTime
  BY <1>14, LinkAssumption DEF InTime
<1>15. CASE NextIteration
  BY <1>15, LinkAssumption DEF NextIteration
<1>16. CASE Traffic
  BY <1>16, LinkAssumption DEF Traffic
<1>17. CASE LoseLink
  BY <1>17, LinkAssumption DEF LoseLink
<1>18. CASE GatewayReturns
  BY <1>18, LinkAssumption DEF GatewayReturns
<1>19. CASE BrokerStalls
  BY <1>19, LinkAssumption DEF BrokerStalls
<1>20. CASE BrokerReturns
  BY <1>20, LinkAssumption DEF BrokerReturns
<1>21. CASE Tick
  BY <1>21, LinkAssumption DEF Tick, MainRests, ClientRests, Later
<1>22. CASE UNCHANGED vars
  BY <1>22 DEF vars
<1>. QED BY <1>1, <1>2, <1>3, <1>4, <1>5, <1>6, <1>7, <1>8, <1>9, <1>10, <1>11, <1>12, <1>13, <1>14,
           <1>15, <1>16, <1>17, <1>18, <1>19, <1>20, <1>21, <1>22
         DEF Next, Client, Main, Environment

(* Every variable keeps its type; the buffer never passes buffer_limit by  *)
(* more than one read.                                                     *)
THEOREM TypeCorrect == Spec => []TypeOK
<1>1. Init => TypeOK
  <2>1. Init => FlagsOK
    BY DEF Init, FlagsOK
  <2>2. Init => CountsOK
    BY LinkAssumption DEF Init, CountsOK
  <2>. QED BY <2>1, <2>2 DEF TypeOK
<1>2. TypeOK /\ [Next]_vars => TypeOK'
  BY FlagsStep, CountsStep DEF TypeOK
<1>. QED BY <1>1, <1>2, PTL DEF Spec

-----------------------------------------------------------------------------
(* Only the loop thread raises connected_, and it leaves its inner loop    *)
(* only after the flag was lowered.                                        *)
LEMMA ReadingStep ==
  ASSUME FlagsOK, ConnectedMeansReading, [Next]_vars
  PROVE  ConnectedMeansReading'
<1>. USE DEF FlagsOK, ConnectedMeansReading, clientVars, mainVars, envVars, history
<1>1. CASE CloseSocket
  BY <1>1, LinkAssumption DEF CloseSocket
<1>2. CASE OpenSocket
  BY <1>2, LinkAssumption DEF OpenSocket
<1>3. CASE ConnectOk
  BY <1>3, LinkAssumption DEF ConnectOk
<1>4. CASE ConnectFails
  BY <1>4, LinkAssumption DEF ConnectFails, AfterFailedConnect
<1>5. CASE TestConnected
  BY <1>5, LinkAssumption DEF TestConnected
<1>6. CASE Recv
  BY <1>6, LinkAssumption DEF Recv, AtMost
<1>7. CASE Start
  BY <1>7, LinkAssumption DEF Start
<1>8. CASE GetRecvData
  BY <1>8, LinkAssumption DEF GetRecvData, IdleAfterData
<1>9. CASE NoData
  BY <1>9, LinkAssumption DEF NoData
<1>10. CASE PublishToHass
  BY <1>10, LinkAssumption DEF PublishToHass
<1>11. CASE SendPackets
  BY <1>11, LinkAssumption DEF SendPackets
<1>12. CASE NothingToSend
  BY <1>12, LinkAssumption DEF NothingToSend
<1>13. CASE ForceReconnect
  BY <1>13, LinkAssumption DEF ForceReconnect, IdleAfterForce, Overdue
<1>14. CASE InTime
  BY <1>14, LinkAssumption DEF InTime, Overdue
<1>15. CASE NextIteration
  BY <1>15, LinkAssumption DEF NextIteration
<1>16. CASE Traffic
  BY <1>16, LinkAssumption DEF Traffic
<1>17. CASE LoseLink
  BY <1>17, LinkAssumption DEF LoseLink
<1>18. CASE GatewayReturns
  BY <1>18, LinkAssumption DEF GatewayReturns
<1>19. CASE BrokerStalls
  BY <1>19, LinkAssumption DEF BrokerStalls
<1>20. CASE BrokerReturns
  BY <1>20, LinkAssumption DEF BrokerReturns
<1>21. CASE Tick
  BY <1>21, LinkAssumption DEF Tick, MainRests, ClientRests, Later
<1>22. CASE UNCHANGED vars
  BY <1>22 DEF vars
<1>. QED BY <1>1, <1>2, <1>3, <1>4, <1>5, <1>6, <1>7, <1>8, <1>9, <1>10, <1>11, <1>12, <1>13, <1>14,
           <1>15, <1>16, <1>17, <1>18, <1>19, <1>20, <1>21, <1>22
         DEF Next, Client, Main, Environment

(* connected() is true only while the loop thread reads from a socket that *)
(* was connected: no forced reconnect is lost to a concurrent connect.     *)
THEOREM Reading == Spec => []ConnectedMeansReading
<1>1. Init => ConnectedMeansReading
  BY DEF Init, ConnectedMeansReading
<1>2. TypeOK /\ ConnectedMeansReading /\ [Next]_vars => ConnectedMeansReading'
  BY ReadingStep DEF TypeOK
<1>. QED BY <1>1, <1>2, TypeCorrect, PTL DEF Spec

-----------------------------------------------------------------------------
(* tp_last_data is never older than the last forced reconnect.             *)
ForcedResets == idle <= sinceForce

(* Data and a forced reconnect both reset it, time lets both grow.        *)
LEMMA ForcedResetsStep ==
  ASSUME CountsOK, ForcedResets, [Next]_vars
  PROVE  ForcedResets'
<1>. USE DEF CountsOK, ForcedResets, clientVars, mainVars, envVars, history
<1>1. CASE CloseSocket
  BY <1>1, LinkAssumption DEF CloseSocket
<1>2. CASE OpenSocket
  BY <1>2, LinkAssumption DEF OpenSocket
<1>3. CASE ConnectOk
  BY <1>3, LinkAssumption DEF ConnectOk
<1>4. CASE ConnectFails
  BY <1>4, LinkAssumption DEF ConnectFails, AfterFailedConnect
<1>5. CASE TestConnected
  BY <1>5, LinkAssumption DEF TestConnected
<1>6. CASE Recv
  BY <1>6, LinkAssumption DEF Recv, AtMost
<1>7. CASE Start
  BY <1>7, LinkAssumption DEF Start
<1>8. CASE GetRecvData
  BY <1>8, LinkAssumption DEF GetRecvData, IdleAfterData
<1>9. CASE NoData
  BY <1>9, LinkAssumption DEF NoData
<1>10. CASE PublishToHass
  BY <1>10, LinkAssumption DEF PublishToHass
<1>11. CASE SendPackets
  BY <1>11, LinkAssumption DEF SendPackets
<1>12. CASE NothingToSend
  BY <1>12, LinkAssumption DEF NothingToSend
<1>13. CASE ForceReconnect
  BY <1>13, LinkAssumption DEF ForceReconnect, IdleAfterForce, Overdue
<1>14. CASE InTime
  BY <1>14, LinkAssumption DEF InTime, Overdue
<1>15. CASE NextIteration
  BY <1>15, LinkAssumption DEF NextIteration
<1>16. CASE Traffic
  BY <1>16, LinkAssumption DEF Traffic
<1>17. CASE LoseLink
  BY <1>17, LinkAssumption DEF LoseLink
<1>18. CASE GatewayReturns
  BY <1>18, LinkAssumption DEF GatewayReturns
<1>19. CASE BrokerStalls
  BY <1>19, LinkAssumption DEF BrokerStalls
<1>20. CASE BrokerReturns
  BY <1>20, LinkAssumption DEF BrokerReturns
<1>21. CASE Tick
  BY <1>21, LinkAssumption DEF Tick, MainRests, ClientRests, Later
<1>22. CASE UNCHANGED vars
  BY <1>22 DEF vars
<1>. QED BY <1>1, <1>2, <1>3, <1>4, <1>5, <1>6, <1>7, <1>8, <1>9, <1>10, <1>11, <1>12, <1>13, <1>14,
           <1>15, <1>16, <1>17, <1>18, <1>19, <1>20, <1>21, <1>22
         DEF Next, Client, Main, Environment

(* Two forced reconnects are more than timeout apart, whatever the gateway *)
(* does.                                                                   *)
THEOREM Storm == Spec => NoReconnectStorm
<1>1. Init => ForcedResets
  BY LinkAssumption DEF Init, ForcedResets
<1>2. TypeOK /\ ForcedResets /\ [Next]_vars => ForcedResets'
  BY ForcedResetsStep DEF TypeOK
<1>3. TypeOK /\ ForcedResets => [ForceReconnect => sinceForce > Timeout]_vars
  BY LinkAssumption DEF TypeOK, CountsOK, ForcedResets, ForceReconnect, Overdue
<1>. QED BY <1>1, <1>2, <1>3, TypeCorrect, PTL DEF Spec, NoReconnectStorm

-----------------------------------------------------------------------------
(* Why the watchdog judges right: when nothing waits in recv_data_,        *)
(* tp_last_data is as young as the last recv, and an iteration that comes  *)
(* from publishing has just taken data, unless publishing took time.       *)
Patient ==
  /\ recv_data = 0 => idle <= silence
  /\ idle > 0 /\ silence > Timeout => quiet
  /\ mpc \in {"publish", "send"} => idle = 0 \/ held
  /\ mpc = "watch" /\ idle > Timeout => quiet \/ held

(* One step keeps it, action by action.                                    *)
LEMMA PatientStep ==
  ASSUME FlagsOK, CountsOK, Patient, [Next]_vars
  PROVE  Patient'
<1>. USE DEF FlagsOK, CountsOK, Patient, clientVars, mainVars, envVars, history
<1>1. CASE CloseSocket
  BY <1>1, LinkAssumption DEF CloseSocket
<1>2. CASE OpenSocket
  BY <1>2, LinkAssumption DEF OpenSocket
<1>3. CASE ConnectOk
  BY <1>3, LinkAssumption DEF ConnectOk
<1>4. CASE ConnectFails
  BY <1>4, LinkAssumption DEF ConnectFails, AfterFailedConnect
<1>5. CASE TestConnected
  BY <1>5, LinkAssumption DEF TestConnected
<1>6. CASE Recv
  BY <1>6, LinkAssumption DEF Recv, AtMost
<1>7. CASE Start
  BY <1>7, LinkAssumption DEF Start
<1>8. CASE GetRecvData
  <2>1. recv_data' = 0 /\ silence' = silence /\ mpc' # "sleep"
    BY <1>8 DEF GetRecvData, history
  <2>2. idle' = 0
    BY <1>8 DEF GetRecvData, IdleAfterData
  <2>. QED BY <2>1, <2>2, LinkAssumption
<1>9. CASE NoData
  BY <1>9, LinkAssumption DEF NoData
<1>10. CASE PublishToHass
  BY <1>10, LinkAssumption DEF PublishToHass
<1>11. CASE SendPackets
  BY <1>11, LinkAssumption DEF SendPackets
<1>12. CASE NothingToSend
  BY <1>12, LinkAssumption DEF NothingToSend
<1>13. CASE ForceReconnect
  BY <1>13, LinkAssumption DEF ForceReconnect, IdleAfterForce, Overdue
<1>14. CASE InTime
  BY <1>14, LinkAssumption DEF InTime, Overdue
<1>15. CASE NextIteration
  BY <1>15, LinkAssumption DEF NextIteration
<1>16. CASE Traffic
  BY <1>16, LinkAssumption DEF Traffic
<1>17. CASE LoseLink
  BY <1>17, LinkAssumption DEF LoseLink
<1>18. CASE GatewayReturns
  BY <1>18, LinkAssumption DEF GatewayReturns
<1>19. CASE BrokerStalls
  BY <1>19, LinkAssumption DEF BrokerStalls
<1>20. CASE BrokerReturns
  BY <1>20, LinkAssumption DEF BrokerReturns
<1>21. CASE Tick
  <2>1. /\ idle' = Later(idle) /\ silence' = Later(silence) /\ recv_data' = recv_data
    BY <1>21 DEF Tick
  <2>2. mpc' # "watch" /\ mpc' # "send" /\ (mpc' = "publish" => mpc = "publish")
    BY <1>21 DEF Tick, MainRests
  <2>3. quiet' = (quiet \/ silence' > Timeout) /\ held' = (held \/ mpc = "publish")
    BY <1>21 DEF Tick
  <2>4. (silence' > Timeout => quiet') /\ (mpc = "publish" => held')
    BY <2>3, Zenon
  <2>5. recv_data = 0 => idle' <= silence'
    BY <2>1, LinkAssumption DEF Later
  <2>. QED BY <2>1, <2>2, <2>4, <2>5, LinkAssumption
<1>22. CASE UNCHANGED vars
  BY <1>22 DEF vars
<1>. QED BY <1>1, <1>2, <1>3, <1>4, <1>5, <1>6, <1>7, <1>8, <1>9, <1>10, <1>11, <1>12, <1>13, <1>14,
           <1>15, <1>16, <1>17, <1>18, <1>19, <1>20, <1>21, <1>22
         DEF Next, Client, Main, Environment

(* The connection is given up only after more than timeout without data,   *)
(* or after publishing held the main loop up.                              *)
THEOREM Patience == Spec => ForcedAfterSilenceOrHeld
<1>1. Init => Patient
  BY LinkAssumption DEF Init, Patient
<1>2. TypeOK /\ Patient /\ [Next]_vars => Patient'
  BY PatientStep DEF TypeOK
<1>3. Patient => [ForceReconnect => quiet \/ held]_vars
  BY DEF Patient, ForceReconnect, Overdue
<1>. QED BY <1>1, <1>2, <1>3, TypeCorrect, PTL DEF Spec, ForcedAfterSilenceOrHeld
=============================================================================
