---------------------- MODULE LidarServerSwitchProofs ----------------------
(***************************************************************************)
(* The node implements MappingSwitch, for every size of a sweep, every set *)
(* of tokens and datagrams and whatever fresh memory holds.  As long as    *)
(* the service thread does not leave its wait before start() ends it, it   *)
(* is the requests alone that the switch obeys.                            *)
(***************************************************************************)
EXTENDS LidarServerProofs

-----------------------------------------------------------------------------
(***************************************************************************)
(* The service thread begins with the constructor, and scans with ROS      *)
(* started, or shut down.                                                  *)
(***************************************************************************)
RosIsStarted ==
    /\ servicePc = "none" <=> mainPc = "construct"
    /\ servicePc = "advertise" => ros # "none"
    /\ servicePc \in {"idle", "check", "publish"} => ros \in {"started", "down"}

\* Every step keeps it so.
LEMMA StaysStarted == Inductive /\ RosIsStarted /\ [Next]_vars => RosIsStarted'
<1> SUFFICES ASSUME Inductive, RosIsStarted, [Next]_vars
             PROVE  RosIsStarted'
  OBVIOUS
<1>. USE DEF RosIsStarted, serverVars, serviceVars, socketVars, historyVars
<1>1. CASE Main
  BY <1>1
  DEF Main, MainAt, Abort, RosInit, SpawnService, InitMembers, CtorRosInit, CtorArgs,
      CtorPolling, BindFails, SpawnSocket, SetLidarServer, start
<1>2. CASE Service
  BY <1>2
  DEF Service, ServiceAt, Abort, RosInit, RosStart, LeaveWait, LoadArgs,
      ServiceRosInit, ServiceRosInitFaults, Advertise, BeginPolling, CheckRos, EndPolling,
      Publish, Inductive, TypeOK, Ros
<1>3. CASE Socket
  BY <1>3
  DEF Socket, SocketAt, Abort, initialize, ReceiveDatagram, RunReturns, LoadServer,
      HandlerHasNoServer, HandleReceive, ApplyResult
<1>4. CASE Environment
  BY <1>4
  DEF Environment, Send, Shutdown, ReceiveFails, stopPolling, StopShutsDown, RosShutdown
<1>5. CASE UNCHANGED vars
  BY <1>5 DEF vars
<1>6. QED
  BY <1>1, <1>2, <1>3, <1>4, <1>5 DEF Next

-----------------------------------------------------------------------------
(***************************************************************************)
(* The steps of the node, as steps of the switch.                          *)
(***************************************************************************)

\* The position after the last is the first.
LEMMA NextPositionWraps ==
    ASSUME NEW p \in Position
    PROVE  NextPosition(p) = IF p + 1 = ScanSize THEN 0 ELSE p + 1
  BY ScanAssumption DEF NextPosition, Position

\* The constructors and start() are not seen.
LEMMA MainStutters ==
    ASSUME Inductive, RosIsStarted, Main
    PROVE  UNCHANGED <<lastCommand, early, scan, Scanning, ros = "down", scan_position>>
<1>. USE DEF serverVars, serviceVars, socketVars, historyVars, Scanning
<1>1. ros' # ros => ros = "none" /\ ros' = "init"
  BY DEF Main, RosInit, SpawnService, InitMembers, CtorRosInit, CtorArgs, CtorPolling, BindFails,
      SpawnSocket, SetLidarServer, start
<1>2. UNCHANGED <<lastCommand, early, scan, scan_position>>
  BY DEF Main, SpawnService, InitMembers, CtorRosInit, CtorArgs, CtorPolling, BindFails,
      SpawnSocket, SetLidarServer, start
<1>3. \/ servicePc' = servicePc
      \/ servicePc' = "wait" /\ servicePc \notin {"check", "publish"}
  BY DEF Main, SpawnService, InitMembers, CtorRosInit, CtorArgs, CtorPolling, BindFails,
      SpawnSocket, SetLidarServer, start, MainAt, RosIsStarted
<1>4. QED
  BY <1>1, <1>2, <1>3

\* Of the service thread's steps the switch sees the beginning of a scan, which a request
\* has asked for, and what is published before the shutdown.
LEMMA ServiceSwitches ==
    ASSUME Inductive, RosIsStarted, Service
    PROVE  [Switch!Next]_Switch!svars
<1>. USE DEF serverVars, serviceVars, socketVars, historyVars, ServiceAt, Scanning, Switch!svars
<1>1. CASE LoadArgs \/ ServiceRosInitFaults \/ CheckRos
  BY <1>1 DEF LoadArgs, ServiceRosInitFaults, CheckRos
<1>2. CASE ServiceRosInit \/ Advertise
  BY <1>2 DEF ServiceRosInit, Advertise, RosInit, RosStart
<1>3. CASE BeginPolling
  <2>1. lastCommand = "start" \/ early
    BY <1>3 DEF BeginPolling, Inductive, ThreadOrder, LastCommandWins, PollingIsCleared
  <2>2. CASE ros = "down"
    BY <1>3, <2>2 DEF BeginPolling
  <2>3. CASE ros # "down"
    <3>1. Switch!Begin
      BY <1>3, <2>1, <2>3 DEF BeginPolling, Switch!Begin
    <3>2. QED
      BY <3>1 DEF Switch!Next
  <2>4. QED
    BY <2>2, <2>3
<1>4. CASE EndPolling
  <2>1. ros = "down"
    BY <1>4 DEF EndPolling, RosOk, RosIsStarted
  <2>2. QED
    BY <1>4, <2>1 DEF EndPolling
<1>5. CASE Publish
  <2>1. CASE ros = "down"
    BY <1>5, <2>1 DEF Publish, RosOk
  <2>2. CASE ros # "down"
    <3>1. ros = "started" /\ scan_position \in Position
      BY <1>5, <2>2 DEF Publish, RosIsStarted, Inductive, TypeOK
    <3>2. Switch!Publish
      BY <1>5, <3>1, NextPositionWraps DEF Publish, RosOk, Switch!Publish
    <3>3. QED
      BY <3>2 DEF Switch!Next
  <2>3. QED
    BY <2>1, <2>2
<1>6. CASE LeaveWait
  <2>1. Switch!Request
    BY <1>6 DEF LeaveWait, Switch!Request, Inductive, TypeOK
  <2>2. QED
    BY <2>1 DEF Switch!Next
<1>7. QED
  BY <1>1, <1>2, <1>3, <1>4, <1>5, <1>6 DEF Service

\* Of the socket thread's steps it sees the request that is carried out.
LEMMA SocketSwitches ==
    ASSUME Inductive, Socket
    PROVE  [Switch!Next]_Switch!svars
<1>. USE DEF serverVars, serviceVars, socketVars, historyVars, Scanning, Switch!svars
<1>1. CASE ApplyResult
  <2>1. Switch!Request
    BY <1>1 DEF ApplyResult, CommandIsCarriedOut, Switch!Request
  <2>2. QED
    BY <2>1 DEF Switch!Next
<1>2. CASE \/ initialize \/ ReceiveDatagram \/ RunReturns \/ LoadServer
           \/ HandlerHasNoServer \/ HandleReceive
  BY <1>2
  DEF initialize, ReceiveDatagram, RunReturns, LoadServer, HandlerHasNoServer, HandleReceive
<1>3. QED
  BY <1>1, <1>2 DEF Socket

\* Of the environment's it sees the shutdown, and the request a caller of stopPolling
\* takes back before it.
LEMMA EnvironmentSwitches ==
    ASSUME Inductive, Environment
    PROVE  [Switch!Next]_Switch!svars
<1>. USE DEF serverVars, serviceVars, socketVars, historyVars, Scanning, Switch!svars
<1>1. CASE Shutdown \/ StopShutsDown
  <2>1. CASE ros = "started"
    <3>1. Switch!Shutdown
      BY <1>1, <2>1 DEF Shutdown, StopShutsDown, RosShutdown, Switch!Shutdown
    <3>2. QED
      BY <3>1 DEF Switch!Next
  <2>2. CASE ros # "started"
    BY <1>1, <2>2 DEF Shutdown, StopShutsDown, RosShutdown
  <2>3. QED
    BY <2>1, <2>2
<1>2. CASE stopPolling
  <2>1. Switch!Request
    BY <1>2 DEF stopPolling, Switch!Request, Inductive, TypeOK
  <2>2. QED
    BY <2>1 DEF Switch!Next
<1>3. CASE (\E d \in Datagrams : Send(d)) \/ ReceiveFails
  BY <1>3 DEF Send, ReceiveFails
<1>4. QED
  BY <1>1, <1>2, <1>3 DEF Environment

\* The node implements the switch: every step of its threads and of its environment is one
\* of the switch or is not seen.
THEOREM NodeIsSwitch == Spec => ImplementsSwitch
<1>1. Init => RosIsStarted /\ Switch!Init
  BY DEF Init, RosIsStarted, Scanning, Switch!Init
<1>2. Inductive /\ RosIsStarted /\ [Next]_vars => [Switch!Next]_Switch!svars
  <2> SUFFICES ASSUME Inductive, RosIsStarted, [Next]_vars
               PROVE  [Switch!Next]_Switch!svars
    OBVIOUS
  <2>1. CASE Main
    BY <2>1, MainStutters DEF Scanning, Switch!svars
  <2>2. CASE UNCHANGED vars
    BY <2>2 DEF vars, serviceVars, historyVars, Scanning, Switch!svars
  <2>3. QED
    BY <2>1, <2>2, ServiceSwitches, SocketSwitches, EnvironmentSwitches DEF Next
<1>3. QED
  BY <1>1, <1>2, StaysStarted, InductiveInvariant, PTL
  DEF Spec, ImplementsSwitch, Switch!Spec

-----------------------------------------------------------------------------
(***************************************************************************)
(* The switch that obeys the requests and nothing else.                    *)
(***************************************************************************)
OnRequest == INSTANCE MappingSwitch WITH
    wanted <- lastCommand = "start",
    mode <- IF ros = "down" THEN "over" ELSE IF Scanning THEN "scanning" ELSE "off",
    next <- IF Scanning THEN scan_position ELSE 0,
    last <- scan

\* As long as the service thread has not left its wait before start() ended it, the node is
\* this switch, whatever its memory held.
THEOREM WaitingNodeObeys == Spec /\ []~early => OnRequest!Spec
<1>1. ~early /\ Switch!Init => OnRequest!Init
  BY DEF Switch!Init, OnRequest!Init
<1>2. ~early /\ ~early' /\ [Switch!Next]_Switch!svars => [OnRequest!Next]_OnRequest!svars
  BY DEF Switch!Next, Switch!Request, Switch!Begin, Switch!Publish, Switch!Shutdown,
         Switch!svars, OnRequest!Next, OnRequest!Request, OnRequest!Begin, OnRequest!Publish,
         OnRequest!Shutdown, OnRequest!svars
<1>3. QED
  BY <1>1, <1>2, NodeIsSwitch, PTL DEF ImplementsSwitch, Switch!Spec, OnRequest!Spec

=============================================================================
