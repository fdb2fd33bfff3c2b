------------------------- MODULE LidarServerProofs -------------------------
(***************************************************************************)
(* The safety of the node for every size of the token field and of a       *)
(* sweep, every set of tokens and datagrams and every content of fresh     *)
(* memory: one inductive invariant, and what follows from it.              *)
(***************************************************************************)
EXTENDS LidarServer, TLAPS

-----------------------------------------------------------------------------
(***************************************************************************)
(* Lemmas about the operators of RequestParser.                            *)
(***************************************************************************)

\* The parser's operators stay within their types.
LEMMA ParserTypes ==
    ASSUME NEW rb \in Buffer, NEW b \in Buffer
    PROVE  /\ Copy(rb, b) \in Buffer
           /\ TokenOf(b) \in TokenString
           /\ Command(b) \in {Start, Stop, Rejected}
<1>1. Copy(rb, b) \in Buffer
  BY DEF Copy, Buffer
<1>2. TokenOf(b) \in TokenString
  BY TokenLenAssumption DEF TokenOf, TokenString, Buffer, Index, READ_BUF, Byte, Control
<1>3. Command(b) \in {Start, Stop, Rejected}
  BY DEF Command
<1>. QED
  BY <1>1, <1>2, <1>3

\* Receiving a datagram leaves a buffer a buffer.
LEMMA ReceivedType ==
    ASSUME NEW b \in Buffer, NEW d \in Datagram
    PROVE  Received(b, d) \in Buffer
  BY TokenLenAssumption DEF Received, Buffer, Datagram, Index, READ_BUF

\* A datagram as long as the buffer replaces everything in it.
LEMMA LongDatagramFills ==
    ASSUME NEW b \in Buffer, NEW d \in Datagram, Len(d) >= READ_BUF
    PROVE  Received(b, d) = Cells(d) /\ Cells(d) \in Buffer
  BY TokenLenAssumption DEF Received, Cells, Buffer, Datagram, Index, READ_BUF

\* A request that is read to the last cell replaces everything in the second array.
LEMMA FullCopy ==
    ASSUME NEW rb \in Buffer, NEW b \in Buffer, Copied(b) = Index
    PROVE  Copy(rb, b) = b
  BY DEF Copy, Buffer

\* The empty token is a token string.
LEMMA EmptyTokenType == EmptyToken \in TokenString
  BY DEF EmptyToken, TokenString, Byte, Control

\* What the constructor fills read_buf with is a buffer.
LEMMA FillType == [i \in Index |-> "NUL"] \in Buffer
  BY DEF Buffer, Byte, Control

-----------------------------------------------------------------------------
(***************************************************************************)
(* The inductive invariant.                                                *)
(***************************************************************************)
\* The invariant holds of the memory operator new returns, whatever it holds.
LEMMA InitInductive == Init => Inductive
<1> SUFFICES ASSUME Init
             PROVE  Inductive
  OBVIOUS
<1>. USE DEF Init
<1>1. TypeOK
  <2>1. /\ alive \in BOOLEAN /\ argsSet \in BOOLEAN /\ lidar_server \in BOOLEAN
        /\ armed \in BOOLEAN /\ failed \in BOOLEAN /\ early \in BOOLEAN
        /\ hasty \in BOOLEAN /\ started \in BOOLEAN
    BY Zenon
  <2>2. QED
    BY <2>1, EmptyTokenType, MemoryAssumption, ScanAssumption
    DEF TypeOK, MainPc, ServicePc, SocketPc, Position, Ros
<1>2. QED
  BY <1>1
  DEF Inductive, ThreadOrder, CommandHistory, ReceiveOutstanding, WholeIsReceived,
      MappingOnlyOnRequest, LastCommandWins, PollingIsCleared,
      WholeRequestSpeaksForItself, CommandNeedsVerifiedToken, DeafOnlyAfterFailure

\* No step of the constructors or of start() leaves the types.
LEMMA MainTypes == ASSUME TypeOK, Main PROVE TypeOK'
<1>. USE DEF TypeOK, MainAt, Abort, RosInit, vars, serverVars, serviceVars, socketVars,
             historyVars, MainPc, ServicePc, SocketPc, Ros
<1>1. CASE SpawnService
  BY <1>1 DEF SpawnService
<1>2. CASE InitMembers
  <2>1. initialized' \in BOOLEAN
    BY <1>2, Zenon DEF InitMembers
  <2>2. QED
    BY <1>2, <2>1 DEF InitMembers
<1>3. CASE CtorRosInit
  BY FillType, <1>3 DEF CtorRosInit
<1>4. CASE CtorArgs
  BY EmptyTokenType, <1>4 DEF CtorArgs
<1>5. CASE CtorPolling
  <2>1. polling' \in BOOLEAN
    BY <1>5, Zenon DEF CtorPolling
  <2>2. QED
    BY <1>5, <2>1 DEF CtorPolling
<1>6. CASE BindFails
  <2>1. alive' \in BOOLEAN
    BY <1>6, Zenon DEF BindFails
  <2>2. QED
    BY <1>6, <2>1 DEF BindFails
<1>7. CASE SpawnSocket
  BY <1>7 DEF SpawnSocket
<1>8. CASE SetLidarServer
  BY <1>8 DEF SetLidarServer
<1>9. CASE start
  BY <1>9 DEF start
<1>10. QED
  BY Main, <1>1, <1>2, <1>3, <1>4, <1>5, <1>6, <1>7, <1>8, <1>9 DEF Main

\* No step of startPolling leaves the types.
LEMMA ServiceTypes == ASSUME TypeOK, Service PROVE TypeOK'
<1>. USE DEF TypeOK, ServiceAt, Abort, RosInit, RosStart, vars, serverVars, serviceVars,
             socketVars, historyVars, MainPc, ServicePc, SocketPc, Ros
<1>1. CASE LeaveWait
  BY <1>1 DEF LeaveWait
<1>2. CASE ServiceRosInit
  BY <1>2 DEF ServiceRosInit
<1>3. CASE ServiceRosInitFaults
  <2>1. alive' \in BOOLEAN
    BY <1>3, Zenon DEF ServiceRosInitFaults
  <2>2. QED
    BY <1>3, <2>1 DEF ServiceRosInitFaults
<1>4. CASE Advertise
  BY <1>4 DEF Advertise
<1>5. CASE BeginPolling
  BY ScanAssumption, <1>5 DEF BeginPolling, Position
<1>6. CASE CheckRos
  BY <1>6 DEF CheckRos
<1>7. CASE EndPolling
  <2>1. initialized' \in BOOLEAN
    BY <1>7, Zenon DEF EndPolling
  <2>2. QED
    BY <1>7, <2>1 DEF EndPolling
<1>8. CASE Publish
  BY ScanAssumption, <1>8 DEF Publish, NextPosition, Position
<1>9. CASE LoadArgs
  <2>1. servicePc' \in ServicePc
    BY <1>9 DEF LoadArgs
  <2>2. QED
    BY <1>9, <2>1 DEF LoadArgs
<1>10. QED
  BY Service, <1>1, <1>2, <1>3, <1>4, <1>5, <1>6, <1>7, <1>8, <1>9 DEF Service

\* No step of the socket thread leaves the types.
LEMMA SocketTypes == ASSUME TypeOK, Socket PROVE TypeOK'
<1>. USE DEF TypeOK, SocketAt, Abort, start_receive, vars, serverVars, serviceVars,
             socketVars, historyVars, MainPc, ServicePc, SocketPc, Ros
<1>1. CASE initialize
  BY <1>1 DEF initialize
<1>2. CASE ReceiveDatagram
  <2>1. Head(queue) \in Datagrams /\ Tail(queue) \in Seq(Datagrams)
    BY <1>2 DEF ReceiveDatagram
  <2>2. Received(buf, Head(queue)) \in Buffer
    BY <2>1, ReceivedType, NetworkAssumption
  <2>3. armed' \in BOOLEAN /\ hasty' \in BOOLEAN
    BY <1>2, Zenon DEF ReceiveDatagram
  <2>4. QED
    BY <1>2, <2>1, <2>2, <2>3 DEF ReceiveDatagram
<1>3. CASE RunReturns
  BY <1>3 DEF RunReturns
<1>4. CASE HandlerHasNoServer
  <2>1. alive' \in BOOLEAN
    BY <1>4, Zenon DEF HandlerHasNoServer
  <2>2. QED
    BY <1>4, <2>1 DEF HandlerHasNoServer
<1>5. CASE HandleReceive
  <2>1. /\ Copy(read_buf, buf) \in Buffer
        /\ TokenOf(Copy(read_buf, buf)) \in TokenString
        /\ Command(Copy(read_buf, buf)) \in {Start, Stop, Rejected}
    BY ParserTypes
  <2>2. QED
    BY <1>5, <2>1 DEF HandleReceive, parseRequest, KeepsToken, Returns
<1>6. CASE ApplyResult
  <2>1. /\ polling' \in BOOLEAN
        /\ started' \in BOOLEAN
    <3>1. CASE result = Rejected
      BY <1>6, <3>1, Zenon DEF ApplyResult, CommandIsCarriedOut
    <3>2. CASE result # Rejected
      BY <1>6, <3>2, Zenon DEF ApplyResult, CommandIsCarriedOut
    <3>3. QED
      BY <3>1, <3>2
  <2>2. armed' \in BOOLEAN
    BY <1>6, Zenon DEF ApplyResult, CommandIsCarriedOut
  <2>3. QED
    BY <1>6, <2>1, <2>2 DEF ApplyResult, CommandIsCarriedOut
<1>7. CASE LoadServer
  <2>1. socketPc' \in SocketPc
    BY <1>7 DEF LoadServer
  <2>2. QED
    BY <1>7, <2>1 DEF LoadServer
<1>8. QED
  BY Socket, <1>1, <1>2, <1>3, <1>4, <1>5, <1>6, <1>7 DEF Socket

\* No step of the network, of ROS or of a caller of stopPolling leaves the types.
LEMMA EnvironmentTypes == ASSUME TypeOK, Environment PROVE TypeOK'
<1>. USE DEF TypeOK, vars, serverVars, serviceVars, socketVars, historyVars, Ros
<1>1. ASSUME NEW d \in Datagrams, Send(d)
      PROVE  TypeOK'
  BY <1>1 DEF Send
<1>2. CASE Shutdown
  BY <1>2 DEF Shutdown, RosShutdown
<1>3. CASE ReceiveFails
  <2>1. armed' \in BOOLEAN
    BY <1>3, Zenon DEF ReceiveFails
  <2>2. QED
    BY <1>3, <2>1 DEF ReceiveFails
<1>4. CASE stopPolling
  <2>1. polling' \in BOOLEAN
    BY <1>4, Zenon DEF stopPolling
  <2>2. QED
    BY <1>4, <2>1 DEF stopPolling
<1>5. CASE StopShutsDown
  BY <1>5 DEF StopShutsDown, RosShutdown
<1>6. QED
  BY Environment, <1>1, <1>2, <1>3, <1>4, <1>5 DEF Environment

\* Every variable keeps a value of its type in every step.
LEMMA NextTypes == ASSUME TypeOK, [Next]_vars PROVE TypeOK'
<1>1. CASE UNCHANGED vars
  BY <1>1 DEF TypeOK, vars, serverVars, serviceVars, socketVars, historyVars
<1>2. CASE Next
  BY <1>2, MainTypes, ServiceTypes, SocketTypes, EnvironmentTypes DEF Next
<1>3. QED
  BY <1>1, <1>2

\* The constructors and start() preserve the invariant.
LEMMA MainInductive == ASSUME Inductive, Main, TypeOK' PROVE Inductive'
<1>. USE DEF Inductive, ThreadOrder, CommandHistory, ReceiveOutstanding, WholeIsReceived,
             MappingOnlyOnRequest, LastCommandWins, PollingIsCleared,
             WholeRequestSpeaksForItself, CommandNeedsVerifiedToken, DeafOnlyAfterFailure,
             serverVars, serviceVars, socketVars, historyVars
<1>. USE DEF MainAt, MainPc, TypeOK
<1>1. CASE SpawnService
  BY <1>1 DEF SpawnService
<1>2. CASE InitMembers
  BY <1>2 DEF InitMembers
<1>3. CASE CtorRosInit
  BY <1>3 DEF CtorRosInit
<1>4. CASE CtorArgs
  BY <1>4 DEF CtorArgs
<1>5. CASE CtorPolling
  BY <1>5 DEF CtorPolling
<1>6. CASE BindFails
  BY <1>6 DEF BindFails
<1>7. CASE SpawnSocket
  BY <1>7 DEF SpawnSocket
<1>8. CASE SetLidarServer
  BY <1>8 DEF SetLidarServer
<1>9. CASE start
  BY <1>9 DEF start
<1>10. QED
  BY <1>1, <1>2, <1>3, <1>4, <1>5, <1>6, <1>7, <1>8, <1>9 DEF Main

\* startPolling preserves the invariant.
LEMMA ServiceInductive == ASSUME Inductive, Service, TypeOK' PROVE Inductive'
<1>. USE DEF Inductive, ThreadOrder, CommandHistory, ReceiveOutstanding, WholeIsReceived,
             MappingOnlyOnRequest, LastCommandWins, PollingIsCleared,
             WholeRequestSpeaksForItself, CommandNeedsVerifiedToken, DeafOnlyAfterFailure,
             serverVars, serviceVars, socketVars, historyVars
<1>. USE DEF ServiceAt, ServicePc
<1>1. CASE LeaveWait
  BY <1>1 DEF LeaveWait
<1>2. CASE ServiceRosInit
  BY <1>2 DEF ServiceRosInit
<1>3. CASE ServiceRosInitFaults
  BY <1>3 DEF ServiceRosInitFaults
<1>4. CASE Advertise
  BY <1>4 DEF Advertise
<1>5. CASE BeginPolling
  BY <1>5 DEF BeginPolling
<1>6. CASE CheckRos
  BY <1>6 DEF CheckRos
<1>7. CASE EndPolling
  BY <1>7 DEF EndPolling
<1>8. CASE Publish
  BY <1>8 DEF Publish
<1>9. CASE LoadArgs
  BY <1>9 DEF LoadArgs
<1>10. QED
  BY <1>1, <1>2, <1>3, <1>4, <1>5, <1>6, <1>7, <1>8, <1>9 DEF Service

\* What parseRequest does with a whole datagram, whatever read_buf and token are.
LEMMA WholeIsParsed ==
    ASSUME TypeOK, Whole(datagram), buf = Cells(datagram)
    PROVE  Complete(buf) /\ Copy(read_buf, buf) = Cells(datagram)
<1>1. Complete(buf) /\ Copied(buf) = Index
  BY DEF Whole
<1>2. Copy(read_buf, buf) = buf
  BY <1>1, FullCopy DEF TypeOK
<1>3. QED
  BY <1>1, <1>2

\* The socket thread preserves the invariant.
LEMMA SocketInductive == ASSUME Inductive, Socket, TypeOK' PROVE Inductive'
<1>. USE DEF Inductive, ThreadOrder, CommandHistory, ReceiveOutstanding, WholeIsReceived,
             MappingOnlyOnRequest, LastCommandWins, PollingIsCleared,
             WholeRequestSpeaksForItself, CommandNeedsVerifiedToken, DeafOnlyAfterFailure,
             serverVars, serviceVars, socketVars, historyVars
<1>. USE DEF SocketAt, SocketPc
<1>1. CASE initialize
  BY <1>1 DEF initialize, start_receive
<1>2. CASE ReceiveDatagram
  <2>1. Head(queue) \in Datagrams
    BY <1>2 DEF ReceiveDatagram, TypeOK
  <2>2. WholeIsReceived'
    <3>1. SUFFICES ASSUME Whole(Head(queue))
                   PROVE  Received(buf, Head(queue)) = Cells(Head(queue))
      BY <1>2 DEF ReceiveDatagram
    <3>2. QED
      BY <2>1, <3>1, LongDatagramFills, NetworkAssumption DEF Whole, TypeOK
  <2>3. QED
    BY <1>2, <2>2 DEF ReceiveDatagram
<1>3. CASE RunReturns
  BY <1>3 DEF RunReturns
<1>4. CASE HandlerHasNoServer
  BY <1>4 DEF HandlerHasNoServer
<1>5. CASE HandleReceive
  <2>1. PICK verified \in BOOLEAN :
          /\ verified => LooksUp /\ TokenOf(Copy(read_buf, buf)) \in ValidTokens
          /\ parseRequest(verified)
    BY <1>5 DEF HandleReceive
  <2>. DEFINE copied == Copy(read_buf, buf)
  <2>2. token' \in ValidTokens \cup {EmptyToken}
    BY <2>1 DEF parseRequest, KeepsToken, Returns
  <2>3. result' # Rejected => token' \in ValidTokens
    BY <2>1 DEF parseRequest, KeepsToken, Returns, LooksUp
  <2>4. Whole(datagram) => \/ result' = Command(Cells(datagram))
                           \/ result' = Rejected /\ token' = EmptyToken
    <3>1. SUFFICES ASSUME Whole(datagram)
                   PROVE  \/ result' = Command(Cells(datagram))
                          \/ result' = Rejected /\ token' = EmptyToken
      OBVIOUS
    <3>2. Complete(buf) /\ copied = Cells(datagram)
      BY <1>5, <3>1, WholeIsParsed DEF HandleReceive
    <3>3. CASE LooksUp => verified
      BY <2>1, <3>2, <3>3 DEF parseRequest, KeepsToken, Returns
    <3>4. CASE LooksUp /\ ~verified
      BY <2>1, <3>4 DEF parseRequest, KeepsToken, Returns, LooksUp
    <3>5. QED
      BY <3>3, <3>4
  <2>5. QED
    BY <1>5, <2>2, <2>3, <2>4 DEF HandleReceive
<1>6. CASE ApplyResult
  BY <1>6 DEF ApplyResult, CommandIsCarriedOut, start_receive, Start, Stop, Rejected, TypeOK
<1>7. CASE LoadServer
  BY <1>7 DEF LoadServer
<1>8. QED
  BY <1>1, <1>2, <1>3, <1>4, <1>5, <1>6, <1>7 DEF Socket

\* The environment preserves the invariant.
LEMMA EnvironmentInductive == ASSUME Inductive, Environment, TypeOK' PROVE Inductive'
<1>. USE DEF Inductive, ThreadOrder, CommandHistory, ReceiveOutstanding, WholeIsReceived,
             MappingOnlyOnRequest, LastCommandWins, PollingIsCleared,
             WholeRequestSpeaksForItself, CommandNeedsVerifiedToken, DeafOnlyAfterFailure,
             serverVars, serviceVars, socketVars, historyVars
<1>1. ASSUME NEW d \in Datagrams, Send(d)
      PROVE  Inductive'
  BY <1>1 DEF Send
<1>2. CASE Shutdown
  BY <1>2 DEF Shutdown
<1>3. CASE ReceiveFails
  BY <1>3 DEF ReceiveFails
<1>4. CASE stopPolling
  BY <1>4 DEF stopPolling
<1>5. CASE StopShutsDown
  BY <1>5 DEF StopShutsDown
<1>6. QED
  BY <1>1, <1>2, <1>3, <1>4, <1>5 DEF Environment

\* Every step of every thread and of the environment preserves the invariant.
LEMMA NextInductive == Inductive /\ [Next]_vars => Inductive'
<1> SUFFICES ASSUME Inductive, [Next]_vars
             PROVE  Inductive'
  OBVIOUS
<1>1. TypeOK'
  BY NextTypes DEF Inductive
<1>2. CASE UNCHANGED vars
  BY <1>1, <1>2
  DEF Inductive, ThreadOrder, CommandHistory, ReceiveOutstanding, WholeIsReceived,
      MappingOnlyOnRequest, LastCommandWins, PollingIsCleared,
      WholeRequestSpeaksForItself, CommandNeedsVerifiedToken, DeafOnlyAfterFailure,
      vars, serverVars, serviceVars, socketVars, historyVars
<1>3. CASE Next
  BY <1>1, <1>3, MainInductive, ServiceInductive, SocketInductive, EnvironmentInductive
  DEF Next
<1>4. QED
  BY <1>2, <1>3

\* The invariant holds in every reachable state, in every order of the threads' steps.
THEOREM InductiveInvariant == Spec => []Inductive
  BY InitInductive, NextInductive, PTL DEF Spec

-----------------------------------------------------------------------------
(***************************************************************************)
(* The invariants the runs check.                                          *)
(***************************************************************************)

\* Every variable has a value of its type: startPolling writes inside the sweep.
THEOREM TypeCorrect == Spec => []TypeOK
<1>1. Inductive => TypeOK
  BY DEF Inductive
<1>2. QED
  BY <1>1, InductiveInvariant, PTL

\* The service thread scans only after a start request, or because it left its wait
\* before the constructor had set initialized.
THEOREM ScansOnRequest == Spec => []MappingOnlyOnRequest
<1>1. Inductive => MappingOnlyOnRequest
  BY DEF Inductive
<1>2. QED
  BY <1>1, InductiveInvariant, PTL

\* polling is what the last command carried out asked for.
THEOREM CommandsAreNotLost == Spec => []LastCommandWins
<1>1. Inductive => LastCommandWins
  BY DEF Inductive
<1>2. QED
  BY <1>1, InductiveInvariant, PTL

\* A whole request is answered by its own flags, whatever the arrays held before it.
THEOREM WholeRequestsAreOwn == Spec => []WholeRequestSpeaksForItself
<1>1. Inductive => WholeRequestSpeaksForItself
  BY DEF Inductive
<1>2. QED
  BY <1>1, InductiveInvariant, PTL

\* No request is accepted before a look-up has succeeded.
THEOREM CommandsAreVerified == Spec => []CommandNeedsVerifiedToken
<1>1. Inductive => CommandNeedsVerifiedToken
  BY DEF Inductive
<1>2. QED
  BY <1>1, InductiveInvariant, PTL

\* The socket thread ends only because a receive failed.
THEOREM StaysArmed == Spec => []DeafOnlyAfterFailure
<1>1. Inductive => DeafOnlyAfterFailure
  BY DEF Inductive
<1>2. QED
  BY <1>1, InductiveInvariant, PTL

-----------------------------------------------------------------------------
(***************************************************************************)
(* The action properties.                                                  *)
(***************************************************************************)

\* Once start() runs no other step of main is left, and a thread that takes lidar_server,
\* argc or argv now finds them set.
LEMMA RunningStepIsSafe ==
    ASSUME TypeOK, ThreadOrder, [Next]_vars, alive, mainPc = "spin", ~early, ~hasty
    PROVE  alive'
<1>1. CASE UNCHANGED vars
  BY <1>1 DEF vars
<1>2. CASE Main
  BY <1>2
  DEF Main, SpawnService, InitMembers, CtorRosInit, CtorArgs, CtorPolling, BindFails,
      SpawnSocket, SetLidarServer, start, MainAt
<1>3. CASE Service
  BY <1>3
  DEF Service, LeaveWait, LoadArgs, ServiceRosInit, ServiceRosInitFaults, Advertise,
      BeginPolling, CheckRos, EndPolling, Publish, ThreadOrder
<1>4. CASE Socket
  BY <1>4
  DEF Socket, initialize, ReceiveDatagram, RunReturns, LoadServer, HandlerHasNoServer,
      HandleReceive, ApplyResult, CommandIsCarriedOut, ThreadOrder
<1>5. CASE Environment
  BY <1>5 DEF Environment, Send, Shutdown, ReceiveFails, stopPolling, StopShutsDown
<1>6. QED
  BY <1>1, <1>2, <1>3, <1>4, <1>5 DEF Next

\* Only parseRequest ever changes the token: to the verified token of the request it is
\* given, and only as long as it is empty.
LEMMA TokenStep ==
    ASSUME Inductive, [Next]_vars, token' # token
    PROVE  /\ token = EmptyToken
           /\ token' \in ValidTokens
           /\ Whole(datagram) => token' = TokenOf(Cells(datagram))
<1>1. HandleReceive
  <2>1. CASE UNCHANGED vars
    BY <2>1 DEF vars, serverVars
  <2>2. CASE Main
    <3>1. CASE CtorArgs
      BY <3>1 DEF CtorArgs, MainAt, Inductive, ThreadOrder, CommandHistory
    <3>2. QED
      BY <2>2, <3>1
      DEF Main, SpawnService, InitMembers, CtorRosInit, CtorPolling, BindFails,
          SpawnSocket, SetLidarServer, start, serverVars
  <2>3. CASE Service
    BY <2>3
    DEF Service, LeaveWait, LoadArgs, ServiceRosInit, ServiceRosInitFaults, Advertise,
        BeginPolling, CheckRos, EndPolling, Publish, serverVars
  <2>4. CASE Socket
    BY <2>4
    DEF Socket, initialize, ReceiveDatagram, RunReturns, LoadServer, HandlerHasNoServer,
        ApplyResult, CommandIsCarriedOut, serverVars
  <2>5. CASE Environment
    BY <2>5 DEF Environment, Send, Shutdown, ReceiveFails, stopPolling, StopShutsDown, serverVars
  <2>6. QED
    BY <2>1, <2>2, <2>3, <2>4, <2>5 DEF Next
<1>2. PICK verified \in BOOLEAN :
        /\ verified => LooksUp /\ TokenOf(Copy(read_buf, buf)) \in ValidTokens
        /\ parseRequest(verified)
  BY <1>1 DEF HandleReceive
<1>3. /\ LooksUp /\ token' = TokenOf(Copy(read_buf, buf))
      /\ TokenOf(Copy(read_buf, buf)) \in ValidTokens
  BY <1>2 DEF parseRequest, KeepsToken, Returns
<1>4. Whole(datagram) => Copy(read_buf, buf) = Cells(datagram)
  BY <1>1, WholeIsParsed DEF Inductive, WholeIsReceived, HandleReceive, SocketAt
<1>5. QED
  BY <1>3, <1>4 DEF LooksUp

\* Once start() runs, no step of a thread aborts the process, unless that thread set to
\* work before the constructors were through.
THEOREM NeverAborts == Spec => RunningNeverAborts
<1>1. Inductive /\ [Next]_vars =>
        [alive /\ mainPc = "spin" /\ ~early /\ ~hasty => alive']_vars
  BY RunningStepIsSafe DEF Inductive
<1>2. QED
  BY <1>1, InductiveInvariant, PTL DEF Spec, RunningNeverAborts

\* The token the server knows is set once, to a verified one, and to the one of the request
\* that is being handled when that is whole.
THEOREM TokenSetOnce == Spec => TokenIsVerifiedOnce
<1>1. Inductive /\ [Next]_vars =>
        [token' # token =>
            /\ token = EmptyToken
            /\ token' \in ValidTokens
            /\ Whole(datagram) => token' = TokenOf(Cells(datagram))]_vars
  BY TokenStep
<1>2. QED
  BY <1>1, InductiveInvariant, PTL DEF Spec, TokenIsVerifiedOnce

=============================================================================
