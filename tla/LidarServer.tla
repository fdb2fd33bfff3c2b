---------------------------- MODULE LidarServer ----------------------------
(***************************************************************************)
(* The lidar publisher node: the three threads of the process and the      *)
(* objects they share.                                                     *)
(*                                                                         *)
(*   main     lidarserver's constructor, the sockethandler's constructor   *)
(*            inside it, then start()                                      *)
(*   service  lidarserver::startPolling, started by the constructor's      *)
(*            initialiser list, before the members it reads are set        *)
(*   socket   sockethandler::initialize: start_receive and the io_service  *)
(*            loop that calls handle_receive                               *)
(*                                                                         *)
(* The environment is the network (any sequence of datagrams: lost,        *)
(* duplicated and reordered ones are among them), ROS, which may shut the  *)
(* node down, and the token database, of which only the answer matters     *)
(* here (module VerifyToken has the call).                                 *)
(***************************************************************************)
EXTENDS RequestParser

CONSTANTS
    ScanSize,       \* positions of one sweep: 360 in the code
    ValidTokens,    \* tokens the database may hold a live row for
    Datagrams,      \* datagrams the network may deliver
    SocketQueue,    \* bound: datagrams the kernel holds for the socket
    Garbage,        \* values an uninitialised bool may be read as
    FreshBuffers,   \* contents an uninitialised array may have
    HasStopCaller   \* does a program that links the library call stopPolling?

ASSUME ScanAssumption == ScanSize \in Nat \ {0}
ASSUME TokensAssumption == ValidTokens \subseteq TokenString
ASSUME NetworkAssumption == Datagrams \subseteq Datagram /\ SocketQueue \in Nat \ {0}
ASSUME MemoryAssumption == Garbage \subseteq BOOLEAN /\ FreshBuffers \subseteq Buffer
ASSUME CallerAssumption == HasStopCaller \in BOOLEAN

VARIABLES
    alive,          \* FALSE once the process was aborted
    mainPc, servicePc, socketPc, callerPc,
    \* members of lidarserver
    initialized, polling, argsSet, token, read_buf,
    \* locals of startPolling, and what it published last
    scan_position, scan,
    \* members of sockethandler; "buf" is its read_buf, "armed" whether
    \* a receive is outstanding, "result" what parseRequest returned
    lidar_server, buf, armed, result,
    \* the environment
    ros, queue,
    \* history: the last datagram received, whether a receive failed,
    \* whether the service thread left its wait before start() ended it,
    \* whether the last datagram was received before the constructor of the
    \* sockethandler was through, the last command carried out and whether
    \* a start ever was
    datagram, failed, early, hasty, lastCommand, started

serverVars == <<initialized, polling, argsSet, token, read_buf>>
serviceVars == <<servicePc, scan_position, scan>>
socketVars == <<socketPc, lidar_server, buf, armed, result>>
historyVars == <<datagram, failed, early, hasty, lastCommand, started>>
vars == <<alive, mainPc, callerPc, serverVars, serviceVars, socketVars, ros, queue,
          historyVars>>

-----------------------------------------------------------------------------
MainPc == {"construct", "members", "body", "args", "polling", "socket", "handler",
           "start", "spin"}
ServicePc == {"none", "wait", "args", "init", "initGarbage", "advertise", "idle", "check",
              "publish"}
SocketPc == {"none", "arm", "run", "handle", "parse", "parseNull", "apply", "returned"}
Ros == {"none", "init", "started", "down"}

Position == 0 .. ScanSize - 1

(***************************************************************************)
(* operator new leaves the memory of the two objects as it was: the bools  *)
(* and the socket handler's array hold anything until they are set.        *)
(***************************************************************************)
Init ==
    /\ alive = TRUE
    /\ mainPc = "construct" /\ servicePc = "none" /\ socketPc = "none"
    /\ callerPc = "idle"
    /\ initialized \in Garbage /\ polling \in Garbage
    /\ argsSet = FALSE
    /\ token = EmptyToken
    /\ read_buf \in FreshBuffers
    /\ scan_position = 0 /\ scan = -1
    /\ lidar_server = FALSE /\ armed = FALSE /\ result = Rejected
    /\ buf \in FreshBuffers
    /\ ros = "none" /\ queue = <<>>
    /\ datagram = <<>> /\ failed = FALSE /\ early = FALSE /\ hasty = FALSE
    /\ lastCommand = "none" /\ started = FALSE

Abort == alive /\ alive' = FALSE

-----------------------------------------------------------------------------
(***************************************************************************)
(* ROS, modelled from how the code uses it.  ros::init only has an effect  *)
(* the first time; the first NodeHandle starts the node; a SIGINT, a kill  *)
(* command or ros::shutdown shuts a started node down, for good, and does  *)
(* nothing that lasts to one that is yet to be started; ros::ok is TRUE    *)
(* from init to shutdown; publish does nothing after it.                   *)
(***************************************************************************)
RosInit == ros' = IF ros = "none" THEN "init" ELSE ros
RosStart == ros' = IF ros = "init" THEN "started" ELSE ros
RosShutdown == ros' = IF ros = "started" THEN "down" ELSE ros
RosOk == ros \in {"init", "started"}

Shutdown ==
    /\ alive
    /\ RosShutdown
    /\ UNCHANGED <<alive, mainPc, callerPc, serverVars, serviceVars, socketVars, queue,
                   historyVars>>

\* The kernel queues what arrives from the moment the sockethandler bound the port, and
\* drops what finds the queue full.
Send(d) ==
    /\ alive /\ mainPc \in {"handler", "start", "spin"}
    /\ Len(queue) < SocketQueue
    /\ queue' = Append(queue, d)
    /\ UNCHANGED <<alive, mainPc, callerPc, serverVars, serviceVars, socketVars, ros,
                   historyVars>>

(***************************************************************************)
(* lidarserver::stopPolling, which only a program that links the library   *)
(* can call, once it has constructed the server: the node itself has no    *)
(* caller of it.                                                           *)
(***************************************************************************)
stopPolling ==
    /\ HasStopCaller /\ alive /\ mainPc \in {"start", "spin"}
    /\ callerPc = "idle" /\ callerPc' = "shutdown"
    /\ polling' = FALSE
    /\ lastCommand' = "stop"
    /\ UNCHANGED <<alive, mainPc, initialized, argsSet, token, read_buf, serviceVars,
                   socketVars, ros, queue, datagram, failed, early, hasty, started>>

StopShutsDown ==
    /\ alive
    /\ callerPc = "shutdown" /\ callerPc' = "idle"
    /\ RosShutdown
    /\ UNCHANGED <<alive, mainPc, serverVars, serviceVars, socketVars, queue, historyVars>>

-----------------------------------------------------------------------------
(***************************************************************************)
(* The main thread.  service_thread is declared before initialized, so it  *)
(* runs while initialized, argc, argv and polling are still garbage.       *)
(***************************************************************************)
MainAt(from, to) == alive /\ mainPc = from /\ mainPc' = to

SpawnService ==
    /\ MainAt("construct", "members")
    /\ servicePc' = "wait"
    /\ UNCHANGED <<alive, callerPc, serverVars, scan_position, scan, socketVars, ros,
                   queue, historyVars>>

InitMembers ==
    /\ MainAt("members", "body")
    /\ initialized' = FALSE
    /\ UNCHANGED <<alive, callerPc, polling, argsSet, token, read_buf, serviceVars,
                   socketVars, ros, queue, historyVars>>

CtorRosInit ==
    /\ MainAt("body", "args")
    /\ read_buf' = [i \in Index |-> "NUL"]
    /\ RosInit
    /\ UNCHANGED <<alive, callerPc, initialized, polling, argsSet, token, serviceVars,
                   socketVars, queue, historyVars>>

CtorArgs ==
    /\ MainAt("args", "polling")
    /\ token' = EmptyToken
    /\ argsSet' = TRUE
    /\ UNCHANGED <<alive, callerPc, initialized, polling, read_buf, serviceVars,
                   socketVars, ros, queue, historyVars>>

\* Mutant: the constructor does not clear polling.
CtorPollingLeftOut ==
    /\ MainAt("polling", "socket")
    /\ UNCHANGED <<alive, callerPc, serverVars, serviceVars, socketVars, ros, queue,
                   historyVars>>

CtorPolling ==
    /\ MainAt("polling", "socket")
    /\ polling' = FALSE
    /\ UNCHANGED <<alive, callerPc, initialized, argsSet, token, read_buf, serviceVars,
                   socketVars, ros, queue, historyVars>>

(***************************************************************************)
(* The sockethandler binds the port in its initialiser list; the exception *)
(* of a port that is taken has no handler anywhere and ends the process.   *)
(* Its thread, too, starts before the body sets lidar_server.              *)
(***************************************************************************)
BindFails ==
    /\ mainPc = "socket"
    /\ Abort
    /\ UNCHANGED <<mainPc, callerPc, serverVars, serviceVars, socketVars, ros, queue,
                   historyVars>>

SpawnSocket ==
    /\ MainAt("socket", "handler")
    /\ socketPc' = "arm"
    /\ UNCHANGED <<alive, callerPc, serverVars, serviceVars, lidar_server, buf, armed,
                   result, ros, queue, historyVars>>

\* Mutant: the handler's constructor does not keep the server it is given.
SetLidarServerLeftOut ==
    /\ MainAt("handler", "start")
    /\ UNCHANGED <<alive, callerPc, serverVars, serviceVars, socketVars, ros, queue,
                   historyVars>>

SetLidarServer ==
    /\ MainAt("handler", "start")
    /\ lidar_server' = TRUE
    /\ UNCHANGED <<alive, callerPc, serverVars, serviceVars, socketPc, buf, armed, result,
                   ros, queue, historyVars>>

\* Mutant: start() clears polling, which a request may have set by then.
startOver ==
    /\ MainAt("start", "spin")
    /\ initialized' = TRUE
    /\ polling' = FALSE
    /\ UNCHANGED <<alive, callerPc, argsSet, token, read_buf, serviceVars, socketVars, ros,
                   queue, historyVars>>

start ==
    /\ MainAt("start", "spin")
    /\ initialized' = TRUE
    /\ UNCHANGED <<alive, callerPc, polling, argsSet, token, read_buf, serviceVars,
                   socketVars, ros, queue, historyVars>>

Main ==
    \/ SpawnService \/ InitMembers \/ CtorRosInit \/ CtorArgs \/ CtorPolling
    \/ BindFails \/ SpawnSocket \/ SetLidarServer \/ start

-----------------------------------------------------------------------------
(***************************************************************************)
(* The service thread: startPolling.                                       *)
(***************************************************************************)
ServiceAt(from, to) == alive /\ servicePc = from /\ servicePc' = to

LeaveWait ==
    /\ ServiceAt("wait", "args")
    /\ initialized
    /\ early' = (mainPc # "spin")
    /\ UNCHANGED <<alive, mainPc, callerPc, serverVars, scan_position, scan, socketVars,
                   ros, queue, datagram, failed, hasty, lastCommand, started>>

\* The call of ros::init takes argc and argv as they are now, and uses them later.
LoadArgs ==
    /\ alive /\ servicePc = "args"
    /\ servicePc' = IF argsSet THEN "init" ELSE "initGarbage"
    /\ UNCHANGED <<alive, mainPc, callerPc, serverVars, scan_position, scan, socketVars,
                   ros, queue, historyVars>>

\* With garbage for argc and argv the call reads through a wild pointer: it may survive.
ServiceRosInit ==
    /\ ServiceAt("init", "advertise") \/ ServiceAt("initGarbage", "advertise")
    /\ RosInit
    /\ UNCHANGED <<alive, mainPc, callerPc, serverVars, scan_position, scan, socketVars,
                   queue, historyVars>>

ServiceRosInitFaults ==
    /\ servicePc = "initGarbage"
    /\ Abort
    /\ UNCHANGED <<mainPc, callerPc, serverVars, serviceVars, socketVars, ros, queue,
                   historyVars>>

Advertise ==
    /\ ServiceAt("advertise", "idle")
    /\ RosStart
    /\ UNCHANGED <<alive, mainPc, callerPc, serverVars, scan_position, scan, socketVars,
                   queue, historyVars>>

\* Mutant: the service thread does not wait for polling.
BeginPollingUnasked ==
    /\ ServiceAt("idle", "check")
    /\ scan_position' = 0
    /\ UNCHANGED <<alive, mainPc, callerPc, serverVars, scan, socketVars, ros, queue,
                   historyVars>>

BeginPolling ==
    /\ ServiceAt("idle", "check")
    /\ polling
    /\ scan_position' = 0
    /\ UNCHANGED <<alive, mainPc, callerPc, serverVars, scan, socketVars, ros, queue,
                   historyVars>>

\* Mutant: the inner loop does not ask ros::ok.
CheckRosLeftOut ==
    /\ ServiceAt("check", "publish")
    /\ UNCHANGED <<alive, mainPc, callerPc, serverVars, scan_position, scan, socketVars,
                   ros, queue, historyVars>>

CheckRos ==
    /\ ServiceAt("check", "publish")
    /\ RosOk
    /\ UNCHANGED <<alive, mainPc, callerPc, serverVars, scan_position, scan, socketVars,
                   ros, queue, historyVars>>

EndPolling ==
    /\ ServiceAt("check", "idle")
    /\ ~RosOk
    /\ initialized' = FALSE
    /\ UNCHANGED <<alive, mainPc, callerPc, polling, argsSet, token, read_buf,
                   scan_position, scan, socketVars, ros, queue, historyVars>>

\* Mutants: the sweep wraps one position late; it starts again at position 1.
NextPositionLate(p) == IF p + 1 > ScanSize THEN p + 1 - ScanSize ELSE p + 1
NextPositionFromOne(p) == IF p + 1 >= ScanSize THEN 1 ELSE p + 1

NextPosition(p) == IF p + 1 >= ScanSize THEN p + 1 - ScanSize ELSE p + 1

Publish ==
    /\ ServiceAt("publish", "check")
    /\ scan' = IF RosOk THEN scan_position ELSE scan
    /\ scan_position' = NextPosition(scan_position)
    /\ UNCHANGED <<alive, mainPc, callerPc, serverVars, socketVars, ros, queue,
                   historyVars>>

Service ==
    \/ LeaveWait \/ LoadArgs \/ ServiceRosInit \/ ServiceRosInitFaults \/ Advertise
    \/ BeginPolling \/ CheckRos \/ EndPolling \/ Publish

-----------------------------------------------------------------------------
(***************************************************************************)
(* The socket thread: sockethandler::initialize and what it calls.         *)
(***************************************************************************)
SocketAt(from, to) == alive /\ socketPc = from /\ socketPc' = to

start_receive == armed' = TRUE

initialize ==
    /\ SocketAt("arm", "run")
    /\ start_receive
    /\ UNCHANGED <<alive, mainPc, callerPc, serverVars, serviceVars, lidar_server, buf,
                   result, ros, queue, historyVars>>

ReceiveDatagram ==
    /\ SocketAt("run", "handle")
    /\ armed /\ queue # <<>>
    /\ armed' = FALSE
    /\ buf' = Received(buf, Head(queue))
    /\ queue' = Tail(queue)
    /\ datagram' = Head(queue)
    /\ hasty' = (mainPc = "handler")
    /\ UNCHANGED <<alive, mainPc, callerPc, serverVars, serviceVars, lidar_server, result,
                   ros, failed, early, lastCommand, started>>

\* handle_receive with an error: it prints a message and does not receive again.
ReceiveFails ==
    /\ alive /\ socketPc = "run" /\ armed
    /\ armed' = FALSE
    /\ failed' = TRUE
    /\ UNCHANGED <<alive, mainPc, callerPc, serverVars, serviceVars, socketPc,
                   lidar_server, buf, result, ros, queue, datagram, early, hasty,
                   lastCommand, started>>

\* io_service::run returns when nothing is outstanding, and the thread ends.
RunReturns ==
    /\ SocketAt("run", "returned")
    /\ ~armed
    /\ UNCHANGED <<alive, mainPc, callerPc, serverVars, serviceVars, lidar_server, buf,
                   armed, result, ros, queue, historyVars>>

\* shared_ptr's operator-> takes the pointer there is, and asserts that it is not null.
LoadServer ==
    /\ alive /\ socketPc = "handle"
    /\ socketPc' = IF lidar_server THEN "parse" ELSE "parseNull"
    /\ UNCHANGED <<alive, mainPc, callerPc, serverVars, serviceVars, lidar_server, buf,
                   armed, result, ros, queue, historyVars>>

HandlerHasNoServer ==
    /\ socketPc = "parseNull"
    /\ Abort
    /\ UNCHANGED <<mainPc, callerPc, serverVars, serviceVars, socketVars, ros, queue,
                   historyVars>>

\* The token is looked up when none is known yet.
LooksUp == Complete(buf) /\ token = EmptyToken

\* Mutants: the token is kept before it is looked up; it, or the flags, are taken out of
\* read_buf before the request is copied.
KeepsUnverified(verified, copied) ==
    token' = IF LooksUp THEN TokenOf(copied) ELSE token

KeepsOld(verified, copied) ==
    token' = IF LooksUp /\ verified THEN TokenOf(read_buf) ELSE token

ReturnsOld(verified, copied) ==
    result' = IF Complete(buf) /\ (LooksUp => verified) THEN Command(read_buf) ELSE Rejected

KeepsToken(verified, copied) ==
    token' = IF LooksUp /\ verified THEN TokenOf(copied) ELSE token

Returns(verified, copied) ==
    result' = IF Complete(buf) /\ (LooksUp => verified) THEN Command(copied) ELSE Rejected

(***************************************************************************)
(* parseRequest.  The token is looked up when none is known yet, before    *)
(* the flags are looked at, and is kept whatever they turn out to be.  A   *)
(* look-up succeeds only for a token with a live row, and may always fail. *)
(***************************************************************************)
parseRequest(verified) ==
    LET copied == Copy(read_buf, buf)
    IN  read_buf' = copied /\ KeepsToken(verified, copied) /\ Returns(verified, copied)

HandleReceive ==
    /\ SocketAt("parse", "apply")
    /\ \E verified \in BOOLEAN :
        /\ verified => LooksUp /\ TokenOf(Copy(read_buf, buf)) \in ValidTokens
        /\ parseRequest(verified)
    /\ UNCHANGED <<alive, mainPc, callerPc, initialized, polling, argsSet, serviceVars,
                   lidar_server, buf, armed, ros, queue, historyVars>>

\* Mutant: a rejected request clears polling.
CommandOrStop ==
    /\ polling' = (result = Start)
    /\ lastCommand' = CASE result = Start -> "start" [] result = Stop -> "stop"
                        [] OTHER -> lastCommand
    /\ started' = (started \/ result = Start)

CommandIsCarriedOut ==
    /\ polling' = IF result = Rejected THEN polling ELSE result = Start
    /\ lastCommand' = CASE result = Start -> "start" [] result = Stop -> "stop"
                        [] OTHER -> lastCommand
    /\ started' = (started \/ result = Start)

\* Mutant: the branch of a rejected request returns without start_receive.
ApplyRejectionDeaf ==
    /\ SocketAt("apply", "run")
    /\ armed' = (result # Rejected)
    /\ CommandIsCarriedOut
    /\ UNCHANGED <<alive, mainPc, callerPc, initialized, argsSet, token, read_buf,
                   serviceVars, lidar_server, buf, result, ros, queue, datagram, failed,
                   early, hasty>>

\* The rest of handle_receive: every branch ends in start_receive.
ApplyResult ==
    /\ SocketAt("apply", "run")
    /\ start_receive
    /\ CommandIsCarriedOut
    /\ UNCHANGED <<alive, mainPc, callerPc, initialized, argsSet, token, read_buf,
                   serviceVars, lidar_server, buf, result, ros, queue, datagram, failed,
                   early, hasty>>

Socket ==
    \/ initialize \/ ReceiveDatagram \/ RunReturns
    \/ LoadServer \/ HandlerHasNoServer \/ HandleReceive \/ ApplyResult

-----------------------------------------------------------------------------
Environment ==
    \/ \E d \in Datagrams : Send(d)
    \/ Shutdown
    \/ ReceiveFails
    \/ stopPolling \/ StopShutsDown

Next == Main \/ Service \/ Socket \/ Environment

Spec == Init /\ [][Next]_vars

(***************************************************************************)
(* The three threads are preemptive, and none holds a lock: the scheduler  *)
(* runs each of them again and again, also while another one spins.  The   *)
(* environment owes nothing.                                               *)
(***************************************************************************)
Fairness == WF_vars(Main) /\ WF_vars(Service) /\ WF_vars(Socket)

FairSpec == Spec /\ Fairness

-----------------------------------------------------------------------------
(***************************************************************************)
(* Properties.                                                             *)
(***************************************************************************)

\* Every variable has a value of its type; in particular the index startPolling
\* writes ranges[] and intensities[] at is inside the 360 cells they have.
TypeOK ==
    /\ alive \in BOOLEAN
    /\ mainPc \in MainPc /\ servicePc \in ServicePc /\ socketPc \in SocketPc
    /\ callerPc \in {"idle", "shutdown"}
    /\ initialized \in BOOLEAN /\ polling \in BOOLEAN /\ argsSet \in BOOLEAN
    /\ token \in TokenString /\ read_buf \in Buffer
    /\ scan_position \in Position /\ scan \in Position \cup {-1}
    /\ lidar_server \in BOOLEAN /\ armed \in BOOLEAN
    /\ buf \in Buffer /\ result \in {Start, Stop, Rejected}
    /\ ros \in Ros /\ queue \in Seq(Datagrams)
    /\ datagram \in Datagrams \cup {<<>>}
    /\ failed \in BOOLEAN /\ early \in BOOLEAN /\ hasty \in BOOLEAN
    /\ started \in BOOLEAN
    /\ lastCommand \in {"none", "start", "stop"}

\* The service thread scans only if a start request was carried out before: no order in
\* which the three threads start up makes it scan unasked, except that it left its wait
\* on the garbage initialized has before the constructor sets it.
MappingOnlyOnRequest == servicePc \in {"check", "publish"} => started \/ early

\* From the moment the constructor has cleared it, polling is what the last command that
\* was carried out asked for: no command is lost to the constructor, which writes the
\* same flag in another thread, nor to a rejected request.
PollingIsCleared == mainPc \in {"socket", "handler", "start", "spin"}
LastCommandWins == PollingIsCleared => (polling <=> lastCommand = "start")

\* A datagram that holds a whole request is answered by its own flags, whatever earlier
\* requests left in the two arrays, unless the look-up of its token failed.
WholeRequestSpeaksForItself ==
    socketPc = "apply" /\ Whole(datagram) =>
        \/ result = Command(Cells(datagram))
        \/ result = Rejected /\ token = EmptyToken

\* No request is accepted before a look-up in the database has succeeded.
CommandNeedsVerifiedToken == socketPc = "apply" /\ result # Rejected => token \in ValidTokens

\* The token the server knows is set once, to one the database confirmed; when it came in
\* a whole request, it is that request's token and not one an earlier request left behind.
TokenIsVerifiedOnce ==
    [][token' # token =>
        /\ token = EmptyToken
        /\ token' \in ValidTokens
        /\ Whole(datagram) => token' = TokenOf(Cells(datagram))]_vars

\* The socket thread ends only because a receive failed: a request that is rejected, or
\* one that is carried out, leaves a receive outstanding.
DeafOnlyAfterFailure == socketPc = "returned" => failed

\* Once start() runs, only a thread that set to work on an object that was still being
\* constructed can abort the process, with what it took from it then: the socket thread
\* that received a datagram, or the service thread that left its wait, before its time.
RunningNeverAborts == [][alive /\ mainPc = "spin" /\ ~early /\ ~hasty => alive']_vars

\* A start request that is not taken back gets the service thread to scan, whatever that
\* thread was doing when the socket thread set polling.
StartHonoured ==
    lastCommand = "start" ~>
        servicePc \in {"check", "publish"} \/ lastCommand # "start" \/ ros = "down" \/ ~alive

\* While it scans, the service thread comes to every position again and again, until ROS
\* is shut down.
SweepCovers ==
    \A p \in Position : servicePc = "publish" ~> scan = p \/ ros = "down" \/ ~alive

\* After ROS was shut down the service thread, though it keeps running and keeps obeying
\* polling, reaches a point after which it never publishes again.
ShutdownSilences == ros = "down" ~> [](servicePc # "publish" \/ ~alive)

\* As long as no receive fails, datagrams do not pile up in the socket: the handler comes
\* back for the next one after every one it rejected or carried out.
QueueDrains ==
    Len(queue) = SocketQueue ~> Len(queue) < SocketQueue \/ failed \/ ~alive

-----------------------------------------------------------------------------
(***************************************************************************)
(* The node implements MappingSwitch.  A service thread that left its wait *)
(* early, on the garbage in initialized, may read garbage in polling, too: *)
(* it scans as if it had been asked to.                                    *)
(***************************************************************************)
Scanning == ros # "down" /\ servicePc \in {"check", "publish"}

Switch == INSTANCE MappingSwitch WITH
    wanted <- lastCommand = "start" \/ early,
    mode <- IF ros = "down" THEN "over" ELSE IF Scanning THEN "scanning" ELSE "off",
    next <- IF Scanning THEN scan_position ELSE 0,
    last <- scan

\* Requests, the two threads that carry them out and the shutdown of ROS make a switch:
\* no interleaving starts a scan that was not wanted when it started, leaves a position
\* out, publishes after the shutdown or scans again after it.
ImplementsSwitch == Switch!Spec

-----------------------------------------------------------------------------
(***************************************************************************)
(* The inductive invariant behind the safety properties.                   *)
(***************************************************************************)

\* How far the constructor has come when the other threads are where they are.
ThreadOrder ==
    /\ servicePc \notin {"none", "wait"} => early \/ mainPc = "spin"
    /\ socketPc # "none" <=> mainPc \in {"handler", "start", "spin"}
    /\ mainPc \in {"start", "spin"} => lidar_server
    /\ mainPc \notin {"construct", "members", "body", "args"} => argsSet
    /\ servicePc = "initGarbage" => early
    /\ socketPc = "handle" => hasty \/ lidar_server
    /\ socketPc = "parseNull" => hasty

\* What the socket thread has done so far.
CommandHistory ==
    /\ socketPc = "none" => lastCommand = "none" /\ token = EmptyToken
    /\ lastCommand = "start" => started
    /\ token \in ValidTokens \cup {EmptyToken}

ReceiveOutstanding == socketPc = "run" => armed \/ failed

WholeIsReceived ==
    socketPc \in {"handle", "parse"} /\ Whole(datagram) => buf = Cells(datagram)

\* The conjunction that every step of every thread preserves, from which the safety
\* properties above follow.
Inductive ==
    /\ TypeOK
    /\ ThreadOrder
    /\ CommandHistory
    /\ ReceiveOutstanding
    /\ WholeIsReceived
    /\ MappingOnlyOnRequest
    /\ LastCommandWins
    /\ WholeRequestSpeaksForItself
    /\ CommandNeedsVerifiedToken
    /\ DeafOnlyAfterFailure

-----------------------------------------------------------------------------
(***************************************************************************)
(* What the comments of the code say and the code does not do.             *)
(***************************************************************************)

\* lidarserver.cpp:206, "we got Ls, stop mapping": after a stop request that is not taken
\* back, the service thread stops publishing scans.
StopHonoured == <>[](lastCommand = "stop" /\ alive) => <>[](servicePc # "publish")

\* lidarserver.cpp:162, "check if message is error free": a request is accepted only when
\* the datagram it came in holds a complete message.
AcceptedIsComplete ==
    socketPc = "apply" /\ result # Rejected =>
        Len(datagram) >= READ_BUF /\ Complete(Cells(datagram))

\* lidarserver.cpp:133, "parse message and verify token", and sockethandler.cpp:57, "check
\* token": a whole request is accepted only when its own token is one the database knows.
AcceptedTokenIsVerified ==
    socketPc = "apply" /\ result # Rejected /\ Whole(datagram) =>
        TokenOf(Cells(datagram)) \in ValidTokens

=============================================================================
