# The lidar publisher node in TLA+

These modules model `casper_lidar_scanner_driver`, a ROS node that waits for UDP requests
and publishes laser scans while it is asked to, with the two classes of the package that the
node does not use yet. They are checked with TLC on small instances; the safety properties, and
that the node and its token check implement the abstract specifications of them, are also
proved with TLAPS for all values of their constants. Paths below are relative to
`src/casper_lidar_scanner_driver/`.

## 1. The system

### Parts

| part | source | state | operations |
|---|---|---|---|
| lidarserver, threads and flags | `src/lidarserver.cpp:10-131`, `include/lidarserver.hpp`, `src/lidar_server_publisher.cpp` | `initialized`, `polling`, `argc`/`argv`, `token`, `read_buf`; locals of `startPolling` | constructor, `start`, `startPolling`, `stopPolling` |
| lidarserver, requests | `src/lidarserver.cpp:132-213` | `read_buf`, `token` | `parseRequest` |
| sockethandler | `src/sockethandler.cpp` | `read_buf`, `lidar_server`, the receive that is outstanding | constructor, `initialize`, `start_receive`, `handle_receive` (`start` has no caller) |
| lidarserver, tokens | `src/lidarserver.cpp:214-328` | connection, statement, query strings; the table `tokens` | `verifyToken`, `sqlite_open` |
| lidarScanner | `src/lidarScanner.cpp`, `include/lidarScanner.hpp` | serial port, `shutting_down`, `rpms`, the scan being filled | constructor, `poll`, `close` |
| serialhandler | `src/serialhandler.cpp`, `include/serialhandler.hpp` | `port`, `mutex`, `read_buf_raw`, `read_buf_str`, `end_of_line_char`, the reads and threads of its `io_service` | constructor, destructor, `start`, `stop`, `set_eol_char`, `write_string`, `write_bytes`, `async_read`, `on_receive` |
| rosproto, sqlite3, build files | `src/rosproto.cpp`, `src/sqlite3.c`, `makefile` | | not part of the node's logic |

### How they interact

`main` makes one `lidarserver` and calls `start`. Three threads run from then on, and none
of them takes a lock.

- **main** runs the constructor of `lidarserver`, which near its end runs the constructor
  of `sockethandler`; then `start` sets `initialized` and spins for ever.
- **service** runs `startPolling`. It is started by the constructor's initialiser list. It
  spins on `initialized`, sets up ROS, spins on `polling`, and then publishes a scan every
  20 ms for as long as `ros::ok()`.
- **socket** runs `sockethandler::initialize`: it asks for a datagram and runs the
  `io_service`, which calls `handle_receive`. That calls `parseRequest`, sets `polling` from
  its result, and asks for the next datagram.

The environment is the network, ROS (which can shut the node down at any moment after it was
started), and the database file, which other processes write to.

A request is `L`, `S` (start) or `s` (stop), 16 characters of token, CR, LF, EOT. The first
token that a look-up confirms is kept in `token`, and from then on no request is looked up.

### What is hard about it

- *Start-up order.* Both threads are started before the object they work on is complete:
  `service_thread` is declared before `initialized` (`lidarserver.hpp:84-85`), and
  `sockethandler` starts its thread (`:14`) before it sets `lidar_server` (`:17`).
- *Shared flags.* `polling` is written by the constructor and by the socket thread and read
  by the service thread; `initialized` is written by main and by the service thread.
- *Memory that is never cleared.* A datagram is parsed together with what earlier ones left
  in two arrays.
- *Chains that have to be re-armed.* The node hears a request only if `handle_receive` came
  to `start_receive` after the one before.
- *Partial failure.* `verifyToken` is a chain of library calls that can fail, with early
  returns that have a clean-up of their own.
- *Time.* The clock moves and the table changes between the steps of `verifyToken`, and a
  new expiration is computed by hand on the fields of a `struct tm`.
- *An `io_service` that is stopped and started again* (`serialhandler`). Each start makes a
  thread and posts a read; `stop` waits for neither and resets the `io_service` at once, so
  threads and handlers of one start meet the port of the next. `start` and `write_bytes`
  take no lock.
- *A stream that reads cut anywhere* (`lidarScanner`). What a read brings beyond the end of a
  line is dropped with the buffer of its round.

The list of hazards with their lines and the properties that cover them is in
`PROJECT.json`. What makes each part correct:

- threads: nothing scans unasked; `polling` is what the last command said; a start leads to
  scans; a shutdown ends them; after start-up only a thread that set to work too early can abort
  the process;
- requests: a whole request speaks for itself; the token is one that was confirmed;
- sockethandler: the node stays able to receive;
- tokens: the answer and the change of the table agree with what the table held during the
  call; what is acquired is given back;
- session times: the extension is the number of minutes the code says;
- serialhandler: a handler works on one port and on its own bytes; lines are made of what the
  open port brought; a port that was started is heard; the mutex comes back;
- lidarScanner: a point is that of one line; no line is lost; a poll returns.

## 2. Modules

| module | models | builds on |
|---|---|---|
| `RequestParser` | format of a request, the copy loop, token and flags: operators only | |
| `ParseRequest` | the two loops of `parseRequest`, cell by cell | `RequestParser` |
| `MCParseRequest` | contents of the arrays for TLC | `ParseRequest` |
| `ParseRequestProofs` | the loops compute the operators of `RequestParser` | `ParseRequest`, `TLAPS` |
| `LidarServer` | the three threads, ROS, the network: the composition of lidarserver and sockethandler | `RequestParser` |
| `MCLidarServer` | datagrams, memory contents and tokens for TLC | `LidarServer` |
| `LidarServerProofs` | the inductive invariant and the theorems that follow from it | `LidarServer`, `TLAPS` |
| `MappingSwitch` | abstract: what the node is to its clients, a switch for the mapping | |
| `LidarServerSwitchProofs` | `LidarServer` implements `MappingSwitch` | `LidarServerProofs` |
| `Timestamp` | formatted times and how the database compares them | |
| `ExpiryClock` | the loop over `tm_min` and `tm_hour` | `Timestamp` |
| `ExpiryClockProofs` | what that loop computes | `ExpiryClock`, `TLAPS` |
| `TokenTable` | the clock, the table and the processes that write to it | `Timestamp` |
| `TokenCheck` | abstract: what a call of `verifyToken` promises | `TokenTable` |
| `VerifyToken` | `verifyToken` call by call; implements `TokenCheck` | `TokenTable` |
| `MCVerifyToken` | expirations for TLC | `VerifyToken` |
| `VerifyTokenProofs` | what a call holds and leaves behind, when it accepts, and that it keeps the promise | `VerifyToken`, `TLAPS` |
| `SerialPort` | abstract: one port at a time, and lines made of its bytes | |
| `SerialHandler` | `serialhandler` with an owner, a writer and the threads of its `io_service`; implements `SerialPort` | |
| `SerialHandlerProofs` | its inductive invariant and the theorems that follow from it | `SerialHandler`, `TLAPS` |
| `LidarScanner` | `poll` over a stream of lines, and `close` | |
| `LidarScannerProofs` | which lines the rounds of a poll get, and what the extractions take from them | `LidarScanner`, `TLAPS` |

### LidarServer and the code

`mainPc`, `servicePc`, `socketPc` and, for a caller of `stopPolling`, `callerPc` say where the
threads are; the other variables have the
names of the members and locals they stand for, except that `buf` is the `read_buf` of
`sockethandler`, `armed` says that a receive is outstanding, and `result` is what
`parseRequest` returned. One action is the code between two points at which another thread
can tell the difference:

- constructor: `SpawnService`, `InitMembers`, `CtorRosInit`, `CtorArgs`, `CtorPolling`, then
  `BindFails` or `SpawnSocket`, `SetLidarServer`; then `start`;
- `startPolling`: `LeaveWait`, `LoadArgs`, `ServiceRosInit` (or `ServiceRosInitFaults`),
  `Advertise`, `BeginPolling`, and in the loop `CheckRos` and `Publish` until `EndPolling`;
- socket thread: `initialize`, then `ReceiveDatagram`, `LoadServer`, `HandleReceive` (which
  contains `parseRequest` and the answer of `verifyToken`), `ApplyResult`; or
  `HandlerHasNoServer`, `ReceiveFails`, `RunReturns`;
- `stopPolling`: the action of that name, then `StopShutsDown`.

What a thread loads and what it does with it are two actions where main may set the variable
in between: `LoadArgs` takes `argc` and `argv` for the call of `ros::init`, which goes through
the pointer later, and `LoadServer` the pointer of `lidar_server`, whose assertion comes
after. A thread that was too early keeps its garbage past `start`.

`HandleReceive` and `ApplyResult` are two actions because main may run between the call of
`parseRequest` and the assignment to `polling`. `parseRequest` is one: nobody else touches
`token` and its `read_buf` then. ROS is modelled from its use: `ros::init` acts once, the
first `NodeHandle` starts the node, a shutdown is for good, `publish` does nothing after it.

*Undefined behaviour.* Members that are read before they are set are any value: the bools
are drawn from `Garbage`, the arrays from `FreshBuffers`, and `ros::init` on an `argv` that was
taken before it was set may survive or end the process. The build files ask for no optimisation, so the
flags are read from memory in every round of a loop; the models rely on that, for a
compiler that optimises may turn the waiting loops, which have no side effect, into loops
that never look again.

*Left out:* the parameters of the node, the motor topic, the fields of a scan that never
change, and `lidarStart`/`lidarStop`, which nothing reads. Of a published scan the model
keeps the position, since everything else in it is constant.

`MappingSwitch` is the node as a client sees it: `wanted` is what the last request asked for,
`mode` whether it scans, `next` and `last` the position to come and the last one published.
`ImplementsSwitch` maps `wanted` to the last command, `mode` to where the service thread is,
and the two positions to `scan_position` and `scan`. Scanning may begin only while it is
wanted; a service thread that the garbage in `initialized` let pass early may scan unasked, and
the mapping counts it as wanted from then on. Where that does not happen, `wanted` is the last
command and nothing else. That a stop request does not end the scanning is part of the
switch, as it is of the code.

Six history variables (`datagram`, `failed`, `early`, `hasty`, `lastCommand`, `started`) record
what the properties talk about; no guard reads them. `early` says that the service thread left
its wait before `start` ended it, `hasty` that the last datagram was received before
`sockethandler`'s constructor was through.

### ParseRequest and the code

`HandleReceive` uses `RequestParser`'s definitions of what the loops of `parseRequest` come to:
`Complete`, `Copied` and `Copy` for the one that copies the array, `TokenOf` for the one that
takes the token out of the copy. `ParseRequest` has the loops themselves, a cell a step
(`CopyCell`, `TokenCell`), with the locals `i`, `cr`, `lf`, `r` and `tmp`, over any array, any
content earlier calls left in `read_buf`, and any memory of the stack in `tmp`. It begins with
the call and ends where the token is looked up or the request is rejected. `CString` is what
reading `tmp` as a C string gives.

### VerifyToken and the code

Each call of the sqlite3 library is a step which may fail. Counters stand for what the
process holds: `connections`, `statements` of the connection in use, and `queries` for the
strings of `asprintf`. `sqlite3_close` keeps a connection that has a statement left
(`sqlite3.h:281-283`), `sqlite3_open` hands out a handle even when it fails
(`sqlite3.h:2823-2825`). Between any two steps `Tick`, `Issue` and `Revoke` may change the
clock and the table. `buffer` is the time that was taken last. A call ends in `Close` or in
one of the two early returns that close nothing.

`TokenCheck` is the promise: the call rejects, or it confirms the token against rows that
were live during the call, changes the table at most once, by extending the sessions of one
user that holds the token to a time taken during the call, and answers. The refinement maps
`open`, `select`, `step` to `asked`, `update` and `write` to `confirmed`, and `close` to
`extended` or, when no row was found, back to `asked`.

The history variable `wasLive` says whether a row with the token was live at any moment
since the call was made. It is set where the clock or another process may change the answer,
and no guard reads it.

`LidarServer` uses of all this only that the answer is yes for some token with a row, and
may always be no. Its `ValidTokens` are the tokens that may have a live row.

### SerialHandler and the code

`ownerPc`, `writerPc` and `threadPc` say where the calls and the threads are; `port`, `mutex`
and `eol` are members. A start that finds no port is numbered, and the port it makes, its
thread and its first read carry that number. `read` has for each of these reads whether it is
outstanding, waits for its handler or was taken by one, on which port, and how many bytes or what
error it ended with; bytes are the number of the read that brought them, so `raw` and `str`
hold the origin of what `read_buf_raw` and `read_buf_str` hold.

- `start`: `StartRefused`, `RefusedReturns`, or `StartNew`, `OpenFails` or `Opens`,
  `StartThrows` (`set_option`, the thread) or `SpawnThread`, `FirstRead`;
- `stop`: `StopLocks`, `StopThrows` or `ClosePort`, `StopIoService`, `ResetIoService`;
- `write_bytes` (and `write_string`, which only calls it): `WriteTests`, then `WriteEnds` or
  `WriteFaults`. The latter is possible when a `stop` took the port away since the test, before
  the pointer is taken (the assertion of `shared_ptr`) or after it (the port is freed under
  the write); which of the two it was is not told apart, and the second may go well;
- a thread: `EnterRun` or `FindsNoWork`; `ReadCompletes` as the one that runs the reactor;
  `Dequeue`, then `on_receive` with `HandlerTooLate`, or `HandlerLocks` and then
  `HandlerRearms`, or `Consume` for each byte and `HandlerReturns`; `WorkFinished`; `LeaveRun`.

boost::asio is external, and modelled from its use: an `io_service` counts its work, the
reads that are outstanding or wait and the handlers that run; `run` returns when there is
none and stops the `io_service` for every thread until `reset`; `async_read_some` may
complete at once; `close` completes a port's outstanding reads with an error; `cancel`
throws for a port that is not open. The order of its queue is left open, since the handlers
come to the mutex in any order.

One owner makes the calls of `start`, `stop` and `set_eol_char`, and one other thread writes:
that is what the class is made for, its mutex being between `stop` and `on_receive`.

`starts`, `overlap`, `late` and `dry` are history variables: the starts that made a port; that
a `stop` closed the port since the writer that is in its call tested it; that the handler of
one port's read found another port open; that the `io_service` ran out of work since the last
`stop`. The guards that read `starts` number and bound the starts; those of `WriteEnds` and
`WriteFaults` that read `overlap` stand for the pointer that was taken before.

`SerialPort` is the class as its owner sees it: ports are made one at a time, opened and
removed, and `line` is what the unfinished line is made of. It grows and ends only while a
port is open, and only by bytes of that port; the one exception is `Stray`, a read of one port
that is handled on another. `ImplementsPort` maps `line` to `str` and `stray` to `late`. A
line that one port began may be ended by the next: `stop` does not clear `read_buf_str`.

### LidarScanner and the code

The stream repeats one line of fourteen cells without end; two digits in each number are
enough for a buffer to begin inside of one, and the `double` has its point between them.
`from + 1 .. taken` are the cells in the buffer of a round. A number that was extracted is
the pair of its first and last cell, so that `values` says which part of which line it is;
`Zero` is what a failed extraction stores and `Garbage` what a local is before it is set.
`BeginRound`, `ReadSome` (a read inside `read_until`) and `Point` are a round of the loop,
`ReadFails` an error of the port, which `poll` passes on, `Return` its end. `close` may come at
any step. At the start of a poll the numbering of the cells is moved back to the first line,
which keeps the numbers bounded and changes nothing else.

`istream`'s extraction is external: blanks are skipped, a number ends at the first cell that
does not belong to it, at a cell that is no part of a number the variable becomes 0, at the
end of the buffer it keeps its value, and after either nothing more is extracted. `dropped`,
`strayed`, `cut` and `began` are history variables. The index into the scan is not checked by
the code; that the positions a device sends are below the 360 of the scan's size is assumed
(`IsIndex`).

### Mutants

An operator marked *Mutant* is a plausible mistake in the definition that follows it (a
missing reset, a swapped order, an off-by-one). Nothing uses it; putting it in the place of
that definition makes the property named with it in `PROJECT.json` fail.

## 3. What TLC checks

| run | instance | states | shows |
|---|---|---|---|
| `LidarServer` | token field of 1 cell, buffer of 6, sweep of 3, 9 datagrams, socket queue of 1, all garbage bools, two contents of fresh arrays | 1,601,754 | the invariants and action properties below |
| `LidarServerLive` | 3 datagrams, all garbage bools, zeroed arrays, a caller of `stopPolling` | 148,420 | the liveness properties below, and the refinement of `MappingSwitch` |
| `ParseRequest` | token field of 2 cells, every content of the array over 5 characters | 792,098 | the loops come to what `RequestParser` says |
| `LidarServerStop` | 3 datagrams | counterexample | a stop request does not stop the scans |
| `LidarServerComplete` | 9 datagrams | counterexample | a datagram that is not a complete message is accepted |
| `LidarServerVerify` | 9 datagrams | counterexample | a request with an unknown token is accepted |
| `ExpiryClock` | 60 minutes, 24 hours, 25 minutes: the code's constants | 37,440 | the session times, from every minute of a day |
| `VerifyToken` | 2 tokens, 2 users, 2 rows, 2 days of 3 minutes, 2 calls, extension 2 | 404,820 | resources, what is accepted, and the refinement of `TokenCheck` |
| `VerifyTokenCloses` | as `VerifyToken` | counterexample | the connection is closed with a statement left |
| `SerialHandler` | 2 starts that make a port, reads of 1 byte, 2 characters | 262,290 | the properties below, safety and liveness, and the refinement of `SerialPort` |
| `SerialHandlerRefused` | 1 character | counterexample | a refused start whose port is not open |
| `LidarScanner` | polls of 2 points, reads of up to 16 cells | 194,152 | the properties below, safety and liveness |

### Properties of the node

- `MappingOnlyOnRequest`: no order of start-up makes the service thread scan unasked, except
  that it left its wait on the garbage in `initialized`. (Without that exception it is false:
  the thread then reads the garbage in `polling`.)
- `LastCommandWins`: from the constructor's `polling = false` on, `polling` is what the last
  command carried out asked for. It holds because the socket thread starts after that line.
- `WholeRequestSpeaksForItself`: a datagram with a complete request whose parse reaches the
  last cell gets the answer of its own flags, or a rejection while no token is known.
- `CommandNeedsVerifiedToken`, `TokenIsVerifiedOnce`: nothing is accepted before a look-up
  succeeded; the token is set once, to a confirmed one, and for a whole request to its own.
  They say nothing of the tokens of later requests, which are not looked at
  (`AcceptedTokenIsVerified` is violated).
- `DeafOnlyAfterFailure`: the socket thread ends only after a receive failed.
- `RunningNeverAborts`: once `start` runs, only a thread that was too early can abort the
  process: the service thread that left its wait on garbage (`early`), which may still be
  inside `ros::init` with the `argv` it took, or the socket thread that received before
  `lidar_server` was set (`hasty`). Every later datagram, and a service thread that waited for
  `start`, is safe.
- `Inductive`: the invariant of the proofs (section 4).
- `StartHonoured`: a start that is not taken back gets the service thread to scan.
- `SweepCovers`: while it scans, it comes to each position again and again.
- `ShutdownSilences`: after a shutdown of ROS it stops publishing for good, though its outer
  loops go on.
- `QueueDrains`: a full socket queue is served, unless a receive failed.
- `ImplementsSwitch`: the node implements `MappingSwitch`. No interleaving begins a scan that
  was not wanted when it began (or let pass by garbage), leaves a position out, or publishes after a shutdown.

### Properties of the parsing loops

- `LoopCopies`: after the first loop `read_buf` is `Copy` of the given array over what it held
  before, and `r` says whether the array is `Complete`: the cell that ends a request is copied,
  those behind it are not, and the control characters may come in any order before it.
- `LoopTakesToken`: the C string in `tmp` is `TokenOf` the copy. Nothing of the uninitialised
  array gets into it, for a token that fills its field and for one that ends before.

### Properties of the token check

- `LeftBehind`: exactly what is left over between calls: a connection by each call but those
  that found no row, and two strings by each that found one. So repeated requests with an
  unknown token cost nothing, and the others add up.
- `Accounts`: where each of them is between two steps of a call, the invariant of the proof.
- `AcceptedWasLive`: a token is accepted only if it was live at some moment of the call. The
  query compares with a time that was taken before, so a row may be expired when it is read;
  it holds because such a row was live when the time was taken, or has been issued since.
- `CallKnows`: at each step whose rows were found and since when they were live, the invariant
  of the proofs of `AcceptedWasLive` and `KeepsPromise`.
- `KeepsPromise`: `VerifyToken` implements `TokenCheck`.
- `Formattable`, `LoopExtends`, `LiveToMidnight`: the loop adds its minutes across every
  change of the hour; it never changes the date, so an extended session ends after 25
  minutes or at midnight, whichever comes first.

### Properties of serialhandler

- `HandlerKeepsPort`: the port does not change while a handler that found it open works. It
  rests on the mutex for `stop` and on the test of `port` for `start`, which takes no lock.
- `HandlerReadsItsOwn`: a handler puts together its own read's bytes. The exception is real: a
  read of a closed port that failed may be posted again on the next port, beside that port's
  own, and then two reads fill one buffer.
- `PortIsServed`: from the end of `start` to its first bytes there is a thread that will hear a
  port, unless the `io_service` had run out of work before the read was posted: the thread may
  be in `run` before line 49, and then returns. Threads that an earlier `stop` did not end
  are among those that hear it.
- `AbortsOnlyInOverlap`: a writer aborts the process only if a `stop` closed the port between
  its test of `port` and the end of its write. A `stop` that is over does not endanger the next
  write, which finds no port and returns, or the port of the next start.
- `ImplementsPort`: the class implements `SerialPort`. It needs `HandlerKeepsPort`,
  `HandlerReadsItsOwn` and that a handler asks for the port after it has the mutex.
- `Inductive`: the invariant of the proofs.
- `MutexComesBack`: also from the `stop` that throws and from every handler.
- `ReadIsHandled`: a read that has ended gets its handler, and that handler the mutex, as long as
  the owner leaves the port alone. The one exception is `Overtaken`: the mutex is not fair,
  and a read that fails is posted again at once, so that the handlers of failing reads may
  overtake another one there for ever. Without the exception TLC finds that behaviour. With it,
  the property says that the queue, the threads and the `io_service` hand over every read.

### Properties of lidarScanner

- `LineSpeaksForItself`: a round whose buffer begins with a line takes its four values from
  that line, whatever else the buffer holds.
- `StraysOnlyAfterCut`: what indexes the 360 cells is a position or a part of one, as long as
  no buffer began inside a line. Afterwards it may be a distance, a time or an old value.
- `PacedLinesAreKept`: as long as no read brings more than the rest of its line, every round
  has the line after that of the round before, and takes that line's four values. So the
  scanner is right for a device that is slow enough, and only then.
- `PollReturns`: a poll ends when the device goes on sending.

### Bounds, and why they are enough

- *Token field of one cell* (16 in the code): the parser looks at a token cell only to copy
  it, to end the string at a NUL and to find CR, LF or EOT in it; one cell can be each of
  these. The proofs are for every length.
- *Contents of the array of a parse:* each cell is one of CR, LF, EOT, NUL or a character of
  a token, so that every order of the control characters and every shape of a short token is
  there; two cells of token let a token end inside its field. What was left in the other arrays
  is one further character, which tells it from everything that was given.
- *Datagrams:* whole requests (start, stop, with a token that has a row and one that has
  not, with a wrong flag), an empty one, one shorter than the flags, one longer than the
  buffer, and two that end before the last cell, one with a control character in the place of
  the flags. Sequences of them of any length are explored, since the queue empties.
- *Queue of one:* a datagram arrives before, while and after the one before it is handled.
- *Sweep of three:* a first, a middle and a last position.
- *Two days of three minutes:* an extension ends on the same day, at its end and past it; two
  rows and two users let one user's sessions and another's be told apart; two calls let a
  call start from what another one left.
- *Two starts* of the serial port: what can go wrong happens between one start and the next,
  when the thread, the handler or the read of the first meets the port of the second. Three
  starts come to more than fifteen million states; the safety proofs are for any number.
  A read brings one byte or an error: the loop of `on_receive` holds the mutex from its first
  byte to its last, so that further bytes meet no other thread but one that sets the end of
  the line (with reads of two bytes the safety properties hold in all 809,076 states; the
  safety proofs are for any size). Two characters are the end of a line and another.
- *Polls of two points, reads of sixteen cells:* a round that begins at the start of a line,
  inside one and after a dropped one, over the values of the round before (polls of three
  points come to 572,216 states and the same answers); a read that brings more than a whole line. A poll may
  begin at every cell of the line. `MaxCells` bounds the numbers of the cells a poll comes to.

Deadlock is not checked where the process may end (aborted) or where the bounds on the
clock, on the calls and on the starts end every behaviour.

### Fairness

`FairSpec` is weakly fair to each of the three threads and to nothing else: not to the
network, not to a shutdown, not to a failing receive. The threads are preemptive, take no
locks, and wait only by spinning, so that the operating system's scheduler runs each of them
again and again. It includes that the calls of ROS, of sqlite3 and of the kernel return: a
node that waits for a ROS master that never comes up is not covered.

`SerialHandler`'s `FairSpec` is weakly fair to a call that has begun and to each thread, and
strongly fair to each read that waits in the queue for its handler: the queue of an
`io_service` is first in, first out, so a read is not passed over for ever by others that fail
and are posted again. It assumes nothing of the kind for the mutex, which `boost::mutex` does
not hand over in order: a thread that waits for it is only sure to get it when it stays free.
It owes no answer of the device and no call of the owner. `LidarScanner`'s is weakly
fair to the polling thread, with a device that goes on sending.

### Where the code and its comments part

1. *A stop request does not stop the scans* (`StopHonoured`). `lidarserver.cpp:206` says "we
   got Ls, stop mapping"; the inner loop at `:89` never reads `polling`.
2. *Incomplete messages are accepted* (`AcceptedIsComplete`). `lidarserver.cpp:162` says
   "check if message is error free"; `sockethandler.cpp:59` passes the size of the array
   instead of that of the datagram, so the tail of an earlier request completes a short one.
3. *A connection is closed before its statements are finalized* (`ClosesClean`), against
   `sqlite3.h:292-296`: the update is prepared into the `stmt` that still holds the select.
4. *A port that never opened is reported as open* (`RefusalMeansOpen`). `serialhandler.cpp:29`
   says "Port allready open."; a start whose open failed leaves `port` set (`:38-43`).
5. *A token that is not known is accepted* (`AcceptedTokenIsVerified`). `lidarserver.cpp:133`
   says "parse message and verify token" and `sockethandler.cpp:57` "check token"; `:179` looks
   a token up only while none is kept ("if needed", `:178`), and compares a later one with
   nothing.

One more was met and is not checked: `lidarScanner.cpp:63` and `lidarserver.cpp:105` call the
`time_increment` of a scan "seconds between scan poins"; the first stores degrees per second
there, the second the constant 1080.

## 4. What is proved

`LidarServerProofs` shows, for every length of the token field and of the sweep, every set
of tokens and datagrams, every content of fresh memory, with or without a caller of
`stopPolling`, and for any number of requests, that `TypeOK`, `MappingOnlyOnRequest`,
`LastCommandWins`, `WholeRequestSpeaksForItself`, `CommandNeedsVerifiedToken`,
`DeafOnlyAfterFailure`, `TokenIsVerifiedOnce` and `RunningNeverAborts` hold of `Spec`.

The argument is one inductive invariant, `Inductive`. The properties are not inductive by
themselves. `LastCommandWins` needs to know that nothing was carried out before the socket
thread existed (`CommandHistory`); that a thread exists or has left its wait has to be tied
to how far the constructor has come (`ThreadOrder`); `DeafOnlyAfterFailure` needs that a
running `io_service` has a receive outstanding (`ReceiveOutstanding`);
`WholeRequestSpeaksForItself` needs that a whole datagram has replaced the array it was
received into (`WholeIsReceived`), with the lemmas `LongDatagramFills` and `FullCopy` about
the two arrays. `InitInductive` and `NextInductive` are the two halves, the latter with a
lemma per thread and a case per action; the action properties follow from the invariant and
the lemmas `RunningStepIsSafe` and `TokenStep`. `RunningNeverAborts` rests on `ThreadOrder`: a
service thread that holds a garbage `argv` was early, and a socket thread that holds a null
`lidar_server` was hasty.

`LidarServerSwitchProofs` shows `ImplementsSwitch` for the same constants, every content of
fresh memory among them (`NodeIsSwitch`). It needs one more invariant on top of `Inductive`,
`RosIsStarted`: the service thread begins with the constructor and scans with ROS started or
shut down. Each action is a step of the switch or none; `BeginPolling` is where
`LastCommandWins` and `ThreadOrder` are needed. `OnRequest` is the switch whose `wanted` is the
last command alone: `WaitingNodeObeys` shows that the node implements it in every behaviour in
which the service thread does not leave its wait early.

`ParseRequestProofs` shows `LoopCopies` and `LoopTakesToken` for every length of the token field,
every content of the three arrays and every set of token characters. The invariant says what
the copy loop has done when it comes to cell `i` (`CopiedSoFar`: `cr` and `lf` tell whether
the character is below `i`, no cell below `i` ends a request, and `read_buf` is new below `i`
and old from there) and which cells the token loop has taken (`TakenUpTo`). `CopyToEnd` and
`CopyWhole` are what `Copy` and `Complete` are at the two places where the copy may stop.

`ExpiryClockProofs` shows `Formattable`, `LoopExtends` and `LiveToMidnight` for every length
of an hour, a day and an extension, from the invariant that `tm_hour` and `tm_min` together
are `i` minutes past the time the loop started from, which is one of the day.

`VerifyTokenProofs` shows `TypeOK`, `LeftBehind`, `AcceptedWasLive` and `KeepsPromise` of
`VerifyToken` for every table, number of calls, speed of the clock and sequence of failures.
`LeftBehind` speaks of the moments between calls only; the invariant `Accounts` says what is
held at each step of one. `AcceptedWasLive` speaks of the end of a call only; `Witnessed`
says at each step before it that every row the select may still return was live since the
call was made: those that were there when the time was taken, and those issued since.
`Known` says that this time lies between the call and now, which makes every row the code
finds live one that `TokenCheck` may confirm, and that the user is known from then on.
`CallPromise` has the step of `TokenCheck` for each action.

`SerialHandlerProofs` shows `TypeOK`, `HandlerKeepsPort`, `HandlerReadsItsOwn`, `PortIsServed`,
`AbortsOnlyInOverlap` and `ImplementsPort` for any number of starts, any size of the buffer and
any characters. The invariant `Inductive` says where the mutex is held (`MutexIsHeld`), what the
owner, a handler and a writer know of the port (`PortIsKnown`), that reads and threads are
those of starts that were made (`ReadsAreOfStarts`, `ThreadsAreOfStarts`), that no two
handlers have one read (`HandlersHaveReads`), what can stop the `io_service`
(`StoppedByOwnerOrDry`), that a running port has a thread (`ThreadsServePort`) and that, as
long as no handler was late, a read is on its own start's port (`ReadsAreOfTheirPort`). There
is a lemma per conjunct with a case per action; three lemmas say what the three ways to change
the reads do. The index of the handler's loop stays within the bytes of its read
(`IndexInRead`, a part of `TypeOK`), because the one handler with the mutex has a read that
nobody posts again. `ImplementsPort` needs `ReadsAreOfTheirPort` where a byte is taken from the
buffer, and that a read which is handled on another port than its own is of an earlier start.

`LidarScannerProofs` shows `TypeOK`, `LineSpeaksForItself`, `StraysOnlyAfterCut` and
`PacedLinesAreKept` for every number of points and every size of a read. Its first half is
about the operators: `FirstLine` (a buffer that ends with its first line ends where the next
line of the stream does), `SkipExists` and `NumberEndExists` (the choices of an extraction exist
in every buffer, for no more than two blanks and three cells of one number follow each other),
`ExtractType` (whatever a buffer holds, the extractions store numbers of it or leave what was
there), and `WholeLine`: from a buffer that begins with line `n`, or with the LF before it, and
holds it to its end, the seven extractions take the four numbers of line `n`, whatever comes
after it. The second half is the invariant `Inductive`: where in the stream a round begins
(`RoundsBegin`), that a round is only begun for a point that is missing, the types, and the two
properties. `PacedLinesAreKept` follows, because a round that dropped nothing ended where the
next line begins.

The assumptions are those of the constants: a token field and a sweep of at least one cell,
token characters that are not control characters, at least one minute in an hour and hour in
a day, at least one point in a scan and one cell in a read.

*Only model-checked:* the liveness properties (`StartHonoured`, `SweepCovers`,
`ShutdownSilences`, `QueueDrains`, `MutexComesBack`, `ReadIsHandled`, `PollReturns`): liveness
under fairness is out of the proof system's reach. Every other property of a passing run is
proved. That a violated property is violated is shown by TLC's counterexample.

## 5. Not modelled

- The end of a `serialhandler`: its destructor is a `stop`, which may throw, after which the
  members are freed under threads that may still be inside `run`. `set_eol_char` while a
  handler runs is modelled; a second owner or a second writer is not.
- `sockethandler::start` repeats `initialize` and has no caller; no destructor of a live
  object of the node is ever reached, since `start` of the server does not return.
- The time a line of the scanner takes is only used for a warning, and the values of the
  numbers for the scan they are stored in; the models keep which number goes where.
- sqlite3 (`src/sqlite3.c`, `include/sqlite3.h`) is vendored third-party code, all but about
  a thousand of the repository's lines. It is modelled from its use, by the result, the
  locks and the resources of the calls `verifyToken` makes; its inside is no part of this
  project.
- `rosproto.cpp` is a prototype that no build file names, with one call after the other and
  no state. The build files have no behaviour.
- What a hazard's note in `PROJECT.json` says is not promised: the order and the loss of
  datagrams, a second read of a serial port after bytes, what happens to a port whose handler is
  late, whether the sessions were extended when the look-up says yes. The models have these
  behaviours; no property forbids them, since nothing in the code does.
- A device that stops sending while `poll` waits, that sends a position of 360 or more, or
  lines of another form.
- That the text of a token becomes part of a query: a token is compared as a value here.

`lidarScanner` and `serialhandler` are modelled although the node does not use them: the
construction and the calls of the first are commented out (`lidarserver.cpp:30`, `:94`,
`:125`), the second is not built into it (`:46`, `:62`). So they are modules of their own and
not composed with `LidarServer`.

## 6. What could follow

The inside of every class of the package is modelled, and every safety property that is checked
is proved. When `startPolling` polls the scanner again, `LidarServer` and `LidarScanner` are to be
composed: `Publish` becomes a poll that may block or throw.
