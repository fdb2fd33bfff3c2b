--------------------------- MODULE SerialHandler ---------------------------
(***************************************************************************)
(* serialhandler: a serial port that an owner starts and stops, that other *)
(* threads write to, and whose reads are handled by threads inside         *)
(* io_service::run.                                                        *)
(*                                                                         *)
(* Every start() that finds no port makes a new one and, when it opens, a  *)
(* thread and a first read.  They share a number, the start they come      *)
(* from; but stop() does not wait for the thread, and the handler of a     *)
(* read may post the next one on whatever port there is by then, so in     *)
(* time the three drift apart.                                             *)
(*                                                                         *)
(* boost::asio is modelled from how the code uses it.  Bytes are           *)
(* abstracted to the start whose read brought them.                        *)
(***************************************************************************)
EXTENDS Integers

CONSTANTS
    MaxStarts,  \* bound: start() calls that make a port
    MaxRead,    \* bytes one read may return: 256 in the code
    Char        \* characters

ASSUME StartsAssumption == MaxStarts \in Nat \ {0}
ASSUME ReadAssumption == MaxRead \in Nat \ {0}
ASSUME CharAssumption == Char # {}

VARIABLES
    alive,      \* FALSE once the process was aborted
    ownerPc, writerPc, threadPc,
    \* members; port is the number of the start that made it, 0 for NULL;
    \* raw the start whose read filled read_buf_raw, str the ones whose
    \* bytes read_buf_str holds, mutex its holder
    port, isOpen, mutex, raw, str, eol,
    \* the io_service: is it stopped, the reads, and for each thread the
    \* read whose handler it runs; i is the index of the handler's loop
    stopped, read, handling, i,
    \* history: how many start() calls made a port; did a stop() close the
    \* port since the writer that is in its call tested it, did the handler
    \* of one port's read find another port open, did the io_service run
    \* out of work since the last stop()
    starts, overlap, late, dry

pcs == <<ownerPc, writerPc, threadPc>>
members == <<port, isOpen, mutex, raw, str, eol>>
ioService == <<stopped, read, handling, i>>
history == <<starts, overlap, late, dry>>
vars == <<alive, pcs, members, ioService, history>>

-----------------------------------------------------------------------------
Start == 1 .. MaxStarts

NULL == 0
Nobody == 0
Owner == -1

OwnerPc == {"idle", "refused", "open", "thread", "read", "cancel", "reset"}
ThreadPc == {"none", "new", "run", "lock", "handle", "done", "gone"}

\* got is the number of bytes a read returned, or -1 for an error.
Read == [is : {"none", "pending", "ready", "taken"}, on : Start \cup {NULL},
         got : -1 .. MaxRead]

NoRead == [is |-> "none", on |-> NULL, got |-> 0]

Init ==
    /\ alive = TRUE
    /\ ownerPc = "idle" /\ writerPc = "idle" /\ threadPc = [t \in Start |-> "none"]
    /\ port = NULL /\ isOpen = FALSE /\ mutex = Nobody
    /\ raw = NULL /\ str = {} /\ eol \in Char
    /\ stopped = FALSE /\ read = [k \in Start |-> NoRead]
    /\ handling = [t \in Start |-> NULL] /\ i = 0
    /\ starts = 0 /\ overlap = FALSE /\ late = FALSE /\ dry = FALSE

-----------------------------------------------------------------------------
(***************************************************************************)
(* The io_service.  Its work is the reads that are outstanding or wait for *)
(* their handler, and the handlers that run.  run() returns when there is  *)
(* none, and stops the io_service for every thread, until reset().         *)
(***************************************************************************)
Outstanding == {k \in Start : read[k].is \in {"pending", "ready"}}
Busy == {t \in Start : threadPc[t] \in {"lock", "handle", "done"}}
Live == Busy \cup {t \in Start : threadPc[t] \in {"new", "run"}}

Pending(p) == {k \in Start : read[k].is = "pending" /\ read[k].on = p}

ReadDone(k, n) ==
    /\ read' = [read EXCEPT ![k] = [is |-> "ready", on |-> port, got |-> n]]
    /\ raw' = IF n = -1 THEN raw ELSE k

\* Both callers know the port to be open (HandlerKeepsPort).  async_read_some tries to read
\* at once when no other read is outstanding.
async_read(k) ==
    \/ read' = [read EXCEPT ![k] = [is |-> "pending", on |-> port, got |-> 0]] /\ raw' = raw
    \/ Pending(port) = {} /\ \E n \in {-1} \cup 1 .. MaxRead : ReadDone(k, n)

-----------------------------------------------------------------------------
(***************************************************************************)
(* The mutex of stop() and on_receive, a scoped_lock in both.              *)
(***************************************************************************)

\* Mutants: the lock is not waited for; it is not given back.
LockDeferred(who) == mutex' = who
UnlockLeftOut == UNCHANGED mutex

Lock(who) == mutex = Nobody /\ mutex' = who
Unlock == mutex' = Nobody

-----------------------------------------------------------------------------
(***************************************************************************)
(* The owner's calls: start(), which takes no lock, stop() and             *)
(* set_eol_char.  An exception leaves the call and is the owner's to       *)
(* catch; the lock stop() holds is released on its way.                    *)
(***************************************************************************)
OwnerAt(from, to) == alive /\ ownerPc = from /\ ownerPc' = to /\ UNCHANGED <<alive, writerPc>>
OwnerStep(from, to) == OwnerAt(from, to) /\ UNCHANGED threadPc

StartRefused ==
    /\ OwnerStep("idle", "refused")
    /\ port # NULL
    /\ UNCHANGED <<members, ioService, history>>

RefusedReturns ==
    /\ OwnerStep("refused", "idle")
    /\ UNCHANGED <<members, ioService, history>>

StartNew ==
    /\ OwnerStep("idle", "open")
    /\ port = NULL /\ starts < MaxStarts
    /\ starts' = starts + 1
    /\ port' = starts + 1
    /\ UNCHANGED <<isOpen, mutex, raw, str, eol, ioService, overlap, late, dry>>

\* The port stays.
OpenFails ==
    /\ OwnerStep("open", "idle")
    /\ UNCHANGED <<members, ioService, history>>

Opens ==
    /\ OwnerStep("open", "thread")
    /\ isOpen' = TRUE
    /\ UNCHANGED <<port, mutex, raw, str, eol, ioService, history>>

\* set_option or the thread's creation throws.
StartThrows ==
    /\ OwnerStep("thread", "idle")
    /\ UNCHANGED <<members, ioService, history>>

SpawnThread ==
    /\ OwnerAt("thread", "read")
    /\ threadPc' = [threadPc EXCEPT ![port] = "new"]
    /\ UNCHANGED <<members, ioService, history>>

\* The end of start(); the thread may have found no work, and returned, before.
FirstRead ==
    /\ OwnerStep("read", "idle")
    /\ async_read(port)
    /\ UNCHANGED <<port, isOpen, mutex, str, eol, stopped, handling, i, history>>

StopLocks ==
    /\ OwnerStep("idle", "cancel")
    /\ Lock(Owner)
    /\ UNCHANGED <<port, isOpen, raw, str, eol, ioService, history>>

\* cancel() throws for a port that is not open: the one of an open that failed.
StopThrows ==
    /\ OwnerStep("cancel", "idle")
    /\ port # NULL /\ ~isOpen
    /\ Unlock
    /\ UNCHANGED <<port, isOpen, raw, str, eol, ioService, history>>

\* The handlers of the port's reads are yet to run, with an error.
ClosePort ==
    /\ OwnerStep("cancel", "cancel")
    /\ port # NULL /\ isOpen
    /\ read' = [k \in Start |->
                    IF k \in Pending(port) THEN [is |-> "ready", on |-> port, got |-> -1]
                    ELSE read[k]]
    /\ port' = NULL /\ isOpen' = FALSE
    /\ overlap' = (writerPc # "idle")
    /\ UNCHANGED <<mutex, raw, str, eol, stopped, handling, i, starts, late, dry>>

StopIoService ==
    /\ OwnerStep("cancel", "reset")
    /\ port = NULL
    /\ stopped' = TRUE
    /\ UNCHANGED <<members, read, handling, i, history>>

\* Mutant: the io_service is not reset.
ResetLeftOut == UNCHANGED stopped

\* Threads that have not seen it stopped by now go on.
Reset == stopped' = FALSE

ResetIoService ==
    /\ OwnerStep("reset", "idle")
    /\ Reset
    /\ dry' = FALSE
    /\ Unlock
    /\ UNCHANGED <<port, isOpen, raw, str, eol, read, handling, i, starts, overlap, late>>

set_eol_char(c) ==
    /\ OwnerStep("idle", "idle")
    /\ eol' = c
    /\ UNCHANGED <<port, isOpen, mutex, raw, str, ioService, history>>

\* What the owner calls is its own affair; that a call gets on is not.
Calls == StartRefused \/ StartNew \/ StopLocks \/ \E c \in Char : set_eol_char(c)

Goes ==
    \/ RefusedReturns \/ OpenFails \/ Opens \/ StartThrows \/ SpawnThread \/ FirstRead
    \/ StopThrows \/ ClosePort \/ StopIoService \/ ResetIoService

-----------------------------------------------------------------------------
(***************************************************************************)
(* write_bytes, from a thread of its own: it tests port, takes the pointer *)
(* in it and writes, without the mutex.  The assertion of shared_ptr fails *)
(* on a port that was reset before the pointer was taken; one that is      *)
(* reset after that is freed under the write, which the process may        *)
(* survive.  Which of the two it was is not told apart.                    *)
(***************************************************************************)

\* Mutant: port is not tested.
WriteUntested ==
    /\ alive
    /\ writerPc = "idle" /\ writerPc' = "write"
    /\ UNCHANGED <<alive, ownerPc, threadPc, members, ioService, history>>

WriteTests ==
    /\ alive
    /\ writerPc = "idle" /\ writerPc' = "write"
    /\ port # NULL
    /\ UNCHANGED <<alive, ownerPc, threadPc, members, ioService, history>>

WriteEnds ==
    /\ alive
    /\ writerPc = "write" /\ writerPc' = "idle"
    /\ port # NULL \/ overlap
    /\ overlap' = FALSE
    /\ UNCHANGED <<alive, ownerPc, threadPc, members, ioService, starts, late, dry>>

WriteFaults ==
    /\ alive /\ alive' = FALSE
    /\ writerPc = "write"
    /\ port = NULL \/ overlap
    /\ UNCHANGED <<pcs, members, ioService, history>>

write_bytes == WriteTests \/ WriteEnds \/ WriteFaults

-----------------------------------------------------------------------------
(***************************************************************************)
(* A thread t inside io_service::run, and on_receive, which it calls.      *)
(***************************************************************************)
ThreadAt(t, from, to) ==
    /\ alive /\ threadPc[t] = from
    /\ threadPc' = [threadPc EXCEPT ![t] = to]
    /\ UNCHANGED <<alive, ownerPc, writerPc>>

EnterRun(t) ==
    /\ ThreadAt(t, "new", "run")
    /\ Outstanding \cup Busy # {}
    /\ UNCHANGED <<members, ioService, history>>

FindsNoWork(t) ==
    /\ ThreadAt(t, "new", "gone")
    /\ Outstanding \cup Busy = {}
    /\ stopped' = TRUE /\ dry' = TRUE
    /\ UNCHANGED <<members, read, handling, i, starts, overlap, late>>

LeaveRun(t) ==
    /\ ThreadAt(t, "run", "gone")
    /\ stopped
    /\ UNCHANGED <<members, ioService, history>>

\* The reactor, which one of the threads runs, sees a read to its end.
ReadCompletes(t, k) ==
    /\ ThreadAt(t, "run", "run") /\ ~stopped
    /\ k \in Pending(port) /\ isOpen
    /\ \E n \in {-1} \cup 1 .. MaxRead : ReadDone(k, n)
    /\ UNCHANGED <<port, isOpen, mutex, str, eol, stopped, handling, i, history>>

\* The order of the queue is not kept: threads come to the mutex in any order.
Dequeue(t, k) ==
    /\ ThreadAt(t, "run", "lock") /\ ~stopped
    /\ read[k].is = "ready"
    /\ read' = [read EXCEPT ![k].is = "taken"]
    /\ handling' = [handling EXCEPT ![t] = k]
    /\ UNCHANGED <<members, stopped, i, history>>

HandlerTooLate(t) ==
    /\ ThreadAt(t, "lock", "done")
    /\ mutex = Nobody /\ ~(port # NULL /\ isOpen)
    /\ UNCHANGED <<members, ioService, history>>

\* Mutant: it is not asked whether the port is open.
HandlerLocksUnchecked(t) ==
    /\ ThreadAt(t, "lock", "handle")
    /\ Lock(t)
    /\ i' = 0
    /\ late' = (late \/ read[handling[t]].on # port)
    /\ UNCHANGED <<port, isOpen, raw, str, eol, stopped, read, handling, starts, overlap,
                   dry>>

HandlerLocks(t) ==
    /\ ThreadAt(t, "lock", "handle")
    /\ Lock(t)
    /\ port # NULL /\ isOpen
    /\ i' = 0
    /\ late' = (late \/ read[handling[t]].on # port)
    /\ UNCHANGED <<port, isOpen, raw, str, eol, stopped, read, handling, starts, overlap,
                   dry>>

\* After an error it reads again, on the port there is now.
HandlerRearms(t) ==
    /\ ThreadAt(t, "handle", "done")
    /\ read[handling[t]].got = -1
    /\ async_read(handling[t])
    /\ Unlock
    /\ UNCHANGED <<port, isOpen, str, eol, stopped, handling, i, history>>

\* Mutant: the loop runs one byte too far.
MorePastEnd(t) == i <= read[handling[t]].got

More(t) == i < read[handling[t]].got

Consume(t) ==
    /\ ThreadAt(t, "handle", "handle")
    /\ More(t)
    /\ i' = i + 1
    /\ \E c \in Char : str' = IF c = eol THEN {} ELSE str \cup {raw}
    /\ UNCHANGED <<port, isOpen, mutex, raw, eol, stopped, read, handling, history>>

\* After the bytes it does not read again.
HandlerReturns(t) ==
    /\ ThreadAt(t, "handle", "done")
    /\ read[handling[t]].got # -1 /\ ~More(t)
    /\ Unlock
    /\ UNCHANGED <<port, isOpen, raw, str, eol, ioService, history>>

WorkFinished(t) ==
    /\ ThreadAt(t, "done", "run")
    /\ LET none == Outstanding \cup (Busy \ {t}) = {}
       IN  stopped' = (stopped \/ none) /\ dry' = (dry \/ none)
    /\ UNCHANGED <<members, read, handling, i, starts, overlap, late>>

on_receive(t) ==
    HandlerTooLate(t) \/ HandlerLocks(t) \/ HandlerRearms(t) \/ Consume(t) \/ HandlerReturns(t)

RunSteps(t) ==
    \/ EnterRun(t) \/ FindsNoWork(t) \/ LeaveRun(t) \/ WorkFinished(t)
    \/ \E k \in Start : Dequeue(t, k)

-----------------------------------------------------------------------------
Next ==
    \/ Calls \/ Goes \/ write_bytes
    \/ \E t \in Start : on_receive(t) \/ RunSteps(t)
    \/ \E t, k \in Start : ReadCompletes(t, k)

Spec == Init /\ [][Next]_vars

(***************************************************************************)
(* A call gets on and the threads run; the io_service's queue, first in    *)
(* first out, hands over every read that waits, however often others are   *)
(* put back.  The mutex is not fair: of the threads that wait for it, one  *)
(* and the same may be overtaken again and again.  No device has to        *)
(* answer, and nobody has to call anything.                                *)
(***************************************************************************)
FairSpec ==
    /\ Spec
    /\ WF_vars(Goes)
    /\ \A t \in Start : WF_vars(on_receive(t) \/ RunSteps(t))
    /\ \A k \in Start : SF_vars(\E t \in Start : Dequeue(t, k))

-----------------------------------------------------------------------------
(***************************************************************************)
(* Properties.                                                             *)
(***************************************************************************)

\* The loop of on_receive stays within the bytes the handled read brought.
IndexInRead ==
    \A t \in Start :
        threadPc[t] = "handle" /\ read[handling[t]].got # -1 => i <= read[handling[t]].got

\* Every variable has a value of its type, the index of that loop among them.
TypeOK ==
    /\ alive \in BOOLEAN
    /\ ownerPc \in OwnerPc /\ writerPc \in {"idle", "write"}
    /\ threadPc \in [Start -> ThreadPc]
    /\ port \in Start \cup {NULL} /\ isOpen \in BOOLEAN
    /\ mutex \in Start \cup {Nobody, Owner}
    /\ raw \in Start \cup {NULL} /\ str \subseteq Start \cup {NULL} /\ eol \in Char
    /\ stopped \in BOOLEAN /\ read \in [Start -> Read]
    /\ handling \in [Start -> Start \cup {NULL}] /\ i \in 0 .. MaxRead
    /\ IndexInRead
    /\ starts \in 0 .. MaxStarts /\ overlap \in BOOLEAN /\ late \in BOOLEAN /\ dry \in BOOLEAN

\* A handler that found the port open works on that port to its end: stop() waits for the
\* mutex, and start(), which takes none, is refused while there is a port.
HandlerKeepsPort ==
    [][(\E t \in Start : threadPc[t] = "handle") => port' = port /\ isOpen' = isOpen]_vars

\* A handler puts together its own read's bytes: no other read fills the one buffer while
\* it does, except once the handler of a closed port's read has found the next port open.
HandlerReadsItsOwn ==
    \A t \in Start :
        threadPc[t] = "handle" /\ read[handling[t]].got # -1 => raw = handling[t] \/ late

\* From the end of start() to its first bytes a port has a thread that will hear them, unless
\* the io_service ran out of work since the last stop(), before start() posted the read.
PortIsServed ==
    ownerPc = "idle" /\ port # NULL /\ port \in Outstanding => dry \/ Live # {}

\* A writer aborts the process only if a stop() closed the port between its test of port
\* and the end of its write: one stop() that is over does not endanger the next write.
AbortsOnlyInOverlap == alive \/ overlap

\* The handler implements SerialPort: whatever the order of starts, stops and handlers, a
\* line grows and ends only while a port is open, by bytes of that port's read, but for
\* the handler of a closed port's read that has found the next port open.
Port == INSTANCE SerialPort WITH
    made <- starts, open <- isOpen, line <- str, stray <- late

ImplementsPort == Port!Spec

\* The mutex is always given back: also by the stop() that throws.
MutexComesBack == mutex # Nobody ~> mutex = Nobody \/ ~alive

\* A read that has ended waits for its handler, first in the queue, then at the mutex.
AtMutex(k) == \E t \in Start : threadPc[t] = "lock" /\ handling[t] = k
Waits(k) == (read[k].is = "ready" /\ read[k].on = port) \/ AtMutex(k)

\* The handler of a read that failed has the mutex k's handler waits for.
Overtaken(k) ==
    AtMutex(k) /\ \E t \in Start : threadPc[t] = "handle" /\ read[handling[t]].got = -1

\* A read that has ended gets its handler, and that the mutex, as long as the owner leaves
\* the port alone, with the same exception as in PortIsServed: one that waits for ever is
\* overtaken again and again, at the mutex, by the handlers of reads that fail.
ReadIsHandled ==
    \A k \in Start :
        Waits(k) ~> ~Waits(k) \/ Overtaken(k) \/ dry \/ ownerPc # "idle" \/ ~alive

-----------------------------------------------------------------------------
(***************************************************************************)
(* The inductive invariant behind the safety properties.                   *)
(***************************************************************************)

\* The mutex is held exactly where the code has it.
MutexIsHeld ==
    /\ mutex = Owner <=> ownerPc \in {"cancel", "reset"}
    /\ \A t \in Start : mutex = t <=> threadPc[t] = "handle"

\* What the owner and a handler know of the port, and a writer until a stop() closes it.
PortIsKnown ==
    /\ isOpen => port # NULL
    /\ ownerPc = "open" => port # NULL /\ ~isOpen
    /\ ownerPc \in {"thread", "read"} => isOpen
    /\ ownerPc = "reset" => port = NULL
    /\ (\E t \in Start : threadPc[t] = "handle") => isOpen
    /\ writerPc = "write" => port # NULL \/ overlap

\* The reads are those of starts that made a port; a start posts its own once.
ReadsAreOfStarts ==
    /\ port <= starts /\ raw <= starts
    /\ \A k \in Start : read[k].is # "none" => k <= starts /\ read[k].on # NULL
    /\ ownerPc \in {"open", "thread", "read"} => read[port].is = "none"

\* So are the threads; a start makes its own once.
ThreadsAreOfStarts ==
    /\ \A t \in Start : threadPc[t] # "none" => t <= starts
    /\ ownerPc \in {"open", "thread"} => threadPc[port] = "none"

\* A thread in on_receive has a read that nobody else posts.
HandlersHaveReads ==
    \A t \in Start : threadPc[t] \in {"lock", "handle"} =>
        /\ handling[t] \in Start /\ read[handling[t]].is = "taken"
        /\ \A u \in Start \ {t} :
            threadPc[u] \in {"lock", "handle"} => handling[u] # handling[t]

\* Only work that ran out, or stop(), stops the io_service.
StoppedByOwnerOrDry == stopped => dry \/ ownerPc = "reset"

ThreadsServePort ==
    ownerPc = "read" \/ port \in Outstanding => dry \/ (~stopped /\ Live # {})

\* Until a handler is late, a read is of the port it is on, and the buffer is its.
ReadsAreOfTheirPort ==
    ~late =>
        /\ \A k \in Start : read[k].is # "none" => read[k].on = k
        /\ \A k \in Start : read[k].is = "pending" => k = port
        /\ \A t \in Start : threadPc[t] = "handle" => handling[t] = port
        /\ port # NULL =>
            (read[port].is \in {"ready", "taken"} /\ read[port].got # -1 => raw = port)

Inductive ==
    /\ TypeOK
    /\ MutexIsHeld
    /\ PortIsKnown
    /\ ReadsAreOfStarts
    /\ ThreadsAreOfStarts
    /\ HandlersHaveReads
    /\ StoppedByOwnerOrDry
    /\ ThreadsServePort
    /\ ReadsAreOfTheirPort
    /\ AbortsOnlyInOverlap

-----------------------------------------------------------------------------
(***************************************************************************)
(* What a message of the code says and the code does not do.               *)
(***************************************************************************)

\* serialhandler.cpp:29, "Port allready open.": a start that is refused found an open port.
RefusalMeansOpen == ownerPc = "refused" => isOpen

=============================================================================
