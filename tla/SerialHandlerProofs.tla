------------------------ MODULE SerialHandlerProofs ------------------------
(***************************************************************************)
(* The safety of SerialHandler for any number of starts and any size of    *)
(* the buffer: one lemma for each conjunct of Inductive, which every step  *)
(* preserves, and the properties that follow.                              *)
(***************************************************************************)
EXTENDS SerialHandler, TLAPS

USE StartsAssumption, ReadAssumption, CharAssumption
USE DEF NULL, Nobody, Owner

\* The numbers of starts are neither NULL nor the owner.
LEMMA Numbers == NULL \notin Start /\ Owner \notin Start /\ Start \subseteq Nat
  BY DEF Start

-----------------------------------------------------------------------------
(***************************************************************************)
(* What the three ways to change the reads do to them.                     *)
(***************************************************************************)

\* A read that ends is ready, on the open port, and fills the buffer if it brought bytes.
LEMMA ReadDoneEffect ==
    ASSUME TypeOK, NEW k \in Start, NEW n \in {-1} \cup 1 .. MaxRead, ReadDone(k, n)
    PROVE  /\ read' \in [Start -> Read] /\ raw' \in Start \cup {NULL}
           /\ read'[k].is = "ready" /\ read'[k].on = port
           /\ read'[k].got # -1 => raw' = k
           /\ \A j \in Start \ {k} : read'[j] = read[j]
           /\ raw' \in {raw, k}
  <1>1. n \in -1 .. MaxRead /\ port \in Start \cup {NULL}
    BY DEF TypeOK
  <1>2. [is |-> "ready", on |-> port, got |-> n] \in Read
    BY <1>1 DEF Read
  <1> QED BY <1>1, <1>2 DEF ReadDone, TypeOK

\* So does one that ends at once; one that does not leaves the buffer as it is.
LEMMA AsyncReadEffect ==
    ASSUME TypeOK, NEW k \in Start, async_read(k)
    PROVE  /\ read' \in [Start -> Read] /\ raw' \in Start \cup {NULL}
           /\ read'[k].is \in {"pending", "ready"} /\ read'[k].on = port
           /\ read'[k].is = "ready" /\ read'[k].got # -1 => raw' = k
           /\ \A j \in Start \ {k} : read'[j] = read[j]
           /\ raw' \in {raw, k}
  <1>1. CASE \E n \in {-1} \cup 1 .. MaxRead : ReadDone(k, n)
    BY <1>1, ReadDoneEffect
  <1>2. CASE /\ read' = [read EXCEPT ![k] = [is |-> "pending", on |-> port, got |-> 0]]
              /\ raw' = raw
    BY <1>2 DEF TypeOK, Read
  <1> QED BY <1>1, <1>2 DEF async_read

\* Closing the port ends the reads that are pending on it, with an error.
LEMMA ClosePortEffect ==
    ASSUME TypeOK, ClosePort
    PROVE  /\ read' \in [Start -> Read]
           /\ \A k \in Start : /\ read'[k].on = read[k].on
                               /\ read'[k].is \in {read[k].is, "ready"}
                               /\ read'[k].is # read[k].is => read[k].is = "pending"
                               /\ read'[k].is = "pending" => read[k].on # port
                               /\ read'[k].got # -1 => read'[k] = read[k]
  <1>1. port \in Start \cup {NULL} /\ -1 \in -1 .. MaxRead
    BY DEF TypeOK
  <1>2. [is |-> "ready", on |-> port, got |-> -1] \in Read
    BY <1>1 DEF Read
  <1> QED BY <1>2 DEF ClosePort, TypeOK, Pending

\* What becomes of read and raw when k's next read is posted or its last one ends.
Reads(k, states) ==
    /\ port \in Start /\ isOpen
    /\ read' \in [Start -> Read] /\ raw' \in {raw, k}
    /\ read'[k].is \in states /\ read'[k].on = port
    /\ read'[k].is = "ready" /\ read'[k].got # -1 => raw' = k
    /\ \A j \in Start \ {k} : read'[j] = read[j]

LEMMA FirstReadReads ==
    ASSUME Inductive, FirstRead
    PROVE  Reads(port, {"pending", "ready"})
  <1>1. port \in Start /\ isOpen /\ async_read(port)
    BY DEF Inductive, TypeOK, PortIsKnown, FirstRead, OwnerStep, OwnerAt
  <1> QED BY <1>1, AsyncReadEffect DEF Inductive, Reads

LEMMA RearmReads ==
    ASSUME Inductive, NEW t \in Start, HandlerRearms(t)
    PROVE  /\ handling[t] \in Start /\ threadPc[t] = "handle"
           /\ read[handling[t]].is = "taken"
           /\ Reads(handling[t], {"pending", "ready"})
  <1>1. /\ threadPc[t] = "handle"
        /\ handling[t] \in Start /\ read[handling[t]].is = "taken"
        /\ async_read(handling[t])
    BY DEF Inductive, HandlersHaveReads, HandlerRearms, ThreadAt
  <1>2. isOpen /\ port \in Start
    BY <1>1 DEF Inductive, TypeOK, PortIsKnown
  <1> QED BY <1>1, <1>2, AsyncReadEffect DEF Inductive, Reads

LEMMA ReadCompletesReads ==
    ASSUME Inductive, NEW t \in Start, NEW k \in Start, ReadCompletes(t, k)
    PROVE  read[k].is = "pending" /\ read[k].on = port /\ Reads(k, {"ready"})
  <1>1. isOpen /\ read[k].is = "pending" /\ read[k].on = port
    BY DEF ReadCompletes, Pending
  <1>2. port \in Start
    BY <1>1 DEF Inductive, TypeOK, PortIsKnown
  <1>3. PICK n \in {-1} \cup 1 .. MaxRead : ReadDone(k, n)
    BY DEF ReadCompletes
  <1> QED BY <1>1, <1>2, <1>3, ReadDoneEffect DEF Inductive, Reads

-----------------------------------------------------------------------------
\* The one handler with the mutex is the one whose index there is, and nobody posts the
\* read it handles again.
LEMMA IndexInReadStep == Inductive /\ [Next]_vars => IndexInRead'
  <1> SUFFICES ASSUME Inductive, [Next]_vars,
                      NEW u \in Start, threadPc'[u] = "handle", read'[handling'[u]].got # -1
               PROVE  i' <= read'[handling'[u]].got
    BY DEF IndexInRead
  <1>1. /\ threadPc \in [Start -> ThreadPc] /\ read \in [Start -> Read]
        /\ handling \in [Start -> Start \cup {NULL}] /\ i \in 0 .. MaxRead
    BY DEF Inductive, TypeOK
  <1>2. threadPc[u] = "handle" =>
          /\ mutex = u /\ handling[u] \in Start /\ read[handling[u]].is = "taken"
          /\ read[handling[u]].got # -1 => i <= read[handling[u]].got
    BY DEF Inductive, TypeOK, MutexIsHeld, HandlersHaveReads, IndexInRead
  <1>3. CASE /\ threadPc' = threadPc /\ handling' = handling /\ i' = i
             /\ threadPc[u] = "handle" => read'[handling[u]] = read[handling[u]]
    BY <1>2, <1>3
  <1> USE DEF members, ioService, history, OwnerStep, OwnerAt, ThreadAt
  <1>4. CASE Calls
    BY <1>3, <1>4 DEF Calls, StartRefused, StopLocks, StartNew, set_eol_char
  <1>5. CASE \/ RefusedReturns \/ OpenFails \/ Opens \/ StartThrows \/ StopThrows
             \/ StopIoService \/ ResetIoService
    BY <1>3, <1>5 DEF RefusedReturns, OpenFails, Opens, StartThrows, StopThrows,
                      StopIoService, ResetIoService
  <1>6. CASE SpawnThread
    <2>1. threadPc[u] = "handle"
      BY <1>1, <1>6 DEF SpawnThread
    <2> QED BY <1>2, <1>6, <2>1 DEF SpawnThread
  <1>7. CASE FirstRead
    <2>1. Reads(port, {"pending", "ready"}) /\ read[port].is = "none"
      BY <1>7, FirstReadReads DEF Inductive, ReadsAreOfStarts, FirstRead
    <2> QED BY <1>2, <1>3, <1>7, <2>1 DEF FirstRead, Reads
  <1>8. CASE ClosePort
    <2>1. mutex = Owner
      BY <1>8 DEF ClosePort, Inductive, MutexIsHeld
    <2> QED BY <1>2, <1>8, <2>1, Numbers DEF ClosePort
  <1>9. CASE write_bytes
    BY <1>3, <1>9 DEF write_bytes, WriteTests, WriteEnds, WriteFaults, pcs
  <1>10. ASSUME NEW t \in Start, HandlerTooLate(t) PROVE i' <= read'[handling'[u]].got
    <2>1. threadPc[u] = "handle"
      BY <1>1, <1>10 DEF HandlerTooLate
    <2> QED BY <1>2, <1>10, <2>1 DEF HandlerTooLate
  <1>11. ASSUME NEW t \in Start, HandlerLocks(t) PROVE i' <= read'[handling'[u]].got
    <2>1. threadPc[u] \in {"lock", "handle"}
      BY <1>1, <1>11 DEF HandlerLocks
    <2>2. handling[u] \in Start
      BY <2>1 DEF Inductive, HandlersHaveReads
    <2>3. read[handling[u]].got \in -1 .. MaxRead
      BY <1>1, <2>2 DEF Read
    <2> QED BY <1>11, <2>3 DEF HandlerLocks
  <1>12. ASSUME NEW t \in Start, HandlerRearms(t) \/ HandlerReturns(t)
         PROVE  i' <= read'[handling'[u]].got
    <2>1. u # t /\ threadPc[u] = "handle"
      BY <1>1, <1>12 DEF HandlerRearms, HandlerReturns
    <2>2. mutex = t
      BY <1>12 DEF HandlerRearms, HandlerReturns, Inductive, MutexIsHeld
    <2> QED BY <1>2, <2>1, <2>2
  <1>13. ASSUME NEW t \in Start, Consume(t) PROVE i' <= read'[handling'[u]].got
    <2>1. threadPc[t] = "handle" /\ threadPc[u] = "handle" /\ t = u
      BY <1>1, <1>13 DEF Consume, Inductive, MutexIsHeld
    <2>2. read[handling[u]].got \in -1 .. MaxRead
      BY <1>1, <1>2, <2>1 DEF Read
    <2> QED BY <1>1, <1>13, <2>1, <2>2 DEF Consume, More
  <1>14. ASSUME NEW t \in Start, EnterRun(t) \/ FindsNoWork(t) \/ LeaveRun(t) \/ WorkFinished(t)
         PROVE  i' <= read'[handling'[u]].got
    <2>1. threadPc[u] = "handle" /\ UNCHANGED <<read, handling, i>>
      BY <1>1, <1>14 DEF EnterRun, FindsNoWork, LeaveRun, WorkFinished
    <2> QED BY <1>2, <2>1
  <1>15. ASSUME NEW t \in Start, NEW k \in Start, Dequeue(t, k)
         PROVE  i' <= read'[handling'[u]].got
    <2>1. u # t /\ threadPc[u] = "handle" /\ handling'[u] = handling[u] /\ i' = i
      BY <1>1, <1>15 DEF Dequeue
    <2>2. read'[handling[u]] = read[handling[u]]
      BY <1>1, <1>2, <1>15, <2>1 DEF Dequeue
    <2> QED BY <1>2, <2>1, <2>2
  <1>16. ASSUME NEW t \in Start, NEW k \in Start, ReadCompletes(t, k)
         PROVE  i' <= read'[handling'[u]].got
    <2>1. threadPc[u] = "handle" /\ handling' = handling /\ i' = i
      BY <1>1, <1>16 DEF ReadCompletes
    <2>2. read[k].is = "pending" /\ Reads(k, {"ready"})
      BY <1>16, ReadCompletesReads
    <2>3. read'[handling[u]] = read[handling[u]]
      BY <1>2, <2>1, <2>2 DEF Reads
    <2> QED BY <1>2, <2>1, <2>3
  <1>17. CASE UNCHANGED vars
    BY <1>3, <1>17 DEF vars, pcs
  <1> QED
    BY <1>4, <1>5, <1>6, <1>7, <1>8, <1>9, <1>10, <1>11, <1>12, <1>13, <1>14, <1>15, <1>16,
       <1>17
       DEF Next, Goes, on_receive, RunSteps

\* Every step keeps the types.
LEMMA TypeOKStep == Inductive /\ [Next]_vars => TypeOK'
  <1> SUFFICES ASSUME Inductive, [Next]_vars PROVE TypeOK'
    OBVIOUS
  <1> Inductive
    OBVIOUS
  <1> IndexInRead'
    BY IndexInReadStep
  <1> USE Numbers DEF Inductive, TypeOK, OwnerPc, ThreadPc, Read,
        members, ioService, history, OwnerStep, OwnerAt, ThreadAt
  <1>1. CASE StartRefused \/ StopLocks
    BY <1>1 DEF StartRefused, StopLocks, Lock
  <1>2. CASE StartNew
    BY <1>2 DEF StartNew, Start
  <1>3. ASSUME NEW c \in Char, set_eol_char(c) PROVE TypeOK'
    BY <1>3 DEF set_eol_char
  <1>4. CASE RefusedReturns \/ OpenFails \/ Opens \/ StartThrows
    BY <1>4 DEF RefusedReturns, OpenFails, Opens, StartThrows
  <1>5. CASE SpawnThread
    BY <1>5 DEF SpawnThread
  <1>6. CASE FirstRead
    <2>1. Reads(port, {"pending", "ready"})
      BY <1>6, FirstReadReads
    <2> QED BY <2>1, <1>6 DEF FirstRead, Reads
  <1>7. CASE StopThrows
    BY <1>7 DEF StopThrows, Unlock
  <1>8. CASE ClosePort
    <2>1. TypeOK
      BY DEF Inductive
    <2>2. /\ read' \in [Start -> Read]
          /\ \A k \in Start : /\ read'[k].on = read[k].on
                              /\ read'[k].is \in {read[k].is, "ready"}
                              /\ read'[k].is # read[k].is => read[k].is = "pending"
                              /\ read'[k].is = "pending" => read[k].on # port
                              /\ read'[k].got # -1 => read'[k] = read[k]
      BY <1>8, <2>1, ClosePortEffect
    <2> QED BY <2>2, <1>8 DEF ClosePort
  <1>9. CASE StopIoService \/ ResetIoService
    BY <1>9 DEF StopIoService, ResetIoService, Reset, Unlock
  <1>10. CASE write_bytes
    <2>1. CASE WriteTests
      BY <2>1 DEF WriteTests
    <2>2. CASE WriteEnds
      <3>1. overlap' \in BOOLEAN
        BY <2>2, Zenon DEF WriteEnds
      <3>2. QED
        BY <2>2, <3>1 DEF WriteEnds
    <2>3. CASE WriteFaults
      <3>1. alive' \in BOOLEAN
        BY <2>3, Zenon DEF WriteFaults
      <3>2. QED
        BY <2>3, <3>1 DEF WriteFaults, pcs
    <2>4. QED
      BY <1>10, <2>1, <2>2, <2>3 DEF write_bytes
  <1>11. ASSUME NEW t \in Start, HandlerTooLate(t) PROVE TypeOK'
    BY <1>11 DEF HandlerTooLate
  <1>12. ASSUME NEW t \in Start, HandlerLocks(t) PROVE TypeOK'
    BY <1>12 DEF HandlerLocks, Lock
  <1>13. ASSUME NEW t \in Start, HandlerRearms(t) PROVE TypeOK'
    <2>1. /\ handling[t] \in Start /\ threadPc[t] = "handle"
          /\ read[handling[t]].is = "taken"
          /\ Reads(handling[t], {"pending", "ready"})
      BY <1>13, RearmReads
    <2> QED BY <2>1, <1>13 DEF HandlerRearms, Unlock, Reads
  <1>14. ASSUME NEW t \in Start, Consume(t) PROVE TypeOK'
    <2>1. handling[t] \in Start
      BY <1>14 DEF Consume, HandlersHaveReads
    <2>2. read[handling[t]].got \in -1 .. MaxRead
      BY <2>1
    <2>3. i' \in 0 .. MaxRead
      BY <2>2, <1>14 DEF Consume, More
    <2>4. PICK c \in Char : str' = IF c = eol THEN {} ELSE str \cup {raw}
      BY <1>14 DEF Consume
    <2>5. str' \subseteq Start \cup {NULL}
      BY <2>4
    <2> QED BY <2>3, <2>5, <1>14 DEF Consume
  <1>15. ASSUME NEW t \in Start, HandlerReturns(t) PROVE TypeOK'
    BY <1>15 DEF HandlerReturns, Unlock
  <1>16. ASSUME NEW t \in Start, EnterRun(t) \/ FindsNoWork(t) \/ LeaveRun(t) PROVE TypeOK'
    <2>1. CASE EnterRun(t)
      BY <2>1 DEF EnterRun
    <2>2. CASE FindsNoWork(t)
      BY <2>2 DEF FindsNoWork
    <2>3. CASE LeaveRun(t)
      BY <2>3 DEF LeaveRun
    <2>4. QED
      BY <1>16, <2>1, <2>2, <2>3
  <1>17. ASSUME NEW t \in Start, WorkFinished(t) PROVE TypeOK'
    BY <1>17 DEF WorkFinished
  <1>18. ASSUME NEW t \in Start, NEW k \in Start, Dequeue(t, k) PROVE TypeOK'
    BY <1>18 DEF Dequeue
  <1>19. ASSUME NEW t \in Start, NEW k \in Start, ReadCompletes(t, k) PROVE TypeOK'
    <2>1. read[k].is = "pending" /\ read[k].on = port /\ Reads(k, {"ready"})
      BY <1>19, ReadCompletesReads
    <2> QED BY <2>1, <1>19 DEF ReadCompletes, Reads
  <1>20. CASE UNCHANGED vars
    BY <1>20 DEF vars, pcs
  <1> QED
    BY <1>1, <1>2, <1>3, <1>4, <1>5, <1>6, <1>7, <1>8, <1>9, <1>10, <1>11, <1>12, <1>13,
           <1>14, <1>15, <1>16, <1>17, <1>18, <1>19, <1>20
       DEF Next, Calls, Goes, on_receive, RunSteps

\* Only the holder of the mutex gives it back, and only a free mutex is taken.
LEMMA MutexIsHeldStep == Inductive /\ [Next]_vars => MutexIsHeld'
  <1> SUFFICES ASSUME Inductive, [Next]_vars PROVE MutexIsHeld'
    OBVIOUS
  <1> Inductive
    OBVIOUS
  <1> /\ threadPc \in [Start -> ThreadPc]
      /\ mutex \in Start \cup {Nobody, Owner}
      /\ port \in Start \cup {NULL}
    BY DEF Inductive, TypeOK
  <1> USE Numbers DEF Inductive, MutexIsHeld, ThreadsAreOfStarts, PortIsKnown,
        members, ioService, history, OwnerStep, OwnerAt, ThreadAt
  <1>1. CASE StartRefused \/ StopLocks
    BY <1>1 DEF StartRefused, StopLocks, Lock
  <1>2. CASE StartNew
    BY <1>2 DEF StartNew, Start
  <1>3. ASSUME NEW c \in Char, set_eol_char(c) PROVE MutexIsHeld'
    BY <1>3 DEF set_eol_char
  <1>4. CASE RefusedReturns \/ OpenFails \/ Opens \/ StartThrows
    BY <1>4 DEF RefusedReturns, OpenFails, Opens, StartThrows
  <1>5. CASE SpawnThread
    BY <1>5 DEF SpawnThread
  <1>6. CASE FirstRead
    <2>1. Reads(port, {"pending", "ready"})
      BY <1>6, FirstReadReads
    <2> QED BY <2>1, <1>6 DEF FirstRead, Reads
  <1>7. CASE StopThrows
    BY <1>7 DEF StopThrows, Unlock
  <1>8. CASE ClosePort
    <2>1. TypeOK
      BY DEF Inductive
    <2>2. /\ read' \in [Start -> Read]
          /\ \A k \in Start : /\ read'[k].on = read[k].on
                              /\ read'[k].is \in {read[k].is, "ready"}
                              /\ read'[k].is # read[k].is => read[k].is = "pending"
                              /\ read'[k].is = "pending" => read[k].on # port
                              /\ read'[k].got # -1 => read'[k] = read[k]
      BY <1>8, <2>1, ClosePortEffect
    <2> HIDE DEF TypeOK
    <2> QED BY <2>2, <1>8 DEF ClosePort
  <1>9. CASE StopIoService \/ ResetIoService
    BY <1>9 DEF StopIoService, ResetIoService, Reset, Unlock
  <1>10. CASE write_bytes
    BY <1>10 DEF write_bytes, WriteTests, WriteEnds, WriteFaults, pcs
  <1>11. ASSUME NEW t \in Start, HandlerTooLate(t) PROVE MutexIsHeld'
    BY <1>11 DEF HandlerTooLate
  <1>12. ASSUME NEW t \in Start, HandlerLocks(t) PROVE MutexIsHeld'
    BY <1>12 DEF HandlerLocks, Lock
  <1>13. ASSUME NEW t \in Start, HandlerRearms(t) PROVE MutexIsHeld'
    <2>1. /\ handling[t] \in Start /\ threadPc[t] = "handle"
          /\ read[handling[t]].is = "taken"
          /\ Reads(handling[t], {"pending", "ready"})
      BY <1>13, RearmReads
    <2> QED BY <2>1, <1>13 DEF HandlerRearms, Unlock, Reads
  <1>14. ASSUME NEW t \in Start, Consume(t) PROVE MutexIsHeld'
    BY <1>14 DEF Consume, More
  <1>15. ASSUME NEW t \in Start, HandlerReturns(t) PROVE MutexIsHeld'
    BY <1>15 DEF HandlerReturns, Unlock
  <1>16. ASSUME NEW t \in Start, EnterRun(t) \/ FindsNoWork(t) \/ LeaveRun(t)
           PROVE  MutexIsHeld'
    BY <1>16 DEF EnterRun, FindsNoWork, LeaveRun
  <1>17. ASSUME NEW t \in Start, WorkFinished(t) PROVE MutexIsHeld'
    BY <1>17 DEF WorkFinished
  <1>18. ASSUME NEW t \in Start, NEW k \in Start, Dequeue(t, k) PROVE MutexIsHeld'
    BY <1>18 DEF Dequeue
  <1>19. ASSUME NEW t \in Start, NEW k \in Start, ReadCompletes(t, k) PROVE MutexIsHeld'
    <2>1. read[k].is = "pending" /\ read[k].on = port /\ Reads(k, {"ready"})
      BY <1>19, ReadCompletesReads
    <2> QED BY <2>1, <1>19 DEF ReadCompletes, Reads
  <1>20. CASE UNCHANGED vars
    BY <1>20 DEF vars, pcs
  <1> QED
    BY <1>1, <1>2, <1>3, <1>4, <1>5, <1>6, <1>7, <1>8, <1>9, <1>10, <1>11, <1>12, <1>13,
           <1>14, <1>15, <1>16, <1>17, <1>18, <1>19, <1>20
       DEF Next, Calls, Goes, on_receive, RunSteps

\* Only the owner changes the port, stop() only with the mutex.
LEMMA PortIsKnownStep == Inductive /\ [Next]_vars => PortIsKnown'
  <1> SUFFICES ASSUME Inductive, [Next]_vars PROVE PortIsKnown'
    OBVIOUS
  <1> Inductive
    OBVIOUS
  <1> /\ threadPc \in [Start -> ThreadPc]
      /\ port \in Start \cup {NULL}
      /\ starts \in Nat
    BY DEF Inductive, TypeOK
  <1> USE Numbers DEF Inductive, PortIsKnown, MutexIsHeld,
        members, ioService, history, OwnerStep, OwnerAt, ThreadAt
  <1>1. CASE StartRefused \/ StopLocks
    BY <1>1 DEF StartRefused, StopLocks, Lock
  <1>2. CASE StartNew
    BY <1>2 DEF StartNew, Start
  <1>3. ASSUME NEW c \in Char, set_eol_char(c) PROVE PortIsKnown'
    BY <1>3 DEF set_eol_char
  <1>4. CASE RefusedReturns \/ OpenFails \/ Opens \/ StartThrows
    BY <1>4 DEF RefusedReturns, OpenFails, Opens, StartThrows
  <1>5. CASE SpawnThread
    BY <1>5 DEF SpawnThread
  <1>6. CASE FirstRead
    <2>1. Reads(port, {"pending", "ready"})
      BY <1>6, FirstReadReads
    <2> QED BY <2>1, <1>6 DEF FirstRead, Reads
  <1>7. CASE StopThrows
    BY <1>7 DEF StopThrows, Unlock
  <1>8. CASE ClosePort
    <2>1. writerPc' = "write" => overlap'
      BY <1>8, Zenon DEF ClosePort
    <2>2. mutex = Owner /\ port' = NULL /\ isOpen' = FALSE /\ ownerPc' = "cancel"
      BY <1>8 DEF ClosePort
    <2>3. \A t \in Start : threadPc'[t] # "handle"
      BY <1>8, <2>2 DEF ClosePort
    <2> QED BY <2>1, <2>2, <2>3
  <1>9. CASE StopIoService \/ ResetIoService
    BY <1>9 DEF StopIoService, ResetIoService, Reset, Unlock
  <1>10. CASE write_bytes
    BY <1>10 DEF write_bytes, WriteTests, WriteEnds, WriteFaults, pcs
  <1>11. ASSUME NEW t \in Start, HandlerTooLate(t) PROVE PortIsKnown'
    BY <1>11 DEF HandlerTooLate
  <1>12. ASSUME NEW t \in Start, HandlerLocks(t) PROVE PortIsKnown'
    BY <1>12 DEF HandlerLocks, Lock
  <1>13. ASSUME NEW t \in Start, HandlerRearms(t) PROVE PortIsKnown'
    <2>1. /\ handling[t] \in Start /\ threadPc[t] = "handle"
          /\ read[handling[t]].is = "taken"
          /\ Reads(handling[t], {"pending", "ready"})
      BY <1>13, RearmReads
    <2> QED BY <2>1, <1>13 DEF HandlerRearms, Unlock, Reads
  <1>14. ASSUME NEW t \in Start, Consume(t) PROVE PortIsKnown'
    BY <1>14 DEF Consume, More
  <1>15. ASSUME NEW t \in Start, HandlerReturns(t) PROVE PortIsKnown'
    BY <1>15 DEF HandlerReturns, Unlock
  <1>16. ASSUME NEW t \in Start, EnterRun(t) \/ FindsNoWork(t) \/ LeaveRun(t)
           PROVE  PortIsKnown'
    BY <1>16 DEF EnterRun, FindsNoWork, LeaveRun
  <1>17. ASSUME NEW t \in Start, WorkFinished(t) PROVE PortIsKnown'
    BY <1>17 DEF WorkFinished
  <1>18. ASSUME NEW t \in Start, NEW k \in Start, Dequeue(t, k) PROVE PortIsKnown'
    BY <1>18 DEF Dequeue
  <1>19. ASSUME NEW t \in Start, NEW k \in Start, ReadCompletes(t, k) PROVE PortIsKnown'
    <2>1. read[k].is = "pending" /\ read[k].on = port /\ Reads(k, {"ready"})
      BY <1>19, ReadCompletesReads
    <2> QED BY <2>1, <1>19 DEF ReadCompletes, Reads
  <1>20. CASE UNCHANGED vars
    BY <1>20 DEF vars, pcs
  <1> QED
    BY <1>1, <1>2, <1>3, <1>4, <1>5, <1>6, <1>7, <1>8, <1>9, <1>10, <1>11, <1>12, <1>13,
           <1>14, <1>15, <1>16, <1>17, <1>18, <1>19, <1>20
       DEF Next, Calls, Goes, on_receive, RunSteps

\* A start that made no port has no read.
LEMMA ReadsAreOfStartsStep == Inductive /\ [Next]_vars => ReadsAreOfStarts'
  <1> SUFFICES ASSUME Inductive, [Next]_vars PROVE ReadsAreOfStarts'
    OBVIOUS
  <1> Inductive
    OBVIOUS
  <1> /\ port \in Start \cup {NULL}
      /\ starts \in Nat /\ raw \in Nat
      /\ read \in [Start -> Read]
    BY Numbers DEF Inductive, TypeOK
  <1> USE Numbers DEF Inductive, ReadsAreOfStarts, HandlersHaveReads, PortIsKnown,
        members, ioService, history, OwnerStep, OwnerAt, ThreadAt
  <1>1. CASE StartRefused \/ StopLocks
    BY <1>1 DEF StartRefused, StopLocks, Lock
  <1>2. CASE StartNew
    BY <1>2 DEF StartNew, Start
  <1>3. ASSUME NEW c \in Char, set_eol_char(c) PROVE ReadsAreOfStarts'
    BY <1>3 DEF set_eol_char
  <1>4. CASE RefusedReturns \/ OpenFails \/ Opens \/ StartThrows
    BY <1>4 DEF RefusedReturns, OpenFails, Opens, StartThrows
  <1>5. CASE SpawnThread
    BY <1>5 DEF SpawnThread
  <1>6. CASE FirstRead
    <2>1. Reads(port, {"pending", "ready"})
      BY <1>6, FirstReadReads
    <2> QED BY <2>1, <1>6 DEF FirstRead, Reads
  <1>7. CASE StopThrows
    BY <1>7 DEF StopThrows, Unlock
  <1>8. CASE ClosePort
    <2>1. TypeOK
      BY DEF Inductive
    <2>2. /\ read' \in [Start -> Read]
          /\ \A k \in Start : /\ read'[k].on = read[k].on
                              /\ read'[k].is \in {read[k].is, "ready"}
                              /\ read'[k].is # read[k].is => read[k].is = "pending"
                              /\ read'[k].is = "pending" => read[k].on # port
                              /\ read'[k].got # -1 => read'[k] = read[k]
      BY <1>8, <2>1, ClosePortEffect
    <2> HIDE DEF TypeOK
    <2> QED BY <2>2, <1>8 DEF ClosePort
  <1>9. CASE StopIoService \/ ResetIoService
    BY <1>9 DEF StopIoService, ResetIoService, Reset, Unlock
  <1>10. CASE write_bytes
    BY <1>10 DEF write_bytes, WriteTests, WriteEnds, WriteFaults, pcs
  <1>11. ASSUME NEW t \in Start, HandlerTooLate(t) PROVE ReadsAreOfStarts'
    BY <1>11 DEF HandlerTooLate
  <1>12. ASSUME NEW t \in Start, HandlerLocks(t) PROVE ReadsAreOfStarts'
    BY <1>12 DEF HandlerLocks, Lock
  <1>13. ASSUME NEW t \in Start, HandlerRearms(t) PROVE ReadsAreOfStarts'
    <2>1. /\ handling[t] \in Start /\ threadPc[t] = "handle"
          /\ read[handling[t]].is = "taken"
          /\ Reads(handling[t], {"pending", "ready"})
      BY <1>13, RearmReads
    <2>2. /\ port' = port /\ starts' = starts /\ ownerPc' = ownerPc
          /\ port <= starts /\ raw <= starts /\ handling[t] <= starts
      BY <2>1, <1>13 DEF HandlerRearms
    <2>3. raw' <= starts'
      BY <2>1, <2>2 DEF Reads
    <2>4. \A k \in Start : read'[k].is # "none" => k <= starts' /\ read'[k].on # NULL
      BY <2>1, <2>2 DEF Reads
    <2>5. ownerPc' \in {"open", "thread", "read"} => read'[port'].is = "none"
      BY <2>1, <2>2 DEF Reads
    <2> QED BY <2>2, <2>3, <2>4, <2>5
  <1>14. ASSUME NEW t \in Start, Consume(t) PROVE ReadsAreOfStarts'
    BY <1>14 DEF Consume, More
  <1>15. ASSUME NEW t \in Start, HandlerReturns(t) PROVE ReadsAreOfStarts'
    BY <1>15 DEF HandlerReturns, Unlock
  <1>16. ASSUME NEW t \in Start, EnterRun(t) \/ FindsNoWork(t) \/ LeaveRun(t)
           PROVE  ReadsAreOfStarts'
    BY <1>16 DEF EnterRun, FindsNoWork, LeaveRun
  <1>17. ASSUME NEW t \in Start, WorkFinished(t) PROVE ReadsAreOfStarts'
    BY <1>17 DEF WorkFinished
  <1>18. ASSUME NEW t \in Start, NEW k \in Start, Dequeue(t, k) PROVE ReadsAreOfStarts'
    BY <1>18 DEF Dequeue
  <1>19. ASSUME NEW t \in Start, NEW k \in Start, ReadCompletes(t, k) PROVE ReadsAreOfStarts'
    <2>1. read[k].is = "pending" /\ read[k].on = port /\ Reads(k, {"ready"})
      BY <1>19, ReadCompletesReads
    <2> QED BY <2>1, <1>19 DEF ReadCompletes, Reads
  <1>20. CASE UNCHANGED vars
    BY <1>20 DEF vars, pcs
  <1> QED
    BY <1>1, <1>2, <1>3, <1>4, <1>5, <1>6, <1>7, <1>8, <1>9, <1>10, <1>11, <1>12, <1>13,
           <1>14, <1>15, <1>16, <1>17, <1>18, <1>19, <1>20
       DEF Next, Calls, Goes, on_receive, RunSteps

\* A start that made no port has no thread.
LEMMA ThreadsAreOfStartsStep == Inductive /\ [Next]_vars => ThreadsAreOfStarts'
  <1> SUFFICES ASSUME Inductive, [Next]_vars PROVE ThreadsAreOfStarts'
    OBVIOUS
  <1> Inductive
    OBVIOUS
  <1> /\ port \in Start \cup {NULL}
      /\ starts \in Nat
      /\ threadPc \in [Start -> ThreadPc]
    BY DEF Inductive, TypeOK
  <1> USE Numbers DEF Inductive, ThreadsAreOfStarts, ReadsAreOfStarts, PortIsKnown,
        members, ioService, history, OwnerStep, OwnerAt, ThreadAt
  <1>1. CASE StartRefused \/ StopLocks
    BY <1>1 DEF StartRefused, StopLocks, Lock
  <1>2. CASE StartNew
    BY <1>2 DEF StartNew, Start
  <1>3. ASSUME NEW c \in Char, set_eol_char(c) PROVE ThreadsAreOfStarts'
    BY <1>3 DEF set_eol_char
  <1>4. CASE RefusedReturns \/ OpenFails \/ Opens \/ StartThrows
    BY <1>4 DEF RefusedReturns, OpenFails, Opens, StartThrows
  <1>5. CASE SpawnThread
    BY <1>5 DEF SpawnThread
  <1>6. CASE FirstRead
    <2>1. Reads(port, {"pending", "ready"})
      BY <1>6, FirstReadReads
    <2> QED BY <2>1, <1>6 DEF FirstRead, Reads
  <1>7. CASE StopThrows
    BY <1>7 DEF StopThrows, Unlock
  <1>8. CASE ClosePort
    <2>1. TypeOK
      BY DEF Inductive
    <2>2. /\ read' \in [Start -> Read]
          /\ \A k \in Start : /\ read'[k].on = read[k].on
                              /\ read'[k].is \in {read[k].is, "ready"}
                              /\ read'[k].is # read[k].is => read[k].is = "pending"
                              /\ read'[k].is = "pending" => read[k].on # port
                              /\ read'[k].got # -1 => read'[k] = read[k]
      BY <1>8, <2>1, ClosePortEffect
    <2> HIDE DEF TypeOK
    <2> QED BY <2>2, <1>8 DEF ClosePort
  <1>9. CASE StopIoService \/ ResetIoService
    BY <1>9 DEF StopIoService, ResetIoService, Reset, Unlock
  <1>10. CASE write_bytes
    BY <1>10 DEF write_bytes, WriteTests, WriteEnds, WriteFaults, pcs
  <1>11. ASSUME NEW t \in Start, HandlerTooLate(t) PROVE ThreadsAreOfStarts'
    BY <1>11 DEF HandlerTooLate
  <1>12. ASSUME NEW t \in Start, HandlerLocks(t) PROVE ThreadsAreOfStarts'
    BY <1>12 DEF HandlerLocks, Lock
  <1>13. ASSUME NEW t \in Start, HandlerRearms(t) PROVE ThreadsAreOfStarts'
    <2>1. /\ handling[t] \in Start /\ threadPc[t] = "handle"
          /\ read[handling[t]].is = "taken"
          /\ Reads(handling[t], {"pending", "ready"})
      BY <1>13, RearmReads
    <2> QED BY <2>1, <1>13 DEF HandlerRearms, Unlock, Reads
  <1>14. ASSUME NEW t \in Start, Consume(t) PROVE ThreadsAreOfStarts'
    BY <1>14 DEF Consume, More
  <1>15. ASSUME NEW t \in Start, HandlerReturns(t) PROVE ThreadsAreOfStarts'
    BY <1>15 DEF HandlerReturns, Unlock
  <1>16. ASSUME NEW t \in Start, EnterRun(t) \/ FindsNoWork(t) \/ LeaveRun(t)
           PROVE  ThreadsAreOfStarts'
    BY <1>16 DEF EnterRun, FindsNoWork, LeaveRun
  <1>17. ASSUME NEW t \in Start, WorkFinished(t) PROVE ThreadsAreOfStarts'
    BY <1>17 DEF WorkFinished
  <1>18. ASSUME NEW t \in Start, NEW k \in Start, Dequeue(t, k) PROVE ThreadsAreOfStarts'
    BY <1>18 DEF Dequeue
  <1>19. ASSUME NEW t \in Start, NEW k \in Start, ReadCompletes(t, k)
           PROVE  ThreadsAreOfStarts'
    <2>1. read[k].is = "pending" /\ read[k].on = port /\ Reads(k, {"ready"})
      BY <1>19, ReadCompletesReads
    <2> QED BY <2>1, <1>19 DEF ReadCompletes, Reads
  <1>20. CASE UNCHANGED vars
    BY <1>20 DEF vars, pcs
  <1> QED
    BY <1>1, <1>2, <1>3, <1>4, <1>5, <1>6, <1>7, <1>8, <1>9, <1>10, <1>11, <1>12, <1>13,
           <1>14, <1>15, <1>16, <1>17, <1>18, <1>19, <1>20
       DEF Next, Calls, Goes, on_receive, RunSteps

\* A read is posted again only by the one handler it has.
LEMMA HandlersHaveReadsStep == Inductive /\ [Next]_vars => HandlersHaveReads'
  <1> SUFFICES ASSUME Inductive, [Next]_vars PROVE HandlersHaveReads'
    OBVIOUS
  <1> Inductive
    OBVIOUS
  <1> /\ port \in Start \cup {NULL}
      /\ read \in [Start -> Read]
      /\ threadPc \in [Start -> ThreadPc]
      /\ handling \in [Start -> Start \cup {NULL}]
    BY DEF Inductive, TypeOK
  <1> USE Numbers DEF Inductive, HandlersHaveReads, ReadsAreOfStarts, PortIsKnown,
        members, ioService, history, OwnerStep, OwnerAt, ThreadAt
  <1>1. CASE StartRefused \/ StopLocks
    BY <1>1 DEF StartRefused, StopLocks, Lock
  <1>2. CASE StartNew
    BY <1>2 DEF StartNew, Start
  <1>3. ASSUME NEW c \in Char, set_eol_char(c) PROVE HandlersHaveReads'
    BY <1>3 DEF set_eol_char
  <1>4. CASE RefusedReturns \/ OpenFails \/ Opens \/ StartThrows
    BY <1>4 DEF RefusedReturns, OpenFails, Opens, StartThrows
  <1>5. CASE SpawnThread
    BY <1>5 DEF SpawnThread
  <1>6. CASE FirstRead
    <2>1. Reads(port, {"pending", "ready"})
      BY <1>6, FirstReadReads
    <2> QED BY <2>1, <1>6 DEF FirstRead, Reads
  <1>7. CASE StopThrows
    BY <1>7 DEF StopThrows, Unlock
  <1>8. CASE ClosePort
    <2>1. TypeOK
      BY DEF Inductive
    <2>2. /\ read' \in [Start -> Read]
          /\ \A k \in Start : /\ read'[k].on = read[k].on
                              /\ read'[k].is \in {read[k].is, "ready"}
                              /\ read'[k].is # read[k].is => read[k].is = "pending"
                              /\ read'[k].is = "pending" => read[k].on # port
                              /\ read'[k].got # -1 => read'[k] = read[k]
      BY <1>8, <2>1, ClosePortEffect
    <2>3. threadPc' = threadPc /\ handling' = handling
      BY <1>8 DEF ClosePort
    <2>4. \A j \in Start : read[j].is = "taken" => read'[j].is = "taken"
      BY <2>2
    <2> HIDE DEF TypeOK
    <2> QED BY <2>3, <2>4
  <1>9. CASE StopIoService \/ ResetIoService
    BY <1>9 DEF StopIoService, ResetIoService, Reset, Unlock
  <1>10. CASE write_bytes
    BY <1>10 DEF write_bytes, WriteTests, WriteEnds, WriteFaults, pcs
  <1>11. ASSUME NEW t \in Start, HandlerTooLate(t) PROVE HandlersHaveReads'
    BY <1>11 DEF HandlerTooLate
  <1>12. ASSUME NEW t \in Start, HandlerLocks(t) PROVE HandlersHaveReads'
    BY <1>12 DEF HandlerLocks, Lock
  <1>13. ASSUME NEW t \in Start, HandlerRearms(t) PROVE HandlersHaveReads'
    <2>1. /\ handling[t] \in Start /\ threadPc[t] = "handle"
          /\ read[handling[t]].is = "taken"
          /\ Reads(handling[t], {"pending", "ready"})
      BY <1>13, RearmReads
    <2>2. threadPc' = [threadPc EXCEPT ![t] = "done"] /\ handling' = handling
      BY <1>13 DEF HandlerRearms
    <2>3. threadPc \in [Start -> ThreadPc] /\ \A u \in Start \ {t} : threadPc'[u] = threadPc[u]
      BY <2>2
    <2>4. \A u \in Start \ {t} : threadPc[u] \in {"lock", "handle"} => handling[u] # handling[t]
      BY <2>1
    <2>5. \A k \in Start \ {handling[t]} : read'[k] = read[k]
      BY <2>1 DEF Reads
    <2>6. threadPc'[t] = "done"
      BY <2>2
    <2> HIDE DEF TypeOK
    <2>7. ASSUME NEW u \in Start, threadPc'[u] \in {"lock", "handle"}
          PROVE  /\ handling[u] \in Start /\ read'[handling[u]].is = "taken"
                 /\ \A v \in Start \ {u} :
                      threadPc'[v] \in {"lock", "handle"} => handling[v] # handling[u]
      <3>1. u # t /\ threadPc[u] \in {"lock", "handle"}
        BY <2>3, <2>6, <2>7
      <3>2. handling[u] \in Start /\ read[handling[u]].is = "taken"
        BY <3>1
      <3>3. handling[u] # handling[t]
        BY <2>4, <3>1
      <3>4. read'[handling[u]].is = "taken"
        BY <2>5, <3>2, <3>3
      <3>5. ASSUME NEW v \in Start \ {u}, threadPc'[v] \in {"lock", "handle"}
            PROVE  handling[v] # handling[u]
        BY <2>3, <2>6, <3>1, <3>5
      <3>6. QED
        BY <3>2, <3>4, <3>5
    <2> QED BY <2>2, <2>7
  <1>14. ASSUME NEW t \in Start, Consume(t) PROVE HandlersHaveReads'
    BY <1>14 DEF Consume, More
  <1>15. ASSUME NEW t \in Start, HandlerReturns(t) PROVE HandlersHaveReads'
    BY <1>15 DEF HandlerReturns, Unlock
  <1>16. ASSUME NEW t \in Start, EnterRun(t) \/ FindsNoWork(t) \/ LeaveRun(t)
           PROVE  HandlersHaveReads'
    BY <1>16 DEF EnterRun, FindsNoWork, LeaveRun
  <1>17. ASSUME NEW t \in Start, WorkFinished(t) PROVE HandlersHaveReads'
    BY <1>17 DEF WorkFinished
  <1>18. ASSUME NEW t \in Start, NEW k \in Start, Dequeue(t, k) PROVE HandlersHaveReads'
    BY <1>18 DEF Dequeue
  <1>19. ASSUME NEW t \in Start, NEW k \in Start, ReadCompletes(t, k) PROVE HandlersHaveReads'
    <2>1. read[k].is = "pending" /\ read[k].on = port /\ Reads(k, {"ready"})
      BY <1>19, ReadCompletesReads
    <2>2. \A j \in Start : read[j].is = "taken" => read'[j].is = "taken"
      BY <2>1 DEF Reads
    <2>3. threadPc' = threadPc /\ handling' = handling
      BY <1>19 DEF ReadCompletes
    <2> QED BY <2>2, <2>3
  <1>20. CASE UNCHANGED vars
    BY <1>20 DEF vars, pcs
  <1> QED
    BY <1>1, <1>2, <1>3, <1>4, <1>5, <1>6, <1>7, <1>8, <1>9, <1>10, <1>11, <1>12, <1>13,
           <1>14, <1>15, <1>16, <1>17, <1>18, <1>19, <1>20
       DEF Next, Calls, Goes, on_receive, RunSteps

\* The io_service is reset before stop() returns.
LEMMA StoppedByOwnerOrDryStep == Inductive /\ [Next]_vars => StoppedByOwnerOrDry'
  <1> SUFFICES ASSUME Inductive, [Next]_vars PROVE StoppedByOwnerOrDry'
    OBVIOUS
  <1> Inductive
    OBVIOUS
  <1> USE Numbers DEF Inductive, StoppedByOwnerOrDry,
        members, ioService, history, OwnerStep, OwnerAt, ThreadAt
  <1>1. CASE StartRefused \/ StopLocks
    BY <1>1 DEF StartRefused, StopLocks, Lock
  <1>2. CASE StartNew
    BY <1>2 DEF StartNew, Start
  <1>3. ASSUME NEW c \in Char, set_eol_char(c) PROVE StoppedByOwnerOrDry'
    BY <1>3 DEF set_eol_char
  <1>4. CASE RefusedReturns \/ OpenFails \/ Opens \/ StartThrows
    BY <1>4 DEF RefusedReturns, OpenFails, Opens, StartThrows
  <1>5. CASE SpawnThread
    BY <1>5 DEF SpawnThread
  <1>6. CASE FirstRead
    <2>1. Reads(port, {"pending", "ready"})
      BY <1>6, FirstReadReads
    <2> QED BY <2>1, <1>6 DEF FirstRead, Reads
  <1>7. CASE StopThrows
    BY <1>7 DEF StopThrows, Unlock
  <1>8. CASE ClosePort
    <2>1. TypeOK
      BY DEF Inductive
    <2>2. /\ read' \in [Start -> Read]
          /\ \A k \in Start : /\ read'[k].on = read[k].on
                              /\ read'[k].is \in {read[k].is, "ready"}
                              /\ read'[k].is # read[k].is => read[k].is = "pending"
                              /\ read'[k].is = "pending" => read[k].on # port
                              /\ read'[k].got # -1 => read'[k] = read[k]
      BY <1>8, <2>1, ClosePortEffect
    <2> HIDE DEF TypeOK
    <2> QED BY <2>2, <1>8 DEF ClosePort
  <1>9. CASE StopIoService \/ ResetIoService
    BY <1>9 DEF StopIoService, ResetIoService, Reset, Unlock
  <1>10. CASE write_bytes
    BY <1>10 DEF write_bytes, WriteTests, WriteEnds, WriteFaults, pcs
  <1>11. ASSUME NEW t \in Start, HandlerTooLate(t) PROVE StoppedByOwnerOrDry'
    BY <1>11 DEF HandlerTooLate
  <1>12. ASSUME NEW t \in Start, HandlerLocks(t) PROVE StoppedByOwnerOrDry'
    BY <1>12 DEF HandlerLocks, Lock
  <1>13. ASSUME NEW t \in Start, HandlerRearms(t) PROVE StoppedByOwnerOrDry'
    <2>1. /\ handling[t] \in Start /\ threadPc[t] = "handle"
          /\ read[handling[t]].is = "taken"
          /\ Reads(handling[t], {"pending", "ready"})
      BY <1>13, RearmReads
    <2> QED BY <2>1, <1>13 DEF HandlerRearms, Unlock, Reads
  <1>14. ASSUME NEW t \in Start, Consume(t) PROVE StoppedByOwnerOrDry'
    BY <1>14 DEF Consume, More
  <1>15. ASSUME NEW t \in Start, HandlerReturns(t) PROVE StoppedByOwnerOrDry'
    BY <1>15 DEF HandlerReturns, Unlock
  <1>16. ASSUME NEW t \in Start, EnterRun(t) \/ FindsNoWork(t) \/ LeaveRun(t)
           PROVE  StoppedByOwnerOrDry'
    BY <1>16 DEF EnterRun, FindsNoWork, LeaveRun
  <1>17. ASSUME NEW t \in Start, WorkFinished(t) PROVE StoppedByOwnerOrDry'
    BY <1>17 DEF WorkFinished
  <1>18. ASSUME NEW t \in Start, NEW k \in Start, Dequeue(t, k) PROVE StoppedByOwnerOrDry'
    BY <1>18 DEF Dequeue
  <1>19. ASSUME NEW t \in Start, NEW k \in Start, ReadCompletes(t, k)
           PROVE  StoppedByOwnerOrDry'
    <2>1. read[k].is = "pending" /\ read[k].on = port /\ Reads(k, {"ready"})
      BY <1>19, ReadCompletesReads
    <2> QED BY <2>1, <1>19 DEF ReadCompletes, Reads
  <1>20. CASE UNCHANGED vars
    BY <1>20 DEF vars, pcs
  <1> QED
    BY <1>1, <1>2, <1>3, <1>4, <1>5, <1>6, <1>7, <1>8, <1>9, <1>10, <1>11, <1>12, <1>13,
           <1>14, <1>15, <1>16, <1>17, <1>18, <1>19, <1>20
       DEF Next, Calls, Goes, on_receive, RunSteps

\* A read that is outstanding keeps a thread that is in run() there.
LEMMA ThreadsServePortStep == Inductive /\ [Next]_vars => ThreadsServePort'
  <1> SUFFICES ASSUME Inductive, [Next]_vars PROVE ThreadsServePort'
    OBVIOUS
  <1> Inductive
    OBVIOUS
  <1> /\ port \in Start \cup {NULL}
      /\ starts \in Nat
      /\ read \in [Start -> Read]
      /\ threadPc \in [Start -> ThreadPc]
    BY DEF Inductive, TypeOK
  <1> USE Numbers DEF Inductive, ThreadsServePort, StoppedByOwnerOrDry, ReadsAreOfStarts,
         PortIsKnown, Outstanding, Busy, Live,
        members, ioService, history, OwnerStep, OwnerAt, ThreadAt
  <1>1. CASE StartRefused \/ StopLocks
    BY <1>1 DEF StartRefused, StopLocks, Lock
  <1>2. CASE StartNew
    BY <1>2 DEF StartNew, Start
  <1>3. ASSUME NEW c \in Char, set_eol_char(c) PROVE ThreadsServePort'
    BY <1>3 DEF set_eol_char
  <1>4. CASE RefusedReturns \/ OpenFails \/ Opens \/ StartThrows
    BY <1>4 DEF RefusedReturns, OpenFails, Opens, StartThrows
  <1>5. CASE SpawnThread
    BY <1>5 DEF SpawnThread
  <1>6. CASE FirstRead
    <2>1. Reads(port, {"pending", "ready"})
      BY <1>6, FirstReadReads
    <2> QED BY <2>1, <1>6 DEF FirstRead, Reads
  <1>7. CASE StopThrows
    BY <1>7 DEF StopThrows, Unlock
  <1>8. CASE ClosePort
    <2>1. TypeOK
      BY DEF Inductive
    <2>2. /\ read' \in [Start -> Read]
          /\ \A k \in Start : /\ read'[k].on = read[k].on
                              /\ read'[k].is \in {read[k].is, "ready"}
                              /\ read'[k].is # read[k].is => read[k].is = "pending"
                              /\ read'[k].is = "pending" => read[k].on # port
                              /\ read'[k].got # -1 => read'[k] = read[k]
      BY <1>8, <2>1, ClosePortEffect
    <2> HIDE DEF TypeOK
    <2> QED BY <2>2, <1>8 DEF ClosePort
  <1>9. CASE StopIoService \/ ResetIoService
    BY <1>9 DEF StopIoService, ResetIoService, Reset, Unlock
  <1>10. CASE write_bytes
    BY <1>10 DEF write_bytes, WriteTests, WriteEnds, WriteFaults, pcs
  <1>11. ASSUME NEW t \in Start, HandlerTooLate(t) PROVE ThreadsServePort'
    BY <1>11 DEF HandlerTooLate
  <1>12. ASSUME NEW t \in Start, HandlerLocks(t) PROVE ThreadsServePort'
    BY <1>12 DEF HandlerLocks, Lock
  <1>13. ASSUME NEW t \in Start, HandlerRearms(t) PROVE ThreadsServePort'
    <2>1. /\ handling[t] \in Start /\ threadPc[t] = "handle"
          /\ read[handling[t]].is = "taken"
          /\ Reads(handling[t], {"pending", "ready"})
      BY <1>13, RearmReads
    <2> QED BY <2>1, <1>13 DEF HandlerRearms, Unlock, Reads
  <1>14. ASSUME NEW t \in Start, Consume(t) PROVE ThreadsServePort'
    BY <1>14 DEF Consume, More
  <1>15. ASSUME NEW t \in Start, HandlerReturns(t) PROVE ThreadsServePort'
    BY <1>15 DEF HandlerReturns, Unlock
  <1>16. ASSUME NEW t \in Start, EnterRun(t) \/ FindsNoWork(t) \/ LeaveRun(t)
           PROVE  ThreadsServePort'
    BY <1>16 DEF EnterRun, FindsNoWork, LeaveRun
  <1>17. ASSUME NEW t \in Start, WorkFinished(t) PROVE ThreadsServePort'
    BY <1>17 DEF WorkFinished
  <1>18. ASSUME NEW t \in Start, NEW k \in Start, Dequeue(t, k) PROVE ThreadsServePort'
    BY <1>18 DEF Dequeue
  <1>19. ASSUME NEW t \in Start, NEW k \in Start, ReadCompletes(t, k) PROVE ThreadsServePort'
    <2>1. read[k].is = "pending" /\ read[k].on = port /\ Reads(k, {"ready"})
      BY <1>19, ReadCompletesReads
    <2> QED BY <2>1, <1>19 DEF ReadCompletes, Reads
  <1>20. CASE UNCHANGED vars
    BY <1>20 DEF vars, pcs
  <1> QED
    BY <1>1, <1>2, <1>3, <1>4, <1>5, <1>6, <1>7, <1>8, <1>9, <1>10, <1>11, <1>12, <1>13,
           <1>14, <1>15, <1>16, <1>17, <1>18, <1>19, <1>20
       DEF Next, Calls, Goes, on_receive, RunSteps

\* Only a late handler reads on a port its read was not of.
LEMMA ReadsAreOfTheirPortStep == Inductive /\ [Next]_vars => ReadsAreOfTheirPort'
  <1> SUFFICES ASSUME Inductive, [Next]_vars PROVE ReadsAreOfTheirPort'
    OBVIOUS
  <1> Inductive
    OBVIOUS
  <1> /\ port \in Start \cup {NULL}
      /\ starts \in Nat
      /\ read \in [Start -> Read]
      /\ threadPc \in [Start -> ThreadPc]
      /\ handling \in [Start -> Start \cup {NULL}]
    BY DEF Inductive, TypeOK
  <1> USE Numbers DEF Inductive, ReadsAreOfTheirPort, ReadsAreOfStarts, HandlersHaveReads,
         PortIsKnown, MutexIsHeld,
        members, ioService, history, OwnerStep, OwnerAt, ThreadAt
  <1>1. CASE StartRefused \/ StopLocks
    BY <1>1 DEF StartRefused, StopLocks, Lock
  <1>2. CASE StartNew
    BY <1>2 DEF StartNew, Start
  <1>3. ASSUME NEW c \in Char, set_eol_char(c) PROVE ReadsAreOfTheirPort'
    BY <1>3 DEF set_eol_char
  <1>4. CASE RefusedReturns \/ OpenFails \/ Opens \/ StartThrows
    BY <1>4 DEF RefusedReturns, OpenFails, Opens, StartThrows
  <1>5. CASE SpawnThread
    BY <1>5 DEF SpawnThread
  <1>6. CASE FirstRead
    <2>1. Reads(port, {"pending", "ready"})
      BY <1>6, FirstReadReads
    <2> QED BY <2>1, <1>6 DEF FirstRead, Reads
  <1>7. CASE StopThrows
    BY <1>7 DEF StopThrows, Unlock
  <1>8. CASE ClosePort
    <2>1. TypeOK
      BY DEF Inductive
    <2>2. /\ read' \in [Start -> Read]
          /\ \A k \in Start : /\ read'[k].on = read[k].on
                              /\ read'[k].is \in {read[k].is, "ready"}
                              /\ read'[k].is # read[k].is => read[k].is = "pending"
                              /\ read'[k].is = "pending" => read[k].on # port
                              /\ read'[k].got # -1 => read'[k] = read[k]
      BY <1>8, <2>1, ClosePortEffect
    <2> HIDE DEF TypeOK
    <2> QED BY <2>2, <1>8 DEF ClosePort
  <1>9. CASE StopIoService \/ ResetIoService
    BY <1>9 DEF StopIoService, ResetIoService, Reset, Unlock
  <1>10. CASE write_bytes
    BY <1>10 DEF write_bytes, WriteTests, WriteEnds, WriteFaults, pcs
  <1>11. ASSUME NEW t \in Start, HandlerTooLate(t) PROVE ReadsAreOfTheirPort'
    BY <1>11 DEF HandlerTooLate
  <1>12. ASSUME NEW t \in Start, HandlerLocks(t) PROVE ReadsAreOfTheirPort'
    BY <1>12 DEF HandlerLocks, Lock
  <1>13. ASSUME NEW t \in Start, HandlerRearms(t) PROVE ReadsAreOfTheirPort'
    <2>1. /\ handling[t] \in Start /\ threadPc[t] = "handle"
          /\ Reads(handling[t], {"pending", "ready"})
      BY <1>13, RearmReads
    <2>2. late' = late /\ port' = port /\ handling' = handling
      BY <1>13 DEF HandlerRearms
    <2>3. CASE ~late
      <3>1. handling[t] = port
        BY <2>1, <2>3
      <3>2. /\ \A k \in Start : read'[k].is # "none" => read'[k].on = k
            /\ \A k \in Start : read'[k].is = "pending" => k = port
        BY <2>1, <2>3, <3>1 DEF Reads
      <3>3. \A u \in Start : threadPc'[u] = "handle" => threadPc[u] = "handle"
        BY <1>13 DEF HandlerRearms
      <3>4. read'[port].is \in {"ready", "taken"} /\ read'[port].got # -1 => raw' = port
        BY <2>1, <3>1 DEF Reads
      <3> QED BY <2>2, <2>3, <3>2, <3>3, <3>4
    <2> QED BY <2>2, <2>3
  <1>14. ASSUME NEW t \in Start, Consume(t) PROVE ReadsAreOfTheirPort'
    BY <1>14 DEF Consume, More
  <1>15. ASSUME NEW t \in Start, HandlerReturns(t) PROVE ReadsAreOfTheirPort'
    BY <1>15 DEF HandlerReturns, Unlock
  <1>16. ASSUME NEW t \in Start, EnterRun(t) \/ FindsNoWork(t) \/ LeaveRun(t)
           PROVE  ReadsAreOfTheirPort'
    BY <1>16 DEF EnterRun, FindsNoWork, LeaveRun
  <1>17. ASSUME NEW t \in Start, WorkFinished(t) PROVE ReadsAreOfTheirPort'
    BY <1>17 DEF WorkFinished
  <1>18. ASSUME NEW t \in Start, NEW k \in Start, Dequeue(t, k) PROVE ReadsAreOfTheirPort'
    BY <1>18 DEF Dequeue
  <1>19. ASSUME NEW t \in Start, NEW k \in Start, ReadCompletes(t, k)
           PROVE  ReadsAreOfTheirPort'
    <2>1. read[k].is = "pending" /\ Reads(k, {"ready"})
      BY <1>19, ReadCompletesReads
    <2>2. late' = late /\ port' = port /\ handling' = handling
      BY <1>19 DEF ReadCompletes
    <2>3. CASE ~late
      <3>1. k = port
        BY <2>1, <2>3
      <3>2. /\ \A j \in Start : read'[j].is # "none" => read'[j].on = j
            /\ \A j \in Start : read'[j].is = "pending" => j = port
        BY <2>1, <2>3, <3>1 DEF Reads
      <3>3. \A u \in Start : threadPc'[u] = "handle" => threadPc[u] = "handle"
        BY <1>19 DEF ReadCompletes
      <3>4. read'[port].got # -1 => raw' = port
        BY <2>1, <3>1 DEF Reads
      <3> QED BY <2>2, <2>3, <3>2, <3>3, <3>4
    <2> QED BY <2>2, <2>3
  <1>20. CASE UNCHANGED vars
    BY <1>20 DEF vars, pcs
  <1> QED
    BY <1>1, <1>2, <1>3, <1>4, <1>5, <1>6, <1>7, <1>8, <1>9, <1>10, <1>11, <1>12, <1>13,
           <1>14, <1>15, <1>16, <1>17, <1>18, <1>19, <1>20
       DEF Next, Calls, Goes, on_receive, RunSteps

\* Only a writer aborts, one that found a port before; every other step leaves the process
\* alive.
LEMMA AbortsOnlyInOverlapStep == Inductive /\ [Next]_vars => AbortsOnlyInOverlap'
  <1> SUFFICES ASSUME Inductive, [Next]_vars PROVE AbortsOnlyInOverlap'
    OBVIOUS
  <1> USE DEF AbortsOnlyInOverlap, OwnerStep, OwnerAt, ThreadAt
  <1>1. CASE Calls
    BY <1>1 DEF Calls, StartRefused, StartNew, StopLocks, set_eol_char
  <1>2. CASE Goes
    BY <1>2 DEF Goes, RefusedReturns, OpenFails, Opens, StartThrows, SpawnThread, FirstRead,
                StopThrows, ClosePort, StopIoService, ResetIoService
  <1>3. CASE WriteTests \/ WriteEnds
    BY <1>3 DEF WriteTests, WriteEnds
  <1>4. CASE WriteFaults
    BY <1>4 DEF WriteFaults, Inductive, PortIsKnown, history
  <1>5. ASSUME NEW t \in Start, on_receive(t) \/ RunSteps(t)
        PROVE  AbortsOnlyInOverlap'
    BY <1>5 DEF on_receive, HandlerTooLate, HandlerLocks, HandlerRearms, Consume,
                HandlerReturns, RunSteps, EnterRun, FindsNoWork, LeaveRun, WorkFinished,
                Dequeue
  <1>6. ASSUME NEW t \in Start, NEW k \in Start, ReadCompletes(t, k)
        PROVE  AbortsOnlyInOverlap'
    BY <1>6 DEF ReadCompletes
  <1>7. CASE UNCHANGED vars
    BY <1>7 DEF vars, history, Inductive
  <1> QED BY <1>1, <1>2, <1>3, <1>4, <1>5, <1>6, <1>7 DEF Next, write_bytes

-----------------------------------------------------------------------------
\* The invariant holds at the start.
LEMMA InitInductive == Init => Inductive
  <1> USE Numbers
  <1>1. Init => TypeOK
    <2> SUFFICES ASSUME Init PROVE TypeOK
      OBVIOUS
    <2>1. read \in [Start -> Read]
      BY DEF Init, Read, NoRead
    <2>2. i \in 0 .. MaxRead /\ starts \in 0 .. MaxStarts
      BY DEF Init
    <2>3. /\ port \in Start \cup {NULL} /\ mutex \in Start \cup {Nobody, Owner}
          /\ raw \in Start \cup {NULL} /\ str \subseteq Start \cup {NULL} /\ eol \in Char
          /\ threadPc \in [Start -> ThreadPc] /\ handling \in [Start -> Start \cup {NULL}]
          /\ ownerPc \in OwnerPc /\ writerPc \in {"idle", "write"}
      BY DEF Init, OwnerPc, ThreadPc
    <2>4. alive \in BOOLEAN /\ isOpen \in BOOLEAN /\ stopped \in BOOLEAN
      BY Zenon DEF Init
    <2>5. overlap \in BOOLEAN /\ late \in BOOLEAN /\ dry \in BOOLEAN
      BY Zenon DEF Init
    <2>6. IndexInRead
      BY DEF Init, IndexInRead
    <2> QED BY <2>1, <2>2, <2>3, <2>4, <2>5, <2>6 DEF TypeOK
  <1>2. Init => MutexIsHeld /\ PortIsKnown /\ AbortsOnlyInOverlap
    BY DEF Init, MutexIsHeld, PortIsKnown, AbortsOnlyInOverlap
  <1>3. Init => ReadsAreOfStarts /\ ThreadsAreOfStarts /\ HandlersHaveReads
    BY DEF Init, ReadsAreOfStarts, ThreadsAreOfStarts, HandlersHaveReads, NoRead
  <1>4. Init => StoppedByOwnerOrDry /\ ThreadsServePort /\ ReadsAreOfTheirPort
    BY DEF Init, StoppedByOwnerOrDry, ThreadsServePort, ReadsAreOfTheirPort, Outstanding,
           NoRead
  <1> QED BY <1>1, <1>2, <1>3, <1>4 DEF Inductive

\* Inductive is an invariant of the serial handler.
THEOREM InductiveHolds == Spec => []Inductive
  <1>1. Inductive /\ [Next]_vars => Inductive'
    BY TypeOKStep, MutexIsHeldStep, PortIsKnownStep, ReadsAreOfStartsStep,
           ThreadsAreOfStartsStep, HandlersHaveReadsStep, StoppedByOwnerOrDryStep,
           ThreadsServePortStep, ReadsAreOfTheirPortStep,
           AbortsOnlyInOverlapStep
       DEF Inductive
  <1> QED BY InitInductive, <1>1, PTL DEF Spec

\* Every variable has a value of its type, however many starts there are, and the loop of
\* a handler stays within the bytes of its read.
THEOREM TypeCorrect == Spec => []TypeOK
  BY InductiveHolds, PTL DEF Inductive

\* A handler reads its own read's bytes, until one is late.
THEOREM ReadsItsOwn == Spec => []HandlerReadsItsOwn
  <1>1. Inductive => HandlerReadsItsOwn
    BY Numbers DEF Inductive, TypeOK, PortIsKnown, HandlersHaveReads, ReadsAreOfTheirPort,
                   HandlerReadsItsOwn
  <1> QED BY InductiveHolds, <1>1, PTL

\* A port whose start posted its read in time has a thread to hear it.
THEOREM Served == Spec => []PortIsServed
  <1>1. Inductive => PortIsServed
    BY DEF Inductive, ThreadsServePort, PortIsServed
  <1> QED BY InductiveHolds, <1>1, PTL

\* No write aborts the process unless a stop() closed the port since the writer tested it.
THEOREM AbortsInOverlap == Spec => []AbortsOnlyInOverlap
  BY InductiveHolds, PTL DEF Inductive

\* The port does not change under a handler.
THEOREM KeepsPort == Spec => HandlerKeepsPort
  <1>1. ASSUME Inductive, [Next]_vars, NEW t \in Start, threadPc[t] = "handle"
        PROVE  port' = port /\ isOpen' = isOpen
    <2>1. mutex # Owner /\ port # NULL /\ ownerPc \notin {"cancel", "open"}
      BY <1>1, Numbers DEF Inductive, TypeOK, MutexIsHeld, PortIsKnown
    <2> USE DEF members, OwnerStep, OwnerAt, ThreadAt
    <2>2. CASE Calls
      BY <2>1, <2>2 DEF Calls, StartRefused, StartNew, StopLocks, set_eol_char
    <2>3. CASE Goes
      BY <2>1, <2>3 DEF Goes, RefusedReturns, OpenFails, Opens, StartThrows, SpawnThread,
         FirstRead, StopThrows, ClosePort, StopIoService, ResetIoService
    <2>4. CASE write_bytes
      BY <2>4 DEF write_bytes, WriteTests, WriteEnds, WriteFaults
    <2>5. ASSUME NEW u \in Start, on_receive(u) \/ RunSteps(u)
          PROVE  port' = port /\ isOpen' = isOpen
      BY <2>5 DEF on_receive, HandlerTooLate, HandlerLocks, HandlerRearms, Consume,
             HandlerReturns,
         RunSteps, EnterRun, FindsNoWork, LeaveRun, WorkFinished, Dequeue
    <2>6. ASSUME NEW u \in Start, NEW k \in Start, ReadCompletes(u, k)
          PROVE  port' = port /\ isOpen' = isOpen
      BY <2>6 DEF ReadCompletes
    <2>7. CASE UNCHANGED vars
      BY <2>7 DEF vars
    <2> QED BY <1>1, <2>2, <2>3, <2>4, <2>5, <2>6, <2>7 DEF Next
  <1>2. Inductive /\ [Next]_vars =>
            [(\E t \in Start : threadPc[t] = "handle") => port' = port /\ isOpen' = isOpen]_vars
    BY <1>1
  <1> QED BY InductiveHolds, <1>2, PTL DEF Spec, HandlerKeepsPort

\* The handler implements SerialPort: the order of starts, stops and threads shows in no
\* line but by a handler that is late.
THEOREM ImplementsAPort == Spec => ImplementsPort
  <1>1. Init => Port!Init
    BY DEF Init, Port!Init
  <1>2. ASSUME Inductive, [Next]_vars PROVE [Port!Next]_(Port!pvars)
    <2>1. /\ port \in Start \cup {NULL} /\ starts \in Nat /\ raw \in Nat
          /\ handling \in [Start -> Start \cup {NULL}]
          /\ port <= starts /\ raw <= starts
      BY <1>2, Numbers DEF Inductive, TypeOK, ReadsAreOfStarts
    <2> USE DEF members, history, OwnerStep, OwnerAt, ThreadAt, Port!pvars
    <2>2. CASE StartNew
      BY <2>1, <2>2 DEF StartNew, Port!Next, Port!Make
    <2>3. CASE Opens
      BY <1>2, <2>3 DEF Opens, Inductive, PortIsKnown, Port!Next, Port!Open
    <2>4. CASE ClosePort
      BY <2>4 DEF ClosePort, Port!Next, Port!Remove
    <2>5. ASSUME NEW t \in Start, HandlerLocks(t) PROVE [Port!Next]_(Port!pvars)
      <3>1. /\ isOpen /\ UNCHANGED <<starts, port, isOpen, str>>
            /\ late' = (late \/ read[handling[t]].on # port)
        BY <2>5 DEF HandlerLocks
      <3>2. CASE late \/ read[handling[t]].on = port
        <4>1. late' = late
          <5>1. late \in BOOLEAN
            BY <1>2, Zenon DEF Inductive, TypeOK
          <5>2. late' = (late \/ ~(read[handling[t]].on = port))
            BY <3>1, Zenon
          <5> QED BY <3>2, <5>1, <5>2
        <4> QED BY <3>1, <4>1
      <3>3. CASE ~late /\ read[handling[t]].on # port
        <4>1. /\ handling[t] \in Start /\ handling[t] <= starts /\ handling[t] # port
              /\ port # NULL
          BY <1>2, <2>5, <3>1, <3>3
             DEF HandlerLocks, Inductive, HandlersHaveReads, ReadsAreOfStarts,
                 ReadsAreOfTheirPort, PortIsKnown
        <4>2. starts > 1
          BY <2>1, <4>1 DEF Start
        <4> QED BY <3>1, <3>3, <4>2 DEF Port!Next, Port!Stray
      <3> QED BY <3>2, <3>3
    <2>6. ASSUME NEW t \in Start, Consume(t) PROVE [Port!Next]_(Port!pvars)
      <3>1. /\ isOpen /\ UNCHANGED <<starts, port, isOpen, late>>
            /\ str' \in {{}, str \cup {raw}}
        BY <1>2, <2>6 DEF Consume, Inductive, PortIsKnown
      <3>2. raw = port \/ late
        BY <1>2, <2>1, <2>6, Numbers
           DEF Consume, More, Inductive, TypeOK, Read, PortIsKnown, HandlersHaveReads,
               ReadsAreOfTheirPort
      <3>3. raw \in 0 .. starts
        BY <2>1
      <3> QED BY <3>1, <3>2, <3>3 DEF Port!Next, Port!Hear
    <2>7. CASE \/ StartRefused \/ StopLocks \/ \E c \in Char : set_eol_char(c)
               \/ RefusedReturns \/ OpenFails \/ StartThrows \/ SpawnThread \/ FirstRead
               \/ StopThrows \/ StopIoService \/ ResetIoService
      BY <2>7 DEF StartRefused, StopLocks, set_eol_char, RefusedReturns, OpenFails,
         StartThrows, SpawnThread, FirstRead, StopThrows, StopIoService, ResetIoService
    <2>8. CASE write_bytes
      BY <2>8 DEF write_bytes, WriteTests, WriteEnds, WriteFaults
    <2>9. ASSUME NEW t \in Start,
                 HandlerTooLate(t) \/ HandlerRearms(t) \/ HandlerReturns(t) \/ RunSteps(t)
          PROVE  [Port!Next]_(Port!pvars)
      BY <2>9 DEF HandlerTooLate, HandlerRearms, HandlerReturns, RunSteps, EnterRun,
         FindsNoWork, LeaveRun, WorkFinished, Dequeue
    <2>10. ASSUME NEW t \in Start, NEW k \in Start, ReadCompletes(t, k)
           PROVE  [Port!Next]_(Port!pvars)
      BY <2>10 DEF ReadCompletes
    <2>11. CASE UNCHANGED vars
      BY <2>11 DEF vars
    <2> QED
      BY <1>2, <2>2, <2>3, <2>4, <2>5, <2>6, <2>7, <2>8, <2>9, <2>10, <2>11
         DEF Next, Calls, Goes, on_receive
  <1> QED BY InductiveHolds, <1>1, <1>2, PTL DEF Spec, ImplementsPort, Port!Spec

=============================================================================
