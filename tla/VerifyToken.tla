---------------------------- MODULE VerifyToken ----------------------------
(***************************************************************************)
(* lidarserver::verifyToken: the look-up of a token and the extension of   *)
(* its user's sessions, one step per call of the sqlite3 library.  The     *)
(* socket thread makes calls one after the other for as long as the        *)
(* process runs; between two steps the clock moves on and other processes  *)
(* write to the table.                                                     *)
(*                                                                         *)
(* The library is external.  Every call of it may fail (the file cannot be *)
(* opened, a table is missing, another process holds a lock, the disk      *)
(* fails), and what a call acquires is counted until it is given back.     *)
(***************************************************************************)
EXTENDS TokenTable

CONSTANT MaxCalls   \* bound: calls of verifyToken

ASSUME CallsAssumption == MaxCalls \in Nat

VARIABLES
    pc,
    arg,        \* the token
    buffer,     \* the time in the query that is being made
    uid,        \* the user of the last row read
    answer,     \* what the call is about to return
    result,     \* what the last call returned
    \* what the process holds: connections to the database, statements of the
    \* connection in use, query strings
    connections, statements, queries,
    \* history: when the call was made, the calls made, those that found no
    \* row and those that found some; was the token live at any moment of
    \* the call
    since, calls, empty, found, wasLive

callVars == <<arg, buffer, uid, answer, result>>
heldVars == <<connections, statements, queries>>
historyVars == <<since, calls, empty, found>>
vars == <<now, table, pc, callVars, heldVars, historyVars, wasLive>>

NoUser == "none"

ASSUME UsersAssumption == NoUser \notin Users

Init ==
    /\ TableInit
    /\ pc = "idle" /\ arg \in Tokens /\ buffer = now
    /\ uid = NoUser /\ answer = 0 /\ result = 0
    /\ connections = 0 /\ statements = 0 /\ queries = 0
    /\ since = now /\ calls = 0 /\ empty = 0 /\ found = 0 /\ wasLive = FALSE

At(from, to) == pc = from /\ pc' = to

Call ==
    /\ At("idle", "open")
    /\ calls < MaxCalls /\ calls' = calls + 1
    /\ arg' \in Tokens
    /\ since' = now
    /\ UNCHANGED <<now, table, buffer, uid, answer, result, heldVars, empty, found>>

\* sqlite3_open hands out a handle even when it fails; the code drops it.
OpenFails ==
    /\ At("open", "idle")
    /\ connections' = connections + 1
    /\ result' = -1
    /\ UNCHANGED <<now, table, arg, buffer, uid, answer, statements, queries, historyVars>>

Open ==
    /\ At("open", "select")
    /\ connections' = connections + 1
    /\ statements' = 0
    /\ queries' = queries + 1
    /\ buffer' = now
    /\ UNCHANGED <<now, table, arg, uid, answer, result, historyVars>>

\* Mutant: the failed prepare of the select keeps the query.
SelectFailsKeepsQuery ==
    /\ At("select", "idle")
    /\ result' = -1
    /\ UNCHANGED <<now, table, arg, buffer, uid, answer, heldVars, historyVars>>

SelectFails ==
    /\ At("select", "idle")
    /\ queries' = queries - 1
    /\ result' = -1
    /\ UNCHANGED <<now, table, arg, buffer, uid, answer, connections, statements,
                   historyVars>>

PrepareSelect ==
    /\ At("select", "step")
    /\ statements' = statements + 1
    /\ UNCHANGED <<now, table, callVars, connections, queries, historyVars>>

\* Mutants: the query is given back twice; the statement is not given back; a token
\* without a row is accepted.
NoRowFreesTwice ==
    /\ At("step", "close")
    /\ queries' = queries - 2
    /\ statements' = statements - 1
    /\ answer' = -1
    /\ empty' = empty + 1
    /\ UNCHANGED <<now, table, arg, buffer, uid, result, connections, since, calls, found>>

NoRowKeepsStatement ==
    /\ At("step", "close")
    /\ queries' = queries - 1
    /\ answer' = -1
    /\ empty' = empty + 1
    /\ UNCHANGED <<now, table, arg, buffer, uid, result, connections, statements, since,
                   calls, found>>

NoRowAccepts ==
    /\ At("step", "close")
    /\ queries' = queries - 1
    /\ statements' = statements - 1
    /\ answer' = 1
    /\ empty' = empty + 1
    /\ UNCHANGED <<now, table, arg, buffer, uid, result, connections, since, calls, found>>

(***************************************************************************)
(* The loop over sqlite3_step: the rows are read under one lock; a step    *)
(* that fails ends the loop like the last row does.  With rows, the time   *)
(* is taken again and two more strings are allocated over the first one.   *)
(***************************************************************************)
NoRow ==
    /\ At("step", "close")
    /\ queries' = queries - 1
    /\ statements' = statements - 1
    /\ answer' = -1
    /\ empty' = empty + 1
    /\ UNCHANGED <<now, table, arg, buffer, uid, result, connections, since, calls, found>>

ReadRows ==
    /\ At("step", "update")
    /\ \E last \in Live(arg, buffer) : uid' = last.userId
    /\ buffer' = now
    /\ queries' = queries + 2
    /\ found' = found + 1
    /\ UNCHANGED <<now, table, arg, answer, result, connections, statements, since, calls,
                   empty>>

\* The failed prepare leaves NULL in stmt, so that finalize does nothing.
UpdateFails ==
    /\ At("update", "close")
    /\ queries' = queries - 1
    /\ answer' = -1
    /\ UNCHANGED <<now, table, arg, buffer, uid, result, connections, statements,
                   historyVars>>

\* The second statement takes the place of the first one in stmt.
PrepareUpdate ==
    /\ At("update", "write")
    /\ statements' = statements + 1
    /\ queries' = queries - 1
    /\ UNCHANGED <<now, table, callVars, connections, historyVars>>

\* Mutant: the update has no where clause.
WriteEveryRow ==
    /\ At("write", "close")
    /\ table' \in {table, {[r EXCEPT !.expiration = Extended(buffer)] : r \in table}}
    /\ statements' = statements - 1
    /\ answer' = 1
    /\ UNCHANGED <<now, arg, buffer, uid, result, connections, queries, historyVars>>

\* The result of the step is not looked at: the table may have been locked.
Write ==
    /\ At("write", "close")
    /\ table' \in {table, ExtendUser(uid, buffer)}
    /\ statements' = statements - 1
    /\ answer' = 1
    /\ UNCHANGED <<now, arg, buffer, uid, result, connections, queries, historyVars>>

\* sqlite3_close keeps a connection open that has a statement left.
Close ==
    /\ At("close", "idle")
    /\ connections' = IF statements = 0 THEN connections - 1 ELSE connections
    /\ result' = answer
    /\ uid' = NoUser
    /\ UNCHANGED <<now, table, arg, buffer, answer, statements, queries, historyVars>>

verifyToken ==
    \/ OpenFails \/ Open \/ SelectFails \/ PrepareSelect \/ NoRow \/ ReadRows
    \/ UpdateFails \/ PrepareUpdate \/ Write \/ Close

HasLive == \E r \in table : r.token = arg /\ Later(r.expiration, now)

Next ==
    \/ Call /\ wasLive' = HasLive'
    \/ verifyToken /\ UNCHANGED wasLive
    \/ /\ Others /\ UNCHANGED <<pc, callVars, heldVars, historyVars>>
       /\ wasLive' = (wasLive \/ HasLive')

Spec == Init /\ [][Next]_vars

-----------------------------------------------------------------------------
\* Every variable has a value of its type; in particular nothing is given back twice.
TypeOK ==
    /\ now \in Moments /\ table \in SUBSET Row
    /\ pc \in {"idle", "open", "select", "step", "update", "write", "close"}
    /\ arg \in Tokens /\ buffer \in Moments /\ since \in Moments
    /\ uid \in Users \cup {NoUser}
    /\ answer \in {-1, 0, 1} /\ result \in {-1, 0, 1}
    /\ connections \in Nat /\ statements \in Nat /\ queries \in Nat
    /\ calls \in Nat /\ empty \in Nat /\ found \in Nat /\ wasLive \in BOOLEAN

\* What is left behind between two calls, over any number of them: a connection by every
\* call but those that found no row, two strings by every call that found one.  So a call
\* for an unknown token costs nothing, and no call gives back what another one holds.
LeftBehind ==
    pc = "idle" => connections = calls - empty /\ queries = 2 * found

\* Where each of them is between two steps of a call: the invariant behind LeftBehind and
\* behind the counters' types.
Accounts ==
    /\ connections = calls - empty - (IF pc = "open" THEN 1 ELSE 0)
                                   + (IF pc = "close" /\ statements = 0 THEN 1 ELSE 0)
    /\ queries = 2 * found + (IF pc \in {"select", "step", "update"} THEN 1 ELSE 0)
    /\ pc \in {"open", "select", "step", "update", "write"} => empty < calls
    /\ pc = "select" => statements = 0
    /\ pc \in {"step", "update"} => statements = 1
    /\ pc = "write" => statements = 2
    /\ empty <= calls

\* A token is accepted only if it was live at some moment of the call: neither the clock,
\* which may move on between any two steps, nor rows that come and go make it accept one
\* that expired before or is issued after.
AcceptedWasLive == pc = "idle" /\ result = 1 => wasLive

\* Every row the select can return was live during the call: the invariant behind it.
Witnessed ==
    /\ pc = "open" /\ HasLive => wasLive
    /\ pc \in {"select", "step"} =>
            \A r \in table : r.token = arg /\ Later(r.expiration, buffer) => wasLive
    /\ pc \in {"update", "write"} => wasLive
    /\ pc = "close" /\ answer = 1 => wasLive
    /\ AcceptedWasLive

\* What a call has found out and when: the invariant behind KeepsPromise.
Known ==
    /\ ~Later(since, now)
    /\ pc \in {"select", "step", "update", "write"} =>
            ~Later(since, buffer) /\ ~Later(buffer, now)
    /\ pc \in {"idle", "open", "select", "step"} => uid = NoUser
    /\ pc \in {"update", "write"} => uid \in Users
    /\ pc = "close" => answer = -1 \/ (answer = 1 /\ uid \in Users)

\* At every step of a call: whose rows it found, and that they were live since it was made.
CallKnows == Known /\ Witnessed

\* A call does what TokenCheck promises: see there.
Phase ==
    CASE pc = "idle" -> "idle"
      [] pc \in {"open", "select", "step"} -> "asked"
      [] pc \in {"update", "write"} -> "confirmed"
      [] pc = "close" -> IF uid = NoUser THEN "asked" ELSE "extended"

Promise == INSTANCE TokenCheck WITH phase <- Phase, user <- uid
KeepsPromise == Promise!Spec

\* sqlite3.h:292-296, "Applications should finalize all prepared statements ... prior to
\* attempting to close the object": no statement is left when the connection is closed.
ClosesClean == pc = "close" => statements = 0

=============================================================================
