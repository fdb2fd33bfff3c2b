------------------------- MODULE VerifyTokenProofs -------------------------
(***************************************************************************)
(* What verifyToken leaves behind, for every table, any number of calls    *)
(* and every failure of the sqlite3 library, and that it implements        *)
(* TokenCheck.                                                             *)
(***************************************************************************)
EXTENDS VerifyToken, TLAPS

\* A day has at least one minute.
LEMMA DayHasMinutes == DayLen \in Nat \ {0}
  BY ClockAssumption DEF DayLen

\* The clock shows moments, and an extended moment is a formatted time.
LEMMA MomentsAreStamps ==
    ASSUME NEW t \in Moments
    PROVE  t \in Stamp /\ Extended(t) \in Stamp
<1>1. t \in Stamp
  BY DayHasMinutes DEF Moments, Stamp
<1>2. Extended(t) = [day |-> t.day, minute |-> t.minute + Extension]
  BY <1>1 DEF Extended, Stamp
<1>3. QED
  BY <1>1, <1>2, ClockAssumption DEF Stamp

\* The update keeps rows rows.
LEMMA ExtendUserType ==
    ASSUME table \in SUBSET Row, NEW u, NEW t \in Moments
    PROVE  ExtendUser(u, t) \in SUBSET Row
<1>1. SUFFICES ASSUME NEW r \in table
               PROVE  [r EXCEPT !.expiration = IF r.userId = u THEN Extended(t) ELSE @] \in Row
  BY DEF ExtendUser
<1>2. r \in Row
  OBVIOUS
<1>3. QED
  BY <1>2, MomentsAreStamps DEF Row

\* The clock and the other processes keep the table and the time what they are.
LEMMA OthersTypes ==
    ASSUME now \in Moments, table \in SUBSET Row, Others
    PROVE  now' \in Moments /\ table' \in SUBSET Row
<1>1. CASE Tick
  BY <1>1 DEF Tick
<1>2. CASE Issue
  BY <1>2, ExpirationAssumption DEF Issue, Row
<1>3. CASE Revoke
  BY <1>3 DEF Revoke
<1>4. QED
  BY <1>1, <1>2, <1>3 DEF Others

\* The invariant holds before the first call.
LEMMA InitAccounts == Init => TypeOK /\ Accounts
<1> SUFFICES ASSUME Init
             PROVE  TypeOK /\ Accounts
  OBVIOUS
<1>1. now \in Moments /\ table = {}
  BY DayHasMinutes, BoundAssumption DEF Init, TableInit, Moments
<1>2. TypeOK
  BY <1>1 DEF Init, TypeOK
<1>3. QED
  BY <1>2 DEF Init, Accounts

\* Every step of a call accounts for what it takes and gives back.
LEMMA CallAccounts ==
    ASSUME TypeOK, Accounts, Call \/ verifyToken, wasLive' \in BOOLEAN
    PROVE  TypeOK' /\ Accounts'
<1>. USE DEF TypeOK, Accounts, At, callVars, heldVars, historyVars
<1>1. CASE Call
  BY <1>1 DEF Call
<1>2. CASE OpenFails
  BY <1>2 DEF OpenFails
<1>3. CASE Open
  BY <1>3 DEF Open
<1>4. CASE SelectFails
  BY <1>4 DEF SelectFails
<1>5. CASE PrepareSelect
  BY <1>5 DEF PrepareSelect
<1>6. CASE NoRow
  BY <1>6 DEF NoRow
<1>7. CASE ReadRows
  <2>1. uid' \in Users
    BY <1>7 DEF ReadRows, Live, Row
  <2>2. QED
    BY <1>7, <2>1 DEF ReadRows
<1>8. CASE UpdateFails
  BY <1>8 DEF UpdateFails
<1>9. CASE PrepareUpdate
  BY <1>9 DEF PrepareUpdate
<1>10. CASE Write
  <2>1. table' \in SUBSET Row
    BY <1>10, ExtendUserType DEF Write
  <2>2. QED
    BY <1>10, <2>1 DEF Write
<1>11. CASE Close
  BY <1>11 DEF Close
<1>12. QED
  BY <1>1, <1>2, <1>3, <1>4, <1>5, <1>6, <1>7, <1>8, <1>9, <1>10, <1>11 DEF verifyToken

\* So does every other step.
LEMMA NextAccounts == TypeOK /\ Accounts /\ [Next]_vars => TypeOK' /\ Accounts'
<1> SUFFICES ASSUME TypeOK, Accounts, [Next]_vars
             PROVE  TypeOK' /\ Accounts'
  OBVIOUS
<1>. wasLive' \in BOOLEAN
  BY DEF Next, HasLive, TypeOK, vars
<1>1. CASE Call \/ verifyToken
  BY <1>1, CallAccounts
<1>2. CASE Others /\ UNCHANGED <<pc, callVars, heldVars, historyVars>>
  BY <1>2, OthersTypes DEF TypeOK, Accounts, callVars, heldVars, historyVars
<1>3. CASE UNCHANGED vars
  BY <1>3 DEF TypeOK, Accounts, vars, callVars, heldVars, historyVars
<1>4. QED
  BY <1>1, <1>2, <1>3 DEF Next

\* Every variable keeps its type, and what the process holds is accounted for.
THEOREM AccountsHold == Spec => [](TypeOK /\ Accounts)
  BY InitAccounts, NextAccounts, PTL DEF Spec

\* Nothing is given back twice: the counters stay natural numbers.
THEOREM TypesOfCalls == Spec => []TypeOK
  BY AccountsHold, PTL

\* Between two calls exactly a connection by each call but those that found no row, and two
\* strings by each that found one, are left.
THEOREM LeavesBehind == Spec => []LeftBehind
<1>1. TypeOK /\ Accounts => LeftBehind
  BY DEF TypeOK, Accounts, LeftBehind
<1>2. QED
  BY <1>1, AccountsHold, PTL

-----------------------------------------------------------------------------
\* Time order is what its name says, and the clock does not go back.
LEMMA LaterOrder ==
    ASSUME NEW s \in Stamp, NEW t \in Stamp, NEW u \in Stamp
    PROVE  /\ ~Later(t, t)
           /\ ~Later(s, t) /\ ~Later(t, u) => ~Later(s, u)
           /\ Later(u, t) /\ ~Later(s, t) => Later(u, s)
  BY DEF Later, Stamp

LEMMA ClockGoesOn ==
    ASSUME now \in Moments, Others
    PROVE  ~Later(now, now')
<1>1. CASE Tick
  BY <1>1, DayHasMinutes DEF Tick, Moments, Later
<1>2. CASE now' = now
  BY <1>2, MomentsAreStamps, LaterOrder
<1>3. QED
  BY <1>1, <1>2 DEF Others, Issue, Revoke

\* Each step keeps what the call knows.
LEMMA InitKnown == Init => Known
<1> SUFFICES ASSUME Init
             PROVE  Known
  OBVIOUS
<1>1. now \in Moments /\ since = now
  BY DayHasMinutes, BoundAssumption DEF Init, TableInit, Moments
<1>2. ~Later(since, now)
  BY <1>1, MomentsAreStamps, LaterOrder
<1>3. QED
  BY <1>2 DEF Init, Known

LEMMA CallKnown ==
    ASSUME TypeOK, Known, Call \/ verifyToken
    PROVE  Known'
<1>1. /\ now' = now /\ ~Later(now, now) /\ ~Later(now', now')
  <2>1. ~Later(now, now)
    BY MomentsAreStamps, LaterOrder DEF TypeOK
  <2>2. now' = now
    BY DEF Call, verifyToken, OpenFails, Open, SelectFails, PrepareSelect, NoRow, ReadRows,
           UpdateFails, PrepareUpdate, Write, Close
  <2>3. QED
    BY <2>1, <2>2
<1>. USE DEF Known, At, callVars, heldVars, historyVars
<1>2. CASE Call
  BY <1>1, <1>2 DEF Call
<1>3. CASE OpenFails
  BY <1>3 DEF OpenFails
<1>4. CASE Open
  BY <1>1, <1>4 DEF Open
<1>5. CASE SelectFails
  BY <1>5 DEF SelectFails
<1>6. CASE PrepareSelect
  BY <1>6 DEF PrepareSelect
<1>7. CASE NoRow
  BY <1>7 DEF NoRow
<1>8. CASE ReadRows
  <2>1. uid' \in Users
    BY <1>8 DEF ReadRows, Live, Row, TypeOK
  <2>2. QED
    BY <1>1, <1>8, <2>1 DEF ReadRows
<1>9. CASE UpdateFails
  BY <1>9 DEF UpdateFails
<1>10. CASE PrepareUpdate
  BY <1>10 DEF PrepareUpdate
<1>11. CASE Write
  BY <1>11 DEF Write
<1>12. CASE Close
  BY <1>12 DEF Close
<1>13. QED
  BY <1>2, <1>3, <1>4, <1>5, <1>6, <1>7, <1>8, <1>9, <1>10, <1>11, <1>12 DEF verifyToken

LEMMA OthersKnown ==
    ASSUME TypeOK, Known, Others, UNCHANGED <<pc, callVars, heldVars, historyVars>>
    PROVE  Known'
<1>1. now \in Stamp /\ now' \in Stamp /\ since \in Stamp /\ buffer \in Stamp
  BY OthersTypes, MomentsAreStamps DEF TypeOK
<1>2. ~Later(since, now')
  BY <1>1, ClockGoesOn, LaterOrder DEF Known, TypeOK
<1>3. ~Later(buffer, now) => ~Later(buffer, now')
  BY <1>1, ClockGoesOn, LaterOrder DEF TypeOK
<1>4. QED
  BY <1>2, <1>3 DEF Known, callVars, heldVars, historyVars

LEMMA NextKnown == TypeOK /\ Known /\ [Next]_vars => Known'
<1> SUFFICES ASSUME TypeOK, Known, [Next]_vars
             PROVE  Known'
  OBVIOUS
<1>1. CASE Call \/ verifyToken
  BY <1>1, CallKnown
<1>2. CASE Others /\ UNCHANGED <<pc, callVars, heldVars, historyVars>>
  BY <1>2, OthersKnown
<1>3. CASE UNCHANGED vars
  BY <1>3 DEF Known, vars, callVars, heldVars, historyVars
<1>4. QED
  BY <1>1, <1>2, <1>3 DEF Next

-----------------------------------------------------------------------------
\* What a step of the call does to the rows it may return, and to what it knows of them.
LEMMA InitWitnessed == Init => Witnessed
  BY DEF Init, Witnessed, AcceptedWasLive

LEMMA CallWitnessed ==
    ASSUME TypeOK, Witnessed, verifyToken, UNCHANGED wasLive
    PROVE  Witnessed'
<1>. USE DEF Witnessed, AcceptedWasLive, At, callVars, heldVars, historyVars
<1>1. CASE OpenFails
  BY <1>1 DEF OpenFails
<1>2. CASE Open
  BY <1>2 DEF Open, HasLive
<1>3. CASE SelectFails
  BY <1>3 DEF SelectFails
<1>4. CASE PrepareSelect
  BY <1>4 DEF PrepareSelect
<1>5. CASE NoRow
  BY <1>5 DEF NoRow
<1>6. CASE ReadRows
  BY <1>6 DEF ReadRows, Live
<1>7. CASE UpdateFails
  BY <1>7 DEF UpdateFails
<1>8. CASE PrepareUpdate
  BY <1>8 DEF PrepareUpdate
<1>9. CASE Write
  BY <1>9 DEF Write
<1>10. CASE Close
  BY <1>10 DEF Close
<1>11. QED
  BY <1>1, <1>2, <1>3, <1>4, <1>5, <1>6, <1>7, <1>8, <1>9, <1>10 DEF verifyToken

\* A row that is issued during the call is live when it is.
LEMMA OthersWitnessed ==
    ASSUME TypeOK, Witnessed, Others, wasLive' = (wasLive \/ HasLive'),
           UNCHANGED <<pc, callVars, heldVars, historyVars>>
    PROVE  Witnessed'
<1>1. /\ pc' = pc /\ arg' = arg /\ buffer' = buffer /\ answer' = answer /\ result' = result
      /\ wasLive => wasLive'
      /\ HasLive' => wasLive'
  BY DEF callVars
<1>2. ASSUME pc \in {"select", "step"}, NEW r \in table', r.token = arg,
             Later(r.expiration, buffer)
      PROVE  wasLive'
  <2>1. CASE r \in table
    BY <1>1, <1>2, <2>1 DEF Witnessed
  <2>2. CASE r \notin table
    <3>1. now' = now /\ Later(r.expiration, now)
      BY <1>2, <2>2 DEF Others, Tick, Issue, Revoke
    <3>2. HasLive'
      BY <1>1, <1>2, <3>1 DEF HasLive
    <3>3. QED
      BY <1>1, <3>2
  <2>3. QED
    BY <2>1, <2>2
<1>3. QED
  BY <1>1, <1>2 DEF Witnessed, AcceptedWasLive

LEMMA NextWitnessed == TypeOK /\ Witnessed /\ [Next]_vars => Witnessed'
<1> SUFFICES ASSUME TypeOK, Witnessed, [Next]_vars
             PROVE  Witnessed'
  OBVIOUS
<1>1. CASE Call /\ wasLive' = HasLive'
  BY <1>1 DEF Call, At, Witnessed, AcceptedWasLive
<1>2. CASE verifyToken /\ UNCHANGED wasLive
  BY <1>2, CallWitnessed
<1>3. CASE /\ Others /\ wasLive' = (wasLive \/ HasLive')
           /\ UNCHANGED <<pc, callVars, heldVars, historyVars>>
  BY <1>3, OthersWitnessed
<1>4. CASE UNCHANGED vars
  BY <1>4 DEF Witnessed, AcceptedWasLive, HasLive, vars, callVars
<1>5. QED
  BY <1>1, <1>2, <1>3, <1>4 DEF Next

\* At every step of every call it is known whose rows were found and when they were live.
THEOREM CallsKnow == Spec => []CallKnows
<1>1. TypeOK /\ Accounts /\ CallKnows /\ [Next]_vars => CallKnows'
  BY NextKnown, NextWitnessed DEF CallKnows
<1>2. Init => CallKnows
  BY InitKnown, InitWitnessed DEF CallKnows
<1>3. QED
  BY <1>1, <1>2, AccountsHold, PTL DEF Spec

\* For every timing of the calls of the library and every change other processes make to
\* the table meanwhile, an accepted token was live during the call.
THEOREM AcceptsOnlyLive == Spec => []AcceptedWasLive
<1>1. CallKnows => AcceptedWasLive
  BY DEF CallKnows, Witnessed
<1>2. QED
  BY <1>1, CallsKnow, PTL

-----------------------------------------------------------------------------
\* The two modules read and write the same table, as TokenTable has it.
LEMMA SameTable ==
    /\ \A tk, t : Promise!Live(tk, t) = Live(tk, t)
    /\ \A u, t : Promise!ExtendUser(u, t) = ExtendUser(u, t)
    /\ \A s, t : Promise!Later(s, t) = Later(s, t)
    /\ Promise!Moments = Moments
    /\ Promise!TableInit <=> TableInit
    /\ Promise!Others <=> Others
    /\ Promise!NoUser = NoUser
<1>1. /\ \A s, t : Promise!Later(s, t) = Later(s, t)
      /\ Promise!Moments = Moments
      /\ \A t : Promise!Extended(t) = Extended(t)
      /\ Promise!NoUser = NoUser
  BY DEF Promise!Later, Later, Promise!Moments, Moments, Promise!DayLen, DayLen,
         Promise!Extended, Extended, Promise!NoUser, NoUser
<1>2. \A tk, t : Promise!Live(tk, t) = Live(tk, t)
  BY <1>1 DEF Promise!Live, Live
<1>3. \A u, t : Promise!ExtendUser(u, t) = ExtendUser(u, t)
  BY <1>1 DEF Promise!ExtendUser, ExtendUser
<1>4. Promise!TableInit <=> TableInit
  BY DEF Promise!TableInit, TableInit
<1>5. Promise!Tick <=> Tick
  BY <1>1 DEF Promise!Tick, Tick, Promise!DayLen, DayLen
<1>6. Promise!Issue <=> Issue
  <2>1. Promise!Cardinality(table) = Cardinality(table)
    BY DEF Promise!Cardinality, Cardinality
  <2>2. QED
    BY <1>1, <2>1, Zenon DEF Promise!Issue, Issue
<1>7. Promise!Revoke <=> Revoke
  BY DEF Promise!Revoke, Revoke
<1>8. QED
  BY <1>1, <1>2, <1>3, <1>4, <1>5, <1>6, <1>7 DEF Promise!Others, Others

\* The initial states are those of TokenCheck.
LEMMA InitPromise == Init => Promise!Init
  BY SameTable DEF Init, Promise!Init, Phase

\* Each step of a call is one of TokenCheck, or none.
LEMMA CallPromise ==
    ASSUME TypeOK, Known, Call \/ verifyToken
    PROVE  [Promise!Next]_(Promise!vars)
<1>. USE DEF At, Phase, callVars, heldVars, historyVars
<1>1. CASE Call
  BY <1>1 DEF Call, Promise!Call, Promise!Next
<1>2. CASE OpenFails
  BY <1>2 DEF OpenFails, Promise!Reject, Promise!Next
<1>3. CASE Open
  BY <1>3 DEF Open, Promise!vars, Promise!callVars
<1>4. CASE SelectFails
  BY <1>4 DEF SelectFails, Promise!Reject, Promise!Next
<1>5. CASE PrepareSelect
  BY <1>5 DEF PrepareSelect, Promise!vars, Promise!callVars
<1>6. CASE NoRow
  BY <1>6 DEF NoRow, Known, Promise!vars, Promise!callVars
<1>7. CASE ReadRows
  <2>1. PICK last \in Live(arg, buffer) : uid' = last.userId
    BY <1>7 DEF ReadRows
  <2>2. last \in Live(arg, since)
    <3>1. /\ last \in table /\ last.token = arg /\ Later(last.expiration, buffer)
          /\ last.expiration \in Stamp
      BY <2>1 DEF Live, TypeOK, Row
    <3>2. since \in Stamp /\ buffer \in Stamp /\ ~Later(since, buffer)
      BY <1>7, MomentsAreStamps DEF TypeOK, Known, ReadRows
    <3>3. QED
      BY <3>1, <3>2, LaterOrder DEF Live
  <2>3. \E r \in Promise!Live(arg, since) : uid' = r.userId
    BY <2>1, <2>2, SameTable
  <2>4. QED
    BY <1>7, <2>3 DEF ReadRows, Promise!Confirm, Promise!Next
<1>8. CASE UpdateFails
  <2>1. uid # NoUser
    BY <1>8, UsersAssumption DEF UpdateFails, Known
  <2>2. QED
    BY <1>8, <2>1 DEF UpdateFails, Promise!Extend, Promise!Next
<1>9. CASE PrepareUpdate
  BY <1>9 DEF PrepareUpdate, Promise!vars, Promise!callVars
<1>10. CASE Write
  <2>1. uid # NoUser
    BY <1>10, UsersAssumption DEF Write, Known
  <2>2. buffer \in Moments /\ ~Later(since, buffer) /\ ~Later(buffer, now)
    BY <1>10 DEF Write, Known, TypeOK
  <2>3. \/ UNCHANGED table
        \/ \E t \in Promise!Moments :
             /\ ~Promise!Later(since, t) /\ ~Promise!Later(t, now)
             /\ table' = Promise!ExtendUser(uid, t)
    BY <1>10, <2>2, SameTable DEF Write
  <2>4. QED
    BY <1>10, <2>1, <2>3 DEF Write, Promise!Extend, Promise!Next
<1>11. CASE Close
  <2>1. CASE uid = NoUser
    <3>1. answer = -1
      BY <1>11, <2>1, UsersAssumption DEF Close, Known
    <3>2. QED
      BY <1>11, <2>1, <3>1 DEF Close, Promise!Reject, Promise!Next
  <2>2. CASE uid # NoUser
    <3>1. answer \in {1, -1} /\ Promise!NoUser = NoUser
      BY <1>11, SameTable DEF Close, Known
    <3>2. QED
      BY <1>11, <2>2, <3>1 DEF Close, Promise!Answer, Promise!Next
  <2>3. QED
    BY <2>1, <2>2
<1>12. QED
  BY <1>1, <1>2, <1>3, <1>4, <1>5, <1>6, <1>7, <1>8, <1>9, <1>10, <1>11 DEF verifyToken

\* So is every other step.
LEMMA NextPromise == TypeOK /\ Known /\ [Next]_vars => [Promise!Next]_(Promise!vars)
<1> SUFFICES ASSUME TypeOK, Known, [Next]_vars
             PROVE  [Promise!Next]_(Promise!vars)
  OBVIOUS
<1>1. CASE Call \/ verifyToken
  BY <1>1, CallPromise
<1>2. CASE Others /\ UNCHANGED <<pc, callVars, heldVars, historyVars>>
  <2>1. UNCHANGED Promise!callVars
    BY <1>2 DEF Promise!callVars, Phase, callVars, historyVars
  <2>2. QED
    BY <1>2, <2>1, SameTable DEF Promise!Next
<1>3. CASE UNCHANGED vars
  BY <1>3 DEF vars, callVars, heldVars, historyVars, Phase, Promise!vars, Promise!callVars
<1>4. QED
  BY <1>1, <1>2, <1>3 DEF Next

\* Whatever fails inside a call, whatever other processes do to the table meanwhile and
\* however long it takes: a call answers 1 only for a token it found live, and extends at
\* most the sessions of the user it found.
THEOREM CallsKeepPromise == Spec => KeepsPromise
<1>1. TypeOK /\ Accounts /\ CallKnows /\ [Next]_vars => [Promise!Next]_(Promise!vars)
  BY NextPromise DEF CallKnows
<1>2. QED
  BY <1>1, InitPromise, AccountsHold, CallsKnow, PTL DEF Spec, KeepsPromise, Promise!Spec

=============================================================================
