---------------------------- MODULE TokenCheck -----------------------------
(***************************************************************************)
(* What a call of verifyToken promises, whatever fails inside it.  It      *)
(* answers 1 only if a row with the token was live during the call; it     *)
(* changes the table at most once, after it has confirmed the token, and   *)
(* then by extending the sessions of one user that holds the token.  It    *)
(* may reject any token, and changes nothing for one it has not confirmed. *)
(***************************************************************************)
EXTENDS TokenTable

VARIABLES
    phase,      \* of the call
    arg, since, \* its token and the time it was made at
    user,       \* whom the token belongs to, once it is confirmed
    result      \* of the last call that returned

callVars == <<phase, arg, since, user, result>>
vars == <<now, table, callVars>>

NoUser == "none"

Init ==
    /\ TableInit
    /\ phase = "idle" /\ arg \in Tokens /\ since = now /\ user = NoUser /\ result = 0

Call ==
    /\ phase = "idle" /\ phase' = "asked"
    /\ arg' \in Tokens
    /\ since' = now
    /\ UNCHANGED <<now, table, user, result>>

Reject ==
    /\ phase = "asked" /\ phase' = "idle"
    /\ result' = -1
    /\ UNCHANGED <<now, table, arg, since, user>>

Confirm ==
    /\ phase = "asked" /\ phase' = "confirmed"
    /\ \E r \in Live(arg, since) : user' = r.userId
    /\ UNCHANGED <<now, table, arg, since, result>>

Extend ==
    /\ phase = "confirmed" /\ phase' = "extended"
    /\ \/ UNCHANGED table
       \/ \E t \in Moments :
            /\ ~Later(since, t) /\ ~Later(t, now)
            /\ table' = ExtendUser(user, t)
    /\ UNCHANGED <<now, arg, since, user, result>>

Answer ==
    /\ phase = "extended" /\ phase' = "idle"
    /\ result' \in {1, -1}
    /\ user' = NoUser
    /\ UNCHANGED <<now, table, arg, since>>

Next ==
    \/ Call \/ Reject \/ Confirm \/ Extend \/ Answer
    \/ Others /\ UNCHANGED callVars

Spec == Init /\ [][Next]_vars

=============================================================================
