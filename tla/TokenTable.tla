---------------------------- MODULE TokenTable -----------------------------
(***************************************************************************)
(* What verifyToken shares with the rest of the machine: the clock and the *)
(* table "tokens", which other processes issue tokens into and revoke them *)
(* from.  They are external; the columns are those of the two queries.     *)
(***************************************************************************)
EXTENDS Timestamp, FiniteSets

CONSTANTS
    Tokens, Users,
    Expirations,    \* expirations other processes give a token they issue
    LastDay,        \* bound: the last day of the clock
    MaxRows         \* bound: rows in the table

ASSUME BoundAssumption == LastDay \in Nat /\ MaxRows \in Nat
ASSUME ExpirationAssumption == Expirations \subseteq Stamp

VARIABLES now, table

Row == [token : Tokens, userId : Users, expiration : Stamp]

Moments == [day : 0 .. LastDay, minute : 0 .. DayLen - 1]

TableInit ==
    /\ now = [day |-> 0, minute |-> 0]
    /\ table = {}

Tick ==
    /\ now' = IF now.minute + 1 < DayLen THEN [now EXCEPT !.minute = @ + 1]
              ELSE [day |-> now.day + 1, minute |-> 0]
    /\ now' \in Moments
    /\ UNCHANGED table

Issue ==
    /\ Cardinality(table) < MaxRows
    /\ \E t \in Tokens, u \in Users, e \in Expirations :
        /\ Later(e, now)
        /\ table' = table \cup {[token |-> t, userId |-> u, expiration |-> e]}
    /\ UNCHANGED now

Revoke ==
    /\ \E r \in table : table' = table \ {r}
    /\ UNCHANGED now

Others == Tick \/ Issue \/ Revoke

\* Mutant: expired rows count.
LiveOrExpired(tk, t) == {r \in table : r.token = tk}

\* Rows with the token that are live at time t.
Live(tk, t) == {r \in table : r.token = tk /\ Later(r.expiration, t)}

\* "update tokens set expiration = ... where userId = ...", at time t.
ExtendUser(u, t) ==
    {[r EXCEPT !.expiration = IF r.userId = u THEN Extended(t) ELSE @] : r \in table}

=============================================================================
